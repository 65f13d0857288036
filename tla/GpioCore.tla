------------------------------ MODULE GpioCore ------------------------------
(***************************************************************************)
(* The on-board pins of src/lib/wiringPi.c: the wiringPiSetup functions,   *)
(* and then threads that call pinMode, digitalWrite and the other          *)
(* functions that change the peripherals' registers.  No function takes a  *)
(* lock, so a call is modelled as the sequence of register accesses it     *)
(* makes (todo), and the accesses of all threads interleave.               *)
(*                                                                         *)
(* Callers name pins in one of four numberings; every call translates with *)
(* the tables of PinTables.  The soft PWM and soft tone modes of pinMode   *)
(* are in SoftPins, pins above 63 in NodeTable and the device modules.     *)
(***************************************************************************)
EXTENDS PinTables, FiniteSetsExt, TLC

CONSTANTS
    Threads,
    Main,      \* the thread that runs the setup functions
    Boards,    \* revisions of the boards
    Kinds,     \* the setup functions the program may call first
    Gpios,     \* the BCM pins that are modelled
    OwnerOf,   \* the thread that uses a pin
    Modes,     \* the modes asked for, with pinModeAlt's, and the pulls
    Alts,
    Pulls,
    Bytes,     \* the bytes written with digitalWriteByte: the bits that are 1
    ToneFreqs, \* the frequencies of pwmToneWrite
    Exported,  \* pins with a file under /sys/class/gpio
    MayFail,   \* opening or mapping the hardware may fail
    ReturnCodes,\* wiringPiReturnCodes: failures are returned, not fatal
    Serial,    \* callers serialise everything but digitalRead and -Write
    MaxCalls   \* bound on the calls of each thread

ASSUME GpioAssumption ==
    /\ Main \in Threads
    /\ Gpios \subseteq 0 .. 53
    /\ OwnerOf \in [Gpios -> Threads]
    /\ Kinds \subseteq {"pins", "gpio", "phys", "sys"}
    /\ Modes \subseteq {"INPUT", "OUTPUT", "PWM_OUTPUT", "PWM_TONE_OUTPUT", "GPIO_CLOCK"}
    /\ Alts \subseteq 0 .. 7 /\ Pulls \subseteq 0 .. 2
    /\ Bytes \subseteq SUBSET (0 .. 7) /\ ToneFreqs \subseteq Nat
    /\ {Serial, MayFail, ReturnCodes} \subseteq BOOLEAN
    /\ MaxCalls \in [Threads -> Nat]

VARIABLES
    board,    \* the revision line, until the setup has used it
    layout,   \* the tables in use: pinToGpio and physToGpio
    numbering,\* wiringPiMode, "none" before the setup
    mapped,   \* the peripherals that are mapped
    exited,   \* wiringPiFailure ended the process
    todo,     \* what is left of each thread's call
    doing,    \* the kind of call: "idle", "setup", "mode", "level"
    loc,      \* the register a thread read last
    calls,    \* calls made, bounded
    fsel,     \* the function select bits of each pin
    latch,    \* the pins whose output is set
    gppud,    \* the pull that is clocked into pins
    pull,     \* the pull of each pin
    reg,      \* PWM control, ranges and data
    clk,      \* each clock: "stop", "stopping" or "run"
    div,      \* its divisor
    saved,    \* the PWM control a thread read last
    asked,    \* history: what the last call asked of each pin
    pwmAsked  \* history: ... and of PWM_CONTROL, by tones on pins without PWM too

hardware == <<fsel, latch, gppud, pull, reg, clk, div, saved>>
control  == <<board, layout, numbering, mapped, exited>>
gpioVars == <<control, todo, doing, loc, calls, hardware, asked, pwmAsked>>

Clocks == {28, 30, 32, PWMCLK_CNTL, NoClock}
PWM0_RANGE == 4
PWM1_RANGE == 8
Regs   == {PWM_CONTROL, PWM0_RANGE, PWM0_DATA, PWM1_RANGE, PWM1_DATA}

\* The values of PWM_CONTROL the code means to write.
PwmOff == 0
PwmBal == 1
PwmMs  == 2

Word(p) == {q \in Gpios : GPFSEL(q) = GPFSEL(p)}
Parts   == {"gpio", "pwm", "clk", "pads"}
NoWord  == [p \in Gpios |-> FSEL_INPT]

\* The first lines of every call: the caller's number becomes a BCM pin.
Translate(pin) ==
    CASE numbering = "pins" -> PinTable(layout)[pin]
      [] numbering = "phys" -> PhysTable(layout)[pin]
      [] OTHER -> pin

\* The caller's number of a pin, if the header has it.
Names(p) == {n \in 0 .. 63 : Translate(n) = p}
NameOf(p) == CHOOSE n \in Names(p) : TRUE

GpioInit ==
    /\ board \in Boards
    /\ layout = 2
    /\ numbering = "none"
    /\ mapped = {}
    /\ exited = FALSE
    /\ todo = [t \in Threads |-> <<>>]
    /\ doing = [t \in Threads |-> "idle"]
    /\ loc = [t \in Threads |-> NoWord]
    /\ calls = [t \in Threads |-> 0]
    /\ fsel = [p \in Gpios |-> FSEL_INPT]
    /\ latch = {}
    /\ gppud = 0
    /\ pull = [p \in Gpios |-> 0]
    /\ reg = [r \in Regs |-> 0]
    /\ clk = [c \in Clocks |-> "stop"]
    /\ div = [c \in Clocks |-> 0]
    /\ saved = [t \in Threads |-> PwmOff]
    /\ asked = [p \in Gpios |-> [level |-> 0, fsel |-> FSEL_INPT, pull |-> 0]]
    /\ pwmAsked = PwmOff

-----------------------------------------------------------------------------
(* Register accesses.                                                      *)

ReadFsel(p)      == [op |-> "readFsel", pin |-> p]
WriteFsel(p, f)  == [op |-> "writeFsel", pin |-> p, value |-> f]
SetPins(ps)      == [op |-> "set", pins |-> ps]
ClearPins(ps)    == [op |-> "clear", pins |-> ps]
WritePud(v)      == [op |-> "pud", value |-> v]
ClockPud(ps)     == [op |-> "pudclk", pins |-> ps]
WriteReg(r, v)   == [op |-> "write", reg |-> r, value |-> v]
SaveControl      == [op |-> "save"]
RestoreControl   == [op |-> "restore"]
StopClock(c)     == [op |-> "stop", clock |-> c]
AwaitClock(c)    == [op |-> "await", clock |-> c]
Divide(c, d)     == [op |-> "divide", clock |-> c, value |-> d]
StartClock(c)    == [op |-> "start", clock |-> c]
Open             == [op |-> "open"]
MapPart(x)       == [op |-> "map", part |-> x]
Number(m)        == [op |-> "number", to |-> m]

SetFsel(p, f) == <<ReadFsel(p), WriteFsel(p, f)>>

pwmSetMode(m)    == <<WriteReg(PWM_CONTROL, m)>>
pwmSetRange(r)   == <<WriteReg(PWM0_RANGE, r), WriteReg(PWM1_RANGE, r)>>

Bug_pwmSetClockNoWait(d) ==
    <<SaveControl, WriteReg(PWM_CONTROL, PwmOff),
      StopClock(PWMCLK_CNTL), Divide(PWMCLK_CNTL, d), StartClock(PWMCLK_CNTL),
      RestoreControl>>

Bug_pwmSetClockNoRestore(d) ==
    <<SaveControl, WriteReg(PWM_CONTROL, PwmOff),
      StopClock(PWMCLK_CNTL), AwaitClock(PWMCLK_CNTL), Divide(PWMCLK_CNTL, d),
      StartClock(PWMCLK_CNTL)>>

pwmSetClock(d) ==
    <<SaveControl, WriteReg(PWM_CONTROL, PwmOff),
      StopClock(PWMCLK_CNTL), AwaitClock(PWMCLK_CNTL), Divide(PWMCLK_CNTL, d),
      StartClock(PWMCLK_CNTL), RestoreControl>>

\* gpioClockSet translates the pin it is given.  (Divisor and fraction of
\* the 19.2 MHz source; only the integer part matters here.)
gpioClockSet(pin, freq) ==
    LET p == Translate(pin)
        c == IF p = NoGpio THEN NoClock ELSE gpioToClkCon(p)
    IN  <<StopClock(c), AwaitClock(c), Divide(c, Min({19200000 \div freq, 4095})), StartClock(c)>>

\* pinMode (pin, PWM_OUTPUT): nothing for a pin without PWM.
PwmOutput(p) ==
    IF gpioToPwmALT(p) = 0 THEN <<>>
    ELSE SetFsel(p, gpioToPwmALT(p)) \o pwmSetMode(PwmBal) \o pwmSetRange(1024)
           \o pwmSetClock(32)

PinModeSteps(pin, mode) ==
    LET p == Translate(pin)
    IN  CASE mode = "INPUT" -> SetFsel(p, FSEL_INPT)
          [] mode = "OUTPUT" -> SetFsel(p, FSEL_OUTP)
          [] mode = "PWM_OUTPUT" -> PwmOutput(p)
          [] mode = "PWM_TONE_OUTPUT" -> PwmOutput(p) \o pwmSetMode(PwmMs)
          [] mode = "GPIO_CLOCK" ->
               IF gpioToGpClkALT0(p) = 0 THEN <<>>
               ELSE SetFsel(p, gpioToGpClkALT0(p)) \o gpioClockSet(p, 100000)

PullSteps(pin, pud) ==
    <<WritePud(pud), ClockPud({Translate(pin)}), WritePud(0), ClockPud({})>>

Bug_WriteStepsUntranslated(pin, value) ==
    IF numbering = "sys" /\ pin \notin Exported THEN <<>>
    ELSE IF value = 0 THEN <<ClearPins({pin})>>
    ELSE <<SetPins({pin})>>

WriteSteps(pin, value) ==
    IF numbering = "sys" /\ pin \notin Exported THEN <<>>
    ELSE IF value = 0 THEN <<ClearPins({Translate(pin)})>>
    ELSE <<SetPins({Translate(pin)})>>

pwmWriteSteps(pin, value) == <<WriteReg(gpioToPwmPort(Translate(pin)), value)>>

pwmToneWriteSteps(pin, freq) ==
    IF freq = 0 THEN pwmWriteSteps(pin, 0)
    ELSE pwmSetRange(600000 \div freq) \o pwmWriteSteps(pin, freq \div 2)

\* digitalWriteByte: bit i of the byte is for wiringPi pin i; digitalWriteByte2
\* does the same for the BCM pins from 20 on.
FirstPins  == [i \in 0 .. 7 |-> PinTable(layout)[i]]
SecondPins == [i \in 0 .. 7 |-> 20 + i]
Bit(value, i) == IF i \in value THEN 1 ELSE 0

Bug_WriteByteSteps(value, pins) ==
    <<ClearPins({pins[i] : i \in 0 .. 7}),
      SetPins({pins[i] : i \in {j \in 0 .. 7 : Bit(value, j) = 1}})>>

WriteByteSteps(value, pins) ==
    IF numbering = "sys"
      THEN LET W(i) == WriteSteps(pins[i], Bit(value, i))
           IN  W(0) \o W(1) \o W(2) \o W(3) \o W(4) \o W(5) \o W(6) \o W(7)
      ELSE <<ClearPins({pins[i] : i \in {j \in 0 .. 7 : Bit(value, j) = 0}}),
             SetPins({pins[i] : i \in {j \in 0 .. 7 : Bit(value, j) = 1}})>>

(***************************************************************************)
(* wiringPiSetup opens the memory device, maps the peripherals and numbers *)
(* the pins by the header (the chip's numbers on a compute module).        *)
(* wiringPiSetupGpio and -Phys then only change the numbering; SetupSys    *)
(* opens the exported pins.                                                *)
(***************************************************************************)
SetupSteps(kind) ==
    LET hw == <<Number(IF NoHeader(piBoardId(board).model) THEN "gpio" ELSE "pins"),
                Open, MapPart("gpio"), MapPart("pwm"), MapPart("clk"), MapPart("pads")>>
    IN  CASE kind = "pins" -> hw
          [] kind = "sys" -> <<Number("sys")>>
          [] OTHER -> Append(hw, Number(kind))

-----------------------------------------------------------------------------
Idle(t) == doing[t] = "idle" /\ ~exited
SetUp   == numbering # "none" /\ doing[Main] # "setup"

\* A caller that serialises waits for the calls of the others that change
\* shared registers in more than one access.
MayUse(t, kind) ==
    /\ Idle(t) /\ SetUp
    /\ calls[t] < MaxCalls[t]
    /\ Serial /\ kind = "mode" => \A u \in Threads : doing[u] # "mode"

Begin(t, kind, steps) ==
    /\ todo' = [todo EXCEPT ![t] = steps]
    /\ doing' = [doing EXCEPT ![t] = IF steps = <<>> THEN "idle" ELSE kind]
    /\ calls' = [calls EXCEPT ![t] = @ + 1]
    /\ UNCHANGED <<control, loc, hardware>>

Mine(t) == {p \in Gpios : OwnerOf[p] = t /\ Names(p) # {}}

Setup(kind) ==
    /\ Idle(Main) /\ numbering = "none"
    /\ todo' = [todo EXCEPT ![Main] = SetupSteps(kind)]
    /\ doing' = [doing EXCEPT ![Main] = "setup"]
    /\ UNCHANGED <<control, loc, calls, hardware, asked, pwmAsked>>

\* The functions but digitalWrite return at once in Sys mode.
OnChip == numbering # "sys"

\* What a mode asks of a pin, and of the PWM controller.
FselAsked(p, mode) ==
    CASE mode = "INPUT" -> FSEL_INPT
      [] mode = "OUTPUT" -> FSEL_OUTP
      [] mode = "GPIO_CLOCK" -> gpioToGpClkALT0(p)
      [] OTHER -> gpioToPwmALT(p)

PwmAsked(p, mode) ==
    CASE mode = "PWM_TONE_OUTPUT" -> PwmMs
      [] mode = "PWM_OUTPUT" /\ gpioToPwmALT(p) # 0 -> PwmBal
      [] OTHER -> pwmAsked

pinMode(t, p, mode) ==
    /\ MayUse(t, "mode") /\ OnChip
    /\ Begin(t, "mode", PinModeSteps(NameOf(p), mode))
    /\ asked' = IF mode \notin {"INPUT", "OUTPUT"} /\ FselAsked(p, mode) = 0 THEN asked
                ELSE [asked EXCEPT ![p].fsel = FselAsked(p, mode)]
    /\ pwmAsked' = PwmAsked(p, mode)

\* pinModeAlt writes the bits it is given, as pinMode does.
pinModeAlt(t, p, alt) ==
    /\ MayUse(t, "mode") /\ OnChip
    /\ Begin(t, "mode", SetFsel(Translate(NameOf(p)), alt))
    /\ asked' = [asked EXCEPT ![p].fsel = alt]
    /\ UNCHANGED pwmAsked

pullUpDnControl(t, p, pud) ==
    /\ MayUse(t, "mode") /\ OnChip
    /\ Begin(t, "mode", PullSteps(NameOf(p), pud))
    /\ asked' = [asked EXCEPT ![p].pull = pud]
    /\ UNCHANGED pwmAsked

digitalWrite(t, p, value) ==
    /\ MayUse(t, "level")
    /\ Begin(t, "level", WriteSteps(NameOf(p), value))
    /\ asked' = [asked EXCEPT ![p].level = IF OnChip \/ p \in Exported THEN value ELSE @]
    /\ UNCHANGED pwmAsked

\* digitalWriteByte and digitalWriteByte2, for a caller that has the pins.
WriteByte(t, value, pins) ==
    /\ MayUse(t, "level")
    /\ \A i \in 0 .. 7 : pins[i] \in Gpios => OwnerOf[pins[i]] = t
    /\ Begin(t, "level", WriteByteSteps(value, pins))
    /\ asked' = [p \in Gpios |->
         IF \E i \in 0 .. 7 : pins[i] = p /\ (OnChip \/ p \in Exported)
           THEN [asked[p] EXCEPT !.level = Bit(value, CHOOSE i \in 0 .. 7 : pins[i] = p)]
           ELSE asked[p]]
    /\ UNCHANGED pwmAsked

\* For a pin without PWM the table's entry 0 is used: the duty cycle replaces
\* the PWM control.
pwmToneWrite(t, p, freq) ==
    /\ MayUse(t, "mode") /\ OnChip
    /\ Begin(t, "mode", pwmToneWriteSteps(NameOf(p), freq))
    /\ pwmAsked' = IF gpioToPwmPort(p) = PWM_CONTROL THEN freq \div 2 ELSE pwmAsked
    /\ UNCHANGED asked

PinCalls(t) ==
    \E p \in Mine(t) :
        \/ \E m \in Modes : pinMode(t, p, m)
        \/ \E a \in Alts : pinModeAlt(t, p, a)
        \/ \E d \in Pulls : pullUpDnControl(t, p, d)
        \/ \E v \in {0, 1} : digitalWrite(t, p, v)
        \/ \E f \in ToneFreqs : pwmToneWrite(t, p, f)

ByteCalls(t) ==
    \E v \in Bytes : WriteByte(t, v, FirstPins) \/ WriteByte(t, v, SecondPins)

-----------------------------------------------------------------------------
(* One access.                                                             *)

Access(t, op) ==
    /\ todo[t] # <<>> /\ ~exited
    /\ Head(todo[t]).op = op
    /\ todo' = [todo EXCEPT ![t] = Tail(@)]
    /\ doing' = [doing EXCEPT ![t] = IF Len(todo[t]) = 1 THEN "idle" ELSE @]
    /\ UNCHANGED <<calls, asked, pwmAsked>>

Now(t) == Head(todo[t])

\* Function select: read a word, and write the word read with one pin changed.
ReadWord(t) ==
    /\ Access(t, "readFsel")
    /\ loc' = [loc EXCEPT ![t] = [p \in Gpios |-> IF p \in Word(Now(t).pin) THEN fsel[p] ELSE FSEL_INPT]]
    /\ UNCHANGED <<control, hardware>>

WriteWord(t) ==
    /\ Access(t, "writeFsel")
    /\ fsel' = [p \in Gpios |->
                  IF p = Now(t).pin THEN Now(t).value
                  ELSE IF p \in Word(Now(t).pin) THEN loc[t][p] ELSE fsel[p]]
    /\ loc' = [loc EXCEPT ![t] = NoWord]
    /\ UNCHANGED <<control, latch, gppud, pull, reg, clk, div, saved>>

\* The set and clear registers change the pins whose bits are written.
WriteLevel(t) ==
    /\ \/ Access(t, "set") /\ latch' = latch \cup (Now(t).pins \cap Gpios)
       \/ Access(t, "clear") /\ latch' = latch \ Now(t).pins
    /\ UNCHANGED <<control, loc, fsel, gppud, pull, reg, clk, div, saved>>

PullAccess(t) ==
    /\ \/ Access(t, "pud") /\ gppud' = Now(t).value /\ UNCHANGED pull
       \/ /\ Access(t, "pudclk")
          /\ pull' = [p \in Gpios |-> IF p \in Now(t).pins THEN gppud ELSE pull[p]]
          /\ UNCHANGED gppud
    /\ UNCHANGED <<control, loc, fsel, latch, reg, clk, div, saved>>

PwmAccess(t) ==
    /\ \/ Access(t, "write") /\ reg' = [reg EXCEPT ![Now(t).reg] = Now(t).value] /\ UNCHANGED saved
       \/ Access(t, "save") /\ saved' = [saved EXCEPT ![t] = reg[PWM_CONTROL]] /\ UNCHANGED reg
       \/ /\ Access(t, "restore")
          /\ reg' = [reg EXCEPT ![PWM_CONTROL] = saved[t]]
          /\ saved' = [saved EXCEPT ![t] = PwmOff]
    /\ UNCHANGED <<control, loc, fsel, latch, gppud, pull, clk, div>>

\* The busy flag stays set until the clock has stopped.
ClockAccess(t) ==
    /\ \/ /\ Access(t, "stop")
          /\ clk' = [clk EXCEPT ![Now(t).clock] = IF @ = "run" THEN "stopping" ELSE @]
          /\ UNCHANGED div
       \/ Access(t, "await") /\ clk[Now(t).clock] = "stop" /\ UNCHANGED <<clk, div>>
       \/ Access(t, "divide") /\ div' = [div EXCEPT ![Now(t).clock] = Now(t).value] /\ UNCHANGED clk
       \/ Access(t, "start") /\ clk' = [clk EXCEPT ![Now(t).clock] = "run"] /\ UNCHANGED div
    /\ UNCHANGED <<control, loc, fsel, latch, gppud, pull, reg, saved>>

ClockStops ==
    /\ \E c \in Clocks : clk[c] = "stopping" /\ clk' = [clk EXCEPT ![c] = "stop"]
    /\ UNCHANGED <<control, todo, doing, calls, loc, saved, fsel, latch, gppud, pull, reg, div,
                   asked, pwmAsked>>

\* A step of the setup: the mode is stored, or a device opened or mapped.
StoreNumbering(t) ==
    /\ Access(t, "number")
    /\ numbering' = Now(t).to
    /\ layout' = IF board = <<>> THEN layout ELSE piGpioLayout(board)
    /\ board' = <<>>
    /\ UNCHANGED <<mapped, exited, loc, hardware>>

OpenOrMap(t) ==
    /\ \/ Access(t, "open") /\ UNCHANGED mapped
       \/ Access(t, "map") /\ mapped' = mapped \cup {Now(t).part}
    /\ UNCHANGED <<board, layout, numbering, exited, loc, hardware>>

\* wiringPiFailure: the process ends; with return codes wiringPiSetup
\* returns -1, which its caller looks at and the other setups do not.
SetupFails(t) ==
    /\ MayFail /\ ~exited
    /\ todo[t] # <<>> /\ Head(todo[t]).op \in {"open", "map"}
    /\ todo' = [todo EXCEPT ![t] = IF Last(@).op = "number" THEN <<Last(@)>> ELSE <<>>]
    /\ exited' = (~ReturnCodes \/ todo'[t] = <<>>)
    /\ UNCHANGED <<board, layout, numbering, mapped, doing, calls, loc, hardware, asked, pwmAsked>>

Step(t) ==
    \/ ReadWord(t) \/ WriteWord(t) \/ WriteLevel(t) \/ PullAccess(t)
    \/ PwmAccess(t) \/ ClockAccess(t)
    \/ StoreNumbering(t) \/ OpenOrMap(t) \/ SetupFails(t)

GpioNext ==
    \/ \E k \in Kinds : Setup(k)
    \/ \E t \in Threads : PinCalls(t) \/ ByteCalls(t) \/ Step(t)
    \/ ClockStops

GpioSpec == GpioInit /\ [][GpioNext]_gpioVars

-----------------------------------------------------------------------------
GpioTypeOK ==
    /\ numbering \in {"none", "pins", "gpio", "phys", "sys"}
    /\ mapped \subseteq Parts
    /\ doing \in [Threads -> {"idle", "setup", "mode", "level"}]
    /\ \A t \in Threads : doing[t] = "idle" /\ ~exited => todo[t] = <<>>
    /\ fsel \in [Gpios -> 0 .. 7] /\ loc \in [Threads -> [Gpios -> 0 .. 7]]
    /\ latch \subseteq Gpios
    /\ pull \in [Gpios -> 0 .. 3] /\ gppud \in 0 .. 3
    /\ clk \in [Clocks -> {"stop", "stopping", "run"}]

(* Threads that drive pins of their own need no lock for digitalWrite and  *)
(* digitalWriteByte: when a thread's call is over, its pins are as it      *)
(* wrote them last, whatever the other threads did meanwhile.              *)
LevelAsWritten ==
    \A p \in Gpios : Idle(OwnerOf[p]) => (p \in latch <=> asked[p].level = 1)

(* A byte write does not glitch: a pin only changes to the level its owner *)
(* asked for, so one that keeps its value never moves.                     *)
NoGlitch ==
    [][\A p \in Gpios : (p \in latch) # (p \in latch')
          => (p \in latch' <=> asked[p].level = 1)]_gpioVars

ClockRuns(p) ==
    LET c == gpioToClkCon(p)
    IN  fsel[p] = gpioToGpClkALT0(p) /\ fsel[p] # 0 => clk[c] = "run" /\ div[c] = 192

(* When callers serialise the other functions, every pin ends up with the  *)
(* function and the pull asked for, and a PWM that was set up runs in the  *)
(* mode asked for last, with its clock running; only a tone on a pin that  *)
(* has no PWM replaces that mode.  With the chip's numbering the clock of a *)
(* clock pin runs, too.                                                    *)
Quiet == \A t \in Threads : Idle(t) \/ doing[t] = "level"
SettingsAsAsked ==
    Quiet =>
        /\ \A p \in Gpios : fsel[p] = asked[p].fsel /\ pull[p] = asked[p].pull
        /\ reg[PWM_CONTROL] = pwmAsked
        /\ \A p \in Gpios : fsel[p] = gpioToPwmALT(p) /\ fsel[p] # 0 => clk[PWMCLK_CNTL] = "run"
        /\ numbering = "gpio" => \A p \in Gpios : ClockRuns(p)

(* "Stop PWM clock before changing divisor": no divisor is written while   *)
(* its clock runs or is still busy.                                        *)
DivisorWhenStopped ==
    [][\A t \in Threads : todo[t] # <<>> /\ Now(t).op = "divide" /\ todo'[t] # todo[t]
          => clk[Now(t).clock] = "stop"]_gpioVars

=============================================================================
