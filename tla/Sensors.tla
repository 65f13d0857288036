------------------------------ MODULE Sensors ------------------------------
(***************************************************************************)
(* The drivers of the converters and sensors in src/lib: ads1115, mcp3422, *)
(* pcf8591, mcp3002, mcp3004, max31855, bmp180, htu21d, ds18b20 and rht03, *)
(* and the outputs of sn3218, mcp4802 and pcf8591.  A call is a sequence   *)
(* of transfers on the bus; any of them may fail, few results are looked   *)
(* at, and nothing is locked.                                              *)
(*                                                                         *)
(* What a chip measures is abstracted to a sample: the channel and the     *)
(* number of the call that started the conversion.  The delays of bmp180   *)
(* and htu21d outlast their conversions, as their data sheets say.         *)
(***************************************************************************)
EXTENDS Integers, Sequences

CONSTANTS
    Threads,
    Kinds,    \* the chips
    Bases,    \* first pins of the node
    MaxCalls, MaxFaults, \* bounds
    MaxTries  \* attempts of rht03: 10 in the code

ASSUME SensorAssumption ==
    Bases \subseteq Nat /\ MaxCalls \in Nat /\ MaxFaults \in Nat /\ MaxTries \in Nat \ {0}

VARIABLES
    kind, base, \* which chip it is, and its first pin
    conv,     \* the sample being taken
    reg,      \* the sample a transfer would read
    mux,      \* the channel selected
    staged, output, \* sn3218: values written and shown; DACs: the output
    todo,     \* what is left of each thread's call
    chan,     \* its channel, pin - pinBase
    value,    \* the samples it has read
    tries,    \* rht03
    id, mine, \* calls so far, and the number of each thread's
    faults,
    failed,   \* history: a transfer of the call failed
    overlap,  \* history: another call was under way during the call
    result,   \* what the thread's last call returned
    asked     \* history: the outputs as written

chip == <<kind, base, conv, reg, mux, staged, output>>
vars == <<chip, todo, chan, value, tries, id, mine, faults, failed, overlap, result, asked>>

None  == [chan |-> -1, call |-> 0]
Junk  == [chan |-> -2, call |-> 0]   \* an error code of the bus taken for data
Error == [chan |-> -3, call |-> 0]   \* -9999 .. -9996
Sample(c, t) == [chan |-> c, call |-> mine[t]]

Channels(k) ==
    CASE k \in {"ads1115", "mcp3004"} -> 0 .. 7
      [] k \in {"mcp3422", "pcf8591", "bmp180", "max31855"} -> 0 .. 3
      [] k \in {"mcp3002", "htu21d", "rht03"} -> 0 .. 1
      [] k = "ds18b20" -> {0}
      [] OTHER -> {}
Outputs(k) == CASE k = "sn3218" -> 0 .. 2 [] k = "mcp4802" -> 0 .. 1 [] k = "pcf8591" -> {0} [] OTHER -> {}

-----------------------------------------------------------------------------
(* Which input of the chip a pin reads                                     *)

Bug_MCP3422Channel(pin, b) == pin % 4
\* A config byte keeps two bits of (chan & 3) - pinBase, where chan is the pin.
MCP3422Channel(pin, b) == ((pin % 4) - b) % 4

\* bmp180 measures temperature (0) and pressure (1), from which it computes
\* channel 2; everything max31855 returns comes from one word.
Input(k, pin, b) ==
    CASE k = "ads1115" -> (pin - b) % 8
      [] k = "mcp3422" -> MCP3422Channel(pin, b)
      [] k = "pcf8591" -> (pin - b) % 4
      [] k = "mcp3002" -> IF pin - b = 0 THEN 0 ELSE 1
      [] OTHER -> pin - b
Quantity(k, c) ==
    CASE k = "bmp180" -> IF c = 0 THEN 0 ELSE 1
      [] k = "max31855" -> 0
      [] OTHER -> c

(* The transfers of a call                                                 *)
Do(what, c)     == [do |-> what, c |-> c]
Set(what, c, v) == [do |-> what, c |-> c, v |-> v]

\* A read returns the conversion before it, so the first is thrown away.
ReadPcf8591(c) == <<Do("select", c), Do("exchange", 0), Do("exchange", 0)>>

ReadAds1115(c) == <<Do("start", c), Do("poll", 0), Do("fetch", 0)>>
ReadMcp3422(c) == <<Do("start", c), Do("pollfetch", 0)>>
ReadSpi(c)     == <<Do("transfer", c)>>
ReadHtu21d(c)  == <<Do("start", c), Do("delay", 0), Do("fetch", 0)>>
ReadRht03(c)   == <<Do("attempt", c)>>
ReadDs18b20    == <<Do("transfer", 0)>>

\* Both quantities are measured, whichever is asked for.
ReadBmp180 ==
    <<Do("start", 0), Do("delay", 0), Do("fetch", 0),
      Do("start", 1), Do("delay", 0), Do("fetch", 0)>>

Reads(k, c) ==
    CASE k = "ads1115" -> ReadAds1115(c)
      [] k = "mcp3422" -> ReadMcp3422(c)
      [] k = "pcf8591" -> ReadPcf8591(c)
      [] k \in {"mcp3002", "mcp3004"} -> ReadSpi(c)
      [] k = "max31855" -> ReadSpi(0)
      [] k = "bmp180"  -> ReadBmp180
      [] k = "htu21d"  -> ReadHtu21d(c)
      [] k = "rht03"   -> ReadRht03(c)
      [] k = "ds18b20" -> ReadDs18b20

Bug_Writes(k, c, v) ==
    IF k = "sn3218" THEN <<Set("stage", c, v)>> ELSE <<Set("dac", c, v)>>

\* A value written to sn3218 shows when the update register is written.
Writes(k, c, v) ==
    IF k = "sn3218" THEN <<Set("stage", c, v), Do("update", c)>>
    ELSE <<Set("dac", c, v)>>

-----------------------------------------------------------------------------
Unknown == -1 \* the write failed, or two writes of one output raced
Steps   == LET Whats == {"start", "select", "exchange", "transfer", "poll", "delay", "fetch", "pollfetch",
                         "attempt", "return", "stage", "update", "dac"}
           IN  [do : Whats, c : 0 .. 7] \cup [do : Whats, c : 0 .. 7, v : 0 .. 1]
Samples == [chan : Int, call : Nat]

TypeOK ==
    /\ kind \in Kinds /\ base \in Bases
    /\ conv \in Samples /\ reg \in Samples /\ mux \in 0 .. 7
    /\ staged \in [Outputs(kind) -> 0 .. 1] /\ output \in [Outputs(kind) -> 0 .. 1]
    /\ asked \in [Outputs(kind) -> {Unknown, 0, 1}]
    /\ todo \in [Threads -> Seq(Steps)] /\ \A t \in Threads : Len(todo[t]) <= 7
    /\ value \in [Threads -> Seq(Samples)] /\ \A t \in Threads : Len(value[t]) <= 2
    /\ chan \in [Threads -> 0 .. 7] /\ mine \in [Threads -> 0 .. MaxCalls]
    /\ tries \in [Threads -> 0 .. MaxTries]
    /\ result \in [Threads -> Samples]
    /\ failed \in [Threads -> BOOLEAN] /\ overlap \in [Threads -> BOOLEAN]
    /\ faults \in 0 .. MaxFaults /\ id \in 0 .. MaxCalls

Init ==
    /\ kind \in Kinds /\ base \in Bases
    /\ conv = None /\ reg = None /\ mux = 0
    /\ staged = [c \in Outputs(kind) |-> 0] /\ output = staged /\ asked = staged
    /\ todo = [t \in Threads |-> <<>>]
    /\ chan = [t \in Threads |-> 0] /\ mine = chan /\ tries = chan
    /\ value = [t \in Threads |-> <<>>]
    /\ result = [t \in Threads |-> None]
    /\ id = 0 /\ faults = 0
    /\ failed = [t \in Threads |-> FALSE] /\ overlap = failed

Idle(t) == todo[t] = <<>>

Begin(t, c, steps) ==
    /\ Idle(t) /\ id < MaxCalls
    /\ todo' = [todo EXCEPT ![t] = steps]
    /\ chan' = [chan EXCEPT ![t] = c]
    /\ id' = id + 1 /\ mine' = [mine EXCEPT ![t] = id + 1]
    /\ value' = [value EXCEPT ![t] = <<>>] /\ tries' = [tries EXCEPT ![t] = 0]
    /\ failed' = [failed EXCEPT ![t] = FALSE]
    /\ overlap' = [u \in Threads |-> IF u = t THEN \E w \in Threads \ {t} : ~Idle(w)
                                    ELSE overlap[u] \/ ~Idle(u)]
    /\ result' = [result EXCEPT ![t] = None]
    /\ UNCHANGED <<chip, faults>>

analogRead(t, c) ==
    Begin(t, c, Reads(kind, Input(kind, base + c, base)) \o <<Do("return", c)>>) /\ UNCHANGED asked

analogWrite(t, c, v) ==
    /\ Begin(t, c, Writes(kind, c, v))
    /\ asked' = [asked EXCEPT ![c] = IF \E u \in Threads : ~Idle(u) /\ chan[u] = c
                                     THEN Unknown ELSE v]

-----------------------------------------------------------------------------
(* The transfers                                                           *)
Step(t, what) == ~Idle(t) /\ Head(todo[t]).do = what
Arg(t)  == Head(todo[t]).c
Done(t) == todo' = [todo EXCEPT ![t] = Tail(@)]
Got(t, sample) == value' = [value EXCEPT ![t] = Append(@, sample)]
Same == UNCHANGED <<kind, base, chan, id, mine, overlap, result>>
NoFault == UNCHANGED <<faults, failed>>
Fault(t) == faults < MaxFaults /\ faults' = faults + 1 /\ failed' = [failed EXCEPT ![t] = TRUE]

\* The drivers that return at once with an error code when a transfer fails.
\* htu21d counts the bytes it got; its checksum always says TRUE, so that data
\* damaged on the way, which are left out here, are a reading to it.
Checks == {"htu21d", "ds18b20"}

Convert ==
    /\ conv # None
    /\ reg' = conv /\ conv' = None
    /\ UNCHANGED <<kind, base, mux, staged, output, todo, chan, value, tries, id, mine, faults,
                   failed, overlap, result, asked>>

Start(t) ==
    /\ Step(t, "start") /\ Done(t) /\ NoFault
    /\ conv' = Sample(Arg(t), t)
    /\ Same /\ UNCHANGED <<reg, mux, staged, output, value, tries, asked>>

Select(t) ==
    /\ Step(t, "select") /\ Done(t) /\ NoFault
    /\ mux' = Arg(t)
    /\ Same /\ UNCHANGED <<conv, reg, staged, output, value, tries, asked>>

\* A read of pcf8591 returns one conversion and starts the next.
Exchange(t) ==
    /\ Step(t, "exchange") /\ Done(t) /\ NoFault
    /\ Got(t, reg)
    /\ reg' = Sample(mux, t)
    /\ Same /\ UNCHANGED <<conv, mux, staged, output, tries, asked>>

Transfer(t) ==
    /\ Step(t, "transfer") /\ Done(t) /\ NoFault
    /\ Got(t, Sample(Arg(t), t))
    /\ Same /\ UNCHANGED <<conv, reg, mux, staged, output, tries, asked>>

\* The wait for the end of a conversion.
Wait(t) ==
    /\ Step(t, "poll") \/ Step(t, "delay")
    /\ conv = None /\ Done(t) /\ NoFault
    /\ Same /\ UNCHANGED <<conv, reg, mux, staged, output, value, tries, asked>>

Fetch(t) ==
    /\ Step(t, "fetch") \/ (Step(t, "pollfetch") /\ conv = None)
    /\ Done(t) /\ NoFault /\ Got(t, reg)
    /\ Same /\ UNCHANGED <<conv, reg, mux, staged, output, tries, asked>>

\* One exchange with the rht03.  It is tried again if it took too long or its
\* checksum or range is wrong.
Attempt(t) ==
    /\ Step(t, "attempt")
    /\ tries' = [tries EXCEPT ![t] = @ + 1]
    /\ \/ NoFault /\ Got(t, Sample(Arg(t), t)) /\ Done(t)
       \/ NoFault /\ tries'[t] < MaxTries /\ UNCHANGED <<value, todo>>
       \/ NoFault /\ tries'[t] = MaxTries /\ Got(t, Error) /\ Done(t)
    /\ Same /\ UNCHANGED <<conv, reg, mux, staged, output, asked>>

\* The sensor falls silent.  If it did not even answer, or the silence took too
\* long, the attempt failed; after MaxTries of those the driver returns -9998.
\* But a bit that does not come within 1 ms makes its byte 0: five such bytes
\* fit into the 16 ms, have the right checksum and are taken for a reading.
AttemptFails(t) ==
    /\ Step(t, "attempt") /\ Fault(t)
    /\ tries' = [tries EXCEPT ![t] = @ + 1]
    /\ \/ tries'[t] < MaxTries /\ UNCHANGED <<value, todo>>
       \/ tries'[t] = MaxTries /\ Got(t, Error) /\ Done(t)
       \/ Got(t, Junk) /\ Done(t)
    /\ Same /\ UNCHANGED <<conv, reg, mux, staged, output, asked>>

\* A failed read gives -1 (or leaves the buffer as it was), a failed write is
\* not noticed.  The -1 has the ready bit of ads1115 set; mcp3422 reads again
\* unless its uninitialised buffer looks ready.
TransferFails(t) ==
    /\ Fault(t)
    /\ IF kind \in Checks
       THEN /\ Step(t, "start") \/ Step(t, "fetch") \/ Step(t, "transfer")
            /\ todo' = [todo EXCEPT ![t] = <<Do("return", 0)>>] /\ Got(t, Error)
       ELSE \/ (Step(t, "start") \/ Step(t, "select") \/ Step(t, "poll")) /\ Done(t) /\ UNCHANGED value
            \/ (Step(t, "exchange") \/ Step(t, "transfer") \/ Step(t, "fetch")) /\ Done(t) /\ Got(t, Junk)
            \/ Step(t, "pollfetch") /\ UNCHANGED <<todo, value>>
            \/ Step(t, "pollfetch") /\ Done(t) /\ Got(t, Junk)
    /\ Same /\ UNCHANGED <<conv, reg, mux, staged, output, tries, asked>>

\* bmp180 returns what it computed from one or both of its samples; it has no
\* channel 3.
Return(t) ==
    /\ Step(t, "return") /\ Done(t)
    /\ result' = [result EXCEPT ![t] =
          IF kind = "bmp180"
          THEN IF chan[t] = 3 THEN Error ELSE value[t][Quantity(kind, chan[t]) + 1]
          ELSE value[t][Len(value[t])]]
    /\ UNCHANGED <<chip, chan, value, tries, id, mine, faults, failed, overlap, asked>>

Stage(t) ==
    /\ Step(t, "stage") /\ Done(t) /\ NoFault
    /\ staged' = [staged EXCEPT ![Arg(t)] = Head(todo[t]).v]
    /\ Same /\ UNCHANGED <<conv, reg, mux, output, value, tries, asked>>

Update(t) ==
    /\ Step(t, "update") /\ Done(t) /\ NoFault
    /\ output' = staged
    /\ Same /\ UNCHANGED <<conv, reg, mux, staged, value, tries, asked>>

\* The control byte of pcf8591 selects channel 0 with it.
Dac(t) ==
    /\ Step(t, "dac") /\ Done(t) /\ NoFault
    /\ output' = [output EXCEPT ![Arg(t)] = Head(todo[t]).v]
    /\ mux' = 0
    /\ Same /\ UNCHANGED <<conv, reg, staged, value, tries, asked>>

WriteFails(t) ==
    /\ Step(t, "stage") \/ Step(t, "update") \/ Step(t, "dac")
    /\ Fault(t) /\ Done(t)
    /\ asked' = [asked EXCEPT ![Arg(t)] = Unknown]
    /\ Same /\ UNCHANGED <<conv, reg, mux, staged, output, value, tries>>

ThreadStep(t) ==
    Start(t) \/ Select(t) \/ Exchange(t) \/ Transfer(t) \/ Wait(t) \/ Fetch(t) \/ Attempt(t)
    \/ Return(t) \/ Stage(t) \/ Update(t) \/ Dac(t)
FaultStep(t) == AttemptFails(t) \/ TransferFails(t) \/ WriteFails(t)

Next ==
    \/ Convert
    \/ \E t \in Threads :
          \/ ThreadStep(t) \/ FaultStep(t)
          \/ \E c \in Channels(kind) : analogRead(t, c)
          \/ \E c \in Outputs(kind), v \in 0 .. 1 : analogWrite(t, c, v)

Spec == Init /\ [][Next]_vars

-----------------------------------------------------------------------------
Own(t) == [chan |-> Quantity(kind, chan[t]), call |-> mine[t]]

(* A reading is of the pin that was asked for, from a conversion this call *)
(* started, whatever was read before and at whatever pin the node starts,  *)
(* unless a transfer failed or another thread used the chip meanwhile.     *)
FreshReading ==
    \A t \in Threads : result[t] # None /\ ~failed[t] /\ ~overlap[t]
        => result[t] \in {Own(t), Error}

(* Between calls the outputs are as they were last written, except those   *)
(* whose write failed or raced; two threads that write different outputs of one     *)
(* chip never disturb each other.                                          *)
OutputAsWritten ==
    (\A t \in Threads : Idle(t))
        => \A c \in Outputs(kind) : asked[c] # Unknown => output[c] = asked[c]

=============================================================================
