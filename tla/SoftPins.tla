------------------------------ MODULE SoftPins ------------------------------
(***************************************************************************)
(* src/lib/softPwm.c, src/lib/softTone.c and the part of pinMode in        *)
(* src/lib/wiringPi.c that ties them together: software generators, one    *)
(* thread per pin, started and stopped by library calls.                   *)
(*                                                                         *)
(* No lock protects the arrays marks, range, freqs and threads, nor the    *)
(* two newPin variables through which a pin reaches its thread.  A caller  *)
(* runs one library call at a time; every call is the sequence of steps    *)
(* `at' walks through.  Adjacent stores that only the thread they are for  *)
(* will read are one step.  Thread identifiers are reused after a join, as *)
(* pthread_t values are.                                                   *)
(***************************************************************************)
EXTENDS Integers, FiniteSets

CONSTANTS
    Callers,       \* program threads that make library calls
    Makers,        \* those of them that create and stop generators
    Pins,          \* on-board pins
    Threads,       \* thread identifiers
    NoPin,         \* -1
    NoThread,      \* 0, no thread
    InitialValues, \* arguments of softPwmCreate and softPwmWrite
    Values,
    Ranges,
    SysModes       \* TRUE: wiringPiSetupSys was called, FALSE: another setup

ASSUME NamesAssumption == NoPin \notin Pins /\ NoThread \notin Threads
ASSUME ValuesAssumption ==
    /\ InitialValues \subseteq Int /\ Values \subseteq Int
    /\ Ranges \subseteq Nat \ {0}
    /\ Makers \subseteq Callers /\ SysModes \subseteq BOOLEAN

Kinds == {"pwm", "tone"}

VARIABLES
    at,      \* where each caller is
    op,      \* the call it makes: "pwm", "tone", "mode" or "stop"
    cpin,    \* the pin of that call
    cval,    \* its value argument, then the clamped value
    crange,  \* its range argument
    cthread, \* myThread
    newPin,  \* one hand-off variable per kind of generator
    threads, \* threads[kind][pin]
    marks,
    range,
    freqs,   \* only whether the frequency is 0
    sysMode, \* wiringPiMode = WPI_MODE_GPIO_SYS: pinMode returns at once
    step,    \* where each generator thread is
    kind,    \* what it generates
    tpin,    \* its pin
    mark,    \* its local variables
    space,
    cancel,  \* pthread_cancel was called on it
    level    \* the output level of each pin

callVars   == <<at, op, cpin, cval, crange, cthread>>
sharedVars == <<newPin, threads, marks, range, freqs, sysMode>>
threadVars == <<step, kind, tpin, mark, space, cancel>>
vars == <<callVars, sharedVars, threadVars, level>>

Places == {"idle", "mode", "stopPwm", "joinPwm", "stopTone", "joinTone",
           "setup", "create", "spin", "write"}
Steps  == {"dead", "start", "load", "high", "low"}
Live   == {t \in Threads : step[t] # "dead"}

TypeOK ==
    /\ at \in [Callers -> Places]
    /\ op \in [Callers -> {"none", "pwm", "tone", "mode", "stop"}]
    /\ cpin \in [Callers -> Pins \cup {NoPin}]
    /\ cval \in [Callers -> Int]
    /\ crange \in [Callers -> Nat]
    /\ cthread \in [Callers -> Threads \cup {NoThread}]
    /\ newPin \in [Kinds -> Pins \cup {NoPin}]
    /\ threads \in [Kinds -> [Pins -> Threads \cup {NoThread}]]
    /\ marks \in [Pins -> Int]
    /\ range \in [Pins -> Nat]
    /\ freqs \in [Pins -> BOOLEAN]
    /\ sysMode \in BOOLEAN
    /\ step \in [Threads -> Steps]
    /\ kind \in [Threads -> Kinds]
    /\ tpin \in [Threads -> Pins \cup {NoPin}]
    /\ mark \in [Threads -> Int]
    /\ space \in [Threads -> Int]
    /\ cancel \in [Threads -> BOOLEAN]
    /\ level \in [Pins -> {"LOW", "HIGH"}]

Init ==
    /\ at = [c \in Callers |-> "idle"]
    /\ op = [c \in Callers |-> "none"]
    /\ cpin = [c \in Callers |-> NoPin]
    /\ cval = [c \in Callers |-> 0]
    /\ crange = [c \in Callers |-> 0]
    /\ cthread = [c \in Callers |-> NoThread]
    /\ newPin = [k \in Kinds |-> NoPin]
    /\ threads = [k \in Kinds |-> [p \in Pins |-> NoThread]]
    /\ marks = [p \in Pins |-> 0]
    /\ range = [p \in Pins |-> 0]
    /\ freqs = [p \in Pins |-> FALSE]
    /\ sysMode \in SysModes
    /\ step = [t \in Threads |-> "dead"]
    /\ kind = [t \in Threads |-> "pwm"]
    /\ tpin = [t \in Threads |-> NoPin]
    /\ mark = [t \in Threads |-> 0]
    /\ space = [t \in Threads |-> 0]
    /\ cancel = [t \in Threads |-> FALSE]
    /\ level = [p \in Pins |-> "LOW"]

Goto(c, from, to) == at[c] = from /\ at' = [at EXCEPT ![c] = to]

\* The caller starts a call of kind o on pin p.
Begin(c, o, p, v, r, to) ==
    /\ Goto(c, "idle", to)
    /\ op' = [op EXCEPT ![c] = o]
    /\ cpin' = [cpin EXCEPT ![c] = p]
    /\ cval' = [cval EXCEPT ![c] = v]
    /\ crange' = [crange EXCEPT ![c] = r]
    /\ UNCHANGED <<cthread, sharedVars, threadVars>>

\* The call is over: its locals are gone.
Return(c) ==
    /\ at' = [at EXCEPT ![c] = "idle"]
    /\ op' = [op EXCEPT ![c] = "none"]
    /\ cpin' = [cpin EXCEPT ![c] = NoPin]
    /\ cval' = [cval EXCEPT ![c] = 0]
    /\ crange' = [crange EXCEPT ![c] = 0]
    /\ cthread' = [cthread EXCEPT ![c] = NoThread]

-----------------------------------------------------------------------------
(* Entry points *)

\* softPwmCreate, after its checks: digitalWrite (pin, LOW), then pinMode.
SoftPwmCreate(c) ==
    \E p \in Pins, v \in InitialValues, r \in Ranges :
        /\ c \in Makers
        /\ range[p] = 0
        /\ Begin(c, "pwm", p, v, r, "mode")
        /\ level' = [level EXCEPT ![p] = "LOW"]

SoftToneCreate(c) ==
    \E p \in Pins : c \in Makers /\ Begin(c, "tone", p, 0, 0, "mode") /\ UNCHANGED level

PinMode(c) ==
    \E p \in Pins : c \in Makers /\ Begin(c, "mode", p, 0, 0, "mode") /\ UNCHANGED level

SoftPwmStop(c) ==
    \E p \in Pins : c \in Makers /\ Begin(c, "stop", p, 0, 0, "stopPwm") /\ UNCHANGED level

SoftToneStop(c) ==
    \E p \in Pins : c \in Makers /\ Begin(c, "stop", p, 0, 0, "stopTone") /\ UNCHANGED level

Clamp(v, hi) == IF v < 0 THEN 0 ELSE IF v > hi THEN hi ELSE v

\* softPwmWrite reads range [pin] to clamp, and stores later.
SoftPwmWrite(c) ==
    \E p \in Pins, v \in Values :
        /\ Begin(c, "none", p, Clamp(v, range[p]), 0, "write")
        /\ UNCHANGED level

StoreMark(c) ==
    /\ at[c] = "write"
    /\ marks' = [marks EXCEPT ![cpin[c]] = cval[c]]
    /\ Return(c)
    /\ UNCHANGED <<newPin, threads, range, freqs, sysMode, threadVars, level>>

SoftToneWrite(c) ==
    /\ at[c] = "idle"
    /\ \E p \in Pins, f \in BOOLEAN : freqs' = [freqs EXCEPT ![p] = f]
    /\ UNCHANGED <<callVars, newPin, threads, marks, range, sysMode, threadVars, level>>

-----------------------------------------------------------------------------
(* pinMode: softPwmStop, softToneStop, then the mode itself.               *)

EnterMode(c) ==
    /\ Goto(c, "mode", IF sysMode THEN "setup" ELSE "stopPwm")
    /\ op[c] # "mode" \/ ~sysMode
    /\ UNCHANGED <<op, cpin, cval, crange, cthread, sharedVars, threadVars, level>>

\* pinMode is the whole call and does nothing in Sys mode.
ModeIgnored(c) ==
    /\ at[c] = "mode" /\ op[c] = "mode" /\ sysMode
    /\ Return(c)
    /\ UNCHANGED <<sharedVars, threadVars, level>>

\* What follows softPwmStop and softToneStop in the call under way.
Bug_AfterPwm(c) ==
    CASE op[c] = "stop" -> Return(c)
      [] op[c] = "mode" -> Return(c)
      [] OTHER -> Goto(c, at[c], "setup") /\ UNCHANGED <<op, cpin, cval, crange, cthread>>

AfterPwm(c) ==
    IF op[c] = "stop"
      THEN Return(c)
      ELSE Goto(c, at[c], "stopTone") /\ UNCHANGED <<op, cpin, cval, crange, cthread>>

AfterTone(c) ==
    IF op[c] \in {"stop", "mode"}
      THEN Return(c)
      ELSE Goto(c, at[c], "setup") /\ UNCHANGED <<op, cpin, cval, crange, cthread>>

\* pthread_cancel marks a thread; cancelling no thread does nothing.
CancelThread(t) ==
    cancel' = IF t \in Live THEN [cancel EXCEPT ![t] = TRUE] ELSE cancel

StopPwm(c) ==
    /\ at[c] = "stopPwm"
    /\ IF range[cpin[c]] # 0
         THEN /\ CancelThread(threads["pwm"][cpin[c]])
              /\ Goto(c, "stopPwm", "joinPwm")
              /\ UNCHANGED <<op, cpin, cval, crange, cthread>>
         ELSE AfterPwm(c) /\ UNCHANGED cancel
    /\ UNCHANGED <<sharedVars, step, kind, tpin, mark, space, level>>

Bug_JoinPwmEarly(c) ==
    /\ at[c] = "joinPwm"
    /\ range' = [range EXCEPT ![cpin[c]] = 0]
    /\ level' = [level EXCEPT ![cpin[c]] = "LOW"]
    /\ AfterPwm(c)
    /\ UNCHANGED <<newPin, threads, marks, freqs, sysMode, threadVars>>

Bug_RangeKept(c) ==
    /\ at[c] = "joinPwm"
    /\ threads["pwm"][cpin[c]] \notin Live
    /\ level' = [level EXCEPT ![cpin[c]] = "LOW"]
    /\ AfterPwm(c)
    /\ UNCHANGED <<newPin, threads, marks, range, freqs, sysMode, threadVars>>

JoinPwm(c) ==
    /\ at[c] = "joinPwm"
    /\ threads["pwm"][cpin[c]] \notin Live
    /\ range' = [range EXCEPT ![cpin[c]] = 0]
    /\ level' = [level EXCEPT ![cpin[c]] = "LOW"]
    /\ AfterPwm(c)
    /\ UNCHANGED <<newPin, threads, marks, freqs, sysMode, threadVars>>

StopTone(c) ==
    /\ at[c] = "stopTone"
    /\ IF threads["tone"][cpin[c]] # NoThread
         THEN /\ CancelThread(threads["tone"][cpin[c]])
              /\ Goto(c, "stopTone", "joinTone")
              /\ UNCHANGED <<op, cpin, cval, crange, cthread>>
         ELSE AfterTone(c) /\ UNCHANGED cancel
    /\ UNCHANGED <<sharedVars, step, kind, tpin, mark, space, level>>

JoinTone(c) ==
    /\ at[c] = "joinTone"
    /\ threads["tone"][cpin[c]] \notin Live
    /\ threads' = [threads EXCEPT !["tone"][cpin[c]] = NoThread]
    /\ level' = [level EXCEPT ![cpin[c]] = "LOW"]
    /\ AfterTone(c)
    /\ UNCHANGED <<newPin, marks, range, freqs, sysMode, threadVars>>

-----------------------------------------------------------------------------
(* The rest of softPwmCreate and softToneCreate.                           *)

SetupPwm(c) ==
    /\ Goto(c, "setup", "create")
    /\ op[c] = "pwm"
    /\ marks' = [marks EXCEPT ![cpin[c]] = cval[c]]
    /\ range' = [range EXCEPT ![cpin[c]] = crange[c]]
    /\ newPin' = [newPin EXCEPT !["pwm"] = cpin[c]]
    /\ UNCHANGED <<op, cpin, cval, crange, cthread, threads, freqs, sysMode, threadVars, level>>

\* digitalWrite (pin, LOW) and the check for a running thread.
SetupTone(c) ==
    /\ at[c] = "setup"
    /\ op[c] = "tone"
    /\ level' = [level EXCEPT ![cpin[c]] = "LOW"]
    /\ IF threads["tone"][cpin[c]] # NoThread
         THEN /\ Return(c)
              /\ UNCHANGED sharedVars
         ELSE /\ Goto(c, "setup", "create")
              /\ freqs' = [freqs EXCEPT ![cpin[c]] = FALSE]
              /\ newPin' = [newPin EXCEPT !["tone"] = cpin[c]]
              /\ UNCHANGED <<op, cpin, cval, crange, cthread, threads, marks, range, sysMode>>
    /\ UNCHANGED threadVars

CreateThread(c) ==
    /\ Goto(c, "create", "spin")
    /\ \E t \in Threads \ Live :
         /\ step' = [step EXCEPT ![t] = "start"]
         /\ kind' = [kind EXCEPT ![t] = op[c]]
         /\ cthread' = [cthread EXCEPT ![c] = t]
    /\ UNCHANGED <<op, cpin, cval, crange, sharedVars, tpin, mark, space,
                   cancel, level>>

\* while (newPin != -1) delay (1) ; threads [pin] = myThread ;
Spin(c) ==
    /\ at[c] = "spin"
    /\ newPin[op[c]] = NoPin
    /\ threads' = [threads EXCEPT ![op[c]][cpin[c]] = cthread[c]]
    /\ Return(c)
    /\ UNCHANGED <<newPin, marks, range, freqs, sysMode, threadVars, level>>

-----------------------------------------------------------------------------
(* softPwmThread and softToneThread *)

Bug_NewPinKept(t) ==
    /\ step[t] = "start"
    /\ step' = [step EXCEPT ![t] = "load"]
    /\ tpin' = [tpin EXCEPT ![t] = newPin[kind[t]]]
    /\ UNCHANGED <<callVars, sharedVars, kind, mark, space, cancel, level>>

TakePin(t) ==
    /\ step[t] = "start"
    /\ step' = [step EXCEPT ![t] = "load"]
    /\ tpin' = [tpin EXCEPT ![t] = newPin[kind[t]]]
    /\ newPin' = [newPin EXCEPT ![kind[t]] = NoPin]
    /\ UNCHANGED <<callVars, threads, marks, range, freqs, sysMode, kind, mark, space,
                   cancel, level>>

\* One cycle: load mark and space, then the HIGH and the LOW phase.  A tone
\* has phases of equal length; with frequency 0 it only sleeps.
Load(t) ==
    /\ step[t] = "load"
    /\ tpin[t] \in Pins
    /\ LET pin == tpin[t] IN
         IF kind[t] = "pwm"
           THEN /\ mark' = [mark EXCEPT ![t] = marks[pin]]
                /\ space' = [space EXCEPT ![t] = range[pin] - marks[pin]]
                /\ step' = [step EXCEPT ![t] = "high"]
                /\ level' = IF marks[pin] # 0 THEN [level EXCEPT ![pin] = "HIGH"] ELSE level
           ELSE /\ step' = [step EXCEPT ![t] = IF freqs[pin] THEN "high" ELSE "low"]
                /\ level' = IF freqs[pin] THEN [level EXCEPT ![pin] = "HIGH"] ELSE level
                /\ UNCHANGED <<mark, space>>
    /\ UNCHANGED <<callVars, sharedVars, kind, tpin, cancel>>

\* "high" and "low" are the delays after the two writes.
GoLow(t) ==
    /\ step[t] = "high"
    /\ step' = [step EXCEPT ![t] = "low"]
    /\ level' = IF kind[t] = "tone" \/ space[t] # 0
                  THEN [level EXCEPT ![tpin[t]] = "LOW"] ELSE level
    /\ UNCHANGED <<callVars, sharedVars, kind, tpin, mark, space, cancel>>

Repeat(t) ==
    /\ step[t] = "low"
    /\ step' = [step EXCEPT ![t] = "load"]
    /\ UNCHANGED <<callVars, sharedVars, kind, tpin, mark, space, cancel, level>>

\* The delays are cancellation points.  The identifier becomes free.
Die(t) ==
    /\ step[t] \in {"high", "low"}
    /\ cancel[t]
    /\ step' = [step EXCEPT ![t] = "dead"]
    /\ kind' = [kind EXCEPT ![t] = "pwm"]
    /\ tpin' = [tpin EXCEPT ![t] = NoPin]
    /\ mark' = [mark EXCEPT ![t] = 0]
    /\ space' = [space EXCEPT ![t] = 0]
    /\ cancel' = [cancel EXCEPT ![t] = FALSE]
    /\ UNCHANGED <<callVars, sharedVars, level>>

-----------------------------------------------------------------------------
Enter(c) ==
    \/ SoftPwmCreate(c) \/ SoftToneCreate(c) \/ PinMode(c)
    \/ SoftPwmStop(c) \/ SoftToneStop(c) \/ SoftPwmWrite(c) \/ SoftToneWrite(c)

Proceed(c) ==
    \/ StoreMark(c) \/ EnterMode(c) \/ ModeIgnored(c)
    \/ StopPwm(c) \/ JoinPwm(c) \/ StopTone(c) \/ JoinTone(c)
    \/ SetupPwm(c) \/ SetupTone(c) \/ CreateThread(c) \/ Spin(c)

Run(t) == TakePin(t) \/ Load(t) \/ GoLow(t) \/ Repeat(t)

Next ==
    \/ \E c \in Callers : Enter(c) \/ Proceed(c)
    \/ \E t \in Threads : Run(t) \/ Die(t)

Spec == Init /\ [][Next]_vars

(***************************************************************************)
(* Threads are scheduled, and a cancelled thread dies in one of its delays *)
(* (strong fairness: between two delays it is not at a cancellation point).*)
(***************************************************************************)
FairSpec ==
    /\ Spec
    /\ \A c \in Callers : WF_vars(Proceed(c))
    /\ \A t \in Threads : WF_vars(Run(t)) /\ SF_vars(Die(t))

-----------------------------------------------------------------------------
Driving(p) == {t \in Live : tpin[t] = p}
Quiet(p)   == \A c \in Callers : cpin[c] # p

(* A pin never has two generators, PWM or tone, whatever sequence of       *)
(* creates, stops and pinModes was made: pinMode clears the other kind.    *)
(* In Sys mode it does not, and a pin can have one of each kind.           *)
OneDriver == sysMode \/ \A p \in Pins : Cardinality(Driving(p)) <= 1

(* When no call on a pin is under way, the arrays tell the truth about its *)
(* threads: a non-zero range or tone thread means that exactly this thread *)
(* is alive on the pin, so that a later stop cancels the right one.        *)
HandleNamesDriver ==
    \A p \in Pins : Quiet(p) =>
        /\ range[p] # 0 => threads["pwm"][p] \in Driving(p)
        /\ threads["tone"][p] # NoThread => threads["tone"][p] \in Driving(p)

(* After the stop of a generator has returned, nothing drives the pin and  *)
(* its output is LOW.                                                      *)
StoppedIsQuiet ==
    \A p \in Pins :
        Quiet(p) /\ range[p] = 0 /\ threads["tone"][p] = NoThread
            => Driving(p) = {} /\ level[p] = "LOW"

(* Every library call returns: joins and hand-offs end.  (A call that      *)
(* needs more threads than the bound Threads allows is not counted.)       *)
CallReturns ==
    \A c \in Callers :
        at[c] # "idle" ~> (at[c] = "idle" \/ (at[c] = "create" /\ Live = Threads))
=============================================================================
