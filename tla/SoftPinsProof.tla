--------------------------- MODULE SoftPinsProof ---------------------------
(* Proofs about SoftPins, for every set of callers, pins, threads and       *)
(* values.  All but TypeCorrect assume that one caller makes the creates,   *)
(* stops and pinModes, as no lock protects them; any number of others may   *)
(* write values at the same time.                                           *)
EXTENDS SoftPins, FiniteSetTheorems, TLAPS

\* What a call can be at each place of its code.
CallFits(c) ==
    /\ at[c] = "idle" <=> cpin[c] = NoPin
    /\ at[c] = "mode" => op[c] \in Kinds \cup {"mode"}
    /\ at[c] \notin {"idle", "write"} => op[c] # "none"
    /\ at[c] \in {"setup", "create", "spin"} => op[c] \in Kinds
    /\ op[c] = "pwm" => crange[c] # 0

TypeInv == TypeOK /\ \A c \in Callers : CallFits(c)

-----------------------------------------------------------------------------
(* Types, and what a call can be at each place, survive every step.        *)
LEMMA TypeStep == TypeInv /\ [Next]_vars => TypeInv'
  <1> SUFFICES ASSUME TypeInv, [Next]_vars PROVE TypeInv'
    OBVIOUS
  <1> USE NamesAssumption, ValuesAssumption DEF TypeInv, TypeOK, Kinds, Places, Steps, CallFits
  <1>1. ASSUME NEW c \in Callers, SoftPwmCreate(c) PROVE TypeInv'
    BY <1>1 DEF SoftPwmCreate, Begin, Goto, callVars, sharedVars, threadVars
  <1>2. ASSUME NEW c \in Callers, SoftToneCreate(c) PROVE TypeInv'
    BY <1>2 DEF SoftToneCreate, Begin, Goto, callVars, sharedVars, threadVars
  <1>3. ASSUME NEW c \in Callers, PinMode(c) PROVE TypeInv'
    BY <1>3 DEF PinMode, Begin, Goto, callVars, sharedVars, threadVars
  <1>4. ASSUME NEW c \in Callers, SoftPwmStop(c) PROVE TypeInv'
    BY <1>4 DEF SoftPwmStop, Begin, Goto, callVars, sharedVars, threadVars
  <1>5. ASSUME NEW c \in Callers, SoftToneStop(c) PROVE TypeInv'
    BY <1>5 DEF SoftToneStop, Begin, Goto, callVars, sharedVars, threadVars
  <1>6. ASSUME NEW c \in Callers, SoftPwmWrite(c) PROVE TypeInv'
    BY <1>6 DEF SoftPwmWrite, Begin, Goto, Clamp, callVars, sharedVars, threadVars
  <1>7. ASSUME NEW c \in Callers, SoftToneWrite(c) PROVE TypeInv'
    BY <1>7 DEF SoftToneWrite, callVars, sharedVars, threadVars
  <1>8. ASSUME NEW c \in Callers, StoreMark(c) PROVE TypeInv'
    BY <1>8 DEF StoreMark, Return, callVars, sharedVars, threadVars
  <1>9. ASSUME NEW c \in Callers, EnterMode(c) PROVE TypeInv'
    BY <1>9 DEF EnterMode, Goto, callVars, sharedVars, threadVars
  <1>10. ASSUME NEW c \in Callers, ModeIgnored(c) PROVE TypeInv'
    BY <1>10 DEF ModeIgnored, Return, callVars, sharedVars, threadVars
  <1>11. ASSUME NEW c \in Callers, StopPwm(c) PROVE TypeInv'
    <2>1. CASE range[cpin[c]] # 0
      <3>1. TypeOK'
        BY <1>11, <2>1 DEF StopPwm, CancelThread, AfterPwm, Return, Goto, callVars,
           sharedVars, threadVars
      <3>2. \A d \in Callers : CallFits(d)'
        BY <1>11, <2>1 DEF StopPwm, CancelThread, AfterPwm, Return, Goto, callVars,
           sharedVars, threadVars
      <3> QED
        BY <3>1, <3>2
    <2>2. CASE range[cpin[c]] = 0
      <3>1. TypeOK'
        BY <1>11, <2>2 DEF StopPwm, CancelThread, AfterPwm, Return, Goto, callVars,
           sharedVars, threadVars
      <3>2. \A d \in Callers : CallFits(d)'
        BY <1>11, <2>2 DEF StopPwm, CancelThread, AfterPwm, Return, Goto, callVars,
           sharedVars, threadVars
      <3> QED
        BY <3>1, <3>2
    <2> QED
      BY <2>1, <2>2
  <1>12. ASSUME NEW c \in Callers, JoinPwm(c) PROVE TypeInv'
    BY <1>12 DEF JoinPwm, AfterPwm, Return, Goto, callVars, sharedVars, threadVars
  <1>13. ASSUME NEW c \in Callers, StopTone(c) PROVE TypeInv'
    <2>1. CASE threads["tone"][cpin[c]] # NoThread
      <3>1. TypeOK'
        BY <1>13, <2>1 DEF StopTone, CancelThread, AfterTone, Return, Goto, callVars,
           sharedVars, threadVars
      <3>2. \A d \in Callers : CallFits(d)'
        BY <1>13, <2>1 DEF StopTone, CancelThread, AfterTone, Return, Goto, callVars,
           sharedVars, threadVars
      <3> QED
        BY <3>1, <3>2
    <2>2. CASE threads["tone"][cpin[c]] = NoThread
      <3>1. TypeOK'
        BY <1>13, <2>2 DEF StopTone, CancelThread, AfterTone, Return, Goto, callVars,
           sharedVars, threadVars
      <3>2. \A d \in Callers : CallFits(d)'
        BY <1>13, <2>2 DEF StopTone, CancelThread, AfterTone, Return, Goto, callVars,
           sharedVars, threadVars
      <3> QED
        BY <3>1, <3>2
    <2> QED
      BY <2>1, <2>2
  <1>14. ASSUME NEW c \in Callers, JoinTone(c) PROVE TypeInv'
    BY <1>14 DEF JoinTone, AfterTone, Return, Goto, callVars, sharedVars, threadVars
  <1>15. ASSUME NEW c \in Callers, SetupPwm(c) PROVE TypeInv'
    BY <1>15 DEF SetupPwm, Goto, callVars, sharedVars, threadVars
  <1>16. ASSUME NEW c \in Callers, SetupTone(c) PROVE TypeInv'
    <2>1. CASE threads["tone"][cpin[c]] # NoThread
      <3>1. TypeOK'
        BY <1>16, <2>1 DEF SetupTone, Goto, Return, callVars, sharedVars, threadVars
      <3>2. \A d \in Callers : CallFits(d)'
        BY <1>16, <2>1 DEF SetupTone, Goto, Return, callVars, sharedVars, threadVars
      <3> QED
        BY <3>1, <3>2
    <2>2. CASE threads["tone"][cpin[c]] = NoThread
      <3>1. TypeOK'
        <4>1. /\ level' = [level EXCEPT ![cpin[c]] = "LOW"]
              /\ at' = [at EXCEPT ![c] = "create"]
              /\ freqs' = [freqs EXCEPT ![cpin[c]] = FALSE]
              /\ newPin' = [newPin EXCEPT !["tone"] = cpin[c]]
              /\ UNCHANGED <<op, cpin, cval, crange, cthread, threads, marks, range, sysMode>>
              /\ UNCHANGED threadVars
          BY <1>16, <2>2 DEF SetupTone, Goto
        <4> QED
          BY <4>1 DEF threadVars
      <3>2. \A d \in Callers : CallFits(d)'
        BY <1>16, <2>2 DEF SetupTone, Goto, Return, callVars, sharedVars, threadVars
      <3> QED
        BY <3>1, <3>2
    <2> QED
      BY <2>1, <2>2
  <1>17. ASSUME NEW c \in Callers, CreateThread(c) PROVE TypeInv'
    BY <1>17 DEF CreateThread, Goto, callVars, sharedVars, threadVars
  <1>18. ASSUME NEW c \in Callers, Spin(c) PROVE TypeInv'
    BY <1>18 DEF Spin, Return, callVars, sharedVars, threadVars
  <1>19. ASSUME NEW t \in Threads, TakePin(t) PROVE TypeInv'
    BY <1>19 DEF TakePin, callVars, sharedVars, threadVars
  <1>20. ASSUME NEW t \in Threads, Load(t) PROVE TypeInv'
    BY <1>20 DEF Load, callVars, sharedVars, threadVars
  <1>21. ASSUME NEW t \in Threads, GoLow(t) PROVE TypeInv'
    BY <1>21 DEF GoLow, callVars, sharedVars, threadVars
  <1>22. ASSUME NEW t \in Threads, Repeat(t) PROVE TypeInv'
    BY <1>22 DEF Repeat, callVars, sharedVars, threadVars
  <1>23. ASSUME NEW t \in Threads, Die(t) PROVE TypeInv'
    BY <1>23 DEF Die, callVars, sharedVars, threadVars
  <1>24. CASE UNCHANGED vars
    BY <1>24 DEF vars, callVars, sharedVars, threadVars
  <1> QED
    BY <1>1, <1>2, <1>3, <1>4, <1>5, <1>6, <1>7, <1>8, <1>9, <1>10, <1>11, <1>12, <1>13,
       <1>14, <1>15, <1>16, <1>17, <1>18, <1>19, <1>20, <1>21, <1>22, <1>23, <1>24 DEF
       Next, Enter, Proceed, Run

(* Every variable stays in its type, for any number of callers in every    *)
(* interleaving.                                                           *)
THEOREM TypeCorrect == Spec => []TypeOK
  <1>1. Init => TypeInv
    BY NamesAssumption, ValuesAssumption
       DEF Init, TypeInv, TypeOK, CallFits, Kinds, Places, Steps
  <1>2. TypeInv => TypeOK
    BY DEF TypeInv
  <1> QED
    BY <1>1, <1>2, TypeStep, PTL DEF Spec

-----------------------------------------------------------------------------
(* One caller makes the creates, stops and pinModes.                       *)
SingleMaker == \E c \in Callers : Makers \subseteq {c}
Maker == CHOOSE c \in Callers : Makers \subseteq {c}

\* Pin has a generator of kind k as far as the arrays say.
On(k, pin) ==
    IF k = "pwm" THEN range[pin] # 0 ELSE threads["tone"][pin] # NoThread

\* ... and its creation is over, so that threads[k][pin] is its thread.
Fresh(k, pin) == at[Maker] \in {"create", "spin"} /\ op[Maker] = k /\ cpin[Maker] = pin
Held(k, pin)  == On(k, pin) /\ ~Fresh(k, pin)

JoinOf(k) == IF k = "pwm" THEN "joinPwm" ELSE "joinTone"

\* th is the thread that the creation under way has just made.
NewDriver(th) == at[Maker] = "spin" /\ cthread[Maker] = th /\ kind[th] = op[Maker]

OthersWrite == \A c \in Callers : c # Maker => at[c] \in {"idle", "write"}

(* A thread has its pin from the hand-off on; then either its creation is  *)
(* not over or the arrays name it.  Only a thread being joined is          *)
(* cancelled.                                                              *)
ThreadFits(th) ==
    /\ step[th] = "dead" => tpin[th] = NoPin /\ ~cancel[th]
    /\ step[th] = "start" =>
          /\ tpin[th] = NoPin /\ ~cancel[th] /\ NewDriver(th)
          /\ newPin[kind[th]] = cpin[Maker]
    /\ step[th] \in {"load", "high", "low"} =>
          /\ tpin[th] \in Pins
          /\ \/ NewDriver(th) /\ tpin[th] = cpin[Maker]
             \/ Held(kind[th], tpin[th]) /\ threads[kind[th]][tpin[th]] = th
    /\ cancel[th] => at[Maker] = JoinOf(kind[th]) /\ tpin[th] = cpin[Maker]

HandOff ==
    /\ at[Maker] = "create" => newPin[op[Maker]] = cpin[Maker]
    /\ at[Maker] = "spin" =>
          /\ cthread[Maker] \in Live
          /\ kind[cthread[Maker]] = op[Maker]
          /\ newPin[op[Maker]] = NoPin => tpin[cthread[Maker]] = cpin[Maker]

\* The arrays name a living thread of the right kind on the pin, except
\* while it is joined.
HandleFits(k, pin) ==
    Held(k, pin) =>
        \/ /\ threads[k][pin] \in Live
           /\ tpin[threads[k][pin]] = pin
           /\ kind[threads[k][pin]] = k
        \/ at[Maker] = JoinOf(k) /\ cpin[Maker] = pin

\* What the call under way has already cleared or set on its pin.
CallProgress ==
    /\ at[Maker] \in {"mode", "stopPwm", "joinPwm", "stopTone", "joinTone", "setup"}
          => (op[Maker] = "pwm" => range[cpin[Maker]] = 0)
    /\ at[Maker] \in {"create", "spin"} =>
          /\ op[Maker] = "pwm" => range[cpin[Maker]] # 0
          /\ op[Maker] = "tone" => threads["tone"][cpin[Maker]] = NoThread
    /\ ~sysMode /\ at[Maker] \in {"stopTone", "joinTone"} /\ op[Maker] # "stop"
          => range[cpin[Maker]] = 0
    /\ ~sysMode /\ at[Maker] \in {"setup", "create", "spin"} =>
          /\ op[Maker] = "pwm" => threads["tone"][cpin[Maker]] = NoThread
          /\ op[Maker] = "tone" => range[cpin[Maker]] = 0

OneKind == sysMode \/ \A pin \in Pins : range[pin] = 0 \/ threads["tone"][pin] = NoThread

\* A pin without a generator is LOW.
LowWhenOff ==
    \A pin \in Pins :
        range[pin] = 0 /\ threads["tone"][pin] = NoThread
          /\ ~(at[Maker] = "spin" /\ cpin[Maker] = pin) => level[pin] = "LOW"

Threaded == \A th \in Threads : ThreadFits(th)
Handled  == \A k \in Kinds, pin \in Pins : HandleFits(k, pin)

GenInv ==
    /\ TypeInv
    /\ OthersWrite
    /\ Threaded
    /\ HandOff
    /\ Handled
    /\ CallProgress
    /\ OneKind
    /\ LowWhenOff

(* Only the chosen caller makes generators.                                *)
LEMMA MakerFact ==
    ASSUME SingleMaker
    PROVE  Maker \in Callers /\ Makers \subseteq {Maker}
  BY DEF SingleMaker, Maker

(* softPwmCreate enters on a pin whose range is 0 and sets it LOW.         *)
LEMMA SoftPwmCreateStep ==
    ASSUME SingleMaker, GenInv, TypeInv', NEW c \in Callers, SoftPwmCreate(c)
    PROVE  GenInv'
  <1> USE MakerFact, NamesAssumption, ValuesAssumption
      DEF GenInv, TypeInv, TypeOK, Kinds, Places, Steps, CallFits, callVars, sharedVars,
          threadVars, Live
  <1>1. c = Maker
    BY DEF OthersWrite, SoftPwmCreate, Begin, Goto
  <1>2. OthersWrite' /\ HandOff' /\ CallProgress'
    BY <1>1 DEF SoftPwmCreate, Begin, Goto, OthersWrite, HandOff, CallProgress
  <1>3. Threaded'
    BY <1>1 DEF SoftPwmCreate, Begin, Goto, Threaded, ThreadFits, NewDriver, Held, Fresh,
       On, JoinOf
  <1>4. Handled'
    BY <1>1 DEF SoftPwmCreate, Begin, Goto, Handled, HandleFits, Held, Fresh, On, JoinOf
  <1>5. OneKind' /\ LowWhenOff'
    BY <1>1 DEF SoftPwmCreate, Begin, Goto, OneKind, LowWhenOff
  <1> QED
    BY <1>2, <1>3, <1>4, <1>5

(* softToneCreate enters; it changes no shared state yet.                  *)
LEMMA SoftToneCreateStep ==
    ASSUME SingleMaker, GenInv, TypeInv', NEW c \in Callers, SoftToneCreate(c)
    PROVE  GenInv'
  <1> USE MakerFact, NamesAssumption, ValuesAssumption
      DEF GenInv, TypeInv, TypeOK, Kinds, Places, Steps, CallFits, callVars, sharedVars,
          threadVars, Live
  <1>1. c = Maker
    BY DEF OthersWrite, SoftToneCreate, Begin, Goto
  <1>2. OthersWrite' /\ HandOff' /\ CallProgress'
    BY <1>1 DEF SoftToneCreate, Begin, Goto, OthersWrite, HandOff, CallProgress
  <1>3. Threaded'
    BY <1>1 DEF SoftToneCreate, Begin, Goto, Threaded, ThreadFits, NewDriver, Held, Fresh,
       On, JoinOf
  <1>4. Handled'
    BY <1>1 DEF SoftToneCreate, Begin, Goto, Handled, HandleFits, Held, Fresh, On, JoinOf
  <1>5. OneKind' /\ LowWhenOff'
    BY <1>1 DEF SoftToneCreate, Begin, Goto, OneKind, LowWhenOff
  <1> QED
    BY <1>2, <1>3, <1>4, <1>5

(* pinMode enters; it changes no shared state yet.                         *)
LEMMA PinModeStep ==
    ASSUME SingleMaker, GenInv, TypeInv', NEW c \in Callers, PinMode(c)
    PROVE  GenInv'
  <1> USE MakerFact, NamesAssumption, ValuesAssumption
      DEF GenInv, TypeInv, TypeOK, Kinds, Places, Steps, CallFits, callVars, sharedVars,
          threadVars, Live
  <1>1. c = Maker
    BY DEF OthersWrite, PinMode, Begin, Goto
  <1>2. OthersWrite' /\ HandOff' /\ CallProgress'
    BY <1>1 DEF PinMode, Begin, Goto, OthersWrite, HandOff, CallProgress
  <1>3. Threaded'
    BY <1>1 DEF PinMode, Begin, Goto, Threaded, ThreadFits, NewDriver, Held, Fresh, On,
       JoinOf
  <1>4. Handled'
    BY <1>1 DEF PinMode, Begin, Goto, Handled, HandleFits, Held, Fresh, On, JoinOf
  <1>5. OneKind' /\ LowWhenOff'
    BY <1>1 DEF PinMode, Begin, Goto, OneKind, LowWhenOff
  <1> QED
    BY <1>2, <1>3, <1>4, <1>5

(* softPwmStop enters; it changes no shared state yet.                     *)
LEMMA SoftPwmStopStep ==
    ASSUME SingleMaker, GenInv, TypeInv', NEW c \in Callers, SoftPwmStop(c)
    PROVE  GenInv'
  <1> USE MakerFact, NamesAssumption, ValuesAssumption
      DEF GenInv, TypeInv, TypeOK, Kinds, Places, Steps, CallFits, callVars, sharedVars,
          threadVars, Live
  <1>1. c = Maker
    BY DEF OthersWrite, SoftPwmStop, Begin, Goto
  <1>2. OthersWrite' /\ HandOff' /\ CallProgress'
    BY <1>1 DEF SoftPwmStop, Begin, Goto, OthersWrite, HandOff, CallProgress
  <1>3. Threaded'
    BY <1>1 DEF SoftPwmStop, Begin, Goto, Threaded, ThreadFits, NewDriver, Held, Fresh, On,
       JoinOf
  <1>4. Handled'
    BY <1>1 DEF SoftPwmStop, Begin, Goto, Handled, HandleFits, Held, Fresh, On, JoinOf
  <1>5. OneKind' /\ LowWhenOff'
    BY <1>1 DEF SoftPwmStop, Begin, Goto, OneKind, LowWhenOff
  <1> QED
    BY <1>2, <1>3, <1>4, <1>5

(* softToneStop enters; it changes no shared state yet.                    *)
LEMMA SoftToneStopStep ==
    ASSUME SingleMaker, GenInv, TypeInv', NEW c \in Callers, SoftToneStop(c)
    PROVE  GenInv'
  <1> USE MakerFact, NamesAssumption, ValuesAssumption
      DEF GenInv, TypeInv, TypeOK, Kinds, Places, Steps, CallFits, callVars, sharedVars,
          threadVars, Live
  <1>1. c = Maker
    BY DEF OthersWrite, SoftToneStop, Begin, Goto
  <1>2. OthersWrite' /\ HandOff' /\ CallProgress'
    BY <1>1 DEF SoftToneStop, Begin, Goto, OthersWrite, HandOff, CallProgress
  <1>3. Threaded'
    BY <1>1 DEF SoftToneStop, Begin, Goto, Threaded, ThreadFits, NewDriver, Held, Fresh, On,
       JoinOf
  <1>4. Handled'
    BY <1>1 DEF SoftToneStop, Begin, Goto, Handled, HandleFits, Held, Fresh, On, JoinOf
  <1>5. OneKind' /\ LowWhenOff'
    BY <1>1 DEF SoftToneStop, Begin, Goto, OneKind, LowWhenOff
  <1> QED
    BY <1>2, <1>3, <1>4, <1>5

(* softPwmWrite reads the range, whoever calls it.                         *)
LEMMA SoftPwmWriteStep ==
    ASSUME SingleMaker, GenInv, TypeInv', NEW c \in Callers, SoftPwmWrite(c)
    PROVE  GenInv'
  <1> USE MakerFact, NamesAssumption, ValuesAssumption
      DEF GenInv, TypeInv, TypeOK, Kinds, Places, Steps, CallFits, callVars, sharedVars,
          threadVars, Live
  <1>2. OthersWrite' /\ HandOff' /\ CallProgress'
    BY DEF SoftPwmWrite, Begin, Goto, Clamp, OthersWrite, HandOff, CallProgress
  <1>3. Threaded'
    BY DEF SoftPwmWrite, Begin, Goto, Clamp, Threaded, ThreadFits, NewDriver, Held, Fresh,
       On, JoinOf
  <1>4. Handled'
    BY DEF SoftPwmWrite, Begin, Goto, Clamp, Handled, HandleFits, Held, Fresh, On, JoinOf
  <1>5. OneKind' /\ LowWhenOff'
    BY DEF SoftPwmWrite, Begin, Goto, Clamp, OneKind, LowWhenOff
  <1> QED
    BY <1>2, <1>3, <1>4, <1>5

(* softToneWrite stores a frequency, whoever calls it.                     *)
LEMMA SoftToneWriteStep ==
    ASSUME SingleMaker, GenInv, TypeInv', NEW c \in Callers, SoftToneWrite(c)
    PROVE  GenInv'
  <1> USE MakerFact, NamesAssumption, ValuesAssumption
      DEF GenInv, TypeInv, TypeOK, Kinds, Places, Steps, CallFits, callVars, sharedVars,
          threadVars, Live
  <1>2. OthersWrite' /\ HandOff' /\ CallProgress'
    BY DEF SoftToneWrite, OthersWrite, HandOff, CallProgress
  <1>3. Threaded'
    BY DEF SoftToneWrite, Threaded, ThreadFits, NewDriver, Held, Fresh, On, JoinOf
  <1>4. Handled'
    BY DEF SoftToneWrite, Handled, HandleFits, Held, Fresh, On, JoinOf
  <1>5. OneKind' /\ LowWhenOff'
    BY DEF SoftToneWrite, OneKind, LowWhenOff
  <1> QED
    BY <1>2, <1>3, <1>4, <1>5

(* softPwmWrite stores its mark, however late.                             *)
LEMMA StoreMarkStep ==
    ASSUME SingleMaker, GenInv, TypeInv', NEW c \in Callers, StoreMark(c)
    PROVE  GenInv'
  <1> USE MakerFact, NamesAssumption, ValuesAssumption
      DEF GenInv, TypeInv, TypeOK, Kinds, Places, Steps, CallFits, callVars, sharedVars,
          threadVars, Live
  <1>2. OthersWrite' /\ HandOff' /\ CallProgress'
    BY DEF StoreMark, Return, OthersWrite, HandOff, CallProgress
  <1>3. Threaded'
    BY DEF StoreMark, Return, Threaded, ThreadFits, NewDriver, Held, Fresh, On, JoinOf
  <1>4. Handled'
    BY DEF StoreMark, Return, Handled, HandleFits, Held, Fresh, On, JoinOf
  <1>5. OneKind' /\ LowWhenOff'
    BY DEF StoreMark, Return, OneKind, LowWhenOff
  <1> QED
    BY <1>2, <1>3, <1>4, <1>5

(* pinMode goes to the stops, or past them in Sys mode.                    *)
LEMMA EnterModeStep ==
    ASSUME SingleMaker, GenInv, TypeInv', NEW c \in Callers, EnterMode(c)
    PROVE  GenInv'
  <1> USE MakerFact, NamesAssumption, ValuesAssumption
      DEF GenInv, TypeInv, TypeOK, Kinds, Places, Steps, CallFits, callVars, sharedVars,
          threadVars, Live
  <1>1. c = Maker
    BY DEF OthersWrite, EnterMode, Goto
  <1>2. OthersWrite' /\ HandOff' /\ CallProgress'
    BY <1>1 DEF EnterMode, Goto, OthersWrite, HandOff, CallProgress
  <1>3. Threaded'
    BY <1>1 DEF EnterMode, Goto, Threaded, ThreadFits, NewDriver, Held, Fresh, On, JoinOf
  <1>4. Handled'
    BY <1>1 DEF EnterMode, Goto, Handled, HandleFits, Held, Fresh, On, JoinOf
  <1>5. OneKind' /\ LowWhenOff'
    BY <1>1 DEF EnterMode, Goto, OneKind, LowWhenOff
  <1> QED
    BY <1>2, <1>3, <1>4, <1>5

(* A pinMode that Sys mode ignores returns.                                *)
LEMMA ModeIgnoredStep ==
    ASSUME SingleMaker, GenInv, TypeInv', NEW c \in Callers, ModeIgnored(c)
    PROVE  GenInv'
  <1> USE MakerFact, NamesAssumption, ValuesAssumption
      DEF GenInv, TypeInv, TypeOK, Kinds, Places, Steps, CallFits, callVars, sharedVars,
          threadVars, Live
  <1>1. c = Maker
    BY DEF OthersWrite, ModeIgnored, Return
  <1>2. OthersWrite' /\ HandOff' /\ CallProgress'
    BY <1>1 DEF ModeIgnored, Return, OthersWrite, HandOff, CallProgress
  <1>3. Threaded'
    BY <1>1 DEF ModeIgnored, Return, Threaded, ThreadFits, NewDriver, Held, Fresh, On,
       JoinOf
  <1>4. Handled'
    BY <1>1 DEF ModeIgnored, Return, Handled, HandleFits, Held, Fresh, On, JoinOf
  <1>5. OneKind' /\ LowWhenOff'
    BY <1>1 DEF ModeIgnored, Return, OneKind, LowWhenOff
  <1> QED
    BY <1>2, <1>3, <1>4, <1>5

(* The cancelled thread is the one that drives the pin.                    *)
LEMMA StopPwmStep ==
    ASSUME SingleMaker, GenInv, TypeInv', NEW c \in Callers, StopPwm(c)
    PROVE  GenInv'
  <1> USE MakerFact, NamesAssumption, ValuesAssumption
      DEF GenInv, TypeInv, TypeOK, Kinds, Places, Steps, CallFits, callVars, sharedVars,
          threadVars, Live
  <1>1. c = Maker
    BY DEF OthersWrite, StopPwm, CancelThread, AfterPwm, Return, Goto
  <1>2. OthersWrite' /\ HandOff' /\ CallProgress'
    BY <1>1 DEF StopPwm, CancelThread, AfterPwm, Return, Goto, OthersWrite, HandOff,
       CallProgress
  <1>3. Threaded'
    BY <1>1 DEF StopPwm, CancelThread, AfterPwm, Return, Goto, Threaded, ThreadFits,
       NewDriver, Held, Fresh, On, JoinOf, Handled, HandleFits
  <1>4. Handled'
    BY <1>1 DEF StopPwm, CancelThread, AfterPwm, Return, Goto, Handled, HandleFits, Held,
       Fresh, On, JoinOf
  <1>5. OneKind' /\ LowWhenOff'
    BY <1>1 DEF StopPwm, CancelThread, AfterPwm, Return, Goto, OneKind, LowWhenOff
  <1> QED
    BY <1>2, <1>3, <1>4, <1>5

(* When the joined thread is dead no PWM thread is left on the pin.        *)
LEMMA JoinPwmStep ==
    ASSUME SingleMaker, GenInv, TypeInv', NEW c \in Callers, JoinPwm(c)
    PROVE  GenInv'
  <1> USE MakerFact, NamesAssumption, ValuesAssumption
      DEF GenInv, TypeInv, TypeOK, Kinds, Places, Steps, CallFits, callVars, sharedVars,
          threadVars, Live
  <1>1. c = Maker
    BY DEF OthersWrite, JoinPwm, AfterPwm, Return, Goto
  <1>2. OthersWrite' /\ HandOff' /\ CallProgress'
    BY <1>1 DEF JoinPwm, AfterPwm, Return, Goto, OthersWrite, HandOff, CallProgress
  <1>3. Threaded'
    BY <1>1 DEF JoinPwm, AfterPwm, Return, Goto, Threaded, ThreadFits, NewDriver, Held,
       Fresh, On, JoinOf
  <1>4. Handled'
    BY <1>1 DEF JoinPwm, AfterPwm, Return, Goto, Handled, HandleFits, Held, Fresh, On,
       JoinOf
  <1>5. OneKind' /\ LowWhenOff'
    BY <1>1 DEF JoinPwm, AfterPwm, Return, Goto, OneKind, LowWhenOff
  <1> QED
    BY <1>2, <1>3, <1>4, <1>5

(* The cancelled thread is the one that sounds on the pin.                 *)
LEMMA StopToneStep ==
    ASSUME SingleMaker, GenInv, TypeInv', NEW c \in Callers, StopTone(c)
    PROVE  GenInv'
  <1> USE MakerFact, NamesAssumption, ValuesAssumption
      DEF GenInv, TypeInv, TypeOK, Kinds, Places, Steps, CallFits, callVars, sharedVars,
          threadVars, Live
  <1>1. c = Maker
    BY DEF OthersWrite, StopTone, CancelThread, AfterTone, Return, Goto
  <1>2. OthersWrite' /\ HandOff' /\ CallProgress'
    BY <1>1 DEF StopTone, CancelThread, AfterTone, Return, Goto, OthersWrite, HandOff,
       CallProgress
  <1>3. Threaded'
    BY <1>1 DEF StopTone, CancelThread, AfterTone, Return, Goto, Threaded, ThreadFits,
       NewDriver, Held, Fresh, On, JoinOf, Handled, HandleFits
  <1>4. Handled'
    BY <1>1 DEF StopTone, CancelThread, AfterTone, Return, Goto, Handled, HandleFits, Held,
       Fresh, On, JoinOf
  <1>5. OneKind' /\ LowWhenOff'
    BY <1>1 DEF StopTone, CancelThread, AfterTone, Return, Goto, OneKind, LowWhenOff
  <1> QED
    BY <1>2, <1>3, <1>4, <1>5

(* When the joined thread is dead no tone thread is left on the pin.       *)
LEMMA JoinToneStep ==
    ASSUME SingleMaker, GenInv, TypeInv', NEW c \in Callers, JoinTone(c)
    PROVE  GenInv'
  <1> USE MakerFact, NamesAssumption, ValuesAssumption
      DEF GenInv, TypeInv, TypeOK, Kinds, Places, Steps, CallFits, callVars, sharedVars,
          threadVars, Live
  <1>1. c = Maker
    BY DEF OthersWrite, JoinTone, AfterTone, Return, Goto
  <1>2. OthersWrite' /\ HandOff' /\ CallProgress'
    BY <1>1 DEF JoinTone, AfterTone, Return, Goto, OthersWrite, HandOff, CallProgress
  <1>3. Threaded'
    BY <1>1 DEF JoinTone, AfterTone, Return, Goto, Threaded, ThreadFits, NewDriver, Held,
       Fresh, On, JoinOf
  <1>4. Handled'
    BY <1>1 DEF JoinTone, AfterTone, Return, Goto, Handled, HandleFits, Held, Fresh, On,
       JoinOf
  <1>5. OneKind' /\ LowWhenOff'
    BY <1>1 DEF JoinTone, AfterTone, Return, Goto, OneKind, LowWhenOff
  <1> QED
    BY <1>2, <1>3, <1>4, <1>5

(* The range becomes non-zero before the pin has its thread.               *)
LEMMA SetupPwmStep ==
    ASSUME SingleMaker, GenInv, TypeInv', NEW c \in Callers, SetupPwm(c)
    PROVE  GenInv'
  <1> USE MakerFact, NamesAssumption, ValuesAssumption
      DEF GenInv, TypeInv, TypeOK, Kinds, Places, Steps, CallFits, callVars, sharedVars,
          threadVars, Live
  <1>1. c = Maker
    BY DEF OthersWrite, SetupPwm, Goto
  <1>2. OthersWrite' /\ HandOff' /\ CallProgress'
    BY <1>1 DEF SetupPwm, Goto, OthersWrite, HandOff, CallProgress
  <1>3. Threaded'
    BY <1>1 DEF SetupPwm, Goto, Threaded, ThreadFits, NewDriver, Held, Fresh, On, JoinOf,
       CallProgress
  <1>4. Handled'
    BY <1>1 DEF SetupPwm, Goto, Handled, HandleFits, Held, Fresh, On, JoinOf
  <1>5. OneKind' /\ LowWhenOff'
    BY <1>1 DEF SetupPwm, Goto, OneKind, CallProgress, LowWhenOff
  <1> QED
    BY <1>2, <1>3, <1>4, <1>5

(* The pin is handed over, or the tone is there already.                   *)
LEMMA SetupToneStep ==
    ASSUME SingleMaker, GenInv, TypeInv', NEW c \in Callers, SetupTone(c)
    PROVE  GenInv'
  <1> USE MakerFact, NamesAssumption, ValuesAssumption
      DEF GenInv, TypeInv, TypeOK, Kinds, Places, Steps, CallFits, callVars, sharedVars,
          threadVars, Live
  <1>1. c = Maker
    BY DEF OthersWrite, SetupTone, Goto, Return
  <1>2. OthersWrite' /\ HandOff' /\ CallProgress'
    BY <1>1 DEF SetupTone, Goto, Return, OthersWrite, HandOff, CallProgress
  <1>3. Threaded'
    BY <1>1 DEF SetupTone, Goto, Return, Threaded, ThreadFits, NewDriver, Held, Fresh, On,
       JoinOf
  <1>4. Handled'
    BY <1>1 DEF SetupTone, Goto, Return, Handled, HandleFits, Held, Fresh, On, JoinOf
  <1>5. OneKind' /\ LowWhenOff'
    BY <1>1 DEF SetupTone, Goto, Return, OneKind, LowWhenOff
  <1> QED
    BY <1>2, <1>3, <1>4, <1>5

(* The new identifier is not the one of a living thread.                   *)
LEMMA CreateThreadStep ==
    ASSUME SingleMaker, GenInv, TypeInv', NEW c \in Callers, CreateThread(c)
    PROVE  GenInv'
  <1> USE MakerFact, NamesAssumption, ValuesAssumption
      DEF GenInv, TypeInv, TypeOK, Kinds, Places, Steps, CallFits, callVars, sharedVars,
          threadVars, Live
  <1>1. c = Maker
    BY DEF OthersWrite, CreateThread, Goto
  <1>2. OthersWrite' /\ HandOff' /\ CallProgress'
    BY <1>1 DEF CreateThread, Goto, OthersWrite, HandOff, CallProgress
  <1>3. Threaded'
    BY <1>1 DEF CreateThread, Goto, Threaded, ThreadFits, NewDriver, Held, Fresh, On,
       JoinOf, HandOff
  <1>4. Handled'
    BY <1>1 DEF CreateThread, Goto, Handled, HandleFits, Held, Fresh, On, JoinOf
  <1>5. OneKind' /\ LowWhenOff'
    BY <1>1 DEF CreateThread, Goto, OneKind, LowWhenOff
  <1> QED
    BY <1>2, <1>3, <1>4, <1>5

(* The thread that took the hand-off is the one the array gets.            *)
LEMMA SpinStep ==
    ASSUME SingleMaker, GenInv, TypeInv', NEW c \in Callers, Spin(c)
    PROVE  GenInv'
  <1> USE MakerFact, NamesAssumption, ValuesAssumption
      DEF GenInv, TypeInv, TypeOK, Kinds, Places, Steps, CallFits, callVars, sharedVars,
          threadVars, Live
  <1>1. c = Maker
    BY DEF OthersWrite, Spin, Return
  <1>2. OthersWrite' /\ HandOff' /\ CallProgress'
    BY <1>1 DEF Spin, Return, OthersWrite, HandOff, CallProgress
  <1>3. Threaded'
    BY <1>1 DEF Spin, Return, Threaded, ThreadFits, NewDriver, Held, Fresh, On, JoinOf,
       CallProgress
  <1>4. Handled'
    BY <1>1 DEF Spin, Return, Handled, HandleFits, Held, Fresh, On, JoinOf, HandOff
  <1>5. OneKind' /\ LowWhenOff'
    BY <1>1 DEF Spin, Return, OneKind, CallProgress, LowWhenOff, HandOff
  <1> QED
    BY <1>2, <1>3, <1>4, <1>5

(* The new thread takes the pin its creator hands over.                    *)
LEMMA TakePinStep ==
    ASSUME SingleMaker, GenInv, TypeInv', NEW t \in Threads, TakePin(t)
    PROVE  GenInv'
  <1> USE MakerFact, NamesAssumption, ValuesAssumption
      DEF GenInv, TypeInv, TypeOK, Kinds, Places, Steps, CallFits, callVars, sharedVars,
          threadVars, Live
  <1>2. OthersWrite' /\ HandOff' /\ CallProgress'
    BY DEF TakePin, OthersWrite, HandOff, Threaded, ThreadFits, NewDriver, Held, Fresh, On,
       JoinOf, CallProgress
  <1>3. Threaded'
    BY DEF TakePin, Threaded, ThreadFits, NewDriver, Held, Fresh, On, JoinOf
  <1>4. Handled'
    BY DEF TakePin, Handled, HandleFits, Held, Fresh, On, JoinOf, Threaded, ThreadFits,
       NewDriver
  <1>5. OneKind' /\ LowWhenOff'
    BY DEF TakePin, OneKind, LowWhenOff
  <1> QED
    BY <1>2, <1>3, <1>4, <1>5

(* The start of a cycle; only a thread the arrays name raises a pin.       *)
LEMMA LoadStep ==
    ASSUME SingleMaker, GenInv, TypeInv', NEW t \in Threads, Load(t)
    PROVE  GenInv'
  <1> USE MakerFact, NamesAssumption, ValuesAssumption
      DEF GenInv, TypeInv, TypeOK, Kinds, Places, Steps, CallFits, callVars, sharedVars,
          threadVars, Live
  <1>2. OthersWrite' /\ HandOff' /\ CallProgress'
    BY DEF Load, OthersWrite, HandOff, CallProgress
  <1>3. Threaded'
    BY DEF Load, Threaded, ThreadFits, NewDriver, Held, Fresh, On, JoinOf
  <1>4. Handled'
    BY DEF Load, Handled, HandleFits, Held, Fresh, On, JoinOf
  <1>5. OneKind' /\ LowWhenOff'
    BY DEF Load, OneKind, LowWhenOff, Threaded, ThreadFits, NewDriver, Held, Fresh, On,
       JoinOf
  <1> QED
    BY <1>2, <1>3, <1>4, <1>5

(* The second half of a cycle.                                             *)
LEMMA GoLowStep ==
    ASSUME SingleMaker, GenInv, TypeInv', NEW t \in Threads, GoLow(t)
    PROVE  GenInv'
  <1> USE MakerFact, NamesAssumption, ValuesAssumption
      DEF GenInv, TypeInv, TypeOK, Kinds, Places, Steps, CallFits, callVars, sharedVars,
          threadVars, Live
  <1>2. OthersWrite' /\ HandOff' /\ CallProgress'
    BY DEF GoLow, OthersWrite, HandOff, CallProgress
  <1>3. Threaded'
    BY DEF GoLow, Threaded, ThreadFits, NewDriver, Held, Fresh, On, JoinOf
  <1>4. Handled'
    BY DEF GoLow, Handled, HandleFits, Held, Fresh, On, JoinOf
  <1>5. OneKind' /\ LowWhenOff'
    BY DEF GoLow, OneKind, LowWhenOff
  <1> QED
    BY <1>2, <1>3, <1>4, <1>5

(* The end of a cycle.                                                     *)
LEMMA RepeatStep ==
    ASSUME SingleMaker, GenInv, TypeInv', NEW t \in Threads, Repeat(t)
    PROVE  GenInv'
  <1> USE MakerFact, NamesAssumption, ValuesAssumption
      DEF GenInv, TypeInv, TypeOK, Kinds, Places, Steps, CallFits, callVars, sharedVars,
          threadVars, Live
  <1>2. OthersWrite' /\ HandOff' /\ CallProgress'
    BY DEF Repeat, OthersWrite, HandOff, CallProgress
  <1>3. Threaded'
    BY DEF Repeat, Threaded, ThreadFits, NewDriver, Held, Fresh, On, JoinOf
  <1>4. Handled'
    BY DEF Repeat, Handled, HandleFits, Held, Fresh, On, JoinOf
  <1>5. OneKind' /\ LowWhenOff'
    BY DEF Repeat, OneKind, LowWhenOff
  <1> QED
    BY <1>2, <1>3, <1>4, <1>5

(* A thread dies only while the call that stops it waits.                  *)
LEMMA DieStep ==
    ASSUME SingleMaker, GenInv, TypeInv', NEW t \in Threads, Die(t)
    PROVE  GenInv'
  <1> USE MakerFact, NamesAssumption, ValuesAssumption
      DEF GenInv, TypeInv, TypeOK, Kinds, Places, Steps, CallFits, callVars, sharedVars,
          threadVars, Live
  <1>2. OthersWrite' /\ HandOff' /\ CallProgress'
    BY DEF Die, OthersWrite, HandOff, Threaded, ThreadFits, NewDriver, Held, Fresh, On,
       JoinOf, CallProgress
  <1>3. Threaded'
    BY DEF Die, Threaded, ThreadFits, NewDriver, Held, Fresh, On, JoinOf
  <1>4. Handled'
    BY DEF Die, Handled, HandleFits, Held, Fresh, On, JoinOf, Threaded, ThreadFits,
       NewDriver
  <1>5. OneKind' /\ LowWhenOff'
    BY DEF Die, OneKind, LowWhenOff
  <1> QED
    BY <1>2, <1>3, <1>4, <1>5

-----------------------------------------------------------------------------
(* The whole invariant survives every step.                                *)
LEMMA GenStep ==
    ASSUME SingleMaker
    PROVE  GenInv /\ [Next]_vars => GenInv'
  <1> SUFFICES ASSUME GenInv, [Next]_vars PROVE GenInv'
    OBVIOUS
  <1>1. TypeInv'
    BY TypeStep DEF GenInv
  <1>2. ASSUME NEW c \in Callers, Enter(c) PROVE GenInv'
    BY <1>1, <1>2, SoftPwmCreateStep, SoftToneCreateStep, PinModeStep, SoftPwmStopStep,
       SoftToneStopStep, SoftPwmWriteStep, SoftToneWriteStep DEF Enter
  <1>3. ASSUME NEW c \in Callers, Proceed(c) PROVE GenInv'
    BY <1>1, <1>3, StoreMarkStep, EnterModeStep, ModeIgnoredStep, StopPwmStep, JoinPwmStep,
       StopToneStep, JoinToneStep, SetupPwmStep, SetupToneStep, CreateThreadStep, SpinStep
       DEF Proceed
  <1>4. ASSUME NEW t \in Threads, Run(t) PROVE GenInv'
    BY <1>1, <1>4, TakePinStep, LoadStep, GoLowStep, RepeatStep DEF Run
  <1>5. ASSUME NEW t \in Threads, Die(t) PROVE GenInv'
    BY <1>1, <1>5, DieStep
  <1>6. CASE UNCHANGED vars
    BY <1>1, <1>6 DEF GenInv, vars, callVars, sharedVars, threadVars, OthersWrite, Threaded,
       ThreadFits, NewDriver, Held, Fresh, On, JoinOf, HandOff, Live, Handled, HandleFits,
       CallProgress, OneKind, LowWhenOff
  <1> QED
    BY <1>2, <1>3, <1>4, <1>5, <1>6 DEF Next

(* GenInv holds in every reachable state.                                  *)
LEMMA GenCorrect ==
    ASSUME SingleMaker
    PROVE  Spec => []GenInv
  <1>1. Init => GenInv
    <2> SUFFICES ASSUME Init PROVE GenInv
      OBVIOUS
    <2>1. TypeInv
      BY NamesAssumption, ValuesAssumption
         DEF Init, TypeInv, TypeOK, CallFits, Kinds, Places, Steps
    <2>2. OthersWrite /\ HandOff /\ CallProgress
      BY MakerFact DEF Init, OthersWrite, HandOff, CallProgress
    <2>3. Threaded /\ Handled
      BY MakerFact DEF Init, Threaded, ThreadFits, Handled, HandleFits, Held, On, Kinds
    <2>4. OneKind /\ LowWhenOff
      BY DEF Init, OneKind, LowWhenOff
    <2> QED
      BY <2>1, <2>2, <2>3, <2>4 DEF GenInv
  <1> QED
    BY <1>1, GenStep, PTL DEF Spec

(* Two living threads on one pin are the same, unless Sys mode keeps        *)
(* pinMode from clearing the other kind.                                    *)
LEMMA DriverUnique ==
    ASSUME SingleMaker, GenInv, ~sysMode, NEW pin \in Pins,
           NEW t \in Driving(pin), NEW u \in Driving(pin)
    PROVE  t = u
  <1> USE MakerFact, NamesAssumption
      DEF GenInv, TypeInv, TypeOK, Kinds, Steps, CallFits, Driving, Live
  <1>1. \A th \in Driving(pin) :
          \/ NewDriver(th) /\ pin = cpin[Maker]
          \/ Held(kind[th], pin) /\ threads[kind[th]][pin] = th
    BY DEF Threaded, ThreadFits
  <1>2. CASE NewDriver(t) /\ NewDriver(u)
    BY <1>2 DEF NewDriver
  <1>3. CASE kind[t] = kind[u] /\ ~NewDriver(t) /\ ~NewDriver(u)
    BY <1>1, <1>3
  <1>4. kind[t] = kind[u]
    BY <1>1 DEF NewDriver, Held, Fresh, On, OneKind, CallProgress
  <1>5. NewDriver(t) <=> NewDriver(u)
    BY <1>1, <1>4 DEF NewDriver, Held, Fresh
  <1> QED
    BY <1>2, <1>3, <1>4, <1>5

(* A pin never has two generators.                                         *)
THEOREM OneDriverCorrect ==
    ASSUME SingleMaker
    PROVE  Spec => []OneDriver
  <1>1. GenInv => OneDriver
    <2> SUFFICES ASSUME GenInv, ~sysMode, NEW pin \in Pins
                 PROVE  Cardinality(Driving(pin)) <= 1
      BY DEF OneDriver
    <2>1. CASE Driving(pin) = {}
      BY <2>1, FS_EmptySet
    <2>2. ASSUME NEW t \in Driving(pin) PROVE Cardinality(Driving(pin)) <= 1
      <3>1. Driving(pin) = {t}
        BY DriverUnique
      <3>2. Cardinality(Driving(pin)) = 1
        BY <3>1, FS_Singleton, Zenon
      <3> QED
        BY <3>2
    <2> QED
      BY <2>1, <2>2
  <1> QED
    BY <1>1, GenCorrect, PTL

(* Between calls on a pin the arrays name the thread that drives it, so a   *)
(* later stop cancels the right one.                                        *)
THEOREM HandleNamesDriverCorrect ==
    ASSUME SingleMaker
    PROVE  Spec => []HandleNamesDriver
  <1>1. GenInv => HandleNamesDriver
    <2> SUFFICES ASSUME GenInv, NEW pin \in Pins, Quiet(pin)
                 PROVE  /\ range[pin] # 0 => threads["pwm"][pin] \in Driving(pin)
                        /\ threads["tone"][pin] # NoThread
                              => threads["tone"][pin] \in Driving(pin)
      BY DEF HandleNamesDriver
    <2>1. cpin[Maker] # pin
      BY MakerFact DEF Quiet
    <2>2. \A k \in Kinds : On(k, pin) => threads[k][pin] \in Driving(pin)
      BY <2>1 DEF GenInv, Handled, HandleFits, Held, Fresh, Driving
    <2> QED
      BY <2>2 DEF Kinds, On
  <1> QED
    BY <1>1, GenCorrect, PTL

(* When the stops have returned, no thread drives the pin and it is LOW.   *)
THEOREM StoppedIsQuietCorrect ==
    ASSUME SingleMaker
    PROVE  Spec => []StoppedIsQuiet
  <1>1. GenInv => StoppedIsQuiet
    <2> SUFFICES ASSUME GenInv, NEW pin \in Pins, Quiet(pin), range[pin] = 0,
                        threads["tone"][pin] = NoThread
                 PROVE  Driving(pin) = {} /\ level[pin] = "LOW"
      BY DEF StoppedIsQuiet
    <2>1. cpin[Maker] # pin
      BY MakerFact DEF Quiet
    <2>2. level[pin] = "LOW"
      BY <2>1 DEF GenInv, LowWhenOff
    <2>3. ASSUME NEW t \in Driving(pin) PROVE FALSE
      <3>1. t \in Threads /\ tpin[t] = pin /\ step[t] \in {"start", "load", "high", "low"}
        BY DEF Driving, Live, GenInv, TypeInv, TypeOK, Steps
      <3>2. ThreadFits(t) /\ kind[t] \in Kinds
        BY <3>1 DEF GenInv, Threaded, TypeInv, TypeOK
      <3> QED
        BY <2>1, <3>1, <3>2, NamesAssumption DEF ThreadFits, Held, On, Kinds
    <2> QED
      BY <2>2, <2>3
  <1> QED
    BY <1>1, GenCorrect, PTL
=============================================================================
