---------------------------- MODULE WiringPiProof ----------------------------
(***************************************************************************)
(* src/lib/wiringPi.c, for every number of threads and of calls:            *)
(*                                                                         *)
(*   - the on-board pins of GpioCore.  A digitalWrite is never lost and     *)
(*     never glitches, without a lock; the functions that change a setting  *)
(*     in several accesses do what was asked when their callers serialise   *)
(*     them.  The invariants speak of the accesses every call still has to  *)
(*     make: a word is written back as it was read, a pull is clocked after *)
(*     it was written, PWM_CONTROL is restored to what was asked, a divisor *)
(*     is written to a clock that has stopped;                             *)
(*   - wiringPiISR of IsrRegistry.  The hand-off of the pin to the handler's *)
(*     thread is exact whether or not pthread_create and open succeed, and   *)
(*     the calls implement IsrService: a handler runs the function installed *)
(*     last for its pin, for edges and for nothing else.                   *)
(***************************************************************************)
EXTENDS GpioCore, IsrRegistry, SequenceTheorems, TLAPS

-----------------------------------------------------------------------------
(* The invariants.  Most of them say something of every access a call still *)
(* has to make.                                                            *)

Ops(s) == {s[i] : i \in DOMAIN s}

ModeOps  == {"readFsel", "writeFsel", "pud", "pudclk", "write", "save", "restore", "stop",
             "await", "divide", "start"}
SetupOps == {"open", "map", "number"}
OpsOf(kind) ==
    CASE kind = "mode" -> ModeOps [] kind = "setup" -> SetupOps [] kind = "level" -> {"set", "clear"}
      [] OTHER -> {}

Steps ==
         [op : {"readFsel"}, pin : Gpios] \cup [op : {"writeFsel"}, pin : Gpios, value : 0 .. 7]
    \cup [op : {"set", "clear"}, pins : SUBSET Int]
    \cup [op : {"pud"}, value : 0 .. 3] \cup [op : {"pudclk"}, pins : SUBSET Int]
    \cup [op : {"write"}, reg : Regs, value : Int] \cup [op : {"save", "restore", "open"}]
    \cup [op : {"stop", "await", "start"}, clock : Clocks]
    \cup [op : {"divide"}, clock : Clocks, value : Int]
    \cup [op : {"map"}, part : Parts] \cup [op : {"number"}, to : {"pins", "gpio", "phys", "sys"}]

Asks == [level : {0, 1}, fsel : 0 .. 7, pull : 0 .. 3]

\* What is left of a call belongs to its kind, and nothing is left of none.
TodoInv ==
    /\ todo \in [Threads -> Seq(Steps)]
    /\ doing \in [Threads -> {"idle", "setup", "mode", "level"}]
    /\ \A t \in Threads : doing[t] = "idle" => todo[t] = <<>>
    /\ \A t \in Threads : \A o \in Ops(todo[t]) : o.op \in OpsOf(doing[t])

ValuesInv ==
    /\ numbering \in {"none", "pins", "gpio", "phys", "sys"} /\ mapped \subseteq Parts
    /\ layout \in {1, 2}
    /\ fsel \in [Gpios -> 0 .. 7] /\ loc \in [Threads -> [Gpios -> 0 .. 7]]
    /\ latch \subseteq Gpios
    /\ pull \in [Gpios -> 0 .. 3] /\ gppud \in 0 .. 3
    /\ clk \in [Clocks -> {"stop", "stopping", "run"}] /\ div \in [Clocks -> Int]
    /\ reg \in [Regs -> Int] /\ saved \in [Threads -> Int]
    /\ asked \in [Gpios -> Asks]

TypeInv == TodoInv /\ ValuesInv

\* Nobody calls anything before the set-up is over.
SetupInv ==
    /\ \A t \in Threads : doing[t] = "setup" => t = Main
    /\ ~SetUp => /\ \A t \in Threads \ {Main} : doing[t] = "idle"
                 /\ doing[Main] \in {"idle", "setup"}
                 /\ \A p \in Gpios : asked[p].fsel = 0

OneMode == \A t, u \in Threads : doing[t] = "mode" /\ doing[u] = "mode" => t = u

\* Levels: who still touches a pin is its owner and writes the level asked.
LevelInv ==
    /\ \A t \in Threads : \A o \in Ops(todo[t]) : \A p \in Gpios :
         o.op \in {"set", "clear"} /\ p \in o.pins =>
           OwnerOf[p] = t /\ asked[p].level = IF o.op = "set" THEN 1 ELSE 0
    /\ \A p \in Gpios : (p \in latch <=> asked[p].level = 1)
         \/ \E o \in Ops(todo[OwnerOf[p]]) : o.op \in {"set", "clear"} /\ p \in o.pins

\* Function select: a word is written after it was read, and as asked.
FselInv ==
    /\ \A t \in Threads : \A i \in DOMAIN todo[t] : todo[t][i].op = "writeFsel" =>
         LET p == todo[t][i].pin
         IN  /\ todo[t][i].value = asked[p].fsel
             /\ IF i = 1 THEN \A q \in Word(p) : loc[t][q] = fsel[q]
                ELSE todo[t][i - 1] = ReadFsel(p)
    /\ \A p \in Gpios : fsel[p] = asked[p].fsel
         \/ \E t \in Threads : \E o \in Ops(todo[t]) : o.op = "writeFsel" /\ o.pin = p

\* Pulls: what is clocked into a pin was written to GPPUD just before.
PullInv ==
    /\ \A t \in Threads : \A i \in DOMAIN todo[t] : todo[t][i].op = "pudclk" =>
         \A p \in todo[t][i].pins \cap Gpios :
           IF i = 1 THEN gppud = asked[p].pull
           ELSE todo[t][i - 1] = WritePud(asked[p].pull)
    /\ \A p \in Gpios : pull[p] = asked[p].pull
         \/ \E t \in Threads : \E o \in Ops(todo[t]) : o.op = "pudclk" /\ p \in o.pins

\* PWM control: what pwmSetClock saved it restores, unless it is written after.
FromEnd(s, k) == s[Len(s) - k]
WritesControl(o) == o.op = "restore" \/ (o.op = "write" /\ o.reg = PWM_CONTROL)
ControlOps == [k \in 0 .. 11 |->
    <<"restore", "start", "divide", "await", "stop", "write", "save", "write", "write", "write",
      "writeFsel", "readFsel">>[k + 1]]

Restores(s, v) ==
    /\ Len(s) <= 12
    /\ \A k \in 0 .. 11 : k < Len(s) => FromEnd(s, k).op = ControlOps[k]
    /\ \A k \in {7, 8} : k < Len(s) => FromEnd(s, k).reg # PWM_CONTROL
    /\ 9 < Len(s) => FromEnd(s, 9) = WriteReg(PWM_CONTROL, v)

ControlInv ==
    /\ \A t \in Threads : \A o \in Ops(todo[t]) : WritesControl(o) => WritesControl(FromEnd(todo[t], 0))
    /\ \A t \in Threads : todo[t] # <<>> =>
         /\ FromEnd(todo[t], 0).op = "restore" =>
              /\ Restores(todo[t], pwmAsked)
              /\ Len(todo[t]) \in 7 .. 9 => reg[PWM_CONTROL] = pwmAsked
              /\ Len(todo[t]) < 7 => saved[t] = pwmAsked
         /\ FromEnd(todo[t], 0).op = "write" /\ FromEnd(todo[t], 0).reg = PWM_CONTROL =>
              FromEnd(todo[t], 0).value = pwmAsked
    /\ reg[PWM_CONTROL] = pwmAsked
         \/ \E t \in Threads : \E o \in Ops(todo[t]) : WritesControl(o)

\* Clocks: a divisor is written when its clock has stopped, and a clock that
\* is stopped is started again.
DivideInv ==
    \A t \in Threads : \A i \in DOMAIN todo[t] : todo[t][i].op = "divide" =>
        IF i = 1 THEN clk[todo[t][i].clock] = "stop"
        ELSE todo[t][i - 1] = AwaitClock(todo[t][i].clock)

Restarted(s) ==
    \A i \in DOMAIN s : s[i].op = "stop" => \E j \in DOMAIN s : i < j /\ s[j] = StartClock(s[i].clock)

Runs(c) == clk[c] = "run" \/ \E t \in Threads : StartClock(c) \in Ops(todo[t])
ClockInv ==
    /\ \A t \in Threads : Restarted(todo[t])
    /\ \A t \in Threads : \A o \in Ops(todo[t]) :
         o.op = "divide" /\ o.clock # PWMCLK_CNTL => o.value = 192
    /\ \A p \in Gpios : asked[p].fsel = gpioToPwmALT(p) /\ asked[p].fsel # 0 => Runs(PWMCLK_CNTL)
    /\ numbering = "gpio" =>
         \A p \in Gpios : asked[p].fsel = gpioToGpClkALT0(p) /\ asked[p].fsel # 0 =>
           /\ Runs(gpioToClkCon(p))
           /\ div[gpioToClkCon(p)] = 192
                \/ \E t \in Threads : Divide(gpioToClkCon(p), 192) \in Ops(todo[t])
-----------------------------------------------------------------------------
(* Sequences of accesses.                                                  *)

LEMMA OpsOfTail ==
  ASSUME NEW S, NEW s \in Seq(S), s # <<>>
  PROVE  /\ Head(s) \in S /\ Head(s) = s[1] /\ Tail(s) \in Seq(S)
         /\ Ops(s) = {Head(s)} \cup Ops(Tail(s))
         /\ Len(s) \in Nat /\ Len(s) > 0 /\ Len(Tail(s)) = Len(s) - 1
         /\ DOMAIN s = 1 .. Len(s) /\ DOMAIN Tail(s) = 1 .. Len(s) - 1
         /\ \A i \in DOMAIN Tail(s) : Tail(s)[i] = s[i + 1]
         /\ Len(s) = 1 <=> Tail(s) = <<>>
<1>1. /\ Head(s) \in S /\ Head(s) = s[1] /\ Tail(s) \in Seq(S) /\ Len(Tail(s)) = Len(s) - 1
      /\ Len(s) \in Nat /\ Len(s) > 0 /\ DOMAIN s = 1 .. Len(s) /\ DOMAIN Tail(s) = 1 .. Len(s) - 1
      /\ \A i \in 1 .. Len(s) - 1 : Tail(s)[i] = s[i + 1]
  BY SMT
<1>4. Len(s) = 1 <=> Tail(s) = <<>>
  BY <1>1, EmptySeq
<1>2. Ops(s) \subseteq {Head(s)} \cup Ops(Tail(s))
  <2> SUFFICES ASSUME NEW i \in 1 .. Len(s) PROVE s[i] \in {Head(s)} \cup Ops(Tail(s))
    BY <1>1 DEF Ops
  <2>1. CASE i = 1
    BY <2>1, <1>1
  <2>2. CASE i # 1
    <3>1. i - 1 \in 1 .. Len(s) - 1 /\ s[i] = Tail(s)[i - 1]
      BY <2>2, <1>1
    <3> QED
      BY <3>1, <1>1 DEF Ops
  <2> QED
    BY <2>1, <2>2
<1>3. {Head(s)} \cup Ops(Tail(s)) \subseteq Ops(s)
  <2>1. Head(s) \in Ops(s)
    BY <1>1 DEF Ops
  <2>2. ASSUME NEW i \in 1 .. Len(s) - 1 PROVE Tail(s)[i] \in Ops(s)
    <3>1. i + 1 \in 1 .. Len(s)
      BY <1>1
    <3> QED
      BY <3>1, <1>1 DEF Ops
  <2> QED
    BY <2>1, <2>2, <1>1 DEF Ops
<1> QED
  BY <1>1, <1>2, <1>3, <1>4

LEMMA Joined ==
  ASSUME NEW S, NEW s \in Seq(S), NEW u \in Seq(S)
  PROVE  /\ s \o u \in Seq(S)
         /\ Len(s) \in Nat /\ Len(u) \in Nat /\ Len(s \o u) = Len(s) + Len(u)
         /\ \A i \in 1 .. Len(s) + Len(u) : (s \o u)[i] = IF i <= Len(s) THEN s[i] ELSE u[i - Len(s)]
  BY SMT

LEMMA JoinedAt ==
  ASSUME NEW S, NEW s \in Seq(S), NEW u \in Seq(S), NEW n, NEW m, Len(s) = n, Len(u) = m
  PROVE  /\ s \o u \in Seq(S) /\ n \in Nat /\ m \in Nat /\ Len(s \o u) = n + m
         /\ \A i \in 1 .. n + m : (s \o u)[i] = IF i <= n THEN s[i] ELSE u[i - n]
<1> DEFINE l == Len(s)  k == Len(u)  f == s \o u
<1>1. f \in Seq(S) /\ l \in Nat /\ k \in Nat /\ Len(f) = l + k
      /\ \A i \in 1 .. l + k : f[i] = IF i <= l THEN s[i] ELSE u[i - l]
  BY Joined
<1>2. n = l /\ m = k
  OBVIOUS
<1> HIDE DEF l, k, f
<1>3. f \in Seq(S) /\ n \in Nat /\ m \in Nat /\ Len(f) = n + m
      /\ \A i \in 1 .. n + m : f[i] = IF i <= n THEN s[i] ELSE u[i - n]
  BY <1>1, <1>2
<1> QED
  BY <1>3 DEF f

LEMMA Joined2and1 ==
  ASSUME NEW S, NEW e \in Seq(S), NEW d \in Seq(S)
  PROVE  Len(e) = 2 /\ Len(d) = 1
         => /\ (e \o d) \in Seq(S) /\ Len((e \o d)) = 3
            /\ (e \o d)[1] = e[1] /\ (e \o d)[2] = e[2] /\ (e \o d)[3] = d[1]
<1> DEFINE l == Len(e)  k == Len(d)  f == e \o d
<1>1. f \in Seq(S) /\ Len(f) = l + k
      /\ \A i \in 1 .. l + k : f[i] = IF i <= l THEN e[i] ELSE d[i - l]
  BY Joined
<1> HIDE DEF l, k, f
<1>2. l = 2 /\ k = 1
      => /\ f \in Seq(S) /\ Len(f) = 3
         /\ f[1] = e[1] /\ f[2] = e[2] /\ f[3] = d[1]
  <2> SUFFICES ASSUME l = 2, k = 1
               PROVE  /\ f \in Seq(S) /\ Len(f) = 3
                      /\ f[1] = e[1] /\ f[2] = e[2] /\ f[3] = d[1]
    OBVIOUS
  <2>1. f \in Seq(S) /\ Len(f) = 3 /\ \A i \in 1 .. 3 : f[i] = IF i <= 2 THEN e[i] ELSE d[i - 2]
    BY <1>1
  <2> QED
    BY <2>1
<1> QED
  BY <1>2 DEF l, k, f

LEMMA Joined3and2 ==
  ASSUME NEW S, NEW e \in Seq(S), NEW d \in Seq(S)
  PROVE  Len(e) = 3 /\ Len(d) = 2
         => /\ (e \o d) \in Seq(S) /\ Len((e \o d)) = 5
            /\ (e \o d)[1] = e[1] /\ (e \o d)[2] = e[2] /\ (e \o d)[3] = e[3] /\ (e \o d)[4] = d[1]
            /\ (e \o d)[5] = d[2]
<1> DEFINE l == Len(e)  k == Len(d)  f == e \o d
<1>1. f \in Seq(S) /\ Len(f) = l + k
      /\ \A i \in 1 .. l + k : f[i] = IF i <= l THEN e[i] ELSE d[i - l]
  BY Joined
<1> HIDE DEF l, k, f
<1>2. l = 3 /\ k = 2
      => /\ f \in Seq(S) /\ Len(f) = 5
         /\ f[1] = e[1] /\ f[2] = e[2] /\ f[3] = e[3] /\ f[4] = d[1]
         /\ f[5] = d[2]
  <2> SUFFICES ASSUME l = 3, k = 2
               PROVE  /\ f \in Seq(S) /\ Len(f) = 5
                      /\ f[1] = e[1] /\ f[2] = e[2] /\ f[3] = e[3] /\ f[4] = d[1]
                      /\ f[5] = d[2]
    OBVIOUS
  <2>1. f \in Seq(S) /\ Len(f) = 5 /\ \A i \in 1 .. 5 : f[i] = IF i <= 3 THEN e[i] ELSE d[i - 3]
    BY <1>1
  <2> QED
    BY <2>1
<1> QED
  BY <1>2 DEF l, k, f

LEMMA Joined5and7 ==
  ASSUME NEW S, NEW e \in Seq(S), NEW d \in Seq(S)
  PROVE  Len(e) = 5 /\ Len(d) = 7
         => /\ (e \o d) \in Seq(S) /\ Len((e \o d)) = 12
            /\ (e \o d)[1] = e[1] /\ (e \o d)[2] = e[2] /\ (e \o d)[3] = e[3] /\ (e \o d)[4] = e[4]
            /\ (e \o d)[5] = e[5] /\ (e \o d)[6] = d[1] /\ (e \o d)[7] = d[2] /\ (e \o d)[8] = d[3]
            /\ (e \o d)[9] = d[4] /\ (e \o d)[10] = d[5] /\ (e \o d)[11] = d[6] /\ (e \o d)[12] = d[7]
<1> DEFINE l == Len(e)  k == Len(d)  f == e \o d
<1>1. f \in Seq(S) /\ Len(f) = l + k
      /\ \A i \in 1 .. l + k : f[i] = IF i <= l THEN e[i] ELSE d[i - l]
  BY Joined
<1> HIDE DEF l, k, f
<1>2. l = 5 /\ k = 7
      => /\ f \in Seq(S) /\ Len(f) = 12
         /\ f[1] = e[1] /\ f[2] = e[2] /\ f[3] = e[3] /\ f[4] = e[4]
         /\ f[5] = e[5] /\ f[6] = d[1] /\ f[7] = d[2] /\ f[8] = d[3]
         /\ f[9] = d[4] /\ f[10] = d[5] /\ f[11] = d[6] /\ f[12] = d[7]
  <2> SUFFICES ASSUME l = 5, k = 7
               PROVE  /\ f \in Seq(S) /\ Len(f) = 12
                      /\ f[1] = e[1] /\ f[2] = e[2] /\ f[3] = e[3] /\ f[4] = e[4]
                      /\ f[5] = e[5] /\ f[6] = d[1] /\ f[7] = d[2] /\ f[8] = d[3]
                      /\ f[9] = d[4] /\ f[10] = d[5] /\ f[11] = d[6] /\ f[12] = d[7]
    OBVIOUS
  <2>1. f \in Seq(S) /\ Len(f) = 12 /\ \A i \in 1 .. 12 : f[i] = IF i <= 5 THEN e[i] ELSE d[i - 5]
    BY <1>1
  <2> QED
    BY <2>1
<1> QED
  BY <1>2 DEF l, k, f

LEMMA Joined2and4 ==
  ASSUME NEW S, NEW e \in Seq(S), NEW d \in Seq(S)
  PROVE  Len(e) = 2 /\ Len(d) = 4
         => /\ (e \o d) \in Seq(S) /\ Len((e \o d)) = 6
            /\ (e \o d)[1] = e[1] /\ (e \o d)[2] = e[2] /\ (e \o d)[3] = d[1] /\ (e \o d)[4] = d[2]
            /\ (e \o d)[5] = d[3] /\ (e \o d)[6] = d[4]
<1> DEFINE l == Len(e)  k == Len(d)  f == e \o d
<1>1. f \in Seq(S) /\ Len(f) = l + k
      /\ \A i \in 1 .. l + k : f[i] = IF i <= l THEN e[i] ELSE d[i - l]
  BY Joined
<1> HIDE DEF l, k, f
<1>2. l = 2 /\ k = 4
      => /\ f \in Seq(S) /\ Len(f) = 6
         /\ f[1] = e[1] /\ f[2] = e[2] /\ f[3] = d[1] /\ f[4] = d[2]
         /\ f[5] = d[3] /\ f[6] = d[4]
  <2> SUFFICES ASSUME l = 2, k = 4
               PROVE  /\ f \in Seq(S) /\ Len(f) = 6
                      /\ f[1] = e[1] /\ f[2] = e[2] /\ f[3] = d[1] /\ f[4] = d[2]
                      /\ f[5] = d[3] /\ f[6] = d[4]
    OBVIOUS
  <2>1. f \in Seq(S) /\ Len(f) = 6 /\ \A i \in 1 .. 6 : f[i] = IF i <= 2 THEN e[i] ELSE d[i - 2]
    BY <1>1
  <2> QED
    BY <2>1
<1> QED
  BY <1>2 DEF l, k, f

LEMMA OpsJoined ==
  ASSUME NEW S, NEW s \in Seq(S), NEW u \in Seq(S)
  PROVE  s \o u \in Seq(S) /\ Ops(s \o u) = Ops(s) \cup Ops(u)
<1>1. /\ s \o u \in Seq(S) /\ Len(s) \in Nat /\ Len(u) \in Nat /\ Len(s \o u) = Len(s) + Len(u)
      /\ DOMAIN s = 1 .. Len(s) /\ DOMAIN u = 1 .. Len(u) /\ DOMAIN (s \o u) = 1 .. Len(s) + Len(u)
      /\ \A i \in 1 .. Len(s) + Len(u) : (s \o u)[i] = IF i <= Len(s) THEN s[i] ELSE u[i - Len(s)]
  BY SMT
<1>2. ASSUME NEW i \in 1 .. Len(s) + Len(u) PROVE (s \o u)[i] \in Ops(s) \cup Ops(u)
  BY <1>1 DEF Ops
<1>3. ASSUME NEW i \in 1 .. Len(s) PROVE s[i] \in Ops(s \o u)
  BY <1>1 DEF Ops
<1>4. ASSUME NEW i \in 1 .. Len(u) PROVE u[i] \in Ops(s \o u)
  <2>1. i + Len(s) \in 1 .. Len(s) + Len(u) /\ u[i] = (s \o u)[i + Len(s)]
    BY <1>1
  <2> QED
    BY <2>1, <1>1 DEF Ops
<1> QED
  BY <1>1, <1>2, <1>3, <1>4 DEF Ops

\* The fields an access has.
LEMMA Fields ==
  ASSUME NEW o \in Steps
  PROVE  /\ o.op = "readFsel" => o.pin \in Gpios
         /\ o.op = "writeFsel" => o.pin \in Gpios /\ o.value \in 0 .. 7
         /\ o.op \in {"set", "clear", "pudclk"} => o.pins \subseteq Int
         /\ o.op = "pud" => o.value \in 0 .. 3
         /\ o.op = "write" => o.reg \in Regs /\ o.value \in Int
         /\ o.op \in {"stop", "await", "start", "divide"} => o.clock \in Clocks
         /\ o.op = "divide" => o.value \in Int
         /\ o.op = "map" => o.part \in Parts
         /\ o.op = "number" => o.to \in {"pins", "gpio", "phys", "sys"}
  BY SMT DEF Steps
LEMMA StepsMade ==
  /\ \A p \in Gpios : ReadFsel(p) \in Steps
  /\ \A p \in Gpios, f \in 0 .. 7 : WriteFsel(p, f) \in Steps
  /\ \A ps \in SUBSET Int : SetPins(ps) \in Steps /\ ClearPins(ps) \in Steps /\ ClockPud(ps) \in Steps
  /\ \A v \in 0 .. 3 : WritePud(v) \in Steps
  /\ \A r \in Regs, v \in Int : WriteReg(r, v) \in Steps
  /\ SaveControl \in Steps /\ RestoreControl \in Steps /\ Open \in Steps
  /\ \A c \in Clocks : StopClock(c) \in Steps /\ AwaitClock(c) \in Steps /\ StartClock(c) \in Steps
  /\ \A c \in Clocks, d \in Int : Divide(c, d) \in Steps
  /\ \A x \in Parts : MapPart(x) \in Steps
  /\ \A m \in {"pins", "gpio", "phys", "sys"} : Number(m) \in Steps
  BY SMT DEF Steps, ReadFsel, WriteFsel, SetPins, ClearPins, ClockPud, WritePud, WriteReg,
             SaveControl, RestoreControl, Open, StopClock, AwaitClock, StartClock, Divide, MapPart, Number

\* A pin that has a name is found by it.
LEMMA Named ==
  ASSUME NEW p \in Gpios, Names(p) # {}
  PROVE  Translate(NameOf(p)) = p /\ NameOf(p) \in 0 .. 63
  BY DEF Names, NameOf

LEMMA Tables ==
  /\ \A p : gpioToPwmALT(p) \in {0, 2, 4} /\ gpioToGpClkALT0(p) \in {0, 2, 4}
  /\ \A p : gpioToPwmALT(p) = 0 \/ gpioToGpClkALT0(p) = 0
  /\ \A p : gpioToPwmPort(p) \in Regs
  /\ \A p : gpioToClkCon(p) \in {28, 30, 32, NoClock}
  BY SMT DEF gpioToPwmALT, gpioToGpClkALT0, gpioToPwmPort, gpioToClkCon, Regs, FSEL_ALT0, FSEL_ALT5,
             PWM_CONTROL, PWM0_DATA, PWM1_DATA, PWM0_RANGE, PWM1_RANGE, NoClock

-----------------------------------------------------------------------------
(* The accesses of each call.                                              *)

LEMMA SetFselIs ==
  ASSUME NEW p \in Gpios, NEW f \in 0 .. 7
  PROVE  /\ SetFsel(p, f) \in Seq(Steps) /\ Len(SetFsel(p, f)) = 2
         /\ SetFsel(p, f)[1] = ReadFsel(p) /\ SetFsel(p, f)[2] = WriteFsel(p, f)
<1>1. ReadFsel(p) \in Steps /\ WriteFsel(p, f) \in Steps
  BY StepsMade
<1> QED
  BY <1>1, SMT DEF SetFsel

LEMMA PullIs ==
  ASSUME NEW p \in Gpios, Names(p) # {}, NEW v \in 0 .. 3
  PROVE  LET s == PullSteps(NameOf(p), v)
         IN  /\ s \in Seq(Steps) /\ Len(s) = 4
             /\ s[1] = WritePud(v) /\ s[2] = ClockPud({p}) /\ s[3] = WritePud(0) /\ s[4] = ClockPud({})
<1>1. WritePud(v) \in Steps /\ ClockPud({p}) \in Steps /\ WritePud(0) \in Steps /\ ClockPud({}) \in Steps
  <2>1. p \in Int
    BY GpioAssumption
  <2> QED
    BY <2>1, StepsMade
<1>2. Translate(NameOf(p)) = p
  BY Named
<1> QED
  BY <1>1, <1>2, SMT DEF PullSteps

LEMMA SetClockIs ==
  LET s == pwmSetClock(32)
  IN  /\ s \in Seq(Steps) /\ Len(s) = 7
      /\ s[1] = SaveControl /\ s[2] = WriteReg(PWM_CONTROL, PwmOff)
      /\ s[3] = StopClock(PWMCLK_CNTL) /\ s[4] = AwaitClock(PWMCLK_CNTL)
      /\ s[5] = Divide(PWMCLK_CNTL, 32) /\ s[6] = StartClock(PWMCLK_CNTL) /\ s[7] = RestoreControl
<1>1. PWM_CONTROL \in Regs /\ PwmOff \in Int /\ PWMCLK_CNTL \in Clocks
  BY DEF PWM_CONTROL, Regs, PwmOff, Clocks
<1>2. /\ SaveControl \in Steps /\ WriteReg(PWM_CONTROL, PwmOff) \in Steps /\ StopClock(PWMCLK_CNTL) \in Steps
      /\ AwaitClock(PWMCLK_CNTL) \in Steps /\ Divide(PWMCLK_CNTL, 32) \in Steps
      /\ StartClock(PWMCLK_CNTL) \in Steps /\ RestoreControl \in Steps
  BY <1>1, StepsMade
<1> QED
  BY <1>2, SMT DEF pwmSetClock

LEMMA SetModeIs ==
  ASSUME NEW m \in Int
  PROVE  /\ pwmSetMode(m) \in Seq(Steps) /\ Len(pwmSetMode(m)) = 1
         /\ pwmSetMode(m)[1] = WriteReg(PWM_CONTROL, m)
<1>1. WriteReg(PWM_CONTROL, m) \in Steps
  BY StepsMade DEF PWM_CONTROL, Regs
<1> QED
  BY <1>1, SMT DEF pwmSetMode

LEMMA SetRangeIs ==
  ASSUME NEW r \in Int
  PROVE  /\ pwmSetRange(r) \in Seq(Steps) /\ Len(pwmSetRange(r)) = 2
         /\ pwmSetRange(r)[1] = WriteReg(PWM0_RANGE, r) /\ pwmSetRange(r)[2] = WriteReg(PWM1_RANGE, r)
<1>1. WriteReg(PWM0_RANGE, r) \in Steps /\ WriteReg(PWM1_RANGE, r) \in Steps
  BY StepsMade DEF PWM0_RANGE, PWM1_RANGE, Regs
<1> QED
  BY <1>1, SMT DEF pwmSetRange

PwmAccesses(s, p) ==
    /\ s[1] = ReadFsel(p) /\ s[2] = WriteFsel(p, gpioToPwmALT(p))
    /\ s[3] = WriteReg(PWM_CONTROL, PwmBal)
    /\ s[4] = WriteReg(PWM0_RANGE, 1024) /\ s[5] = WriteReg(PWM1_RANGE, 1024)
    /\ s[6] = SaveControl /\ s[7] = WriteReg(PWM_CONTROL, PwmOff)
    /\ s[8] = StopClock(PWMCLK_CNTL) /\ s[9] = AwaitClock(PWMCLK_CNTL)
    /\ s[10] = Divide(PWMCLK_CNTL, 32) /\ s[11] = StartClock(PWMCLK_CNTL) /\ s[12] = RestoreControl

LEMMA PwmOutputIs ==
  ASSUME NEW p \in Gpios, gpioToPwmALT(p) # 0
  PROVE  /\ PwmOutput(p) \in Seq(Steps) /\ Len(PwmOutput(p)) = 12
         /\ PwmAccesses(PwmOutput(p), p)
<1> DEFINE a == SetFsel(p, gpioToPwmALT(p))
           b == pwmSetMode(PwmBal)
           c == pwmSetRange(1024)
           d == pwmSetClock(32)
           ab == a \o b
           e == ab \o c
           f == e \o d
<1>1. gpioToPwmALT(p) \in 0 .. 7 /\ PwmBal \in Int
  BY Tables DEF PwmBal
<1>2. /\ a \in Seq(Steps) /\ Len(a) = 2 /\ a[1] = ReadFsel(p) /\ a[2] = WriteFsel(p, gpioToPwmALT(p))
  BY <1>1, SetFselIs
<1>3. b \in Seq(Steps) /\ Len(b) = 1 /\ b[1] = WriteReg(PWM_CONTROL, PwmBal)
  BY <1>1, SetModeIs
<1>4. /\ c \in Seq(Steps) /\ Len(c) = 2
      /\ c[1] = WriteReg(PWM0_RANGE, 1024) /\ c[2] = WriteReg(PWM1_RANGE, 1024)
  BY SetRangeIs
<1>5. /\ d \in Seq(Steps) /\ Len(d) = 7
      /\ d[1] = SaveControl /\ d[2] = WriteReg(PWM_CONTROL, PwmOff)
      /\ d[3] = StopClock(PWMCLK_CNTL) /\ d[4] = AwaitClock(PWMCLK_CNTL)
      /\ d[5] = Divide(PWMCLK_CNTL, 32) /\ d[6] = StartClock(PWMCLK_CNTL) /\ d[7] = RestoreControl
  BY SetClockIs
<1> HIDE DEF a, b, c, d
<1>6. ab \in Seq(Steps) /\ Len(ab) = 3 /\ ab[1] = a[1] /\ ab[2] = a[2] /\ ab[3] = b[1]
  BY <1>2, <1>3, Joined2and1
<1> HIDE DEF ab
<1>7. /\ e \in Seq(Steps) /\ Len(e) = 5
      /\ e[1] = ab[1] /\ e[2] = ab[2] /\ e[3] = ab[3] /\ e[4] = c[1] /\ e[5] = c[2]
  BY <1>6, <1>4, Joined3and2
<1> HIDE DEF e
<1>8. /\ f \in Seq(Steps) /\ Len(f) = 12
      /\ f[1] = e[1] /\ f[2] = e[2] /\ f[3] = e[3] /\ f[4] = e[4] /\ f[5] = e[5]
      /\ f[6] = d[1] /\ f[7] = d[2] /\ f[8] = d[3] /\ f[9] = d[4]
      /\ f[10] = d[5] /\ f[11] = d[6] /\ f[12] = d[7]
  <2>1. e \in Seq(Steps) /\ Len(e) = 5 /\ d \in Seq(Steps) /\ Len(d) = 7
    BY <1>7, <1>5
  <2> QED
    BY <2>1, Joined5and7, SMTT(40)
<1>9. PwmOutput(p) = f
  BY DEF PwmOutput, a, b, c, d, e, ab
<1> HIDE DEF f
<1>10. PwmAccesses(f, p)
  BY <1>2, <1>3, <1>4, <1>5, <1>6, <1>7, <1>8 DEF PwmAccesses
<1> QED
  BY <1>8, <1>9, <1>10

-----------------------------------------------------------------------------
(* What each call brings, so that the invariants go on to hold.            *)

FselCall(s, ask) ==
    /\ \A i \in DOMAIN s : s[i].op = "writeFsel" =>
         i > 1 /\ s[i - 1] = ReadFsel(s[i].pin) /\ s[i].value = ask[s[i].pin].fsel
    /\ \A p \in Gpios : ask[p].fsel = asked[p].fsel \/ \E o \in Ops(s) : o.op = "writeFsel" /\ o.pin = p

PullCall(s, ask) ==
    /\ \A i \in DOMAIN s : s[i].op = "pudclk" =>
         \A p \in s[i].pins \cap Gpios : i > 1 /\ s[i - 1] = WritePud(ask[p].pull)
    /\ \A p \in Gpios : ask[p].pull = asked[p].pull \/ \E o \in Ops(s) : o.op = "pudclk" /\ p \in o.pins

ControlCall(s, pw) ==
    /\ \A o \in Ops(s) : WritesControl(o) => WritesControl(FromEnd(s, 0))
    /\ s # <<>> =>
         /\ FromEnd(s, 0).op = "restore" => Restores(s, pw) /\ Len(s) > 9
         /\ FromEnd(s, 0).op = "write" /\ FromEnd(s, 0).reg = PWM_CONTROL => FromEnd(s, 0).value = pw
    /\ pw = pwmAsked \/ \E o \in Ops(s) : WritesControl(o)

DivideCall(s) ==
    \A i \in DOMAIN s : s[i].op = "divide" => i > 1 /\ s[i - 1] = AwaitClock(s[i].clock)

ClockCall(s, ask) ==
    /\ Restarted(s)
    /\ \A o \in Ops(s) : o.op = "divide" /\ o.clock # PWMCLK_CNTL => o.value = 192
    /\ \A p \in Gpios : ask[p].fsel = gpioToPwmALT(p) /\ ask[p].fsel # 0 =>
         ask[p].fsel = asked[p].fsel \/ StartClock(PWMCLK_CNTL) \in Ops(s)
    /\ numbering = "gpio" => \A p \in Gpios : ask[p].fsel = gpioToGpClkALT0(p) /\ ask[p].fsel # 0 =>
         \/ ask[p].fsel = asked[p].fsel
         \/ StartClock(gpioToClkCon(p)) \in Ops(s) /\ Divide(gpioToClkCon(p), 192) \in Ops(s)

CallTyped(s, ask) ==
    /\ s \in Seq(Steps) /\ \A o \in Ops(s) : o.op \in ModeOps
    /\ ask \in [Gpios -> Asks] /\ \A p \in Gpios : ask[p].level = asked[p].level

\* pinModeAlt is not used for the functions that pinMode sets up itself.
PlainAlts ==
    \A a \in Alts : \A p \in Gpios : a \in {gpioToPwmALT(p), gpioToGpClkALT0(p)} => a = 0

CallOK(s, ask, pw) ==
    /\ CallTyped(s, ask) /\ FselCall(s, ask) /\ PullCall(s, ask) /\ ControlCall(s, pw) /\ DivideCall(s)
    /\ PlainAlts => ClockCall(s, ask)

\* A history in which only the function of p is asked anew.
AsksFsel(ask, p, f) ==
    /\ ask \in [Gpios -> Asks]
    /\ \A q \in Gpios : ask[q].level = asked[q].level /\ ask[q].pull = asked[q].pull
    /\ \A q \in Gpios : q # p => ask[q].fsel = asked[q].fsel
    /\ ask[p].fsel = f

LEMMA AskedFsel ==
  ASSUME asked \in [Gpios -> Asks], NEW p \in Gpios, NEW f \in 0 .. 7
  PROVE  AsksFsel([asked EXCEPT ![p].fsel = f], p, f)
  BY SMT DEF AsksFsel, Asks

\* An operation is one of those listed.
LEMMA OpAt ==
  ASSUME NEW S, NEW s \in Seq(S)
  PROVE  /\ DOMAIN s = 1 .. Len(s) /\ Len(s) \in Nat
         /\ \A o \in Ops(s) : \E i \in 1 .. Len(s) : o = s[i]
         /\ \A i \in 1 .. Len(s) : s[i] \in Ops(s)
<1>1. DOMAIN s = 1 .. Len(s) /\ Len(s) \in Nat
  BY SMT
<1> QED
  BY <1>1 DEF Ops

LEMMA FselCallOK ==
  ASSUME NEW p \in Gpios, NEW f \in 0 .. 7, NEW ask, AsksFsel(ask, p, f),
         PlainAlts => (f \in {gpioToPwmALT(p), gpioToGpClkALT0(p)} => f = 0)
  PROVE  CallOK(SetFsel(p, f), ask, pwmAsked)
<1> DEFINE s == SetFsel(p, f)
<1>1. s \in Seq(Steps) /\ Len(s) = 2 /\ s[1] = ReadFsel(p) /\ s[2] = WriteFsel(p, f)
  BY SetFselIs
<1> HIDE DEF s
<1>2. /\ DOMAIN s = 1 .. 2 /\ s[1] \in Ops(s) /\ s[2] \in Ops(s) /\ s # <<>>
      /\ \A o \in Ops(s) : o = s[1] \/ o = s[2]
  BY <1>1, OpAt, EmptySeq
<1>3. s[1].op = "readFsel" /\ s[2].op = "writeFsel" /\ s[2].pin = p /\ s[2].value = f
  BY <1>1 DEF ReadFsel, WriteFsel
<1>4. CallTyped(s, ask)
  BY <1>1, <1>2, <1>3 DEF CallTyped, AsksFsel, ModeOps
<1>5. FselCall(s, ask)
  BY <1>1, <1>2, <1>3 DEF FselCall, AsksFsel
<1>6. PullCall(s, ask)
  BY <1>2, <1>3 DEF PullCall, AsksFsel
<1>7. ControlCall(s, pwmAsked)
  <2>1. FromEnd(s, 0) = s[2]
    BY <1>1 DEF FromEnd
  <2> QED
    BY <2>1, <1>2, <1>3 DEF ControlCall, WritesControl
<1>8. DivideCall(s)
  BY <1>2, <1>3 DEF DivideCall
<1>9. ASSUME PlainAlts PROVE ClockCall(s, ask)
  BY <1>2, <1>3, <1>9 DEF ClockCall, Restarted, AsksFsel
<1> QED
  BY <1>4, <1>5, <1>6, <1>7, <1>8, <1>9 DEF CallOK, s

LEMMA PullCallOK ==
  ASSUME NEW p \in Gpios, Names(p) # {}, NEW v \in 0 .. 3, asked \in [Gpios -> Asks]
  PROVE  CallOK(PullSteps(NameOf(p), v), [asked EXCEPT ![p].pull = v], pwmAsked)
<1> DEFINE s == PullSteps(NameOf(p), v)
           ask == [asked EXCEPT ![p].pull = v]
<1>1. /\ s \in Seq(Steps) /\ Len(s) = 4
      /\ s[1] = WritePud(v) /\ s[2] = ClockPud({p}) /\ s[3] = WritePud(0) /\ s[4] = ClockPud({})
  BY PullIs
<1>2. /\ ask \in [Gpios -> Asks]
      /\ \A q \in Gpios : ask[q].level = asked[q].level /\ ask[q].fsel = asked[q].fsel
      /\ \A q \in Gpios : q # p => ask[q].pull = asked[q].pull
      /\ ask[p].pull = v
  BY SMT DEF Asks
<1> HIDE DEF s, ask
<1>3. /\ DOMAIN s = 1 .. 4 /\ s # <<>>
      /\ s[1] \in Ops(s) /\ s[2] \in Ops(s) /\ s[3] \in Ops(s) /\ s[4] \in Ops(s)
      /\ \A o \in Ops(s) : o = s[1] \/ o = s[2] \/ o = s[3] \/ o = s[4]
  <2>1. /\ DOMAIN s = 1 .. Len(s)
        /\ \A o \in Ops(s) : \E i \in 1 .. Len(s) : o = s[i]
        /\ \A i \in 1 .. Len(s) : s[i] \in Ops(s)
    BY <1>1, OpAt
  <2>2. s # <<>>
    BY <1>1, EmptySeq, SMTT(40)
  <2>3. DOMAIN s = 1 .. 4
    BY <1>1, <2>1
  <2>4. 1 \in DOMAIN s /\ 2 \in DOMAIN s /\ 3 \in DOMAIN s /\ 4 \in DOMAIN s
    BY <2>3
  <2>5. \A o \in Ops(s) : o = s[1] \/ o = s[2] \/ o = s[3] \/ o = s[4]
    BY <1>1, <2>1
  <2> QED
    BY <2>1, <2>2, <2>3, <2>4, <2>5
<1>4. /\ s[1].op = "pud" /\ s[2].op = "pudclk" /\ s[3].op = "pud" /\ s[4].op = "pudclk"
      /\ s[2].pins = {p} /\ s[4].pins = {}
  BY <1>1 DEF WritePud, ClockPud
<1>5. CallTyped(s, ask)
  BY <1>1, <1>2, <1>3, <1>4 DEF CallTyped, ModeOps
<1>6. FselCall(s, ask)
  BY <1>2, <1>3, <1>4 DEF FselCall
<1>7. PullCall(s, ask)
  <2>1. ASSUME NEW i \in DOMAIN s, s[i].op = "pudclk", NEW q \in s[i].pins \cap Gpios
        PROVE  i > 1 /\ s[i - 1] = WritePud(ask[q].pull)
    <3>1. i = 2 \/ i = 4
      BY <2>1, <1>3, <1>4
    <3>2. i = 2 /\ q = p
      BY <2>1, <3>1, <1>4
    <3> QED
      BY <3>2, <1>1, <1>2
  <2>2. ASSUME NEW q \in Gpios
        PROVE  ask[q].pull = asked[q].pull \/ \E o \in Ops(s) : o.op = "pudclk" /\ q \in o.pins
    BY <1>2, <1>3, <1>4
  <2> QED
    BY <2>1, <2>2 DEF PullCall
<1>8. ControlCall(s, pwmAsked)
  <2>1. FromEnd(s, 0) = s[4]
    BY <1>1 DEF FromEnd
  <2> QED
    BY <2>1, <1>3, <1>4 DEF ControlCall, WritesControl
<1>9. DivideCall(s)
  BY <1>3, <1>4 DEF DivideCall
<1>10. ClockCall(s, ask)
  BY <1>2, <1>3, <1>4 DEF ClockCall, Restarted
<1> QED
  BY <1>5, <1>6, <1>7, <1>8, <1>9, <1>10 DEF CallOK, s, ask

\* A pin for which there is nothing to do.
LEMMA NothingOK ==
  ASSUME asked \in [Gpios -> Asks]
  PROVE  CallOK(<<>>, asked, pwmAsked)
<1>1. <<>> \in Seq(Steps) /\ Ops(<<>>) = {} /\ DOMAIN <<>> = {}
  BY DEF Ops
<1> QED
  BY <1>1, SMT DEF CallOK, CallTyped, FselCall, PullCall, ControlCall, DivideCall, ClockCall, Restarted

LEMMA ControlOpsAre ==
  /\ ControlOps[0] = "restore" /\ ControlOps[1] = "start" /\ ControlOps[2] = "divide"
  /\ ControlOps[3] = "await" /\ ControlOps[4] = "stop" /\ ControlOps[5] = "write"
  /\ ControlOps[6] = "save" /\ ControlOps[7] = "write" /\ ControlOps[8] = "write"
  /\ ControlOps[9] = "write" /\ ControlOps[10] = "writeFsel" /\ ControlOps[11] = "readFsel"
  BY SMT DEF ControlOps

LEMMA PwmCallOK ==
  ASSUME NEW p \in Gpios, gpioToPwmALT(p) # 0, NEW s \in Seq(Steps), Len(s) \in {12, 13},
         PwmAccesses(s, p), Len(s) = 13 => s[13] = WriteReg(PWM_CONTROL, PwmMs),
         NEW ask, AsksFsel(ask, p, gpioToPwmALT(p))
  PROVE  CallOK(s, ask, IF Len(s) = 12 THEN PwmBal ELSE PwmMs)
<1> DEFINE pw == IF Len(s) = 12 THEN PwmBal ELSE PwmMs
           n == Len(s)
<1>n. n = 12 \/ n = 13
  OBVIOUS
<1> HIDE DEF n
<1>1. /\ s[1].op = "readFsel"
      /\ s[2].op = "writeFsel" /\ s[2].pin = p /\ s[2].value = gpioToPwmALT(p)
      /\ s[3].op = "write" /\ s[4].op = "write" /\ s[4].reg # PWM_CONTROL
      /\ s[5].op = "write" /\ s[5].reg # PWM_CONTROL /\ s[6].op = "save"
  BY DEF PwmAccesses, ReadFsel, WriteFsel, WriteReg, SaveControl, PWM_CONTROL, PWM0_RANGE, PWM1_RANGE
<1>2. /\ s[7].op = "write" /\ s[8].op = "stop" /\ s[8].clock = PWMCLK_CNTL /\ s[9].op = "await"
      /\ s[10].op = "divide" /\ s[10].clock = PWMCLK_CNTL /\ s[11].op = "start" /\ s[12].op = "restore"
  BY DEF PwmAccesses, WriteReg, StopClock, AwaitClock, Divide, StartClock, RestoreControl
<1>3. Len(s) = 13 => s[13].op = "write" /\ s[13].reg = PWM_CONTROL /\ s[13].value = PwmMs
  BY DEF WriteReg
<1>4. DOMAIN s = 1 .. Len(s) /\ (\A o \in Ops(s) : \E i \in 1 .. Len(s) : o = s[i])
      /\ \A i \in 1 .. Len(s) : s[i] \in Ops(s)
  BY OpAt
<1>5. s # <<>>
  <2>1. Len(s) # 0
    <3>1. n # 0
      BY <1>n
    <3> QED
      BY <3>1 DEF n
  <2> QED
    BY <2>1, EmptySeq
<1>k. ASSUME NEW i \in 1 .. Len(s)
      PROVE  /\ s[i].op = "writeFsel" => i = 2
             /\ s[i].op = "stop" => i = 8
             /\ s[i].op = "divide" => i = 10
             /\ s[i].op # "pudclk" /\ s[i].op \in ModeOps
  <2>0. i \in 1 .. n
    BY DEF n
  <2>a. i \in 1 .. 7 \/ i \in 8 .. 12 \/ (i = 13 /\ n = 13)
    BY <2>0, <1>n
  <2>1. i \in 1 .. 7 \/ i \in 8 .. 12 \/ (i = 13 /\ Len(s) = 13)
    BY <2>a DEF n
  <2>2. CASE i \in 1 .. 7
    <3>1. i = 1 \/ i = 2 \/ i = 3 \/ i = 4 \/ i = 5 \/ i = 6 \/ i = 7
      BY <2>2
    <3> QED
      BY <3>1, <1>1, <1>2 DEF ModeOps
  <2>3. CASE i \in 8 .. 12
    <3>1. i = 8 \/ i = 9 \/ i = 10 \/ i = 11 \/ i = 12
      BY <2>3
    <3> QED
      BY <3>1, <1>2 DEF ModeOps
  <2>4. CASE i = 13 /\ Len(s) = 13
    BY <2>4, <1>3 DEF ModeOps
  <2> QED
    BY <2>1, <2>2, <2>3, <2>4
<1>d. /\ s[2] \in Ops(s) /\ s[3] \in Ops(s) /\ s[11] \in Ops(s) /\ s[12] \in Ops(s)
      /\ Len(s) = 13 => s[13] \in Ops(s)
  <2>0. 2 \in 1 .. n /\ 3 \in 1 .. n /\ 11 \in 1 .. n /\ 12 \in 1 .. n
    BY <1>n
  <2>1. 2 \in 1 .. Len(s) /\ 3 \in 1 .. Len(s) /\ 11 \in 1 .. Len(s) /\ 12 \in 1 .. Len(s)
    BY <2>0 DEF n
  <2>2. Len(s) = 13 => 13 \in 1 .. Len(s)
    OBVIOUS
  <2> QED
    BY <1>4, <2>1, <2>2
<1>6. CallTyped(s, ask)
  <2>1. \A i \in 1 .. Len(s) : s[i].op \in ModeOps
    BY <1>k
  <2> QED
    BY <2>1, <1>4 DEF CallTyped, AsksFsel
<1>7. FselCall(s, ask)
  <2>1. s[1] = ReadFsel(p)
    BY DEF PwmAccesses
  <2>2. ASSUME NEW i \in DOMAIN s, s[i].op = "writeFsel"
        PROVE  i > 1 /\ s[i - 1] = ReadFsel(s[i].pin) /\ s[i].value = ask[s[i].pin].fsel
    <3>1. i = 2
      BY <2>2, <1>k, <1>4
    <3> QED
      BY <3>1, <2>1, <1>1 DEF AsksFsel
  <2>3. \A q \in Gpios : ask[q].fsel = asked[q].fsel \/ \E o \in Ops(s) : o.op = "writeFsel" /\ o.pin = q
    BY <1>d, <1>1 DEF AsksFsel
  <2> QED
    BY <2>2, <2>3 DEF FselCall
<1>8. PullCall(s, ask)
  <2>1. \A i \in 1 .. Len(s) : s[i].op # "pudclk"
    BY <1>k
  <2> QED
    BY <2>1, <1>4 DEF PullCall, AsksFsel
<1>9. ControlCall(s, pw)
  <2>1. FromEnd(s, 0) = s[Len(s)]
    BY DEF FromEnd
  <2>2. WritesControl(FromEnd(s, 0)) /\ FromEnd(s, 0) \in Ops(s)
    BY <2>1, <1>2, <1>3, <1>d DEF WritesControl
  <2>3. FromEnd(s, 0).op = "write" => FromEnd(s, 0).value = pw
    BY <2>1, <1>2, <1>3
  <2>4. CASE Len(s) = 12
    <3>1. \A k \in 0 .. 11 : FromEnd(s, k) = s[12 - k]
      BY <2>4 DEF FromEnd
    <3>2. \A k \in 0 .. 11 : FromEnd(s, k).op = ControlOps[k]
      <4>1. ASSUME NEW k \in 0 .. 11 PROVE s[12 - k].op = ControlOps[k]
        <5>1. k = 0 \/ k = 1 \/ k = 2 \/ k = 3 \/ k = 4 \/ k = 5 \/ k = 6 \/ k = 7 \/ k = 8 \/ k = 9 \/ k = 10 \/ k = 11
          OBVIOUS
        <5>2. /\ ControlOps[0] = "restore" /\ ControlOps[1] = "start" /\ ControlOps[2] = "divide"
              /\ ControlOps[3] = "await" /\ ControlOps[4] = "stop" /\ ControlOps[5] = "write"
              /\ ControlOps[6] = "save" /\ ControlOps[7] = "write" /\ ControlOps[8] = "write"
              /\ ControlOps[9] = "write" /\ ControlOps[10] = "writeFsel" /\ ControlOps[11] = "readFsel"
          BY ControlOpsAre
        <5> QED
          BY <5>1, <5>2, <1>1, <1>2
      <4> QED
        BY <4>1, <3>1
    <3>3. \A k \in {7, 8} : FromEnd(s, k).reg # PWM_CONTROL
      BY <3>1, <1>1
    <3>4. FromEnd(s, 9) = WriteReg(PWM_CONTROL, PwmBal)
      BY <3>1 DEF PwmAccesses
    <3>5. Restores(s, pw)
      BY <2>4, <3>2, <3>3, <3>4 DEF Restores
    <3> QED
      BY <2>2, <2>3, <2>4, <3>5 DEF ControlCall
  <2>5. CASE Len(s) = 13
    BY <2>1, <2>2, <2>3, <2>5, <1>3 DEF ControlCall
  <2> QED
    BY <2>4, <2>5
<1>10. DivideCall(s)
  <2>1. s[9] = AwaitClock(PWMCLK_CNTL)
    BY DEF PwmAccesses
  <2>2. ASSUME NEW i \in DOMAIN s, s[i].op = "divide" PROVE i > 1 /\ s[i - 1] = AwaitClock(s[i].clock)
    <3>1. i = 10
      BY <2>2, <1>k, <1>4
    <3> QED
      BY <3>1, <2>1, <1>2
  <2> QED
    BY <2>2 DEF DivideCall
<1>11. ClockCall(s, ask)
  <2>2. s[11] = StartClock(PWMCLK_CNTL) /\ s[11] \in Ops(s)
    BY <1>d DEF PwmAccesses
  <2>3. Restarted(s)
    <3>1. ASSUME NEW i \in DOMAIN s, s[i].op = "stop"
          PROVE  \E j \in DOMAIN s : i < j /\ s[j] = StartClock(s[i].clock)
      <4>1. i = 8
        BY <3>1, <1>k, <1>4
      <4>2. 11 \in DOMAIN s
        BY <1>4
      <4> QED
        BY <4>1, <4>2, <2>2, <1>2
    <3> QED
      BY <3>1 DEF Restarted
  <2>4. ASSUME NEW o \in Ops(s), o.op = "divide" PROVE o.clock = PWMCLK_CNTL
    <3>1. PICK i \in 1 .. Len(s) : o = s[i]
      BY <1>4
    <3>2. i = 10
      BY <3>1, <2>4, <1>k
    <3> QED
      BY <3>1, <3>2, <1>2
  <2>5. gpioToGpClkALT0(p) = 0
    BY Tables
  <2> QED
    BY <2>2, <2>3, <2>4, <2>5 DEF ClockCall, AsksFsel
<1> QED
  BY <1>6, <1>7, <1>8, <1>9, <1>10, <1>11 DEF CallOK

\* pwmSetMode alone, for the tone mode of a pin without PWM.
LEMMA ToneModeOK ==
  ASSUME asked \in [Gpios -> Asks]
  PROVE  CallOK(pwmSetMode(PwmMs), asked, PwmMs)
<1> DEFINE s == pwmSetMode(PwmMs)
<1>1. s \in Seq(Steps) /\ Len(s) = 1 /\ s[1] = WriteReg(PWM_CONTROL, PwmMs)
  BY SetModeIs DEF PwmMs
<1> HIDE DEF s
<1>2. /\ DOMAIN s = 1 .. 1 /\ s[1] \in Ops(s)
      /\ \A o \in Ops(s) : o = s[1]
  BY <1>1, OpAt
<1>3. s[1].op = "write" /\ s[1].reg = PWM_CONTROL /\ s[1].value = PwmMs
  BY <1>1 DEF WriteReg
<1>4. FromEnd(s, 0) = s[1]
  BY <1>1 DEF FromEnd
<1> QED
  BY <1>1, <1>2, <1>3, <1>4
     DEF s, CallOK, CallTyped, ModeOps, FselCall, PullCall, ControlCall, WritesControl, DivideCall, ClockCall, Restarted

LEMMA GpioClockIs ==
  ASSUME NEW pin
  PROVE  LET s == gpioClockSet(pin, 100000)
             c == IF Translate(pin) = NoGpio THEN NoClock ELSE gpioToClkCon(Translate(pin))
         IN  /\ s \in Seq(Steps) /\ Len(s) = 4 /\ c \in Clocks /\ c # PWMCLK_CNTL
             /\ s[1] = StopClock(c) /\ s[2] = AwaitClock(c) /\ s[3] = Divide(c, 192) /\ s[4] = StartClock(c)
<1> DEFINE s == gpioClockSet(pin, 100000)
           c == IF Translate(pin) = NoGpio THEN NoClock ELSE gpioToClkCon(Translate(pin))
           d == Min({19200000 \div 100000, 4095})
<1>1. c \in Clocks /\ c # PWMCLK_CNTL
  <2>1. \A p : gpioToClkCon(p) \in {28, 30, 32, NoClock}
    BY Tables
  <2> QED
    BY <2>1 DEF Clocks, NoClock, PWMCLK_CNTL
<1>2. d = 192
  BY SMT DEF Min
<1>3. s = <<StopClock(c), AwaitClock(c), Divide(c, d), StartClock(c)>>
  BY DEF gpioClockSet
<1> HIDE DEF s, c, d
<1>4. StopClock(c) \in Steps /\ AwaitClock(c) \in Steps /\ Divide(c, 192) \in Steps /\ StartClock(c) \in Steps
  BY <1>1, StepsMade
<1>5. /\ s \in Seq(Steps) /\ Len(s) = 4
      /\ s[1] = StopClock(c) /\ s[2] = AwaitClock(c) /\ s[3] = Divide(c, 192) /\ s[4] = StartClock(c)
  BY <1>2, <1>3, <1>4, SMT
<1> QED
  BY <1>1, <1>5 DEF s, c

LEMMA ClockCallOK ==
  ASSUME NEW p \in Gpios, gpioToGpClkALT0(p) # 0,
         NEW ask, AsksFsel(ask, p, gpioToGpClkALT0(p))
  PROVE  CallOK(SetFsel(p, gpioToGpClkALT0(p)) \o gpioClockSet(p, 100000), ask, pwmAsked)
<1> DEFINE a == SetFsel(p, gpioToGpClkALT0(p))
           b == gpioClockSet(p, 100000)
           s == a \o b
           c == IF Translate(p) = NoGpio THEN NoClock ELSE gpioToClkCon(Translate(p))
<1>1. a \in Seq(Steps) /\ Len(a) = 2 /\ a[1] = ReadFsel(p) /\ a[2] = WriteFsel(p, gpioToGpClkALT0(p))
  <2>1. gpioToGpClkALT0(p) \in 0 .. 7
    BY Tables
  <2> QED
    BY <2>1, SetFselIs
<1>2. /\ b \in Seq(Steps) /\ Len(b) = 4 /\ c \in Clocks /\ c # PWMCLK_CNTL
      /\ b[1] = StopClock(c) /\ b[2] = AwaitClock(c) /\ b[3] = Divide(c, 192) /\ b[4] = StartClock(c)
  BY GpioClockIs
<1>c. numbering = "gpio" => c = gpioToClkCon(p)
  BY GpioAssumption DEF Translate, NoGpio
<1> HIDE DEF a, b, c
<1>3. /\ s \in Seq(Steps) /\ Len(s) = 6
      /\ s[1] = a[1] /\ s[2] = a[2] /\ s[3] = b[1] /\ s[4] = b[2] /\ s[5] = b[3] /\ s[6] = b[4]
  <2>1. a \in Seq(Steps) /\ Len(a) = 2 /\ b \in Seq(Steps) /\ Len(b) = 4
    BY <1>1, <1>2
  <2> QED
    BY <2>1, Joined2and4
<1> HIDE DEF s
<1>4. /\ s[1] = ReadFsel(p) /\ s[1].op = "readFsel"
      /\ s[2].op = "writeFsel" /\ s[2].pin = p /\ s[2].value = gpioToGpClkALT0(p)
      /\ s[3].op = "stop" /\ s[3].clock = c /\ s[4] = AwaitClock(c) /\ s[4].op = "await"
      /\ s[5] = Divide(c, 192) /\ s[5].op = "divide" /\ s[5].clock = c /\ s[5].value = 192
      /\ s[6] = StartClock(c) /\ s[6].op = "start"
  BY <1>1, <1>2, <1>3 DEF ReadFsel, WriteFsel, StopClock, AwaitClock, Divide, StartClock
<1>5. /\ DOMAIN s = 1 .. Len(s) /\ (\A o \in Ops(s) : \E i \in 1 .. Len(s) : o = s[i])
      /\ \A i \in 1 .. Len(s) : s[i] \in Ops(s)
  BY <1>3, OpAt
<1>6. /\ DOMAIN s = 1 .. 6 /\ s[2] \in Ops(s) /\ s[5] \in Ops(s) /\ s[6] \in Ops(s)
      /\ \A o \in Ops(s) : o = s[1] \/ o = s[2] \/ o = s[3] \/ o = s[4] \/ o = s[5] \/ o = s[6]
  BY <1>3, <1>5
<1>7. CallTyped(s, ask)
  BY <1>3, <1>4, <1>6 DEF CallTyped, ModeOps, AsksFsel
<1>8. FselCall(s, ask)
  BY <1>4, <1>6 DEF FselCall, AsksFsel
<1>9. PullCall(s, ask)
  BY <1>4, <1>6 DEF PullCall, AsksFsel
<1>10. ControlCall(s, pwmAsked)
  <2>1. FromEnd(s, 0) = s[6]
    BY <1>3 DEF FromEnd
  <2> QED
    BY <2>1, <1>4, <1>6 DEF ControlCall, WritesControl
<1>11. DivideCall(s)
  BY <1>4, <1>6 DEF DivideCall
<1>12. ClockCall(s, ask)
  <2>1. Restarted(s)
    BY <1>4, <1>6 DEF Restarted
  <2>2. \A o \in Ops(s) : o.op = "divide" => o.value = 192
    BY <1>4, <1>6
  <2>3. gpioToPwmALT(p) = 0
    BY Tables
  <2> QED
    BY <2>1, <2>2, <2>3, <1>4, <1>6, <1>c DEF ClockCall, AsksFsel
<1> QED
  BY <1>7, <1>8, <1>9, <1>10, <1>11, <1>12 DEF CallOK, s, a, b

LEMMA ToneCallOK ==
  ASSUME NEW p \in Gpios, Names(p) # {}, NEW freq \in Nat, NEW pw,
         pw = IF gpioToPwmPort(p) = PWM_CONTROL THEN freq \div 2 ELSE pwmAsked,
         asked \in [Gpios -> Asks]
  PROVE  CallOK(pwmToneWriteSteps(NameOf(p), freq), asked, pw)
<1> DEFINE s == pwmToneWriteSteps(NameOf(p), freq)
           v == IF freq = 0 THEN 0 ELSE freq \div 2
           w == WriteReg(gpioToPwmPort(p), v)
           b == pwmWriteSteps(NameOf(p), v)
<1>1. v \in Int /\ w \in Steps /\ w.op = "write" /\ w.reg = gpioToPwmPort(p) /\ w.value = v
  <2>1. v \in Int /\ gpioToPwmPort(p) \in Regs
    BY Tables
  <2>2. w \in Steps
    BY <2>1, StepsMade
  <2> QED
    BY <2>1, <2>2 DEF WriteReg
<1>2. b = <<w>>
  BY Named DEF pwmWriteSteps
<1>v. pw = IF w.reg = PWM_CONTROL THEN w.value ELSE pwmAsked
  <2>1. v = freq \div 2
    BY DEF v
  <2> QED
    BY <1>1, <2>1
<1> HIDE DEF w, v
<1>3. b \in Seq(Steps) /\ Len(b) = 1 /\ b[1] = w
  BY <1>1, <1>2, SMT
<1> HIDE DEF b
<1>4. /\ s \in Seq(Steps) /\ Len(s) \in {1, 3} /\ s[Len(s)] = w
      /\ \A i \in DOMAIN s : s[i].op = "write" /\ (i # Len(s) => s[i].reg # PWM_CONTROL)
  <2>1. CASE freq = 0
    <3>1. s = b
      BY <2>1 DEF pwmToneWriteSteps, b, v
    <3>2. DOMAIN b = {1}
      BY <1>3
    <3> QED
      BY <3>1, <3>2, <1>1, <1>3, SMT
  <2>2. CASE freq # 0
    <3> DEFINE r == 600000 \div freq
               a == pwmSetRange(r)
    <3>1. r \in Int
      BY <2>2
    <3>2. s = a \o b
      BY <2>2 DEF pwmToneWriteSteps, b, v
    <3>3. /\ a \in Seq(Steps) /\ Len(a) = 2
          /\ a[1] = WriteReg(PWM0_RANGE, r) /\ a[2] = WriteReg(PWM1_RANGE, r)
      BY <3>1, SetRangeIs
    <3> HIDE DEF a, r, s
    <3>4. s \in Seq(Steps) /\ Len(s) = 3 /\ s[1] = a[1] /\ s[2] = a[2] /\ s[3] = b[1]
      <4>1. a \in Seq(Steps) /\ Len(a) = 2 /\ b \in Seq(Steps) /\ Len(b) = 1
        BY <3>3, <1>3
      <4> QED
        BY <4>1, <3>2, Joined2and1
    <3>5. DOMAIN s = 1 .. 3
      BY <3>4, OpAt
    <3> QED
      BY <3>3, <3>4, <3>5, <1>1, <1>3 DEF WriteReg, PWM_CONTROL, PWM0_RANGE, PWM1_RANGE
  <2> QED
    BY <2>1, <2>2
<1> HIDE DEF s
<1>5. \A o \in Ops(s) : o.op = "write" /\ (o.reg = PWM_CONTROL => o = w)
  BY <1>4 DEF Ops
<1>6. FromEnd(s, 0) = w /\ w \in Ops(s)
  <2>1. DOMAIN s = 1 .. Len(s) /\ Len(s) \in Nat /\ (\A i \in 1 .. Len(s) : s[i] \in Ops(s))
    BY <1>4, OpAt
  <2>2. Len(s) - 0 = Len(s) /\ Len(s) \in 1 .. Len(s)
    BY <1>4
  <2> QED
    BY <1>4, <2>1, <2>2 DEF FromEnd
<1>7. CallTyped(s, asked) /\ FselCall(s, asked) /\ PullCall(s, asked)
  BY <1>4, <1>5 DEF CallTyped, ModeOps, FselCall, PullCall
<1>8. ControlCall(s, pw)
  BY <1>1, <1>5, <1>6, <1>v DEF ControlCall, WritesControl
<1>9. DivideCall(s) /\ ClockCall(s, asked)
  BY <1>4, <1>5 DEF DivideCall, ClockCall, Restarted
<1> QED
  BY <1>7, <1>8, <1>9 DEF CallOK, s

LEMMA PwmOutputOK ==
  ASSUME NEW p \in Gpios, gpioToPwmALT(p) # 0, NEW ask, AsksFsel(ask, p, gpioToPwmALT(p))
  PROVE  CallOK(PwmOutput(p), ask, PwmBal)
<1> DEFINE s == PwmOutput(p)
           n == Len(s)
<1>1. s \in Seq(Steps) /\ n = 12 /\ PwmAccesses(s, p)
  BY PwmOutputIs
<1> HIDE DEF s, n
<1>2. n \in {12, 13} /\ n # 13
  BY <1>1
<1>3. CallOK(s, ask, IF Len(s) = 12 THEN PwmBal ELSE PwmMs)
  <2>1. s \in Seq(Steps) /\ Len(s) \in {12, 13} /\ PwmAccesses(s, p) /\ (Len(s) = 13 => s[13] = WriteReg(PWM_CONTROL, PwmMs))
    BY <1>1, <1>2 DEF n
  <2> QED
    BY <2>1, PwmCallOK
<1> QED
  BY <1>1, <1>3 DEF s, n

LEMMA PwmToneOK ==
  ASSUME NEW p \in Gpios, gpioToPwmALT(p) # 0, NEW ask, AsksFsel(ask, p, gpioToPwmALT(p))
  PROVE  CallOK(PwmOutput(p) \o pwmSetMode(PwmMs), ask, PwmMs)
<1> DEFINE e == PwmOutput(p)
           d == pwmSetMode(PwmMs)
           s == e \o d
           n == 12
           m == 1
           l == Len(s)
<1>1. e \in Seq(Steps) /\ Len(e) = n /\ PwmAccesses(e, p)
  BY PwmOutputIs
<1>2. d \in Seq(Steps) /\ Len(d) = m /\ d[1] = WriteReg(PWM_CONTROL, PwmMs)
  BY SetModeIs DEF PwmMs
<1> HIDE DEF e, d, n, m, s, l
<1>3. s \in Seq(Steps) /\ l = n + m /\ \A i \in 1 .. n + m : s[i] = IF i <= n THEN e[i] ELSE d[i - n]
  BY <1>1, <1>2, JoinedAt DEF s, l
<1>4. /\ l = 13 /\ s[13] = d[1]
      /\ s[1] = e[1] /\ s[2] = e[2] /\ s[3] = e[3] /\ s[4] = e[4] /\ s[5] = e[5] /\ s[6] = e[6]
      /\ s[7] = e[7] /\ s[8] = e[8] /\ s[9] = e[9] /\ s[10] = e[10] /\ s[11] = e[11] /\ s[12] = e[12]
  BY <1>3 DEF n, m
<1>5. PwmAccesses(s, p)
  BY <1>1, <1>4 DEF PwmAccesses
<1>6. s[13] = WriteReg(PWM_CONTROL, PwmMs)
  BY <1>2, <1>4
<1>7. l \in {12, 13} /\ l # 12
  BY <1>4
<1>8. CallOK(s, ask, IF Len(s) = 12 THEN PwmBal ELSE PwmMs)
  <2>1. s \in Seq(Steps) /\ Len(s) \in {12, 13} /\ PwmAccesses(s, p) /\ (Len(s) = 13 => s[13] = WriteReg(PWM_CONTROL, PwmMs))
    BY <1>3, <1>5, <1>6, <1>7 DEF l
  <2> QED
    BY <2>1, PwmCallOK
<1> QED
  BY <1>7, <1>8 DEF s, l, e, d


-----------------------------------------------------------------------------
(* Every call is of one of two kinds.                                      *)

ModeCall(t, s) ==
    /\ MayUse(t, "mode") /\ OnChip
    /\ Begin(t, "mode", s)
    /\ CallOK(s, asked', pwmAsked')

LevelCallOK(t, s, ask) ==
    /\ s \in Seq(Steps) /\ \A o \in Ops(s) : o.op \in {"set", "clear"}
    /\ ask \in [Gpios -> Asks]
    /\ \A p \in Gpios : ask[p].fsel = asked[p].fsel /\ ask[p].pull = asked[p].pull
    /\ \A o \in Ops(s) : \A p \in o.pins \cap Gpios :
         OwnerOf[p] = t /\ ask[p].level = IF o.op = "set" THEN 1 ELSE 0
    /\ \A p \in Gpios : ask[p].level = asked[p].level
         \/ (OwnerOf[p] = t /\ \E o \in Ops(s) : p \in o.pins)

LevelCall(t, s) ==
    /\ MayUse(t, "level")
    /\ Begin(t, "level", s)
    /\ LevelCallOK(t, s, asked') /\ UNCHANGED pwmAsked

LEMMA PinModeCalls ==
  ASSUME asked \in [Gpios -> Asks], NEW t \in Threads, NEW p \in Gpios, Names(p) # {},
         NEW mode \in Modes, pinMode(t, p, mode)
  PROVE  \E s : ModeCall(t, s)
<1> DEFINE s == PinModeSteps(NameOf(p), mode)
<1>1. MayUse(t, "mode") /\ OnChip /\ Begin(t, "mode", s)
  BY DEF pinMode
<1>2. Translate(NameOf(p)) = p
  BY Named
<1>t. /\ gpioToPwmALT(p) \in {0, 2, 4} /\ gpioToGpClkALT0(p) \in {0, 2, 4}
      /\ gpioToPwmALT(p) = 0 \/ gpioToGpClkALT0(p) = 0
  BY Tables
<1>3. CallOK(s, asked', pwmAsked')
  <2>1. CASE mode \in {"INPUT", "OUTPUT"}
    <3> DEFINE f == IF mode = "INPUT" THEN FSEL_INPT ELSE FSEL_OUTP
    <3>1. f \in 0 .. 7 /\ FselAsked(p, mode) = f /\ s = SetFsel(p, f) /\ PwmAsked(p, mode) = pwmAsked
      BY <2>1, <1>2 DEF FselAsked, PinModeSteps, PwmAsked, FSEL_INPT, FSEL_OUTP
    <3>2. asked' = [asked EXCEPT ![p].fsel = f] /\ pwmAsked' = pwmAsked
      BY <2>1, <3>1 DEF pinMode
    <3>3. AsksFsel(asked', p, f)
      <4>1. AsksFsel([asked EXCEPT ![p].fsel = f], p, f)
        BY <3>1, AskedFsel
      <4> QED
        BY <4>1, <3>2
    <3>4. f \in {gpioToPwmALT(p), gpioToGpClkALT0(p)} => f = 0
      BY <1>t DEF FSEL_INPT, FSEL_OUTP
    <3> HIDE DEF f
    <3>5. CallOK(SetFsel(p, f), asked', pwmAsked)
      BY <3>1, <3>3, <3>4, FselCallOK
    <3> QED
      BY <3>1, <3>2, <3>5
  <2>2. CASE mode \in {"PWM_OUTPUT", "PWM_TONE_OUTPUT"} /\ gpioToPwmALT(p) # 0
    <3> DEFINE f == gpioToPwmALT(p)
    <3>1. f \in 0 .. 7 /\ FselAsked(p, mode) = f
      BY <2>2, <1>t DEF FselAsked
    <3>2. asked' = [asked EXCEPT ![p].fsel = f] /\ pwmAsked' = PwmAsked(p, mode)
      BY <2>2, <3>1 DEF pinMode
    <3>3. AsksFsel(asked', p, f)
      <4>1. AsksFsel([asked EXCEPT ![p].fsel = f], p, f)
        BY <3>1, AskedFsel
      <4> QED
        BY <4>1, <3>2
    <3>4. CASE mode = "PWM_OUTPUT"
      <4>1. s = PwmOutput(p) /\ PwmAsked(p, mode) = PwmBal
        BY <2>2, <3>4, <1>2 DEF PinModeSteps, PwmAsked
      <4>2. CallOK(PwmOutput(p), asked', PwmBal)
        BY <2>2, <3>3, PwmOutputOK
      <4> QED
        BY <4>1, <4>2, <3>2
    <3>5. CASE mode = "PWM_TONE_OUTPUT"
      <4>1. s = PwmOutput(p) \o pwmSetMode(PwmMs) /\ PwmAsked(p, mode) = PwmMs
        BY <2>2, <3>5, <1>2 DEF PinModeSteps, PwmAsked
      <4>2. CallOK(PwmOutput(p) \o pwmSetMode(PwmMs), asked', PwmMs)
        BY <2>2, <3>3, PwmToneOK
      <4> QED
        BY <4>1, <4>2, <3>2
    <3> QED
      BY <2>2, <3>4, <3>5
  <2>3. CASE mode = "PWM_OUTPUT" /\ gpioToPwmALT(p) = 0
    <3>1. s = <<>> /\ asked' = asked /\ pwmAsked' = pwmAsked
      BY <2>3, <1>2 DEF PinModeSteps, PwmOutput, pinMode, FselAsked, PwmAsked
    <3> QED
      BY <3>1, NothingOK
  <2>4. CASE mode = "PWM_TONE_OUTPUT" /\ gpioToPwmALT(p) = 0
    <3>1. s = <<>> \o pwmSetMode(PwmMs) /\ asked' = asked /\ pwmAsked' = PwmMs
      BY <2>4, <1>2 DEF PinModeSteps, PwmOutput, pinMode, FselAsked, PwmAsked
    <3>2. <<>> \o pwmSetMode(PwmMs) = pwmSetMode(PwmMs)
      <4>1. pwmSetMode(PwmMs) \in Seq(Steps)
        BY SetModeIs DEF PwmMs
      <4> QED
        BY <4>1, ConcatEmptySeq
    <3> QED
      BY <3>1, <3>2, ToneModeOK
  <2>5. CASE mode = "GPIO_CLOCK" /\ gpioToGpClkALT0(p) # 0
    <3> DEFINE f == gpioToGpClkALT0(p)
    <3>1. f \in 0 .. 7 /\ f # 0 /\ FselAsked(p, mode) = f /\ PwmAsked(p, mode) = pwmAsked
      BY <2>5, <1>t DEF FselAsked, PwmAsked
    <3>2. s = SetFsel(p, f) \o gpioClockSet(p, 100000)
      BY <2>5, <1>2 DEF PinModeSteps
    <3>f. f = gpioToGpClkALT0(p)
      OBVIOUS
    <3> HIDE DEF f, s
    <3>3. asked' = [asked EXCEPT ![p].fsel = f] /\ pwmAsked' = pwmAsked
      BY <2>5, <3>1 DEF pinMode
    <3>4. AsksFsel([asked EXCEPT ![p].fsel = f], p, f)
      BY <3>1, AskedFsel
    <3>5. AsksFsel(asked', p, gpioToGpClkALT0(p))
      BY <3>3, <3>4, <3>f
    <3>6. CallOK(SetFsel(p, gpioToGpClkALT0(p)) \o gpioClockSet(p, 100000), asked', pwmAsked)
      <4>1. gpioToGpClkALT0(p) # 0
        BY <2>5
      <4> QED
        BY <4>1, <3>5, ClockCallOK
    <3> QED
      BY <3>2, <3>3, <3>6, <3>f
  <2>6. CASE mode = "GPIO_CLOCK" /\ gpioToGpClkALT0(p) = 0
    <3>1. s = <<>> /\ asked' = asked /\ pwmAsked' = pwmAsked
      BY <2>6, <1>2 DEF PinModeSteps, pinMode, FselAsked, PwmAsked
    <3> QED
      BY <3>1, NothingOK
  <2> QED
    BY <2>1, <2>2, <2>3, <2>4, <2>5, <2>6, GpioAssumption
<1> QED
  BY <1>1, <1>3 DEF ModeCall

LEMMA OtherModeCalls ==
  ASSUME asked \in [Gpios -> Asks], NEW t \in Threads, NEW p \in Gpios, Names(p) # {},
         \/ \E a \in Alts : pinModeAlt(t, p, a)
         \/ \E d \in Pulls : pullUpDnControl(t, p, d)
         \/ \E f \in ToneFreqs : pwmToneWrite(t, p, f)
  PROVE  \E s : ModeCall(t, s)
<1>1. ASSUME NEW a \in Alts, pinModeAlt(t, p, a) PROVE \E s : ModeCall(t, s)
  <2>1. a \in 0 .. 7 /\ Translate(NameOf(p)) = p
    BY GpioAssumption, Named
  <2>2. asked' = [asked EXCEPT ![p].fsel = a] /\ pwmAsked' = pwmAsked
    BY <1>1 DEF pinModeAlt
  <2>3. AsksFsel(asked', p, a)
    <3>1. AsksFsel([asked EXCEPT ![p].fsel = a], p, a)
      BY <2>1, AskedFsel
    <3> QED
      BY <3>1, <2>2
  <2>4. PlainAlts => (a \in {gpioToPwmALT(p), gpioToGpClkALT0(p)} => a = 0)
    BY DEF PlainAlts
  <2>5. CallOK(SetFsel(p, a), asked', pwmAsked)
    BY <2>1, <2>3, <2>4, FselCallOK
  <2> QED
    BY <1>1, <2>1, <2>2, <2>5 DEF pinModeAlt, ModeCall
<1>2. ASSUME NEW d \in Pulls, pullUpDnControl(t, p, d) PROVE \E s : ModeCall(t, s)
  <2>1. d \in 0 .. 3
    BY GpioAssumption
  <2>2. asked' = [asked EXCEPT ![p].pull = d] /\ pwmAsked' = pwmAsked
    BY <1>2 DEF pullUpDnControl
  <2>3. CallOK(PullSteps(NameOf(p), d), asked', pwmAsked')
    BY <2>1, <2>2, PullCallOK
  <2> QED
    BY <1>2, <2>3 DEF pullUpDnControl, ModeCall
<1>3. ASSUME NEW f \in ToneFreqs, pwmToneWrite(t, p, f) PROVE \E s : ModeCall(t, s)
  <2>1. f \in Nat
    BY GpioAssumption
  <2>2. /\ asked' = asked
        /\ pwmAsked' = IF gpioToPwmPort(p) = PWM_CONTROL THEN f \div 2 ELSE pwmAsked
    BY <1>3 DEF pwmToneWrite
  <2>3. CallOK(pwmToneWriteSteps(NameOf(p), f), asked, pwmAsked')
    BY <2>1, <2>2, ToneCallOK
  <2> QED
    BY <1>3, <2>2, <2>3 DEF pwmToneWrite, ModeCall
<1> QED
  BY <1>1, <1>2, <1>3

\* One level written: nothing for a pin Sys mode has not opened.
LEMMA WriteStepsIs ==
  ASSUME NEW pin, Translate(pin) \in Int, NEW v \in {0, 1}
  PROVE  LET s == WriteSteps(pin, v)
         IN  /\ s \in Seq(Steps)
             /\ \A o \in Ops(s) : /\ OnChip \/ pin \in Exported
                                  /\ o.op = (IF v = 0 THEN "clear" ELSE "set") /\ o.pins = {Translate(pin)}
             /\ OnChip \/ pin \in Exported =>
                  \E o \in Ops(s) : o.pins = {Translate(pin)}
<1> DEFINE o == IF v = 0 THEN ClearPins({Translate(pin)}) ELSE SetPins({Translate(pin)})
           s == <<o>>
<1>1. o \in Steps /\ o.op = (IF v = 0 THEN "clear" ELSE "set") /\ o.pins = {Translate(pin)}
  <2>1. ClearPins({Translate(pin)}) \in Steps /\ SetPins({Translate(pin)}) \in Steps
    BY StepsMade
  <2> QED
    BY <2>1 DEF ClearPins, SetPins
<1>2. CASE OnChip \/ pin \in Exported
  <2>1. WriteSteps(pin, v) = s
    BY <1>2 DEF WriteSteps, OnChip
  <2> HIDE DEF o
  <2>2. s \in Seq(Steps) /\ Ops(s) = {o}
    <3>1. s \in Seq(Steps) /\ DOMAIN s = {1} /\ s[1] = o
      BY <1>1, SMT
    <3> QED
      BY <3>1 DEF Ops
  <2> QED
    BY <2>1, <2>2, <1>1, <1>2
<1>3. CASE ~(OnChip \/ pin \in Exported)
  <2>1. WriteSteps(pin, v) = <<>>
    BY <1>3 DEF WriteSteps, OnChip
  <2>2. <<>> \in Seq(Steps) /\ Ops(<<>>) = {}
    BY DEF Ops
  <2> QED
    BY <2>1, <2>2, <1>3
<1> QED
  BY <1>2, <1>3

LEMMA DigitalWriteCalls ==
  ASSUME asked \in [Gpios -> Asks], NEW t \in Threads, NEW p \in Mine(t), NEW v \in {0, 1},
         digitalWrite(t, p, v)
  PROVE  \E s : LevelCall(t, s)
<1> DEFINE s == WriteSteps(NameOf(p), v)
<1>1. /\ p \in Gpios /\ OwnerOf[p] = t /\ Names(p) # {} /\ p \in Int
      /\ Translate(NameOf(p)) = p
  BY Named, GpioAssumption DEF Mine
<1>2. ~OnChip => NameOf(p) = p
  BY <1>1 DEF OnChip, Translate
<1>3. MayUse(t, "level") /\ Begin(t, "level", s) /\ pwmAsked' = pwmAsked
  BY DEF digitalWrite
<1>4. /\ s \in Seq(Steps)
      /\ \A o \in Ops(s) : /\ OnChip \/ p \in Exported
                           /\ o.op = (IF v = 0 THEN "clear" ELSE "set") /\ o.pins = {p}
      /\ OnChip \/ p \in Exported => \E o \in Ops(s) : o.pins = {p}
  BY <1>1, <1>2, WriteStepsIs
<1>5. asked' = [asked EXCEPT ![p].level = IF OnChip \/ p \in Exported THEN v ELSE @]
  BY DEF digitalWrite
<1>6. /\ asked' \in [Gpios -> Asks]
      /\ \A q \in Gpios : asked'[q].fsel = asked[q].fsel /\ asked'[q].pull = asked[q].pull
      /\ \A q \in Gpios : q # p => asked'[q].level = asked[q].level
      /\ asked'[p].level = IF OnChip \/ p \in Exported THEN v ELSE asked[p].level
  <2> HIDE DEF s
  <2> QED
    BY <1>1, <1>5, SMT DEF Asks
<1> HIDE DEF s
<1>7. LevelCallOK(t, s, asked')
  BY <1>1, <1>4, <1>6 DEF LevelCallOK
<1> QED
  BY <1>3, <1>7 DEF LevelCall

\* The pins of a byte are different pins.
LEMMA BytePins ==
  ASSUME layout \in {1, 2}
  PROVE  /\ FirstPins \in [0 .. 7 -> Int] /\ \A i, j \in 0 .. 7 : FirstPins[i] = FirstPins[j] => i = j
         /\ SecondPins \in [0 .. 7 -> Int] /\ \A i, j \in 0 .. 7 : SecondPins[i] = SecondPins[j] => i = j
<1>1. /\ pinToGpioR1[0] = 17 /\ pinToGpioR1[1] = 18 /\ pinToGpioR1[2] = 21 /\ pinToGpioR1[3] = 22
      /\ pinToGpioR1[4] = 23 /\ pinToGpioR1[5] = 24 /\ pinToGpioR1[6] = 25 /\ pinToGpioR1[7] = 4
  BY SMT DEF pinToGpioR1, Padded
<1>2. /\ pinToGpioR2[0] = 17 /\ pinToGpioR2[1] = 18 /\ pinToGpioR2[2] = 27 /\ pinToGpioR2[3] = 22
      /\ pinToGpioR2[4] = 23 /\ pinToGpioR2[5] = 24 /\ pinToGpioR2[6] = 25 /\ pinToGpioR2[7] = 4
  BY SMT DEF pinToGpioR2, Padded
<1>3. PinTable(layout) = pinToGpioR1 \/ PinTable(layout) = pinToGpioR2
  BY DEF PinTable
<1> DEFINE T == PinTable(layout)
<1>4. /\ T[0] = 17 /\ T[1] = 18 /\ T[2] \in {21, 27} /\ T[3] = 22
      /\ T[4] = 23 /\ T[5] = 24 /\ T[6] = 25 /\ T[7] = 4
  BY <1>1, <1>2, <1>3
<1> HIDE DEF T
<1>5. \A i \in 0 .. 7 : i = 0 \/ i = 1 \/ i = 2 \/ i = 3 \/ i = 4 \/ i = 5 \/ i = 6 \/ i = 7
  OBVIOUS
<1>6. \A i \in 0 .. 7 : T[i] \in Int
  BY <1>4, <1>5
<1>7. \A i, j \in 0 .. 7 : T[i] = T[j] => i = j
  BY <1>4, <1>5
<1>8. FirstPins = [i \in 0 .. 7 |-> T[i]]
  BY DEF FirstPins, T
<1> QED
  BY <1>6, <1>7, <1>8 DEF SecondPins

LEMMA Joined8 ==
  ASSUME NEW S, NEW a \in [0 .. 7 -> Seq(S)]
  PROVE  LET s == a[0] \o a[1] \o a[2] \o a[3] \o a[4] \o a[5] \o a[6] \o a[7]
         IN  /\ s \in Seq(S)
             /\ \A o : o \in Ops(s) <=> \E i \in 0 .. 7 : o \in Ops(a[i])
<1> DEFINE b == a[0] \o a[1]
           c == b \o a[2]
           d == c \o a[3]
           e == d \o a[4]
           f == e \o a[5]
           g == f \o a[6]
           h == g \o a[7]
<1>0. /\ a[0] \in Seq(S) /\ a[1] \in Seq(S) /\ a[2] \in Seq(S) /\ a[3] \in Seq(S)
      /\ a[4] \in Seq(S) /\ a[5] \in Seq(S) /\ a[6] \in Seq(S) /\ a[7] \in Seq(S)
  OBVIOUS
<1> HIDE DEF b, c, d, e, f, g, h
<1>1. b \in Seq(S) /\ Ops(b) = Ops(a[0]) \cup Ops(a[1])
  BY <1>0, OpsJoined DEF b
<1>2. c \in Seq(S) /\ Ops(c) = Ops(b) \cup Ops(a[2])
  BY <1>0, <1>1, OpsJoined DEF c
<1>3. d \in Seq(S) /\ Ops(d) = Ops(c) \cup Ops(a[3])
  BY <1>0, <1>2, OpsJoined DEF d
<1>4. e \in Seq(S) /\ Ops(e) = Ops(d) \cup Ops(a[4])
  BY <1>0, <1>3, OpsJoined DEF e
<1>5. f \in Seq(S) /\ Ops(f) = Ops(e) \cup Ops(a[5])
  BY <1>0, <1>4, OpsJoined DEF f
<1>6. g \in Seq(S) /\ Ops(g) = Ops(f) \cup Ops(a[6])
  BY <1>0, <1>5, OpsJoined DEF g
<1>7. h \in Seq(S) /\ Ops(h) = Ops(g) \cup Ops(a[7])
  BY <1>0, <1>6, OpsJoined DEF h
<1>8. \A o : o \in Ops(h) <=> \/ o \in Ops(a[0]) \/ o \in Ops(a[1]) \/ o \in Ops(a[2]) \/ o \in Ops(a[3])
                               \/ o \in Ops(a[4]) \/ o \in Ops(a[5]) \/ o \in Ops(a[6]) \/ o \in Ops(a[7])
  BY <1>1, <1>2, <1>3, <1>4, <1>5, <1>6, <1>7
<1>9. \A i \in 0 .. 7 : i = 0 \/ i = 1 \/ i = 2 \/ i = 3 \/ i = 4 \/ i = 5 \/ i = 6 \/ i = 7
  OBVIOUS
<1>10. \A o : o \in Ops(h) <=> \E i \in 0 .. 7 : o \in Ops(a[i])
  BY <1>8, <1>9
<1> QED
  BY <1>7, <1>10 DEF b, c, d, e, f, g, h

\* A byte is written with one access for a pin, or one for the zeros and
\* one for the ones.
LEMMA WriteByteIs ==
  ASSUME NEW value, NEW pins \in [0 .. 7 -> Int]
  PROVE  LET s == WriteByteSteps(value, pins)
         IN  /\ s \in Seq(Steps) /\ \A o \in Ops(s) : o.op \in {"set", "clear"}
             /\ \A o \in Ops(s) : \A q \in o.pins : \E i \in 0 .. 7 :
                  /\ pins[i] = q /\ (OnChip \/ q \in Exported)
                  /\ Bit(value, i) = IF o.op = "set" THEN 1 ELSE 0
             /\ \A i \in 0 .. 7 : OnChip \/ pins[i] \in Exported => \E o \in Ops(s) : pins[i] \in o.pins
<1> DEFINE s == WriteByteSteps(value, pins)
<1>b. \A i : Bit(value, i) \in {0, 1}
  BY DEF Bit
<1>1. CASE OnChip
  <2> DEFINE Z == {pins[i] : i \in {j \in 0 .. 7 : Bit(value, j) = 0}}
             O == {pins[i] : i \in {j \in 0 .. 7 : Bit(value, j) = 1}}
  <2>1. s = <<ClearPins(Z), SetPins(O)>>
    BY <1>1 DEF WriteByteSteps, OnChip
  <2>2. Z \in SUBSET Int /\ O \in SUBSET Int
    OBVIOUS
  <2>3. /\ \A q \in Z : \E i \in 0 .. 7 : pins[i] = q /\ Bit(value, i) = 0
        /\ \A q \in O : \E i \in 0 .. 7 : pins[i] = q /\ Bit(value, i) = 1
        /\ \A i \in 0 .. 7 : pins[i] \in Z \/ pins[i] \in O
    BY <1>b
  <2> HIDE DEF Z, O, s
  <2>4. ClearPins(Z) \in Steps /\ SetPins(O) \in Steps
    BY <2>2, StepsMade
  <2>5. s \in Seq(Steps) /\ DOMAIN s = 1 .. 2 /\ s[1] = ClearPins(Z) /\ s[2] = SetPins(O)
    BY <2>1, <2>4, SMT
  <2>6. Ops(s) = {ClearPins(Z), SetPins(O)}
    BY <2>5 DEF Ops
  <2>7. /\ ClearPins(Z).op = "clear" /\ ClearPins(Z).pins = Z
        /\ SetPins(O).op = "set" /\ SetPins(O).pins = O
    BY DEF ClearPins, SetPins
  <2> QED
    BY <2>3, <2>5, <2>6, <2>7, <1>1 DEF s
<1>2. CASE ~OnChip
  <2> DEFINE a == [i \in 0 .. 7 |-> WriteSteps(pins[i], Bit(value, i))]
  <2> DEFINE W(i) == WriteSteps(pins[i], Bit(value, i))
  <2>0. s = W(0) \o W(1) \o W(2) \o W(3) \o W(4) \o W(5) \o W(6) \o W(7)
    BY <1>2 DEF WriteByteSteps, OnChip
  <2>w. \A i \in 0 .. 7 : a[i] = W(i)
    OBVIOUS
  <2>1. s = a[0] \o a[1] \o a[2] \o a[3] \o a[4] \o a[5] \o a[6] \o a[7]
    <3> HIDE DEF a, W, s
    <3>1. /\ a[0] = W(0) /\ a[1] = W(1) /\ a[2] = W(2) /\ a[3] = W(3)
          /\ a[4] = W(4) /\ a[5] = W(5) /\ a[6] = W(6) /\ a[7] = W(7)
      BY <2>w
    <3> QED
      BY <3>1, <2>0
  <2>2. ASSUME NEW i \in 0 .. 7
        PROVE  /\ a[i] \in Seq(Steps)
               /\ \A o \in Ops(a[i]) : /\ pins[i] \in Exported
                                       /\ o.op = (IF Bit(value, i) = 0 THEN "clear" ELSE "set") /\ o.pins = {pins[i]}
               /\ pins[i] \in Exported => \E o \in Ops(a[i]) : o.pins = {pins[i]}
    <3>1. a[i] = WriteSteps(pins[i], Bit(value, i))
      OBVIOUS
    <3>2. Translate(pins[i]) = pins[i] /\ Translate(pins[i]) \in Int
      BY <1>2 DEF OnChip, Translate
    <3> DEFINE pin == pins[i]
               v == Bit(value, i)
               w == WriteSteps(pin, v)
    <3>3. a[i] = w /\ v \in {0, 1} /\ Translate(pin) = pin /\ Translate(pin) \in Int
      BY <3>1, <3>2, <1>b
    <3> HIDE DEF a, pin, v
    <3>4. /\ w \in Seq(Steps)
          /\ \A o \in Ops(w) : /\ OnChip \/ pin \in Exported
                               /\ o.op = (IF v = 0 THEN "clear" ELSE "set") /\ o.pins = {Translate(pin)}
          /\ OnChip \/ pin \in Exported => \E o \in Ops(w) : o.pins = {Translate(pin)}
      BY <3>3, WriteStepsIs
    <3> HIDE DEF w
    <3> QED
      BY <3>3, <3>4, <1>2 DEF pin, v
  <2> HIDE DEF s
  <2>3. a \in [0 .. 7 -> Seq(Steps)]
    BY <2>2
  <2> HIDE DEF a
  <2>4. s \in Seq(Steps) /\ \A o : o \in Ops(s) <=> \E i \in 0 .. 7 : o \in Ops(a[i])
    BY <2>1, <2>3, Joined8
  <2>5. ASSUME NEW o \in Ops(s)
        PROVE  /\ o.op \in {"set", "clear"}
               /\ \A q \in o.pins : \E i \in 0 .. 7 :
                    /\ pins[i] = q /\ (OnChip \/ q \in Exported)
                    /\ Bit(value, i) = IF o.op = "set" THEN 1 ELSE 0
    <3>1. PICK i \in 0 .. 7 : o \in Ops(a[i])
      BY <2>4
    <3>2. pins[i] \in Exported /\ o.pins = {pins[i]} /\ o.op = IF Bit(value, i) = 0 THEN "clear" ELSE "set"
      BY <3>1, <2>2
    <3>3. Bit(value, i) \in {0, 1}
      BY <1>b
    <3> QED
      BY <3>2, <3>3
  <2>6. ASSUME NEW i \in 0 .. 7, pins[i] \in Exported PROVE \E o \in Ops(s) : pins[i] \in o.pins
    BY <2>2, <2>4, <2>6
  <2> QED
    BY <2>4, <2>5, <2>6, <1>2 DEF s
<1> QED
  BY <1>1, <1>2

LEMMA WriteByteCalls ==
  ASSUME asked \in [Gpios -> Asks], NEW t \in Threads, NEW value,
         NEW pins \in [0 .. 7 -> Int], \A i, j \in 0 .. 7 : pins[i] = pins[j] => i = j,
         WriteByte(t, value, pins)
  PROVE  \E s : LevelCall(t, s)
<1> DEFINE s == WriteByteSteps(value, pins)
<1>1. MayUse(t, "level") /\ Begin(t, "level", s) /\ pwmAsked' = pwmAsked
  BY DEF WriteByte
<1>2. \A i \in 0 .. 7 : pins[i] \in Gpios => OwnerOf[pins[i]] = t
  BY DEF WriteByte
<1>3. /\ s \in Seq(Steps) /\ \A o \in Ops(s) : o.op \in {"set", "clear"}
      /\ \A o \in Ops(s) : \A q \in o.pins : \E i \in 0 .. 7 :
           /\ pins[i] = q /\ (OnChip \/ q \in Exported)
           /\ Bit(value, i) = IF o.op = "set" THEN 1 ELSE 0
      /\ \A i \in 0 .. 7 : OnChip \/ pins[i] \in Exported => \E o \in Ops(s) : pins[i] \in o.pins
  BY WriteByteIs
<1> HIDE DEF s
<1>4. asked' = [p \in Gpios |->
         IF \E i \in 0 .. 7 : pins[i] = p /\ (OnChip \/ p \in Exported)
           THEN [asked[p] EXCEPT !.level = Bit(value, CHOOSE i \in 0 .. 7 : pins[i] = p)]
           ELSE asked[p]]
  BY DEF WriteByte
<1>5. ASSUME NEW p \in Gpios
      PROVE  /\ asked'[p] \in Asks /\ asked'[p].fsel = asked[p].fsel /\ asked'[p].pull = asked[p].pull
             /\ asked'[p].level = asked[p].level \/ \E i \in 0 .. 7 : pins[i] = p /\ (OnChip \/ p \in Exported)
             /\ \A i \in 0 .. 7 : pins[i] = p /\ (OnChip \/ p \in Exported) => asked'[p].level = Bit(value, i)
  <2>1. CASE \E i \in 0 .. 7 : pins[i] = p /\ (OnChip \/ p \in Exported)
    <3>1. PICK i \in 0 .. 7 : pins[i] = p /\ (OnChip \/ p \in Exported)
      BY <2>1
    <3>2. (CHOOSE j \in 0 .. 7 : pins[j] = p) = i
      BY <3>1
    <3>3. asked'[p] = [asked[p] EXCEPT !.level = Bit(value, i)]
      BY <3>1, <3>2, <1>4
    <3>4. Bit(value, i) \in {0, 1} /\ asked[p] \in Asks
      BY DEF Bit
    <3>5. asked'[p] \in Asks /\ asked'[p].level = Bit(value, i)
          /\ asked'[p].fsel = asked[p].fsel /\ asked'[p].pull = asked[p].pull
      BY <3>3, <3>4 DEF Asks
    <3> QED
      BY <3>1, <3>5
  <2>2. CASE ~\E i \in 0 .. 7 : pins[i] = p /\ (OnChip \/ p \in Exported)
    BY <2>2, <1>4
  <2> QED
    BY <2>1, <2>2
<1>6. asked' \in [Gpios -> Asks]
  BY <1>4, <1>5
<1>7. ASSUME NEW o \in Ops(s), NEW p \in o.pins \cap Gpios
      PROVE  OwnerOf[p] = t /\ asked'[p].level = IF o.op = "set" THEN 1 ELSE 0
  <2>1. PICK i \in 0 .. 7 : /\ pins[i] = p /\ (OnChip \/ p \in Exported)
                            /\ Bit(value, i) = IF o.op = "set" THEN 1 ELSE 0
    BY <1>3
  <2>2. asked'[p].level = Bit(value, i)
    BY <2>1, <1>5
  <2> QED
    BY <2>1, <2>2, <1>2
<1>8. ASSUME NEW p \in Gpios
      PROVE  asked'[p].level = asked[p].level \/ (OwnerOf[p] = t /\ \E o \in Ops(s) : p \in o.pins)
  <2> SUFFICES ASSUME asked'[p].level # asked[p].level
               PROVE  OwnerOf[p] = t /\ \E o \in Ops(s) : p \in o.pins
    OBVIOUS
  <2>1. PICK i \in 0 .. 7 : pins[i] = p /\ (OnChip \/ p \in Exported)
    BY <1>5
  <2> QED
    BY <2>1, <1>2, <1>3
<1>9. LevelCallOK(t, s, asked')
  BY <1>3, <1>5, <1>6, <1>7, <1>8 DEF LevelCallOK
<1> QED
  BY <1>1, <1>9 DEF LevelCall

-----------------------------------------------------------------------------
(* What a step does to the calls: it begins one, makes its next access, or  *)
(* the set-up fails.                                                       *)

LEMMA Empty == Ops(<<>>) = {} /\ DOMAIN <<>> = {} /\ <<>> \in Seq(Steps)
  BY DEF Ops

LEMMA Accessed ==
  ASSUME TodoInv, NEW t \in Threads, NEW op, Access(t, op)
  PROVE  /\ Now(t) \in Steps /\ Now(t).op = op /\ Now(t) = todo[t][1] /\ ~exited
         /\ op \in OpsOf(doing[t]) /\ doing[t] # "idle"
         /\ todo' = [todo EXCEPT ![t] = Tail(todo[t])]
         /\ \A u \in Threads : u # t => todo'[u] = todo[u] /\ doing'[u] = doing[u]
         /\ todo'[t] \in Seq(Steps)
         /\ Ops(todo[t]) = {Now(t)} \cup Ops(todo'[t])
         /\ Len(todo[t]) \in Nat /\ Len(todo[t]) > 0 /\ Len(todo'[t]) = Len(todo[t]) - 1
         /\ DOMAIN todo[t] = 1 .. Len(todo[t]) /\ DOMAIN todo'[t] = 1 .. Len(todo[t]) - 1
         /\ \A i \in DOMAIN todo'[t] : todo'[t][i] = todo[t][i + 1]
         /\ doing' = [doing EXCEPT ![t] = IF todo'[t] = <<>> THEN "idle" ELSE doing[t]]
         /\ UNCHANGED <<calls, asked, pwmAsked>>
<1> DEFINE s == todo[t]
<1>1. s \in Seq(Steps) /\ s # <<>> /\ Head(s).op = op /\ ~exited
  BY DEF Access, TodoInv
<1>2. /\ Head(s) \in Steps /\ Head(s) = s[1] /\ Tail(s) \in Seq(Steps)
      /\ Ops(s) = {Head(s)} \cup Ops(Tail(s))
      /\ Len(s) \in Nat /\ Len(s) > 0 /\ Len(Tail(s)) = Len(s) - 1
      /\ DOMAIN s = 1 .. Len(s) /\ DOMAIN Tail(s) = 1 .. Len(s) - 1
      /\ \A i \in DOMAIN Tail(s) : Tail(s)[i] = s[i + 1]
      /\ Len(s) = 1 <=> Tail(s) = <<>>
  <2> HIDE DEF s
  <2> QED
    BY <1>1, OpsOfTail
<1>3. todo' = [todo EXCEPT ![t] = Tail(s)] /\ todo'[t] = Tail(s)
  BY DEF Access, TodoInv
<1>4. doing' = [doing EXCEPT ![t] = IF Len(s) = 1 THEN "idle" ELSE @] /\ UNCHANGED <<calls, asked, pwmAsked>>
  BY DEF Access
<1>5. doing' = [doing EXCEPT ![t] = IF Tail(s) = <<>> THEN "idle" ELSE doing[t]]
  <2> HIDE DEF s
  <2> QED
    BY <1>2, <1>4
<1>6. op \in OpsOf(doing[t]) /\ doing[t] # "idle"
  BY <1>1, <1>2 DEF TodoInv
<1>7. \A u \in Threads : u # t => todo'[u] = todo[u] /\ doing'[u] = doing[u]
  BY <1>3, <1>4 DEF TodoInv
<1> QED
  <2>1. Now(t) = Head(s)
    BY DEF Now
  <2> HIDE DEF s
  <2>2. s = todo[t]
    BY DEF s
  <2> QED
    BY <1>1, <1>2, <1>3, <1>4, <1>5, <1>6, <1>7, <2>1, <2>2

\* A call begins.
LEMMA Called ==
  ASSUME TodoInv, NEW t \in Threads, NEW kind \in {"mode", "level"}, NEW s \in Seq(Steps),
         MayUse(t, kind), Begin(t, kind, s)
  PROVE  /\ todo[t] = <<>> /\ doing[t] = "idle" /\ SetUp /\ ~exited
         /\ todo' = [todo EXCEPT ![t] = s] /\ todo'[t] = s
         /\ \A u \in Threads : u # t => todo'[u] = todo[u] /\ doing'[u] = doing[u]
         /\ doing' = [doing EXCEPT ![t] = IF s = <<>> THEN "idle" ELSE kind]
         /\ UNCHANGED <<control, loc, hardware>>
  BY DEF TodoInv, MayUse, Idle, Begin

LEMMA SetupStepsAre ==
  ASSUME NEW k \in Kinds
  PROVE  SetupSteps(k) \in Seq(Steps) /\ \A o \in Ops(SetupSteps(k)) : o.op \in SetupOps
<1> DEFINE n == Number(IF NoHeader(piBoardId(board).model) THEN "gpio" ELSE "pins")
           hw == <<n, Open, MapPart("gpio"), MapPart("pwm"), MapPart("clk"), MapPart("pads")>>
           m == Number(k)
<1>1. /\ n \in Steps /\ n.op = "number" /\ Open \in Steps /\ Open.op = "open"
      /\ m \in Steps /\ m.op = "number"
  BY StepsMade, GpioAssumption DEF Number, Open
<1>2. \A x \in Parts : MapPart(x) \in Steps /\ MapPart(x).op = "map"
  BY StepsMade DEF MapPart
<1>3. MapPart("gpio") \in Steps /\ MapPart("pwm") \in Steps /\ MapPart("clk") \in Steps /\ MapPart("pads") \in Steps
  BY <1>2 DEF Parts
<1>4. MapPart("gpio").op = "map" /\ MapPart("pwm").op = "map" /\ MapPart("clk").op = "map" /\ MapPart("pads").op = "map"
  BY <1>2 DEF Parts
<1> HIDE DEF n, m
<1>5. /\ hw \in Seq(Steps) /\ DOMAIN hw = 1 .. 6
      /\ hw[1] = n /\ hw[2] = Open /\ hw[3] = MapPart("gpio")
      /\ hw[4] = MapPart("pwm") /\ hw[5] = MapPart("clk") /\ hw[6] = MapPart("pads")
  BY <1>1, <1>3, SMT
<1>h. SetupSteps(k) = CASE k = "pins" -> hw [] k = "sys" -> <<Number("sys")>> [] OTHER -> Append(hw, m)
  BY DEF SetupSteps, n, m
<1> HIDE DEF hw
<1>6. \A o \in Ops(hw) : o.op \in SetupOps
  <2>1. \A i \in 1 .. 6 : i = 1 \/ i = 2 \/ i = 3 \/ i = 4 \/ i = 5 \/ i = 6
    OBVIOUS
  <2>2. \A i \in 1 .. 6 : hw[i].op \in SetupOps
    BY <2>1, <1>1, <1>4, <1>5 DEF SetupOps
  <2> QED
    BY <2>2, <1>5 DEF Ops
<1>7. CASE k = "pins"
  BY <1>5, <1>6, <1>7, <1>h
<1>8. CASE k = "sys"
  <2>1. SetupSteps(k) = <<m>>
    BY <1>8, <1>h DEF m
  <2>2. <<m>> \in Seq(Steps) /\ DOMAIN <<m>> = {1} /\ <<m>>[1] = m
    BY <1>1, SMT
  <2> QED
    BY <2>1, <2>2, <1>1 DEF Ops, SetupOps
<1>9. CASE k # "pins" /\ k # "sys"
  <2>1. SetupSteps(k) = Append(hw, m)
    BY <1>9, <1>h
  <2> DEFINE f == Append(hw, m)
  <2>2. f \in Seq(Steps) /\ DOMAIN f = 1 .. Len(hw) + 1 /\ \A i \in 1 .. Len(hw) + 1 : f[i] = IF i = Len(hw) + 1 THEN m ELSE hw[i]
    BY <1>1, <1>5, SMT
  <2>3. DOMAIN hw = 1 .. Len(hw) /\ Len(hw) \in Nat
    BY <1>5, OpAt
  <2> HIDE DEF f
  <2>4. \A i \in DOMAIN f : f[i] = m \/ f[i] \in Ops(hw)
    <3> SUFFICES ASSUME NEW i \in 1 .. Len(hw) + 1, i # Len(hw) + 1 PROVE f[i] \in Ops(hw)
      BY <2>2
    <3>1. i \in DOMAIN hw /\ f[i] = hw[i]
      BY <2>2, <2>3
    <3> QED
      BY <3>1 DEF Ops
  <2>5. \A o \in Ops(f) : o.op \in SetupOps
    BY <2>4, <1>1, <1>6 DEF Ops, SetupOps
  <2> QED
    BY <2>1, <2>2, <2>5 DEF f
<1> QED
  BY <1>7, <1>8, <1>9

LEMMA SetupCalled ==
  ASSUME TodoInv, NEW k \in Kinds, Setup(k)
  PROVE  /\ todo[Main] = <<>> /\ doing[Main] = "idle" /\ numbering = "none"
         /\ todo'[Main] \in Seq(Steps) /\ \A o \in Ops(todo'[Main]) : o.op \in SetupOps
         /\ \A u \in Threads : u # Main => todo'[u] = todo[u] /\ doing'[u] = doing[u]
         /\ todo' = [todo EXCEPT ![Main] = SetupSteps(k)] /\ doing' = [doing EXCEPT ![Main] = "setup"]
         /\ UNCHANGED <<control, loc, hardware, asked, pwmAsked>>
<1>1. Main \in Threads
  BY GpioAssumption
<1>2. /\ todo[Main] = <<>> /\ doing[Main] = "idle" /\ numbering = "none"
      /\ todo' = [todo EXCEPT ![Main] = SetupSteps(k)] /\ doing' = [doing EXCEPT ![Main] = "setup"]
      /\ UNCHANGED <<control, loc, hardware, asked, pwmAsked>>
  BY <1>1 DEF Setup, TodoInv, Idle
<1>3. todo'[Main] = SetupSteps(k)
  BY <1>1, <1>2 DEF TodoInv
<1>4. \A u \in Threads : u # Main => todo'[u] = todo[u] /\ doing'[u] = doing[u]
  BY <1>1, <1>2 DEF TodoInv
<1> QED
  BY <1>2, <1>3, <1>4, SetupStepsAre

LEMMA SetupFailed ==
  ASSUME TodoInv, NEW t \in Threads, SetupFails(t)
  PROVE  /\ doing[t] = "setup" /\ todo'[t] \in Seq(Steps) /\ Ops(todo'[t]) \subseteq Ops(todo[t])
         /\ \A u \in Threads : u # t => todo'[u] = todo[u]
         /\ \E s : todo' = [todo EXCEPT ![t] = s]
         /\ UNCHANGED <<board, layout, numbering, mapped, doing, calls, loc, hardware, asked, pwmAsked>>
<1> DEFINE s == todo[t]
           u == IF Last(s).op = "number" THEN <<Last(s)>> ELSE <<>>
<1>1. /\ s \in Seq(Steps) /\ s # <<>> /\ Head(s).op \in {"open", "map"}
      /\ UNCHANGED <<board, layout, numbering, mapped, doing, calls, loc, hardware, asked, pwmAsked>>
      /\ todo' = [todo EXCEPT ![t] = u] /\ todo'[t] = u
      /\ \A v \in Threads : v # t => todo'[v] = todo[v]
  BY DEF SetupFails, TodoInv
<1>2. Head(s) \in Ops(s) /\ Len(s) \in Nat /\ Len(s) > 0
  BY <1>1, OpsOfTail
<1>3. doing[t] = "setup"
  BY <1>1, <1>2 DEF TodoInv, OpsOf, ModeOps, SetupOps
<1>4. Last(s) \in Ops(s) /\ Last(s) \in Steps
  <2>1. Last(s) = s[Len(s)]
    BY DEF Last
  <2>2. Len(s) \in DOMAIN s
    BY <1>1, <1>2, OpAt
  <2>3. s[Len(s)] \in Steps
    BY <1>1, <1>2
  <2> QED
    BY <2>1, <2>2, <2>3 DEF Ops
<1>5. u \in Seq(Steps) /\ Ops(u) \subseteq Ops(s)
  <2>1. CASE Last(s).op = "number"
    <3> DEFINE l == Last(s)
    <3>1. u = <<l>> /\ l \in Steps /\ l \in Ops(s)
      BY <2>1, <1>4
    <3> HIDE DEF l
    <3>2. <<l>> \in Seq(Steps) /\ DOMAIN <<l>> = {1} /\ <<l>>[1] = l
      BY <3>1, SMT
    <3> QED
      BY <3>1, <3>2 DEF Ops
  <2>2. CASE Last(s).op # "number"
    BY <2>2, Empty
  <2> QED
    BY <2>1, <2>2
<1> HIDE DEF u
<1> QED
  BY <1>1, <1>3, <1>5

\* Every step is one of these.
LEMMA Cases ==
  ASSUME TypeInv, [GpioNext]_gpioVars
  PROVE  \/ \E k \in Kinds : Setup(k)
         \/ \E t \in Threads : \E s : ModeCall(t, s)
         \/ \E t \in Threads : \E s : LevelCall(t, s)
         \/ \E t \in Threads : Step(t)
         \/ ClockStops
         \/ UNCHANGED gpioVars
<1>1. asked \in [Gpios -> Asks] /\ layout \in {1, 2}
  BY DEF TypeInv, ValuesInv
<1>2. ASSUME NEW t \in Threads, PinCalls(t)
      PROVE  (\E s : ModeCall(t, s)) \/ (\E s : LevelCall(t, s))
  <2>1. PICK p \in Mine(t) :
          \/ \E m \in Modes : pinMode(t, p, m)
          \/ \E a \in Alts : pinModeAlt(t, p, a)
          \/ \E d \in Pulls : pullUpDnControl(t, p, d)
          \/ \E v \in {0, 1} : digitalWrite(t, p, v)
          \/ \E f \in ToneFreqs : pwmToneWrite(t, p, f)
    BY <1>2 DEF PinCalls
  <2>2. p \in Gpios /\ Names(p) # {}
    BY DEF Mine
  <2>3. CASE \E m \in Modes : pinMode(t, p, m)
    BY <2>2, <2>3, <1>1, PinModeCalls
  <2>4. CASE \E v \in {0, 1} : digitalWrite(t, p, v)
    BY <2>4, <1>1, DigitalWriteCalls
  <2>5. CASE \/ \E a \in Alts : pinModeAlt(t, p, a)
             \/ \E d \in Pulls : pullUpDnControl(t, p, d)
             \/ \E f \in ToneFreqs : pwmToneWrite(t, p, f)
    BY <2>2, <2>5, <1>1, OtherModeCalls
  <2> QED
    BY <2>1, <2>3, <2>4, <2>5
<1>3. ASSUME NEW t \in Threads, ByteCalls(t) PROVE \E s : LevelCall(t, s)
  <2>1. PICK v \in Bytes : WriteByte(t, v, FirstPins) \/ WriteByte(t, v, SecondPins)
    BY <1>3 DEF ByteCalls
  <2>2. /\ FirstPins \in [0 .. 7 -> Int] /\ \A i, j \in 0 .. 7 : FirstPins[i] = FirstPins[j] => i = j
        /\ SecondPins \in [0 .. 7 -> Int] /\ \A i, j \in 0 .. 7 : SecondPins[i] = SecondPins[j] => i = j
    BY <1>1, BytePins
  <2> QED
    BY <2>1, <2>2, <1>1, WriteByteCalls
<1> QED
  BY <1>2, <1>3 DEF GpioNext

-----------------------------------------------------------------------------
(* Types, and the set-up before the calls.                                 *)

LEMMA TodoKept == TypeInv /\ [GpioNext]_gpioVars => TodoInv'
<1> SUFFICES ASSUME TypeInv, [GpioNext]_gpioVars PROVE TodoInv'
  OBVIOUS
<1>0. TodoInv
  BY DEF TypeInv
<1>1. ASSUME NEW k \in Kinds, Setup(k) PROVE TodoInv'
  <2>1. /\ todo'[Main] \in Seq(Steps) /\ \A o \in Ops(todo'[Main]) : o.op \in SetupOps
        /\ \A u \in Threads : u # Main => todo'[u] = todo[u] /\ doing'[u] = doing[u]
        /\ todo' = [todo EXCEPT ![Main] = SetupSteps(k)] /\ doing' = [doing EXCEPT ![Main] = "setup"]
    BY <1>0, <1>1, SetupCalled
  <2>2. todo' \in [Threads -> Seq(Steps)] /\ doing' \in [Threads -> {"idle", "setup", "mode", "level"}]
        /\ doing'[Main] = "setup"
    BY <1>0, <2>1, GpioAssumption DEF TodoInv
  <2>3. OpsOf("setup") = SetupOps
    BY DEF OpsOf
  <2> QED
    BY <1>0, <2>1, <2>2, <2>3 DEF TodoInv
<1>2. ASSUME NEW t \in Threads, NEW kind \in {"mode", "level"}, NEW s \in Seq(Steps),
             MayUse(t, kind), Begin(t, kind, s), \A o \in Ops(s) : o.op \in OpsOf(kind)
      PROVE  TodoInv'
  <2>1. /\ todo' = [todo EXCEPT ![t] = s] /\ todo'[t] = s
        /\ \A u \in Threads : u # t => todo'[u] = todo[u] /\ doing'[u] = doing[u]
        /\ doing' = [doing EXCEPT ![t] = IF s = <<>> THEN "idle" ELSE kind]
    BY <1>0, <1>2, Called
  <2>2. /\ todo' \in [Threads -> Seq(Steps)] /\ doing' \in [Threads -> {"idle", "setup", "mode", "level"}]
        /\ doing'[t] = IF s = <<>> THEN "idle" ELSE kind
    BY <1>0, <2>1 DEF TodoInv
  <2> QED
    BY <1>0, <1>2, <2>1, <2>2, Empty DEF TodoInv
<1>3. ASSUME NEW t \in Threads, NEW s, ModeCall(t, s) PROVE TodoInv'
  <2>1. MayUse(t, "mode") /\ Begin(t, "mode", s) /\ s \in Seq(Steps) /\ \A o \in Ops(s) : o.op \in OpsOf("mode")
    BY <1>3 DEF ModeCall, CallOK, CallTyped, OpsOf
  <2> QED
    BY <1>2, <2>1
<1>4. ASSUME NEW t \in Threads, NEW s, LevelCall(t, s) PROVE TodoInv'
  <2>1. MayUse(t, "level") /\ Begin(t, "level", s) /\ s \in Seq(Steps) /\ \A o \in Ops(s) : o.op \in OpsOf("level")
    BY <1>4 DEF LevelCall, LevelCallOK, OpsOf
  <2> QED
    BY <1>2, <2>1
<1>5. ASSUME NEW t \in Threads, NEW op, Access(t, op) PROVE TodoInv'
  <2>1. /\ todo' = [todo EXCEPT ![t] = Tail(todo[t])]
        /\ \A u \in Threads : u # t => todo'[u] = todo[u] /\ doing'[u] = doing[u]
        /\ todo'[t] \in Seq(Steps) /\ Ops(todo[t]) = {Now(t)} \cup Ops(todo'[t])
        /\ doing' = [doing EXCEPT ![t] = IF todo'[t] = <<>> THEN "idle" ELSE doing[t]]
    BY <1>0, <1>5, Accessed
  <2>2. /\ todo' \in [Threads -> Seq(Steps)] /\ doing' \in [Threads -> {"idle", "setup", "mode", "level"}]
        /\ doing'[t] = IF todo'[t] = <<>> THEN "idle" ELSE doing[t]
    BY <1>0, <2>1 DEF TodoInv
  <2> QED
    BY <1>0, <2>1, <2>2, Empty DEF TodoInv
<1>6. ASSUME NEW t \in Threads, SetupFails(t) PROVE TodoInv'
  <2>1. /\ doing[t] = "setup" /\ todo'[t] \in Seq(Steps) /\ Ops(todo'[t]) \subseteq Ops(todo[t])
        /\ \A u \in Threads : u # t => todo'[u] = todo[u]
        /\ \E s : todo' = [todo EXCEPT ![t] = s]
        /\ doing' = doing
    BY <1>0, <1>6, SetupFailed
  <2>2. todo' \in [Threads -> Seq(Steps)]
    BY <1>0, <2>1 DEF TodoInv
  <2> QED
    BY <1>0, <2>1, <2>2 DEF TodoInv
<1>7. ASSUME UNCHANGED <<todo, doing>> PROVE TodoInv'
  BY <1>0, <1>7 DEF TodoInv, Ops, OpsOf
<1>8. ASSUME NEW t \in Threads, Step(t) PROVE TodoInv'
  BY <1>5, <1>6, <1>8 DEF Step, ReadWord, WriteWord, WriteLevel, PullAccess, PwmAccess, ClockAccess,
                          StoreNumbering, OpenOrMap
<1> QED
  BY <1>1, <1>3, <1>4, <1>7, <1>8, Cases DEF ClockStops, gpioVars

LEMMA ValuesKept == TypeInv /\ [GpioNext]_gpioVars => ValuesInv'
<1> SUFFICES ASSUME TypeInv, [GpioNext]_gpioVars PROVE ValuesInv'
  OBVIOUS
<1>0. TodoInv /\ ValuesInv
  BY DEF TypeInv
<1>1. ASSUME UNCHANGED <<control, loc, hardware>>, asked' \in [Gpios -> Asks] PROVE ValuesInv'
  BY <1>0, <1>1 DEF ValuesInv, control, hardware
<1>2. ASSUME NEW k \in Kinds, Setup(k) PROVE ValuesInv'
  BY <1>0, <1>1, <1>2 DEF Setup, ValuesInv
<1>3. ASSUME NEW t \in Threads, NEW s, ModeCall(t, s) PROVE ValuesInv'
  BY <1>1, <1>3 DEF ModeCall, Begin, CallOK, CallTyped
<1>4. ASSUME NEW t \in Threads, NEW s, LevelCall(t, s) PROVE ValuesInv'
  BY <1>1, <1>4 DEF LevelCall, Begin, LevelCallOK
<1>5. ASSUME NEW t \in Threads, NEW op, Access(t, op)
      PROVE  /\ Now(t).op = op /\ UNCHANGED asked
             /\ op = "readFsel" => Now(t).pin \in Gpios
             /\ op = "writeFsel" => Now(t).pin \in Gpios /\ Now(t).value \in 0 .. 7
             /\ op = "pud" => Now(t).value \in 0 .. 3
             /\ op = "write" => Now(t).reg \in Regs /\ Now(t).value \in Int
             /\ op \in {"stop", "await", "start", "divide"} => Now(t).clock \in Clocks
             /\ op = "divide" => Now(t).value \in Int
             /\ op = "map" => Now(t).part \in Parts
             /\ op = "number" => Now(t).to \in {"pins", "gpio", "phys", "sys"}
  <2>1. Now(t) \in Steps /\ Now(t).op = op /\ UNCHANGED asked
    BY <1>0, <1>5, Accessed
  <2> QED
    BY <2>1, Fields
<1>6. ASSUME NEW t \in Threads, ReadWord(t) PROVE ValuesInv'
  <2>1. /\ loc' = [loc EXCEPT ![t] = [p \in Gpios |-> IF p \in Word(Now(t).pin) THEN fsel[p] ELSE FSEL_INPT]]
        /\ UNCHANGED <<control, hardware>> /\ UNCHANGED asked
    BY <1>5, <1>6 DEF ReadWord
  <2>2. loc' \in [Threads -> [Gpios -> 0 .. 7]]
    BY <1>0, <2>1 DEF ValuesInv, FSEL_INPT
  <2> QED
    BY <1>0, <2>1, <2>2 DEF ValuesInv, control, hardware
<1>7. ASSUME NEW t \in Threads, WriteWord(t) PROVE ValuesInv'
  <2>1. /\ fsel' = [p \in Gpios |-> IF p = Now(t).pin THEN Now(t).value
                                    ELSE IF p \in Word(Now(t).pin) THEN loc[t][p] ELSE fsel[p]]
        /\ loc' = [loc EXCEPT ![t] = NoWord] /\ Now(t).value \in 0 .. 7
        /\ UNCHANGED <<control, latch, gppud, pull, reg, clk, div, saved>> /\ UNCHANGED asked
    BY <1>5, <1>7 DEF WriteWord
  <2>2. NoWord \in [Gpios -> 0 .. 7]
    BY DEF NoWord, FSEL_INPT
  <2>3. loc' \in [Threads -> [Gpios -> 0 .. 7]]
    BY <1>0, <2>1, <2>2 DEF ValuesInv
  <2>4. fsel' \in [Gpios -> 0 .. 7]
    BY <1>0, <2>1 DEF ValuesInv
  <2> QED
    BY <1>0, <2>1, <2>3, <2>4 DEF ValuesInv, control
<1>8. ASSUME NEW t \in Threads, WriteLevel(t) PROVE ValuesInv'
  <2>1. latch' \subseteq Gpios /\ UNCHANGED asked
    BY <1>0, <1>5, <1>8 DEF WriteLevel, ValuesInv
  <2> QED
    BY <1>0, <1>8, <2>1 DEF WriteLevel, ValuesInv, control
<1>9. ASSUME NEW t \in Threads, PullAccess(t) PROVE ValuesInv'
  <2>1. gppud' \in 0 .. 3 /\ pull' \in [Gpios -> 0 .. 3] /\ UNCHANGED asked
    BY <1>0, <1>5, <1>9 DEF PullAccess, ValuesInv
  <2> QED
    BY <1>0, <1>9, <2>1 DEF PullAccess, ValuesInv, control
<1>10. ASSUME NEW t \in Threads, PwmAccess(t) PROVE ValuesInv'
  <2>0. PWM_CONTROL \in Regs /\ PwmOff \in Int
    BY DEF PWM_CONTROL, Regs, PwmOff
  <2>1. reg' \in [Regs -> Int] /\ saved' \in [Threads -> Int] /\ UNCHANGED asked
    BY <1>0, <1>5, <1>10, <2>0 DEF PwmAccess, ValuesInv
  <2> QED
    BY <1>0, <1>10, <2>1 DEF PwmAccess, ValuesInv, control
<1>11. ASSUME NEW t \in Threads, ClockAccess(t) PROVE ValuesInv'
  <2>1. clk' \in [Clocks -> {"stop", "stopping", "run"}] /\ div' \in [Clocks -> Int] /\ UNCHANGED asked
    BY <1>0, <1>5, <1>11 DEF ClockAccess, ValuesInv
  <2> QED
    BY <1>0, <1>11, <2>1 DEF ClockAccess, ValuesInv, control
<1>12. ASSUME NEW t \in Threads, StoreNumbering(t) \/ OpenOrMap(t) PROVE ValuesInv'
  <2>1. /\ numbering' \in {"none", "pins", "gpio", "phys", "sys"} /\ mapped' \subseteq Parts
        /\ layout' \in {1, 2} /\ UNCHANGED asked
    BY <1>0, <1>5, <1>12 DEF StoreNumbering, OpenOrMap, ValuesInv, piGpioLayout
  <2> QED
    BY <1>0, <1>12, <2>1 DEF StoreNumbering, OpenOrMap, ValuesInv, hardware
<1>13. ASSUME NEW t \in Threads, SetupFails(t) PROVE ValuesInv'
  BY <1>0, <1>13 DEF SetupFails, ValuesInv, hardware
<1>14. ASSUME ClockStops PROVE ValuesInv'
  BY <1>0, <1>14 DEF ClockStops, ValuesInv, control
<1>15. ASSUME UNCHANGED gpioVars PROVE ValuesInv'
  BY <1>0, <1>15 DEF gpioVars, ValuesInv, control, hardware
<1> QED
  BY <1>2, <1>3, <1>4, <1>6, <1>7, <1>8, <1>9, <1>10, <1>11, <1>12, <1>13, <1>14, <1>15, Cases DEF Step

LEMMA SetupKept == TypeInv /\ SetupInv /\ [GpioNext]_gpioVars => SetupInv'
<1> SUFFICES ASSUME TypeInv, SetupInv, [GpioNext]_gpioVars PROVE SetupInv'
  OBVIOUS
<1>0. TodoInv /\ numbering \in {"none", "pins", "gpio", "phys", "sys"} /\ Main \in Threads
  BY GpioAssumption DEF TypeInv, ValuesInv
<1>1. ASSUME NEW k \in Kinds, Setup(k) PROVE SetupInv'
  <2>1. /\ numbering = "none" /\ UNCHANGED <<numbering, asked>>
        /\ \A u \in Threads : u # Main => doing'[u] = doing[u]
        /\ doing' = [doing EXCEPT ![Main] = "setup"]
    BY <1>0, <1>1, SetupCalled DEF control
  <2> QED
    BY <1>0, <2>1 DEF SetupInv, SetUp, TodoInv
<1>2. ASSUME NEW t \in Threads, NEW kind \in {"mode", "level"}, NEW s \in Seq(Steps),
             MayUse(t, kind), Begin(t, kind, s)
      PROVE  SetupInv'
  <2>1. /\ SetUp /\ UNCHANGED numbering
        /\ \A u \in Threads : u # t => doing'[u] = doing[u]
        /\ doing' = [doing EXCEPT ![t] = IF s = <<>> THEN "idle" ELSE kind]
    BY <1>0, <1>2, Called DEF control
  <2>2. doing'[t] # "setup"
    BY <1>0, <2>1 DEF TodoInv
  <2> QED
    BY <1>0, <2>1, <2>2 DEF SetupInv, SetUp
<1>3. ASSUME NEW t \in Threads, NEW s, ModeCall(t, s) PROVE SetupInv'
  BY <1>2, <1>3 DEF ModeCall, CallOK, CallTyped
<1>4. ASSUME NEW t \in Threads, NEW s, LevelCall(t, s) PROVE SetupInv'
  BY <1>2, <1>4 DEF LevelCall, LevelCallOK
<1>5. ASSUME NEW t \in Threads, NEW op, Access(t, op), numbering' \in {"pins", "gpio", "phys", "sys"} \/ UNCHANGED numbering
      PROVE  SetupInv'
  <2>1. /\ \A u \in Threads : u # t => doing'[u] = doing[u]
        /\ doing' = [doing EXCEPT ![t] = IF todo'[t] = <<>> THEN "idle" ELSE doing[t]]
        /\ UNCHANGED asked
    BY <1>0, <1>5, Accessed
  <2>2. doing'[t] \in {"idle", doing[t]}
    BY <1>0, <2>1 DEF TodoInv
  <2> QED
    BY <1>0, <1>5, <2>1, <2>2 DEF SetupInv, SetUp
<1>6. ASSUME NEW t \in Threads, StoreNumbering(t) PROVE numbering' \in {"pins", "gpio", "phys", "sys"}
  <2>1. Access(t, "number") /\ numbering' = Now(t).to
    BY <1>6 DEF StoreNumbering
  <2>2. Now(t) \in Steps /\ Now(t).op = "number"
    BY <1>0, <2>1, Accessed
  <2> QED
    BY <2>1, <2>2, Fields
<1>7. ASSUME NEW t \in Threads, SetupFails(t) PROVE SetupInv'
  BY <1>7 DEF SetupFails, SetupInv, SetUp
<1>8. ASSUME NEW t \in Threads, Step(t) PROVE SetupInv'
  BY <1>5, <1>6, <1>7, <1>8 DEF Step, ReadWord, WriteWord, WriteLevel, PullAccess, PwmAccess, ClockAccess,
                                StoreNumbering, OpenOrMap, control
<1>9. ASSUME ClockStops \/ UNCHANGED gpioVars PROVE SetupInv'
  BY <1>9 DEF ClockStops, gpioVars, control, SetupInv, SetUp
<1> QED
  BY <1>1, <1>3, <1>4, <1>8, <1>9, Cases

-----------------------------------------------------------------------------
(* Levels.                                                                 *)

LevelOps(s) == {o \in Ops(s) : o.op \in {"set", "clear"}}

LEMMA LevelAside ==
  ASSUME LevelInv, OwnerOf \in [Gpios -> Threads], latch' = latch,
         \A p \in Gpios : asked'[p].level = asked[p].level,
         \A u \in Threads : LevelOps(todo'[u]) = LevelOps(todo[u])
  PROVE  LevelInv'
<1>1. \A u \in Threads : \A o : /\ o \in Ops(todo'[u]) /\ o.op \in {"set", "clear"}
                                   <=> o \in Ops(todo[u]) /\ o.op \in {"set", "clear"}
  BY DEF LevelOps
<1>2. \A t \in Threads : \A o \in Ops(todo'[t]) : \A p \in Gpios :
         o.op \in {"set", "clear"} /\ p \in o.pins =>
           OwnerOf[p] = t /\ asked'[p].level = IF o.op = "set" THEN 1 ELSE 0
  BY <1>1 DEF LevelInv
<1>3. \A p \in Gpios : (p \in latch' <=> asked'[p].level = 1)
         \/ \E o \in Ops(todo'[OwnerOf[p]]) : o.op \in {"set", "clear"} /\ p \in o.pins
  BY <1>1 DEF LevelInv
<1> QED
  BY <1>2, <1>3 DEF LevelInv, Ops

\* What one write of a level does, and that nothing else moves a pin.
LEMMA LevelStep ==
  ASSUME TodoInv, LevelInv, NEW t \in Threads, WriteLevel(t)
  PROVE  /\ Now(t) \in Ops(todo[t]) /\ UNCHANGED asked
         /\ \A p \in Gpios : IF p \in Now(t).pins THEN p \in latch' <=> asked[p].level = 1
                             ELSE p \in latch' <=> p \in latch
         /\ \A p \in Gpios : p \in Now(t).pins => OwnerOf[p] = t
         /\ \A u \in Threads : u # t => todo'[u] = todo[u]
         /\ Ops(todo[t]) = {Now(t)} \cup Ops(todo'[t])
<1>1. PICK op \in {"set", "clear"} : /\ Access(t, op)
                                     /\ latch' = IF op = "set" THEN latch \cup (Now(t).pins \cap Gpios)
                                                 ELSE latch \ Now(t).pins
  BY DEF WriteLevel
<1>2. /\ Now(t).op = op /\ UNCHANGED asked /\ \A u \in Threads : u # t => todo'[u] = todo[u]
      /\ Ops(todo[t]) = {Now(t)} \cup Ops(todo'[t])
  BY <1>1, Accessed
<1>3. \A p \in Gpios : p \in Now(t).pins =>
        OwnerOf[p] = t /\ asked[p].level = IF op = "set" THEN 1 ELSE 0
  BY <1>1, <1>2 DEF LevelInv
<1> QED
  BY <1>1, <1>2, <1>3

LEMMA LevelKept == TypeInv /\ LevelInv /\ [GpioNext]_gpioVars => LevelInv'
<1> SUFFICES ASSUME TypeInv, LevelInv, [GpioNext]_gpioVars PROVE LevelInv'
  OBVIOUS
<1>0. TodoInv /\ OwnerOf \in [Gpios -> Threads] /\ asked \in [Gpios -> Asks]
  BY GpioAssumption DEF TypeInv, ValuesInv
<1>e. LevelOps(<<>>) = {}
  BY Empty DEF LevelOps
<1>1. ASSUME NEW k \in Kinds, Setup(k) PROVE LevelInv'
  <2>1. /\ todo[Main] = <<>> /\ \A o \in Ops(todo'[Main]) : o.op \in SetupOps
        /\ \A u \in Threads : u # Main => todo'[u] = todo[u]
        /\ UNCHANGED <<control, loc, hardware, asked, pwmAsked>>
    BY <1>0, <1>1, SetupCalled
  <2>2. LevelOps(todo'[Main]) = {} /\ LevelOps(todo[Main]) = {}
    BY <2>1, <1>e DEF LevelOps, SetupOps
  <2> QED
    BY <1>0, <2>1, <2>2, LevelAside DEF hardware
<1>2. ASSUME NEW t \in Threads, NEW s, ModeCall(t, s) PROVE LevelInv'
  <2>1. MayUse(t, "mode") /\ Begin(t, "mode", s) /\ CallTyped(s, asked')
    BY <1>2 DEF ModeCall, CallOK
  <2>2. /\ s \in Seq(Steps) /\ \A o \in Ops(s) : o.op \in ModeOps
        /\ \A p \in Gpios : asked'[p].level = asked[p].level
    BY <2>1 DEF CallTyped
  <2>3. /\ todo[t] = <<>> /\ todo'[t] = s /\ UNCHANGED hardware
        /\ \A u \in Threads : u # t => todo'[u] = todo[u]
    BY <1>0, <2>1, <2>2, Called
  <2>4. LevelOps(todo'[t]) = {} /\ LevelOps(todo[t]) = {}
    BY <2>2, <2>3, <1>e DEF LevelOps, ModeOps
  <2> QED
    BY <1>0, <2>2, <2>3, <2>4, LevelAside DEF hardware
<1>3. ASSUME NEW t \in Threads, NEW s, LevelCall(t, s) PROVE LevelInv'
  <2>1. MayUse(t, "level") /\ Begin(t, "level", s) /\ s \in Seq(Steps)
    BY <1>3 DEF LevelCall, LevelCallOK
  <2>2. /\ \A o \in Ops(s) : o.op \in {"set", "clear"}
        /\ \A o \in Ops(s) : \A p \in o.pins \cap Gpios :
             OwnerOf[p] = t /\ asked'[p].level = IF o.op = "set" THEN 1 ELSE 0
        /\ \A p \in Gpios : asked'[p].level = asked[p].level
             \/ (OwnerOf[p] = t /\ \E o \in Ops(s) : p \in o.pins)
    BY <1>3 DEF LevelCall, LevelCallOK
  <2>3. /\ Ops(todo[t]) = {} /\ todo'[t] = s /\ UNCHANGED hardware
        /\ \A u \in Threads : u # t => todo'[u] = todo[u]
    BY <1>0, <2>1, Called, Empty
  <2>4. ASSUME NEW u \in Threads, NEW o \in Ops(todo'[u]), NEW p \in Gpios, o.op \in {"set", "clear"}, p \in o.pins
        PROVE  OwnerOf[p] = u /\ asked'[p].level = IF o.op = "set" THEN 1 ELSE 0
    <3>1. CASE u = t
      BY <3>1, <2>2, <2>3, <2>4
    <3>2. CASE u # t
      <4>1. OwnerOf[p] = u /\ asked[p].level = IF o.op = "set" THEN 1 ELSE 0
        BY <3>2, <2>3, <2>4 DEF LevelInv
      <4> QED
        BY <3>2, <4>1, <2>2
    <3> QED
      BY <3>1, <3>2
  <2>5. ASSUME NEW p \in Gpios
        PROVE  (p \in latch' <=> asked'[p].level = 1)
                 \/ \E o \in Ops(todo'[OwnerOf[p]]) : o.op \in {"set", "clear"} /\ p \in o.pins
    <3>1. CASE OwnerOf[p] = t /\ \E o \in Ops(s) : p \in o.pins
      BY <3>1, <2>2, <2>3
    <3>2. CASE ~(OwnerOf[p] = t /\ \E o \in Ops(s) : p \in o.pins)
      <4>1. asked'[p].level = asked[p].level /\ latch' = latch
        BY <3>2, <2>2, <2>3 DEF hardware
      <4>2. CASE OwnerOf[p] = t
        BY <4>1, <4>2, <2>3 DEF LevelInv
      <4>3. CASE OwnerOf[p] # t
        BY <4>1, <4>3, <2>3, <1>0 DEF LevelInv
      <4> QED
        BY <4>2, <4>3
    <3> QED
      BY <3>1, <3>2
  <2> QED
    BY <2>4, <2>5 DEF LevelInv, Ops
<1>4. ASSUME NEW t \in Threads, NEW op, Access(t, op), op \notin {"set", "clear"}, UNCHANGED latch PROVE LevelInv'
  <2>1. /\ Now(t).op = op /\ UNCHANGED asked /\ \A u \in Threads : u # t => todo'[u] = todo[u]
        /\ Ops(todo[t]) = {Now(t)} \cup Ops(todo'[t])
    BY <1>0, <1>4, Accessed, ZenonT(40)
  <2>2. LevelOps(todo'[t]) = LevelOps(todo[t])
    BY <1>4, <2>1 DEF LevelOps
  <2> QED
    BY <1>0, <1>4, <2>1, <2>2, LevelAside
<1>5. ASSUME NEW t \in Threads, WriteLevel(t) PROVE LevelInv'
  <2>1. /\ UNCHANGED asked
        /\ \A p \in Gpios : IF p \in Now(t).pins THEN p \in latch' <=> asked[p].level = 1
                            ELSE p \in latch' <=> p \in latch
        /\ \A u \in Threads : u # t => todo'[u] = todo[u]
        /\ Ops(todo[t]) = {Now(t)} \cup Ops(todo'[t])
    BY <1>0, <1>5, LevelStep
  <2>2. \A u \in Threads : \A o \in Ops(todo'[u]) : o \in Ops(todo[u])
    BY <2>1
  <2>3. \A u \in Threads : \A o \in Ops(todo'[u]) : \A p \in Gpios :
         o.op \in {"set", "clear"} /\ p \in o.pins =>
           OwnerOf[p] = u /\ asked'[p].level = IF o.op = "set" THEN 1 ELSE 0
    BY <2>1, <2>2 DEF LevelInv
  <2>4. ASSUME NEW p \in Gpios
        PROVE  (p \in latch' <=> asked'[p].level = 1)
                 \/ \E o \in Ops(todo'[OwnerOf[p]]) : o.op \in {"set", "clear"} /\ p \in o.pins
    <3>1. CASE p \in Now(t).pins
      BY <3>1, <2>1
    <3>2. CASE p \notin Now(t).pins
      <4>1. p \in latch' <=> p \in latch
        BY <3>2, <2>1
      <4>2. CASE p \in latch <=> asked[p].level = 1
        BY <4>1, <4>2, <2>1
      <4>3. CASE ~(p \in latch <=> asked[p].level = 1)
        <5>1. PICK o \in Ops(todo[OwnerOf[p]]) : o.op \in {"set", "clear"} /\ p \in o.pins
          BY <4>3 DEF LevelInv
        <5>2. o # Now(t)
          BY <5>1, <3>2
        <5>3. OwnerOf[p] \in Threads
          BY <1>0
        <5>4. o \in Ops(todo'[OwnerOf[p]])
          BY <5>1, <5>2, <5>3, <2>1
        <5> QED
          BY <5>1, <5>4
      <4> QED
        BY <4>2, <4>3
    <3> QED
      BY <3>1, <3>2
  <2> QED
    BY <2>3, <2>4 DEF LevelInv, Ops
<1>6. ASSUME NEW t \in Threads, SetupFails(t) PROVE LevelInv'
  <2>1. /\ doing[t] = "setup" /\ Ops(todo'[t]) \subseteq Ops(todo[t])
        /\ \A u \in Threads : u # t => todo'[u] = todo[u]
        /\ UNCHANGED <<hardware, asked>>
    BY <1>0, <1>6, SetupFailed
  <2>2. \A o \in Ops(todo[t]) : o.op \notin {"set", "clear"}
    BY <1>0, <2>1 DEF TodoInv, OpsOf, SetupOps
  <2>3. LevelOps(todo'[t]) = LevelOps(todo[t])
    BY <2>1, <2>2 DEF LevelOps
  <2> QED
    BY <1>0, <2>1, <2>3, LevelAside DEF hardware
<1>7. ASSUME NEW t \in Threads, Step(t) PROVE LevelInv'
  BY <1>4, <1>5, <1>6, <1>7 DEF Step, ReadWord, WriteWord, PullAccess, PwmAccess, ClockAccess,
                                StoreNumbering, OpenOrMap, hardware
<1>8. ASSUME ClockStops \/ UNCHANGED gpioVars PROVE LevelInv'
  BY <1>0, <1>8, LevelAside DEF ClockStops, gpioVars, hardware, LevelOps, Ops
<1> QED
  BY <1>1, <1>2, <1>3, <1>7, <1>8, Cases

LEMMA OnlyLevelsMove ==
  ASSUME TypeInv, LevelInv, [GpioNext]_gpioVars, NEW p \in Gpios, (p \in latch) # (p \in latch')
  PROVE  p \in latch' <=> asked[p].level = 1
<1>0. TodoInv
  BY DEF TypeInv
<1>1. PICK t \in Threads : WriteLevel(t)
  <2>1. ~UNCHANGED latch
    OBVIOUS
  <2>2. ASSUME NEW k \in Kinds, Setup(k) PROVE FALSE
    BY <2>1, <2>2 DEF Setup, hardware
  <2>3. ASSUME NEW t \in Threads, NEW s, ModeCall(t, s) \/ LevelCall(t, s) PROVE FALSE
    BY <2>1, <2>3 DEF ModeCall, LevelCall, Begin, hardware
  <2>4. ASSUME ClockStops \/ UNCHANGED gpioVars PROVE FALSE
    BY <2>1, <2>4 DEF ClockStops, gpioVars, hardware
  <2>5. ASSUME NEW t \in Threads, Step(t) PROVE WriteLevel(t)
    BY <2>1, <2>5 DEF Step, ReadWord, WriteWord, PullAccess, PwmAccess, ClockAccess,
                      StoreNumbering, OpenOrMap, SetupFails, hardware
  <2> QED
    BY <2>2, <2>3, <2>4, <2>5, Cases
<1> QED
  BY <1>0, <1>1, LevelStep

-----------------------------------------------------------------------------
(* The other settings, when the callers serialise the calls that make them: *)
(* every step but a call's begin and its accesses leaves them aside.       *)

NoMode(s) == \A o \in Ops(s) : o.op \notin ModeOps

Aside ==
    /\ UNCHANGED <<loc, fsel, gppud, pull, reg, clk, div, saved, pwmAsked>>
    /\ \A p \in Gpios : asked'[p].fsel = asked[p].fsel /\ asked'[p].pull = asked[p].pull
    /\ \A u \in Threads : todo'[u] = todo[u] \/ (NoMode(todo[u]) /\ NoMode(todo'[u]))
    /\ numbering' = numbering \/ \A p \in Gpios : asked[p].fsel = 0

ModeStep(t) == ReadWord(t) \/ WriteWord(t) \/ PullAccess(t) \/ PwmAccess(t) \/ ClockAccess(t)

LEMMA OneModeKept == Serial /\ TypeInv /\ OneMode /\ [GpioNext]_gpioVars => OneMode'
<1> SUFFICES ASSUME Serial, TypeInv, OneMode, [GpioNext]_gpioVars PROVE OneMode'
  OBVIOUS
<1>0. TodoInv /\ Main \in Threads
  BY GpioAssumption DEF TypeInv
<1>1. ASSUME NEW t \in Threads, \A u \in Threads : u # t => doing'[u] = doing[u],
             doing'[t] \in {"idle", "setup", "level", doing[t]}
      PROVE  OneMode'
  BY <1>1 DEF OneMode
<1>2. ASSUME NEW k \in Kinds, Setup(k) PROVE OneMode'
  <2>1. /\ \A u \in Threads : u # Main => doing'[u] = doing[u]
        /\ doing' = [doing EXCEPT ![Main] = "setup"]
    BY <1>0, <1>2, SetupCalled
  <2>2. doing'[Main] = "setup"
    BY <1>0, <2>1 DEF TodoInv
  <2> QED
    BY <1>0, <1>1, <2>1, <2>2
<1>3. ASSUME NEW t \in Threads, NEW s, ModeCall(t, s) PROVE OneMode'
  <2>1. MayUse(t, "mode") /\ Begin(t, "mode", s) /\ s \in Seq(Steps)
    BY <1>3 DEF ModeCall, CallOK, CallTyped
  <2>2. \A u \in Threads : u # t => doing'[u] = doing[u]
    BY <1>0, <2>1, Called
  <2>3. \A u \in Threads : doing[u] # "mode"
    BY <2>1 DEF MayUse
  <2> QED
    BY <2>2, <2>3 DEF OneMode
<1>4. ASSUME NEW t \in Threads, NEW s, LevelCall(t, s) PROVE OneMode'
  <2>1. MayUse(t, "level") /\ Begin(t, "level", s) /\ s \in Seq(Steps)
    BY <1>4 DEF LevelCall, LevelCallOK
  <2>2. /\ \A u \in Threads : u # t => doing'[u] = doing[u]
        /\ doing' = [doing EXCEPT ![t] = IF s = <<>> THEN "idle" ELSE "level"]
    BY <1>0, <2>1, Called
  <2>3. doing'[t] \in {"idle", "level"}
    BY <1>0, <2>2 DEF TodoInv
  <2> QED
    BY <1>1, <2>2, <2>3
<1>5. ASSUME NEW t \in Threads, NEW op, Access(t, op) PROVE OneMode'
  <2>1. /\ \A u \in Threads : u # t => doing'[u] = doing[u]
        /\ doing' = [doing EXCEPT ![t] = IF todo'[t] = <<>> THEN "idle" ELSE doing[t]]
    BY <1>0, <1>5, Accessed
  <2>2. doing'[t] \in {"idle", doing[t]}
    BY <1>0, <2>1 DEF TodoInv
  <2> QED
    BY <1>1, <2>1, <2>2
<1>6. ASSUME NEW t \in Threads, Step(t) PROVE OneMode'
  BY <1>1, <1>5, <1>6 DEF Step, ReadWord, WriteWord, WriteLevel, PullAccess, PwmAccess, ClockAccess,
                          StoreNumbering, OpenOrMap, SetupFails
<1>7. ASSUME ClockStops \/ UNCHANGED gpioVars PROVE OneMode'
  BY <1>7 DEF ClockStops, gpioVars, OneMode
<1> QED
  BY <1>2, <1>3, <1>4, <1>6, <1>7, Cases

LEMMA EmptyNoMode == NoMode(<<>>)
  BY Empty DEF NoMode

\* A call that changes settings finds no other under way.
LEMMA ModeCalled ==
  ASSUME Serial, TodoInv, NEW t \in Threads, NEW s, ModeCall(t, s)
  PROVE  /\ todo'[t] = s /\ s \in Seq(Steps)
         /\ \A u \in Threads : NoMode(todo[u])
         /\ \A u \in Threads : u # t => todo'[u] = todo[u] /\ NoMode(todo'[u])
         /\ UNCHANGED <<control, loc, hardware>>
         /\ CallOK(s, asked', pwmAsked')
<1>1. MayUse(t, "mode") /\ Begin(t, "mode", s) /\ CallOK(s, asked', pwmAsked')
  BY DEF ModeCall
<1>2. s \in Seq(Steps)
  BY <1>1 DEF CallOK, CallTyped
<1>3. /\ todo'[t] = s /\ UNCHANGED <<control, loc, hardware>>
      /\ \A u \in Threads : u # t => todo'[u] = todo[u]
  BY <1>1, <1>2, Called
<1>4. ASSUME NEW u \in Threads PROVE NoMode(todo[u])
  <2>1. doing[u] # "mode" /\ doing[u] \in {"idle", "setup", "mode", "level"}
    BY <1>1 DEF MayUse, TodoInv
  <2> QED
    BY <2>1 DEF NoMode, TodoInv, OpsOf, ModeOps, SetupOps
<1> QED
  BY <1>1, <1>2, <1>3, <1>4

\* One access of such a call, too.
LEMMA ModeStepped ==
  ASSUME TodoInv, OneMode, NEW t \in Threads, NEW op \in ModeOps, Access(t, op)
  PROVE  /\ Now(t) \in Steps /\ Now(t).op = op /\ Now(t) = todo[t][1] /\ 1 \in DOMAIN todo[t]
         /\ \A u \in Threads : u # t => todo'[u] = todo[u] /\ NoMode(todo[u])
         /\ todo'[t] \in Seq(Steps) /\ todo[t] \in Seq(Steps)
         /\ Ops(todo[t]) = {Now(t)} \cup Ops(todo'[t])
         /\ Len(todo[t]) \in Nat /\ Len(todo[t]) > 0 /\ Len(todo'[t]) = Len(todo[t]) - 1
         /\ \A i \in DOMAIN todo'[t] :
              /\ i \in Nat /\ i >= 1 /\ i + 1 \in DOMAIN todo[t] /\ todo'[t][i] = todo[t][i + 1]
              /\ i > 1 => todo'[t][i - 1] = todo[t][i]
         /\ UNCHANGED <<asked, pwmAsked>>
<1>1. /\ Now(t) \in Steps /\ Now(t).op = op /\ Now(t) = todo[t][1]
      /\ op \in OpsOf(doing[t])
      /\ \A u \in Threads : u # t => todo'[u] = todo[u]
      /\ todo'[t] \in Seq(Steps) /\ Ops(todo[t]) = {Now(t)} \cup Ops(todo'[t])
      /\ Len(todo[t]) \in Nat /\ Len(todo[t]) > 0 /\ Len(todo'[t]) = Len(todo[t]) - 1
      /\ DOMAIN todo[t] = 1 .. Len(todo[t]) /\ DOMAIN todo'[t] = 1 .. Len(todo[t]) - 1
      /\ \A i \in DOMAIN todo'[t] : todo'[t][i] = todo[t][i + 1]
      /\ UNCHANGED <<asked, pwmAsked>>
  BY Accessed, SMTT(40)
<1>2. doing[t] = "mode"
  BY <1>1, Zenon DEF OpsOf, ModeOps, SetupOps, TodoInv
<1>3. ASSUME NEW u \in Threads, u # t PROVE NoMode(todo[u])
  <2>1. doing[u] # "mode" /\ doing[u] \in {"idle", "setup", "mode", "level"}
    BY <1>2, <1>3 DEF OneMode, TodoInv
  <2> QED
    BY <2>1 DEF NoMode, TodoInv, OpsOf, ModeOps, SetupOps
<1> DEFINE f == todo[t]
           g == todo'[t]
           n == Len(f)
<1>4. n \in Nat /\ n > 0 /\ DOMAIN f = 1 .. n /\ DOMAIN g = 1 .. n - 1 /\ \A i \in DOMAIN g : g[i] = f[i + 1]
  BY <1>1
<1> HIDE DEF f, g, n
<1>5. \A i \in DOMAIN g : /\ i \in Nat /\ i >= 1 /\ i + 1 \in DOMAIN f /\ g[i] = f[i + 1]
                          /\ i > 1 => g[i - 1] = f[i]
  <2> SUFFICES ASSUME NEW i \in 1 .. n - 1
               PROVE  /\ i \in Nat /\ i >= 1 /\ i + 1 \in 1 .. n /\ g[i] = f[i + 1]
                      /\ i > 1 => g[i - 1] = f[i]
    BY <1>4
  <2>1. i \in Nat /\ i >= 1 /\ i + 1 \in 1 .. n /\ g[i] = f[i + 1]
    BY <1>4
  <2>2. ASSUME i > 1 PROVE g[i - 1] = f[i]
    <3>1. i - 1 \in DOMAIN g /\ (i - 1) + 1 = i
      BY <2>2, <1>4
    <3> QED
      BY <3>1, <1>4
  <2> QED
    BY <2>1, <2>2
<1>6. 1 \in DOMAIN f
  BY <1>4
<1>7. todo[t] \in Seq(Steps)
  BY DEF TodoInv
<1> QED
  BY <1>1, <1>3, <1>5, <1>6, <1>7 DEF f, g

LEMMA ModeCases ==
  ASSUME Serial, TypeInv, SetupInv, OneMode, [GpioNext]_gpioVars
  PROVE  \/ Aside
         \/ \E t \in Threads : \E s : ModeCall(t, s)
         \/ \E t \in Threads : ModeStep(t)
         \/ ClockStops
<1>0. TodoInv /\ Main \in Threads
  BY GpioAssumption DEF TypeInv
<1>1. ASSUME NEW k \in Kinds, Setup(k) PROVE Aside
  <2>1. /\ todo[Main] = <<>> /\ \A o \in Ops(todo'[Main]) : o.op \in SetupOps
        /\ \A u \in Threads : u # Main => todo'[u] = todo[u]
        /\ UNCHANGED <<control, loc, hardware, asked, pwmAsked>>
    BY <1>0, <1>1, SetupCalled
  <2>2. NoMode(todo[Main]) /\ NoMode(todo'[Main])
    BY <2>1, EmptyNoMode DEF NoMode, SetupOps, ModeOps
  <2> QED
    BY <2>1, <2>2 DEF Aside, control, hardware
<1>2. ASSUME NEW t \in Threads, NEW s, LevelCall(t, s) PROVE Aside
  <2>1. /\ MayUse(t, "level") /\ Begin(t, "level", s) /\ s \in Seq(Steps)
        /\ \A o \in Ops(s) : o.op \in {"set", "clear"}
        /\ \A p \in Gpios : asked'[p].fsel = asked[p].fsel /\ asked'[p].pull = asked[p].pull
        /\ pwmAsked' = pwmAsked
    BY <1>2 DEF LevelCall, LevelCallOK
  <2>2. /\ todo[t] = <<>> /\ todo'[t] = s /\ UNCHANGED <<control, loc, hardware>>
        /\ \A u \in Threads : u # t => todo'[u] = todo[u]
    BY <1>0, <2>1, Called
  <2>3. NoMode(todo[t]) /\ NoMode(todo'[t])
    BY <2>1, <2>2, EmptyNoMode DEF NoMode, ModeOps
  <2> QED
    BY <2>1, <2>2, <2>3 DEF Aside, control, hardware
<1>3. ASSUME NEW t \in Threads, NEW op, Access(t, op), op \in SetupOps \cup {"set", "clear"}
      PROVE  /\ UNCHANGED <<asked, pwmAsked>>
             /\ \A u \in Threads : todo'[u] = todo[u] \/ (NoMode(todo[u]) /\ NoMode(todo'[u]))
             /\ op \in SetupOps => doing[t] = "setup"
  <2>1. /\ op \in OpsOf(doing[t]) /\ Ops(todo[t]) = {Now(t)} \cup Ops(todo'[t])
        /\ \A u \in Threads : u # t => todo'[u] = todo[u]
        /\ UNCHANGED <<asked, pwmAsked>>
    BY <1>0, <1>3, Accessed
  <2>2. doing[t] \in {"setup", "level"} /\ (op \in SetupOps => doing[t] = "setup")
    BY <1>0, <1>3, <2>1 DEF OpsOf, SetupOps, ModeOps, TodoInv
  <2>3. NoMode(todo[t])
    BY <1>0, <2>2 DEF NoMode, TodoInv, OpsOf, ModeOps, SetupOps
  <2>4. NoMode(todo'[t])
    BY <2>1, <2>3 DEF NoMode
  <2> QED
    BY <2>1, <2>2, <2>3, <2>4
<1>4. ASSUME NEW t \in Threads, WriteLevel(t) PROVE Aside
  <2>1. UNCHANGED <<control, loc, fsel, gppud, pull, reg, clk, div, saved>>
    BY <1>4 DEF WriteLevel
  <2>2. PICK op \in {"set", "clear"} : Access(t, op)
    BY <1>4 DEF WriteLevel
  <2> QED
    BY <1>3, <2>1, <2>2 DEF Aside, control
<1>5. ASSUME NEW t \in Threads, StoreNumbering(t) \/ OpenOrMap(t) PROVE Aside
  <2>1. UNCHANGED <<loc, hardware>>
    BY <1>5 DEF StoreNumbering, OpenOrMap
  <2>2. PICK op \in SetupOps : Access(t, op)
    BY <1>5 DEF StoreNumbering, OpenOrMap, SetupOps
  <2>3. doing[t] = "setup"
    BY <1>3, <2>2
  <2>4. \A p \in Gpios : asked[p].fsel = 0
    BY <2>3 DEF SetupInv, SetUp
  <2> QED
    BY <1>3, <2>1, <2>2, <2>4 DEF Aside, hardware
<1>6. ASSUME NEW t \in Threads, SetupFails(t) PROVE Aside
  <2>1. /\ doing[t] = "setup" /\ Ops(todo'[t]) \subseteq Ops(todo[t])
        /\ \A u \in Threads : u # t => todo'[u] = todo[u]
        /\ UNCHANGED <<numbering, loc, hardware, asked, pwmAsked>>
    BY <1>0, <1>6, SetupFailed
  <2>2. NoMode(todo[t])
    BY <1>0, <2>1 DEF NoMode, TodoInv, OpsOf, ModeOps, SetupOps
  <2>3. NoMode(todo'[t])
    BY <2>1, <2>2 DEF NoMode
  <2> QED
    BY <2>1, <2>2, <2>3 DEF Aside, hardware
<1>7. ASSUME UNCHANGED gpioVars PROVE Aside
  BY <1>7 DEF gpioVars, control, hardware, Aside
<1> QED
  BY <1>1, <1>2, <1>4, <1>5, <1>6, <1>7, Cases DEF Step, ModeStep

-----------------------------------------------------------------------------
(* Function select.                                                        *)

\* Accesses that leave the words alone, those read included.
LEMMA FselPops ==
  ASSUME TodoInv, OneMode, FselInv, NEW t \in Threads, NEW op \in ModeOps \ {"writeFsel"}, Access(t, op),
         UNCHANGED fsel,
         IF op = "readFsel" THEN \A q \in Word(Now(t).pin) : loc'[t][q] = fsel[q] ELSE TRUE
  PROVE  FselInv'
<1>1. /\ Now(t).op = op /\ Now(t) = todo[t][1]
      /\ \A u \in Threads : u # t => todo'[u] = todo[u] /\ NoMode(todo[u])
      /\ Ops(todo[t]) = {Now(t)} \cup Ops(todo'[t])
      /\ \A i \in DOMAIN todo'[t] :
           /\ i \in Nat /\ i >= 1 /\ i + 1 \in DOMAIN todo[t] /\ todo'[t][i] = todo[t][i + 1]
           /\ i > 1 => todo'[t][i - 1] = todo[t][i]
      /\ UNCHANGED asked
  BY ModeStepped
<1>2. ASSUME NEW u \in Threads, NEW i \in DOMAIN todo'[u], todo'[u][i].op = "writeFsel"
      PROVE  LET p == todo'[u][i].pin
             IN  /\ todo'[u][i].value = asked'[p].fsel
                 /\ IF i = 1 THEN \A q \in Word(p) : loc'[u][q] = fsel'[q]
                    ELSE todo'[u][i - 1] = ReadFsel(p)
  <2>1. u = t
    BY <1>1, <1>2 DEF NoMode, Ops, ModeOps
  <2> DEFINE o == todo[t][i + 1]
  <2>2. i \in Nat /\ i >= 1 /\ i + 1 \in DOMAIN todo[t] /\ todo'[t][i] = o /\ (i > 1 => todo'[t][i - 1] = todo[t][i])
    BY <1>1, <1>2, <2>1
  <2>3. o.op = "writeFsel" /\ o.value = asked[o.pin].fsel /\ todo[t][(i + 1) - 1] = ReadFsel(o.pin)
    BY <1>2, <2>1, <2>2 DEF FselInv
  <2>4. (i + 1) - 1 = i
    BY <2>2
  <2>5. CASE i = 1
    <3>1. Now(t) = ReadFsel(o.pin)
      BY <1>1, <2>3, <2>4, <2>5
    <3>2. op = "readFsel" /\ Now(t).pin = o.pin
      BY <3>1, <1>1 DEF ReadFsel
    <3> QED
      BY <3>2, <1>1, <2>1, <2>2, <2>3, <2>5
  <2>6. CASE i # 1
    BY <1>1, <2>1, <2>2, <2>3, <2>4, <2>6
  <2> QED
    BY <2>5, <2>6
<1>3. ASSUME NEW p \in Gpios
      PROVE  fsel'[p] = asked'[p].fsel
               \/ \E u \in Threads : \E o \in Ops(todo'[u]) : o.op = "writeFsel" /\ o.pin = p
  <2>1. CASE fsel[p] = asked[p].fsel
    BY <2>1, <1>1
  <2>2. CASE fsel[p] # asked[p].fsel
    <3>u. PICK u \in Threads : \E o \in Ops(todo[u]) : o.op = "writeFsel" /\ o.pin = p
      BY <2>2 DEF FselInv
    <3>1. PICK o \in Ops(todo[u]) : o.op = "writeFsel" /\ o.pin = p
      BY <3>u
    <3>2. o \in Ops(todo'[u])
      BY <3>1, <1>1
    <3> QED
      BY <3>1, <3>2
  <2> QED
    BY <2>1, <2>2
<1> QED
  BY <1>2, <1>3 DEF FselInv, Ops

LEMMA FselKept == Serial /\ TypeInv /\ SetupInv /\ OneMode /\ FselInv /\ [GpioNext]_gpioVars => FselInv'
<1> SUFFICES ASSUME Serial, TypeInv, SetupInv, OneMode, FselInv, [GpioNext]_gpioVars PROVE FselInv'
  OBVIOUS
<1>0. TodoInv /\ loc \in [Threads -> [Gpios -> 0 .. 7]]
  BY DEF TypeInv, ValuesInv
<1>1. ASSUME Aside PROVE FselInv'
  <2>1. ASSUME NEW u \in Threads, NEW i \in DOMAIN todo'[u], todo'[u][i].op = "writeFsel"
        PROVE  LET p == todo'[u][i].pin
               IN  /\ todo'[u][i].value = asked'[p].fsel
                   /\ IF i = 1 THEN \A q \in Word(p) : loc'[u][q] = fsel'[q]
                      ELSE todo'[u][i - 1] = ReadFsel(p)
    <3>1. todo'[u][i] \in Ops(todo'[u]) /\ todo'[u] = todo[u]
      BY <1>1, <2>1 DEF Aside, NoMode, ModeOps, Ops
    <3>2. todo[u][i].pin \in Gpios
      <4>1. todo[u][i] \in Steps
        BY <1>0, <2>1, <3>1 DEF TodoInv
      <4> QED
        BY <4>1, <3>1, <2>1, Fields
    <3> QED
      BY <1>1, <2>1, <3>1, <3>2 DEF FselInv, Aside
  <2>2. ASSUME NEW p \in Gpios
        PROVE  fsel'[p] = asked'[p].fsel
                 \/ \E u \in Threads : \E o \in Ops(todo'[u]) : o.op = "writeFsel" /\ o.pin = p
    BY <1>1 DEF FselInv, Aside, NoMode, ModeOps
  <2> QED
    BY <2>1, <2>2 DEF FselInv, Ops
<1>2. ASSUME NEW t \in Threads, NEW s, ModeCall(t, s) PROVE FselInv'
  <2>1. /\ todo'[t] = s /\ \A u \in Threads : NoMode(todo[u])
        /\ \A u \in Threads : u # t => NoMode(todo'[u])
        /\ fsel' = fsel
    BY <1>0, <1>2, ModeCalled DEF hardware
  <2>2. FselCall(s, asked')
    BY <1>2 DEF ModeCall, CallOK
  <2>3. ASSUME NEW u \in Threads, NEW i \in DOMAIN todo'[u], todo'[u][i].op = "writeFsel"
        PROVE  i # 1 /\ todo'[u][i].value = asked'[todo'[u][i].pin].fsel
               /\ todo'[u][i - 1] = ReadFsel(todo'[u][i].pin)
    <3>1. u = t
      BY <2>1, <2>3 DEF NoMode, Ops, ModeOps
    <3> QED
      BY <2>1, <2>2, <2>3, <3>1 DEF FselCall
  <2>4. ASSUME NEW p \in Gpios
        PROVE  fsel'[p] = asked'[p].fsel
                 \/ \E u \in Threads : \E o \in Ops(todo'[u]) : o.op = "writeFsel" /\ o.pin = p
    <3>1. fsel[p] = asked[p].fsel
      BY <2>1 DEF FselInv, NoMode, ModeOps
    <3> QED
      BY <2>1, <2>2, <3>1 DEF FselCall
  <2> QED
    BY <2>3, <2>4 DEF FselInv, Ops
<1>3. ASSUME NEW t \in Threads, ReadWord(t) PROVE FselInv'
  <2>1. Access(t, "readFsel") /\ fsel' = fsel
        /\ loc' = [loc EXCEPT ![t] = [p \in Gpios |-> IF p \in Word(Now(t).pin) THEN fsel[p] ELSE FSEL_INPT]]
    BY <1>3 DEF ReadWord, hardware
  <2>2. \A q \in Word(Now(t).pin) : loc'[t][q] = fsel[q]
    BY <1>0, <2>1 DEF Word
  <2> QED
    BY <1>0, <2>1, <2>2, FselPops DEF ModeOps
<1>4. ASSUME NEW t \in Threads, WriteWord(t) PROVE FselInv'
  <2>1. /\ Access(t, "writeFsel")
        /\ fsel' = [p \in Gpios |-> IF p = Now(t).pin THEN Now(t).value
                                    ELSE IF p \in Word(Now(t).pin) THEN loc[t][p] ELSE fsel[p]]
    BY <1>4 DEF WriteWord
  <2>2. /\ Now(t).op = "writeFsel" /\ Now(t) = todo[t][1] /\ 1 \in DOMAIN todo[t]
        /\ \A u \in Threads : u # t => todo'[u] = todo[u] /\ NoMode(todo[u])
        /\ Ops(todo[t]) = {Now(t)} \cup Ops(todo'[t])
        /\ \A i \in DOMAIN todo'[t] :
             /\ i \in Nat /\ i >= 1 /\ i + 1 \in DOMAIN todo[t] /\ todo'[t][i] = todo[t][i + 1]
             /\ i > 1 => todo'[t][i - 1] = todo[t][i]
        /\ UNCHANGED asked
    BY <1>0, <2>1, ModeStepped DEF ModeOps
  <2>3. Now(t).value = asked[Now(t).pin].fsel /\ \A q \in Word(Now(t).pin) : loc[t][q] = fsel[q]
    BY <2>2 DEF FselInv
  <2>4. ASSUME NEW p \in Gpios PROVE fsel'[p] = IF p = Now(t).pin THEN asked[p].fsel ELSE fsel[p]
    BY <2>1, <2>3
  <2>5. ASSUME NEW u \in Threads, NEW i \in DOMAIN todo'[u], todo'[u][i].op = "writeFsel"
        PROVE  i # 1 /\ todo'[u][i].value = asked'[todo'[u][i].pin].fsel
               /\ todo'[u][i - 1] = ReadFsel(todo'[u][i].pin)
    <3>1. u = t
      BY <2>2, <2>5 DEF NoMode, Ops, ModeOps
    <3> DEFINE o == todo[t][i + 1]
    <3>2. i \in Nat /\ i >= 1 /\ i + 1 \in DOMAIN todo[t] /\ todo'[t][i] = o /\ (i > 1 => todo'[t][i - 1] = todo[t][i])
      BY <2>2, <2>5, <3>1
    <3>3. o.op = "writeFsel" /\ o.value = asked[o.pin].fsel /\ todo[t][(i + 1) - 1] = ReadFsel(o.pin)
      BY <2>5, <3>1, <3>2 DEF FselInv
    <3>4. (i + 1) - 1 = i
      BY <3>2
    <3>5. i # 1
      BY <3>3, <3>4, <2>2 DEF ReadFsel
    <3> QED
      BY <2>2, <3>1, <3>2, <3>3, <3>4, <3>5
  <2>6. ASSUME NEW p \in Gpios
        PROVE  fsel'[p] = asked'[p].fsel
                 \/ \E u \in Threads : \E o \in Ops(todo'[u]) : o.op = "writeFsel" /\ o.pin = p
    <3>1. CASE p = Now(t).pin \/ fsel[p] = asked[p].fsel
      BY <3>1, <2>2, <2>4
    <3>2. CASE ~(p = Now(t).pin \/ fsel[p] = asked[p].fsel)
      <4>u. PICK u \in Threads : \E o \in Ops(todo[u]) : o.op = "writeFsel" /\ o.pin = p
        BY <3>2 DEF FselInv
      <4>1. PICK o \in Ops(todo[u]) : o.op = "writeFsel" /\ o.pin = p
        BY <4>u
      <4>2. o \in Ops(todo'[u])
        BY <3>2, <4>1, <2>2
      <4> QED
        BY <4>1, <4>2
    <3> QED
      BY <3>1, <3>2
  <2> QED
    BY <2>5, <2>6 DEF FselInv, Ops
<1>5. ASSUME NEW t \in Threads, PullAccess(t) \/ PwmAccess(t) \/ ClockAccess(t) PROVE FselInv'
  <2>1. PICK op \in ModeOps \ {"writeFsel", "readFsel"} : Access(t, op)
    BY <1>5 DEF PullAccess, PwmAccess, ClockAccess, ModeOps
  <2>2. UNCHANGED <<fsel, loc>>
    BY <1>5 DEF PullAccess, PwmAccess, ClockAccess
  <2> QED
    BY <1>0, <2>1, <2>2, FselPops
<1>6. ASSUME ClockStops PROVE FselInv'
  BY <1>6 DEF ClockStops, FselInv, Ops
<1> QED
  BY <1>1, <1>2, <1>3, <1>4, <1>5, <1>6, ModeCases DEF ModeStep

-----------------------------------------------------------------------------
(* Pulls, and divisors.                                                    *)

LEMMA PullPops ==
  ASSUME TodoInv, OneMode, PullInv, NEW t \in Threads, NEW op \in ModeOps, Access(t, op),
         gppud' = IF op = "pud" THEN Now(t).value ELSE gppud,
         \A p \in Gpios : pull'[p] = IF op = "pudclk" /\ p \in Now(t).pins THEN gppud ELSE pull[p]
  PROVE  PullInv'
<1>1. /\ Now(t).op = op /\ Now(t) = todo[t][1] /\ 1 \in DOMAIN todo[t]
      /\ \A u \in Threads : u # t => todo'[u] = todo[u] /\ NoMode(todo[u])
      /\ Ops(todo[t]) = {Now(t)} \cup Ops(todo'[t])
      /\ \A i \in DOMAIN todo'[t] :
           /\ i \in Nat /\ i >= 1 /\ i + 1 \in DOMAIN todo[t] /\ todo'[t][i] = todo[t][i + 1]
           /\ i > 1 => todo'[t][i - 1] = todo[t][i]
      /\ UNCHANGED asked
  BY ModeStepped
<1>2. ASSUME NEW u \in Threads, NEW i \in DOMAIN todo'[u], todo'[u][i].op = "pudclk",
             NEW p \in todo'[u][i].pins \cap Gpios
      PROVE  IF i = 1 THEN gppud' = asked'[p].pull ELSE todo'[u][i - 1] = WritePud(asked'[p].pull)
  <2>1. u = t
    BY <1>1, <1>2 DEF NoMode, Ops, ModeOps
  <2> DEFINE o == todo[t][i + 1]
  <2>2. i \in Nat /\ i >= 1 /\ i + 1 \in DOMAIN todo[t] /\ todo'[t][i] = o /\ (i > 1 => todo'[t][i - 1] = todo[t][i])
    BY <1>1, <1>2, <2>1
  <2>3. o.op = "pudclk" /\ p \in o.pins \cap Gpios
    BY <1>2, <2>1, <2>2
  <2>4. todo[t][(i + 1) - 1] = WritePud(asked[p].pull)
    BY <2>2, <2>3 DEF PullInv
  <2>5. (i + 1) - 1 = i
    BY <2>2
  <2>6. CASE i = 1
    <3>1. Now(t) = WritePud(asked[p].pull)
      BY <1>1, <2>4, <2>5, <2>6
    <3>2. op = "pud" /\ Now(t).value = asked[p].pull
      BY <3>1, <1>1 DEF WritePud
    <3> QED
      BY <3>2, <1>1, <2>6
  <2>7. CASE i # 1
    BY <1>1, <2>1, <2>2, <2>4, <2>5, <2>7
  <2> QED
    BY <2>6, <2>7
<1>3. ASSUME NEW p \in Gpios
      PROVE  pull'[p] = asked'[p].pull
               \/ \E u \in Threads : \E o \in Ops(todo'[u]) : o.op = "pudclk" /\ p \in o.pins
  <2>1. CASE op = "pudclk" /\ p \in Now(t).pins
    BY <2>1, <1>1 DEF PullInv
  <2>2. CASE ~(op = "pudclk" /\ p \in Now(t).pins)
    <3>1. pull'[p] = pull[p] /\ asked'[p] = asked[p]
      BY <2>2, <1>1
    <3>2. CASE pull[p] = asked[p].pull
      BY <3>1, <3>2
    <3>3. CASE pull[p] # asked[p].pull
      <4>1. PICK u \in Threads : \E o \in Ops(todo[u]) : o.op = "pudclk" /\ p \in o.pins
        BY <3>3 DEF PullInv
      <4>2. PICK o \in Ops(todo[u]) : o.op = "pudclk" /\ p \in o.pins
        BY <4>1
      <4>3. o \in Ops(todo'[u])
        BY <2>2, <4>2, <1>1
      <4> QED
        BY <4>2, <4>3
    <3> QED
      BY <3>2, <3>3
  <2> QED
    BY <2>1, <2>2
<1> QED
  BY <1>2, <1>3 DEF PullInv, Ops

LEMMA PullKept == Serial /\ TypeInv /\ SetupInv /\ OneMode /\ PullInv /\ [GpioNext]_gpioVars => PullInv'
<1> SUFFICES ASSUME Serial, TypeInv, SetupInv, OneMode, PullInv, [GpioNext]_gpioVars PROVE PullInv'
  OBVIOUS
<1>0. TodoInv /\ pull \in [Gpios -> 0 .. 3]
  BY DEF TypeInv, ValuesInv
<1>1. ASSUME Aside PROVE PullInv'
  <2>1. ASSUME NEW u \in Threads, NEW i \in DOMAIN todo'[u], todo'[u][i].op = "pudclk",
               NEW p \in todo'[u][i].pins \cap Gpios
        PROVE  IF i = 1 THEN gppud' = asked'[p].pull ELSE todo'[u][i - 1] = WritePud(asked'[p].pull)
    <3>1. todo'[u][i] \in Ops(todo'[u]) /\ todo'[u] = todo[u]
      BY <1>1, <2>1 DEF Aside, NoMode, ModeOps, Ops
    <3> QED
      BY <1>1, <2>1, <3>1 DEF PullInv, Aside
  <2>2. ASSUME NEW p \in Gpios
        PROVE  pull'[p] = asked'[p].pull
                 \/ \E u \in Threads : \E o \in Ops(todo'[u]) : o.op = "pudclk" /\ p \in o.pins
    BY <1>1 DEF PullInv, Aside, NoMode, ModeOps
  <2> QED
    BY <2>1, <2>2 DEF PullInv, Ops
<1>2. ASSUME NEW t \in Threads, NEW s, ModeCall(t, s) PROVE PullInv'
  <2>1. /\ todo'[t] = s /\ \A u \in Threads : NoMode(todo[u])
        /\ \A u \in Threads : u # t => NoMode(todo'[u])
        /\ pull' = pull
    BY <1>0, <1>2, ModeCalled DEF hardware
  <2>2. PullCall(s, asked')
    BY <1>2 DEF ModeCall, CallOK
  <2>3. ASSUME NEW u \in Threads, NEW i \in DOMAIN todo'[u], todo'[u][i].op = "pudclk",
               NEW p \in todo'[u][i].pins \cap Gpios
        PROVE  i # 1 /\ todo'[u][i - 1] = WritePud(asked'[p].pull)
    <3>1. u = t
      BY <2>1, <2>3 DEF NoMode, Ops, ModeOps
    <3> QED
      BY <2>1, <2>2, <2>3, <3>1 DEF PullCall
  <2>4. ASSUME NEW p \in Gpios
        PROVE  pull'[p] = asked'[p].pull
                 \/ \E u \in Threads : \E o \in Ops(todo'[u]) : o.op = "pudclk" /\ p \in o.pins
    <3>1. pull[p] = asked[p].pull
      BY <2>1 DEF PullInv, NoMode, ModeOps
    <3> QED
      BY <2>1, <2>2, <3>1 DEF PullCall
  <2> QED
    BY <2>3, <2>4 DEF PullInv, Ops
<1>3. ASSUME NEW t \in Threads, PullAccess(t) PROVE PullInv'
  <2>1. CASE Access(t, "pud") /\ gppud' = Now(t).value /\ UNCHANGED pull
    BY <1>0, <2>1, PullPops DEF ModeOps
  <2>2. CASE /\ Access(t, "pudclk")
             /\ pull' = [p \in Gpios |-> IF p \in Now(t).pins THEN gppud ELSE pull[p]]
             /\ UNCHANGED gppud
    BY <1>0, <2>2, PullPops DEF ModeOps
  <2> QED
    BY <1>3, <2>1, <2>2 DEF PullAccess
<1>4. ASSUME NEW t \in Threads, ReadWord(t) \/ WriteWord(t) \/ PwmAccess(t) \/ ClockAccess(t) PROVE PullInv'
  <2>1. PICK op \in ModeOps \ {"pud", "pudclk"} : Access(t, op)
    BY <1>4 DEF ReadWord, WriteWord, PwmAccess, ClockAccess, ModeOps
  <2>2. UNCHANGED <<gppud, pull>>
    BY <1>4 DEF ReadWord, WriteWord, PwmAccess, ClockAccess, hardware
  <2> QED
    BY <1>0, <2>1, <2>2, PullPops
<1>5. ASSUME ClockStops PROVE PullInv'
  BY <1>5 DEF ClockStops, PullInv, Ops
<1> QED
  BY <1>1, <1>2, <1>3, <1>4, <1>5, ModeCases DEF ModeStep

LEMMA DividePops ==
  ASSUME TodoInv, OneMode, DivideInv, NEW t \in Threads, NEW op \in ModeOps, Access(t, op),
         op = "await" => clk[Now(t).clock] = "stop" /\ UNCHANGED clk
  PROVE  DivideInv'
<1>1. /\ Now(t).op = op /\ Now(t) = todo[t][1]
      /\ \A u \in Threads : u # t => todo'[u] = todo[u] /\ NoMode(todo[u])
      /\ \A i \in DOMAIN todo'[t] :
           /\ i \in Nat /\ i >= 1 /\ i + 1 \in DOMAIN todo[t] /\ todo'[t][i] = todo[t][i + 1]
           /\ i > 1 => todo'[t][i - 1] = todo[t][i]
  BY ModeStepped
<1>2. ASSUME NEW u \in Threads, NEW i \in DOMAIN todo'[u], todo'[u][i].op = "divide"
      PROVE  IF i = 1 THEN clk'[todo'[u][i].clock] = "stop"
             ELSE todo'[u][i - 1] = AwaitClock(todo'[u][i].clock)
  <2>1. u = t
    BY <1>1, <1>2 DEF NoMode, Ops, ModeOps
  <2> DEFINE o == todo[t][i + 1]
  <2>2. i \in Nat /\ i >= 1 /\ i + 1 \in DOMAIN todo[t] /\ todo'[t][i] = o /\ (i > 1 => todo'[t][i - 1] = todo[t][i])
    BY <1>1, <1>2, <2>1
  <2>3. o.op = "divide" /\ todo[t][(i + 1) - 1] = AwaitClock(o.clock)
    BY <1>2, <2>1, <2>2 DEF DivideInv
  <2>4. (i + 1) - 1 = i
    BY <2>2
  <2>5. CASE i = 1
    <3>1. Now(t) = AwaitClock(o.clock)
      BY <1>1, <2>3, <2>4, <2>5
    <3>2. op = "await" /\ Now(t).clock = o.clock
      BY <3>1, <1>1 DEF AwaitClock
    <3> QED
      BY <3>2, <2>1, <2>2, <2>5
  <2>6. CASE i # 1
    BY <2>1, <2>2, <2>3, <2>4, <2>6
  <2> QED
    BY <2>5, <2>6
<1> QED
  BY <1>2 DEF DivideInv

LEMMA DivideKept == Serial /\ TypeInv /\ SetupInv /\ OneMode /\ DivideInv /\ [GpioNext]_gpioVars => DivideInv'
<1> SUFFICES ASSUME Serial, TypeInv, SetupInv, OneMode, DivideInv, [GpioNext]_gpioVars PROVE DivideInv'
  OBVIOUS
<1>0. TodoInv /\ clk \in [Clocks -> {"stop", "stopping", "run"}]
  BY DEF TypeInv, ValuesInv
<1>1. ASSUME Aside PROVE DivideInv'
  <2>1. ASSUME NEW u \in Threads, NEW i \in DOMAIN todo'[u], todo'[u][i].op = "divide"
        PROVE  todo'[u] = todo[u]
    BY <1>1, <2>1 DEF Aside, NoMode, ModeOps, Ops
  <2> QED
    BY <1>1, <2>1 DEF DivideInv, Aside
<1>2. ASSUME NEW t \in Threads, NEW s, ModeCall(t, s) PROVE DivideInv'
  <2>1. todo'[t] = s /\ \A u \in Threads : u # t => NoMode(todo'[u])
    BY <1>0, <1>2, ModeCalled
  <2>2. DivideCall(s)
    BY <1>2 DEF ModeCall, CallOK
  <2>3. ASSUME NEW u \in Threads, NEW i \in DOMAIN todo'[u], todo'[u][i].op = "divide"
        PROVE  i # 1 /\ todo'[u][i - 1] = AwaitClock(todo'[u][i].clock)
    <3>1. u = t
      BY <2>1, <2>3 DEF NoMode, Ops, ModeOps
    <3> QED
      BY <2>1, <2>2, <2>3, <3>1 DEF DivideCall
  <2> QED
    BY <2>3 DEF DivideInv
<1>3. ASSUME NEW t \in Threads, ModeStep(t) PROVE DivideInv'
  <2>1. PICK op \in ModeOps : Access(t, op) /\ (op = "await" => clk[Now(t).clock] = "stop" /\ UNCHANGED clk)
    BY <1>3 DEF ModeStep, ReadWord, WriteWord, PullAccess, PwmAccess, ClockAccess, ModeOps
  <2> QED
    BY <1>0, <2>1, DividePops
<1>4. ASSUME ClockStops PROVE DivideInv'
  <2>1. todo' = todo /\ \A c : clk[c] = "stop" /\ c \in Clocks => clk'[c] = "stop"
    BY <1>0, <1>4 DEF ClockStops
  <2>2. \A u \in Threads : \A i \in DOMAIN todo[u] : todo[u][i].op = "divide" => todo[u][i].clock \in Clocks
    <3> SUFFICES ASSUME NEW u \in Threads, NEW i \in DOMAIN todo[u], todo[u][i].op = "divide"
                 PROVE  todo[u][i].clock \in Clocks
      OBVIOUS
    <3>1. todo[u][i] \in Steps
      BY <1>0 DEF TodoInv
    <3> QED
      BY <3>1, Fields
  <2> QED
    BY <2>1, <2>2 DEF DivideInv
<1> QED
  BY <1>1, <1>2, <1>3, <1>4, ModeCases

-----------------------------------------------------------------------------
(* PWM control.                                                            *)

\* What one access does to PWM_CONTROL and to what its thread has saved.
PwmEffect(t) ==
    /\ reg'[PWM_CONTROL] = IF Now(t).op = "write" /\ Now(t).reg = PWM_CONTROL THEN Now(t).value
                           ELSE IF Now(t).op = "restore" THEN saved[t] ELSE reg[PWM_CONTROL]
    /\ Now(t).op = "save" => saved'[t] = reg[PWM_CONTROL]
    /\ Now(t).op \notin {"save", "restore"} => saved'[t] = saved[t]

LEMMA PwmEffects ==
  ASSUME TypeInv, NEW t \in Threads, ModeStep(t)
  PROVE  PwmEffect(t) /\ \E op \in ModeOps : Access(t, op)
<1>0. /\ TodoInv /\ reg \in [Regs -> Int] /\ saved \in [Threads -> Int] /\ PWM_CONTROL \in Regs
  BY DEF TypeInv, ValuesInv, PWM_CONTROL, Regs
<1>1. ASSUME NEW op, Access(t, op) PROVE Now(t).op = op
  BY <1>1 DEF Access, Now
<1>2. CASE PwmAccess(t)
  <2>1. CASE Access(t, "write") /\ reg' = [reg EXCEPT ![Now(t).reg] = Now(t).value] /\ UNCHANGED saved
    BY <1>0, <1>1, <2>1 DEF PwmEffect, ModeOps
  <2>2. CASE Access(t, "save") /\ saved' = [saved EXCEPT ![t] = reg[PWM_CONTROL]] /\ UNCHANGED reg
    BY <1>0, <1>1, <2>2 DEF PwmEffect, ModeOps
  <2>3. CASE /\ Access(t, "restore")
             /\ reg' = [reg EXCEPT ![PWM_CONTROL] = saved[t]]
             /\ saved' = [saved EXCEPT ![t] = PwmOff]
    BY <1>0, <1>1, <2>3 DEF PwmEffect, ModeOps
  <2> QED
    BY <1>2, <2>1, <2>2, <2>3 DEF PwmAccess
<1>3. CASE ReadWord(t) \/ WriteWord(t) \/ PullAccess(t) \/ ClockAccess(t)
  <2>1. UNCHANGED <<reg, saved>>
    BY <1>3 DEF ReadWord, WriteWord, PullAccess, ClockAccess, hardware
  <2>2. PICK op \in ModeOps \ {"write", "save", "restore"} : Access(t, op)
    BY <1>3 DEF ReadWord, WriteWord, PullAccess, ClockAccess, ModeOps
  <2> QED
    BY <1>1, <2>1, <2>2 DEF PwmEffect
<1> QED
  BY <1>2, <1>3 DEF ModeStep

LEMMA LastOp ==
  ASSUME NEW s \in Seq(Steps), s # <<>>
  PROVE  FromEnd(s, 0) \in Ops(s)
<1>1. DOMAIN s = 1 .. Len(s) /\ Len(s) \in Nat /\ (\A i \in 1 .. Len(s) : s[i] \in Ops(s))
  BY OpAt
<1>2. Len(s) # 0
  BY EmptySeq
<1> QED
  BY <1>1, <1>2 DEF FromEnd

LEMMA ControlPops ==
  ASSUME TodoInv, OneMode, ControlInv, NEW t \in Threads, NEW op \in ModeOps, Access(t, op), PwmEffect(t)
  PROVE  ControlInv'
<1> DEFINE f == todo[t]
           g == todo'[t]
           n == Len(f)
           v == pwmAsked
<1>1. /\ Now(t).op = op /\ Now(t) = f[1]
      /\ \A u \in Threads : u # t => todo'[u] = todo[u] /\ NoMode(todo[u])
      /\ g \in Seq(Steps) /\ f \in Seq(Steps) /\ Ops(f) = {Now(t)} \cup Ops(g)
      /\ n \in Nat /\ n > 0 /\ Len(g) = n - 1
      /\ \A i \in DOMAIN g : g[i] = f[i + 1]
      /\ UNCHANGED <<asked, pwmAsked>>
  BY ModeStepped
<1>2. DOMAIN g = 1 .. n - 1 /\ (g = <<>> <=> n = 1)
  <2>1. DOMAIN g = 1 .. Len(g) /\ (g = <<>> <=> Len(g) = 0)
    <3> HIDE DEF g
    <3> QED
      BY <1>1, OpAt, EmptySeq
  <2> QED
    BY <1>1, <2>1
<1>3. /\ \A o \in Ops(f) : WritesControl(o) => WritesControl(FromEnd(f, 0))
      /\ FromEnd(f, 0).op = "restore" =>
           /\ Restores(f, v)
           /\ n \in 7 .. 9 => reg[PWM_CONTROL] = v
           /\ n < 7 => saved[t] = v
      /\ FromEnd(f, 0).op = "write" /\ FromEnd(f, 0).reg = PWM_CONTROL => FromEnd(f, 0).value = v
  <2>1. f # <<>>
    BY <1>1 DEF Access
  <2> QED
    BY <2>1 DEF ControlInv
<1>4. reg[PWM_CONTROL] = v \/ \E o \in Ops(f) : WritesControl(o)
  BY <1>1 DEF ControlInv, NoMode, WritesControl, ModeOps
<1>f. f = todo[t] /\ g = todo'[t] /\ v = pwmAsked
  OBVIOUS
<1> HIDE DEF f, g, v
<1>5. ASSUME NEW k \in 0 .. n - 2 PROVE FromEnd(g, k) = FromEnd(f, k)
  <2>1. n - 1 - k \in DOMAIN g
    BY <1>1, <1>2 DEF n
  <2>2. (n - 1 - k) + 1 = n - k
    BY <1>1
  <2>3. Len(g) = n - 1 /\ Len(f) = n
    BY <1>1
  <2> HIDE DEF n
  <2> QED
    BY <2>1, <2>2, <2>3, <1>1 DEF FromEnd
<1>6. FromEnd(f, n - 1) = Now(t)
  <2>1. n - (n - 1) = 1
    BY <1>1
  <2> QED
    BY <1>1, <2>1 DEF FromEnd
<1>n. Len(f) = n /\ Len(g) = n - 1
  BY <1>1
<1> HIDE DEF n
<1>7. g # <<>> => FromEnd(g, 0) = FromEnd(f, 0) /\ n > 1
  BY <1>1, <1>2, <1>5
<1>8. \A o \in Ops(g) : WritesControl(o) => WritesControl(FromEnd(g, 0))
  <2>1. g # <<>> \/ Ops(g) = {}
    BY Empty
  <2> QED
    BY <1>1, <1>3, <1>7, <2>1
<1>9. ASSUME g # <<>>, FromEnd(g, 0).op = "restore"
      PROVE  /\ Restores(g, v)
             /\ Len(g) \in 7 .. 9 => reg'[PWM_CONTROL] = v
             /\ Len(g) < 7 => saved'[t] = v
  <2>1. /\ Restores(f, v) /\ n > 1
        /\ n \in 7 .. 9 => reg[PWM_CONTROL] = v
        /\ n < 7 => saved[t] = v
    BY <1>3, <1>7, <1>9
  <2>2. /\ n <= 12
        /\ \A k \in 0 .. 11 : k < n => FromEnd(f, k).op = ControlOps[k]
        /\ \A k \in {7, 8} : k < n => FromEnd(f, k).reg # PWM_CONTROL
        /\ 9 < n => FromEnd(f, 9) = WriteReg(PWM_CONTROL, v)
    BY <2>1, <1>n DEF Restores
  <2>3. Restores(g, v)
    <3>1. n - 1 <= 12
      BY <1>1, <2>2
    <3>2. ASSUME NEW k \in 0 .. 11, k < n - 1 PROVE FromEnd(g, k).op = ControlOps[k] /\ k < n /\ FromEnd(g, k) = FromEnd(f, k)
      <4>1. k \in 0 .. n - 2 /\ k < n
        BY <1>1, <3>2
      <4> QED
        BY <4>1, <1>5, <2>2
    <3>3. ASSUME NEW k \in {7, 8}, k < n - 1 PROVE FromEnd(g, k).reg # PWM_CONTROL
      BY <3>2, <3>3, <2>2
    <3>4. 9 < n - 1 => FromEnd(g, 9) = WriteReg(PWM_CONTROL, v)
      BY <3>2, <2>2
    <3> QED
      BY <3>1, <3>2, <3>3, <3>4, <1>n DEF Restores
  <2>4. ASSUME n - 1 \in 7 .. 9 PROVE reg'[PWM_CONTROL] = v
    <3>1. n = 8 \/ n = 9 \/ n = 10
      BY <2>4, <1>1
    <3>2. CASE n = 10
      <4>1. Now(t) = WriteReg(PWM_CONTROL, v)
        BY <1>6, <2>2, <3>2
      <4> QED
        BY <4>1 DEF PwmEffect, WriteReg
    <3>3. CASE n = 8 \/ n = 9
      <4>1. n - 1 \in {7, 8} /\ n - 1 < n /\ n - 1 \in 0 .. 11 /\ n \in 7 .. 9
        BY <3>3
      <4>2. Now(t).reg # PWM_CONTROL /\ Now(t).op = ControlOps[n - 1]
        BY <4>1, <1>6, <2>2
      <4>3. Now(t).op = "write"
        BY <4>1, <4>2, ControlOpsAre
      <4> QED
        BY <4>1, <4>2, <4>3, <2>1 DEF PwmEffect
    <3> QED
      BY <3>1, <3>2, <3>3
  <2>5. ASSUME n - 1 < 7 PROVE saved'[t] = v
    <3>1. n \in 2 .. 7 /\ n - 1 < n /\ n - 1 \in 0 .. 11
      BY <2>1, <2>5, <1>1
    <3>2. Now(t).op = ControlOps[n - 1]
      BY <3>1, <1>6, <2>2
    <3>3. CASE n = 7
      <4>1. Now(t).op = "save" /\ reg[PWM_CONTROL] = v
        BY <3>2, <3>3, <2>1, ControlOpsAre
      <4> QED
        BY <4>1 DEF PwmEffect
    <3>4. CASE n # 7
      <4>1. n - 1 = 1 \/ n - 1 = 2 \/ n - 1 = 3 \/ n - 1 = 4 \/ n - 1 = 5
        BY <3>1, <3>4
      <4>2. Now(t).op \notin {"save", "restore"}
        BY <4>1, <3>2, ControlOpsAre
      <4>3. saved[t] = v
        BY <3>1, <3>4, <2>1
      <4> QED
        BY <4>2, <4>3 DEF PwmEffect
    <3> QED
      BY <3>3, <3>4
  <2> QED
    BY <2>3, <2>4, <2>5, <1>n
<1>10. g # <<>> /\ FromEnd(g, 0).op = "write" /\ FromEnd(g, 0).reg = PWM_CONTROL => FromEnd(g, 0).value = v
  BY <1>3, <1>7
<1>11. reg'[PWM_CONTROL] = v \/ \E o \in Ops(g) : WritesControl(o)
  <2> SUFFICES ASSUME \A o \in Ops(g) : ~WritesControl(o) PROVE reg'[PWM_CONTROL] = v
    OBVIOUS
  <2>1. CASE WritesControl(Now(t))
    <3>1. WritesControl(FromEnd(f, 0))
      BY <2>1, <1>1, <1>3
    <3>2. g = <<>>
      BY <3>1, <1>1, <1>7, LastOp
    <3>3. n = 1 /\ FromEnd(f, 0) = Now(t)
      BY <3>2, <1>2, <1>6
    <3>4. CASE Now(t).op = "restore"
      BY <3>3, <3>4, <1>3 DEF PwmEffect
    <3>5. CASE Now(t).op = "write" /\ Now(t).reg = PWM_CONTROL
      BY <3>3, <3>5, <1>3 DEF PwmEffect
    <3> QED
      BY <2>1, <3>4, <3>5 DEF WritesControl
  <2>2. CASE ~WritesControl(Now(t))
    <3>1. reg[PWM_CONTROL] = v
      BY <2>2, <1>1, <1>4
    <3> QED
      BY <2>2, <3>1 DEF PwmEffect, WritesControl
  <2> QED
    BY <2>1, <2>2
<1>12. ASSUME NEW u \in Threads, u # t PROVE \A o \in Ops(todo'[u]) : ~WritesControl(o) /\ o.op \notin {"restore", "write"}
  BY <1>1, <1>12, <1>f DEF NoMode, WritesControl, ModeOps
<1>13. ASSUME NEW u \in Threads, u # t, todo'[u] # <<>> PROVE FromEnd(todo'[u], 0).op \notin {"restore", "write"}
  <2>1. todo'[u] \in Seq(Steps)
    BY <1>1, <1>13, <1>f DEF TodoInv
  <2> QED
    BY <2>1, <1>12, <1>13, LastOp
<1> QED
  <2>1. \A u \in Threads : \A o \in Ops(todo'[u]) : WritesControl(o) => WritesControl(FromEnd(todo'[u], 0))
    BY <1>8, <1>12, <1>f
  <2>2. ASSUME NEW u \in Threads, todo'[u] # <<>>
        PROVE  /\ FromEnd(todo'[u], 0).op = "restore" =>
                    /\ Restores(todo'[u], pwmAsked')
                    /\ Len(todo'[u]) \in 7 .. 9 => reg'[PWM_CONTROL] = pwmAsked'
                    /\ Len(todo'[u]) < 7 => saved'[u] = pwmAsked'
               /\ FromEnd(todo'[u], 0).op = "write" /\ FromEnd(todo'[u], 0).reg = PWM_CONTROL =>
                    FromEnd(todo'[u], 0).value = pwmAsked'
    <3>1. CASE u # t
      BY <3>1, <2>2, <1>13
    <3>2. CASE u = t
      BY <3>2, <2>2, <1>1, <1>9, <1>10, <1>f
    <3> QED
      BY <3>1, <3>2
  <2>3. reg'[PWM_CONTROL] = pwmAsked' \/ \E u \in Threads : \E o \in Ops(todo'[u]) : WritesControl(o)
    BY <1>1, <1>11, <1>f
  <2> QED
    BY <2>1, <2>2, <2>3 DEF ControlInv, Ops, FromEnd, Restores, WritesControl

LEMMA ControlKept ==
  Serial /\ TypeInv /\ SetupInv /\ OneMode /\ ControlInv /\ [GpioNext]_gpioVars => ControlInv'
<1> SUFFICES ASSUME Serial, TypeInv, SetupInv, OneMode, ControlInv, [GpioNext]_gpioVars PROVE ControlInv'
  OBVIOUS
<1>0. TodoInv
  BY DEF TypeInv
<1>a. ASSUME NEW s \in Seq(Steps), NoMode(s)
      PROVE  /\ \A o \in Ops(s) : ~WritesControl(o)
             /\ s # <<>> => FromEnd(s, 0).op \notin {"restore", "write"}
  BY <1>a, LastOp DEF NoMode, WritesControl, ModeOps
<1>1. ASSUME Aside PROVE ControlInv'
  <2>1. UNCHANGED <<reg, saved, pwmAsked>>
    BY <1>1 DEF Aside
  <2>2. ASSUME NEW u \in Threads
        PROVE  /\ todo'[u] = todo[u] \/ (NoMode(todo[u]) /\ NoMode(todo'[u]))
               /\ todo[u] \in Seq(Steps) /\ todo'[u] \in Seq(Steps)
    <3>1. TodoInv'
      BY TodoKept
    <3> QED
      BY <1>0, <1>1, <3>1 DEF Aside, TodoInv
  <2>3. \A u \in Threads : \A o \in Ops(todo'[u]) : WritesControl(o) => WritesControl(FromEnd(todo'[u], 0))
    BY <1>a, <2>2 DEF ControlInv
  <2>4. ASSUME NEW u \in Threads, todo'[u] # <<>>
        PROVE  /\ FromEnd(todo'[u], 0).op = "restore" =>
                    /\ Restores(todo'[u], pwmAsked')
                    /\ Len(todo'[u]) \in 7 .. 9 => reg'[PWM_CONTROL] = pwmAsked'
                    /\ Len(todo'[u]) < 7 => saved'[u] = pwmAsked'
               /\ FromEnd(todo'[u], 0).op = "write" /\ FromEnd(todo'[u], 0).reg = PWM_CONTROL =>
                    FromEnd(todo'[u], 0).value = pwmAsked'
    <3>1. CASE todo'[u] = todo[u]
      BY <2>1, <2>4, <3>1 DEF ControlInv
    <3>2. CASE todo'[u] # todo[u]
      BY <2>2, <2>4, <3>2, <1>a
    <3> QED
      BY <3>1, <3>2
  <2>5. reg'[PWM_CONTROL] = pwmAsked' \/ \E u \in Threads : \E o \in Ops(todo'[u]) : WritesControl(o)
    BY <2>1, <2>2, <1>a DEF ControlInv
  <2> QED
    BY <2>3, <2>4, <2>5 DEF ControlInv, Ops, FromEnd, Restores, WritesControl
<1>2. ASSUME NEW t \in Threads, NEW s, ModeCall(t, s) PROVE ControlInv'
  <2>1. /\ todo'[t] = s /\ s \in Seq(Steps) /\ \A u \in Threads : NoMode(todo[u])
        /\ \A u \in Threads : u # t => todo'[u] = todo[u] /\ NoMode(todo'[u])
        /\ reg' = reg
    BY <1>0, <1>2, ModeCalled DEF hardware
  <2>2. ControlCall(s, pwmAsked')
    BY <1>2 DEF ModeCall, CallOK
  <2>3. \A u \in Threads : todo[u] \in Seq(Steps)
    BY <1>0 DEF TodoInv
  <2>4. reg[PWM_CONTROL] = pwmAsked
    BY <2>1, <2>3, <1>a DEF ControlInv
  <2>5. ASSUME NEW u \in Threads PROVE \A o \in Ops(todo'[u]) : WritesControl(o) => WritesControl(FromEnd(todo'[u], 0))
    BY <2>1, <2>2, <2>3, <1>a DEF ControlCall
  <2>6. ASSUME NEW u \in Threads, todo'[u] # <<>>
        PROVE  /\ FromEnd(todo'[u], 0).op = "restore" =>
                    /\ Restores(todo'[u], pwmAsked')
                    /\ Len(todo'[u]) \in 7 .. 9 => reg'[PWM_CONTROL] = pwmAsked'
                    /\ Len(todo'[u]) < 7 => saved'[u] = pwmAsked'
               /\ FromEnd(todo'[u], 0).op = "write" /\ FromEnd(todo'[u], 0).reg = PWM_CONTROL =>
                    FromEnd(todo'[u], 0).value = pwmAsked'
    <3>1. CASE u # t
      BY <3>1, <2>1, <2>3, <2>6, <1>a
    <3>2. CASE u = t
      <4>1. s # <<>>
        BY <3>2, <2>1, <2>6
      <4>2. FromEnd(s, 0).op = "restore" => Restores(s, pwmAsked') /\ Len(s) \notin 7 .. 9 /\ ~(Len(s) < 7)
        <5>1. FromEnd(s, 0).op = "restore" => Restores(s, pwmAsked') /\ Len(s) > 9
          BY <4>1, <2>2 DEF ControlCall
        <5>2. Len(s) \in Nat
          BY <2>1
        <5> DEFINE n == Len(s)
        <5>3. n \in Nat /\ (n > 9 => n \notin 7 .. 9 /\ ~(n < 7))
          <6> HIDE DEF n
          <6>1. n \in Nat
            BY <5>2 DEF n
          <6> QED
            BY <6>1
        <5> QED
          BY <5>1, <5>3
      <4>3. FromEnd(s, 0).op = "write" /\ FromEnd(s, 0).reg = PWM_CONTROL => FromEnd(s, 0).value = pwmAsked'
        BY <4>1, <2>2 DEF ControlCall
      <4> QED
        BY <3>2, <2>1, <4>2, <4>3
    <3> QED
      BY <3>1, <3>2
  <2>7. reg'[PWM_CONTROL] = pwmAsked' \/ \E u \in Threads : \E o \in Ops(todo'[u]) : WritesControl(o)
    BY <2>1, <2>2, <2>4 DEF ControlCall
  <2> QED
    BY <2>5, <2>6, <2>7 DEF ControlInv, Ops, FromEnd, Restores, WritesControl
<1>3. ASSUME NEW t \in Threads, ModeStep(t) PROVE ControlInv'
  <2>1. PICK op \in ModeOps : Access(t, op)
    BY <1>3, PwmEffects
  <2>2. PwmEffect(t)
    BY <1>3, PwmEffects
  <2> QED
    BY <1>0, <2>1, <2>2, ControlPops
<1>4. ASSUME ClockStops PROVE ControlInv'
  BY <1>4 DEF ClockStops, ControlInv, Ops, FromEnd, Restores, WritesControl
<1> QED
  BY <1>1, <1>2, <1>3, <1>4, ModeCases

-----------------------------------------------------------------------------
(* Clocks.                                                                 *)

\* What one access does to the clocks.
ClockEffect(t) ==
    /\ Now(t).op = "start" => clk'[Now(t).clock] = "run"
    /\ \A c \in Clocks : clk[c] = "run" => clk'[c] = "run" \/ Now(t) = StopClock(c)
    /\ \A c \in Clocks : div'[c] = IF Now(t).op = "divide" /\ Now(t).clock = c THEN Now(t).value ELSE div[c]

LEMMA ClockEffects ==
  ASSUME TypeInv, NEW t \in Threads, ModeStep(t)
  PROVE  ClockEffect(t)
<1>0. /\ TodoInv /\ clk \in [Clocks -> {"stop", "stopping", "run"}] /\ div \in [Clocks -> Int]
  BY DEF TypeInv, ValuesInv
<1>1. ASSUME NEW op, Access(t, op) PROVE Now(t) \in Steps /\ Now(t).op = op
  BY <1>0, <1>1, Accessed
<1>2. CASE ClockAccess(t)
  <2>1. CASE /\ Access(t, "stop")
             /\ clk' = [clk EXCEPT ![Now(t).clock] = IF @ = "run" THEN "stopping" ELSE @]
             /\ UNCHANGED div
    <3>1. Now(t) \in Steps /\ Now(t).op = "stop"
      BY <1>1, <2>1
    <3>2. Now(t) = StopClock(Now(t).clock)
      BY <3>1, SMT DEF Steps, StopClock
    <3> QED
      BY <1>0, <2>1, <3>1, <3>2 DEF ClockEffect
  <2>2. CASE Access(t, "await") /\ UNCHANGED <<clk, div>>
    BY <1>0, <1>1, <2>2 DEF ClockEffect
  <2>3. CASE Access(t, "divide") /\ div' = [div EXCEPT ![Now(t).clock] = Now(t).value] /\ UNCHANGED clk
    BY <1>0, <1>1, <2>3 DEF ClockEffect
  <2>4. CASE Access(t, "start") /\ clk' = [clk EXCEPT ![Now(t).clock] = "run"] /\ UNCHANGED div
    <3>1. Now(t) \in Steps /\ Now(t).op = "start"
      BY <1>1, <2>4
    <3>2. Now(t).clock \in Clocks
      BY <3>1, Fields
    <3> QED
      BY <1>0, <2>4, <3>1, <3>2 DEF ClockEffect
  <2> QED
    BY <1>2, <2>1, <2>2, <2>3, <2>4 DEF ClockAccess
<1>3. CASE ReadWord(t) \/ WriteWord(t) \/ PullAccess(t) \/ PwmAccess(t)
  <2>1. UNCHANGED <<clk, div>>
    BY <1>3 DEF ReadWord, WriteWord, PullAccess, PwmAccess, hardware
  <2>2. PICK op \in ModeOps \ {"start", "divide"} : Access(t, op)
    BY <1>3 DEF ReadWord, WriteWord, PullAccess, PwmAccess, ModeOps
  <2> QED
    BY <1>1, <2>1, <2>2 DEF ClockEffect
<1> QED
  BY <1>2, <1>3 DEF ModeStep

LEMMA RestartedTail ==
  ASSUME NEW s \in Seq(Steps), s # <<>>, Restarted(s)
  PROVE  Restarted(Tail(s)) /\ (Head(s).op = "stop" => StartClock(Head(s).clock) \in Ops(Tail(s)))
<1> DEFINE f == s
           g == Tail(s)
           n == Len(s)
<1>1. /\ n \in Nat /\ n > 0 /\ DOMAIN f = 1 .. n /\ DOMAIN g = 1 .. n - 1 /\ Head(s) = f[1]
      /\ \A i \in DOMAIN g : g[i] = f[i + 1]
  BY OpsOfTail
<1>2. \A i \in DOMAIN f : f[i].op = "stop" => \E j \in DOMAIN f : i < j /\ f[j] = StartClock(f[i].clock)
  BY DEF Restarted
<1> HIDE DEF f, g, n
<1>3. ASSUME NEW i \in 1 .. n, f[i].op = "stop"
      PROVE  \E j \in DOMAIN g : i - 1 < j /\ g[j] = StartClock(f[i].clock)
  <2>1. PICK j \in 1 .. n : i < j /\ f[j] = StartClock(f[i].clock)
    BY <1>1, <1>2, <1>3
  <2>2. j - 1 \in DOMAIN g /\ i - 1 < j - 1 /\ (j - 1) + 1 = j
    BY <1>1, <2>1
  <2>3. g[j - 1] = f[j]
    BY <1>1, <2>2
  <2> QED
    BY <2>1, <2>2, <2>3
<1>4. ASSUME NEW i \in DOMAIN g, g[i].op = "stop"
      PROVE  \E j \in DOMAIN g : i < j /\ g[j] = StartClock(g[i].clock)
  <2>1. i + 1 \in 1 .. n /\ g[i] = f[i + 1] /\ (i + 1) - 1 = i
    BY <1>1
  <2> QED
    BY <2>1, <1>3, <1>4
<1>5. ASSUME f[1].op = "stop" PROVE StartClock(f[1].clock) \in Ops(g)
  <2>1. 1 \in 1 .. n
    BY <1>1
  <2>2. PICK j \in DOMAIN g : g[j] = StartClock(f[1].clock)
    BY <2>1, <1>3, <1>5
  <2> QED
    BY <2>2 DEF Ops
<1> QED
  BY <1>1, <1>4, <1>5 DEF Restarted, f, g

LEMMA ClockPops ==
  ASSUME TypeInv, OneMode, ClockInv, NEW t \in Threads, NEW op \in ModeOps, Access(t, op), ClockEffect(t),
         UNCHANGED numbering
  PROVE  ClockInv'
<1>0. TodoInv
  BY DEF TypeInv
<1>1. /\ Now(t) \in Steps /\ Now(t).op = op
      /\ \A u \in Threads : u # t => todo'[u] = todo[u]
      /\ Ops(todo[t]) = {Now(t)} \cup Ops(todo'[t])
      /\ UNCHANGED asked
  BY <1>0, ModeStepped
<1>2. Restarted(todo'[t]) /\ (Now(t).op = "stop" => StartClock(Now(t).clock) \in Ops(todo'[t]))
  <2>1. todo[t] \in Seq(Steps) /\ todo[t] # <<>> /\ Restarted(todo[t]) /\ todo'[t] = Tail(todo[t])
    BY <1>0 DEF Access, TodoInv, ClockInv
  <2> QED
    BY <2>1, RestartedTail DEF Now
<1>3. \A u \in Threads : Restarted(todo'[u])
  BY <1>1, <1>2 DEF ClockInv
<1>4. \A u \in Threads : \A o \in Ops(todo'[u]) : o.op = "divide" /\ o.clock # PWMCLK_CNTL => o.value = 192
  BY <1>1 DEF ClockInv
<1>5. ASSUME NEW c \in Clocks, Runs(c)
      PROVE  clk'[c] = "run" \/ \E u \in Threads : StartClock(c) \in Ops(todo'[u])
  <2>1. CASE Now(t) = StopClock(c)
    BY <2>1, <1>2 DEF StopClock
  <2>2. CASE Now(t) = StartClock(c)
    BY <2>2 DEF ClockEffect, StartClock
  <2>3. CASE Now(t) # StopClock(c) /\ Now(t) # StartClock(c)
    BY <2>3, <1>1, <1>5 DEF Runs, ClockEffect
  <2> QED
    BY <2>1, <2>2, <2>3
<1>6. ASSUME NEW c \in Clocks, c # PWMCLK_CNTL,
             div[c] = 192 \/ \E u \in Threads : Divide(c, 192) \in Ops(todo[u])
      PROVE  div'[c] = 192 \/ \E u \in Threads : Divide(c, 192) \in Ops(todo'[u])
  <2>1. CASE Now(t).op = "divide" /\ Now(t).clock = c
    <3>1. Now(t).value = 192
      BY <2>1, <1>1, <1>6 DEF ClockInv
    <3> QED
      BY <2>1, <3>1 DEF ClockEffect
  <2>2. CASE ~(Now(t).op = "divide" /\ Now(t).clock = c)
    <3>1. Now(t) # Divide(c, 192) /\ div'[c] = div[c]
      BY <2>2 DEF Divide, ClockEffect
    <3> QED
      BY <3>1, <1>1, <1>6
  <2> QED
    BY <2>1, <2>2
<1>7. PWMCLK_CNTL \in Clocks /\ \A p : gpioToClkCon(p) \in Clocks /\ gpioToClkCon(p) # PWMCLK_CNTL
  BY Tables DEF Clocks, PWMCLK_CNTL, NoClock
<1> QED
  BY <1>1, <1>3, <1>4, <1>5, <1>6, <1>7 DEF ClockInv, Runs, Ops, Restarted

LEMMA ClockKept ==
  Serial /\ PlainAlts /\ TypeInv /\ SetupInv /\ OneMode /\ ClockInv /\ [GpioNext]_gpioVars => ClockInv'
<1> SUFFICES ASSUME Serial, PlainAlts, TypeInv, SetupInv, OneMode, ClockInv, [GpioNext]_gpioVars PROVE ClockInv'
  OBVIOUS
<1>0. /\ TodoInv /\ clk \in [Clocks -> {"stop", "stopping", "run"}]
      /\ PWMCLK_CNTL \in Clocks /\ \A p : gpioToClkCon(p) \in Clocks
  BY Tables DEF TypeInv, ValuesInv, Clocks, PWMCLK_CNTL, NoClock
<1>1. ASSUME Aside PROVE ClockInv'
  <2>1. /\ UNCHANGED <<clk, div>> /\ \A p \in Gpios : asked'[p].fsel = asked[p].fsel
        /\ \A u \in Threads : todo'[u] = todo[u] \/ (NoMode(todo[u]) /\ NoMode(todo'[u]))
        /\ numbering' = numbering \/ \A p \in Gpios : asked[p].fsel = 0
    BY <1>1 DEF Aside
  <2>2. \A u \in Threads : \A o : o.op \in ModeOps => (o \in Ops(todo'[u]) <=> o \in Ops(todo[u]))
    BY <2>1 DEF NoMode
  <2>3. ASSUME NEW u \in Threads PROVE Restarted(todo'[u])
    <3>1. CASE todo'[u] = todo[u]
      BY <3>1 DEF ClockInv
    <3>2. CASE NoMode(todo'[u])
      BY <3>2 DEF NoMode, Restarted, Ops, ModeOps
    <3> QED
      BY <2>1, <3>1, <3>2
  <2>4. \A u \in Threads : \A o \in Ops(todo'[u]) : o.op = "divide" /\ o.clock # PWMCLK_CNTL => o.value = 192
    BY <2>2 DEF ClockInv, ModeOps
  <2>5. \A c : StartClock(c).op \in ModeOps /\ Divide(c, 192).op \in ModeOps
    BY DEF StartClock, Divide, ModeOps
  <2>6. \A c : (\E u \in Threads : StartClock(c) \in Ops(todo'[u])) <=> (\E u \in Threads : StartClock(c) \in Ops(todo[u]))
    BY <2>2, <2>5
  <2>7. \A c : (\E u \in Threads : Divide(c, 192) \in Ops(todo'[u])) <=> (\E u \in Threads : Divide(c, 192) \in Ops(todo[u]))
    BY <2>2, <2>5
  <2> QED
    BY <2>1, <2>3, <2>4, <2>6, <2>7 DEF ClockInv, Runs, Ops, Restarted
<1>2. ASSUME NEW t \in Threads, NEW s, ModeCall(t, s) PROVE ClockInv'
  <2>1. /\ todo'[t] = s /\ \A u \in Threads : NoMode(todo[u])
        /\ \A u \in Threads : u # t => todo'[u] = todo[u] /\ NoMode(todo'[u])
        /\ UNCHANGED <<clk, div, numbering>>
    BY <1>0, <1>2, ModeCalled DEF hardware, control
  <2>2. ClockCall(s, asked')
    BY <1>2 DEF ModeCall, CallOK
  <2>3. \A u \in Threads : Restarted(todo'[u])
    BY <2>1, <2>2 DEF ClockInv, ClockCall
  <2>4. \A u \in Threads : \A o \in Ops(todo'[u]) : o.op = "divide" /\ o.clock # PWMCLK_CNTL => o.value = 192
    BY <2>1, <2>2 DEF ClockInv, ClockCall
  <2>5. \A c : StartClock(c).op \in ModeOps /\ Divide(c, 192).op \in ModeOps
    BY DEF StartClock, Divide, ModeOps
  <2>6. \A c : (Runs(c) => clk[c] = "run") /\ ~\E u \in Threads : Divide(c, 192) \in Ops(todo[u])
    BY <2>1, <2>5 DEF Runs, NoMode
  <2>7. ASSUME NEW p \in Gpios, asked'[p].fsel = gpioToPwmALT(p), asked'[p].fsel # 0
        PROVE  clk'[PWMCLK_CNTL] = "run" \/ StartClock(PWMCLK_CNTL) \in Ops(todo'[t])
    BY <2>1, <2>2, <2>6, <2>7 DEF ClockInv, ClockCall
  <2>8. ASSUME numbering' = "gpio", NEW p \in Gpios, asked'[p].fsel = gpioToGpClkALT0(p), asked'[p].fsel # 0
        PROVE  /\ clk'[gpioToClkCon(p)] = "run" \/ StartClock(gpioToClkCon(p)) \in Ops(todo'[t])
               /\ div'[gpioToClkCon(p)] = 192 \/ Divide(gpioToClkCon(p), 192) \in Ops(todo'[t])
    BY <2>1, <2>2, <2>6, <2>8 DEF ClockInv, ClockCall
  <2> QED
    BY <2>3, <2>4, <2>7, <2>8 DEF ClockInv, Runs, Ops, Restarted
<1>3. ASSUME NEW t \in Threads, ModeStep(t) PROVE ClockInv'
  <2>1. PICK op \in ModeOps : Access(t, op)
    BY <1>3, PwmEffects
  <2>2. ClockEffect(t) /\ UNCHANGED numbering
    BY <1>3, ClockEffects DEF ModeStep, ReadWord, WriteWord, PullAccess, PwmAccess, ClockAccess, control
  <2> QED
    BY <2>1, <2>2, ClockPops
<1>4. ASSUME ClockStops PROVE ClockInv'
  <2>1. UNCHANGED <<todo, asked, div, numbering>> /\ \A c \in Clocks : clk[c] = "run" => clk'[c] = "run"
    BY <1>0, <1>4 DEF ClockStops, control
  <2> QED
    BY <2>1, <1>0 DEF ClockInv, Runs, Ops, Restarted
<1> QED
  BY <1>1, <1>2, <1>3, <1>4, ModeCases

-----------------------------------------------------------------------------
(* The theorems.  GpioInv holds for all callers, SerialInv when they        *)
(* serialise the calls that change settings.                               *)

GpioInv   == TypeInv /\ SetupInv /\ LevelInv
SerialInv == OneMode /\ FselInv /\ PullInv /\ ControlInv /\ DivideInv

LEMMA GpioStart == GpioInit => GpioInv /\ SerialInv /\ ClockInv
<1> SUFFICES ASSUME GpioInit PROVE GpioInv /\ SerialInv /\ ClockInv
  OBVIOUS
<1>0. Main \in Threads /\ OwnerOf \in [Gpios -> Threads]
  BY GpioAssumption
<1>1. /\ \A t \in Threads : todo[t] = <<>> /\ doing[t] = "idle"
      /\ \A p \in Gpios : asked[p].fsel = 0 /\ asked[p].pull = 0 /\ asked[p].level = 0
      /\ \A p \in Gpios : fsel[p] = 0 /\ pull[p] = 0
      /\ latch = {} /\ reg[PWM_CONTROL] = pwmAsked /\ numbering = "none"
  BY DEF GpioInit, PWM_CONTROL, Regs, PwmOff, FSEL_INPT
<1>2. TodoInv
  BY <1>1, Empty DEF TodoInv, GpioInit
<1>3. ValuesInv
  <2>1. asked \in [Gpios -> Asks]
    BY SMT DEF GpioInit, Asks, FSEL_INPT
  <2> QED
    BY <2>1 DEF ValuesInv, GpioInit, FSEL_INPT, NoWord, PwmOff
<1>4. SetupInv
  BY <1>0, <1>1 DEF SetupInv, SetUp
<1>5. LevelInv
  BY <1>0, <1>1, Empty DEF LevelInv
<1>6. OneMode
  BY <1>1 DEF OneMode
<1>7. FselInv /\ PullInv /\ DivideInv
  BY <1>1, Empty DEF FselInv, PullInv, DivideInv
<1>8. ControlInv
  BY <1>1, Empty DEF ControlInv
<1>9. ClockInv
  BY <1>1, Empty DEF ClockInv, Restarted
<1> QED
  BY <1>2, <1>3, <1>4, <1>5, <1>6, <1>7, <1>8, <1>9 DEF GpioInv, SerialInv, TypeInv

LEMMA GpioInvHolds == GpioSpec => []GpioInv
<1>1. GpioInit => GpioInv
  BY GpioStart
<1>2. GpioInv /\ [GpioNext]_gpioVars => GpioInv'
  BY TodoKept, ValuesKept, SetupKept, LevelKept DEF GpioInv, TypeInv
<1> QED
  BY <1>1, <1>2, PTL DEF GpioSpec

LEMMA SerialInvHolds ==
  ASSUME Serial
  PROVE  GpioSpec => []SerialInv
<1>1. GpioInit => SerialInv
  BY GpioStart
<1>2. GpioInv /\ SerialInv /\ [GpioNext]_gpioVars => SerialInv'
  BY OneModeKept, FselKept, PullKept, ControlKept, DivideKept DEF GpioInv, SerialInv
<1> QED
  BY <1>1, <1>2, GpioInvHolds, PTL DEF GpioSpec

LEMMA ClockInvHolds ==
  ASSUME Serial, PlainAlts
  PROVE  GpioSpec => []ClockInv
<1>1. GpioInit => ClockInv
  BY GpioStart
<1>2. GpioInv /\ SerialInv /\ ClockInv /\ [GpioNext]_gpioVars => ClockInv'
  BY ClockKept DEF GpioInv, SerialInv
<1> QED
  BY <1>1, <1>2, GpioInvHolds, SerialInvHolds, PTL DEF GpioSpec

(* Types: whatever calls the threads make and however they interleave, the *)
(* registers hold values of their fields and only a call has accesses left. *)
THEOREM GpioTypeCorrect == GpioSpec => []GpioTypeOK
<1>1. GpioInv => GpioTypeOK
  BY DEF GpioInv, TypeInv, TodoInv, ValuesInv, GpioTypeOK
<1> QED
  BY <1>1, GpioInvHolds, PTL

(* No lock is needed for digitalWrite and digitalWriteByte on pins of one's *)
(* own: the set and clear registers only change the pins whose bits are     *)
(* written, so when a call is over its pins are as written.                *)
THEOREM LevelsAsWritten == GpioSpec => []LevelAsWritten
<1>1. GpioInv => LevelAsWritten
  <2> SUFFICES ASSUME GpioInv, NEW p \in Gpios, Idle(OwnerOf[p])
               PROVE  p \in latch <=> asked[p].level = 1
    BY DEF LevelAsWritten
  <2>1. todo[OwnerOf[p]] = <<>>
    BY GpioAssumption DEF GpioInv, TypeInv, TodoInv, Idle
  <2> QED
    BY <2>1, Empty DEF GpioInv, LevelInv
<1> QED
  BY <1>1, GpioInvHolds, PTL

(* A byte write moves no pin that keeps its value: a pin moves only to the  *)
(* level its owner asked for.                                              *)
THEOREM NoPinGlitches == GpioSpec => NoGlitch
<1>1. GpioInv /\ [GpioNext]_gpioVars =>
        [\A p \in Gpios : (p \in latch) # (p \in latch') => (p \in latch' <=> asked[p].level = 1)]_gpioVars
  BY OnlyLevelsMove DEF GpioInv
<1> QED
  BY <1>1, GpioInvHolds, PTL DEF GpioSpec, NoGlitch

(* gpioClockSet and pwmSetClock wait for the clock before they divide it,   *)
(* and nobody starts it in between when the callers serialise.             *)
THEOREM DividedWhenStopped ==
  ASSUME Serial
  PROVE  GpioSpec => DivisorWhenStopped
<1>1. GpioInv /\ SerialInv /\ [GpioNext]_gpioVars =>
        [\A t \in Threads : todo[t] # <<>> /\ Now(t).op = "divide" /\ todo'[t] # todo[t]
            => clk[Now(t).clock] = "stop"]_gpioVars
  <2> SUFFICES ASSUME GpioInv, SerialInv, NEW t \in Threads, todo[t] # <<>>, Now(t).op = "divide"
               PROVE  clk[Now(t).clock] = "stop"
    OBVIOUS
  <2>1. todo[t] \in Seq(Steps)
    BY DEF GpioInv, TypeInv, TodoInv
  <2>2. Now(t) = todo[t][1] /\ 1 \in DOMAIN todo[t]
    <3> DEFINE s == todo[t]
    <3>1. Head(s) = s[1] /\ DOMAIN s = 1 .. Len(s) /\ Len(s) \in Nat /\ Len(s) > 0
      <4> HIDE DEF s
      <4>1. s \in Seq(Steps) /\ s # <<>>
        BY <2>1 DEF s
      <4> QED
        BY <4>1, OpsOfTail
    <3> QED
      BY <3>1 DEF Now
  <2> QED
    BY <2>2 DEF SerialInv, DivideInv
<1> QED
  BY <1>1, GpioInvHolds, SerialInvHolds, PTL DEF GpioSpec, DivisorWhenStopped

(* Callers that serialise find every pin with the function and pull they    *)
(* asked for last, PWM_CONTROL as set, the PWM clock running and, with the  *)
(* chip's numbering, the clock of a clock pin.  (PlainAlts: the functions    *)
(* that need a clock are asked for with pinMode, which starts it.)          *)
THEOREM SettingsKept ==
  ASSUME Serial, PlainAlts
  PROVE  GpioSpec => []SettingsAsAsked
<1>1. GpioInv /\ SerialInv /\ ClockInv => SettingsAsAsked
  <2> SUFFICES ASSUME GpioInv, SerialInv, ClockInv, Quiet
               PROVE  /\ \A p \in Gpios : fsel[p] = asked[p].fsel /\ pull[p] = asked[p].pull
                      /\ reg[PWM_CONTROL] = pwmAsked
                      /\ \A p \in Gpios : fsel[p] = gpioToPwmALT(p) /\ fsel[p] # 0 => clk[PWMCLK_CNTL] = "run"
                      /\ numbering = "gpio" => \A p \in Gpios : ClockRuns(p)
    BY DEF SettingsAsAsked
  <2>1. ASSUME NEW u \in Threads, NEW o \in Ops(todo[u]) PROVE o.op \notin ModeOps
    <3>1. doing[u] \in {"idle", "level"} /\ o.op \in OpsOf(doing[u])
      BY <2>1 DEF Quiet, Idle, GpioInv, TypeInv, TodoInv
    <3> QED
      BY <3>1 DEF OpsOf, ModeOps
  <2>2. \A p \in Gpios : fsel[p] = asked[p].fsel /\ pull[p] = asked[p].pull
    BY <2>1 DEF SerialInv, FselInv, PullInv, ModeOps
  <2>3. reg[PWM_CONTROL] = pwmAsked
    BY <2>1 DEF SerialInv, ControlInv, WritesControl, ModeOps
  <2>4. \A c : StartClock(c).op \in ModeOps /\ Divide(c, 192).op \in ModeOps
    BY DEF StartClock, Divide, ModeOps
  <2>5. \A c : (Runs(c) => clk[c] = "run") /\ ~\E u \in Threads : Divide(c, 192) \in Ops(todo[u])
    BY <2>1, <2>4 DEF Runs
  <2>6. \A p \in Gpios : fsel[p] = gpioToPwmALT(p) /\ fsel[p] # 0 => clk[PWMCLK_CNTL] = "run"
    BY <2>2, <2>5 DEF ClockInv
  <2>7. numbering = "gpio" => \A p \in Gpios : ClockRuns(p)
    BY <2>2, <2>5 DEF ClockInv, ClockRuns
  <2> QED
    BY <2>2, <2>3, <2>6, <2>7
<1> QED
  BY <1>1, GpioInvHolds, SerialInvHolds, ClockInvHolds, PTL

-----------------------------------------------------------------------------
(* wiringPiISR.                                                            *)
(* Why the hand-off is exact: only the holder of pinMutex is between the   *)
(* store to pinPass and the end of its wait, and pinPass holds the pin of  *)
(* that call until the thread it created has read and cleared it.          *)
InSection(c) == pc[c] \in {"pass", "create", "spin", "unlock"}

HandOffInv ==
    \A c \in Calls :
        /\ InSection(c) => pinMutex = c
        /\ pc[c] \in {"create", "spin"} /\ thread[c] \in {"none", "start", "took"}
              => pinPass = PinOf[c]
        /\ thread[c] \in {"start", "took"} => pc[c] = "spin"
        /\ pc[c] \notin {"spin", "unlock", "done"} => thread[c] = "none"
        /\ pc[c] \in {"unlock", "done"} => thread[c] \notin {"none", "start", "took"}
        /\ thread[c] \notin {"none", "start"} => myPin[c] = PinOf[c]

\* Why a function runs for an edge and is never missing: a pending edge is
\* one that no handler of the pin has read, and the function of a call is
\* installed before its thread is created.
EdgeInv ==
    \A c \in Calls :
        /\ event[PinOf[c]] => c \in since
        /\ thread[c] = "woken" => c \in since
        /\ thread[c] # "running" => running[c] = NoCall
        /\ pc[c] \notin {"check", "open", "clear", "store", "exit"} => isrFunctions[PinOf[c]] \in Calls

\* A handler only uses pins it was handed.
ServedPins == \A c \in Calls : thread[c] \notin {"none", "start"} => myPin[c] \in Pins

(* The state has its type at first, and nobody is in the section.          *)
LEMMA IsrInit == Init => TypeOK /\ HandOffInv /\ EdgeInv
  BY PinAssumption DEF Init, TypeOK, CallSteps, ThreadSteps, HandOffInv, InSection, EdgeInv

(* Each step keeps the type.                                               *)
LEMMA IsrTypeStep == TypeOK /\ HandOffInv /\ [Next]_vars => TypeOK'
<1> SUFFICES ASSUME TypeOK, HandOffInv, [Next]_vars PROVE TypeOK'
  OBVIOUS
<1>s. ServedPins
  BY PinAssumption DEF HandOffInv, ServedPins, TypeOK
<1> USE PinAssumption DEF TypeOK, CallSteps, ThreadSteps, CallStep, ThreadStep, callVars, handlerVars
<1>1. ASSUME NEW c \in Calls, Caller(c) PROVE TypeOK'
  <2>1. CASE CheckFd(c)
    BY <2>1 DEF CheckFd
  <2>2. CASE OpenFd(c)
    BY <2>2 DEF OpenFd
  <2>3. CASE OpenExits(c)
    BY <2>3 DEF OpenExits
  <2>4. CASE ClearPending(c)
    BY <2>4 DEF ClearPending
  <2>5. CASE StoreFunction(c)
    BY <2>5 DEF StoreFunction
  <2>6. CASE Lock(c)
    BY <2>6 DEF Lock
  <2>7. CASE PassPin(c)
    BY <2>7 DEF PassPin
  <2>8. CASE CreateThread(c)
    BY <2>8 DEF CreateThread
  <2>9. CASE Spin(c) \/ Unlock(c)
    BY <2>9 DEF Spin, Unlock
  <2> QED
    BY <1>1, <2>1, <2>2, <2>3, <2>4, <2>5, <2>6, <2>7, <2>8, <2>9 DEF Caller
<1>2. ASSUME NEW c \in Calls, Handler(c) PROVE TypeOK'
  <2>1. CASE TakePin(c)
    BY <2>1 DEF TakePin
  <2>2. CASE ReleasePin(c) \/ Poll(c)
    BY <2>2 DEF ReleasePin, Poll
  <2>3. CASE ReadEvent(c)
    BY <2>3 DEF ReadEvent
  <2>4. CASE CallFunction(c)
    <3>1. myPin[c] \in Pins
      BY <2>4, <1>s DEF CallFunction, ServedPins
    <3> QED
      BY <2>4, <3>1 DEF CallFunction
  <2>5. CASE FunctionReturns(c)
    BY <2>5 DEF FunctionReturns
  <2> QED
    BY <1>2, <2>1, <2>2, <2>3, <2>4, <2>5 DEF Handler
<1>3. ASSUME NEW p \in Pins, Edge(p) PROVE TypeOK'
  <2>1. owed' \in [Pins -> BOOLEAN]
    BY <1>3, ZenonT(20) DEF Edge
  <2> QED
    BY <1>3, <2>1 DEF Edge
<1>4. CASE UNCHANGED vars
  BY <1>4 DEF vars
<1> QED
  BY <1>1, <1>2, <1>3, <1>4 DEF Next

(* The lock is given back only after the new thread has taken its pin, so  *)
(* no step of another call reaches the pin in between.                     *)
LEMMA HandOffStep == TypeOK /\ HandOffInv /\ [Next]_vars => HandOffInv'
<1> SUFFICES ASSUME TypeOK, HandOffInv, [Next]_vars PROVE HandOffInv'
  OBVIOUS
<1> USE PinAssumption DEF TypeOK, HandOffInv, InSection, CallStep, ThreadStep, callVars, handlerVars
<1>1. ASSUME NEW c \in Calls, Caller(c) PROVE HandOffInv'
  <2>1. CASE CheckFd(c)
    BY <2>1 DEF CheckFd
  <2>2. CASE OpenFd(c)
    BY <2>2 DEF OpenFd
  <2>3. CASE OpenExits(c)
    BY <2>3 DEF OpenExits
  <2>4. CASE ClearPending(c)
    BY <2>4 DEF ClearPending
  <2>5. CASE StoreFunction(c)
    BY <2>5 DEF StoreFunction
  <2>6. CASE Lock(c)
    BY <2>6 DEF Lock
  <2>7. CASE PassPin(c)
    BY <2>7 DEF PassPin
  <2>8. CASE CreateThread(c)
    BY <2>8 DEF CreateThread
  <2>9. CASE Spin(c)
    BY <2>9 DEF Spin
  <2>10. CASE Unlock(c)
    BY <2>10 DEF Unlock
  <2> QED
    BY <1>1, <2>1, <2>2, <2>3, <2>4, <2>5, <2>6, <2>7, <2>8, <2>9, <2>10 DEF Caller
<1>2. ASSUME NEW c \in Calls, Handler(c) PROVE HandOffInv'
  <2>1. CASE TakePin(c)
    BY <2>1 DEF TakePin
  <2>2. CASE ReleasePin(c)
    BY <2>2 DEF ReleasePin
  <2>3. CASE Poll(c) \/ ReadEvent(c) \/ CallFunction(c) \/ FunctionReturns(c)
    BY <2>3 DEF Poll, ReadEvent, CallFunction, FunctionReturns
  <2> QED
    BY <1>2, <2>1, <2>2, <2>3 DEF Handler
<1>3. ASSUME NEW p \in Pins, Edge(p) PROVE HandOffInv'
  BY <1>3 DEF Edge
<1>4. CASE UNCHANGED vars
  BY <1>4 DEF vars
<1> QED
  BY <1>1, <1>2, <1>3, <1>4 DEF Next

(* An edge stays with the handlers that have not read it, and a function   *)
(* once installed is only replaced by another.                             *)
LEMMA EdgeStep == TypeOK /\ HandOffInv /\ EdgeInv /\ [Next]_vars => EdgeInv'
<1> SUFFICES ASSUME TypeOK, HandOffInv, EdgeInv, [Next]_vars PROVE EdgeInv'
  OBVIOUS
<1> USE PinAssumption DEF TypeOK, EdgeInv, CallStep, ThreadStep, callVars, handlerVars
<1>1. ASSUME NEW c \in Calls, Caller(c) PROVE EdgeInv'
  <2>1. CASE CheckFd(c)
    BY <2>1 DEF CheckFd
  <2>2. CASE OpenFd(c)
    BY <2>2 DEF OpenFd
  <2>3. CASE OpenExits(c)
    BY <2>3 DEF OpenExits
  <2>4. CASE ClearPending(c)
    <3>1. thread[c] = "none"
      BY <2>4 DEF ClearPending, HandOffInv
    <3> QED
      BY <2>4, <3>1 DEF ClearPending
  <2>5. CASE StoreFunction(c)
    BY <2>5 DEF StoreFunction
  <2>6. CASE Lock(c) \/ PassPin(c)
    BY <2>6 DEF Lock, PassPin
  <2>7. CASE CreateThread(c)
    <3>1. thread[c] = "none"
      BY <2>7 DEF CreateThread, HandOffInv
    <3> QED
      BY <2>7, <3>1 DEF CreateThread
  <2>8. CASE Spin(c) \/ Unlock(c)
    BY <2>8 DEF Spin, Unlock
  <2> QED
    BY <1>1, <2>1, <2>2, <2>3, <2>4, <2>5, <2>6, <2>7, <2>8 DEF Caller
<1>2. ASSUME NEW c \in Calls, Handler(c) PROVE EdgeInv'
  <2>1. CASE TakePin(c) \/ ReleasePin(c)
    BY <2>1 DEF TakePin, ReleasePin
  <2>2. CASE Poll(c)
    <3>1. myPin[c] = PinOf[c]
      BY <2>2 DEF Poll, HandOffInv
    <3> QED
      BY <2>2, <3>1 DEF Poll
  <2>3. CASE ReadEvent(c)
    <3>1. myPin[c] = PinOf[c]
      BY <2>3 DEF ReadEvent, HandOffInv
    <3> QED
      BY <2>3, <3>1 DEF ReadEvent
  <2>4. CASE CallFunction(c) \/ FunctionReturns(c)
    BY <2>4 DEF CallFunction, FunctionReturns
  <2> QED
    BY <1>2, <2>1, <2>2, <2>3, <2>4 DEF Handler
<1>3. ASSUME NEW p \in Pins, Edge(p) PROVE EdgeInv'
  BY <1>3 DEF Edge
<1>4. CASE UNCHANGED vars
  BY <1>4 DEF vars
<1> QED
  BY <1>1, <1>2, <1>3, <1>4 DEF Next

(* The three together hold in every state.                                 *)
LEMMA IsrInvHolds == Spec => [](TypeOK /\ HandOffInv /\ EdgeInv)
  BY IsrInit, IsrTypeStep, HandOffStep, EdgeStep, PTL DEF Spec

(* The state always has its type.                                          *)
THEOREM TypeCorrect == Spec => []TypeOK
  BY IsrInvHolds, PTL

(* Every handler thread serves the pin of the call that created it, and    *)
(* the call returns only after that thread has taken it over.              *)
THEOREM HandOffExact == Spec => []ServesOwnPin
<1>1. HandOffInv => ServesOwnPin
  BY DEF HandOffInv, ServesOwnPin
<1> QED
  BY <1>1, IsrInvHolds, PTL

-----------------------------------------------------------------------------
(* Where a call is, from its two program counters.                         *)
LEMMA PhaseIs ==
  /\ \A h : PhaseAt("done", h) = "returned" /\ PhaseAt("store", h) = "cleared"
  /\ \A h : \A s \in {"check", "open", "clear", "exit"} : PhaseAt(s, h) = "called"
  /\ \A s \in {"lock", "pass", "create", "spin", "unlock"} :
       /\ \A h \in {"none", "start"} : PhaseAt(s, h) = "stored"
       /\ \A h \in ThreadSteps \ {"none", "start"} : PhaseAt(s, h) = "started"
<1>1. \A h : PhaseAt("done", h) = "returned"
  BY DEF PhaseAt
<1>2. \A h : PhaseAt("store", h) = "cleared"
  BY DEF PhaseAt
<1>3. \A h : \A s \in {"check", "open", "clear", "exit"} : PhaseAt(s, h) = "called"
  BY DEF PhaseAt
<1>4. ASSUME NEW s \in {"lock", "pass", "create", "spin", "unlock"}
      PROVE  /\ \A h \in {"none", "start"} : PhaseAt(s, h) = "stored"
             /\ \A h \in ThreadSteps \ {"none", "start"} : PhaseAt(s, h) = "started"
  BY DEF PhaseAt
<1> QED
  BY <1>1, <1>2, <1>3, <1>4

(* wiringPiISR implements IsrService: whatever registrations run at the    *)
(* same time, a handler calls the function installed last for the pin of   *)
(* its call, once at most for the edges that came before it read the file. *)
THEOREM ImplementsService == Spec => ServiceSpec
<1>1. Init => Service!SInit
  BY PhaseIs DEF Init, Service!SInit, phase, due
<1>2. TypeOK /\ HandOffInv /\ EdgeInv /\ [Next]_vars => [Service!SNext]_(Service!sVars)
  <2> SUFFICES ASSUME TypeOK, HandOffInv, EdgeInv, [Next]_vars
               PROVE  Service!SNext \/ UNCHANGED <<phase, isrFunctions, since, due, running>>
    BY DEF Service!sVars
  <2> USE PinAssumption DEF TypeOK, CallSteps, ThreadSteps, callVars, handlerVars
  <2>p. /\ \A c \in Calls : phase[c] = PhaseAt(pc[c], thread[c])
        /\ \A c \in Calls : phase'[c] = PhaseAt(pc'[c], thread'[c])
        /\ DOMAIN phase = Calls /\ DOMAIN phase' = Calls
        /\ phase = [c \in Calls |-> phase[c]] /\ phase' = [c \in Calls |-> phase'[c]]
    BY DEF phase
  <2>a. ASSUME NEW c \in Calls, NEW to, phase'[c] = to,
               \A d \in Calls \ {c} : phase'[d] = phase[d]
        PROVE  phase' = [phase EXCEPT ![c] = to]
    BY <2>a, <2>p
  <2>b. ASSUME \A d \in Calls : phase'[d] = phase[d] PROVE UNCHANGED phase
    BY <2>b, <2>p
  <2>1. ASSUME NEW c \in Calls, ClearPending(c) PROVE Service!Clear(c)
    <3>1. phase[c] = "called" /\ phase'[c] = "cleared" /\ \A d \in Calls \ {c} : phase'[d] = phase[d]
      BY <2>1, <2>p, PhaseIs DEF ClearPending, CallStep
    <3>2. UNCHANGED <<isrFunctions, due, running>> /\ since' = since \ {c}
      BY <2>1 DEF ClearPending, due
    <3> QED
      BY <3>1, <3>2, <2>a DEF Service!Clear, Service!Advance
  <2>2. ASSUME NEW c \in Calls, StoreFunction(c) PROVE Service!Install(c)
    <3>1. phase[c] = "cleared" /\ phase'[c] = "stored" /\ \A d \in Calls \ {c} : phase'[d] = phase[d]
      <4>1. thread[c] = "none"
        BY <2>2 DEF StoreFunction, CallStep, HandOffInv
      <4> QED
        BY <2>2, <4>1, <2>p, PhaseIs DEF StoreFunction, CallStep
    <3>2. UNCHANGED <<since, due, running>> /\ isrFunctions' = [isrFunctions EXCEPT ![PinOf[c]] = c]
      BY <2>2 DEF StoreFunction, due
    <3> QED
      BY <3>1, <3>2, <2>a DEF Service!Install, Service!Advance
  <2>3. ASSUME NEW c \in Calls, TakePin(c) PROVE Service!StartHandler(c)
    <3>1. phase[c] = "stored" /\ phase'[c] = "started" /\ \A d \in Calls \ {c} : phase'[d] = phase[d]
      <4>1. pc[c] = "spin" /\ thread[c] = "start" /\ thread'[c] = "took" /\ UNCHANGED pc
        BY <2>3 DEF TakePin, ThreadStep, HandOffInv
      <4> QED
        BY <2>3, <4>1, <2>p, PhaseIs DEF TakePin, ThreadStep
    <3>2. UNCHANGED <<isrFunctions, since, due, running>>
      BY <2>3 DEF TakePin, ThreadStep, due
    <3> QED
      BY <3>1, <3>2, <2>a DEF Service!StartHandler, Service!Advance
  <2>4. ASSUME NEW c \in Calls, Unlock(c) PROVE Service!ReturnFrom(c)
    <3>1. phase[c] = "started" /\ phase'[c] = "returned" /\ \A d \in Calls \ {c} : phase'[d] = phase[d]
      <4>1. thread[c] \notin {"none", "start"} /\ pc[c] = "unlock" /\ UNCHANGED thread
        BY <2>4 DEF Unlock, CallStep, HandOffInv
      <4> QED
        BY <2>4, <4>1, <2>p, PhaseIs DEF Unlock, CallStep
    <3>2. UNCHANGED <<isrFunctions, since, due, running>>
      BY <2>4 DEF Unlock, due
    <3> QED
      BY <3>1, <3>2, <2>a DEF Service!ReturnFrom, Service!Advance
  <2>5. ASSUME NEW c \in Calls, Caller(c), ~ClearPending(c), ~StoreFunction(c), ~Unlock(c)
        PROVE  UNCHANGED <<phase, isrFunctions, since, due, running>>
    <3>1. CASE CreateThread(c)
      <4>1. pc[c] = "create" /\ thread[c] = "none" /\ pc'[c] = "spin" /\ thread'[c] \in {"none", "start"}
        BY <3>1 DEF CreateThread, CallStep, HandOffInv
      <4>2. \A d \in Calls \ {c} : pc'[d] = pc[d] /\ thread'[d] = thread[d]
        BY <3>1 DEF CreateThread, CallStep
      <4>3. \A d \in Calls : phase'[d] = phase[d]
        BY <4>1, <4>2, <2>p, PhaseIs
      <4>4. UNCHANGED due
        BY <4>1, <4>2 DEF due
      <4> QED
        BY <3>1, <4>3, <4>4, <2>b DEF CreateThread
    <3>2. CASE CheckFd(c) \/ OpenFd(c) \/ OpenExits(c)
      <4>1. \A d \in Calls : phase'[d] = phase[d]
        BY <3>2, <2>p, PhaseIs DEF CheckFd, OpenFd, OpenExits, CallStep
      <4> QED
        BY <3>2, <4>1, <2>b DEF CheckFd, OpenFd, OpenExits, due
    <3>3. CASE Lock(c) \/ PassPin(c) \/ Spin(c)
      <4>1. \A d \in Calls : phase'[d] = phase[d]
        BY <3>3, <2>p, PhaseIs DEF Lock, PassPin, Spin, CallStep
      <4> QED
        BY <3>3, <4>1, <2>b DEF Lock, PassPin, Spin, due
    <3> QED
      BY <2>5, <3>1, <3>2, <3>3 DEF Caller
  <2>6. ASSUME NEW c \in Calls, Handler(c), ~TakePin(c)
        PROVE  \/ Service!Accept(c) \/ Service!Run(c) \/ Service!Finish(c)
               \/ UNCHANGED <<phase, isrFunctions, since, due, running>>
    <3>1. /\ UNCHANGED <<pc, isrFunctions>> /\ thread[c] \notin {"none", "start"}
          /\ thread'[c] \notin {"none", "start"} /\ pc[c] \in {"spin", "unlock", "done"}
          /\ \A d \in Calls \ {c} : thread'[d] = thread[d]
      BY <2>6 DEF Handler, ReleasePin, Poll, ReadEvent, CallFunction, FunctionReturns, ThreadStep, HandOffInv
    <3>2. myPin[c] = PinOf[c] /\ myPin[c] \in Pins
      BY <3>1 DEF HandOffInv
    <3>3. thread' \in [Calls -> ThreadSteps]
      BY <2>6 DEF Handler, ReleasePin, Poll, ReadEvent, CallFunction, FunctionReturns, ThreadStep
    <3>4. UNCHANGED phase /\ phase[c] \in {"started", "returned"}
      <4>1. \A d \in Calls : phase'[d] = phase[d]
        BY <3>1, <3>3, <2>p, PhaseIs
      <4>2. phase[c] \in {"started", "returned"}
        BY <3>1, <2>p, PhaseIs
      <4> QED
        BY <4>1, <4>2, <2>b
    <3>5. CASE ReleasePin(c) \/ Poll(c)
      BY <3>5, <3>4 DEF ReleasePin, Poll, ThreadStep, due
    <3>6. CASE ReadEvent(c)
      <4>1. c \in since /\ c \notin due /\ running[c] = NoCall
        BY <3>6 DEF ReadEvent, ThreadStep, EdgeInv, due
      <4>2. since' = since \ {c} /\ due' = due \cup {c} /\ UNCHANGED running
        BY <3>6 DEF ReadEvent, ThreadStep, due
      <4> QED
        BY <3>1, <3>4, <4>1, <4>2 DEF Service!Accept
    <3>7. CASE CallFunction(c)
      <4>1. c \in due /\ due' = due \ {c} /\ UNCHANGED since
        BY <3>7 DEF CallFunction, ThreadStep, due
      <4>2. isrFunctions[PinOf[c]] # NoCall
        BY <3>1 DEF EdgeInv
      <4>3. running' = [running EXCEPT ![c] = isrFunctions[PinOf[c]]]
        BY <3>7, <3>2 DEF CallFunction
      <4> QED
        BY <3>1, <3>4, <4>1, <4>2, <4>3 DEF Service!Run
    <3>8. CASE FunctionReturns(c)
      BY <3>8, <3>4 DEF FunctionReturns, ThreadStep, due, Service!Finish
    <3> QED
      BY <2>6, <3>5, <3>6, <3>7, <3>8 DEF Handler
  <2>7. ASSUME NEW p \in Pins, Edge(p) PROVE Service!Arrive(p)
    BY <2>7 DEF Edge, phase, due, Service!Arrive
  <2>8. CASE UNCHANGED vars
    BY <2>8 DEF vars, phase, due
  <2> QED
    BY <2>1, <2>2, <2>3, <2>4, <2>5, <2>6, <2>7, <2>8 DEF Next, Service!SNext, Caller, Handler
<1> QED
  BY <1>1, <1>2, IsrInvHolds, PTL DEF Spec, ServiceSpec, Service!SSpec
=============================================================================
