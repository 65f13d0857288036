---------------------------- MODULE NetworkProof ----------------------------
(***************************************************************************)
(* The programs that talk to another machine.                              *)
(*                                                                         *)
(*   - Remote (src/lib/drcSerial.c, drcNet.c), for every set of threads and *)
(*     every number of calls and pings.  On the line the bytes that are     *)
(*     under way are whole commands but for the last one, and what is left  *)
(*     of the call is what completes it; the answers under way or owed,     *)
(*     less those given up, are those still awaited; the last byte that     *)
(*     sets a field of the pin is the one that was asked for.  The socket   *)
(*     has the same invariants, of whole commands;                          *)
(*   - Relay (src/ml/net), for every set of clients and requests and every  *)
(*     number of commands and interrupts.                                   *)
(***************************************************************************)
EXTENDS Remote, Relay, FiniteSetTheorems, FunctionTheorems, SequenceTheorems, TLAPS

-----------------------------------------------------------------------------
(* The serial line.  Wire is what is on its way to the device, with what   *)
(* the device already has of a command.                                    *)

Firsts    == {"i", "o", "p", "0", "1", "v", "r", "a"}
WireBytes == Firsts \cup {"@", "pin", "9"}
Wire      == cur \o toDev

PutByte(b) == [do |-> "put", what |-> b]
GetPart(k) == [do |-> "get", part |-> k]
Pin        == PutByte("pin")

Answers(e) == Len(AnswerOf(e.b, e.for))
Owes(s)    == {o \in (DOMAIN s) \X {1, 2} : o[2] <= Answers(s[o[1]])}

\* A byte and its call; the pings belong to none.
Bytewise == {e \in [b : WireBytes, for : 0 .. MaxCalls] : e.b = "@" => e.for = 0}

\* What the bytes s end in the middle of: what is missing of that command.
Missing(s) ==
    IF s = <<>> THEN "nothing"
    ELSE LET last == s[Len(s)].b
         IN  CASE last = "v" -> "pin9"
               [] last \in Firsts \ {"v"} -> "pin"
               [] last = "pin" /\ s[Len(s) - 1].b = "v" -> "9"
               [] OTHER -> "nothing"

\* The bytes are whole commands, but for the last one.
Framed(s) ==
    \A i \in DOMAIN s :
      /\ s[i].b = "pin" <=> i > 1 /\ s[i - 1].b \in Firsts
      /\ s[i].b = "9" <=> i > 2 /\ s[i - 2].b = "v"

AllGets(n)    == IF n = 1 THEN <<GetPart(1)>> ELSE <<GetPart(1), GetPart(2)>>
PinAndGets(n) == IF n = 1 THEN <<Pin, GetPart(1)>> ELSE <<Pin, GetPart(1), GetPart(2)>>

GetPlans == {<<>>, <<GetPart(1)>>, <<GetPart(2)>>, <<GetPart(1), GetPart(2)>>}

\* What can be left of a call when the bytes m of its command are missing.
Plans(m) ==
    CASE m = "nothing" ->
           GetPlans
           \cup {<<PutByte(b), Pin>> : b \in {"i", "o", "p", "0", "1"}}
           \cup {<<PutByte("i"), Pin, PutByte(b), Pin>> : b \in {"0", "1"}}
           \cup {<<PutByte("v"), Pin, PutByte("9")>>, <<PutByte("r"), Pin, GetPart(1)>>,
                 <<PutByte("a"), Pin, GetPart(1), GetPart(2)>>}
      [] m = "pin" ->
           {<<Pin>>, <<Pin, GetPart(1)>>, <<Pin, GetPart(1), GetPart(2)>>}
           \cup {<<Pin, PutByte(b), Pin>> : b \in {"0", "1"}}
      [] m = "pin9" -> {<<Pin, PutByte("9")>>}
      [] m = "9" -> {<<PutByte("9")>>}

\* The answers that questions already written will bring the call.
Due(plan) ==
    CASE plan \in GetPlans -> Len(plan)
      [] plan = <<Pin, GetPart(1)>> -> 1
      [] plan = <<Pin, GetPart(1), GetPart(2)>> -> 2
      [] OTHER -> 0

AllIdle == \A t \in Threads : Idle(t)
OneCall == \A t, u \in Threads : ~Idle(t) /\ ~Idle(u) => t = u

FrameInv ==
    /\ Framed(Wire)
    /\ cur # <<>> => Len(cur) < Wants(cur[1].b)
    /\ OneCall
    /\ AllIdle => Missing(Wire) = "nothing"
    /\ \A t \in Threads : ~Idle(t) => st = "up" /\ todo[t] \in Plans(Missing(Wire))

\* Before the set-up is over only pings are on the line.
PingInv ==
    st # "up" =>
        /\ \A i \in DOMAIN toHost : toHost[i] = Pong
        /\ \A i \in DOMAIN toDev : toDev[i].b = "@"
        /\ cur = <<>>
        /\ st \in {"open", "flush"} => toDev = <<>> /\ late = 0
        /\ st = "ping" => late <= tries
        /\ st = "wait" => late < tries

\* Answers on the line or owed, less those given up, are those still awaited.
Outstanding == Len(toHost) + Cardinality(AnswersOwed)
CountInv ==
    st \in {"ping", "wait", "up"} =>
        /\ AllIdle => Outstanding = late + (IF st = "wait" THEN 1 ELSE 0)
        /\ \A t \in Threads : ~Idle(t) => Outstanding = late + Due(todo[t])

\* Every wait that was given up was a ping's or a call's, of which each has two.
LateInv ==
    /\ late <= tries + 2 * id
    /\ \A t \in Threads :
         ~Idle(t) => late + (IF todo[t] \in GetPlans THEN Len(todo[t]) ELSE 2) <= tries + 2 * id

\* While no wait was given up: the call's own question is the only one.
Own(t, k) == [for |-> mine[t], part |-> k]

\* The question of t's call, with n answers, is the last byte written ...
AskedLast(t, n) ==
    /\ toHost = <<>>
    /\ \A i \in DOMAIN Wire : Answers(Wire[i]) > 0 =>
         i = Len(Wire) /\ Wire[i].for = mine[t] /\ Answers(Wire[i]) = n

\* ... or it is somewhere on the line ...
AskedOnce(t, n) ==
    /\ toHost = <<>>
    /\ \A i \in DOMAIN Wire : Answers(Wire[i]) > 0 =>
         /\ Wire[i].for = mine[t] /\ Answers(Wire[i]) = n
         /\ \A j \in DOMAIN Wire : Answers(Wire[j]) > 0 => i = j

\* ... or it has been answered.
Answered(t, n) ==
    AnswersOwed = {} /\ Len(toHost) = n /\ \A i \in 1 .. n : toHost[i] = Own(t, i)

OwnInv ==
    late = 0 =>
        /\ ~crossed
        /\ \A t \in Threads :
             /\ \A n \in 1 .. 2 : todo[t] = PinAndGets(n) => AskedLast(t, n)
             /\ \A n \in 1 .. 2 : todo[t] = AllGets(n) => AskedOnce(t, n) \/ Answered(t, n)
             /\ todo[t] = <<GetPart(2)>> => AnswersOwed = {} /\ toHost = <<Own(t, 2)>>

\* The bytes that set a field of the pin, and the steps that write one.
Fields     == {"mode", "level", "pwm"}
FieldBytes == [mode |-> {"i", "o", "p"}, level |-> {"0", "1"}, pwm |-> {"9"}]
Sets(step, f) == step.do = "put" /\ step.what \in FieldBytes[f]

\* The last byte of s that sets f, or else the pin d itself, is as asked in a.
Settled(s, d, a, f) ==
    \/ \E i \in DOMAIN s :
         /\ s[i].b = a[f] /\ a[f] \in FieldBytes[f]
         /\ \A j \in DOMAIN s : j > i => s[j].b \notin FieldBytes[f]
    \/ (\A i \in DOMAIN s : s[i].b \notin FieldBytes[f]) /\ d[f] = a[f]

\* The pin will be as asked when all that is to be written has been executed.
Writing(f) == \E t \in Threads : \E i \in DOMAIN todo[t] : Sets(todo[t][i], f)
PinInv ==
    \A f \in Fields :
      /\ \A t \in Threads : \A i \in DOMAIN todo[t] :
           Sets(todo[t][i], f) => todo[t][i].what = asked[f]
      /\ Writing(f) \/ Settled(Wire, dev, asked, f)

SerialType ==
    /\ toDev \in Seq(Bytewise) /\ cur \in Seq(Bytewise)
    /\ srv = "none" /\ ~exited /\ ~overlap

SerialInv ==
    SerialType /\ FrameInv /\ PingInv /\ CountInv /\ LateInv /\ OwnInv /\ PinInv

(* The socket.                                                             *)

RecvStep == [do |-> "recv", part |-> 1]

\* A call c decides about the field f of the pin.
Decides(c, f) ==
    CASE f = "mode" -> c.op \in {"pinMode", "pull"}
      [] f = "level" -> c.op = "digitalWrite" \/ (c.op = "pull" /\ c.arg \in {"PUD_UP", "PUD_OFF"})
      [] f = "pwm" -> c.op = "pwmWrite"

NetType ==
    /\ toDev \in Seq([call : Ops, for : 0 .. MaxCalls])
    /\ cur = <<>> /\ late = 0
    /\ \A t \in Threads : todo[t] \in {<<>>, <<RecvStep>>} \cup {NetSteps(c) : c \in Ops}

\* The last command of s that decides about f, or else the pin d, is as asked in a.
Decided(s, d, a, f) ==
    \/ \E i \in DOMAIN s :
         /\ Decides(s[i].call, f) /\ Wanted(a, s[i].call)[f] = a[f]
         /\ \A j \in DOMAIN s : j > i => ~Decides(s[j].call, f)
    \/ (\A i \in DOMAIN s : ~Decides(s[i].call, f)) /\ d[f] = a[f]
NetPinInv == \A f \in Fields : Decided(toDev, dev, asked, f)

NetOwnInv ==
    ~overlap =>
        /\ ~crossed /\ OneCall
        /\ (\A t \in Threads : todo[t] # <<RecvStep>>) => toHost = <<>> /\ (lost \/ toDev = <<>>)
        /\ \A t \in Threads : todo[t] = <<RecvStep>> =>
             /\ toHost = <<>> \/ toHost = <<Own(t, 1)>>
             /\ ~lost /\ toDev # <<>> => toHost = <<>> /\ Len(toDev) = 1 /\ toDev[1].for = mine[t]

NetInv == NetType /\ NetPinInv /\ NetOwnInv

Pins == [mode : {"i", "o", "p"}, level : {"0", "1"}, pwm : {"0", "9"}]
CommonType ==
    /\ link \in Links
    /\ st \in IF link = "serial" THEN {"open", "flush", "ping", "wait", "up", "failed"}
              ELSE {"connect", "challenge", "answer", "lowat", "up", "failed"}
    /\ toHost \in Seq([for : 0 .. MaxCalls, part : {1, 2}])
    /\ dev \in Pins /\ asked \in Pins
    /\ tries \in 0 .. MaxTries /\ id \in 0 .. MaxCalls /\ late \in Nat
    /\ mine \in [Threads -> 0 .. MaxCalls] /\ DOMAIN todo = Threads

RemoteInv ==
    /\ CommonType
    /\ link = "serial" => SerialInv
    /\ link = "net" => NetInv

-----------------------------------------------------------------------------
(* Bytes and the answers to them.                                          *)

LEMMA AnswersAre ==
  ASSUME NEW e \in Bytewise
  PROVE  Answers(e) = IF e.b \in {"@", "r"} THEN 1 ELSE IF e.b = "a" THEN 2 ELSE 0
<1>1. CASE e.b \in {"@", "r"}
  BY <1>1 DEF Answers, AnswerOf
<1>2. CASE e.b = "a"
  BY <1>2 DEF Answers, AnswerOf
<1>3. CASE e.b \notin {"@", "r", "a"}
  BY <1>3 DEF Answers, AnswerOf
<1> QED
  BY <1>1, <1>2, <1>3

\* A byte more at the end of the wire ...
More(s, u, e) ==
    /\ u \in Seq(Bytewise) /\ Len(u) = Len(s) + 1
    /\ \A i \in 1 .. Len(s) : u[i] = s[i]
    /\ u[Len(s) + 1] = e

\* ... or the first k gone.
Less(s, u, k) ==
    /\ u \in Seq(Bytewise) /\ k <= Len(s) /\ Len(u) = Len(s) - k
    /\ \A i \in 1 .. Len(s) - k : u[i] = s[i + k]

LEMMA IsSeq ==
  ASSUME NEW S, NEW s \in Seq(S)
  PROVE  /\ Len(s) \in Nat /\ DOMAIN s = 1 .. Len(s) /\ \A i \in 1 .. Len(s) : s[i] \in S
         /\ s = <<>> <=> Len(s) = 0
  BY EmptySeq

LEMMA MissingIs ==
  ASSUME NEW s \in Seq(Bytewise), Framed(s)
  PROVE  /\ Missing(s) \in {"nothing", "pin", "pin9", "9"}
         /\ Missing(s) = "pin9" <=> Len(s) > 0 /\ s[Len(s)].b = "v"
         /\ Missing(s) = "pin" <=> Len(s) > 0 /\ s[Len(s)].b \in Firsts \ {"v"}
         /\ Missing(s) = "9" <=> Len(s) > 1 /\ s[Len(s) - 1].b = "v"
<1> DEFINE n == Len(s)
<1>1. n \in Nat /\ DOMAIN s = 1 .. n /\ (s = <<>> <=> n = 0)
  BY IsSeq
<1>2. CASE n = 0
  BY <1>1, <1>2 DEF Missing
<1>3. CASE n > 0
  <2>1. n \in DOMAIN s /\ s # <<>>
    BY <1>1, <1>3
  <2>2. /\ s[n].b = "pin" <=> n > 1 /\ s[n - 1].b \in Firsts
        /\ s[n].b = "9" <=> n > 2 /\ s[n - 2].b = "v"
    BY <2>1 DEF Framed
  <2>3. n = 1 => s[n].b # "pin"
    BY <2>2, <1>3, <1>1
  <2> HIDE DEF n
  <2>4. Missing(s) = CASE s[n].b = "v" -> "pin9" [] s[n].b \in Firsts \ {"v"} -> "pin"
                      [] s[n].b = "pin" /\ s[n - 1].b = "v" -> "9" [] OTHER -> "nothing"
    BY <2>1 DEF Missing, n
  <2>5. n > 1 /\ s[n - 1].b = "v" => s[n].b = "pin"
    BY <2>2 DEF Firsts
  <2>6. /\ Missing(s) \in {"nothing", "pin", "pin9", "9"}
        /\ Missing(s) = "pin9" <=> n > 0 /\ s[n].b = "v"
        /\ Missing(s) = "pin" <=> n > 0 /\ s[n].b \in Firsts \ {"v"}
    BY <2>4, <1>3 DEF Firsts
  <2>7. Missing(s) = "9" <=> n > 1 /\ s[n - 1].b = "v"
    <3>1. CASE n = 1
      BY <3>1, <2>3, <2>4
    <3>2. CASE n > 1
      BY <3>2, <2>4, <2>5 DEF Firsts
    <3> QED
      BY <3>1, <3>2, <1>3, <1>1
  <2> QED
    BY <2>6, <2>7 DEF n
<1> QED
  BY <1>1, <1>2, <1>3

Stages == {"nothing", "pin", "pin9", "9"}

\* What is missing after the byte b, when m was missing before it.
Then(m, b) ==
    CASE b = "v" -> "pin9" [] b \in Firsts \ {"v"} -> "pin"
      [] b = "pin" /\ m = "pin9" -> "9" [] OTHER -> "nothing"

Fits(m, b) ==
    CASE m = "nothing" -> b \in Firsts [] m \in {"pin", "pin9"} -> b = "pin" [] m = "9" -> b = "9"

LEMMA FramedMore ==
  ASSUME NEW s \in Seq(Bytewise), NEW u, NEW e \in Bytewise, More(s, u, e), Framed(s),
         Fits(Missing(s), e.b) \/ (Missing(s) = "nothing" /\ e.b = "@")
  PROVE  Framed(u) /\ Missing(u) = Then(Missing(s), e.b)
<1> DEFINE n == Len(s)
<1>1. /\ n \in Nat /\ DOMAIN s = 1 .. n /\ DOMAIN u = 1 .. n + 1 /\ Len(u) = n + 1
      /\ u \in Seq(Bytewise) /\ \A i \in 1 .. n : u[i] = s[i]
      /\ u[n + 1] = e
  BY IsSeq DEF More
<1>2. /\ Missing(s) \in {"nothing", "pin", "pin9", "9"}
      /\ Missing(s) = "pin9" <=> n > 0 /\ s[n].b = "v"
      /\ Missing(s) = "pin" <=> n > 0 /\ s[n].b \in Firsts \ {"v"}
      /\ Missing(s) = "9" <=> n > 1 /\ s[n - 1].b = "v"
  BY MissingIs
<1> HIDE DEF n
<1>3. ASSUME NEW i \in 1 .. n
      PROVE  /\ u[i].b = "pin" <=> i > 1 /\ u[i - 1].b \in Firsts
             /\ u[i].b = "9" <=> i > 2 /\ u[i - 2].b = "v"
  <2>1. /\ s[i].b = "pin" <=> i > 1 /\ s[i - 1].b \in Firsts
        /\ s[i].b = "9" <=> i > 2 /\ s[i - 2].b = "v"
    BY <1>1 DEF Framed
  <2>2. /\ i > 1 => i - 1 \in 1 .. n
        /\ i > 2 => i - 2 \in 1 .. n
    BY <1>1
  <2> QED
    BY <2>1, <2>2, <1>1
<1>4. /\ e.b = "pin" <=> n + 1 > 1 /\ u[n + 1 - 1].b \in Firsts
      /\ e.b = "9" <=> n + 1 > 2 /\ u[n + 1 - 2].b = "v"
  <2>1. n > 1 /\ s[n - 1].b = "v" => s[n].b = "pin"
    <3> SUFFICES ASSUME n > 1, s[n - 1].b = "v" PROVE s[n].b = "pin"
      OBVIOUS
    <3>1. n \in DOMAIN s
      BY <1>1
    <3> QED
      BY <3>1 DEF Framed, Firsts
  <2>2. n + 1 - 1 = n /\ n + 1 - 2 = n - 1 /\ (n > 0 => u[n] = s[n]) /\ (n > 1 => u[n - 1] = s[n - 1])
    BY <1>1
  <2>3. e.b = "pin" <=> Missing(s) \in {"pin", "pin9"}
    BY <1>2 DEF Firsts, Fits
  <2>4. e.b = "9" <=> Missing(s) = "9"
    BY <1>2 DEF Firsts, Fits
  <2> QED
    BY <2>1, <2>2, <2>3, <2>4, <1>1, <1>2 DEF Firsts
<1>5. Framed(u)
  <2> SUFFICES ASSUME NEW i \in 1 .. n + 1
               PROVE  /\ u[i].b = "pin" <=> i > 1 /\ u[i - 1].b \in Firsts
                      /\ u[i].b = "9" <=> i > 2 /\ u[i - 2].b = "v"
    BY <1>1 DEF Framed
  <2>1. i \in 1 .. n \/ i = n + 1
    BY <1>1
  <2> QED
    BY <2>1, <1>3, <1>4, <1>1
<1>6. /\ Missing(u) \in {"nothing", "pin", "pin9", "9"}
      /\ Missing(u) = "pin9" <=> n + 1 > 0 /\ u[n + 1].b = "v"
      /\ Missing(u) = "pin" <=> n + 1 > 0 /\ u[n + 1].b \in Firsts \ {"v"}
      /\ Missing(u) = "9" <=> n + 1 > 1 /\ u[n + 1 - 1].b = "v"
  BY <1>5, <1>1, MissingIs
<1>7. n + 1 - 1 = n /\ n + 1 > 0 /\ (n + 1 > 1 <=> n > 0) /\ (n > 0 => u[n] = s[n])
  BY <1>1
<1>8. Missing(s) = "pin9" => e.b = "pin"
  BY <1>2 DEF Fits
<1> QED
  BY <1>5, <1>6, <1>7, <1>8, <1>2, <1>1 DEF Firsts, Then

LEMMA FramedLess ==
  ASSUME NEW s \in Seq(Bytewise), s # <<>>, NEW u, Less(s, u, Wants(s[1].b)), Framed(s)
  PROVE  /\ Framed(u) /\ Missing(u) = Missing(s)
         /\ s[1].b \in Firsts \cup {"@"} /\ Wants(s[1].b) \in 1 .. 3
         /\ Wants(s[1].b) >= 2 => s[2].b = "pin"
         /\ Wants(s[1].b) = 3 => s[1].b = "v" /\ s[3].b = "9"
<1> DEFINE n == Len(s)  k == Wants(s[1].b)
<1>1. /\ n \in Nat /\ n > 0 /\ DOMAIN s = 1 .. n /\ \A i \in 1 .. n : s[i] \in Bytewise
      /\ u \in Seq(Bytewise) /\ k <= n /\ Len(u) = n - k
      /\ \A i \in 1 .. n - k : u[i] = s[i + k]
  BY IsSeq DEF Less
<1>2. /\ k = CASE s[1].b = "@" -> 1 [] s[1].b = "v" -> 3 [] OTHER -> 2
      /\ k \in 1 .. 3
  BY DEF Wants
<1>3. ASSUME NEW i \in 1 .. n
      PROVE  /\ s[i].b = "pin" <=> i > 1 /\ s[i - 1].b \in Firsts
             /\ s[i].b = "9" <=> i > 2 /\ s[i - 2].b = "v"
             /\ s[i].b \in WireBytes
  BY <1>1 DEF Framed, Bytewise
<1>4. s[1].b \in Firsts \cup {"@"}
  <2>1. 1 \in 1 .. n /\ ~(1 > 1) /\ ~(1 > 2)
    BY <1>1
  <2>2. s[1].b # "pin" /\ s[1].b # "9" /\ s[1].b \in WireBytes
    BY <2>1, <1>3
  <2> QED
    BY <2>2 DEF WireBytes
<1> HIDE DEF n, k
<1>5. k >= 2 => s[2].b = "pin"
  <2> SUFFICES ASSUME k >= 2 PROVE s[2].b = "pin"
    OBVIOUS
  <2>1. s[1].b \in Firsts
    BY <1>2, <1>4
  <2>2. 2 \in 1 .. n /\ 2 - 1 = 1
    BY <1>1, <1>2
  <2> QED
    BY <2>1, <2>2, <1>3
<1>6. k = 3 => s[1].b = "v" /\ s[3].b = "9"
  <2> SUFFICES ASSUME k = 3 PROVE s[1].b = "v" /\ s[3].b = "9"
    OBVIOUS
  <2>1. s[1].b = "v"
    BY <1>2
  <2>2. 3 \in 1 .. n /\ 3 - 2 = 1
    BY <1>1, <1>2
  <2> QED
    BY <2>1, <2>2, <1>3
<1>7. s[k].b \notin Firsts /\ (k > 1 => s[k - 1].b # "v")
  <2>1. CASE k = 1
    BY <2>1, <1>2 DEF Firsts
  <2>2. CASE k = 2
    BY <2>2, <1>2, <1>5 DEF Firsts
  <2>3. CASE k = 3
    BY <2>3, <1>5, <1>6 DEF Firsts
  <2> QED
    BY <2>1, <2>2, <2>3, <1>2
<1>8. ASSUME NEW i \in 1 .. n - k
      PROVE  /\ u[i].b = "pin" <=> i > 1 /\ u[i - 1].b \in Firsts
             /\ u[i].b = "9" <=> i > 2 /\ u[i - 2].b = "v"
  <2>1. /\ i + k \in 1 .. n /\ u[i] = s[i + k]
        /\ i > 1 => i - 1 \in 1 .. n - k /\ u[i - 1] = s[(i + k) - 1]
        /\ i > 2 => i - 2 \in 1 .. n - k /\ u[i - 2] = s[(i + k) - 2]
    <3>1. i + k \in 1 .. n
      BY <1>1, <1>2
    <3>2. i > 1 => i - 1 \in 1 .. n - k /\ (i - 1) + k = (i + k) - 1
      BY <1>1, <1>2
    <3>3. i > 2 => i - 2 \in 1 .. n - k /\ (i - 2) + k = (i + k) - 2
      BY <1>1, <1>2
    <3> QED
      BY <3>1, <3>2, <3>3, <1>1
  <2>2. /\ u[i].b = "pin" <=> i + k > 1 /\ s[(i + k) - 1].b \in Firsts
        /\ u[i].b = "9" <=> i + k > 2 /\ s[(i + k) - 2].b = "v"
    <3> DEFINE m == i + k
    <3> HIDE DEF m
    <3>1. m \in 1 .. n /\ u[i] = s[m]
      BY <2>1 DEF m
    <3>2. /\ s[m].b = "pin" <=> m > 1 /\ s[m - 1].b \in Firsts
          /\ s[m].b = "9" <=> m > 2 /\ s[m - 2].b = "v"
      BY <3>1, <1>3
    <3>3. /\ u[i].b = "pin" <=> m > 1 /\ s[m - 1].b \in Firsts
          /\ u[i].b = "9" <=> m > 2 /\ s[m - 2].b = "v"
      BY <3>1, <3>2
    <3> QED
      BY <3>3 DEF m
  <2>3. CASE i = 1
    <3>1. (i + k) - 1 = k /\ (i + k) - 2 = k - 1 /\ (i + k > 2 <=> k > 1)
      BY <2>3, <1>2
    <3> QED
      BY <3>1, <2>2, <2>3, <1>7
  <2>4. CASE i = 2
    <3>1. (i + k) - 2 = k /\ i + k > 2 /\ i + k > 1 /\ i > 1 /\ ~(i > 2)
      BY <2>4, <1>2
    <3>2. s[k].b # "v"
      BY <1>7 DEF Firsts
    <3> QED
      BY <3>1, <3>2, <2>2, <2>1
  <2>5. CASE i > 2
    <3>1. i > 1 /\ i + k > 1 /\ i + k > 2
      BY <2>5, <1>2
    <3> QED
      BY <3>1, <2>5, <2>1, <2>2
  <2> QED
    BY <2>3, <2>4, <2>5, <1>1
<1>9. DOMAIN u = 1 .. n - k /\ n - k \in Nat
  BY <1>1, <1>2, IsSeq
<1>10. Framed(u)
  BY <1>8, <1>9 DEF Framed
<1>11. Missing(u) = Missing(s)
  <2>1. /\ Missing(u) \in {"nothing", "pin", "pin9", "9"}
        /\ Missing(u) = "pin9" <=> n - k > 0 /\ u[n - k].b = "v"
        /\ Missing(u) = "pin" <=> n - k > 0 /\ u[n - k].b \in Firsts \ {"v"}
        /\ Missing(u) = "9" <=> n - k > 1 /\ u[n - k - 1].b = "v"
    BY <1>1, <1>10, MissingIs
  <2>2. /\ Missing(s) \in {"nothing", "pin", "pin9", "9"}
        /\ Missing(s) = "pin9" <=> n > 0 /\ s[n].b = "v"
        /\ Missing(s) = "pin" <=> n > 0 /\ s[n].b \in Firsts \ {"v"}
        /\ Missing(s) = "9" <=> n > 1 /\ s[n - 1].b = "v"
    BY MissingIs DEF n
  <2>3. CASE n - k = 0
    <3>1. n = k
      BY <2>3, <1>1, <1>2
    <3>2. s[n].b \notin Firsts /\ (n > 1 => s[n - 1].b # "v")
      BY <3>1, <1>7
    <3>3. Missing(s) = "nothing"
      BY <3>2, <2>2 DEF Firsts
    <3>4. Missing(u) = "nothing"
      BY <2>3, <2>1
    <3> QED
      BY <3>3, <3>4
  <2>4. CASE n - k = 1
    <3>1. n - 1 = k /\ 1 + k = n /\ u[1] = s[n]
      BY <2>4, <1>1, <1>2
    <3>2. s[k].b # "v"
      BY <1>7 DEF Firsts
    <3> QED
      BY <3>1, <3>2, <2>1, <2>2, <2>4, <1>1
  <2>5. CASE n - k > 1
    <3>1. /\ n - k \in 1 .. n - k /\ n - k - 1 \in 1 .. n - k
          /\ (n - k) + k = n /\ (n - k - 1) + k = n - 1 /\ n > 1
      BY <2>5, <1>1, <1>2
    <3>2. u[n - k] = s[n] /\ u[n - k - 1] = s[n - 1]
      BY <3>1, <1>1
    <3> QED
      BY <3>1, <3>2, <2>1, <2>2, <2>5, <1>1
  <2> QED
    BY <2>3, <2>4, <2>5, <1>9
<1> QED
  BY <1>2, <1>4, <1>5, <1>6, <1>10, <1>11 DEF k

LEMMA OwesFinite ==
  ASSUME NEW s \in Seq(Bytewise)
  PROVE  IsFiniteSet(Owes(s)) /\ Cardinality(Owes(s)) \in Nat
<1>1. IsFiniteSet(1 .. Len(s)) /\ DOMAIN s = 1 .. Len(s)
  BY IsSeq, FS_Interval
<1>2. IsFiniteSet({1, 2})
  <2>1. IsFiniteSet({1}) /\ IsFiniteSet({2}) /\ {1, 2} = {1} \cup {2}
    BY FS_Singleton
  <2> QED
    BY <2>1, FS_Union
<1>3. IsFiniteSet((DOMAIN s) \X {1, 2})
  BY <1>1, <1>2, FS_Product
<1>4. Owes(s) \subseteq (DOMAIN s) \X {1, 2}
  BY DEF Owes
<1>5. IsFiniteSet(Owes(s))
  BY <1>3, <1>4, FS_Subset
<1> QED
  BY <1>5, FS_CardinalityType

LEMMA OwesMore ==
  ASSUME NEW s \in Seq(Bytewise), NEW u, NEW e \in Bytewise, More(s, u, e)
  PROVE  Cardinality(Owes(u)) = Cardinality(Owes(s)) + Answers(e)
<1> DEFINE n == Len(s)
<1>1. /\ n \in Nat /\ DOMAIN s = 1 .. n /\ DOMAIN u = 1 .. n + 1
      /\ \A i \in 1 .. n : u[i] = s[i]
      /\ u[n + 1] = e
  BY IsSeq DEF More
<1>2. IsFiniteSet(Owes(s)) /\ Cardinality(Owes(s)) \in Nat
  BY OwesFinite
<1>3. Answers(e) \in {0, 1, 2}
  BY AnswersAre
<1> HIDE DEF n
<1>4. n + 1 \notin 1 .. n /\ 1 .. n + 1 = (1 .. n) \cup {n + 1}
  BY <1>1
<1>5. /\ \A o \in Owes(s) : o[1] \in 1 .. n
      /\ Owes(s) = {o \in (1 .. n) \X {1, 2} : o[2] <= Answers(u[o[1]])}
      /\ Owes(u) = {o \in ((1 .. n) \cup {n + 1}) \X {1, 2} : o[2] <= Answers(u[o[1]])}
  BY <1>1, <1>4 DEF Owes
<1>6. Owes(u) = Owes(s) \cup {o \in {n + 1} \X {1, 2} : o[2] <= Answers(e)}
  BY <1>5, <1>1
<1>7. <<n + 1, 1>> \notin Owes(s) /\ <<n + 1, 2>> \notin Owes(s)
  BY <1>5, <1>4
<1>8. CASE Answers(e) = 0
  <2>1. {o \in {n + 1} \X {1, 2} : o[2] <= 0} = {}
    OBVIOUS
  <2>2. Owes(u) = Owes(s)
    BY <1>6, <1>8, <2>1
  <2> QED
    BY <2>2, <1>8, <1>2
<1>9. CASE Answers(e) = 1
  <2>1. {o \in {n + 1} \X {1, 2} : o[2] <= 1} = {<<n + 1, 1>>}
    OBVIOUS
  <2>2. Owes(u) = Owes(s) \cup {<<n + 1, 1>>}
    BY <1>6, <1>9, <2>1
  <2> QED
    BY <2>2, <1>9, <1>2, <1>7, FS_AddElement
<1>10. CASE Answers(e) = 2
  <2>1. {o \in {n + 1} \X {1, 2} : o[2] <= 2} = {<<n + 1, 1>>} \cup {<<n + 1, 2>>}
    OBVIOUS
  <2> DEFINE r == Owes(s) \cup {<<n + 1, 1>>}  x == <<n + 1, 2>>
  <2>2. Owes(u) = r \cup {x} /\ x \notin r
    BY <1>6, <1>10, <2>1, <1>7
  <2>3. IsFiniteSet(r) /\ Cardinality(r) = Cardinality(Owes(s)) + 1
    BY <1>2, <1>7, FS_AddElement
  <2> HIDE DEF r, x
  <2>4. Cardinality(Owes(u)) = Cardinality(r) + 1
    BY <2>2, <2>3, FS_AddElement
  <2> QED
    BY <2>3, <2>4, <1>10, <1>2
<1> QED
  BY <1>3, <1>8, <1>9, <1>10

LEMMA OwesLess ==
  ASSUME NEW s \in Seq(Bytewise), NEW u, NEW k \in 1 .. 3, Less(s, u, k),
         \A i \in 2 .. k : Answers(s[i]) = 0
  PROVE  Cardinality(Owes(u)) = Cardinality(Owes(s)) - Answers(s[1])
<1> DEFINE n == Len(s)
<1>1. /\ n \in Nat /\ k <= n /\ n - k \in Nat /\ DOMAIN s = 1 .. n /\ DOMAIN u = 1 .. n - k
      /\ \A i \in 1 .. n - k : u[i] = s[i + k]
      /\ \A i \in 1 .. n : s[i] \in Bytewise
      /\ u \in Seq(Bytewise)
  BY IsSeq DEF Less
<1>2. IsFiniteSet(Owes(u)) /\ Cardinality(Owes(u)) \in Nat
  BY <1>1, OwesFinite
<1>3. Answers(s[1]) \in {0, 1, 2}
  <2>1. 1 \in 1 .. n
    BY <1>1
  <2> QED
    BY <2>1, <1>1, AnswersAre
<1> HIDE DEF n
<1> DEFINE kept == {o \in ((k + 1) .. n) \X {1, 2} : o[2] <= Answers(s[o[1]])}
<1>4. IsFiniteSet(kept) /\ Cardinality(kept) = Cardinality(Owes(u))
  <2> DEFINE f == [o \in Owes(u) |-> <<o[1] + k, o[2]>>]
  <2>1. ASSUME NEW o \in Owes(u)
        PROVE  f[o] \in kept
    <3>1. o[1] \in 1 .. n - k /\ o[2] \in {1, 2} /\ o[2] <= Answers(u[o[1]])
      BY <1>1 DEF Owes
    <3>2. o[1] + k \in (k + 1) .. n /\ u[o[1]] = s[o[1] + k]
      BY <3>1, <1>1
    <3> QED
      BY <3>1, <3>2
  <2>2. ASSUME NEW o \in Owes(u), NEW q \in Owes(u), f[o] = f[q]
        PROVE  o = q
    <3>1. /\ o \in (1 .. n - k) \X {1, 2} /\ q \in (1 .. n - k) \X {1, 2}
      BY <1>1 DEF Owes
    <3>2. o[1] + k = q[1] + k /\ o[2] = q[2]
      BY <2>2
    <3>3. o[1] = q[1]
      BY <3>1, <3>2, <1>1
    <3> QED
      BY <3>1, <3>2, <3>3
  <2>3. ASSUME NEW q \in kept
        PROVE  \E o \in Owes(u) : f[o] = q
    <3> DEFINE o == <<q[1] - k, q[2]>>
    <3>1. /\ q \in ((k + 1) .. n) \X {1, 2} /\ q[1] \in (k + 1) .. n /\ q[2] \in {1, 2}
          /\ q[2] <= Answers(s[q[1]])
      OBVIOUS
    <3>2. q[1] - k \in 1 .. n - k /\ (q[1] - k) + k = q[1]
      BY <3>1, <1>1
    <3>3. u[q[1] - k] = s[q[1]]
      BY <3>2, <1>1
    <3>4. o \in Owes(u)
      BY <3>1, <3>2, <3>3, <1>1 DEF Owes
    <3>5. f[o] = q
      BY <3>4, <3>2, <3>1
    <3> QED
      BY <3>4, <3>5
  <2> HIDE DEF kept
  <2>4. f \in [Owes(u) -> kept]
    BY <2>1
  <2>5. f \in Injection(Owes(u), kept)
    BY <2>2, <2>4 DEF Injection, IsInjective
  <2>6. f \in Surjection(Owes(u), kept)
    BY <2>3, <2>4 DEF Surjection
  <2>7. ExistsBijection(Owes(u), kept)
    BY <2>5, <2>6 DEF ExistsBijection, Bijection
  <2> QED
    BY <2>7, <1>2, FS_Bijection
<1>5. Owes(s) = kept \cup {o \in {1} \X {1, 2} : o[2] <= Answers(s[1])}
  <2>1. ASSUME NEW o \in Owes(s)
        PROVE  o \in kept \/ (o \in {1} \X {1, 2} /\ o[2] <= Answers(s[1]))
    <3>1. o \in (1 .. n) \X {1, 2} /\ o[1] \in 1 .. n /\ o[2] \in {1, 2} /\ o[2] <= Answers(s[o[1]])
      BY <1>1 DEF Owes
    <3>2. CASE o[1] = 1
      BY <3>1, <3>2
    <3>3. CASE o[1] \in 2 .. k
      <4>1. Answers(s[o[1]]) = 0
        BY <3>3
      <4> QED
        BY <4>1, <3>1
    <3>4. CASE o[1] \in (k + 1) .. n
      BY <3>1, <3>4
    <3> QED
      BY <3>1, <3>2, <3>3, <3>4, <1>1
  <2>2. ASSUME NEW o \in kept PROVE o \in Owes(s)
    <3>1. o \in ((k + 1) .. n) \X {1, 2} /\ o[2] <= Answers(s[o[1]])
      OBVIOUS
    <3>2. (k + 1) .. n \subseteq 1 .. n
      BY <1>1
    <3> QED
      BY <3>1, <3>2, <1>1 DEF Owes
  <2>3. ASSUME NEW o \in {1} \X {1, 2}, o[2] <= Answers(s[1]) PROVE o \in Owes(s)
    <3>1. 1 \in 1 .. n
      BY <1>1
    <3> QED
      BY <3>1, <2>3, <1>1 DEF Owes
  <2> HIDE DEF kept
  <2> QED
    BY <2>1, <2>2, <2>3
<1>6. <<1, 1>> \notin kept /\ <<1, 2>> \notin kept
  BY <1>1
<1> HIDE DEF kept
<1>7. CASE Answers(s[1]) = 0
  <2>1. {o \in {1} \X {1, 2} : o[2] <= 0} = {}
    OBVIOUS
  <2>2. Owes(s) = kept
    BY <1>5, <1>7, <2>1
  <2> QED
    BY <2>2, <1>7, <1>2, <1>4
<1>8. CASE Answers(s[1]) = 1
  <2>1. {o \in {1} \X {1, 2} : o[2] <= 1} = {<<1, 1>>}
    OBVIOUS
  <2>2. Owes(s) = kept \cup {<<1, 1>>}
    BY <1>5, <1>8, <2>1
  <2>3. Cardinality(Owes(s)) = Cardinality(kept) + 1
    BY <2>2, <1>4, <1>6, FS_AddElement
  <2> QED
    BY <2>3, <1>8, <1>2, <1>4
<1>9. CASE Answers(s[1]) = 2
  <2>1. {o \in {1} \X {1, 2} : o[2] <= 2} = {<<1, 1>>} \cup {<<1, 2>>}
    OBVIOUS
  <2> DEFINE r == kept \cup {<<1, 1>>}
  <2>2. Owes(s) = r \cup {<<1, 2>>} /\ <<1, 2>> \notin r
    BY <1>5, <1>9, <2>1, <1>6
  <2>3. IsFiniteSet(r) /\ Cardinality(r) = Cardinality(kept) + 1
    BY <1>4, <1>6, FS_AddElement
  <2> HIDE DEF r
  <2>4. Cardinality(Owes(s)) = Cardinality(r) + 1
    BY <2>2, <2>3, FS_AddElement
  <2> QED
    BY <2>3, <2>4, <1>9, <1>2, <1>4
<1> QED
  BY <1>3, <1>7, <1>8, <1>9

LEMMA OwesNone ==
  ASSUME NEW s \in Seq(Bytewise)
  PROVE  /\ Cardinality(Owes(s)) = 0 <=> Owes(s) = {}
         /\ Owes(s) = {} <=> \A i \in 1 .. Len(s) : Answers(s[i]) = 0
<1>1. Cardinality(Owes(s)) = 0 <=> Owes(s) = {}
  BY OwesFinite, FS_EmptySet
<1>2. ASSUME Owes(s) = {}, NEW i \in 1 .. Len(s) PROVE Answers(s[i]) = 0
  <2>1. Answers(s[i]) \in {0, 1, 2} /\ i \in DOMAIN s
    BY IsSeq, AnswersAre
  <2>2. <<i, 1>> \notin Owes(s)
    BY <1>2
  <2> QED
    BY <2>1, <2>2 DEF Owes
<1>3. ASSUME \A i \in 1 .. Len(s) : Answers(s[i]) = 0 PROVE Owes(s) = {}
  BY <1>3, IsSeq DEF Owes
<1> QED
  BY <1>1, <1>2, <1>3

-----------------------------------------------------------------------------
(* What is left of a call.                                                 *)

LEMMA PutPlans ==
  ASSUME NEW m \in Stages, NEW p \in Plans(m), p # <<>>, Head(p).do = "put"
  PROVE  /\ Fits(m, Head(p).what) /\ Tail(p) \in Plans(Then(m, Head(p).what))
         /\ p \notin GetPlans
<1>1. CASE m = "9"
  <2>1. p = <<PutByte("9")>>
    BY <1>1 DEF Plans
  <2>2. Head(p).what = "9" /\ Tail(p) = <<>> /\ p \notin GetPlans
    BY <2>1 DEF GetPlans, PutByte, GetPart
  <2>3. Then("9", "9") = "nothing" /\ <<>> \in Plans("nothing") /\ Fits("9", "9")
    BY DEF Then, Fits, Plans, GetPlans, Firsts
  <2> QED
    BY <1>1, <2>2, <2>3
<1>2. CASE m = "pin9"
  <2>1. p = <<Pin, PutByte("9")>>
    BY <1>2 DEF Plans
  <2>2. Head(p).what = "pin" /\ Tail(p) = <<PutByte("9")>> /\ p \notin GetPlans
    BY <2>1 DEF GetPlans, PutByte, GetPart, Pin
  <2>3. Then("pin9", "pin") = "9" /\ <<PutByte("9")>> \in Plans("9") /\ Fits("pin9", "pin")
    BY DEF Then, Fits, Plans, Firsts
  <2> QED
    BY <1>2, <2>2, <2>3
<1>3. CASE m = "pin"
  <2>1. CASE p = <<Pin>>
    BY <2>1, <1>3 DEF Plans, Fits, Then, GetPlans, PutByte, GetPart, Pin, Firsts
  <2>2. CASE p = <<Pin, GetPart(1)>>
    BY <2>2, <1>3 DEF Plans, Fits, Then, GetPlans, PutByte, GetPart, Pin, Firsts
  <2>3. CASE p = <<Pin, GetPart(1), GetPart(2)>>
    BY <2>3, <1>3 DEF Plans, Fits, Then, GetPlans, PutByte, GetPart, Pin, Firsts
  <2>4. CASE \E b \in {"0", "1"} : p = <<Pin, PutByte(b), Pin>>
    BY <2>4, <1>3 DEF Plans, Fits, Then, GetPlans, PutByte, GetPart, Pin, Firsts
  <2> QED
    BY <2>1, <2>2, <2>3, <2>4, <1>3 DEF Plans
<1>4. CASE m = "nothing"
  <2>1. CASE p \in GetPlans
    BY <2>1 DEF GetPlans, GetPart
  <2>2. CASE \E b \in {"i", "o", "p", "0", "1"} : p = <<PutByte(b), Pin>>
    BY <2>2, <1>4 DEF Plans, Fits, Then, GetPlans, PutByte, GetPart, Pin, Firsts
  <2>3. CASE \E b \in {"0", "1"} : p = <<PutByte("i"), Pin, PutByte(b), Pin>>
    BY <2>3, <1>4 DEF Plans, Fits, Then, GetPlans, PutByte, GetPart, Pin, Firsts
  <2>4. CASE p = <<PutByte("v"), Pin, PutByte("9")>>
    BY <2>4, <1>4 DEF Plans, Fits, Then, GetPlans, PutByte, GetPart, Pin, Firsts
  <2>5. CASE p = <<PutByte("r"), Pin, GetPart(1)>>
    BY <2>5, <1>4 DEF Plans, Fits, Then, GetPlans, PutByte, GetPart, Pin, Firsts
  <2>6. CASE p = <<PutByte("a"), Pin, GetPart(1), GetPart(2)>>
    BY <2>6, <1>4 DEF Plans, Fits, Then, GetPlans, PutByte, GetPart, Pin, Firsts
  <2> QED
    BY <2>1, <2>2, <2>3, <2>4, <2>5, <2>6, <1>4 DEF Plans
<1> QED
  BY <1>1, <1>2, <1>3, <1>4 DEF Stages

\* How many answers a byte brings.
Brings(b) == IF b \in {"@", "r"} THEN 1 ELSE IF b = "a" THEN 2 ELSE 0

\* The plans of Plans that end in reads, and what the steps make of them.
LEMMA PutDue ==
  ASSUME NEW m \in Stages, NEW p \in Plans(m), p # <<>>, Head(p).do = "put"
  PROVE  /\ Due(Tail(p)) = Due(p) + Brings(Head(p).what)
         /\ Tail(p) \in GetPlans => Len(Tail(p)) \in 0 .. 2
         /\ Brings(Head(p).what) > 0 => Tail(p) = PinAndGets(Brings(Head(p).what))
         /\ \A n \in 1 .. 2 : Tail(p) = PinAndGets(n) => Brings(Head(p).what) = n
         /\ \A n \in 1 .. 2 : Tail(p) = AllGets(n) => p = PinAndGets(n)
         /\ Tail(p) # <<GetPart(2)>>
<1> USE DEF Plans, Due, Brings, PinAndGets, AllGets, GetPlans, PutByte, GetPart, Pin
<1>1. CASE m = "9"
  <2>1. p = <<PutByte("9")>>
    BY <1>1
  <2>2. Head(p).what = "9" /\ Tail(p) = <<>> /\ p \notin GetPlans
    BY <2>1
  <2>3. Due(p) = 0 /\ Due(<<>>) = 0 /\ Len(<<>>) = 0
    BY <2>1, <2>2
  <2>4. \A n \in 1 .. 2 : PinAndGets(n) # <<>> /\ AllGets(n) # <<>>
    OBVIOUS
  <2>5. <<>> # <<GetPart(2)>> /\ Brings("9") = 0
    OBVIOUS
  <2> HIDE DEF Due, Brings, PinAndGets, AllGets, GetPlans, GetPart
  <2>6. Due(Tail(p)) = Due(p) + Brings(Head(p).what) /\ (Tail(p) \in GetPlans => Len(Tail(p)) \in 0 .. 2)
    <3>1. Due(Tail(p)) = 0
      BY <2>2, <2>3
    <3>2. Brings(Head(p).what) = 0
      BY <2>2, <2>5
    <3>3. Len(Tail(p)) = 0
      BY <2>2, <2>3
    <3> QED
      BY <3>1, <3>2, <3>3, <2>3
  <2>7. /\ Brings(Head(p).what) > 0 => Tail(p) = PinAndGets(Brings(Head(p).what))
        /\ Tail(p) # <<GetPart(2)>>
    BY <2>2, <2>5
  <2>8. ASSUME NEW n \in 1 .. 2 PROVE Tail(p) # PinAndGets(n) /\ Tail(p) # AllGets(n)
    BY <2>2, <2>4
  <2> QED
    BY <2>6, <2>7, <2>8
<1>2. CASE m = "pin9"
  <2>1. p = <<Pin, PutByte("9")>>
    BY <1>2
  <2>2. Head(p).what = "pin" /\ Tail(p) = <<PutByte("9")>> /\ p \notin GetPlans
    BY <2>1
  <2>3. Due(p) = 0
    BY <2>1, <2>2
  <2> QED
    BY <2>2, <2>3
<1>3. CASE m = "pin"
  <2>1. CASE p = <<Pin>>
    BY <2>1, <1>3
  <2>2. CASE p = <<Pin, GetPart(1)>>
    BY <2>2, <1>3
  <2>3. CASE p = <<Pin, GetPart(1), GetPart(2)>>
    BY <2>3, <1>3
  <2>4. CASE \E b \in {"0", "1"} : p = <<Pin, PutByte(b), Pin>>
    BY <2>4, <1>3
  <2> QED
    BY <2>1, <2>2, <2>3, <2>4, <1>3
<1>4. CASE m = "nothing"
  <2>1. CASE p \in GetPlans
    BY <2>1
  <2>2. CASE \E b \in {"i", "o", "p", "0", "1"} : p = <<PutByte(b), Pin>>
    BY <2>2, <1>4
  <2>3. CASE \E b \in {"0", "1"} : p = <<PutByte("i"), Pin, PutByte(b), Pin>>
    BY <2>3, <1>4
  <2>4. CASE p = <<PutByte("v"), Pin, PutByte("9")>>
    BY <2>4, <1>4
  <2>5. CASE p = <<PutByte("r"), Pin, GetPart(1)>>
    BY <2>5, <1>4
  <2>6. CASE p = <<PutByte("a"), Pin, GetPart(1), GetPart(2)>>
    BY <2>6, <1>4
  <2> QED
    BY <2>1, <2>2, <2>3, <2>4, <2>5, <2>6, <1>4
<1> QED
  BY <1>1, <1>2, <1>3, <1>4 DEF Stages

LEMMA GetPlan ==
  ASSUME NEW m \in Stages, NEW p \in Plans(m), p # <<>>, Head(p).do = "get"
  PROVE  /\ m = "nothing" /\ p \in GetPlans /\ Tail(p) \in GetPlans
         /\ Due(p) = Due(Tail(p)) + 1 /\ Len(p) = Len(Tail(p)) + 1 /\ Len(Tail(p)) \in 0 .. 1
         /\ \/ \E n \in 1 .. 2 : p = AllGets(n) /\ Head(p).part = 1
            \/ p = <<GetPart(2)>> /\ Head(p).part = 2
         /\ Tail(p) = <<GetPart(2)>> => p = AllGets(2)
         /\ \A n \in 1 .. 2 : Tail(p) # AllGets(n) /\ Tail(p) # PinAndGets(n)
<1>1. Head(p).do # "put"
  OBVIOUS
<1>2. m = "nothing" /\ p \in GetPlans
  <2>1. CASE m = "9"
    BY <2>1, <1>1 DEF Plans, PutByte
  <2>2. CASE m = "pin9"
    BY <2>2, <1>1 DEF Plans, PutByte, Pin
  <2>3. CASE m = "pin"
    BY <2>3, <1>1 DEF Plans, PutByte, Pin
  <2>4. CASE m = "nothing"
    BY <2>4, <1>1 DEF Plans, PutByte
  <2> QED
    BY <2>1, <2>2, <2>3, <2>4 DEF Stages
<1>3. CASE p = <<GetPart(1)>>
  BY <1>2, <1>3 DEF GetPlans, GetPart, Due, AllGets, PinAndGets
<1>4. CASE p = <<GetPart(2)>>
  BY <1>2, <1>4 DEF GetPlans, GetPart, Due, AllGets, PinAndGets
<1>5. CASE p = <<GetPart(1), GetPart(2)>>
  BY <1>2, <1>5 DEF GetPlans, GetPart, Due, AllGets, PinAndGets
<1> QED
  BY <1>2, <1>3, <1>4, <1>5 DEF GetPlans

LEMMA Joined ==
  ASSUME NEW S, NEW s \in Seq(S), NEW u \in Seq(S)
  PROVE  /\ s \o u \in Seq(S)
         /\ Len(s) \in Nat /\ Len(u) \in Nat /\ Len(s \o u) = Len(s) + Len(u)
         /\ \A i \in 1 .. Len(s) + Len(u) : (s \o u)[i] = IF i <= Len(s) THEN s[i] ELSE u[i - Len(s)]
  BY SMT

LEMMA JoinTuples ==
  ASSUME NEW a, NEW b, NEW d, NEW e
  PROVE  <<a, b>> \o <<d>> = <<a, b, d>> /\ <<a, b>> \o <<d, e>> = <<a, b, d, e>>
<1> DEFINE S == {a, b, d, e}  x == <<a, b>>  y == <<d>>  z == <<d, e>>  l == Len(x)  k == Len(y)  m == Len(z)
           xy == x \o y  xz == x \o z  v == <<a, b, d>>  w == <<a, b, d, e>>
<1>1. x \in Seq(S) /\ y \in Seq(S) /\ z \in Seq(S) /\ l = 2 /\ k = 1 /\ m = 2
  OBVIOUS
<1>2. x[1] = a /\ x[2] = b /\ y[1] = d /\ z[1] = d /\ z[2] = e
  OBVIOUS
<1>3. v \in Seq(S) /\ Len(v) = 3 /\ v[1] = a /\ v[2] = b /\ v[3] = d
  OBVIOUS
<1>4. w \in Seq(S) /\ Len(w) = 4 /\ w[1] = a /\ w[2] = b /\ w[3] = d /\ w[4] = e
  OBVIOUS
<1> HIDE DEF x, y, z, S, v, w
<1>5. xy \in Seq(S) /\ Len(xy) = l + k
      /\ \A i \in 1 .. l + k : xy[i] = IF i <= l THEN x[i] ELSE y[i - l]
  BY <1>1, Joined
<1>6. xz \in Seq(S) /\ Len(xz) = l + m
      /\ \A i \in 1 .. l + m : xz[i] = IF i <= l THEN x[i] ELSE z[i - l]
  BY <1>1, Joined
<1> HIDE DEF l, k, m, xy, xz
<1>7. Len(xy) = 3 /\ \A i \in 1 .. 3 : xy[i] = IF i <= 2 THEN x[i] ELSE y[i - 2]
  BY <1>5, <1>1
<1>8. xy[1] = a /\ xy[2] = b /\ xy[3] = d
  BY <1>7, <1>2
<1>9. Len(xz) = 4 /\ \A i \in 1 .. 4 : xz[i] = IF i <= 2 THEN x[i] ELSE z[i - 2]
  BY <1>6, <1>1
<1>10. xz[1] = a /\ xz[2] = b /\ xz[3] = d /\ xz[4] = e
  BY <1>9, <1>2
<1>11. \A i \in 1 .. 3 : xy[i] = v[i]
  <2> SUFFICES ASSUME NEW i \in 1 .. 3 PROVE xy[i] = v[i]
    OBVIOUS
  <2>1. i = 1 \/ i = 2 \/ i = 3
    OBVIOUS
  <2> QED
    BY <2>1, <1>8, <1>3
<1>12. \A i \in 1 .. 4 : xz[i] = w[i]
  <2> SUFFICES ASSUME NEW i \in 1 .. 4 PROVE xz[i] = w[i]
    OBVIOUS
  <2>1. i = 1 \/ i = 2 \/ i = 3 \/ i = 4
    OBVIOUS
  <2> QED
    BY <2>1, <1>10, <1>4
<1>13. xy = v
  BY <1>11, <1>7, <1>3, <1>5, SeqEqual
<1>14. xz = w
  BY <1>12, <1>9, <1>4, <1>6, SeqEqual
<1> QED
  BY <1>13, <1>14 DEF x, y, z, v, w, xy, xz

LEMMA KindsOfOps ==
  ASSUME NEW c \in Ops
  PROVE  /\ c.op \in {"pinMode", "pull", "digitalWrite", "pwmWrite", "digitalRead", "analogRead"}
         /\ c.op = "pull" => c.arg \in {"PUD_UP", "PUD_OFF", "PUD_DOWN"}
         /\ c.op = "digitalWrite" => c.arg \in {"0", "1"}
         /\ c.op = "pwmWrite" => c.arg = "9"
<1>1. CASE \E m \in Modes : c = [op |-> "pinMode", arg |-> m]
  BY <1>1
<1>2. CASE \E p \in {"PUD_UP", "PUD_DOWN", "PUD_OFF"} : c = [op |-> "pull", arg |-> p]
  BY <1>2
<1>3. CASE \E v \in {"0", "1"} : c = [op |-> "digitalWrite", arg |-> v]
  BY <1>3
<1>4. CASE c = [op |-> "pwmWrite", arg |-> "9"]
  BY <1>4
<1>5. CASE c = [op |-> "digitalRead", arg |-> ""]
  BY <1>5
<1>6. CASE c = [op |-> "analogRead", arg |-> ""]
  BY <1>6
<1> QED
  BY <1>1, <1>2, <1>3, <1>4, <1>5, <1>6 DEF Ops

\* The steps of a call on the line, written out.
LEMMA Written ==
  ASSUME NEW c \in Ops
  PROVE  SerialSteps(c) =
           CASE c.op = "pinMode" -> <<PutByte(ModeByte(c.arg)), Pin>>
             [] c.op = "pull" /\ c.arg = "PUD_UP" -> <<PutByte("i"), Pin, PutByte("1"), Pin>>
             [] c.op = "pull" /\ c.arg = "PUD_OFF" -> <<PutByte("i"), Pin, PutByte("0"), Pin>>
             [] c.op = "pull" /\ c.arg = "PUD_DOWN" -> <<PutByte("i"), Pin>>
             [] c.op = "digitalWrite" -> <<PutByte(c.arg), Pin>>
             [] c.op = "pwmWrite" -> <<PutByte("v"), Pin, PutByte("9")>>
             [] c.op = "digitalRead" -> <<PutByte("r"), Pin, GetPart(1)>>
             [] c.op = "analogRead" -> <<PutByte("a"), Pin, GetPart(1), GetPart(2)>>
<1> DEFINE puts == [i \in DOMAIN Bytes(c) |-> [do |-> "put", what |-> Bytes(c)[i]]]
           gets == [i \in 1 .. Gets(c) |-> [do |-> "get", part |-> i]]
<1>1. SerialSteps(c) = puts \o gets
  BY DEF SerialSteps
<1>2. ASSUME NEW a, NEW b, Bytes(c) = <<a, b>> PROVE puts = <<PutByte(a), PutByte(b)>>
  BY <1>2 DEF PutByte
<1>3. ASSUME NEW a, NEW b, NEW d, Bytes(c) = <<a, b, d>> PROVE puts = <<PutByte(a), PutByte(b), PutByte(d)>>
  BY <1>3 DEF PutByte
<1>4. ASSUME NEW a, NEW b, NEW d, NEW e, Bytes(c) = <<a, b, d, e>>
      PROVE  puts = <<PutByte(a), PutByte(b), PutByte(d), PutByte(e)>>
  BY <1>4 DEF PutByte
<1>5. Gets(c) = 0 => gets = <<>>
  OBVIOUS
<1>6. Gets(c) = 1 => gets = <<GetPart(1)>>
  BY DEF GetPart
<1>7. Gets(c) = 2 => gets = <<GetPart(1), GetPart(2)>>
  BY DEF GetPart
<1> HIDE DEF puts, gets
<1>8. CASE c.op = "pinMode"
  <2>1. Bytes(c) = <<ModeByte(c.arg), "pin">> /\ Gets(c) = 0
    BY <1>8 DEF Bytes, Gets
  <2>2. puts = <<PutByte(ModeByte(c.arg)), Pin>>
    BY <2>1, <1>2 DEF Pin
  <2>3. gets = <<>>
    BY <2>1, <1>5
  <2>4. <<PutByte(ModeByte(c.arg)), Pin>> \o <<>> = <<PutByte(ModeByte(c.arg)), Pin>>
    OBVIOUS
  <2> QED
    BY <1>8, <1>1, <2>2, <2>3, <2>4
<1>9. CASE c.op = "pull" /\ c.arg = "PUD_UP"
  <2>1. Bytes(c) = <<"i", "pin", "1", "pin">> /\ Gets(c) = 0
    BY <1>9 DEF Bytes, Gets
  <2>2. puts = <<PutByte("i"), Pin, PutByte("1"), Pin>>
    BY <2>1, <1>4 DEF Pin
  <2>3. gets = <<>>
    BY <2>1, <1>5
  <2>4. <<PutByte("i"), Pin, PutByte("1"), Pin>> \o <<>> = <<PutByte("i"), Pin, PutByte("1"), Pin>>
    OBVIOUS
  <2> QED
    BY <1>9, <1>1, <2>2, <2>3, <2>4
<1>10. CASE c.op = "pull" /\ c.arg = "PUD_OFF"
  <2>1. Bytes(c) = <<"i", "pin", "0", "pin">> /\ Gets(c) = 0
    BY <1>10 DEF Bytes, Gets
  <2>2. puts = <<PutByte("i"), Pin, PutByte("0"), Pin>>
    BY <2>1, <1>4 DEF Pin
  <2>3. gets = <<>>
    BY <2>1, <1>5
  <2>4. <<PutByte("i"), Pin, PutByte("0"), Pin>> \o <<>> = <<PutByte("i"), Pin, PutByte("0"), Pin>>
    OBVIOUS
  <2> QED
    BY <1>10, <1>1, <2>2, <2>3, <2>4
<1>11. CASE c.op = "pull" /\ c.arg = "PUD_DOWN"
  <2>1. Bytes(c) = <<"i", "pin">> /\ Gets(c) = 0
    BY <1>11 DEF Bytes, Gets
  <2>2. puts = <<PutByte("i"), Pin>>
    BY <2>1, <1>2 DEF Pin
  <2>3. gets = <<>>
    BY <2>1, <1>5
  <2>4. <<PutByte("i"), Pin>> \o <<>> = <<PutByte("i"), Pin>>
    OBVIOUS
  <2> QED
    BY <1>11, <1>1, <2>2, <2>3, <2>4
<1>12. CASE c.op = "digitalWrite"
  <2>1. Bytes(c) = <<c.arg, "pin">> /\ Gets(c) = 0
    BY <1>12 DEF Bytes, Gets
  <2>2. puts = <<PutByte(c.arg), Pin>>
    BY <2>1, <1>2 DEF Pin
  <2>3. gets = <<>>
    BY <2>1, <1>5
  <2>4. <<PutByte(c.arg), Pin>> \o <<>> = <<PutByte(c.arg), Pin>>
    OBVIOUS
  <2> QED
    BY <1>12, <1>1, <2>2, <2>3, <2>4
<1>13. CASE c.op = "pwmWrite"
  <2>0. c.arg = "9"
    BY <1>13, KindsOfOps
  <2>1. Bytes(c) = <<"v", "pin", "9">> /\ Gets(c) = 0
    BY <1>13, <2>0 DEF Bytes, Gets
  <2>2. puts = <<PutByte("v"), Pin, PutByte("9")>>
    BY <2>1, <1>3 DEF Pin
  <2>3. gets = <<>>
    BY <2>1, <1>5
  <2>4. <<PutByte("v"), Pin, PutByte("9")>> \o <<>> = <<PutByte("v"), Pin, PutByte("9")>>
    OBVIOUS
  <2> QED
    BY <1>13, <1>1, <2>2, <2>3, <2>4
<1>14. CASE c.op = "digitalRead"
  <2>1. Bytes(c) = <<"r", "pin">> /\ Gets(c) = 1
    BY <1>14 DEF Bytes, Gets
  <2>2. puts = <<PutByte("r"), Pin>>
    BY <2>1, <1>2 DEF Pin
  <2>3. gets = <<GetPart(1)>>
    BY <2>1, <1>6
  <2>4. <<PutByte("r"), Pin>> \o <<GetPart(1)>> = <<PutByte("r"), Pin, GetPart(1)>>
    BY JoinTuples
  <2> QED
    BY <1>14, <1>1, <2>2, <2>3, <2>4
<1>15. CASE c.op = "analogRead"
  <2>1. Bytes(c) = <<"a", "pin">> /\ Gets(c) = 2
    BY <1>15 DEF Bytes, Gets
  <2>2. puts = <<PutByte("a"), Pin>>
    BY <2>1, <1>2 DEF Pin
  <2>3. gets = <<GetPart(1), GetPart(2)>>
    BY <2>1, <1>7
  <2>4. <<PutByte("a"), Pin>> \o <<GetPart(1), GetPart(2)>> = <<PutByte("a"), Pin, GetPart(1), GetPart(2)>>
    BY JoinTuples
  <2> QED
    BY <1>15, <1>1, <2>2, <2>3, <2>4
<1>16. /\ c.op \in {"pinMode", "pull", "digitalWrite", "pwmWrite", "digitalRead", "analogRead"}
       /\ c.op = "pull" => c.arg \in {"PUD_UP", "PUD_OFF", "PUD_DOWN"}
  BY KindsOfOps
<1> QED
  BY <1>8, <1>9, <1>10, <1>11, <1>12, <1>13, <1>14, <1>15, <1>16
LEMMA ModeByteType == \A m : ModeByte(m) \in {"i", "o", "p"}
  BY DEF ModeByte

\* The steps a call begins with, and the pin it asks for.
LEMMA NewPlan ==
  ASSUME NEW c \in Ops, NEW s \in Pins
  PROVE  /\ SerialSteps(c) \in Plans("nothing") /\ SerialSteps(c) \notin GetPlans
         /\ Due(SerialSteps(c)) = 0
         /\ \A n \in 1 .. 2 : SerialSteps(c) # PinAndGets(n)
         /\ Wanted(s, c) \in Pins
         /\ \A f \in Fields :
              /\ \A i \in DOMAIN SerialSteps(c) :
                   Sets(SerialSteps(c)[i], f) => SerialSteps(c)[i].what = Wanted(s, c)[f]
              /\ (\E i \in DOMAIN SerialSteps(c) : Sets(SerialSteps(c)[i], f)) \/ Wanted(s, c)[f] = s[f]
<1> DEFINE p == SerialSteps(c)
<1> DEFINE Puts(q) ==
         /\ q \in Plans("nothing") /\ q \notin GetPlans /\ Due(q) = 0
         /\ \A n \in 1 .. 2 : q # PinAndGets(n)
<1> DEFINE Suits(q) ==
         \A f \in Fields :
              /\ \A i \in DOMAIN q : Sets(q[i], f) => q[i].what = Wanted(s, c)[f]
              /\ (\E i \in DOMAIN q : Sets(q[i], f)) \/ Wanted(s, c)[f] = s[f]
<1> SUFFICES Puts(p) /\ Wanted(s, c) \in Pins /\ Suits(p)
  OBVIOUS
<1> HIDE DEF p
<1>0. p = SerialSteps(c)
  BY DEF p
<1>1. CASE c.op = "pinMode"
  <2>1. PICK b \in {"i", "o", "p"} : b = ModeByte(c.arg)
    BY ModeByteType
  <2>2. p = <<PutByte(b), Pin>> /\ Wanted(s, c) = [s EXCEPT !.mode = b]
    BY <1>0, <1>1, <2>1, Written DEF Wanted
  <2>3. Puts(p)
    BY <2>2 DEF Plans, Due, GetPlans, PinAndGets, PutByte, GetPart, Pin
  <2>4. Wanted(s, c) \in Pins /\ Suits(p)
    BY <2>2 DEF Pins, Fields, FieldBytes, Sets, PutByte, Pin
  <2> QED
    BY <2>3, <2>4
<1>2. CASE c.op = "pull" /\ c.arg \in {"PUD_UP", "PUD_OFF"}
  <2>1. PICK b \in {"0", "1"} : b = (IF c.arg = "PUD_UP" THEN "1" ELSE "0")
    OBVIOUS
  <2>2. p = <<PutByte("i"), Pin, PutByte(b), Pin>> /\ Wanted(s, c) = [s EXCEPT !.mode = "i", !.level = b]
    BY <1>0, <1>2, <2>1, Written DEF Wanted
  <2>3. Puts(p)
    BY <2>2 DEF Plans, Due, GetPlans, PinAndGets, PutByte, GetPart, Pin
  <2>4. Wanted(s, c) \in Pins /\ Suits(p)
    <3>1. Wanted(s, c) \in Pins /\ Wanted(s, c).mode = "i" /\ Wanted(s, c).level = b /\ Wanted(s, c).pwm = s.pwm
      BY <2>2 DEF Pins
    <3>2. DOMAIN p = 1 .. 4 /\ p[1] = PutByte("i") /\ p[2] = Pin /\ p[3] = PutByte(b) /\ p[4] = Pin
      BY <2>2
    <3> HIDE <2>2
    <3>3. /\ \A i \in DOMAIN p : Sets(p[i], "mode") => p[i].what = "i"
          /\ Sets(p[1], "mode")
      BY <3>2 DEF FieldBytes, Sets, PutByte, Pin
    <3>4. /\ \A i \in DOMAIN p : Sets(p[i], "level") => p[i].what = b
          /\ Sets(p[3], "level")
      BY <3>2 DEF FieldBytes, Sets, PutByte, Pin
    <3>5. \A i \in DOMAIN p : ~Sets(p[i], "pwm")
      BY <3>2 DEF FieldBytes, Sets, PutByte, Pin
    <3> QED
      BY <3>1, <3>2, <3>3, <3>4, <3>5 DEF Fields
  <2> QED
    BY <2>3, <2>4
<1>3. CASE c.op = "pull" /\ c.arg = "PUD_DOWN"
  <2>2. p = <<PutByte("i"), Pin>> /\ Wanted(s, c) = [s EXCEPT !.mode = "i"]
    BY <1>0, <1>3, Written DEF Wanted, Pins
  <2>3. Puts(p)
    BY <2>2 DEF Plans, Due, GetPlans, PinAndGets, PutByte, GetPart, Pin
  <2>4. Wanted(s, c) \in Pins /\ Suits(p)
    BY <2>2 DEF Pins, Fields, FieldBytes, Sets, PutByte, Pin
  <2> QED
    BY <2>3, <2>4
<1>4. CASE c.op = "digitalWrite"
  <2>1. c.arg \in {"0", "1"}
    BY <1>4, KindsOfOps
  <2>2. p = <<PutByte(c.arg), Pin>> /\ Wanted(s, c) = [s EXCEPT !.level = c.arg]
    BY <1>0, <1>4, Written DEF Wanted
  <2>3. Puts(p)
    BY <2>1, <2>2 DEF Plans, Due, GetPlans, PinAndGets, PutByte, GetPart, Pin
  <2>4. Wanted(s, c) \in Pins /\ Suits(p)
    BY <2>1, <2>2 DEF Pins, Fields, FieldBytes, Sets, PutByte, Pin
  <2> QED
    BY <2>3, <2>4
<1>5. CASE c.op = "pwmWrite"
  <2>1. c.arg = "9"
    BY <1>5, KindsOfOps
  <2>2. p = <<PutByte("v"), Pin, PutByte("9")>> /\ Wanted(s, c) = [s EXCEPT !.pwm = "9"]
    BY <1>0, <1>5, <2>1, Written DEF Wanted
  <2>3. Puts(p)
    BY <2>2 DEF Plans, Due, GetPlans, PinAndGets, PutByte, GetPart, Pin
  <2>4. Wanted(s, c) \in Pins /\ Suits(p)
    BY <2>2 DEF Pins, Fields, FieldBytes, Sets, PutByte, Pin
  <2> QED
    BY <2>3, <2>4
<1>6. CASE c.op = "digitalRead"
  <2>2. p = <<PutByte("r"), Pin, GetPart(1)>> /\ Wanted(s, c) = s
    BY <1>0, <1>6, Written DEF Wanted
  <2>3. Puts(p)
    BY <2>2 DEF Plans, Due, GetPlans, PinAndGets, PutByte, GetPart, Pin
  <2> QED
    BY <2>2, <2>3 DEF Pins, Fields, FieldBytes, Sets, PutByte, GetPart, Pin
<1>7. CASE c.op = "analogRead"
  <2>2. p = <<PutByte("a"), Pin, GetPart(1), GetPart(2)>> /\ Wanted(s, c) = s
    BY <1>0, <1>7, Written DEF Wanted
  <2>3. Puts(p)
    BY <2>2 DEF Plans, Due, GetPlans, PinAndGets, PutByte, GetPart, Pin
  <2> QED
    BY <2>2, <2>3 DEF Pins, Fields, FieldBytes, Sets, PutByte, GetPart, Pin
<1> QED
  BY <1>1, <1>2, <1>3, <1>4, <1>5, <1>6, <1>7, KindsOfOps

LEMMA EmptyPlan ==
  ASSUME NEW m \in Stages
  PROVE  <<>> \in Plans(m) => m = "nothing"
<1> SUFFICES ASSUME m # "nothing" PROVE <<>> \notin Plans(m)
  OBVIOUS
<1>1. CASE m = "9"
  BY <1>1 DEF Plans
<1>2. CASE m = "pin9"
  BY <1>2 DEF Plans
<1>3. CASE m = "pin"
  BY <1>3 DEF Plans
<1> QED
  BY <1>1, <1>2, <1>3 DEF Stages

LEMMA NoPlanLeft ==
  /\ Due(<<>>) = 0 /\ <<>> \in GetPlans /\ Len(<<>>) = 0 /\ <<>> # <<GetPart(2)>>
  /\ \A n \in 1 .. 2 : <<>> # PinAndGets(n) /\ <<>> # AllGets(n)
<1>1. <<>> \in GetPlans /\ Len(<<>>) = 0 /\ <<>> # <<GetPart(2)>>
  BY DEF GetPlans
<1>2. Due(<<>>) = 0
  BY <1>1 DEF Due
<1>3. \A n \in 1 .. 2 : <<>> # PinAndGets(n) /\ <<>> # AllGets(n)
  BY DEF PinAndGets, AllGets
<1> QED
  BY <1>1, <1>2, <1>3

-----------------------------------------------------------------------------
(* How the steps change the wire.                                          *)

LEMMA WireIs ==
  ASSUME SerialType
  PROVE  /\ Wire \in Seq(Bytewise) /\ Len(Wire) = Len(cur) + Len(toDev)
         /\ Len(cur) \in Nat /\ Len(toDev) \in Nat
         /\ \A i \in 1 .. Len(cur) + Len(toDev) :
              Wire[i] = IF i <= Len(cur) THEN cur[i] ELSE toDev[i - Len(cur)]
         /\ AnswersOwed = Owes(Wire) /\ AnswersOwed' = Owes(Wire')
  BY Joined DEF SerialType, Wire, AnswersOwed, Owes, Answers

LEMMA WireSame ==
  ASSUME SerialType, UNCHANGED <<toDev, cur>>
  PROVE  Wire' = Wire /\ AnswersOwed' = AnswersOwed
  BY DEF Wire, AnswersOwed

\* A byte is written.
LEMMA WireMore ==
  ASSUME SerialType, NEW e \in Bytewise, cur' = cur, toDev' = Append(toDev, e)
  PROVE  toDev' \in Seq(Bytewise) /\ More(Wire, Wire', e)
<1> DEFINE l == Len(cur)  k == Len(toDev)
<1>1. /\ toDev' \in Seq(Bytewise) /\ Len(toDev') = k + 1
      /\ \A i \in 1 .. k : toDev'[i] = toDev[i]
      /\ toDev'[k + 1] = e
  BY AppendProperties DEF SerialType
<1>2. /\ Wire \in Seq(Bytewise) /\ Len(Wire) = l + k
      /\ l \in Nat /\ k \in Nat
      /\ \A i \in 1 .. l + k : Wire[i] = IF i <= l THEN cur[i] ELSE toDev[i - l]
  BY WireIs
<1>3. /\ Wire' \in Seq(Bytewise) /\ Len(Wire') = l + Len(toDev')
      /\ \A i \in 1 .. l + Len(toDev') : Wire'[i] = IF i <= l THEN cur[i] ELSE toDev'[i - l]
  <2>1. cur \in Seq(Bytewise) /\ Wire' = cur \o toDev'
    BY DEF SerialType, Wire
  <2> QED
    BY <2>1, <1>1, Joined
<1> HIDE DEF l, k
<1>4. Len(Wire') = (l + k) + 1
  BY <1>1, <1>2, <1>3
<1>5. ASSUME NEW i \in 1 .. l + k PROVE Wire'[i] = Wire[i]
  <2>1. i \in 1 .. l + Len(toDev')
    BY <1>1, <1>2
  <2>2. CASE i <= l
    BY <2>1, <2>2, <1>2, <1>3
  <2>3. CASE ~(i <= l)
    <3>1. i - l \in 1 .. k
      BY <2>3, <1>2
    <3> QED
      BY <2>1, <2>3, <3>1, <1>1, <1>2, <1>3
  <2> QED
    BY <2>2, <2>3
<1>6. Wire'[(l + k) + 1] = e
  <2>1. (l + k) + 1 \in 1 .. l + Len(toDev') /\ ~((l + k) + 1 <= l) /\ ((l + k) + 1) - l = k + 1
    BY <1>1, <1>2
  <2> QED
    BY <2>1, <1>1, <1>3
<1> QED
  BY <1>1, <1>2, <1>3, <1>4, <1>5, <1>6 DEF More

\* The device takes a byte ...
LEMMA DeviceTakes ==
  ASSUME SerialType, toDev # <<>>, NEW now, now = Append(cur, Head(toDev))
  PROVE  /\ now \in Seq(Bytewise) /\ Len(now) = Len(cur) + 1
         /\ Tail(toDev) \in Seq(Bytewise) /\ Wire # <<>> /\ Len(now) <= Len(Wire)
         /\ \A i \in 1 .. Len(now) : now[i] = Wire[i]
         /\ cur # <<>> => now[1] = cur[1]
         /\ Head(toDev) \in Bytewise
         /\ cur = <<>> => now[1] = Head(toDev)
<1> DEFINE l == Len(cur)  k == Len(toDev)
<1>1. /\ Wire \in Seq(Bytewise) /\ Len(Wire) = l + k
      /\ l \in Nat /\ k \in Nat
      /\ \A i \in 1 .. l + k : Wire[i] = IF i <= l THEN cur[i] ELSE toDev[i - l]
  BY WireIs
<1>2. /\ k > 0 /\ Head(toDev) = toDev[1] /\ Head(toDev) \in Bytewise
      /\ Tail(toDev) \in Seq(Bytewise)
  BY EmptySeq, HeadTailProperties DEF SerialType
<1>3. /\ now \in Seq(Bytewise) /\ Len(now) = l + 1
      /\ \A i \in 1 .. l : now[i] = cur[i]
      /\ now[l + 1] = Head(toDev)
  BY <1>2, AppendProperties DEF SerialType
<1>4. (cur = <<>> <=> l = 0) /\ (Wire = <<>> <=> Len(Wire) = 0)
  BY <1>1, EmptySeq DEF SerialType
<1> HIDE DEF l, k
<1>5. Wire # <<>> /\ Len(now) <= Len(Wire)
  BY <1>1, <1>2, <1>3, <1>4
<1>6. ASSUME NEW i \in 1 .. Len(now) PROVE now[i] = Wire[i]
  <2>1. i \in 1 .. l + k
    BY <1>1, <1>2, <1>3
  <2>2. CASE i <= l
    BY <2>1, <2>2, <1>1, <1>3
  <2>3. CASE ~(i <= l)
    <3>1. i = l + 1 /\ i - l = 1
      BY <2>3, <1>1, <1>3
    <3> QED
      BY <3>1, <2>1, <2>3, <1>1, <1>2, <1>3
  <2> QED
    BY <2>2, <2>3
<1>7. cur # <<>> => 1 \in 1 .. l
  BY <1>1, <1>4
<1> QED
  BY <1>1, <1>2, <1>3, <1>4, <1>5, <1>6, <1>7 DEF l, k

\* ... keeps it, and the wire is what it was ...
LEMMA WireKept ==
  ASSUME SerialType, toDev # <<>>, cur' = Append(cur, Head(toDev)), toDev' = Tail(toDev)
  PROVE  Wire' = Wire
<1> DEFINE l == Len(cur)  k == Len(toDev)  a == Len(cur')  b == Len(toDev')  n == Len(Wire')
<1>1. /\ Wire \in Seq(Bytewise) /\ Len(Wire) = l + k
      /\ l \in Nat /\ k \in Nat
      /\ \A i \in 1 .. l + k : Wire[i] = IF i <= l THEN cur[i] ELSE toDev[i - l]
  BY WireIs
<1>2. /\ k > 0 /\ b = k - 1 /\ \A i \in 1 .. k - 1 : toDev'[i] = toDev[i + 1]
      /\ toDev' \in Seq(Bytewise)
  BY EmptySeq, HeadTailProperties DEF SerialType
<1>3. /\ cur' \in Seq(Bytewise) /\ a = l + 1
      /\ \A i \in 1 .. a : cur'[i] = Wire[i]
  BY DeviceTakes
<1>4. /\ Wire' \in Seq(Bytewise) /\ n = a + b
      /\ \A i \in 1 .. a + b :
           Wire'[i] = IF i <= a THEN cur'[i] ELSE toDev'[i - a]
  <2>1. Wire' = cur' \o toDev'
    BY DEF Wire
  <2> QED
    BY <2>1, <1>2, <1>3, Joined
<1>5. n = Len(Wire')
  OBVIOUS
<1> HIDE DEF l, k, a, b, n
<1>6. n = l + k /\ a + b = l + k
  BY <1>1, <1>2, <1>3, <1>4
<1>7. ASSUME NEW i \in 1 .. l + k PROVE Wire'[i] = Wire[i]
  <2>1. CASE i <= l + 1
    <3>1. i \in 1 .. a /\ i <= a
      BY <2>1, <1>1, <1>3
    <3> QED
      BY <3>1, <1>3, <1>4, <1>6
  <2>2. CASE ~(i <= l + 1)
    <3>1. /\ i - (l + 1) \in 1 .. k - 1 /\ (i - (l + 1)) + 1 = i - l /\ ~(i <= l)
          /\ ~(i <= a) /\ i - a = i - (l + 1)
      BY <2>2, <1>1, <1>2, <1>3
    <3>2. Wire'[i] = toDev'[i - (l + 1)]
      BY <3>1, <1>4, <1>6
    <3>3. toDev'[i - (l + 1)] = toDev[i - l]
      BY <3>1, <1>2
    <3> QED
      BY <3>1, <3>2, <3>3, <1>1
  <2> QED
    BY <2>1, <2>2
<1> QED
  BY <1>1, <1>4, <1>5, <1>6, <1>7, SeqEqual

\* ... or executes it with the bytes before it.
LEMMA WireLess ==
  ASSUME SerialType, toDev # <<>>, cur' = <<>>, toDev' = Tail(toDev)
  PROVE  Less(Wire, Wire', Len(cur) + 1)
<1> DEFINE l == Len(cur)  k == Len(toDev)
<1>1. /\ Wire \in Seq(Bytewise) /\ Len(Wire) = l + k
      /\ l \in Nat /\ k \in Nat
      /\ \A i \in 1 .. l + k : Wire[i] = IF i <= l THEN cur[i] ELSE toDev[i - l]
  BY WireIs
<1>2. /\ k > 0 /\ Len(toDev') = k - 1 /\ \A i \in 1 .. k - 1 : toDev'[i] = toDev[i + 1]
      /\ toDev' \in Seq(Bytewise)
  BY EmptySeq, HeadTailProperties DEF SerialType
<1>3. Wire' = toDev'
  BY <1>2 DEF Wire
<1> HIDE DEF l, k
<1>4. l + 1 <= Len(Wire) /\ Len(Wire') = Len(Wire) - (l + 1)
  BY <1>1, <1>2, <1>3
<1>5. ASSUME NEW i \in 1 .. Len(Wire) - (l + 1) PROVE Wire'[i] = Wire[i + (l + 1)]
  <2>1. i \in 1 .. k - 1 /\ i + (l + 1) \in 1 .. l + k /\ ~(i + (l + 1) <= l) /\ (i + (l + 1)) - l = i + 1
    BY <1>1, <1>2
  <2> QED
    BY <2>1, <1>1, <1>2, <1>3
<1> QED
  BY <1>2, <1>3, <1>4, <1>5 DEF Less, l

-----------------------------------------------------------------------------
(* What the pin will be.                                                   *)

LEMMA SettledMore ==
  ASSUME NEW s \in Seq(Bytewise), NEW u, NEW e, More(s, u, e), NEW f, NEW d, NEW a,
         \/ e.b \notin FieldBytes[f] /\ Settled(s, d, a, f)
         \/ e.b \in FieldBytes[f] /\ e.b = a[f]
  PROVE  Settled(u, d, a, f)
<1> DEFINE n == Len(s)
<1>1. /\ n \in Nat /\ DOMAIN s = 1 .. n /\ DOMAIN u = 1 .. n + 1
      /\ \A i \in 1 .. n : u[i] = s[i]
      /\ u[n + 1] = e
  BY IsSeq DEF More
<1> HIDE DEF n
<1>2. 1 .. n + 1 = (1 .. n) \cup {n + 1} /\ n + 1 \in DOMAIN u /\ \A j \in 1 .. n + 1 : ~(j > n + 1)
  BY <1>1
<1>3. CASE e.b \in FieldBytes[f] /\ e.b = a[f]
  <2>1. /\ u[n + 1].b = a[f] /\ a[f] \in FieldBytes[f]
        /\ \A j \in DOMAIN u : j > n + 1 => u[j].b \notin FieldBytes[f]
    BY <1>1, <1>2, <1>3
  <2> QED
    BY <2>1, <1>2 DEF Settled
<1>4. CASE e.b \notin FieldBytes[f] /\ Settled(s, d, a, f)
  <2>1. ASSUME NEW i \in DOMAIN s, s[i].b = a[f], a[f] \in FieldBytes[f],
               \A j \in DOMAIN s : j > i => s[j].b \notin FieldBytes[f]
        PROVE  Settled(u, d, a, f)
    <3>1. i \in DOMAIN u /\ u[i].b = a[f]
      BY <1>1, <1>2, <2>1
    <3>2. ASSUME NEW j \in DOMAIN u, j > i PROVE u[j].b \notin FieldBytes[f]
      <4>1. j \in 1 .. n \/ j = n + 1
        BY <1>1, <1>2
      <4> QED
        BY <4>1, <3>2, <2>1, <1>1, <1>4
    <3> QED
      BY <3>1, <3>2, <2>1 DEF Settled
  <2>2. ASSUME \A i \in DOMAIN s : s[i].b \notin FieldBytes[f], d[f] = a[f]
        PROVE  Settled(u, d, a, f)
    <3>1. ASSUME NEW j \in DOMAIN u PROVE u[j].b \notin FieldBytes[f]
      <4>1. j \in 1 .. n \/ j = n + 1
        BY <1>1, <1>2
      <4> QED
        BY <4>1, <2>2, <1>1, <1>4
    <3> QED
      BY <3>1, <2>2 DEF Settled
  <2> QED
    BY <1>4, <2>1, <2>2 DEF Settled
<1> QED
  BY <1>3, <1>4

\* What a whole command does to the pin.
LEMMA Applied ==
  ASSUME NEW d \in Pins, NEW c, NEW k, c[1] \in Firsts \cup {"@"}, k = Wants(c[1]),
         k >= 2 => c[2] = "pin", k = 3 => c[3] = "9"
  PROVE  /\ Apply(d, c) \in Pins
         /\ \A f \in Fields :
              /\ \A i \in 1 .. k : c[i] \in FieldBytes[f] => Apply(d, c)[f] = c[i]
              /\ (\A i \in 1 .. k : c[i] \notin FieldBytes[f]) => Apply(d, c)[f] = d[f]
<1>1. CASE c[1] = "@"
  <2>1. k = 1 /\ Apply(d, c) = d
    BY <1>1 DEF Wants, Apply
  <2>2. \A i \in 1 .. k : i = 1
    BY <2>1
  <2>3. \A f \in Fields : c[1] \notin FieldBytes[f]
    BY <1>1 DEF Fields, FieldBytes
  <2> QED
    BY <2>1, <2>2, <2>3
<1>2. CASE c[1] \in {"r", "a"}
  <2>1. k = 2 /\ Apply(d, c) = d /\ c[2] = "pin"
    BY <1>2 DEF Wants, Apply
  <2>2. \A i \in 1 .. k : i = 1 \/ i = 2
    BY <2>1
  <2>3. \A f \in Fields : c[1] \notin FieldBytes[f] /\ c[2] \notin FieldBytes[f]
    BY <1>2, <2>1 DEF Fields, FieldBytes
  <2> QED
    BY <2>1, <2>2, <2>3
<1>3. CASE c[1] \in {"i", "o", "p"}
  <2>1. k = 2 /\ Apply(d, c) = [d EXCEPT !.mode = c[1]] /\ c[2] = "pin"
    BY <1>3 DEF Wants, Apply
  <2>2. (\A i \in 1 .. k : i = 1 \/ i = 2) /\ 1 \in 1 .. k
    BY <2>1
  <2>3. c[1] \in FieldBytes["mode"] /\ c[1] \notin FieldBytes["level"] /\ c[1] \notin FieldBytes["pwm"]
    BY <1>3 DEF FieldBytes
  <2>4. \A f \in Fields : c[2] \notin FieldBytes[f]
    BY <2>1 DEF Fields, FieldBytes
  <2>5. Apply(d, c) \in Pins /\ Apply(d, c).mode = c[1] /\ Apply(d, c).level = d.level /\ Apply(d, c).pwm = d.pwm
    BY <2>1, <1>3 DEF Pins
  <2> QED
    BY <2>2, <2>3, <2>4, <2>5 DEF Fields
<1>4. CASE c[1] \in {"0", "1"}
  <2>1. k = 2 /\ Apply(d, c) = [d EXCEPT !.level = c[1]] /\ c[2] = "pin"
    BY <1>4 DEF Wants, Apply
  <2>2. (\A i \in 1 .. k : i = 1 \/ i = 2) /\ 1 \in 1 .. k
    BY <2>1
  <2>3. c[1] \in FieldBytes["level"] /\ c[1] \notin FieldBytes["mode"] /\ c[1] \notin FieldBytes["pwm"]
    BY <1>4 DEF FieldBytes
  <2>4. \A f \in Fields : c[2] \notin FieldBytes[f]
    BY <2>1 DEF Fields, FieldBytes
  <2>5. Apply(d, c) \in Pins /\ Apply(d, c).level = c[1] /\ Apply(d, c).mode = d.mode /\ Apply(d, c).pwm = d.pwm
    BY <2>1, <1>4 DEF Pins
  <2> QED
    BY <2>2, <2>3, <2>4, <2>5 DEF Fields
<1>5. CASE c[1] = "v"
  <2>1. k = 3 /\ Apply(d, c) = [d EXCEPT !.pwm = c[3]] /\ c[2] = "pin" /\ c[3] = "9"
    BY <1>5 DEF Wants, Apply
  <2>2. (\A i \in 1 .. k : i = 1 \/ i = 2 \/ i = 3) /\ 3 \in 1 .. k
    BY <2>1
  <2>3. c[3] \in FieldBytes["pwm"] /\ c[3] \notin FieldBytes["mode"] /\ c[3] \notin FieldBytes["level"]
    BY <2>1 DEF FieldBytes
  <2>4. \A f \in Fields : c[2] \notin FieldBytes[f] /\ c[1] \notin FieldBytes[f]
    BY <2>1, <1>5 DEF Fields, FieldBytes
  <2>5. Apply(d, c) \in Pins /\ Apply(d, c).pwm = c[3] /\ Apply(d, c).mode = d.mode /\ Apply(d, c).level = d.level
    BY <2>1 DEF Pins
  <2> QED
    BY <2>2, <2>3, <2>4, <2>5 DEF Fields
<1> QED
  BY <1>1, <1>2, <1>3, <1>4, <1>5 DEF Firsts

\* The first k bytes make the pin x of d, as far as f is concerned.
Executes(s, k, d, x, f) ==
    /\ \A i \in 1 .. k : s[i].b \in FieldBytes[f] => x[f] = s[i].b
    /\ (\A i \in 1 .. k : s[i].b \notin FieldBytes[f]) => x[f] = d[f]

LEMMA SettledLess ==
  ASSUME NEW s \in Seq(Bytewise), NEW u, NEW k \in 1 .. 3, Less(s, u, k), NEW f, NEW d, NEW x, NEW a,
         Settled(s, d, a, f), Executes(s, k, d, x, f)
  PROVE  Settled(u, x, a, f)
<1> DEFINE n == Len(s)
<1>1. /\ n \in Nat /\ k <= n /\ n - k \in Nat /\ DOMAIN s = 1 .. n /\ DOMAIN u = 1 .. n - k
      /\ \A i \in 1 .. n - k : u[i] = s[i + k]
  BY IsSeq DEF Less
<1> HIDE DEF n
<1>2. \A j \in 1 .. n - k : j + k \in 1 .. n
  BY <1>1
<1>3. ASSUME NEW i \in DOMAIN s, s[i].b = a[f], a[f] \in FieldBytes[f],
             \A j \in DOMAIN s : j > i => s[j].b \notin FieldBytes[f]
      PROVE  Settled(u, x, a, f)
  <2>1. CASE i <= k
    <3>1. i \in 1 .. k
      BY <2>1, <1>1
    <3>2. x[f] = a[f]
      BY <3>1, <1>3 DEF Executes
    <3>3. ASSUME NEW j \in DOMAIN u PROVE u[j].b \notin FieldBytes[f]
      <4>1. j + k \in DOMAIN s /\ j + k > i /\ u[j] = s[j + k]
        BY <1>1, <1>2, <2>1
      <4> QED
        BY <4>1, <1>3
    <3> QED
      BY <3>2, <3>3 DEF Settled
  <2>2. CASE ~(i <= k)
    <3> DEFINE h == i - k
    <3>1. h \in DOMAIN u /\ h + k = i
      BY <2>2, <1>1
    <3> HIDE DEF h
    <3>2. u[h].b = a[f]
      BY <3>1, <1>1, <1>3
    <3>3. ASSUME NEW j \in DOMAIN u, j > h PROVE u[j].b \notin FieldBytes[f]
      <4>1. j + k \in DOMAIN s /\ j + k > i /\ u[j] = s[j + k]
        <5>1. j \in 1 .. n - k /\ h \in 1 .. n - k
          BY <1>1, <3>1
        <5>2. j \in Int /\ h \in Int /\ k \in Int
          BY <5>1, <1>1
        <5>3. j + k > h + k
          BY <5>2, <3>3
        <5> QED
          BY <5>1, <5>3, <1>1, <1>2, <3>1
      <4> QED
        BY <4>1, <1>3
    <3> QED
      BY <3>1, <3>2, <3>3, <1>3 DEF Settled
  <2> QED
    BY <2>1, <2>2
<1>4. ASSUME \A i \in DOMAIN s : s[i].b \notin FieldBytes[f], d[f] = a[f]
      PROVE  Settled(u, x, a, f)
  <2>1. \A i \in 1 .. k : i \in DOMAIN s
    BY <1>1
  <2>2. x[f] = a[f]
    BY <2>1, <1>4 DEF Executes
  <2>3. \A j \in DOMAIN u : u[j].b \notin FieldBytes[f]
    BY <1>1, <1>2, <1>4
  <2> QED
    BY <2>2, <2>3 DEF Settled
<1> QED
  BY <1>3, <1>4 DEF Settled

-----------------------------------------------------------------------------
(* The set-up of a serial line.                                            *)

Answer == [for : 0 .. MaxCalls, part : {1, 2}]

LEMMA BeforeUp ==
  ASSUME CommonType, SerialInv, st # "up"
  PROVE  /\ AllIdle /\ Framed(Wire) /\ Missing(Wire) = "nothing" /\ cur = <<>>
         /\ \A f \in Fields : Settled(Wire, dev, asked, f)
<1>1. AllIdle
  BY DEF SerialInv, FrameInv, AllIdle
<1>2. \A f \in Fields : ~Writing(f)
  BY <1>1 DEF Writing, AllIdle, Idle
<1> QED
  BY <1>1, <1>2 DEF SerialInv, FrameInv, PingInv, PinInv

LEMMA SetupKeeps ==
  ASSUME CommonType, SerialInv, NEW from, NEW to, SerialSetup(from, to),
         from # "up", to \in {"open", "flush", "ping", "wait", "up", "failed"},
         toDev' \in Seq(Bytewise), toHost' \in Seq(Answer),
         late' \in {late, late + 1}, tries' \in 0 .. MaxTries, late' <= tries' + 2 * id,
         Framed(Wire'), Missing(Wire') = "nothing",
         \A f \in Fields : Settled(Wire', dev, asked, f),
         PingInv', CountInv'
  PROVE  CommonType' /\ SerialInv'
<1>1. /\ st # "up" /\ AllIdle /\ cur = <<>>
      /\ UNCHANGED <<link, password, srv, lost, exited, cur, dev, todo, id, mine, crossed, overlap, asked>>
      /\ link = "serial" /\ st' = to
  BY BeforeUp DEF SerialSetup
<1>2. CommonType'
  <2>1. late' \in Nat
    BY DEF CommonType
  <2> QED
    BY <2>1, <1>1 DEF CommonType, Answer
<1>3. SerialType'
  BY <1>1 DEF SerialInv, SerialType
<1>4. AllIdle' /\ cur' = <<>>
  BY <1>1 DEF AllIdle, Idle
<1>5. FrameInv'
  BY <1>4 DEF FrameInv, AllIdle, OneCall
<1>6. LateInv'
  <2>1. late' <= tries' + 2 * id'
    BY <1>1
  <2> QED
    BY <2>1, <1>4 DEF LateInv, AllIdle
<1>7. OwnInv'
  <2> SUFFICES ASSUME late' = 0 PROVE (~crossed)'
    BY <1>4, NoPlanLeft DEF OwnInv, AllIdle, Idle
  <2>1. late = 0
    BY DEF CommonType
  <2> QED
    BY <2>1, <1>1 DEF SerialInv, OwnInv
<1>8. PinInv'
  <2>1. \A f \in Fields : Settled(Wire', dev', asked', f)
    BY <1>1
  <2>2. \A t \in Threads : DOMAIN (todo'[t]) = {}
    BY <1>4 DEF AllIdle, Idle
  <2> QED
    BY <2>1, <2>2 DEF PinInv
<1> QED
  BY <1>2, <1>3, <1>5, <1>6, <1>7, <1>8 DEF SerialInv

LEMMA SerialOpenKeeps ==
  ASSUME CommonType, SerialInv, SerialOpen
  PROVE  CommonType' /\ SerialInv'
<1> PICK to \in {"flush", "failed"} : SerialSetup("open", to) /\ UNCHANGED <<toDev, toHost, tries, late>>
  BY DEF SerialOpen
<1>1. /\ st = "open" /\ st' = to /\ UNCHANGED <<cur, id, dev, asked, toDev, toHost, tries, late>>
      /\ Wire' = Wire /\ AllIdle /\ Framed(Wire) /\ Missing(Wire) = "nothing"
      /\ \A f \in Fields : Settled(Wire, dev, asked, f)
  BY BeforeUp DEF SerialSetup, Wire
<1>2. PingInv' /\ CountInv'
  BY <1>1 DEF SerialInv, PingInv, CountInv
<1>3. late' <= tries' + 2 * id
  BY <1>1 DEF SerialInv, LateInv
<1>4. toDev' \in Seq(Bytewise) /\ toHost' \in Seq(Answer) /\ late' \in {late, late + 1} /\ tries' \in 0 .. MaxTries
  BY <1>1 DEF SerialInv, SerialType, CommonType, Answer
<1> QED
  BY <1>1, <1>2, <1>3, <1>4, SetupKeeps

LEMMA FlushKeeps ==
  ASSUME CommonType, SerialInv, Flush
  PROVE  CommonType' /\ SerialInv'
<1>1. /\ SerialSetup("flush", "ping")
      /\ st = "flush" /\ st' = "ping" /\ UNCHANGED <<cur, id, dev, asked, toDev, tries, late, todo>>
      /\ toHost' = <<>>
      /\ Wire' = Wire /\ AllIdle /\ Framed(Wire) /\ Missing(Wire) = "nothing"
      /\ \A f \in Fields : Settled(Wire, dev, asked, f)
  BY BeforeUp DEF Flush, SerialSetup, Wire
<1>2. toDev = <<>> /\ late = 0 /\ cur = <<>> /\ tries \in Nat
  BY <1>1 DEF SerialInv, PingInv, CommonType
<1>3. PingInv'
  BY <1>1, <1>2 DEF PingInv
<1>4. CountInv'
  <2>1. Wire' = <<>> /\ AnswersOwed' = Owes(Wire')
    BY <1>1, <1>2, WireIs DEF Wire, SerialInv
  <2>2. Cardinality(AnswersOwed') = 0
    <3>1. Owes(<<>>) = {}
      BY DEF Owes
    <3> QED
      BY <2>1, <3>1, FS_EmptySet
  <2>3. Outstanding' = 0 /\ AllIdle'
    BY <2>2, <1>1 DEF Outstanding, AllIdle, Idle
  <2> QED
    BY <2>3, <1>1, <1>2 DEF CountInv, AllIdle
<1>5. late' <= tries' + 2 * id
  BY <1>1 DEF SerialInv, LateInv
<1>6. toDev' \in Seq(Bytewise) /\ toHost' \in Seq(Answer) /\ late' \in {late, late + 1} /\ tries' \in 0 .. MaxTries
  BY <1>1 DEF SerialInv, SerialType, CommonType
<1> QED
  BY <1>1, <1>3, <1>4, <1>5, <1>6, SetupKeeps

LEMMA PingKeeps ==
  ASSUME CommonType, SerialInv, Ping
  PROVE  CommonType' /\ SerialInv'
<1> DEFINE e == [b |-> "@", for |-> 0]
<1>1. /\ SerialSetup("ping", "wait") /\ tries < MaxTries /\ tries' = tries + 1
      /\ st = "ping" /\ st' = "wait" /\ UNCHANGED <<cur, id, dev, asked, toHost, late, todo>>
      /\ toDev' = Append(toDev, e)
      /\ AllIdle /\ Framed(Wire) /\ Missing(Wire) = "nothing"
      /\ \A f \in Fields : Settled(Wire, dev, asked, f)
  BY BeforeUp DEF Ping, SerialSetup
<1>2. e \in Bytewise /\ e.b = "@" /\ Answers(e) = 1
  <2>1. e \in Bytewise /\ e.b = "@"
    BY RemoteAssumption DEF Bytewise, WireBytes
  <2> QED
    BY <2>1, AnswersAre
<1> HIDE DEF e
<1>3. toDev' \in Seq(Bytewise) /\ More(Wire, Wire', e) /\ Wire \in Seq(Bytewise)
  BY <1>1, <1>2, WireMore, WireIs DEF SerialInv
<1>4. Framed(Wire') /\ Missing(Wire') = "nothing"
  BY <1>1, <1>2, <1>3, FramedMore DEF Firsts, Then
<1>5. \A f \in Fields : Settled(Wire', dev, asked, f)
  <2>1. \A f \in Fields : e.b \notin FieldBytes[f]
    BY <1>2 DEF Fields, FieldBytes
  <2> QED
    BY <2>1, <1>1, <1>3, SettledMore
<1>6. /\ tries \in Nat /\ late \in Nat /\ MaxTries \in Nat /\ tries' \in 0 .. MaxTries /\ late <= tries
      /\ late <= tries + 2 * id /\ id \in Nat
  BY <1>1, RemoteAssumption DEF CommonType, SerialInv, PingInv, LateInv
<1>7. PingInv'
  <2>1. /\ DOMAIN toDev' = 1 .. Len(toDev) + 1 /\ DOMAIN toDev = 1 .. Len(toDev)
        /\ \A i \in 1 .. Len(toDev) : toDev'[i] = toDev[i]
        /\ toDev'[Len(toDev) + 1] = e /\ Len(toDev) \in Nat
    BY <1>1, <1>2, AppendProperties, IsSeq DEF SerialInv, SerialType
  <2>2. \A i \in DOMAIN toDev' : toDev'[i].b = "@"
    <3> SUFFICES ASSUME NEW i \in DOMAIN toDev' PROVE toDev'[i].b = "@"
      OBVIOUS
    <3>1. i \in 1 .. Len(toDev) \/ i = Len(toDev) + 1
      BY <2>1
    <3> QED
      BY <3>1, <2>1, <1>1, <1>2 DEF SerialInv, PingInv
  <2>3. late' < tries'
    BY <1>1, <1>6
  <2> QED
    BY <2>2, <2>3, <1>1 DEF SerialInv, PingInv
<1>8. CountInv'
  <2>1. AnswersOwed = Owes(Wire) /\ AnswersOwed' = Owes(Wire')
    BY WireIs DEF SerialInv
  <2>2. Cardinality(AnswersOwed') = Cardinality(AnswersOwed) + 1
    BY <2>1, <1>2, <1>3, OwesMore
  <2>3. Outstanding = late
    BY <1>1, <1>6 DEF SerialInv, CountInv
  <2>4. Cardinality(AnswersOwed) \in Nat /\ Len(toHost) \in Nat
    BY <2>1, <1>3, OwesFinite DEF CommonType
  <2>5. Outstanding' = late' + 1 /\ AllIdle'
    BY <2>2, <2>3, <2>4, <1>1, <1>6 DEF Outstanding, AllIdle, Idle
  <2> QED
    BY <2>5, <1>1 DEF CountInv, AllIdle
<1>9. late' <= tries' + 2 * id
  BY <1>1, <1>6
<1>10. toHost' \in Seq(Answer) /\ late' \in {late, late + 1}
  BY <1>1, <1>6 DEF CommonType, Answer
<1> QED
  BY <1>1, <1>3, <1>4, <1>5, <1>6, <1>7, <1>8, <1>9, <1>10, SetupKeeps

LEMMA PingedKeeps ==
  ASSUME CommonType, SerialInv, Pinged
  PROVE  CommonType' /\ SerialInv'
<1>0. /\ st = "wait" /\ toHost # <<>> /\ toHost' = Tail(toHost)
      /\ SerialSetup("wait", IF Head(toHost) = Pong THEN "up" ELSE "wait")
  BY DEF Pinged, SerialSetup
<1>1. Head(toHost) = Pong /\ toHost' \in Seq(Answer) /\ Len(toHost') = Len(toHost) - 1 /\ Len(toHost) \in Nat
  <2>1. /\ toHost \in Seq(Answer) /\ 1 \in DOMAIN toHost /\ Head(toHost) = toHost[1]
        /\ Tail(toHost) \in Seq(Answer) /\ Len(Tail(toHost)) = Len(toHost) - 1 /\ Len(toHost) \in Nat
    BY <1>0, HeadTailProperties, EmptySeq DEF CommonType, Answer
  <2> QED
    BY <2>1, <1>0 DEF SerialInv, PingInv
<1>2. /\ SerialSetup("wait", "up")
      /\ st' = "up" /\ UNCHANGED <<cur, id, dev, asked, toDev, tries, late, todo>>
      /\ Wire' = Wire /\ AnswersOwed' = AnswersOwed /\ AllIdle /\ Framed(Wire) /\ Missing(Wire) = "nothing"
      /\ \A f \in Fields : Settled(Wire, dev, asked, f)
  BY <1>0, <1>1, BeforeUp, WireSame DEF Pinged, SerialSetup, SerialInv
<1>3. PingInv'
  BY <1>2 DEF PingInv
<1>4. CountInv'
  <2>1. Outstanding = late + 1
    BY <1>0, <1>2 DEF SerialInv, CountInv
  <2>2. Cardinality(AnswersOwed) \in Nat /\ late \in Nat
    BY OwesFinite, WireIs DEF SerialInv, CommonType
  <2>3. Outstanding' = late' /\ AllIdle'
    BY <2>1, <2>2, <1>1, <1>2 DEF Outstanding, AllIdle, Idle
  <2>4. late' + 0 = late'
    BY <2>2, <1>2
  <2> QED
    BY <2>3, <2>4, <1>2 DEF CountInv, AllIdle
<1>5. late' <= tries' + 2 * id
  BY <1>2 DEF SerialInv, LateInv
<1>6. toDev' \in Seq(Bytewise) /\ late' \in {late, late + 1} /\ tries' \in 0 .. MaxTries
  BY <1>2 DEF SerialInv, SerialType, CommonType
<1> QED
  BY <1>1, <1>2, <1>3, <1>4, <1>5, <1>6, SetupKeeps

LEMMA PingTimesOutKeeps ==
  ASSUME CommonType, SerialInv, PingTimesOut
  PROVE  CommonType' /\ SerialInv'
<1>1. /\ SerialSetup("wait", "ping") /\ st = "wait"
      /\ st' = "ping" /\ UNCHANGED <<cur, id, dev, asked, toDev, toHost, tries, todo>> /\ late' = late + 1
      /\ Wire' = Wire /\ AnswersOwed' = AnswersOwed /\ AllIdle /\ Framed(Wire) /\ Missing(Wire) = "nothing"
      /\ \A f \in Fields : Settled(Wire, dev, asked, f)
  BY BeforeUp, WireSame DEF PingTimesOut, SerialSetup, SerialInv
<1>2. late \in Nat /\ tries \in Nat /\ tries \in 0 .. MaxTries /\ late < tries /\ id \in Nat
  BY <1>1, RemoteAssumption DEF CommonType, SerialInv, PingInv
<1>3. PingInv'
  <2>1. late' <= tries'
    BY <1>1, <1>2
  <2> QED
    BY <2>1, <1>1 DEF SerialInv, PingInv
<1>4. CountInv'
  <2>1. Outstanding = late + 1
    BY <1>1 DEF SerialInv, CountInv
  <2>2. Outstanding' = late' + 0 /\ AllIdle'
    BY <2>1, <1>1, <1>2 DEF Outstanding, AllIdle, Idle
  <2> QED
    BY <2>2, <1>1 DEF CountInv, AllIdle
<1>5. late' <= tries' + 2 * id
  BY <1>1, <1>2
<1>6. toDev' \in Seq(Bytewise) /\ toHost' \in Seq(Answer) /\ late' \in {late, late + 1} /\ tries' \in 0 .. MaxTries
  BY <1>1, <1>2 DEF SerialInv, SerialType, CommonType, Answer
<1> QED
  BY <1>1, <1>3, <1>4, <1>5, <1>6, SetupKeeps

LEMMA GiveUpKeeps ==
  ASSUME CommonType, SerialInv, GiveUp
  PROVE  CommonType' /\ SerialInv'
<1>1. /\ SerialSetup("ping", "failed") /\ st = "ping"
      /\ st' = "failed" /\ UNCHANGED <<cur, id, dev, asked, toDev, toHost, tries, late>>
      /\ Wire' = Wire /\ AllIdle /\ Framed(Wire) /\ Missing(Wire) = "nothing"
      /\ \A f \in Fields : Settled(Wire, dev, asked, f)
  BY BeforeUp DEF GiveUp, SerialSetup, Wire
<1>2. PingInv' /\ CountInv'
  BY <1>1 DEF SerialInv, PingInv, CountInv
<1>3. late' <= tries' + 2 * id
  BY <1>1 DEF SerialInv, LateInv
<1>4. toDev' \in Seq(Bytewise) /\ toHost' \in Seq(Answer) /\ late' \in {late, late + 1} /\ tries' \in 0 .. MaxTries
  BY <1>1 DEF SerialInv, SerialType, CommonType, Answer
<1> QED
  BY <1>1, <1>2, <1>3, <1>4, SetupKeeps

-----------------------------------------------------------------------------
(* The calls on a serial line.                                             *)

\* The call in progress, and the others.
LEMMA Busy ==
  ASSUME CommonType, SerialInv, NEW t \in Threads, ~Idle(t)
  PROVE  /\ st = "up" /\ todo[t] \in Plans(Missing(Wire)) /\ todo[t] # <<>>
         /\ Missing(Wire) \in Stages /\ Framed(Wire) /\ Wire \in Seq(Bytewise)
         /\ \A u \in Threads : u # t => todo[u] = <<>>
         /\ Outstanding = late + Due(todo[t])
         /\ Cardinality(AnswersOwed) \in Nat /\ Len(toHost) \in Nat /\ late \in Nat /\ tries \in Nat /\ id \in Nat
<1>1. /\ st = "up" /\ todo[t] \in Plans(Missing(Wire)) /\ todo[t] # <<>>
      /\ Framed(Wire) /\ \A u \in Threads : u # t => todo[u] = <<>>
  BY DEF SerialInv, FrameInv, OneCall, Idle
<1>2. Wire \in Seq(Bytewise) /\ AnswersOwed = Owes(Wire)
  BY WireIs DEF SerialInv
<1>3. Missing(Wire) \in Stages
  BY <1>1, <1>2, MissingIs DEF Stages
<1>4. Outstanding = late + Due(todo[t])
  BY <1>1 DEF SerialInv, CountInv
<1>5. Cardinality(AnswersOwed) \in Nat /\ Len(toHost) \in Nat /\ late \in Nat /\ tries \in Nat /\ id \in Nat
  BY <1>2, OwesFinite, RemoteAssumption DEF CommonType
<1> QED
  BY <1>1, <1>2, <1>3, <1>4, <1>5

LEMMA SerialCallKeeps ==
  ASSUME CommonType, SerialInv, link = "serial", NEW t \in Threads, NEW c \in Ops, Call(t, c)
  PROVE  CommonType' /\ SerialInv'
<1> DEFINE p == SerialSteps(c)
<1>1. /\ st = "up" /\ id < MaxCalls /\ AllIdle /\ todo' = [todo EXCEPT ![t] = p]
      /\ id' = id + 1 /\ mine' = [mine EXCEPT ![t] = id + 1] /\ asked' = Wanted(asked, c)
      /\ overlap' = (overlap \/ \E u \in Threads : ~Idle(u))
      /\ UNCHANGED <<link, st, tries, password, srv, lost, exited, toDev, toHost, cur, dev, late, crossed>>
      /\ Wire' = Wire /\ AnswersOwed' = AnswersOwed
  BY WireSame DEF Call, AllIdle, setup, SerialInv
<1>2. /\ p \in Plans("nothing") /\ p \notin GetPlans /\ Due(p) = 0
      /\ \A n \in 1 .. 2 : p # PinAndGets(n)
      /\ Wanted(asked, c) \in Pins
      /\ \A f \in Fields :
           /\ \A i \in DOMAIN p : Sets(p[i], f) => p[i].what = Wanted(asked, c)[f]
           /\ (\E i \in DOMAIN p : Sets(p[i], f)) \/ Wanted(asked, c)[f] = asked[f]
  <2>1. asked \in Pins
    BY DEF CommonType
  <2> QED
    BY <2>1, NewPlan
<1> HIDE DEF p
<1>3. /\ p # <<>> /\ p # <<GetPart(2)>> /\ (\A n \in 1 .. 2 : p # AllGets(n))
  BY <1>2 DEF GetPlans, AllGets
<1>4. DOMAIN todo = Threads /\ id \in Nat /\ late \in Nat /\ tries \in Nat /\ MaxCalls \in Nat
  BY RemoteAssumption DEF CommonType
<1>5. todo'[t] = p /\ \A u \in Threads : u # t => todo'[u] = <<>>
  BY <1>1, <1>4 DEF AllIdle, Idle
<1>6. CommonType'
  <2>1. id' \in 0 .. MaxCalls /\ mine' \in [Threads -> 0 .. MaxCalls] /\ DOMAIN todo' = Threads
    BY <1>1, <1>4 DEF CommonType
  <2> QED
    BY <2>1, <1>1, <1>2 DEF CommonType
<1>7. SerialType'
  <2>1. overlap' = FALSE
    BY <1>1 DEF SerialInv, SerialType, AllIdle
  <2> QED
    BY <2>1, <1>1 DEF SerialInv, SerialType
<1>8. FrameInv'
  <2>1. Framed(Wire) /\ Missing(Wire) = "nothing" /\ (cur # <<>> => Len(cur) < Wants(cur[1].b))
    BY <1>1 DEF SerialInv, FrameInv
  <2>2. OneCall' /\ ~AllIdle'
    BY <1>5, <1>3 DEF OneCall, AllIdle, Idle
  <2>3. \A u \in Threads : (~Idle(u))' => u = t
    BY <1>5 DEF Idle
  <2> QED
    BY <2>1, <2>2, <2>3, <1>1, <1>2, <1>5 DEF FrameInv
<1>9. PingInv'
  BY <1>1 DEF PingInv
<1>10. CountInv'
  <2>1. Outstanding = late + 0
    BY <1>1 DEF SerialInv, CountInv
  <2>2. Outstanding' = late' + Due(p)
    BY <2>1, <1>1, <1>2 DEF Outstanding
  <2>3. ~AllIdle'
    BY <1>5, <1>3 DEF AllIdle, Idle
  <2>4. \A u \in Threads : (~Idle(u))' => u = t
    BY <1>5 DEF Idle
  <2> QED
    BY <2>2, <2>3, <2>4, <1>5 DEF CountInv
<1>11. LateInv'
  <2>1. late <= tries + 2 * id
    BY DEF SerialInv, LateInv
  <2>2. late' <= tries' + 2 * id' /\ late' + 2 <= tries' + 2 * id'
    BY <2>1, <1>1, <1>4
  <2>3. \A u \in Threads : (~Idle(u))' => u = t
    BY <1>5 DEF Idle
  <2> QED
    BY <2>2, <2>3, <1>2, <1>5 DEF LateInv
<1>12. OwnInv'
  <2> SUFFICES ASSUME late' = 0 PROVE ~crossed'
    BY <1>5, <1>2, <1>3, NoPlanLeft DEF OwnInv
  <2> QED
    BY <1>1 DEF SerialInv, OwnInv
<1>13. PinInv'
  <2> SUFFICES ASSUME NEW f \in Fields
               PROVE  /\ \A u \in Threads : \A i \in DOMAIN todo'[u] :
                           Sets(todo'[u][i], f) => todo'[u][i].what = asked'[f]
                      /\ Writing(f)' \/ Settled(Wire', dev', asked', f)
    BY DEF PinInv
  <2>1. ASSUME NEW u \in Threads, NEW i \in DOMAIN todo'[u], Sets(todo'[u][i], f)
        PROVE  todo'[u][i].what = asked'[f]
    BY <2>1, <1>1, <1>2, <1>5
  <2>2. CASE \E i \in DOMAIN p : Sets(p[i], f)
    BY <2>1, <2>2, <1>5 DEF Writing
  <2>3. CASE Wanted(asked, c)[f] = asked[f]
    <3>1. ~Writing(f)
      BY <1>1 DEF Writing, AllIdle, Idle
    <3>2. Settled(Wire, dev, asked, f)
      BY <3>1 DEF SerialInv, PinInv
    <3>3. Settled(Wire', dev', asked', f)
      BY <3>2, <2>3, <1>1 DEF Settled
    <3> QED
      BY <2>1, <3>3
  <2> QED
    BY <2>2, <2>3, <1>2
<1> QED
  BY <1>6, <1>7, <1>8, <1>9, <1>10, <1>11, <1>12, <1>13 DEF SerialInv

\* What is left of a call is a short sequence of steps.
WireSteps == {PutByte(b) : b \in WireBytes} \cup {GetPart(k) : k \in {1, 2}}

LEMMA PlanSeq ==
  ASSUME NEW m \in Stages, NEW p \in Plans(m)
  PROVE  p \in Seq(WireSteps) /\ Len(p) <= 4
<1>1. /\ Pin \in WireSteps /\ GetPart(1) \in WireSteps /\ GetPart(2) \in WireSteps
      /\ \A b \in {"i", "o", "p", "0", "1", "v", "9", "r", "a"} : PutByte(b) \in WireSteps
  BY DEF WireSteps, Pin, WireBytes, Firsts
<1>2. CASE p \in GetPlans
  <2>1. CASE p = <<>>
    BY <2>1
  <2>2. CASE p = <<GetPart(1)>>
    BY <2>2, <1>1
  <2>3. CASE p = <<GetPart(2)>>
    BY <2>3, <1>1
  <2>4. CASE p = <<GetPart(1), GetPart(2)>>
    BY <2>4, <1>1
  <2> QED
    BY <2>1, <2>2, <2>3, <2>4, <1>2 DEF GetPlans
<1>3. CASE m = "nothing" /\ p \notin GetPlans
  <2>1. CASE \E b \in {"i", "o", "p", "0", "1"} : p = <<PutByte(b), Pin>>
    BY <2>1, <1>1
  <2>2. CASE \E b \in {"0", "1"} : p = <<PutByte("i"), Pin, PutByte(b), Pin>>
    BY <2>2, <1>1
  <2>3. CASE p = <<PutByte("v"), Pin, PutByte("9")>>
    BY <2>3, <1>1
  <2>4. CASE p = <<PutByte("r"), Pin, GetPart(1)>>
    BY <2>4, <1>1
  <2>5. CASE p = <<PutByte("a"), Pin, GetPart(1), GetPart(2)>>
    BY <2>5, <1>1
  <2> QED
    BY <2>1, <2>2, <2>3, <2>4, <2>5, <1>3 DEF Plans
<1>4. CASE m = "pin"
  <2>1. CASE p = <<Pin>>
    BY <2>1, <1>1
  <2>2. CASE p = <<Pin, GetPart(1)>>
    BY <2>2, <1>1
  <2>3. CASE p = <<Pin, GetPart(1), GetPart(2)>>
    BY <2>3, <1>1
  <2>4. CASE \E b \in {"0", "1"} : p = <<Pin, PutByte(b), Pin>>
    BY <2>4, <1>1
  <2> QED
    BY <2>1, <2>2, <2>3, <2>4, <1>4 DEF Plans
<1>5. CASE m = "pin9"
  <2>1. p = <<Pin, PutByte("9")>>
    BY <1>5 DEF Plans
  <2> QED
    BY <2>1, <1>1
<1>6. CASE m = "9"
  <2>1. p = <<PutByte("9")>>
    BY <1>6 DEF Plans
  <2> QED
    BY <2>1, <1>1
<1> QED
  BY <1>2, <1>3, <1>4, <1>5, <1>6 DEF Stages

LEMMA StepDone ==
  ASSUME NEW S, NEW p \in Seq(S), p # <<>>, NEW f, NEW q, q = Tail(p)
  PROVE  /\ (\E i \in DOMAIN p : Sets(p[i], f)) <=> Sets(Head(p), f) \/ \E i \in DOMAIN q : Sets(q[i], f)
         /\ \A i \in DOMAIN q : i + 1 \in DOMAIN p /\ q[i] = p[i + 1]
         /\ 1 \in DOMAIN p /\ Head(p) = p[1]
<1>1. /\ q \in Seq(S) /\ Len(q) = Len(p) - 1 /\ Len(p) \in Nat /\ Len(p) > 0
      /\ \A i \in 1 .. Len(p) - 1 : q[i] = p[i + 1]
      /\ Head(p) = p[1]
  BY HeadTailProperties, EmptySeq
<1> DEFINE n == Len(p)
<1>2. DOMAIN p = 1 .. n /\ DOMAIN q = 1 .. n - 1 /\ n \in Nat /\ n > 0
  BY <1>1
<1> HIDE DEF n
<1>3. ASSUME NEW i \in DOMAIN q PROVE i + 1 \in DOMAIN p /\ q[i] = p[i + 1]
  BY <1>1, <1>2 DEF n
<1>4. 1 \in DOMAIN p
  BY <1>2
<1>5. ASSUME NEW i \in DOMAIN p PROVE i = 1 \/ (i - 1 \in DOMAIN q /\ (i - 1) + 1 = i)
  BY <1>2
<1>6. ASSUME NEW i \in DOMAIN p, Sets(p[i], f)
      PROVE  Sets(Head(p), f) \/ \E j \in DOMAIN q : Sets(q[j], f)
  <2>1. CASE i = 1
    BY <2>1, <1>1, <1>6
  <2>2. CASE i - 1 \in DOMAIN q /\ (i - 1) + 1 = i
    <3>1. q[i - 1] = p[i]
      BY <2>2, <1>3
    <3> QED
      BY <3>1, <2>2, <1>6
  <2> QED
    BY <2>1, <2>2, <1>5
<1>7. ASSUME NEW j \in DOMAIN q, Sets(q[j], f) PROVE \E i \in DOMAIN p : Sets(p[i], f)
  BY <1>3, <1>7
<1> QED
  BY <1>1, <1>3, <1>4, <1>6, <1>7

LEMMA PutKeeps ==
  ASSUME CommonType, SerialInv, link = "serial", NEW t \in Threads, Put(t)
  PROVE  CommonType' /\ SerialInv'
<1> DEFINE p == todo[t]  m == Missing(Wire)  b == Head(p).what  e == [b |-> b, for |-> mine[t]]  q == Tail(p)
<1>1. /\ ~Idle(t) /\ Head(p).do = "put" /\ todo' = [todo EXCEPT ![t] = q]
      /\ toDev' = Append(toDev, e)
      /\ UNCHANGED <<link, password, srv, st, tries, lost, exited, toHost, cur, dev, id, mine, late,
                     crossed, overlap, asked>>
  BY DEF Put, Now, Done, setup
<1>2. /\ st = "up" /\ p \in Plans(m) /\ p # <<>> /\ m \in Stages /\ Framed(Wire) /\ Wire \in Seq(Bytewise)
      /\ \A u \in Threads : u # t => todo[u] = <<>>
      /\ Outstanding = late + Due(p)
      /\ Cardinality(AnswersOwed) \in Nat /\ Len(toHost) \in Nat /\ late \in Nat /\ tries \in Nat /\ id \in Nat
  BY <1>1, Busy
<1>3. Fits(m, b) /\ q \in Plans(Then(m, b)) /\ p \notin GetPlans
  BY <1>1, <1>2, PutPlans
<1>4. /\ Due(q) = Due(p) + Brings(b)
      /\ q \in GetPlans => Len(q) \in 0 .. 2
      /\ Brings(b) > 0 => q = PinAndGets(Brings(b))
      /\ \A n \in 1 .. 2 : q = PinAndGets(n) => Brings(b) = n
      /\ \A n \in 1 .. 2 : q = AllGets(n) => p = PinAndGets(n)
      /\ q # <<GetPart(2)>>
  BY <1>1, <1>2, PutDue
<1>5. b \in Firsts \cup {"pin", "9"} /\ b # "@" /\ b \in WireBytes
  BY <1>2, <1>3 DEF Fits, Stages, Firsts, WireBytes
<1>6. mine \in [Threads -> 0 .. MaxCalls] /\ DOMAIN todo = Threads
  BY DEF CommonType
<1>7. e \in Bytewise /\ e.b = b /\ e.for = mine[t]
  BY <1>5, <1>6 DEF Bytewise
<1>8. todo'[t] = q /\ \A u \in Threads : u # t => todo'[u] = <<>>
  BY <1>1, <1>2, <1>6
<1>9. \A f : /\ (\E i \in DOMAIN p : Sets(p[i], f)) <=> Sets(Head(p), f) \/ \E i \in DOMAIN q : Sets(q[i], f)
             /\ \A i \in DOMAIN q : i + 1 \in DOMAIN p /\ q[i] = p[i + 1]
             /\ 1 \in DOMAIN p /\ Head(p) = p[1]
             /\ Sets(Head(p), f) <=> b \in FieldBytes[f]
  <2>1. p \in Seq(WireSteps)
    BY <1>2, PlanSeq
  <2> QED
    BY <2>1, <1>1, <1>2, StepDone DEF Sets
<1> HIDE DEF p, m, b, e, q
<1>10. toDev' \in Seq(Bytewise) /\ More(Wire, Wire', e) /\ AnswersOwed = Owes(Wire) /\ AnswersOwed' = Owes(Wire')
  BY <1>1, <1>7, WireMore, WireIs DEF SerialInv
<1>11. CommonType'
  <2>1. DOMAIN todo' = Threads
    BY <1>1, <1>6
  <2> QED
    BY <2>1, <1>1 DEF CommonType
<1>12. SerialType'
  BY <1>1, <1>10 DEF SerialInv, SerialType
<1>13. Framed(Wire') /\ Missing(Wire') = Then(m, b)
  BY <1>2, <1>3, <1>7, <1>10, FramedMore DEF m
<1>14. \A u \in Threads : (~Idle(u))' => u = t
  BY <1>8 DEF Idle
<1>15. AllIdle' => q = <<>>
  BY <1>8 DEF AllIdle, Idle
<1>16. Then(m, b) \in Stages
  BY DEF Then, Stages
<1>17. FrameInv'
  <2>1. AllIdle' => Missing(Wire') = "nothing"
    BY <1>15, <1>13, <1>3, <1>16, EmptyPlan
  <2>2. cur' # <<>> => Len(cur') < Wants(cur'[1].b)
    BY <1>1 DEF SerialInv, FrameInv
  <2>3. OneCall'
    BY <1>14 DEF OneCall
  <2>4. \A u \in Threads : (~Idle(u))' => st' = "up" /\ todo'[u] \in Plans(Missing(Wire'))
    BY <1>14, <1>8, <1>3, <1>13, <1>1, <1>2
  <2> QED
    BY <2>1, <2>2, <2>3, <2>4, <1>13 DEF FrameInv
<1>18. PingInv'
  BY <1>1, <1>2 DEF PingInv
<1>19. Brings(b) \in Nat /\ Answers(e) = Brings(b)
  BY <1>7, AnswersAre DEF Brings
<1>20. Due(p) \in Nat
  BY <1>3 DEF Due
<1>21. Outstanding' = late' + Due(q)
  <2>1. Cardinality(AnswersOwed') = Cardinality(AnswersOwed) + Brings(b)
    BY <1>2, <1>7, <1>10, <1>19, OwesMore
  <2>2. Outstanding = Len(toHost) + Cardinality(AnswersOwed) /\ Outstanding' = Len(toHost) + Cardinality(AnswersOwed')
    BY <1>1 DEF Outstanding
  <2>3. late' = late /\ Due(q) = Due(p) + Brings(b)
    BY <1>1, <1>4
  <2> QED
    BY <2>1, <2>2, <2>3, <1>2, <1>19, <1>20
<1>22. CountInv'
  <2>1. q = <<>> => Outstanding' = late' + 0
    BY <1>21, NoPlanLeft
  <2> QED
    BY <2>1, <1>1, <1>2, <1>8, <1>14, <1>15, <1>21 DEF CountInv
<1>23. LateInv'
  <2>1. late <= tries + 2 * id /\ late + 2 <= tries + 2 * id
    BY <1>1, <1>3 DEF SerialInv, LateInv, p
  <2>2. q \in GetPlans => late + Len(q) <= tries + 2 * id
    <3> SUFFICES ASSUME q \in GetPlans PROVE late + Len(q) <= tries + 2 * id
      OBVIOUS
    <3> DEFINE l == Len(q)  r == tries + 2 * id
    <3>1. l \in 0 .. 2 /\ r \in Nat
      BY <1>4, <1>2
    <3>2. late + 2 <= r
      BY <2>1
    <3> HIDE DEF l, r
    <3>3. late + l <= r
      BY <3>1, <3>2, <1>2
    <3> QED
      BY <3>3 DEF l, r
  <2> QED
    BY <2>1, <2>2, <1>1, <1>8, <1>14 DEF LateInv
<1>24. OwnInv'
  <2> SUFFICES ASSUME late' = 0
               PROVE  /\ ~crossed'
                      /\ \A n \in 1 .. 2 : q = PinAndGets(n) => AskedLast(t, n)'
                      /\ \A n \in 1 .. 2 : q = AllGets(n) => AskedOnce(t, n)'
    BY <1>4, <1>8, NoPlanLeft DEF OwnInv
  <2> DEFINE w == Len(Wire)
  <2>1. /\ w \in Nat /\ DOMAIN Wire = 1 .. w /\ DOMAIN Wire' = 1 .. w + 1 /\ Len(Wire') = w + 1
        /\ \A i \in 1 .. w : Wire'[i] = Wire[i]
        /\ Wire'[w + 1] = e
    BY <1>2, <1>10, IsSeq DEF More
  <2>2. AnswersOwed = {} <=> \A i \in 1 .. w : Answers(Wire[i]) = 0
    BY <1>2, <1>10, OwesNone
  <2> HIDE DEF w
  <2>3. \A i \in DOMAIN Wire' : i \in 1 .. w \/ i = w + 1
    BY <2>1
  <2>4. late = 0 /\ ~crossed'
    BY <1>1 DEF SerialInv, OwnInv
  <2>5. ASSUME NEW n \in 1 .. 2, q = PinAndGets(n)
        PROVE  AskedLast(t, n)'
    <3>1. Brings(b) = n
      BY <2>5, <1>4
    <3>2. Due(q) = n
      BY <2>5 DEF Due, GetPlans, PinAndGets, GetPart, Pin, PutByte
    <3>3. Outstanding = 0
      BY <3>1, <3>2, <1>2, <1>4, <1>20, <2>4
    <3>4. Len(toHost) = 0 /\ Cardinality(AnswersOwed) = 0
      BY <3>3, <1>2 DEF Outstanding
    <3>5. toHost' = <<>>
      BY <3>4, <1>1, EmptySeq DEF CommonType
    <3>6. \A i \in 1 .. w : Answers(Wire[i]) = 0
      BY <3>4, <1>2, <1>10, <2>2, OwesNone
    <3> QED
      BY <3>1, <3>5, <3>6, <2>1, <2>3, <1>1, <1>7, <1>19 DEF AskedLast
  <2>6. ASSUME NEW n \in 1 .. 2, q = AllGets(n)
        PROVE  AskedOnce(t, n)'
    <3>1. p = PinAndGets(n)
      BY <2>6, <1>4
    <3>2. /\ toHost = <<>>
          /\ \A i \in DOMAIN Wire : Answers(Wire[i]) > 0 =>
               i = Len(Wire) /\ Wire[i].for = mine[t] /\ Answers(Wire[i]) = n
      BY <3>1, <2>4 DEF SerialInv, OwnInv, AskedLast, p
    <3>3. Answers(Wire'[w + 1]) = 0
      <4>1. b = "pin"
        BY <3>1 DEF b, PinAndGets, Pin, PutByte
      <4> QED
        BY <4>1, <2>1, <1>19 DEF Brings
    <3>4. ASSUME NEW i \in DOMAIN Wire', Answers(Wire'[i]) > 0 PROVE i \in 1 .. w /\ Answers(Wire[i]) > 0
      BY <3>3, <3>4, <2>1, <2>3
    <3>5. ASSUME NEW i \in DOMAIN Wire', Answers(Wire'[i]) > 0
          PROVE i = w /\ Wire'[i].for = mine[t] /\ Answers(Wire'[i]) = n
      BY <3>2, <3>4, <3>5, <2>1 DEF w
    <3> QED
      BY <3>2, <3>5, <1>1 DEF AskedOnce
  <2> QED
    BY <2>4, <2>5, <2>6
<1>25. PinInv'
  <2> SUFFICES ASSUME NEW f \in Fields
               PROVE  /\ \A u \in Threads : \A i \in DOMAIN todo'[u] :
                           Sets(todo'[u][i], f) => todo'[u][i].what = asked'[f]
                      /\ Writing(f)' \/ Settled(Wire', dev', asked', f)
    BY DEF PinInv
  <2>1. \A i \in DOMAIN p : Sets(p[i], f) => p[i].what = asked[f]
    BY DEF SerialInv, PinInv, p
  <2>2. ASSUME NEW u \in Threads, NEW i \in DOMAIN todo'[u], Sets(todo'[u][i], f)
        PROVE  todo'[u][i].what = asked'[f]
    <3>1. u = t /\ i \in DOMAIN q /\ Sets(q[i], f)
      BY <2>2, <1>8
    <3> QED
      BY <3>1, <2>1, <1>1, <1>8, <1>9
  <2>3. CASE \E i \in DOMAIN q : Sets(q[i], f)
    BY <2>2, <2>3, <1>8 DEF Writing
  <2>4. CASE Sets(Head(p), f)
    <3>1. b \in FieldBytes[f] /\ b = asked[f]
      BY <2>4, <2>1, <1>9 DEF b
    <3>2. Settled(Wire', dev, asked, f)
      BY <3>1, <1>2, <1>7, <1>10, SettledMore
    <3> QED
      BY <2>2, <3>2, <1>1
  <2>5. CASE \A i \in DOMAIN p : ~Sets(p[i], f)
    <3>1. ~Writing(f)
      BY <2>5, <1>2 DEF Writing, p
    <3>2. b \notin FieldBytes[f] /\ Settled(Wire, dev, asked, f)
      BY <2>5, <3>1, <1>9 DEF SerialInv, PinInv
    <3>3. Settled(Wire', dev, asked, f)
      BY <3>2, <1>2, <1>7, <1>10, SettledMore
    <3> QED
      BY <2>2, <3>3, <1>1
  <2> QED
    BY <2>3, <2>4, <2>5, <1>9
<1> QED
  BY <1>11, <1>12, <1>17, <1>18, <1>22, <1>23, <1>24, <1>25 DEF SerialInv

LEMMA GetKeeps ==
  ASSUME CommonType, SerialInv, link = "serial", NEW t \in Threads, Get(t)
  PROVE  CommonType' /\ SerialInv'
<1> DEFINE p == todo[t]  m == Missing(Wire)  q == Tail(p)
<1>1. /\ ~Idle(t) /\ Head(p).do = "get" /\ todo' = [todo EXCEPT ![t] = q]
      /\ UNCHANGED <<link, password, srv, st, tries, lost, exited, toDev, cur, dev, id, mine,
                     overlap, asked>>
      /\ \/ Take(t) /\ late' = late
         \/ late' = late + 1 /\ toHost' = toHost /\ crossed' = crossed
      /\ Wire' = Wire /\ AnswersOwed' = AnswersOwed
  BY WireSame DEF Get, Now, Done, setup, SerialInv
<1>2. /\ st = "up" /\ p \in Plans(m) /\ p # <<>> /\ m \in Stages /\ Framed(Wire) /\ Wire \in Seq(Bytewise)
      /\ \A u \in Threads : u # t => todo[u] = <<>>
      /\ Outstanding = late + Due(p)
      /\ Cardinality(AnswersOwed) \in Nat /\ Len(toHost) \in Nat /\ late \in Nat /\ tries \in Nat /\ id \in Nat
  BY <1>1, Busy
<1>3. /\ m = "nothing" /\ p \in GetPlans /\ q \in GetPlans
      /\ Due(p) = Due(q) + 1 /\ Len(p) = Len(q) + 1 /\ Len(q) \in 0 .. 1
      /\ \/ \E n \in 1 .. 2 : p = AllGets(n) /\ Head(p).part = 1
         \/ p = <<GetPart(2)>> /\ Head(p).part = 2
      /\ q = <<GetPart(2)>> => p = AllGets(2)
      /\ \A n \in 1 .. 2 : q # AllGets(n) /\ q # PinAndGets(n)
  BY <1>1, <1>2, GetPlan
<1>4. mine \in [Threads -> 0 .. MaxCalls] /\ DOMAIN todo = Threads
  BY DEF CommonType
<1>5. todo'[t] = q /\ \A u \in Threads : u # t => todo'[u] = <<>>
  BY <1>1, <1>2, <1>4
<1>6. \A f : /\ (\E i \in DOMAIN p : Sets(p[i], f)) <=> Sets(Head(p), f) \/ \E i \in DOMAIN q : Sets(q[i], f)
             /\ \A i \in DOMAIN q : i + 1 \in DOMAIN p /\ q[i] = p[i + 1]
             /\ ~Sets(Head(p), f)
  <2>1. p \in Seq(WireSteps)
    BY <1>2, PlanSeq
  <2>2. \A f : ~Sets(Head(p), f)
    BY <1>1 DEF Sets
  <2> HIDE DEF p, q
  <2>3. q = Tail(p)
    BY DEF q
  <2> QED
    BY <2>1, <2>2, <2>3, <1>2, StepDone
<1>7. Due(q) \in Nat
  BY <1>3 DEF Due
<1> HIDE DEF m, q
<1>8. Take(t) => /\ toHost # <<>> /\ toHost' = Tail(toHost) /\ toHost' \in Seq(Answer)
                 /\ Len(toHost') = Len(toHost) - 1
                 /\ crossed' = (crossed \/ Head(toHost) # [for |-> mine[t], part |-> Head(p).part])
                 /\ Head(toHost) = toHost[1]
  BY HeadTailProperties, EmptySeq DEF Take, CommonType, Answer
<1> HIDE DEF p
<1>9. CommonType'
  <2>1. DOMAIN todo' = Threads /\ late' \in Nat
    BY <1>1, <1>2, <1>4
  <2>2. toHost' \in Seq(Answer)
    BY <1>1, <1>8 DEF CommonType, Answer
  <2> QED
    BY <2>1, <2>2, <1>1 DEF CommonType, Answer
<1>10. SerialType'
  BY <1>1 DEF SerialInv, SerialType
<1>11. \A u \in Threads : (~Idle(u))' => u = t
  BY <1>5 DEF Idle
<1>12. AllIdle' => q = <<>>
  BY <1>5 DEF AllIdle, Idle
<1>13. FrameInv'
  <2>1. Framed(Wire') /\ Missing(Wire') = "nothing"
    BY <1>1, <1>2, <1>3 DEF m
  <2>2. cur' # <<>> => Len(cur') < Wants(cur'[1].b)
    BY <1>1 DEF SerialInv, FrameInv
  <2>3. OneCall'
    BY <1>11 DEF OneCall
  <2>4. q \in Plans("nothing")
    BY <1>3 DEF Plans
  <2> QED
    BY <2>1, <2>2, <2>3, <2>4, <1>11, <1>5, <1>1, <1>2 DEF FrameInv
<1>14. PingInv'
  BY <1>1, <1>2 DEF PingInv
<1>15. Outstanding' = late' + Due(q)
  <2>1. Outstanding = Len(toHost) + Cardinality(AnswersOwed) /\ Outstanding' = Len(toHost') + Cardinality(AnswersOwed)
    BY <1>1 DEF Outstanding
  <2>2. CASE Take(t) /\ late' = late
    <3> DEFINE l == Len(toHost)  k == Len(toHost')  a == Cardinality(AnswersOwed)  x == Due(p)  y == Due(q)
    <3>1. k = l - 1 /\ x = y + 1 /\ l + a = late + x
      BY <2>1, <2>2, <1>2, <1>3, <1>8
    <3>2. l \in Nat /\ a \in Nat /\ y \in Nat /\ late \in Nat
      BY <1>2, <1>7
    <3>3. Outstanding' = k + a /\ Due(q) = y
      BY <2>1
    <3> HIDE DEF l, k, a, x, y
    <3>4. k + a = late + y
      BY <3>1, <3>2
    <3> QED
      BY <3>3, <3>4, <2>2
  <2>3. CASE late' = late + 1 /\ toHost' = toHost
    BY <2>1, <2>3, <1>2, <1>3, <1>7
  <2> QED
    BY <2>2, <2>3, <1>1
<1>16. CountInv'
  <2>1. q = <<>> => Outstanding' = late' + 0
    BY <1>15, NoPlanLeft
  <2> QED
    BY <2>1, <1>1, <1>2, <1>5, <1>11, <1>12, <1>15 DEF CountInv
<1>17. LateInv'
  <2> DEFINE l == Len(q)  r == tries + 2 * id
  <2>1. late + (l + 1) <= r /\ l \in 0 .. 1 /\ r \in Nat
    BY <1>1, <1>2, <1>3 DEF SerialInv, LateInv, p
  <2>2. tries' + 2 * id' = r
    BY <1>1
  <2>3. late' = late \/ late' = late + 1
    BY <1>1
  <2>4. l = Len(q)
    OBVIOUS
  <2> HIDE DEF l, r
  <2>5. late' + l <= r /\ late' <= r
    BY <2>1, <2>3, <1>2
  <2> QED
    BY <2>2, <2>4, <2>5, <1>3, <1>5, <1>11 DEF LateInv
<1>18. OwnInv'
  <2> SUFFICES ASSUME late' = 0
               PROVE  /\ ~crossed'
                      /\ q = <<GetPart(2)>> => AnswersOwed = {} /\ toHost' = <<[for |-> mine[t], part |-> 2]>>
    BY <1>1, <1>3, <1>5, NoPlanLeft DEF OwnInv, Own
  <2>1. Take(t) /\ late = 0 /\ toHost # <<>>
    BY <1>1, <1>2, <1>8
  <2>2. ~crossed
    BY <2>1 DEF SerialInv, OwnInv
  <2>3. CASE p = <<GetPart(2)>> /\ Head(p).part = 2
    <3>1. toHost = <<[for |-> mine[t], part |-> 2]>>
      BY <2>1, <2>3 DEF SerialInv, OwnInv, Own, p
    <3>2. Head(toHost) = [for |-> mine[t], part |-> 2]
      BY <3>1
    <3>3. q # <<GetPart(2)>>
      BY <2>3 DEF q
    <3> QED
      BY <3>2, <3>3, <2>1, <2>2, <2>3, <1>8
  <2>4. ASSUME NEW n \in 1 .. 2, p = AllGets(n), Head(p).part = 1
        PROVE  /\ ~crossed'
               /\ q = <<GetPart(2)>> => AnswersOwed = {} /\ toHost' = <<[for |-> mine[t], part |-> 2]>>
    <3>1. AnswersOwed = {} /\ Len(toHost) = n /\ \A i \in 1 .. n : toHost[i] = [for |-> mine[t], part |-> i]
      BY <2>1, <2>4 DEF SerialInv, OwnInv, AskedOnce, Answered, Own, p
    <3>2. Head(toHost) = [for |-> mine[t], part |-> 1]
      BY <3>1, <2>1, <1>8
    <3>3. ASSUME q = <<GetPart(2)>> PROVE toHost' = <<[for |-> mine[t], part |-> 2]>>
      <4>1. p = AllGets(2)
        BY <3>3, <1>3
      <4>2. n = 2
        BY <4>1, <2>4 DEF AllGets, GetPart
      <4>3. toHost \in Seq(Answer) /\ Len(toHost) = 2 /\ toHost[2] = [for |-> mine[t], part |-> 2]
        BY <3>1, <4>2 DEF CommonType, Answer
      <4>4. Len(toHost') = 1 /\ toHost'[1] = [for |-> mine[t], part |-> 2] /\ toHost' \in Seq(Answer)
        BY <4>3, <2>1, <1>8, HeadTailProperties
      <4>5. <<[for |-> mine[t], part |-> 2]>> \in Seq(Answer)
        BY <1>4 DEF Answer
      <4> QED
        BY <4>4, <4>5, SeqEqual
    <3> QED
      BY <3>1, <3>2, <3>3, <2>1, <2>2, <2>4, <1>8
  <2> QED
    BY <2>3, <2>4, <1>3
<1>19. PinInv'
  <2> SUFFICES ASSUME NEW f \in Fields
               PROVE  /\ \A u \in Threads : \A i \in DOMAIN todo'[u] :
                           Sets(todo'[u][i], f) => todo'[u][i].what = asked'[f]
                      /\ Writing(f)' \/ Settled(Wire', dev', asked', f)
    BY DEF PinInv
  <2>1. \A i \in DOMAIN p : Sets(p[i], f) => p[i].what = asked[f]
    BY DEF SerialInv, PinInv, p
  <2>2. ASSUME NEW u \in Threads, NEW i \in DOMAIN todo'[u], Sets(todo'[u][i], f)
        PROVE  todo'[u][i].what = asked'[f]
    <3>1. u = t /\ i \in DOMAIN q /\ Sets(q[i], f)
      BY <2>2, <1>5
    <3> QED
      BY <3>1, <2>1, <1>1, <1>5, <1>6
  <2>3. CASE \E i \in DOMAIN q : Sets(q[i], f)
    BY <2>2, <2>3, <1>5 DEF Writing
  <2>4. CASE \A i \in DOMAIN p : ~Sets(p[i], f)
    <3>1. ~Writing(f)
      BY <2>4, <1>2 DEF Writing, p
    <3>2. Settled(Wire, dev, asked, f)
      BY <3>1 DEF SerialInv, PinInv
    <3> QED
      BY <2>2, <3>2, <1>1
  <2> QED
    BY <2>3, <2>4, <1>6
<1> QED
  BY <1>9, <1>10, <1>13, <1>14, <1>16, <1>17, <1>18, <1>19 DEF SerialInv

-----------------------------------------------------------------------------
(* The device.                                                             *)

LEMMA DeviceKeepsByte ==
  ASSUME CommonType, SerialInv, link = "serial", toDev # <<>>,
         cur' = Append(cur, Head(toDev)), toDev' = Tail(toDev),
         Len(cur') < Wants(cur'[1].b),
         UNCHANGED <<setup, toHost, dev, lost, exited, todo, id, mine, late, crossed, overlap, asked>>
  PROVE  CommonType' /\ SerialInv'
<1>1. /\ cur' \in Seq(Bytewise) /\ Tail(toDev) \in Seq(Bytewise) /\ Len(cur') = Len(cur) + 1
      /\ cur = <<>> => cur'[1] = Head(toDev)
  BY DeviceTakes DEF SerialInv
<1>2. Wire' = Wire /\ AnswersOwed' = AnswersOwed
  <2>1. Wire' = Wire
    BY WireKept DEF SerialInv
  <2> QED
    BY <2>1, WireIs DEF SerialInv
<1>3. UNCHANGED <<link, password, srv, st, tries>>
  BY DEF setup
<1>4. st = "up"
  <2> SUFFICES ASSUME st # "up" PROVE FALSE
    OBVIOUS
  <2>1. cur = <<>> /\ \A i \in DOMAIN toDev : toDev[i].b = "@"
    BY DEF SerialInv, PingInv
  <2>2. Head(toDev) = toDev[1] /\ 1 \in DOMAIN toDev
    BY HeadTailProperties, EmptySeq DEF SerialInv, SerialType
  <2>3. cur'[1].b = "@" /\ Len(cur') = 1
    BY <2>1, <2>2, <1>1
  <2> QED
    BY <2>3 DEF Wants
<1>5. CommonType' /\ SerialType'
  BY <1>1, <1>3 DEF CommonType, SerialInv, SerialType
<1>6. FrameInv'
  BY <1>2, <1>3 DEF SerialInv, FrameInv, AllIdle, OneCall, Idle
<1>7. PingInv'
  BY <1>3, <1>4 DEF PingInv
<1>8. CountInv'
  BY <1>2, <1>3 DEF SerialInv, CountInv, Outstanding, AllIdle, Idle
<1>9. LateInv'
  BY <1>3 DEF SerialInv, LateInv, Idle
<1>10. OwnInv'
  BY <1>2 DEF SerialInv, OwnInv, AskedLast, AskedOnce, Answered, Own
<1>11. PinInv'
  BY <1>2 DEF SerialInv, PinInv, Writing
<1> QED
  BY <1>5, <1>6, <1>7, <1>8, <1>9, <1>10, <1>11 DEF SerialInv

LEMMA DeviceExecutes ==
  ASSUME CommonType, SerialInv, link = "serial", toDev # <<>>,
         NEW now, now = Append(cur, Head(toDev)), ~(Len(now) < Wants(now[1].b)),
         cur' = <<>>, toDev' = Tail(toDev),
         dev' = Apply(dev, [i \in DOMAIN now |-> now[i].b]),
         toHost' = toHost \o AnswerOf(now[1].b, now[1].for),
         UNCHANGED <<setup, lost, exited, todo, id, mine, late, crossed, overlap, asked>>
  PROVE  CommonType' /\ SerialInv'
<1> DEFINE k == Len(now)  first == Wire[1]  reply == AnswerOf(first.b, first.for)
           c == [i \in DOMAIN now |-> now[i].b]
<1>0. UNCHANGED <<link, password, srv, st, tries>>
  BY DEF setup
<1>1. /\ now \in Seq(Bytewise) /\ k = Len(cur) + 1
      /\ Tail(toDev) \in Seq(Bytewise) /\ Wire # <<>> /\ k <= Len(Wire)
      /\ \A i \in 1 .. k : now[i] = Wire[i]
      /\ cur # <<>> => now[1] = cur[1]
      /\ Head(toDev) \in Bytewise
      /\ cur = <<>> => now[1] = Head(toDev)
  BY DeviceTakes DEF SerialInv
<1>2. Wire \in Seq(Bytewise) /\ AnswersOwed = Owes(Wire) /\ AnswersOwed' = Owes(Wire') /\ Framed(Wire)
  BY WireIs DEF SerialInv, FrameInv
<1>3. Less(Wire, Wire', k)
  BY <1>1, WireLess DEF SerialInv
<1>4. /\ Len(Wire) \in Nat /\ k \in Nat /\ k > 0 /\ first \in Bytewise /\ now[1] = first
      /\ Len(cur) \in Nat /\ (cur = <<>> <=> Len(cur) = 0)
      /\ DOMAIN now = 1 .. k /\ DOMAIN Wire = 1 .. Len(Wire)
  <2>1. Len(cur) \in Nat /\ (cur = <<>> <=> Len(cur) = 0) /\ Len(Wire) \in Nat /\ DOMAIN now = 1 .. k
        /\ DOMAIN Wire = 1 .. Len(Wire) /\ \A i \in 1 .. Len(Wire) : Wire[i] \in Bytewise
    BY <1>1, <1>2, IsSeq DEF SerialInv, SerialType
  <2>2. k \in Nat /\ k > 0 /\ 1 \in 1 .. k /\ 1 \in 1 .. Len(Wire)
    BY <2>1, <1>1
  <2> QED
    BY <2>1, <2>2, <1>1
<1>5. k = Wants(first.b)
  <2>1. Wants(first.b) \in 1 .. 3
    BY DEF Wants
  <2>2. k <= Wants(first.b)
    <3>1. CASE cur = <<>>
      BY <3>1, <2>1, <1>1, <1>4
    <3>2. CASE cur # <<>>
      <4>1. Len(cur) < Wants(first.b)
        BY <3>2, <1>1, <1>4 DEF SerialInv, FrameInv
      <4> QED
        BY <4>1, <2>1, <1>1, <1>4
    <3> QED
      BY <3>1, <3>2
  <2> QED
    BY <2>1, <2>2, <1>4
<1> HIDE DEF k, first
<1>6. /\ Framed(Wire') /\ Missing(Wire') = Missing(Wire)
      /\ first.b \in Firsts \cup {"@"} /\ k \in 1 .. 3
      /\ k >= 2 => Wire[2].b = "pin"
      /\ k = 3 => first.b = "v" /\ Wire[3].b = "9"
  BY <1>1, <1>2, <1>3, <1>5, FramedLess DEF first
<1>7. \A i \in 2 .. k : Answers(Wire[i]) = 0
  <2> SUFFICES ASSUME NEW i \in 2 .. k PROVE Answers(Wire[i]) = 0
    OBVIOUS
  <2>1. Wire[i] \in Bytewise
    <3>1. i \in 1 .. Len(Wire)
      BY <1>1, <1>4, <1>6
    <3> QED
      BY <3>1, <1>2, IsSeq
  <2>2. (i = 2 /\ k >= 2) \/ (i = 3 /\ k = 3)
    BY <1>6
  <2>3. Wire[i].b \in {"pin", "9"}
    BY <2>2, <1>6
  <2> QED
    BY <2>1, <2>3, AnswersAre
<1>8. Cardinality(AnswersOwed') = Cardinality(AnswersOwed) - Answers(first)
  BY <1>2, <1>3, <1>6, <1>7, OwesLess DEF first
<1>9. /\ reply \in Seq(Answer) /\ Len(reply) = Answers(first)
      /\ Answers(first) = IF first.b \in {"@", "r"} THEN 1 ELSE IF first.b = "a" THEN 2 ELSE 0
      /\ \A i \in 1 .. Len(reply) : reply[i] = [for |-> first.for, part |-> i]
  <2>1. /\ first.for \in 0 .. MaxCalls /\ (first.b = "@" => first.for = 0)
        /\ Answers(first) = (IF first.b \in {"@", "r"} THEN 1 ELSE IF first.b = "a" THEN 2 ELSE 0)
    BY <1>4, AnswersAre DEF Bytewise
  <2>2. CASE first.b \in {"@", "r"}
    <3>1. reply = <<[for |-> first.for, part |-> 1]>>
      BY <2>1, <2>2 DEF AnswerOf, Pong
    <3> QED
      BY <3>1, <2>1, <2>2 DEF Answer
  <2>3. CASE first.b = "a"
    <3>1. reply = <<[for |-> first.for, part |-> 1], [for |-> first.for, part |-> 2]>>
      BY <2>3 DEF AnswerOf
    <3> QED
      BY <3>1, <2>1, <2>3 DEF Answer
  <2>4. CASE first.b \notin {"@", "r", "a"}
    <3>1. reply = <<>>
      BY <2>4 DEF AnswerOf
    <3> QED
      BY <3>1, <2>1, <2>4
  <2> QED
    BY <2>2, <2>3, <2>4
<1>10. toHost' = toHost \o reply
  BY <1>4
<1> HIDE DEF reply
<1>11. /\ toHost' \in Seq(Answer) /\ Len(toHost') = Len(toHost) + Len(reply) /\ Len(toHost) \in Nat
       /\ Len(reply) \in Nat
       /\ \A i \in 1 .. Len(toHost) + Len(reply) :
            toHost'[i] = IF i <= Len(toHost) THEN toHost[i] ELSE reply[i - Len(toHost)]
  <2>1. toHost \in Seq(Answer)
    BY DEF CommonType, Answer
  <2>2. /\ toHost \o reply \in Seq(Answer)
        /\ Len(toHost) \in Nat /\ Len(reply) \in Nat /\ Len(toHost \o reply) = Len(toHost) + Len(reply)
        /\ \A i \in 1 .. Len(toHost) + Len(reply) :
             (toHost \o reply)[i] = IF i <= Len(toHost) THEN toHost[i] ELSE reply[i - Len(toHost)]
    <3>1. reply \in Seq(Answer)
      BY <1>9
    <3> QED
      BY <2>1, <3>1, Joined
  <2> QED
    BY <2>2, <1>10
<1>12. /\ dev' \in Pins
       /\ \A f \in Fields :
            /\ \A i \in 1 .. k : Wire[i].b \in FieldBytes[f] => dev'[f] = Wire[i].b
            /\ (\A i \in 1 .. k : Wire[i].b \notin FieldBytes[f]) => dev'[f] = dev[f]
  <2>1. /\ \A i \in 1 .. k : c[i] = Wire[i].b
        /\ dev' = Apply(dev, c)
    BY <1>1, <1>4
  <2> HIDE DEF c
  <2>2. c[1] = first.b /\ (k >= 2 => c[2] = "pin") /\ (k = 3 => c[3] = "9")
    <3>1. 1 \in 1 .. k /\ (k >= 2 => 2 \in 1 .. k) /\ (k = 3 => 3 \in 1 .. k)
      BY <1>6
    <3> QED
      BY <3>1, <2>1, <1>6 DEF first
  <2>3. dev \in Pins
    BY DEF CommonType
  <2>4. /\ Apply(dev, c) \in Pins
        /\ \A f \in Fields :
              /\ \A i \in 1 .. k : c[i] \in FieldBytes[f] => Apply(dev, c)[f] = c[i]
              /\ (\A i \in 1 .. k : c[i] \notin FieldBytes[f]) => Apply(dev, c)[f] = dev[f]
    BY <2>2, <2>3, <1>5, <1>6, Applied
  <2>5. ASSUME NEW f \in Fields
        PROVE  /\ \A i \in 1 .. k : Wire[i].b \in FieldBytes[f] => dev'[f] = Wire[i].b
               /\ (\A i \in 1 .. k : Wire[i].b \notin FieldBytes[f]) => dev'[f] = dev[f]
    BY <2>1, <2>4
  <2> QED
    BY <2>1, <2>4, <2>5
<1>13. CommonType' /\ SerialType'
  <2>1. toDev' \in Seq(Bytewise) /\ cur' \in Seq(Bytewise)
    BY <1>1
  <2> QED
    BY <2>1, <1>0, <1>11, <1>12 DEF CommonType, SerialInv, SerialType, Answer
<1>14. FrameInv'
  BY <1>0, <1>6 DEF SerialInv, FrameInv, AllIdle, OneCall, Idle
<1>15. PingInv'
  <2> SUFFICES ASSUME st # "up" PROVE PingInv'
    BY <1>0 DEF PingInv
  <2>1. /\ cur = <<>> /\ (\A i \in DOMAIN toDev : toDev[i].b = "@") /\ (\A i \in DOMAIN toHost : toHost[i] = Pong)
        /\ st \notin {"open", "flush"}
    BY DEF SerialInv, PingInv
  <2>2. /\ Head(toDev) = toDev[1] /\ 1 \in DOMAIN toDev
        /\ \A i \in DOMAIN toDev' : i + 1 \in DOMAIN toDev /\ toDev'[i] = toDev[i + 1]
    <3>1. /\ toDev' \in Seq(Bytewise) /\ Len(toDev') = Len(toDev) - 1 /\ Len(toDev) \in Nat /\ Len(toDev) > 0
          /\ \A i \in 1 .. Len(toDev) - 1 : toDev'[i] = toDev[i + 1]
          /\ Head(toDev) = toDev[1] /\ toDev \in Seq(Bytewise)
      BY HeadTailProperties, EmptySeq DEF SerialInv, SerialType
    <3>2. DOMAIN toDev = 1 .. Len(toDev) /\ DOMAIN toDev' = 1 .. Len(toDev) - 1
      BY <3>1
    <3> QED
      BY <3>1, <3>2
  <2>3. \A i \in DOMAIN toDev' : toDev'[i].b = "@"
    BY <2>1, <2>2
  <2>4. first.b = "@" /\ first.for = 0
    BY <2>1, <2>2, <1>1, <1>4 DEF Bytewise
  <2>5. \A i \in DOMAIN toHost' : toHost'[i] = Pong
    <3>1. DOMAIN toHost' = 1 .. Len(toHost) + 1 /\ DOMAIN toHost = 1 .. Len(toHost) /\ Len(reply) = 1
      BY <2>4, <1>9, <1>11, IsSeq DEF CommonType
    <3> SUFFICES ASSUME NEW i \in 1 .. Len(toHost) + 1 PROVE toHost'[i] = Pong
      BY <3>1
    <3>2. CASE i <= Len(toHost)
      <4>1. i \in DOMAIN toHost
        BY <3>1, <3>2, <1>11
      <4> QED
        BY <4>1, <3>1, <3>2, <2>1, <1>11
    <3>3. CASE ~(i <= Len(toHost))
      <4>1. i - Len(toHost) = 1
        BY <3>3, <1>11
      <4>2. toHost'[i] = reply[1]
        BY <4>1, <3>1, <3>3, <1>11
      <4>3. reply[1] = [for |-> 0, part |-> 1]
        BY <3>1, <2>4, <1>9
      <4> QED
        BY <4>2, <4>3 DEF Pong
    <3> QED
      BY <3>2, <3>3
  <2> QED
    BY <2>1, <2>3, <2>5, <1>0 DEF SerialInv, PingInv
<1>16. Outstanding' = Outstanding
  <2>1. /\ Outstanding = Len(toHost) + Cardinality(AnswersOwed)
        /\ Outstanding' = Len(toHost') + Cardinality(AnswersOwed')
    BY DEF Outstanding
  <2>2. Cardinality(AnswersOwed) \in Nat /\ Answers(first) \in Nat
    BY <1>2, <1>9, OwesFinite
  <2> DEFINE l == Len(toHost)  x == Len(toHost')  a == Cardinality(AnswersOwed)
             y == Cardinality(AnswersOwed')  n == Answers(first)
  <2>3. l \in Nat /\ a \in Nat /\ n \in Nat /\ x = l + n /\ y = a - n
    BY <2>2, <1>8, <1>9, <1>11
  <2>4. Outstanding = l + a /\ Outstanding' = x + y
    BY <2>1
  <2> HIDE DEF l, x, a, y, n
  <2> QED
    BY <2>3, <2>4
<1>17. CountInv'
  BY <1>0, <1>16 DEF SerialInv, CountInv, AllIdle, Idle
<1>18. LateInv'
  BY <1>0 DEF SerialInv, LateInv, Idle
<1>19. OwnInv'
  <2> DEFINE w == Len(Wire)
  <2>1. /\ w \in Nat /\ k <= w /\ DOMAIN Wire = 1 .. w /\ DOMAIN Wire' = 1 .. w - k /\ Len(Wire') = w - k
        /\ \A i \in 1 .. w - k : Wire'[i] = Wire[i + k]
        /\ Wire' \in Seq(Bytewise)
    BY <1>2, <1>3, IsSeq DEF Less
  <2>2. /\ AnswersOwed = {} <=> \A i \in 1 .. w : Answers(Wire[i]) = 0
        /\ AnswersOwed' = {} <=> \A i \in 1 .. w - k : Answers(Wire'[i]) = 0
    BY <1>2, <2>1, OwesNone
  <2>3. w = Len(Wire)
    OBVIOUS
  <2> HIDE DEF w
  <2>4. \A i \in 1 .. w - k : i + k \in 1 .. w /\ i + k # 1
    BY <2>1, <1>6
  <2>5. 1 \in 1 .. w
    BY <2>1, <1>6
  <2>6. Answers(first) = 0 => toHost' = toHost
    BY <1>9, <1>10, <1>11, EmptySeq, ConcatEmptySeq DEF CommonType, Answer
  <2> SUFFICES ASSUME late = 0
               PROVE  /\ ~crossed
                      /\ \A t \in Threads :
                         /\ \A n \in 1 .. 2 : todo[t] = PinAndGets(n) => AskedLast(t, n)'
                         /\ \A n \in 1 .. 2 : todo[t] = AllGets(n) => AskedOnce(t, n)' \/ Answered(t, n)'
                         /\ todo[t] = <<GetPart(2)>> => AnswersOwed' = {} /\ toHost' = <<Own(t, 2)>>'
    BY <1>0 DEF OwnInv
  <2>7. ~crossed
    BY DEF SerialInv, OwnInv
  <2>8. ASSUME AnswersOwed = {} PROVE AnswersOwed' = {} /\ toHost' = toHost
    <3>1. Answers(first) = 0
      BY <2>2, <2>5, <2>8 DEF first
    <3>2. \A i \in 1 .. w - k : Answers(Wire'[i]) = 0
      BY <2>1, <2>2, <2>4, <2>8
    <3> QED
      BY <3>1, <3>2, <2>2, <2>6
  <2>9. ASSUME NEW t \in Threads, NEW n \in 1 .. 2, todo[t] = PinAndGets(n)
        PROVE  AskedLast(t, n)'
    <3>0. /\ toHost = <<>>
          /\ \A i \in DOMAIN Wire : Answers(Wire[i]) > 0 =>
               i = Len(Wire) /\ Wire[i].for = mine[t] /\ Answers(Wire[i]) = n
      BY <2>9 DEF SerialInv, OwnInv, AskedLast
    <3>1. /\ toHost = <<>>
          /\ \A i \in 1 .. w : Answers(Wire[i]) > 0 =>
               i = w /\ Wire[i].for = mine[t] /\ Answers(Wire[i]) = n
      BY <3>0, <2>1, <2>3
    <3>2. Answers(first) = 0
      <4> SUFFICES ASSUME Answers(first) > 0 PROVE FALSE
        BY <1>9
      <4>1. w = 1
        BY <3>1, <2>5 DEF first
      <4>2. k = 1
        BY <4>1, <2>1, <1>6
      <4>3. first.b = "@"
        BY <4>2, <1>5, <1>6 DEF Wants, Firsts
      <4>4. Missing(Wire) = "nothing"
        <5>1. /\ Missing(Wire) \in {"nothing", "pin", "pin9", "9"}
              /\ Missing(Wire) = "pin9" <=> w > 0 /\ Wire[w].b = "v"
              /\ Missing(Wire) = "pin" <=> w > 0 /\ Wire[w].b \in Firsts \ {"v"}
              /\ Missing(Wire) = "9" <=> w > 1 /\ Wire[w - 1].b = "v"
          BY <1>2, <2>3, MissingIs
        <5>2. Wire[w].b = "@" /\ ~(w > 1)
          BY <4>1, <4>3 DEF first
        <5> QED
          BY <5>1, <5>2 DEF Firsts
      <4>5. todo[t] \in Plans("nothing")
        <5>1. ~Idle(t)
          BY <2>9 DEF Idle, PinAndGets
        <5> QED
          BY <5>1, <4>4 DEF SerialInv, FrameInv
      <4> QED
        BY <4>5, <2>9 DEF Plans, GetPlans, PinAndGets, PutByte, GetPart, Pin
    <3>3. toHost' = <<>>
      BY <3>1, <3>2, <2>6
    <3>4. ASSUME NEW i \in 1 .. w - k, Answers(Wire'[i]) > 0
          PROVE  i = w - k /\ Wire'[i].for = mine[t] /\ Answers(Wire'[i]) = n
      <4>1. i + k \in 1 .. w /\ Wire'[i] = Wire[i + k]
        BY <2>1, <2>4
      <4>2. i + k = w /\ Wire[i + k].for = mine[t] /\ Answers(Wire[i + k]) = n
        BY <4>1, <3>1, <3>4
      <4> QED
        BY <4>1, <4>2, <2>1, <1>6
    <3> QED
      BY <3>3, <3>4, <2>1 DEF AskedLast
  <2>10. ASSUME NEW t \in Threads, NEW n \in 1 .. 2, todo[t] = AllGets(n)
         PROVE  AskedOnce(t, n)' \/ Answered(t, n)'
    <3>1. \/ /\ toHost = <<>>
             /\ \A i \in 1 .. w : Answers(Wire[i]) > 0 =>
                  /\ Wire[i].for = mine[t] /\ Answers(Wire[i]) = n
                  /\ \A j \in 1 .. w : Answers(Wire[j]) > 0 => i = j
          \/ /\ AnswersOwed = {}
             /\ Len(toHost) = n /\ \A i \in 1 .. n : toHost[i] = [for |-> mine[t], part |-> i]
      <4>1. \/ /\ toHost = <<>>
               /\ \A i \in DOMAIN Wire : Answers(Wire[i]) > 0 =>
                    /\ Wire[i].for = mine[t] /\ Answers(Wire[i]) = n
                    /\ \A j \in DOMAIN Wire : Answers(Wire[j]) > 0 => i = j
            \/ /\ AnswersOwed = {}
               /\ Len(toHost) = n /\ \A i \in 1 .. n : toHost[i] = [for |-> mine[t], part |-> i]
        BY <2>10 DEF SerialInv, OwnInv, AskedOnce, Answered, Own
      <4> QED
        BY <4>1, <2>1
    <3>2. CASE /\ AnswersOwed = {}
               /\ Len(toHost) = n /\ \A i \in 1 .. n : toHost[i] = [for |-> mine[t], part |-> i]
      BY <3>2, <2>8, <1>0 DEF Answered, Own
    <3>3. CASE /\ toHost = <<>>
               /\ \A i \in 1 .. w : Answers(Wire[i]) > 0 =>
                    /\ Wire[i].for = mine[t] /\ Answers(Wire[i]) = n
                    /\ \A j \in 1 .. w : Answers(Wire[j]) > 0 => i = j
      <4>1. CASE Answers(first) > 0
        <5>1. first.for = mine[t] /\ Answers(first) = n /\ \A j \in 1 .. w : Answers(Wire[j]) > 0 => j = 1
          BY <3>3, <4>1, <2>5 DEF first
        <5>2. \A i \in 1 .. w - k : Answers(Wire'[i]) = 0
          <6> SUFFICES ASSUME NEW i \in 1 .. w - k PROVE Answers(Wire'[i]) = 0
            OBVIOUS
          <6>1. Wire'[i] = Wire[i + k] /\ i + k \in 1 .. w /\ i + k # 1
            BY <2>1, <2>4
          <6>2. Answers(Wire[i + k]) \in Nat
            BY <6>1, <2>1, <1>2, IsSeq, AnswersAre
          <6> QED
            BY <6>1, <6>2, <5>1
        <5>3. Len(toHost') = n /\ \A i \in 1 .. n : toHost'[i] = [for |-> mine[t], part |-> i]
          <6>1. Len(toHost) = 0 /\ Len(reply) = n
            BY <3>3, <5>1, <1>9
          <6>2. \A i \in 1 .. n : 0 + i = i /\ ~(i <= 0) /\ i - 0 = i
            OBVIOUS
          <6>3. toHost' = reply
            BY <3>3, <1>9, <1>10, ConcatEmptySeq
          <6> QED
            BY <6>1, <6>3, <5>1, <1>9
        <5> QED
          BY <5>2, <5>3, <2>2, <1>0 DEF Answered, Own
      <4>2. CASE Answers(first) = 0
        <5>1. toHost' = <<>>
          BY <3>3, <4>2, <2>6
        <5>2. ASSUME NEW i \in 1 .. w - k, Answers(Wire'[i]) > 0
              PROVE  /\ Wire'[i].for = mine[t] /\ Answers(Wire'[i]) = n
                     /\ \A j \in 1 .. w - k : Answers(Wire'[j]) > 0 => i = j
          <6>1. i + k \in 1 .. w /\ Wire'[i] = Wire[i + k]
            BY <2>1, <2>4
          <6>2. ASSUME NEW j \in 1 .. w - k, Answers(Wire'[j]) > 0 PROVE i = j
            <7>1. j + k \in 1 .. w /\ Wire'[j] = Wire[j + k]
              BY <2>1, <2>4
            <7>2. i + k = j + k
              BY <6>1, <7>1, <3>3, <5>2, <6>2
            <7> QED
              BY <7>2, <1>6
          <6> QED
            BY <6>1, <6>2, <3>3, <5>2
        <5> QED
          BY <5>1, <5>2, <2>1, <1>0 DEF AskedOnce
      <4> QED
        <5>1. Answers(first) > 0 \/ Answers(first) = 0
          BY <1>9
        <5> QED
          BY <4>1, <4>2, <5>1
    <3> QED
      BY <3>1, <3>2, <3>3
  <2>11. ASSUME NEW t \in Threads, todo[t] = <<GetPart(2)>>
         PROVE  AnswersOwed' = {} /\ toHost' = <<Own(t, 2)>>'
    <3>1. AnswersOwed = {} /\ toHost = <<[for |-> mine[t], part |-> 2]>>
      BY <2>11 DEF SerialInv, OwnInv, Own
    <3> QED
      BY <3>1, <2>8, <1>0 DEF Own
  <2> QED
    BY <2>7, <2>9, <2>10, <2>11
<1>20. PinInv'
  <2> SUFFICES ASSUME NEW f \in Fields, ~Writing(f) PROVE Settled(Wire', dev', asked, f)
    BY DEF SerialInv, PinInv, Writing
  <2>1. Settled(Wire, dev, asked, f)
    BY DEF SerialInv, PinInv
  <2>2. /\ \A i \in 1 .. k : Wire[i].b \in FieldBytes[f] => dev'[f] = Wire[i].b
        /\ (\A i \in 1 .. k : Wire[i].b \notin FieldBytes[f]) => dev'[f] = dev[f]
    BY <1>12
  <2>3. Executes(Wire, k, dev, dev', f)
    BY <2>2 DEF Executes
  <2> QED
    BY <2>1, <2>3, <1>2, <1>3, <1>6, SettledLess
<1> QED
  BY <1>13, <1>14, <1>15, <1>17, <1>18, <1>19, <1>20 DEF SerialInv

LEMMA DeviceKeeps ==
  ASSUME CommonType, SerialInv, DeviceStep
  PROVE  CommonType' /\ SerialInv'
<1> DEFINE now == Append(cur, Head(toDev))
<1>1. CASE Len(now) < Wants(now[1].b)
  BY <1>1, DeviceKeepsByte DEF DeviceStep
<1>2. CASE ~(Len(now) < Wants(now[1].b))
  BY <1>2, DeviceExecutes DEF DeviceStep
<1> QED
  BY <1>1, <1>2

-----------------------------------------------------------------------------
(* The socket.                                                             *)

LEMMA NetPlan ==
  ASSUME NEW c \in Ops
  PROVE  /\ NetSteps(c) # <<>> /\ NetSteps(c) # <<RecvStep>> /\ <<RecvStep>> # <<>>
         /\ Head(NetSteps(c)) = [do |-> "send", what |-> c] /\ Tail(NetSteps(c)) = <<RecvStep>>
         /\ Head(<<RecvStep>>) = RecvStep /\ Tail(<<RecvStep>>) = <<>>
         /\ Len(NetSteps(c)) = 2 /\ Len(<<RecvStep>>) = 1
  BY DEF NetSteps, RecvStep

\* What a thread is doing, by the step it is at.
LEMMA NetDoing ==
  ASSUME NetType, NEW t \in Threads
  PROVE  /\ ~Now(t, "put") /\ ~Now(t, "get")
         /\ Now(t, "send") => \E c \in Ops : todo[t] = NetSteps(c) /\ Head(todo[t]).what = c
                                             /\ Tail(todo[t]) = <<RecvStep>>
         /\ Now(t, "recv") => todo[t] = <<RecvStep>> /\ Head(todo[t]).part = 1 /\ Tail(todo[t]) = <<>>
<1>1. CASE todo[t] = <<>>
  BY <1>1 DEF Now, Idle
<1>2. CASE todo[t] = <<RecvStep>>
  <2>1. Head(todo[t]).do = "recv" /\ Head(todo[t]).part = 1 /\ Tail(todo[t]) = <<>>
    BY <1>2 DEF RecvStep
  <2> QED
    BY <1>2, <2>1 DEF Now
<1>3. ASSUME NEW c \in Ops, todo[t] = NetSteps(c)
      PROVE  /\ Head(todo[t]).do = "send" /\ Head(todo[t]).what = c
             /\ Tail(todo[t]) = <<RecvStep>>
  BY <1>3, NetPlan
<1>4. todo[t] = <<>> \/ todo[t] = <<RecvStep>> \/ \E c \in Ops : todo[t] = NetSteps(c)
  BY DEF NetType
<1> QED
  BY <1>1, <1>2, <1>3, <1>4 DEF Now

\* A call sets the fields it decides about, whatever the pin was, and no other.
LEMMA WantedDecides ==
  ASSUME NEW c \in Ops, NEW s \in Pins, NEW r \in Pins
  PROVE  /\ Wanted(s, c) \in Pins
         /\ \A f \in Fields : IF Decides(c, f) THEN Wanted(s, c)[f] = Wanted(r, c)[f]
                              ELSE Wanted(s, c)[f] = s[f]
<1>0. /\ s.mode \in {"i", "o", "p"} /\ s.level \in {"0", "1"} /\ s.pwm \in {"0", "9"}
      /\ s = [mode |-> s.mode, level |-> s.level, pwm |-> s.pwm]
      /\ r = [mode |-> r.mode, level |-> r.level, pwm |-> r.pwm]
  BY DEF Pins
<1>1. CASE c.op = "pinMode"
  <2>1. \A x \in {s, r} : Wanted(x, c) = [x EXCEPT !.mode = ModeByte(c.arg)]
    BY <1>1 DEF Wanted
  <2>2. \A x \in {s, r} : Wanted(x, c) = [mode |-> ModeByte(c.arg), level |-> x.level, pwm |-> x.pwm]
    BY <2>1, <1>0
  <2>3. Wanted(s, c) \in Pins
    BY <2>2, <1>0, ModeByteType DEF Pins
  <2>4. Decides(c, "mode") /\ ~Decides(c, "level") /\ ~Decides(c, "pwm")
    BY <1>1 DEF Decides
  <2> QED
    BY <2>2, <2>3, <2>4 DEF Fields
<1>2. CASE c.op = "digitalWrite"
  <2>1. \A x \in {s, r} : Wanted(x, c) = [x EXCEPT !.level = c.arg]
    BY <1>2 DEF Wanted
  <2>2. \A x \in {s, r} : Wanted(x, c) = [mode |-> x.mode, level |-> c.arg, pwm |-> x.pwm]
    BY <2>1, <1>0
  <2>3. Wanted(s, c) \in Pins
    BY <2>2, <1>0, <1>2, KindsOfOps DEF Pins
  <2>4. Decides(c, "level") /\ ~Decides(c, "mode") /\ ~Decides(c, "pwm")
    BY <1>2 DEF Decides
  <2> QED
    BY <2>2, <2>3, <2>4 DEF Fields
<1>3. CASE c.op = "pwmWrite"
  <2>1. \A x \in {s, r} : Wanted(x, c) = [x EXCEPT !.pwm = c.arg]
    BY <1>3 DEF Wanted
  <2>2. \A x \in {s, r} : Wanted(x, c) = [mode |-> x.mode, level |-> x.level, pwm |-> c.arg]
    BY <2>1, <1>0
  <2>3. Wanted(s, c) \in Pins
    BY <2>2, <1>0, <1>3, KindsOfOps DEF Pins
  <2>4. Decides(c, "pwm") /\ ~Decides(c, "mode") /\ ~Decides(c, "level")
    BY <1>3 DEF Decides
  <2> QED
    BY <2>2, <2>3, <2>4 DEF Fields
<1>4. CASE c.op = "pull" /\ c.arg \in {"PUD_UP", "PUD_OFF"}
  <2>1. PICK b \in {"0", "1"} : b = IF c.arg = "PUD_UP" THEN "1" ELSE "0"
    OBVIOUS
  <2>2. \A x \in {s, r} : Wanted(x, c) = [x EXCEPT !.mode = "i", !.level = b]
    BY <2>1, <1>4 DEF Wanted
  <2>3. \A x \in {s, r} : Wanted(x, c) = [mode |-> "i", level |-> b, pwm |-> x.pwm]
    BY <2>2, <1>0
  <2>4. Wanted(s, c) \in Pins
    BY <2>3, <1>0 DEF Pins
  <2>5. Decides(c, "level") /\ Decides(c, "mode") /\ ~Decides(c, "pwm")
    BY <1>4 DEF Decides
  <2> QED
    BY <2>3, <2>4, <2>5 DEF Fields
<1>5. CASE c.op = "pull" /\ c.arg \notin {"PUD_UP", "PUD_OFF"}
  <2>1. \A x \in {s, r} : Wanted(x, c) = [x EXCEPT !.mode = "i", !.level = @]
    BY <1>5 DEF Wanted
  <2>2. \A x \in {s, r} : Wanted(x, c) = [mode |-> "i", level |-> x.level, pwm |-> x.pwm]
    BY <2>1, <1>0
  <2>3. Wanted(s, c) \in Pins
    BY <2>2, <1>0 DEF Pins
  <2>4. Decides(c, "mode") /\ ~Decides(c, "level") /\ ~Decides(c, "pwm")
    BY <1>5 DEF Decides
  <2> QED
    BY <2>2, <2>3, <2>4 DEF Fields
<1>6. CASE c.op \notin {"pinMode", "digitalWrite", "pwmWrite", "pull"}
  <2>1. Wanted(s, c) = s
    BY <1>6 DEF Wanted
  <2>2. \A f \in Fields : ~Decides(c, f)
    BY <1>6 DEF Decides, Fields
  <2> QED
    BY <2>1, <2>2
<1> QED
  BY <1>1, <1>2, <1>3, <1>4, <1>5, <1>6

Commands == [call : Ops, for : 0 .. MaxCalls]

\* A command is sent ...
LEMMA DecidedMore ==
  ASSUME NEW s \in Seq(Commands), NEW e \in Commands, NEW d, NEW a \in Pins, NEW f \in Fields, Decided(s, d, a, f)
  PROVE  Decided(Append(s, e), d, Wanted(a, e.call), f)
<1> DEFINE n == Len(s)  u == Append(s, e)  x == Wanted(a, e.call)
<1>1. /\ n \in Nat /\ DOMAIN s = 1 .. n /\ DOMAIN u = 1 .. n + 1
      /\ \A i \in 1 .. n : u[i] = s[i] /\ s[i] \in Commands
      /\ u[n + 1] = e /\ e.call \in Ops
  <2>1. u \in Seq(Commands) /\ Len(u) = n + 1 /\ (\A i \in 1 .. n : u[i] = s[i]) /\ u[n + 1] = e
    BY AppendProperties
  <2>2. n \in Nat /\ DOMAIN s = 1 .. n /\ (\A i \in 1 .. n : s[i] \in Commands)
    BY IsSeq
  <2>3. DOMAIN u = 1 .. n + 1
    BY <2>1, IsSeq
  <2> QED
    BY <2>1, <2>2, <2>3 DEF Commands
<1>2. /\ x \in Pins
      /\ Decides(e.call, f) => Wanted(x, e.call)[f] = x[f]
      /\ ~Decides(e.call, f) => x[f] = a[f]
  <2>1. x \in Pins
    BY <1>1, WantedDecides
  <2> QED
    BY <2>1, <1>1, WantedDecides
<1> HIDE DEF n, u, x
<1>3. n + 1 \in 1 .. n + 1 /\ (\A j \in 1 .. n + 1 : j \in 1 .. n \/ j = n + 1) /\ (\A i \in 1 .. n : i \in 1 .. n + 1)
      /\ ~(n + 1 > n + 1)
  BY <1>1
<1>4. CASE Decides(e.call, f)
  <2>1. ASSUME NEW j \in DOMAIN u, j > n + 1 PROVE FALSE
    BY <2>1, <1>1
  <2>2. Decides(u[n + 1].call, f) /\ Wanted(x, u[n + 1].call)[f] = x[f] /\ n + 1 \in DOMAIN u
    BY <1>1, <1>2, <1>3, <1>4
  <2>3. Decided(u, d, x, f)
    BY <2>1, <2>2 DEF Decided
  <2> QED
    BY <2>3 DEF u, x
<1>5. CASE ~Decides(e.call, f)
  <2>1. ASSUME NEW i \in DOMAIN s, Decides(s[i].call, f), Wanted(a, s[i].call)[f] = a[f],
               \A j \in DOMAIN s : j > i => ~Decides(s[j].call, f)
        PROVE  Decided(u, d, x, f)
    <3>1. i \in DOMAIN u /\ u[i] = s[i] /\ s[i].call \in Ops
      BY <1>1, <1>3 DEF Commands
    <3>2. Wanted(x, s[i].call)[f] = Wanted(a, s[i].call)[f]
      BY <3>1, <2>1, <1>2, WantedDecides
    <3>3. ASSUME NEW j \in DOMAIN u, j > i PROVE ~Decides(u[j].call, f)
      <4>1. j \in 1 .. n \/ j = n + 1
        BY <1>1, <1>3
      <4> QED
        BY <4>1, <3>3, <2>1, <1>1, <1>5
    <3> QED
      BY <3>1, <3>2, <3>3, <2>1, <1>2, <1>5 DEF Decided
  <2>2. ASSUME \A i \in DOMAIN s : ~Decides(s[i].call, f), d[f] = a[f]
        PROVE  Decided(u, d, x, f)
    <3>1. ASSUME NEW j \in DOMAIN u PROVE ~Decides(u[j].call, f)
      <4>1. j \in 1 .. n \/ j = n + 1
        BY <1>1, <1>3
      <4> QED
        BY <4>1, <2>2, <1>1, <1>5
    <3> QED
      BY <3>1, <2>2, <1>2, <1>5 DEF Decided
  <2>3. Decided(u, d, x, f)
    BY <2>1, <2>2 DEF Decided
  <2> QED
    BY <2>3 DEF u, x
<1> QED
  BY <1>4, <1>5

\* ... and executed.
LEMMA DecidedLess ==
  ASSUME NEW s \in Seq(Commands), s # <<>>, NEW d \in Pins, NEW a \in Pins, NEW f \in Fields, Decided(s, d, a, f)
  PROVE  Decided(Tail(s), Wanted(d, Head(s).call), a, f)
<1> DEFINE n == Len(s)  u == Tail(s)  h == Head(s).call  x == Wanted(d, h)
<1>1. /\ n \in Nat /\ n > 0 /\ DOMAIN s = 1 .. n /\ DOMAIN u = 1 .. n - 1
      /\ \A i \in 1 .. n - 1 : u[i] = s[i + 1]
      /\ Head(s) = s[1] /\ h \in Ops
  <2>1. u \in Seq(Commands) /\ Len(u) = n - 1 /\ (\A i \in 1 .. n - 1 : u[i] = s[i + 1]) /\ Head(s) = s[1]
        /\ Head(s) \in Commands
    BY HeadTailProperties
  <2>2. n \in Nat /\ n > 0 /\ DOMAIN s = 1 .. n
    BY IsSeq
  <2>3. DOMAIN u = 1 .. n - 1
    BY <2>1, IsSeq
  <2> QED
    BY <2>1, <2>2, <2>3 DEF Commands
<1>2. /\ Decides(h, f) => x[f] = Wanted(a, h)[f]
      /\ ~Decides(h, f) => x[f] = d[f]
  BY <1>1, WantedDecides
<1>3. h = s[1].call
  BY <1>1
<1> HIDE DEF n, u, h, x
<1>4. (\A j \in 1 .. n - 1 : j + 1 \in 1 .. n /\ j + 1 > 1) /\ 1 \in 1 .. n
  BY <1>1
<1>5. ASSUME NEW i \in DOMAIN s, Decides(s[i].call, f), Wanted(a, s[i].call)[f] = a[f],
             \A j \in DOMAIN s : j > i => ~Decides(s[j].call, f)
      PROVE  Decided(u, x, a, f)
  <2>1. CASE i = 1
    <3>1. \A j \in DOMAIN u : ~Decides(u[j].call, f)
      BY <2>1, <1>1, <1>4, <1>5
    <3>2. x[f] = a[f]
      BY <2>1, <1>2, <1>3, <1>5
    <3> QED
      BY <3>1, <3>2 DEF Decided
  <2>2. CASE i # 1
    <3> DEFINE k == i - 1
    <3>1. k \in 1 .. n - 1 /\ k + 1 = i
      BY <2>2, <1>1
    <3> HIDE DEF k
    <3>2. u[k] = s[i]
      BY <3>1, <1>1
    <3>3. ASSUME NEW j \in DOMAIN u, j > k PROVE ~Decides(u[j].call, f)
      <4>1. j \in Int /\ k \in Int /\ j \in 1 .. n - 1
        BY <3>1, <1>1
      <4>2. j + 1 > k + 1
        BY <4>1, <3>3
      <4> QED
        BY <4>1, <4>2, <3>1, <1>1, <1>4, <1>5
    <3> QED
      BY <3>1, <3>2, <3>3, <1>1, <1>5 DEF Decided
  <2> QED
    BY <2>1, <2>2
<1>6. ASSUME \A i \in DOMAIN s : ~Decides(s[i].call, f), d[f] = a[f]
      PROVE  Decided(u, x, a, f)
  <2>1. \A j \in DOMAIN u : ~Decides(u[j].call, f)
    BY <1>1, <1>4, <1>6
  <2>2. x[f] = a[f]
    BY <1>1, <1>2, <1>3, <1>4, <1>6
  <2> QED
    BY <2>1, <2>2 DEF Decided
<1>7. Decided(u, x, a, f)
  BY <1>5, <1>6 DEF Decided
<1> QED
  BY <1>7 DEF u, x, h

\* The set-up, the server's verdict and the end of the connection.
LEMMA NetQuiet ==
  ASSUME CommonType, NetInv, link = "net",
         st' \in {"connect", "challenge", "answer", "lowat", "up", "failed"}, lost => lost',
         UNCHANGED <<link, tries, toDev, toHost, cur, dev, todo, id, mine, late, crossed, overlap, asked>>
  PROVE  CommonType' /\ NetInv'
<1>1. CommonType'
  BY DEF CommonType
<1>2. NetType' /\ NetPinInv'
  BY DEF NetInv, NetType, NetPinInv
<1>3. NetOwnInv'
  BY DEF NetInv, NetOwnInv, OneCall, Idle, Own
<1> QED
  BY <1>1, <1>2, <1>3 DEF NetInv

LEMMA NetSetupKeeps ==
  ASSUME CommonType, NetInv, NetConnect \/ Challenge \/ Authenticate \/ LowWaterMark
  PROVE  CommonType' /\ NetInv'
<1> DEFINE Stage == {"connect", "challenge", "answer", "lowat", "up", "failed"}
<1>1. \E from, to \in Stage : NetSetup(from, to) /\ lost' = lost
  <2>1. CASE NetConnect
    BY <2>1 DEF NetConnect
  <2>2. CASE Challenge
    BY <2>2 DEF Challenge
  <2>3. CASE Authenticate
    BY <2>3 DEF Authenticate
  <2>4. CASE LowWaterMark
    BY <2>4 DEF LowWaterMark
  <2> QED
    BY <2>1, <2>2, <2>3, <2>4
<1> QED
  BY <1>1, NetQuiet DEF NetSetup

LEMMA NetEndsKeeps ==
  ASSUME CommonType, NetInv, link = "net", Verify \/ ServerEnds
  PROVE  CommonType' /\ NetInv'
<1>1. /\ lost => lost'
      /\ UNCHANGED <<link, st, tries, toDev, toHost, cur, dev, todo, id, mine, late, crossed, overlap, asked>>
  BY DEF Verify, ServerEnds, setup
<1>2. st' \in {"connect", "challenge", "answer", "lowat", "up", "failed"}
  BY <1>1 DEF CommonType
<1> QED
  BY <1>1, <1>2, NetQuiet

LEMMA NetCallKeeps ==
  ASSUME CommonType, NetInv, link = "net", NEW t \in Threads, NEW c \in Ops, Call(t, c)
  PROVE  CommonType' /\ NetInv'
<1> DEFINE p == NetSteps(c)
<1>1. /\ id < MaxCalls /\ Idle(t) /\ todo' = [todo EXCEPT ![t] = p]
      /\ id' = id + 1 /\ mine' = [mine EXCEPT ![t] = id + 1] /\ asked' = asked
      /\ overlap' = (overlap \/ \E u \in Threads : ~Idle(u))
      /\ UNCHANGED <<link, st, tries, password, srv, lost, exited, toDev, toHost, cur, dev, late, crossed>>
  BY DEF Call, setup
<1>2. p # <<>> /\ p # <<RecvStep>> /\ <<RecvStep>> # <<>>
  BY NetPlan
<1>3. DOMAIN todo = Threads /\ id \in Nat /\ MaxCalls \in Nat /\ id + 1 \in 0 .. MaxCalls
  BY <1>1, RemoteAssumption DEF CommonType
<1>4. p \in {<<>>, <<RecvStep>>} \cup {NetSteps(o) : o \in Ops}
  OBVIOUS
<1> HIDE DEF p
<1>5. todo'[t] = p /\ \A u \in Threads : u # t => todo'[u] = todo[u]
  BY <1>1, <1>3
<1>6. CommonType'
  <2>1. id' \in 0 .. MaxCalls /\ mine' \in [Threads -> 0 .. MaxCalls] /\ DOMAIN todo' = Threads
    BY <1>1, <1>3 DEF CommonType
  <2> QED
    BY <2>1, <1>1 DEF CommonType
<1>7. NetType'
  <2>1. \A u \in Threads : todo'[u] \in {<<>>, <<RecvStep>>} \cup {NetSteps(o) : o \in Ops}
    BY <1>4, <1>5 DEF NetInv, NetType
  <2>2. toDev' \in Seq([call : Ops, for : 0 .. MaxCalls]) /\ cur' = <<>> /\ late' = 0
    BY <1>1 DEF NetInv, NetType
  <2> QED
    BY <2>1, <2>2 DEF NetType
<1>8. NetPinInv'
  BY <1>1 DEF NetInv, NetPinInv
<1>9. NetOwnInv'
  <2> SUFFICES ASSUME ~overlap' PROVE NetOwnInv'
    BY DEF NetOwnInv
  <2>1. ~overlap /\ \A u \in Threads : todo[u] = <<>>
    BY <1>1 DEF Idle
  <2>2. ~crossed /\ toHost = <<>> /\ (lost \/ toDev = <<>>)
    BY <2>1, <1>2 DEF NetInv, NetOwnInv
  <2>3. \A u \in Threads : u # t => todo'[u] = <<>>
    BY <2>1, <1>5
  <2>4. OneCall' /\ \A u \in Threads : todo'[u] # <<RecvStep>>
    BY <2>3, <1>2, <1>5 DEF OneCall, Idle
  <2> QED
    BY <2>2, <2>4, <1>1 DEF NetOwnInv
<1> QED
  BY <1>6, <1>7, <1>8, <1>9 DEF NetInv

LEMMA SendKeeps ==
  ASSUME CommonType, NetInv, link = "net", NEW t \in Threads, SendCommand(t)
  PROVE  CommonType' /\ NetInv'
<1>1. PICK c \in Ops : todo[t] = NetSteps(c) /\ Head(todo[t]).what = c /\ Tail(todo[t]) = <<RecvStep>>
  BY NetDoing DEF SendCommand, NetInv
<1> DEFINE e == [call |-> c, for |-> mine[t]]
<1>2. /\ todo' = [todo EXCEPT ![t] = <<RecvStep>>]
      /\ IF lost THEN UNCHANGED <<toDev, asked>>
         ELSE toDev' = Append(toDev, e) /\ asked' = Wanted(asked, c)
      /\ UNCHANGED <<link, st, tries, lost, toHost, cur, dev, id, mine, late, crossed, overlap>>
  BY <1>1 DEF SendCommand, Done, setup
<1>3. todo[t] # <<>> /\ todo[t] # <<RecvStep>> /\ <<RecvStep>> # <<>>
  BY <1>1, NetPlan
<1>4. DOMAIN todo = Threads /\ mine \in [Threads -> 0 .. MaxCalls] /\ asked \in Pins /\ toDev \in Seq(Commands)
  BY DEF CommonType, NetInv, NetType, Commands
<1>5. e \in Commands /\ e.call = c /\ e.for = mine[t]
  BY <1>4 DEF Commands
<1> HIDE DEF e
<1>6. todo'[t] = <<RecvStep>> /\ \A u \in Threads : u # t => todo'[u] = todo[u]
  BY <1>2, <1>4
<1>7. CommonType'
  <2>1. DOMAIN todo' = Threads /\ asked' \in Pins
    BY <1>2, <1>4, WantedDecides
  <2> QED
    BY <2>1, <1>2 DEF CommonType
<1>8. NetType'
  <2>1. toDev' \in Seq(Commands)
    <3>1. Append(toDev, e) \in Seq(Commands)
      BY <1>4, <1>5, AppendProperties
    <3> QED
      BY <3>1, <1>2, <1>4
  <2>2. \A u \in Threads : todo'[u] \in {<<>>, <<RecvStep>>} \cup {NetSteps(o) : o \in Ops}
    BY <1>6 DEF NetInv, NetType
  <2>3. cur' = <<>> /\ late' = 0
    BY <1>2 DEF NetInv, NetType
  <2> QED
    BY <2>1, <2>2, <2>3 DEF NetType, Commands
<1>9. NetPinInv'
  <2> SUFFICES ASSUME NEW f \in Fields PROVE Decided(toDev', dev, asked', f)
    BY <1>2 DEF NetPinInv
  <2>1. Decided(toDev, dev, asked, f)
    BY DEF NetInv, NetPinInv
  <2>2. CASE lost
    BY <2>1, <2>2, <1>2
  <2>3. CASE ~lost
    <3>1. Decided(Append(toDev, e), dev, Wanted(asked, e.call), f)
      BY <2>1, <1>4, <1>5, DecidedMore
    <3> QED
      BY <3>1, <2>3, <1>2, <1>5
  <2> QED
    BY <2>2, <2>3
<1>10. NetOwnInv'
  <2> SUFFICES ASSUME ~overlap' PROVE NetOwnInv'
    BY DEF NetOwnInv
  <2>1. ~overlap /\ ~crossed /\ OneCall
    BY <1>2 DEF NetInv, NetOwnInv
  <2>2. \A u \in Threads : u # t => todo[u] = <<>>
    BY <2>1, <1>3 DEF OneCall, Idle
  <2>3. toHost = <<>> /\ (lost \/ toDev = <<>>)
    BY <2>1, <2>2, <1>3 DEF NetInv, NetOwnInv
  <2>4. \A u \in Threads : u # t => todo'[u] = <<>>
    BY <2>2, <1>6
  <2>5. OneCall' /\ \A u \in Threads : todo'[u] = <<RecvStep>> <=> u = t
    BY <2>4, <1>3, <1>6 DEF OneCall, Idle
  <2>6. ~lost => Len(toDev') = 1 /\ toDev'[1].for = mine[t]
    <3> SUFFICES ASSUME ~lost PROVE Len(toDev') = 1 /\ toDev'[1].for = mine[t]
      OBVIOUS
    <3>1. toDev' = Append(<<>>, e)
      BY <2>3, <1>2
    <3>2. toDev' = <<e>>
      BY <3>1
    <3> QED
      BY <3>2, <1>5
  <2> QED
    BY <2>1, <2>3, <2>5, <2>6, <1>2 DEF NetOwnInv
<1> QED
  BY <1>7, <1>8, <1>9, <1>10 DEF NetInv

LEMMA RecvKeeps ==
  ASSUME CommonType, NetInv, link = "net", NEW t \in Threads, RecvAnswer(t)
  PROVE  CommonType' /\ NetInv'
<1>1. todo[t] = <<RecvStep>> /\ Head(todo[t]).part = 1 /\ Tail(todo[t]) = <<>>
  BY NetDoing DEF RecvAnswer, NetInv
<1>2. /\ todo' = [todo EXCEPT ![t] = <<>>]
      /\ UNCHANGED <<link, st, tries, lost, toDev, cur, dev, id, mine, late, overlap, asked>>
      /\ \/ Take(t)
         \/ lost /\ toHost = <<>> /\ toHost' = toHost /\ crossed' = crossed
  BY <1>1 DEF RecvAnswer, Done, setup
<1>3. <<RecvStep>> # <<>>
  OBVIOUS
<1>4. Take(t) => /\ toHost # <<>> /\ toHost' = Tail(toHost) /\ toHost' \in Seq(Answer)
                 /\ crossed' = (crossed \/ Head(toHost) # [for |-> mine[t], part |-> 1])
  BY <1>1, HeadTailProperties, EmptySeq DEF Take, CommonType, Answer
<1>5. DOMAIN todo = Threads
  BY DEF CommonType
<1>6. todo'[t] = <<>> /\ \A u \in Threads : u # t => todo'[u] = todo[u]
  BY <1>2, <1>5
<1>7. CommonType'
  <2>1. DOMAIN todo' = Threads /\ toHost' \in Seq(Answer)
    BY <1>2, <1>4, <1>5 DEF CommonType, Answer
  <2> QED
    BY <2>1, <1>2 DEF CommonType, Answer
<1>8. NetType'
  <2>1. \A u \in Threads : todo'[u] \in {<<>>, <<RecvStep>>} \cup {NetSteps(o) : o \in Ops}
    BY <1>6 DEF NetInv, NetType
  <2> QED
    BY <2>1, <1>2 DEF NetInv, NetType
<1>9. NetPinInv'
  BY <1>2 DEF NetInv, NetPinInv
<1>10. NetOwnInv'
  <2> SUFFICES ASSUME ~overlap' PROVE NetOwnInv'
    BY DEF NetOwnInv
  <2>1. /\ ~overlap /\ ~crossed /\ OneCall
        /\ toHost = <<>> \/ toHost = <<Own(t, 1)>>
        /\ ~lost /\ toDev # <<>> => toHost = <<>>
    BY <1>1, <1>2 DEF NetInv, NetOwnInv
  <2>2. \A u \in Threads : todo'[u] = <<>>
    BY <2>1, <1>1, <1>3, <1>6 DEF OneCall, Idle
  <2>3. ~crossed' /\ toHost' = <<>> /\ (lost \/ toDev = <<>>)
    <3>1. CASE Take(t)
      <4>1. toHost = <<[for |-> mine[t], part |-> 1]>> /\ (lost \/ toDev = <<>>)
        BY <2>1, <3>1, <1>4 DEF Own
      <4>2. Head(toHost) = [for |-> mine[t], part |-> 1] /\ Tail(toHost) = <<>>
        BY <4>1
      <4> QED
        BY <4>1, <4>2, <3>1, <2>1, <1>4
    <3>2. CASE lost /\ toHost = <<>> /\ toHost' = toHost /\ crossed' = crossed
      BY <3>2, <2>1
    <3> QED
      BY <3>1, <3>2, <1>2
  <2>4. OneCall'
    BY <2>2 DEF OneCall, Idle
  <2> QED
    BY <2>2, <2>3, <2>4, <1>2, <1>3 DEF NetOwnInv
<1> QED
  BY <1>7, <1>8, <1>9, <1>10 DEF NetInv

LEMMA ServerKeeps ==
  ASSUME CommonType, NetInv, ServerStep
  PROVE  CommonType' /\ NetInv'
<1> DEFINE h == Head(toDev)  e == [for |-> h.for, part |-> 1]
<1>1. /\ ~lost /\ toDev # <<>> /\ dev' = Wanted(dev, h.call) /\ toHost' = Append(toHost, e) /\ toDev' = Tail(toDev)
      /\ UNCHANGED <<link, st, tries, lost, cur, todo, id, mine, late, crossed, overlap, asked>>
  BY DEF ServerStep, setup
<1>2. toDev \in Seq(Commands) /\ toHost \in Seq(Answer) /\ dev \in Pins /\ asked \in Pins
  BY DEF CommonType, NetInv, NetType, Commands, Answer
<1>3. h \in Commands /\ h = toDev[1] /\ toDev' \in Seq(Commands) /\ Len(toDev') = Len(toDev) - 1
  BY <1>1, <1>2, HeadTailProperties
<1>4. h.call \in Ops /\ e \in Answer
  BY <1>3 DEF Commands, Answer
<1>5. dev' \in Pins
  BY <1>1, <1>2, <1>4, WantedDecides
<1>6. CommonType'
  <2>1. toHost' \in Seq(Answer)
    BY <1>1, <1>2, <1>4, AppendProperties
  <2> QED
    BY <2>1, <1>1, <1>5 DEF CommonType, Answer
<1>7. NetType'
  BY <1>1, <1>3 DEF NetInv, NetType, Commands
<1>8. NetPinInv'
  BY <1>1, <1>2, DecidedLess DEF NetInv, NetPinInv
<1>9. NetOwnInv'
  <2> SUFFICES ASSUME ~overlap' PROVE NetOwnInv'
    BY DEF NetOwnInv
  <2>1. PICK t \in Threads : todo[t] = <<RecvStep>>
    BY <1>1 DEF NetInv, NetOwnInv
  <2>2. /\ ~crossed /\ OneCall
        /\ toHost = <<>> /\ Len(toDev) = 1 /\ toDev[1].for = mine[t]
    BY <2>1, <1>1 DEF NetInv, NetOwnInv
  <2>3. ASSUME NEW u \in Threads, todo[u] = <<RecvStep>> PROVE u = t
    BY <2>1, <2>2, <2>3 DEF OneCall, Idle
  <2>4. toHost' = <<Own(t, 1)>>
    <3>1. e = Own(t, 1)
      BY <2>2, <1>3 DEF Own
    <3> QED
      BY <3>1, <2>2, <1>1
  <2>5. toDev' = <<>>
    BY <2>2, <1>3, EmptySeq
  <2>6. OneCall' /\ ~crossed'
    BY <2>2, <1>1 DEF OneCall, Idle
  <2>7. \A u \in Threads : todo'[u] = <<RecvStep>> => u = t
    BY <2>3, <1>1
  <2>8. todo'[t] = <<RecvStep>> /\ Own(t, 1)' = Own(t, 1)
    BY <2>1, <1>1 DEF Own
  <2> QED
    BY <2>4, <2>5, <2>6, <2>7, <2>8 DEF NetOwnInv
<1> QED
  BY <1>6, <1>7, <1>8, <1>9 DEF NetInv

-----------------------------------------------------------------------------
(* Both.                                                                   *)

LEMMA RemoteStarts == RemoteInit => RemoteInv
<1> SUFFICES ASSUME RemoteInit PROVE RemoteInv
  OBVIOUS
<1>1. /\ link \in Links /\ Links \subseteq {"serial", "net"} /\ MaxCalls \in Nat /\ MaxTries \in Nat
      /\ st = IF link = "serial" THEN "open" ELSE "connect"
      /\ toHost \in IF link = "serial" THEN {<<>>, <<Pong>>} ELSE {<<>>}
      /\ tries = 0 /\ id = 0 /\ late = 0 /\ srv = "none"
      /\ ~lost /\ ~exited /\ ~crossed /\ ~overlap
      /\ toDev = <<>> /\ cur = <<>>
      /\ dev = [mode |-> "i", level |-> "0", pwm |-> "0"] /\ asked = dev
      /\ DOMAIN todo = Threads /\ mine = [t \in Threads |-> 0]
      /\ \A t \in Threads : todo[t] = <<>>
  BY RemoteAssumption DEF RemoteInit
<1>2. CommonType
  <2>1. Pong \in Answer
    BY <1>1 DEF Pong, Answer
  <2>2. toHost \in Seq(Answer)
    <3>1. CASE toHost = <<>>
      BY <3>1
    <3>2. CASE toHost = <<Pong>>
      BY <2>1, <3>2
    <3> QED
      BY <3>1, <3>2, <1>1
  <2>3. dev \in Pins /\ mine \in [Threads -> 0 .. MaxCalls] /\ tries \in 0 .. MaxTries /\ id \in 0 .. MaxCalls
    BY <1>1 DEF Pins
  <2> QED
    BY <2>2, <2>3, <1>1 DEF CommonType, Answer
<1>3. AllIdle /\ OneCall
  BY <1>1 DEF AllIdle, OneCall, Idle
<1>4. ASSUME link = "serial" PROVE SerialInv
  <2>1. Wire = <<>>
    BY <1>1 DEF Wire
  <2>2. SerialType
    BY <1>1 DEF SerialType
  <2>3. FrameInv
    <3>1. Framed(Wire) /\ Missing(Wire) = "nothing"
      BY <2>1 DEF Framed, Missing
    <3> QED
      BY <3>1, <1>1, <1>3 DEF FrameInv, Idle
  <2>4. PingInv
    BY <1>1, <1>4 DEF PingInv
  <2>5. CountInv
    BY <1>1, <1>4 DEF CountInv
  <2>6. LateInv
    BY <1>1 DEF LateInv, Idle
  <2>7. OwnInv
    BY <1>1, NoPlanLeft DEF OwnInv
  <2>8. PinInv
    BY <2>1, <1>1 DEF PinInv, Settled
  <2> QED
    BY <2>2, <2>3, <2>4, <2>5, <2>6, <2>7, <2>8 DEF SerialInv
<1>5. ASSUME link = "net" PROVE NetInv
  <2>1. NetType
    BY <1>1 DEF NetType
  <2>2. NetPinInv
    BY <1>1 DEF NetPinInv, Decided
  <2>3. NetOwnInv
    <3>1. \A t \in Threads : todo[t] # <<RecvStep>>
      BY <1>1
    <3> QED
      BY <3>1, <1>1, <1>3, <1>5 DEF NetOwnInv
  <2> QED
    BY <2>1, <2>2, <2>3 DEF NetInv
<1> QED
  BY <1>2, <1>4, <1>5 DEF RemoteInv

LEMMA RemoteStays ==
  ASSUME RemoteInv, UNCHANGED remoteVars
  PROVE  RemoteInv'
<1>1. UNCHANGED <<link, st, tries, password, srv, lost, exited, toDev, toHost, cur, dev, todo, id, mine, late,
                  crossed, overlap, asked>>
  BY DEF remoteVars, setup
<1>2. CommonType'
  BY <1>1 DEF RemoteInv, CommonType
<1>3. Wire' = Wire /\ AnswersOwed' = AnswersOwed /\ AllIdle' = AllIdle /\ OneCall' = OneCall
  BY <1>1 DEF Wire, AnswersOwed, AllIdle, OneCall, Idle
<1>4. SerialInv => SerialInv'
  <2> SUFFICES ASSUME SerialInv PROVE SerialInv'
    OBVIOUS
  <2>1. SerialType' /\ FrameInv' /\ PingInv' /\ LateInv'
    BY <1>1, <1>3 DEF SerialInv, SerialType, FrameInv, PingInv, LateInv, Idle
  <2>2. CountInv'
    BY <1>1, <1>3 DEF SerialInv, CountInv, Outstanding, Idle
  <2>3. OwnInv'
    BY <1>1, <1>3 DEF SerialInv, OwnInv, AskedLast, AskedOnce, Answered, Own
  <2>4. PinInv'
    BY <1>1, <1>3 DEF SerialInv, PinInv, Writing
  <2> QED
    BY <2>1, <2>2, <2>3, <2>4 DEF SerialInv
<1>5. NetInv => NetInv'
  BY <1>1, <1>3 DEF NetInv, NetType, NetPinInv, NetOwnInv, Own
<1> QED
  BY <1>1, <1>2, <1>4, <1>5 DEF RemoteInv

\* On a serial line no thread is at a step of the socket.
LEMMA SerialDoing ==
  ASSUME CommonType, SerialInv, NEW t \in Threads
  PROVE  ~Now(t, "send") /\ ~Now(t, "recv")
<1> SUFFICES ASSUME ~Idle(t) PROVE Head(todo[t]).do \in {"put", "get"}
  BY DEF Now
<1>1. todo[t] \in Seq(WireSteps) /\ todo[t] # <<>>
  BY Busy, PlanSeq
<1>2. Head(todo[t]) \in WireSteps
  BY <1>1, HeadTailProperties
<1> QED
  BY <1>2 DEF WireSteps, PutByte, GetPart

LEMMA RemoteSteps == RemoteInv /\ [RemoteNext]_remoteVars => RemoteInv'
<1> SUFFICES ASSUME RemoteInv, [RemoteNext]_remoteVars PROVE RemoteInv'
  OBVIOUS
<1>0. CommonType /\ link \in {"serial", "net"}
  BY RemoteAssumption DEF RemoteInv, CommonType
<1>1. CASE UNCHANGED remoteVars
  BY <1>1, RemoteStays
<1>2. CASE RemoteNext /\ link = "serial"
  <2>0. SerialInv /\ srv = "none"
    BY <1>2 DEF RemoteInv, SerialInv, SerialType
  <2>1. SUFFICES CommonType' /\ SerialInv' /\ link' = "serial"
    BY DEF RemoteInv
  <2>2. CASE SerialOpen
    BY <2>0, <2>2, <1>0, SerialOpenKeeps, <1>2 DEF SerialOpen, SerialSetup
  <2>3. CASE Flush
    BY <2>0, <2>3, <1>0, FlushKeeps, <1>2 DEF Flush, SerialSetup
  <2>4. CASE Ping
    BY <2>0, <2>4, <1>0, PingKeeps, <1>2 DEF Ping, SerialSetup
  <2>5. CASE Pinged
    BY <2>0, <2>5, <1>0, PingedKeeps, <1>2 DEF Pinged, SerialSetup
  <2>6. CASE PingTimesOut
    BY <2>0, <2>6, <1>0, PingTimesOutKeeps, <1>2 DEF PingTimesOut, SerialSetup
  <2>7. CASE GiveUp
    BY <2>0, <2>7, <1>0, GiveUpKeeps, <1>2 DEF GiveUp, SerialSetup
  <2>8. ASSUME NEW t \in Threads, NEW c \in Ops, Call(t, c) PROVE CommonType' /\ SerialInv' /\ link' = "serial"
    BY <2>0, <2>8, <1>0, SerialCallKeeps, <1>2 DEF Call, setup
  <2>9. ASSUME NEW t \in Threads, Put(t) PROVE CommonType' /\ SerialInv' /\ link' = "serial"
    BY <2>0, <2>9, <1>0, PutKeeps, <1>2 DEF Put, setup
  <2>10. ASSUME NEW t \in Threads, Get(t) PROVE CommonType' /\ SerialInv' /\ link' = "serial"
    BY <2>0, <2>10, <1>0, GetKeeps, <1>2 DEF Get, setup
  <2>11. ASSUME NEW t \in Threads PROVE ~SendCommand(t) /\ ~RecvAnswer(t)
    BY <2>0, <1>0, SerialDoing DEF SendCommand, RecvAnswer
  <2>12. CASE DeviceStep
    BY <2>0, <2>12, <1>0, DeviceKeeps, <1>2 DEF DeviceStep, setup
  <2>13. ~NetConnect /\ ~Challenge /\ ~Authenticate /\ ~LowWaterMark /\ ~Verify /\ ~ServerEnds /\ ~ServerStep
    BY <2>0, <1>2 DEF NetConnect, Challenge, Authenticate, LowWaterMark, NetSetup, Verify, ServerEnds, ServerStep
  <2>14. SetupStep \/ Verify \/ ServerEnds \/ DeviceStep \/ ServerStep
         \/ \E t \in Threads : ThreadStep(t) \/ \E c \in Ops : Call(t, c)
    BY <1>2 DEF RemoteNext
  <2> QED
    BY <2>2, <2>3, <2>4, <2>5, <2>6, <2>7, <2>8, <2>9, <2>10, <2>11, <2>12, <2>13, <2>14 DEF SetupStep, ThreadStep
<1>3. CASE RemoteNext /\ link = "net"
  <2>0. NetInv
    BY <1>3 DEF RemoteInv
  <2>1. SUFFICES CommonType' /\ NetInv' /\ link' = "net"
    BY DEF RemoteInv
  <2>2. CASE NetConnect \/ Challenge \/ Authenticate \/ LowWaterMark
    BY <2>0, <2>2, <1>0, NetSetupKeeps, <1>3 DEF NetConnect, Challenge, Authenticate, LowWaterMark, NetSetup
  <2>3. CASE Verify \/ ServerEnds
    BY <2>0, <2>3, <1>0, NetEndsKeeps, <1>3 DEF Verify, ServerEnds, setup
  <2>4. ASSUME NEW t \in Threads, NEW c \in Ops, Call(t, c) PROVE CommonType' /\ NetInv' /\ link' = "net"
    BY <2>0, <2>4, <1>0, NetCallKeeps, <1>3 DEF Call, setup
  <2>5. ASSUME NEW t \in Threads, SendCommand(t) PROVE CommonType' /\ NetInv' /\ link' = "net"
    BY <2>0, <2>5, <1>0, SendKeeps, <1>3 DEF SendCommand, setup
  <2>6. ASSUME NEW t \in Threads, RecvAnswer(t) PROVE CommonType' /\ NetInv' /\ link' = "net"
    BY <2>0, <2>6, <1>0, RecvKeeps, <1>3 DEF RecvAnswer, setup
  <2>7. ASSUME NEW t \in Threads PROVE ~Put(t) /\ ~Get(t)
    BY <2>0, NetDoing DEF NetInv, Put, Get
  <2>8. CASE ServerStep
    BY <2>0, <2>8, <1>0, ServerKeeps, <1>3 DEF ServerStep, setup
  <2>9. ~SerialOpen /\ ~Flush /\ ~Ping /\ ~Pinged /\ ~PingTimesOut /\ ~GiveUp /\ ~DeviceStep
    BY <1>3 DEF SerialOpen, Flush, Ping, Pinged, PingTimesOut, GiveUp, SerialSetup, DeviceStep
  <2>10. SetupStep \/ Verify \/ ServerEnds \/ DeviceStep \/ ServerStep
         \/ \E t \in Threads : ThreadStep(t) \/ \E c \in Ops : Call(t, c)
    BY <1>3 DEF RemoteNext
  <2> QED
    BY <2>2, <2>3, <2>4, <2>5, <2>6, <2>7, <2>8, <2>9, <2>10 DEF SetupStep, ThreadStep
<1> QED
  BY <1>0, <1>1, <1>2, <1>3

LEMMA RemoteHolds == RemoteSpec => []RemoteInv
  BY RemoteStarts, RemoteSteps, PTL DEF RemoteSpec

LEMMA InvAnswersOwn == RemoteInv => AnswersOwn
<1> SUFFICES ASSUME RemoteInv, crossed PROVE late > 0 \/ overlap
  BY DEF AnswersOwn
<1>1. late \in Nat /\ link \in {"serial", "net"}
  BY RemoteAssumption DEF RemoteInv, CommonType
<1>2. CASE link = "serial"
  BY <1>1, <1>2 DEF RemoteInv, SerialInv, OwnInv
<1>3. CASE link = "net"
  BY <1>1, <1>3 DEF RemoteInv, NetInv, NetOwnInv
<1> QED
  BY <1>1, <1>2, <1>3

LEMMA InvLag == RemoteInv => LagIsLate
<1> SUFFICES ASSUME RemoteInv, link = "serial", st = "up", AllIdle
             PROVE  Len(toHost) + Cardinality(AnswersOwed) = late
  BY DEF LagIsLate, AllIdle
<1>1. Outstanding = late + 0 /\ late \in Nat
  BY DEF RemoteInv, SerialInv, CountInv, CommonType
<1> QED
  BY <1>1 DEF Outstanding

LEMMA InvPin == RemoteInv => PinAsAsked
<1> SUFFICES ASSUME RemoteInv, toDev = <<>>, cur = <<>>, \A t \in Threads : Idle(t)
             PROVE  dev = asked
  BY DEF PinAsAsked
<1>1. dev \in Pins /\ asked \in Pins /\ link \in {"serial", "net"}
  BY RemoteAssumption DEF RemoteInv, CommonType
<1>2. \A f \in Fields : dev[f] = asked[f]
  <2>1. CASE link = "serial"
    <3>1. \A f \in Fields : Settled(Wire, dev, asked, f)
      BY <2>1 DEF RemoteInv, SerialInv, PinInv, Writing, Idle
    <3>2. DOMAIN Wire = {}
      BY DEF Wire
    <3> QED
      BY <3>1, <3>2 DEF Settled
  <2>2. CASE link = "net"
    <3>1. \A f \in Fields : Decided(toDev, dev, asked, f)
      BY <2>2 DEF RemoteInv, NetInv, NetPinInv
    <3>2. DOMAIN toDev = {}
      OBVIOUS
    <3> QED
      BY <3>1, <3>2 DEF Decided
  <2> QED
    BY <1>1, <2>1, <2>2
<1>3. dev.mode = asked.mode /\ dev.level = asked.level /\ dev.pwm = asked.pwm
  BY <1>2 DEF Fields
<1> QED
  BY <1>1, <1>3 DEF Pins

LEMMA InvType == RemoteInv => RemoteTypeOK
<1> SUFFICES ASSUME RemoteInv PROVE RemoteTypeOK
  OBVIOUS
<1>1. /\ link \in Links /\ link \in {"serial", "net"} /\ dev \in Pins /\ asked \in Pins /\ late \in Nat
      /\ tries \in 0 .. MaxTries /\ id \in 0 .. MaxCalls /\ MaxTries \in Nat /\ MaxCalls \in Nat
      /\ st \in {"open", "flush", "ping", "wait", "connect", "challenge", "answer", "lowat", "up", "failed"}
  BY RemoteAssumption DEF RemoteInv, CommonType
<1>2. late <= tries + 2 * id
  BY <1>1 DEF RemoteInv, SerialInv, LateInv, NetInv, NetType
<1>3. ASSUME NEW t \in Threads PROVE Len(todo[t]) <= 4
  <2>1. CASE Idle(t)
    BY <2>1 DEF Idle
  <2>2. CASE ~Idle(t) /\ link = "serial"
    BY <2>2, Busy, PlanSeq DEF RemoteInv
  <2>3. CASE link = "net"
    <3>1. todo[t] = <<>> \/ todo[t] = <<RecvStep>> \/ \E c \in Ops : todo[t] = NetSteps(c)
      BY <2>3 DEF RemoteInv, NetInv, NetType
    <3>2. CASE todo[t] = <<>>
      BY <3>2
    <3>3. CASE todo[t] = <<RecvStep>>
      BY <3>3
    <3>4. ASSUME NEW c \in Ops, todo[t] = NetSteps(c) PROVE Len(todo[t]) <= 4
      <4>1. Len(NetSteps(c)) = 2
        BY NetPlan
      <4> QED
        BY <3>4, <4>1
    <3> QED
      BY <3>1, <3>2, <3>3, <3>4
  <2> QED
    BY <1>1, <2>1, <2>2, <2>3
<1>4. late \in 0 .. MaxTries + 2 * MaxCalls
  BY <1>1, <1>2
<1> QED
  BY <1>1, <1>3, <1>4 DEF RemoteTypeOK, Pins

(* The set-up, the calls and what is on its way are always of their kind,  *)
(* and a line gives up at most once per ping and twice per call.           *)
THEOREM RemoteTypeCorrect == RemoteSpec => []RemoteTypeOK
  BY RemoteHolds, InvType, PTL

(* However many threads call and however often: a read gives the answer to *)
(* its own question unless an earlier one was given up, on a socket unless *)
(* calls overlapped (serialGetchar, recv: no answer names its question).   *)
THEOREM OwnAnswers == RemoteSpec => []AnswersOwn
  BY RemoteHolds, InvAnswersOwn, PTL

(* Every read that is given up shifts all later ones by exactly one        *)
(* answer: drcSetupSerial's flush is the only thing that clears the line.  *)
THEOREM LagIsWhatTimedOut == RemoteSpec => []LagIsLate
  BY RemoteHolds, InvLag, PTL

(* Commands are never cut or mixed, so the pin ends up as the calls asked, *)
(* whatever times out and, on a socket, however calls overlap: myPinMode   *)
(* and the others put several bytes on the line without looking back.      *)
THEOREM PinEndsAsAsked == RemoteSpec => []PinAsAsked
  BY RemoteHolds, InvPin, PTL

-----------------------------------------------------------------------------
(* Relay.                                                                  *)

(* What the handler installed for a signal stores.                         *)
Number(s) == Stores[Handler(s)]

(* main installs a handler for each signal sp_client sends, in the order   *)
(* of sp_client's table.                                                   *)
LEMMA SignalsInstalled ==
  /\ Len(sig) = 8 /\ Len(Installs) = 8
  /\ \A n \in 1 .. 8 : sig[n] \in Signals /\ Installs[n][1] = sig[n]
  /\ \A s \in Signals : \E n \in 1 .. 8 : s = sig[n]
  /\ \A m, n \in 1 .. 8 : sig[m] = sig[n] => m = n
<1>1. Len(sig) = 8 /\ \A n \in 1 .. 8 : sig[n] \in Signals
  BY DEF sig, Signals, ToSet
<1>2. \A s \in Signals : \E n \in 1 .. 8 : s = sig[n]
  BY DEF sig, Signals, ToSet
<1>3. ASSUME NEW m \in 1 .. 8, NEW n \in 1 .. 8, sig[m] = sig[n] PROVE m = n
  BY <1>3 DEF sig
<1>4. Len(Installs) = 8
  BY DEF Installs
<1>5. ASSUME NEW n \in 1 .. 8 PROVE Installs[n][1] = sig[n]
  BY DEF Installs, sig
<1> QED
  BY <1>1, <1>2, <1>3, <1>4, <1>5

(* The handler main installs n-th stores n.                                *)
LEMMA HandlersStore == \A n \in 1 .. 8 : Stores[Installs[n][2]] = n
BY DEF Installs, Stores

(* From the table of the client to the handler: the n-th signal finds the  *)
(* handler that stores n, and comes from the argument n - 1.               *)
LEMMA Tables ==
  /\ Len(sig) = 8 /\ Len(Installs) = 8
  /\ \A n \in 1 .. 8 : /\ sig[n] \in Signals
                       /\ Place(sig[n]) = n /\ Number(sig[n]) = n /\ Command(sig[n]) = n - 1
  /\ \A s \in Signals : \E n \in 1 .. 8 : s = sig[n]
<1>1. ASSUME NEW n \in 1 .. 8
      PROVE  Place(sig[n]) = n /\ Number(sig[n]) = n /\ Command(sig[n]) = n - 1
  <2>1. {i \in 1 .. Len(sig) : sig[i] = sig[n]} = {n}
    BY SignalsInstalled
  <2>2. {i \in 1 .. Len(Installs) : Installs[i][1] = sig[n]} = {n}
    BY SignalsInstalled
  <2>3. Min({n}) = n
    BY DEF Min
  <2>4. Place(sig[n]) = n
    BY <2>2, <2>3 DEF Place, SelectInSeq
  <2>5. Command(sig[n]) = n - 1
    BY <2>1, <2>3 DEF Command, SelectInSeq
  <2>6. Number(sig[n]) = n
    BY <2>4, HandlersStore DEF Number, Handler
  <2> QED
    BY <2>4, <2>5, <2>6
<1> QED
  BY <1>1, SignalsInstalled

(* What sp_client asks for is what the server calls the state that the     *)
(* handler of its signal stores.                                           *)
LEMMA TablesAgree == \A n \in 1 .. 8 : Asked(n - 1) = relay_switch[Number(sig[n]) + 1]
<1>1. ASSUME NEW n \in 1 .. 8 PROVE Asked(n - 1) = relay_switch[n + 1]
  BY DEF Asked, relay_switch
<1> QED
  BY <1>1, Tables

-----------------------------------------------------------------------------
(* What the place of main says about the rest: a handler is installed for  *)
(* each signal once main is past its loop, and only then does the sensor's *)
(* thread exist; a client is being served.                                 *)
PlaceInv ==
    /\ pc = "signal" => installed < Len(Installs)
    /\ pc \in {"intr", "bind", "listen", "accept", "recv", "strstr", "write", "close", "paused"}
         => installed = Len(Installs)
    /\ pressed => installed = Len(Installs)
    /\ pc \in {"recv", "strstr", "write", "close"} => serving \in Clients

(* The server starts well typed, before its first handler.                 *)
LEMMA InitTyped == Init => TypeOK /\ PlaceInv
<1> SUFFICES ASSUME Init PROVE TypeOK /\ PlaceInv
  OBVIOUS
<1>1. buff_rcv \in [Cells -> Words]
  BY DEF Init, Words
<1>2. backlog \in Seq(Clients)
  <2>1. backlog = <<>>
    BY DEF Init
  <2> QED
    BY <2>1
<1>3. /\ status \in [Clients -> {"away", "open", "closed", "reset"}]
      /\ inbox \in [Clients -> Requests \cup {<<>>}]
  BY DEF Init
<1>4. pc = "signal" /\ installed = 0 /\ Relay_Index = 0 /\ loaded = 0 /\ pressed = FALSE
  BY DEF Init
<1>5. serving = NoClient /\ pending = {}
  BY DEF Init
<1> QED
  BY <1>1, <1>2, <1>3, <1>4, <1>5, Tables DEF TypeOK, PlaceInv

(* Every step keeps the types and what its place says.                     *)
LEMMA StepTyped == TypeOK /\ PlaceInv /\ [Next]_vars => TypeOK' /\ PlaceInv'
<1> SUFFICES ASSUME TypeOK, PlaceInv, [Next]_vars PROVE TypeOK' /\ PlaceInv'
  OBVIOUS
<1> USE Tables DEF TypeOK, PlaceInv, relay, net, Goto
<1>1. CASE InstallHandler
  BY <1>1 DEF InstallHandler
<1>2. CASE InitInterrupts
  BY <1>2 DEF InitInterrupts
<1>3. CASE Bind
  BY <1>3 DEF Bind
<1>4. CASE Listen
  BY <1>4 DEF Listen
<1>5. CASE Accept
  <2>1. serving' \in Clients /\ backlog' \in Seq(Clients)
    BY <1>5 DEF Accept
  <2> QED
    BY <1>5, <2>1 DEF Accept
<1>6. CASE AcceptFails
  BY <1>6 DEF AcceptFails
<1>7. CASE Recv
  <2>0. serving \in Clients /\ inbox[serving] \in Requests \cup {<<>>}
    BY <1>7 DEF Recv
  <2>1. ASSUME inbox[serving] # <<>>, buff_rcv' = Overlay(inbox[serving])
        PROVE  buff_rcv' \in [Cells -> Words]
    <3>1. ASSUME NEW i \in Cells PROVE Overlay(inbox[serving])[i] \in Words
      <4>1. inbox[serving] \in Requests /\ inbox[serving] \in Seq(STRING)
        BY <2>0, <2>1, RelayAssumption
      <4>2. CASE i <= Len(inbox[serving])
        <5>1. inbox[serving][i] \in ToSet(inbox[serving])
          BY <4>1, <4>2 DEF ToSet, Cells
        <5> QED
          BY <4>1, <4>2, <5>1 DEF Words, Overlay
      <4>3. CASE ~(i <= Len(inbox[serving]))
        BY <4>3 DEF Overlay
      <4> QED
        BY <4>2, <4>3
    <3> QED
      BY <2>1, <3>1 DEF Overlay
  <2>2. buff_rcv' \in [Cells -> Words]
    BY <1>7, <2>1 DEF Recv
  <2>3. inbox' \in [Clients -> Requests \cup {<<>>}]
    BY <1>7, <2>0 DEF Recv
  <2> QED
    BY <1>7, <2>2, <2>3 DEF Recv
<1>8. CASE Strstr
  BY <1>8 DEF Strstr
<1>9. CASE Write
  BY <1>9 DEF Write
<1>10. CASE Close
  <2>1. status' \in [Clients -> {"away", "open", "closed", "reset"}]
    BY <1>10 DEF Close
  <2>2. inbox' \in [Clients -> Requests \cup {<<>>}]
    BY <1>10 DEF Close
  <2> QED
    BY <1>10, <2>1, <2>2 DEF Close
<1>11. ASSUME NEW idx \in Indices, SpClient(idx) PROVE TypeOK' /\ PlaceInv'
  <2>1. pending' \subseteq Signals
    <3>1. CASE 0 <= idx /\ idx < Len(sig)
      <4>1. idx + 1 \in 1 .. 8
        BY <3>1, RelayAssumption
      <4> QED
        BY <1>11, <4>1 DEF SpClient
    <3> QED
      BY <1>11, <3>1 DEF SpClient
  <2> QED
    BY <1>11, <2>1 DEF SpClient
<1>12. ASSUME NEW s \in Signals, Deliver(s) PROVE TypeOK' /\ PlaceInv'
  <2>1. Stores[Handler(s)] \in 0 .. 8
    <3>1. PICK n \in 1 .. 8 : s = sig[n]
      OBVIOUS
    <3>2. Number(s) = n
      BY <3>1
    <3> QED
      BY <3>2 DEF Number
  <2>2. pc' \in {pc, "killed", "stopped"} /\ Relay_Index' \in 0 .. 8
    <3>1. CASE Place(s) <= installed
      BY <1>12, <2>1, <3>1 DEF Deliver
    <3>2. CASE ~(Place(s) <= installed)
      <4>1. UNCHANGED Relay_Index
        BY <1>12, <3>2 DEF Deliver
      <4>2. pc' = CASE s = "SIGURG" -> pc
                    [] s \in {"SIGTTIN", "SIGTTOU"} -> "stopped"
                    [] OTHER -> "killed"
        BY <1>12, <3>2 DEF Deliver
      <4> QED
        BY <4>1, <4>2
    <3> QED
      BY <3>1, <3>2
  <2> QED
    BY <1>12, <2>2 DEF Deliver
<1>13. CASE IRA1
  BY <1>13 DEF IRA1, Running
<1>14. CASE IRA1Store
  BY <1>14 DEF IRA1Store
<1>15. ASSUME NEW c \in Clients, Connect(c) PROVE TypeOK' /\ PlaceInv'
  <2>1. backlog' \in Seq(Clients)
    BY <1>15 DEF Connect
  <2> QED
    BY <1>15, <2>1 DEF Connect
<1>16. ASSUME NEW c \in Clients, Send(c) PROVE TypeOK' /\ PlaceInv'
  <2>1. inbox' \in [Clients -> Requests \cup {<<>>}]
    BY <1>16 DEF Send
  <2> QED
    BY <1>16, <2>1 DEF Send
<1>17. ASSUME NEW c \in Clients, HangUp(c) PROVE TypeOK' /\ PlaceInv'
  <2>1. status' \in [Clients -> {"away", "open", "closed", "reset"}]
    BY <1>17 DEF HangUp
  <2> QED
    BY <1>17, <2>1 DEF HangUp
<1>18. CASE UNCHANGED vars
  BY <1>18 DEF vars
<1> QED
  BY <1>1, <1>2, <1>3, <1>4, <1>5, <1>6, <1>7, <1>8, <1>9, <1>10, <1>11, <1>12, <1>13, <1>14,
     <1>15, <1>16, <1>17, <1>18 DEF Next, Serve

(* The state keeps its type: the index stays within relay_switch and the   *)
(* receive buffer keeps its size.                                          *)
THEOREM TypeCorrect == Spec => []TypeOK
BY InitTyped, StepTyped, PTL DEF Spec

-----------------------------------------------------------------------------
(* While a client is served, seen holds the index; nothing is sent before  *)
(* Write; and from Strstr on, a client that asked finds the index in       *)
(* buff_snd, unless it is gone.                                            *)
HasAsked == SubSeq(buff_rcv, 1, 2) = WhoIAm
Told(text) == \E i \in seen : text = relay_switch[i + 1]

AnswerInv ==
    /\ serving # NoClient => Relay_Index \in seen
    /\ pc \notin {"close", "killed", "stopped"} => answer = "nothing"
    /\ pc = "write" /\ HasAsked => status[serving] \in {"closed", "reset"} \/ Told(buff_snd)
    /\ AskerTold

(* A client that asked is found to have asked.                             *)
LEMMA AskedIsFound ==
  ASSUME TypeOK, HasAsked PROVE Found
<1>1. buff_rcv \in [1 .. 3 -> Words]
  BY DEF TypeOK, Cells
<1>2. buff_rcv \in Seq(Words)
  <2>1. [1 .. 3 -> Words] \in {[1 .. n -> Words] : n \in Nat}
    OBVIOUS
  <2> QED
    BY <1>1, <2>1, SeqDef
<1>3. Len(buff_rcv) = 3
  BY <1>1, <1>2
<1>4. SubSeq(buff_rcv, 1, 2)[1] = buff_rcv[1]
  BY <1>1, SubSeqProperties
<1>5. buff_rcv[1] = WhoIAm[1]
  BY <1>4, Zenon DEF HasAsked
<1>6. WhoIAm[1] # ""
  BY DEF WhoIAm
<1>7. \A j \in 1 .. 1 : buff_rcv[j] # ""
  <2> SUFFICES ASSUME NEW j \in 1 .. 1 PROVE buff_rcv[j] # ""
    OBVIOUS
  <2>1. j = 1
    OBVIOUS
  <2> QED
    BY <1>5, <1>6, <2>1
<1>8. SubSeq(buff_rcv, 1, 1 + 1) = WhoIAm
  BY DEF HasAsked
<1>9. 1 \in 1 .. Len(buff_rcv) - 1
  BY <1>3
<1> QED
  BY <1>7, <1>8, <1>9, Zenon DEF Found

(* A step that leaves the server's side alone and only adds to seen.       *)
LEMMA AnswerKept ==
  ASSUME AnswerInv, PlaceInv, RelayAssumption,
         pc' \in {pc, "killed", "stopped"}, UNCHANGED <<serving, buff_rcv, buff_snd, answer>>,
         pc = "write" /\ status[serving] \in {"closed", "reset"} => UNCHANGED status[serving],
         See \/ UNCHANGED <<seen, Relay_Index>>
  PROVE  AnswerInv'
<1>1. serving # NoClient => seen \subseteq seen' /\ Relay_Index' \in seen'
  BY DEF See, AnswerInv
<1>2. pc \in {"write", "close"} => serving # NoClient
  BY RelayAssumption DEF PlaceInv
<1>3. ASSUME NEW text, serving # NoClient, Told(text) PROVE Told(text)'
  BY <1>1, <1>3 DEF Told
<1>4. pc' = "close" => AskerTold'
  <2> SUFFICES ASSUME pc' = "close" PROVE AskerTold'
    BY DEF AskerTold
  <2>1. pc = "close" /\ (HasAsked <=> HasAsked') /\ answer' = answer
    BY DEF HasAsked
  <2>2. HasAsked /\ answer # "nothing" => Told(answer)
    BY <2>1 DEF AnswerInv, AskerTold, Told, HasAsked
  <2>3. HasAsked /\ answer # "nothing" => \E i \in seen' : answer = relay_switch[i + 1]
    BY <1>1, <1>2, <2>1, <2>2 DEF Told
  <2> QED
    BY <2>1, <2>3 DEF AskerTold, HasAsked
<1>5. AskerTold'
  BY <1>4 DEF AskerTold
<1>6. pc' = "write" /\ HasAsked' => status'[serving'] \in {"closed", "reset"} \/ Told(buff_snd)'
  <2> SUFFICES ASSUME pc' = "write", HasAsked'
               PROVE  status'[serving'] \in {"closed", "reset"} \/ Told(buff_snd)'
    OBVIOUS
  <2>1. pc = "write" /\ HasAsked
    BY DEF HasAsked
  <2>2. CASE status[serving] \in {"closed", "reset"}
    BY <2>1, <2>2
  <2>3. CASE Told(buff_snd)
    BY <1>1, <1>2, <2>1, <2>3 DEF Told
  <2> QED
    BY <2>1, <2>2, <2>3 DEF AnswerInv
<1> QED
  BY <1>1, <1>5, <1>6 DEF AnswerInv

(* Every step keeps AnswerInv.                                             *)
LEMMA AnswerStep == TypeOK /\ PlaceInv /\ AnswerInv /\ [Next]_vars => AnswerInv'
<1> SUFFICES ASSUME TypeOK, PlaceInv, AnswerInv, [Next]_vars PROVE AnswerInv'
  OBVIOUS
<1>a. pc \in {"recv", "strstr", "write", "close"} => serving # NoClient
  BY RelayAssumption DEF PlaceInv
<1>1. ASSUME pc \in {"signal", "intr", "bind", "listen", "accept"},
             pc' \in {"signal", "intr", "bind", "listen", "accept", "paused"},
             UNCHANGED <<serving, answer, seen, Relay_Index>>
      PROVE  AnswerInv'
  BY <1>1 DEF AnswerInv, AskerTold
<1>2. CASE InstallHandler \/ InitInterrupts \/ Bind \/ Listen \/ AcceptFails
  BY <1>1, <1>2 DEF InstallHandler, InitInterrupts, Bind, Listen, AcceptFails, Goto, net, relay
<1>3. CASE Accept
  <2>1. pc = "accept" /\ pc' = "recv" /\ UNCHANGED <<answer, Relay_Index>> /\ seen' = {Relay_Index}
    BY <1>3 DEF Accept, Goto, relay
  <2> QED
    BY <2>1 DEF AnswerInv, AskerTold
<1>4. CASE Recv
  <2>1. pc = "recv" /\ UNCHANGED <<answer, Relay_Index, seen, serving, status>>
    BY <1>4 DEF Recv, relay
  <2>2. pc' = "strstr" \/ (pc' = "write" /\ status[serving] \in {"closed", "reset"})
    BY <1>4 DEF Recv
  <2> QED
    BY <2>1, <2>2 DEF AnswerInv, AskerTold
<1>5. CASE Strstr
  <2>1. pc = "strstr" /\ pc' = "write" /\ UNCHANGED <<answer, Relay_Index, seen, serving, buff_rcv>>
    BY <1>5 DEF Strstr, Goto, relay
  <2>2. HasAsked' => Told(buff_snd)'
    <3> SUFFICES ASSUME HasAsked' PROVE Told(buff_snd)'
      OBVIOUS
    <3>1. HasAsked
      BY <2>1 DEF HasAsked
    <3>2. buff_snd' = relay_switch[Relay_Index + 1]
      BY <1>5, <3>1, AskedIsFound DEF Strstr
    <3>3. Relay_Index \in seen'
      BY <1>a, <2>1 DEF AnswerInv
    <3> QED
      BY <3>2, <3>3 DEF Told
  <2>3. AskerTold'
    BY <2>1 DEF AskerTold
  <2> QED
    BY <2>1, <2>2, <2>3 DEF AnswerInv
<1>6. CASE Write
  <2>1. pc = "write" /\ pc' \in {"close", "killed"} /\ answer = "nothing"
        /\ UNCHANGED <<Relay_Index, seen, serving, buff_rcv, buff_snd, status>>
    BY <1>6 DEF Write, Goto, relay, AnswerInv
  <2>2. ASSUME pc' = "close", HasAsked, answer' # "nothing" PROVE Told(answer')
    <3>1. answer' = buff_snd /\ status[serving] = "open"
      BY <1>6, <2>1, <2>2 DEF Write
    <3> QED
      BY <2>1, <2>2, <3>1 DEF AnswerInv
  <2>3. AskerTold'
    BY <2>1, <2>2 DEF AskerTold, HasAsked, Told
  <2> QED
    BY <2>1, <2>3 DEF AnswerInv
<1>7. CASE Close
  BY <1>7 DEF Close, Goto, AnswerInv, AskerTold
<1>8. ASSUME NEW idx \in Indices, SpClient(idx) PROVE AnswerInv'
  BY <1>8, AnswerKept, RelayAssumption DEF SpClient, net
<1>9. ASSUME NEW s \in Signals, Deliver(s) PROVE AnswerInv'
  <2>1. pc' \in {pc, "killed", "stopped"}
    <3>1. CASE Place(s) <= installed
      BY <1>9, <3>1 DEF Deliver
    <3>2. CASE ~(Place(s) <= installed)
      <4>1. pc' = CASE s = "SIGURG" -> pc
                    [] s \in {"SIGTTIN", "SIGTTOU"} -> "stopped"
                    [] OTHER -> "killed"
        BY <1>9, <3>2 DEF Deliver
      <4> QED
        BY <4>1
    <3> QED
      BY <3>1, <3>2
  <2>2. See /\ UNCHANGED net
    BY <1>9 DEF Deliver
  <2> QED
    BY <2>1, <2>2, AnswerKept, RelayAssumption DEF net
<1>10. CASE IRA1
  BY <1>10, AnswerKept, RelayAssumption DEF IRA1, net
<1>11. CASE IRA1Store
  BY <1>11, AnswerKept, RelayAssumption DEF IRA1Store, net
<1>12. ASSUME NEW c \in Clients, Connect(c) \/ HangUp(c) PROVE AnswerInv'
  <2>1. pc' = pc /\ UNCHANGED <<serving, buff_rcv, buff_snd, answer, seen, Relay_Index>>
    BY <1>12 DEF Connect, HangUp, relay
  <2>2. status[c] \in {"away", "open"}
    BY <1>12 DEF Connect, HangUp
  <2>3. pc = "write" /\ status[serving] \in {"closed", "reset"} => UNCHANGED status[serving]
    <3> SUFFICES ASSUME pc = "write", status[serving] \in {"closed", "reset"}
                 PROVE  status'[serving'] = status[serving]
      OBVIOUS
    <3>1. serving # c /\ serving \in Clients
      BY <2>2 DEF PlaceInv
    <3> QED
      BY <1>12, <2>1, <3>1 DEF Connect, HangUp, TypeOK
  <2> QED
    BY <2>1, <2>3, AnswerKept, RelayAssumption
<1>13. ASSUME NEW c \in Clients, Send(c) PROVE AnswerInv'
  BY <1>13, AnswerKept, RelayAssumption DEF Send, relay
<1>14. CASE UNCHANGED vars
  BY <1>14, AnswerKept, RelayAssumption DEF vars, relay, net
<1> QED
  BY <1>2, <1>3, <1>4, <1>5, <1>6, <1>7, <1>8, <1>9, <1>10, <1>11, <1>12, <1>13, <1>14
     DEF Next, Serve

(* A client that asks with the whole text is told a state the relays had   *)
(* while it was served, for any number of clients and whatever they send.  *)
THEOREM AnswersCurrent == Spec => []AskerTold
<1>1. Init => AnswerInv
  BY DEF Init, AnswerInv, AskerTold
<1>2. AnswerInv => AskerTold
  BY DEF AnswerInv
<1> QED
  BY <1>1, <1>2, InitTyped, StepTyped, AnswerStep, PTL DEF Spec

-----------------------------------------------------------------------------
(* Owed is what the signals and interrupts under way are going to store.   *)
(* All of it was asked for since the relays were quiet; and either nothing *)
(* else was, or the relays are already as somebody asked.                  *)
Owed == {relay_switch[Number(s) + 1] : s \in pending} \cup (IF pressed THEN Sensor ELSE {})

OrdersInv ==
    /\ Relay_Index <= installed
    /\ Owed \subseteq burst
    /\ burst \subseteq Owed \/ relay_switch[Relay_Index + 1] \in burst

(* No two states have one name.                                            *)
LEMMA NamesDiffer ==
  \A m, n \in 0 .. 8 : relay_switch[m + 1] = relay_switch[n + 1] => m = n
BY DEF relay_switch

(* A step that touches neither the relays nor what is on its way to them.  *)
LEMMA OrdersKept ==
  ASSUME OrdersInv, installed' >= installed, installed \in Nat, installed' \in Nat, Relay_Index \in Nat,
         UNCHANGED <<pending, Relay_Index, pressed, burst>>
  PROVE  OrdersInv'
BY DEF OrdersInv, Owed

(* Every step keeps OrdersInv.                                             *)
LEMMA OrdersStep == TypeOK /\ PlaceInv /\ OrdersInv /\ [Next]_vars => OrdersInv'
<1> SUFFICES ASSUME TypeOK, PlaceInv, OrdersInv, [Next]_vars PROVE OrdersInv'
  OBVIOUS
<1>a. installed \in 0 .. 8 /\ Relay_Index \in 0 .. 8
  BY Tables DEF TypeOK
<1>b. installed \in Nat /\ Relay_Index \in Nat
  BY <1>a
<1>t. \A n \in 1 .. 8 : Asked(n - 1) = relay_switch[n + 1]
  BY Tables, TablesAgree
<1>1. CASE InstallHandler
  <2>1. installed' = installed + 1 /\ UNCHANGED relay
    BY <1>1 DEF InstallHandler
  <2> QED
    BY <1>b, <2>1, OrdersKept DEF relay
<1>2. ASSUME UNCHANGED <<installed, relay>> PROVE OrdersInv'
  BY <1>b, <1>2, OrdersKept DEF relay
<1>3. CASE InitInterrupts \/ Bind \/ Serve \/ (\E c \in Clients : Connect(c) \/ Send(c) \/ HangUp(c))
  BY <1>2, <1>3 DEF InitInterrupts, Bind, Serve, Listen, Accept, AcceptFails, Recv, Strstr, Write, Close,
                    Connect, Send, HangUp
<1>4. ASSUME NEW idx \in Indices, SpClient(idx) PROVE OrdersInv'
  <2>1. UNCHANGED <<installed, Relay_Index, pressed>>
    BY <1>4 DEF SpClient
  <2>2. CASE UNCHANGED <<pending, burst>>
    BY <1>b, <2>1, <2>2, OrdersKept
  <2>3. CASE /\ 0 <= idx /\ idx < Len(sig)
             /\ pending' = pending \cup {sig[idx + 1]}
             /\ burst' = (IF pending = {} /\ ~pressed THEN {} ELSE burst) \cup {Asked(idx)}
    <3>1. idx + 1 \in 1 .. 8
      BY <2>3, Tables, RelayAssumption
    <3>2. Asked(idx) = relay_switch[Number(sig[idx + 1]) + 1]
      <4>1. Asked((idx + 1) - 1) = relay_switch[Number(sig[idx + 1]) + 1]
        BY <3>1, TablesAgree
      <4>2. (idx + 1) - 1 = idx
        BY RelayAssumption
      <4> QED
        BY <3>1, <4>1, <4>2, Tables
    <3>3. Owed' = Owed \cup {Asked(idx)}
      BY <2>1, <2>3, <3>2 DEF Owed
    <3>4. CASE pending = {} /\ ~pressed
      <4>1. Owed = {} /\ burst' = {Asked(idx)}
        BY <2>3, <3>4 DEF Owed
      <4> QED
        BY <2>1, <3>3, <4>1 DEF OrdersInv
    <3>5. CASE ~(pending = {} /\ ~pressed)
      <4>1. burst' = burst \cup {Asked(idx)}
        BY <2>3, <3>5
      <4> QED
        BY <2>1, <3>3, <4>1 DEF OrdersInv
    <3> QED
      BY <3>4, <3>5
  <2> QED
    BY <1>4, <2>2, <2>3 DEF SpClient
<1>5. ASSUME NEW s \in Signals, Deliver(s) PROVE OrdersInv'
  <2>1. s \in pending /\ pending' = pending \ {s} /\ UNCHANGED <<installed, pressed>>
    BY <1>5 DEF Deliver
  <2>2. Owed' \subseteq Owed /\ relay_switch[Number(s) + 1] \in Owed
    BY <2>1 DEF Owed
  <2>0. PICK n \in 1 .. 8 : s = sig[n] /\ Place(s) = n /\ Number(s) = n /\ Command(s) = n - 1
    BY Tables
  <2>3. CASE Place(s) <= installed
    <3>1. Relay_Index' = Number(s) /\ burst' = burst
      BY <1>5, <2>3 DEF Deliver, Number
    <3>2. Relay_Index' <= installed
      BY <2>0, <2>3, <3>1
    <3> QED
      BY <2>1, <2>2, <3>1, <3>2 DEF OrdersInv
  <2>4. CASE ~(Place(s) <= installed)
    <3>1. s = sig[n] /\ Number(s) = n /\ ~(n <= installed)
      BY <2>0, <2>4
    <3> DEFINE name == relay_switch[n + 1]
    <3>2. Relay_Index' = Relay_Index /\ burst' = burst \ {name}
      <4>1. Asked(Command(s)) = name
        BY <2>0, <1>t
      <4> QED
        BY <1>5, <2>4, <4>1 DEF Deliver
    <3>3. ~pressed /\ ~pressed'
      BY <2>1, <2>4, <3>1, Tables, <1>a DEF PlaceInv
    <3>4. name \notin Owed'
      <4>1. ASSUME NEW t \in pending' PROVE relay_switch[Number(t) + 1] # name
        <5>1. PICK m \in 1 .. 8 : t = sig[m] /\ Number(t) = m
          BY <2>1, Tables DEF TypeOK
        <5>2. m # n
          BY <2>1, <3>1, <5>1
        <5> QED
          BY <5>1, <5>2, NamesDiffer
      <4> QED
        BY <3>3, <4>1 DEF Owed
    <3>5. Owed \subseteq Owed' \cup {name}
      BY <2>1, <3>1, <3>3 DEF Owed
    <3>6. relay_switch[Relay_Index + 1] # name
      BY <1>a, <2>4, <3>1, NamesDiffer DEF OrdersInv
    <3> HIDE DEF name
    <3> QED
      BY <2>1, <2>2, <3>2, <3>4, <3>5, <3>6 DEF OrdersInv
  <2> QED
    BY <2>3, <2>4
<1>6. CASE IRA1
  <2>1. UNCHANGED <<installed, Relay_Index, pending>> /\ ~pressed /\ pressed'
    BY <1>6 DEF IRA1
  <2>2. Owed' = Owed \cup Sensor
    BY <2>1 DEF Owed
  <2>3. CASE pending = {}
    <3>1. Owed = {} /\ burst' = Sensor
      BY <1>6, <2>1, <2>3 DEF IRA1, Owed
    <3> QED
      BY <2>1, <2>2, <3>1 DEF OrdersInv
  <2>4. CASE pending # {}
    <3>1. burst' = burst \cup Sensor
      BY <1>6, <2>4 DEF IRA1
    <3> QED
      BY <2>1, <2>2, <3>1 DEF OrdersInv
  <2> QED
    BY <2>3, <2>4
<1>7. CASE IRA1Store
  <2>1. UNCHANGED <<installed, burst, pending>> /\ pressed /\ ~pressed' /\ Relay_Index' \in {1, 5}
    BY <1>7 DEF IRA1Store
  <2>2. Owed' \subseteq Owed /\ Sensor \subseteq Owed
    BY <2>1 DEF Owed
  <2>3. relay_switch[Relay_Index' + 1] \in Sensor
    <3>1. relay_switch[1 + 1] \in Sensor /\ relay_switch[5 + 1] \in Sensor
      BY DEF relay_switch, Sensor
    <3> QED
      BY <2>1, <3>1
  <2>4. Relay_Index' <= installed'
    BY <2>1, Tables DEF PlaceInv
  <2> QED
    BY <2>1, <2>2, <2>3, <2>4 DEF OrdersInv
<1>8. CASE UNCHANGED vars
  BY <1>2, <1>8 DEF vars
<1> QED
  BY <1>1, <1>3, <1>4, <1>5, <1>6, <1>7, <1>8 DEF Next

(* When all is quiet the relays are as somebody asked, for any number of   *)
(* commands and interrupts: an order may be overtaken, never made up.      *)
THEOREM OrdersObeyed == Spec => []AsAsked
<1>1. Init => OrdersInv
  <2> SUFFICES ASSUME Init PROVE OrdersInv
    OBVIOUS
  <2>1. Relay_Index = 0 /\ installed = 0 /\ pending = {} /\ ~pressed /\ burst = {}
    BY DEF Init
  <2> QED
    BY <2>1 DEF OrdersInv, Owed
<1>2. OrdersInv => AsAsked
  BY DEF OrdersInv, AsAsked, Owed
<1> QED
  BY <1>1, <1>2, InitTyped, StepTyped, OrdersStep, PTL DEF Spec

=============================================================================
