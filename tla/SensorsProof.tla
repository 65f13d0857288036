---------------------------- MODULE SensorsProof ----------------------------
(***************************************************************************)
(* Proofs about Sensors, for every set of chips, threads and first pins    *)
(* and every number of calls, faults and attempts.  The argument follows a *)
(* call through its driver's sequence of transfers: how much of it is left *)
(* tells what the next transfer is, how many samples were read and which   *)
(* conversion was started last.                                            *)
(***************************************************************************)
EXTENDS Sensors, SequenceTheorems, TLAPS

-----------------------------------------------------------------------------
(* Where in its program a call is                                          *)

\* The transfers of analogRead on channel c of chip k.
Program(k, c) == Reads(k, c) \o <<Do("return", c)>>

\* s is what is left of p.
Rest(s, p) ==
    /\ 1 <= Len(s) /\ Len(s) <= Len(p)
    /\ \A i \in 1 .. Len(s) : s[i] = p[Len(p) - Len(s) + i]

\* What is left of a read of channel c of chip k (after a failure only the
\* return), and of a write of output c.
ReadRest(k, c, s) ==
    c \in Channels(k) /\ (Rest(s, Program(k, c)) \/ s = <<Do("return", 0)>>)

WriteRest(k, c, s) ==
    c \in Outputs(k) /\ \E v \in 0 .. 1 : Rest(s, Writes(k, c, v))

Reading(t) == ReadRest(kind, chan[t], todo[t])
Writing(t) == WriteRest(kind, chan[t], todo[t])

\* How much of the program is left tells what the next transfer is ...
Placed(k, c, n, h) ==
    \/ /\ k = "ads1115"
       /\ \/ n = 4 /\ h = Do("start", c)
          \/ n = 3 /\ h.do = "poll"
          \/ n = 2 /\ h.do = "fetch"
    \/ /\ k = "htu21d"
       /\ \/ n = 4 /\ h = Do("start", c)
          \/ n = 3 /\ h.do = "delay"
          \/ n = 2 /\ h.do = "fetch"
    \/ /\ k = "mcp3422"
       /\ \/ n = 3 /\ h = Do("start", c)
          \/ n = 2 /\ h.do = "pollfetch"
    \/ /\ k = "pcf8591"
       /\ \/ n = 4 /\ h = Do("select", c)
          \/ n \in {2, 3} /\ h.do = "exchange"
    \/ /\ k \in {"mcp3002", "mcp3004", "max31855", "ds18b20"}
       /\ n = 2 /\ h = Do("transfer", Quantity(k, c))
    \/ /\ k = "rht03"
       /\ n = 2 /\ h = Do("attempt", c)
    \/ /\ k = "bmp180"
       /\ \/ n = 7 /\ h = Do("start", 0)
          \/ n = 4 /\ h = Do("start", 1)
          \/ n \in {6, 3} /\ h.do = "delay"
          \/ n \in {5, 2} /\ h.do = "fetch"
    \/ n = 1 /\ h.do = "return"

WritePlaced(k, c, n, h) ==
    \/ k = "sn3218" /\ n = 2 /\ \E v \in 0 .. 1 : h = Set("stage", c, v)
    \/ k = "sn3218" /\ n = 1 /\ h = Do("update", c)
    \/ k # "sn3218" /\ n = 1 /\ \E v \in 0 .. 1 : h = Set("dac", c, v)

\* ... how many samples the call has, and which one it started last.
Samplings(k, n) ==
    CASE k = "bmp180" -> IF n >= 5 THEN 0 ELSE IF n >= 2 THEN 1 ELSE 2
      [] k = "pcf8591" -> IF n >= 3 THEN 0 ELSE IF n = 2 THEN 1 ELSE 2
      [] OTHER -> IF n >= 2 THEN 0 ELSE 1

Started(k, c, n) ==
    IF k = "bmp180" THEN IF n >= 5 THEN 0 ELSE 1 ELSE c

-----------------------------------------------------------------------------
(* The inductive invariant                                                 *)

CallInv ==
    \A t \in Threads :
        \/ Idle(t)
        \/ /\ Reading(t)
           /\ Len(value[t]) = Samplings(kind, Len(todo[t]))
           /\ Head(todo[t]).do = "attempt" => tries[t] < MaxTries
        \/ Writing(t) /\ Len(value[t]) = 0

\* While a call has the chip to itself nobody else is in one.
Alone == \A t, u \in Threads : ~Idle(t) /\ ~overlap[t] /\ u # t => Idle(u)

\* Nothing converts on its own in pcf8591.
NoConversion == kind = "pcf8591" => conv = None

\* A call under way has returned nothing.
Unreturned == \A t \in Threads : ~Idle(t) => result[t] = None

Undisturbed(t) == ~failed[t] /\ ~overlap[t]
Last(t) == value[t][Len(value[t])]

\* What call me of channel c, about to do its n-th last transfer, knows of
\* the conversion, the register, the multiplexer and its samples.
Knows(k, c, me, n, do, cv, rg, mx, v) ==
    LET Taken(ch) == [chan |-> ch, call |-> me]
        new       == Taken(Started(k, c, n))
    IN  /\ do \in {"poll", "delay", "pollfetch"} => cv = new \/ (cv = None /\ rg = new)
        /\ do = "fetch" => cv = None /\ rg = new
        /\ do = "exchange" => mx = c
        /\ do = "exchange" /\ n = 2 => rg = Taken(c)
        /\ k = "bmp180" /\ n <= 4 => v[1] = Taken(0)
        /\ k = "bmp180" /\ n = 1 => v[2] = Taken(1)
        /\ k # "bmp180" /\ do = "return" => v[Len(v)] \in {Taken(Quantity(k, c)), Error}

Progress(t) ==
    Knows(kind, chan[t], mine[t], Len(todo[t]), Head(todo[t]).do, conv, reg, mux, value[t])

Fresh(t) ==
    /\ ~Idle(t) /\ Reading(t) => Progress(t)
    /\ Idle(t) => result[t] \in {None, Own(t), Error}

FreshInv == \A t \in Threads : Undisturbed(t) => Fresh(t)

\* A thread that writes output c, and what it has staged.
Writes1(t, c) == ~Idle(t) /\ Writing(t) /\ chan[t] = c

OutputInv ==
    \A c \in Outputs(kind) : asked[c] # Unknown =>
        /\ \A t, u \in Threads : Writes1(t, c) /\ Writes1(u, c) => t = u
        /\ \A t \in Threads : Writes1(t, c) =>
             IF Head(todo[t]).do = "update" THEN staged[c] = asked[c]
             ELSE Head(todo[t]).v = asked[c]
        /\ (\A t \in Threads : ~Writes1(t, c)) =>
             output[c] = asked[c] /\ (kind = "sn3218" => staged[c] = asked[c])

-----------------------------------------------------------------------------
(* A pin of the node reads the input of the chip with its number, at       *)
(* whatever number the node starts.                                        *)
LEMMA InputIs ==
  ASSUME NEW k, NEW b \in Nat, NEW c \in Channels(k)
  PROVE  Input(k, b + c, b) = c
<1>1. CASE k = "mcp3422"
  <2>1. c \in 0 .. 3
    BY <1>1 DEF Channels
  <2>2. (((b + c) % 4) - b) % 4 = c
    BY <2>1
  <2> QED
    BY <1>1, <2>2 DEF Input, MCP3422Channel
<1>2. CASE k # "mcp3422"
  BY <1>2 DEF Input, Channels
<1> QED
  BY <1>1, <1>2

(* A sequence is empty when its length is 0.                               *)
LEMMA EmptyIs == ASSUME NEW S, NEW q \in Seq(S) PROVE q = <<>> <=> Len(q) = 0
<1>1. q # <<>> => Len(q) \in Nat \ {0}
  BY EmptySeq
<1>2. q = <<>> => Len(q) = 0
  BY EmptySeq
<1> QED
  BY <1>1, <1>2

(* Taking the first transfer off what is left of a program.                *)
LEMMA RestStep ==
  ASSUME NEW S, NEW s \in Seq(S), NEW p, Len(p) \in Nat, Rest(s, p)
  PROVE  /\ s # <<>> /\ 1 <= Len(s) /\ Len(s) <= Len(p)
         /\ Head(s) = p[Len(p) - Len(s) + 1]
         /\ Tail(s) \in Seq(S) /\ Len(Tail(s)) = Len(s) - 1
         /\ Tail(s) = <<>> \/ Rest(Tail(s), p)
         /\ Tail(s) = <<>> <=> Len(s) = 1
<1>1. s # <<>> /\ 1 <= Len(s) /\ Len(s) <= Len(p) /\ Head(s) = p[Len(p) - Len(s) + 1]
  BY DEF Rest
<1>2. /\ Tail(s) \in Seq(S) /\ Len(Tail(s)) = Len(s) - 1
      /\ \A i \in 1 .. Len(Tail(s)) : Tail(s)[i] = s[i + 1]
  BY <1>1
<1>3. Tail(s) = <<>> <=> Len(s) = 1
  <2>1. Tail(s) = <<>> <=> Len(Tail(s)) = 0
    BY <1>2, EmptyIs
  <2> QED
    BY <1>2, <2>1
<1>4. ASSUME Len(s) # 1 PROVE Rest(Tail(s), p)
  BY <1>1, <1>2, <1>4 DEF Rest
<1> QED
  BY <1>1, <1>2, <1>3, <1>4

(* Before the first transfer the whole program is left.                    *)
LEMMA RestAll ==
  ASSUME NEW S, NEW p \in Seq(S), 1 <= Len(p)
  PROVE  Rest(p, p)
  BY DEF Rest

(* A program and the return after it.                                      *)
LEMMA Returned ==
  ASSUME NEW p \in Seq(Steps), NEW r \in Steps
  PROVE  /\ p \o <<r>> \in Seq(Steps)
         /\ Len(p \o <<r>>) = Len(p) + 1
         /\ \A i \in 1 .. Len(p) : (p \o <<r>>)[i] = p[i]
         /\ (p \o <<r>>)[Len(p) + 1] = r
  BY ConcatProperties, <<r>> \in Seq(Steps), Len(<<r>>) = 1, <<r>>[1] = r

(* A transfer without a value is a step.                                   *)
LEMMA DoTyped ==
  ASSUME NEW what \in {"start", "select", "exchange", "transfer", "poll", "delay", "fetch",
                       "pollfetch", "attempt", "return", "stage", "update", "dac"},
         NEW c \in 0 .. 7
  PROVE  Do(what, c) \in Steps /\ Do(what, c).do = what /\ Do(what, c).c = c
  BY DEF Do, Steps

(* What a write does is a sequence of one or two steps.                    *)
LEMMA WritesTyped ==
  ASSUME NEW k, NEW c \in 0 .. 7, NEW v \in 0 .. 1
  PROVE  /\ Writes(k, c, v) \in Seq(Steps)
         /\ 1 <= Len(Writes(k, c, v)) /\ Len(Writes(k, c, v)) <= 7
<1>1. Do("update", c) \in Steps /\ Set("stage", c, v) \in Steps /\ Set("dac", c, v) \in Steps
  BY DEF Do, Set, Steps
<1>2. CASE k = "sn3218"
  <2>1. Writes(k, c, v) = <<Set("stage", c, v), Do("update", c)>>
    BY <1>2 DEF Writes
  <2> QED
    BY <1>1, <2>1
<1>3. CASE k # "sn3218"
  <2>1. Writes(k, c, v) = <<Set("dac", c, v)>>
    BY <1>3 DEF Writes
  <2> QED
    BY <1>1, <2>1
<1> QED
  BY <1>2, <1>3

(* A program transfer by transfer: those of the read, and the return.       *)
LEMMA ProgramOf ==
  ASSUME NEW k, NEW c \in Channels(k), NEW T \in Seq(Steps), Reads(k, c) = T,
         NEW n \in 1 .. 6, Len(T) = n, Samplings(k, n + 1) = 0, k = "bmp180" => n = 6,
         T[1].do \in {"start", "select", "transfer", "attempt"},
         \A i \in 1 .. n : Placed(k, c, n + 2 - i, T[i])
  PROVE  /\ Program(k, c) \in Seq(Steps) /\ 2 <= Len(Program(k, c)) /\ Len(Program(k, c)) <= 7
         /\ Samplings(k, Len(Program(k, c))) = 0
         /\ Program(k, c)[1].do \in {"start", "select", "transfer", "attempt"}
         /\ k = "bmp180" => Len(Program(k, c)) = 7
         /\ \A i \in 1 .. Len(Program(k, c)) :
              Placed(k, c, Len(Program(k, c)) - i + 1, Program(k, c)[i])
<1> DEFINE R == Do("return", c)
<1>1. R \in Steps
  BY DoTyped DEF Channels
<1>2. PICK p : p = Program(k, c)
  OBVIOUS
<1>3. /\ p \in Seq(Steps) /\ Len(p) = n + 1 /\ p[n + 1] = R
      /\ \A i \in 1 .. n : p[i] = T[i]
  BY <1>1, <1>2, Returned DEF Program
<1>4. ASSUME NEW i \in 1 .. n + 1 PROVE Placed(k, c, n + 1 - i + 1, p[i])
  <2>1. CASE i = n + 1
    <3>1. n + 1 - i + 1 = 1 /\ p[i] = R
      BY <1>3, <2>1
    <3>2. Placed(k, c, 1, R)
      BY DEF Placed, Do
    <3> QED
      BY <3>1, <3>2
  <2>2. CASE i # n + 1
    <3>1. i \in 1 .. n /\ n + 1 - i + 1 = n + 2 - i
      BY <2>2
    <3> QED
      BY <1>3, <3>1
  <2> QED
    BY <2>1, <2>2
<1>5. 2 <= n + 1 /\ n + 1 <= 7 /\ (k = "bmp180" => n + 1 = 7)
  OBVIOUS
<1>6. p[1].do \in {"start", "select", "transfer", "attempt"}
  BY <1>3
<1>7. Samplings(k, Len(p)) = 0
  BY <1>3
<1> QED
  BY <1>2, <1>3, <1>4, <1>5, <1>6, <1>7

(* The programs of every driver: they begin with a transfer that needs     *)
(* nothing from the chip, and each transfer is where its place in the      *)
(* program says.                                                           *)
LEMMA Programs ==
  ASSUME NEW k, NEW c \in Channels(k)
  PROVE  /\ Program(k, c) \in Seq(Steps) /\ 2 <= Len(Program(k, c)) /\ Len(Program(k, c)) <= 7
         /\ Samplings(k, Len(Program(k, c))) = 0
         /\ Program(k, c)[1].do \in {"start", "select", "transfer", "attempt"}
         /\ k = "bmp180" => Len(Program(k, c)) = 7
         /\ \A i \in 1 .. Len(Program(k, c)) :
              Placed(k, c, Len(Program(k, c)) - i + 1, Program(k, c)[i])
<1>0. c \in 0 .. 7
  BY DEF Channels
<1>1. CASE k = "ads1115"
  <2> DEFINE T == <<Do("start", c), Do("poll", 0), Do("fetch", 0)>>
  <2>1. Reads(k, c) = T
    BY <1>1 DEF Reads, ReadAds1115
  <2>2. T \in Seq(Steps) /\ Len(T) = 3
    BY <1>0, <1>1, DoTyped
  <2>3. \A i \in 1 .. 3 : Placed(k, c, 3 + 2 - i, T[i])
    BY <1>1 DEF Placed, Do
  <2>4. Samplings(k, 3 + 1) = 0 /\ T[1].do \in {"start", "select", "transfer", "attempt"}
    BY <1>1 DEF Samplings, Do
  <2>5. k = "bmp180" => 3 = 6
    BY <1>1
  <2> HIDE DEF T
  <2> QED
    BY <2>1, <2>2, <2>3, <2>4, <2>5, ProgramOf
<1>2. CASE k = "mcp3422"
  <2> DEFINE T == <<Do("start", c), Do("pollfetch", 0)>>
  <2>1. Reads(k, c) = T
    BY <1>2 DEF Reads, ReadMcp3422
  <2>2. T \in Seq(Steps) /\ Len(T) = 2
    BY <1>0, <1>2, DoTyped
  <2>3. \A i \in 1 .. 2 : Placed(k, c, 2 + 2 - i, T[i])
    BY <1>2 DEF Placed, Do
  <2>4. Samplings(k, 2 + 1) = 0 /\ T[1].do \in {"start", "select", "transfer", "attempt"}
    BY <1>2 DEF Samplings, Do
  <2>5. k = "bmp180" => 2 = 6
    BY <1>2
  <2> HIDE DEF T
  <2> QED
    BY <2>1, <2>2, <2>3, <2>4, <2>5, ProgramOf
<1>3. CASE k = "pcf8591"
  <2> DEFINE T == <<Do("select", c), Do("exchange", 0), Do("exchange", 0)>>
  <2>1. Reads(k, c) = T
    BY <1>3 DEF Reads, ReadPcf8591
  <2>2. T \in Seq(Steps) /\ Len(T) = 3
    BY <1>0, <1>3, DoTyped
  <2>3. \A i \in 1 .. 3 : Placed(k, c, 3 + 2 - i, T[i])
    BY <1>3 DEF Placed, Do
  <2>4. Samplings(k, 3 + 1) = 0 /\ T[1].do \in {"start", "select", "transfer", "attempt"}
    BY <1>3 DEF Samplings, Do
  <2>5. k = "bmp180" => 3 = 6
    BY <1>3
  <2> HIDE DEF T
  <2> QED
    BY <2>1, <2>2, <2>3, <2>4, <2>5, ProgramOf
<1>4. CASE k \in {"mcp3002", "mcp3004", "max31855", "ds18b20"}
  <2> DEFINE T == <<Do("transfer", Quantity(k, c))>>
  <2>1. Reads(k, c) = T
    BY <1>4 DEF Reads, ReadSpi, ReadDs18b20, Quantity, Channels
  <2>2. T \in Seq(Steps) /\ Len(T) = 1
    BY <1>0, <1>4, DoTyped DEF Quantity
  <2>3. \A i \in 1 .. 1 : Placed(k, c, 1 + 2 - i, T[i])
    BY <1>4 DEF Placed, Do
  <2>4. Samplings(k, 1 + 1) = 0 /\ T[1].do \in {"start", "select", "transfer", "attempt"}
    BY <1>4 DEF Samplings, Do
  <2>5. k = "bmp180" => 1 = 6
    BY <1>4
  <2> HIDE DEF T
  <2> QED
    BY <2>1, <2>2, <2>3, <2>4, <2>5, ProgramOf
<1>5. CASE k = "bmp180"
  <2> DEFINE T == <<Do("start", 0), Do("delay", 0), Do("fetch", 0),
                Do("start", 1), Do("delay", 0), Do("fetch", 0)>>
  <2>1. Reads(k, c) = T
    BY <1>5 DEF Reads, ReadBmp180
  <2>2. T \in Seq(Steps) /\ Len(T) = 6
    BY <1>0, <1>5, DoTyped
  <2>3. \A i \in 1 .. 6 : Placed(k, c, 6 + 2 - i, T[i])
    BY <1>5 DEF Placed, Do
  <2>4. Samplings(k, 6 + 1) = 0 /\ T[1].do \in {"start", "select", "transfer", "attempt"}
    BY <1>5 DEF Samplings, Do
  <2>5. k = "bmp180" => 6 = 6
    BY <1>5
  <2> HIDE DEF T
  <2> QED
    BY <2>1, <2>2, <2>3, <2>4, <2>5, ProgramOf
<1>6. CASE k = "htu21d"
  <2> DEFINE T == <<Do("start", c), Do("delay", 0), Do("fetch", 0)>>
  <2>1. Reads(k, c) = T
    BY <1>6 DEF Reads, ReadHtu21d
  <2>2. T \in Seq(Steps) /\ Len(T) = 3
    BY <1>0, <1>6, DoTyped
  <2>3. \A i \in 1 .. 3 : Placed(k, c, 3 + 2 - i, T[i])
    BY <1>6 DEF Placed, Do
  <2>4. Samplings(k, 3 + 1) = 0 /\ T[1].do \in {"start", "select", "transfer", "attempt"}
    BY <1>6 DEF Samplings, Do
  <2>5. k = "bmp180" => 3 = 6
    BY <1>6
  <2> HIDE DEF T
  <2> QED
    BY <2>1, <2>2, <2>3, <2>4, <2>5, ProgramOf
<1>7. CASE k = "rht03"
  <2> DEFINE T == <<Do("attempt", c)>>
  <2>1. Reads(k, c) = T
    BY <1>7 DEF Reads, ReadRht03
  <2>2. T \in Seq(Steps) /\ Len(T) = 1
    BY <1>0, <1>7, DoTyped
  <2>3. \A i \in 1 .. 1 : Placed(k, c, 1 + 2 - i, T[i])
    BY <1>7 DEF Placed, Do
  <2>4. Samplings(k, 1 + 1) = 0 /\ T[1].do \in {"start", "select", "transfer", "attempt"}
    BY <1>7 DEF Samplings, Do
  <2>5. k = "bmp180" => 1 = 6
    BY <1>7
  <2> HIDE DEF T
  <2> QED
    BY <2>1, <2>2, <2>3, <2>4, <2>5, ProgramOf
<1> QED
  BY <1>1, <1>2, <1>3, <1>4, <1>5, <1>6, <1>7 DEF Channels

(* The next transfer of a read is the one its place says, and what is left *)
(* after it is what is left of the same read.                              *)
LEMMA ReadStep ==
  ASSUME NEW k, NEW c, NEW s \in Seq(Steps), ReadRest(k, c, s)
  PROVE  /\ s # <<>> /\ 1 <= Len(s) /\ Len(s) <= 7
         /\ Placed(k, c, Len(s), Head(s))
         /\ Tail(s) = <<>> \/ ReadRest(k, c, Tail(s))
<1>1. CASE Rest(s, Program(k, c))
  <2>1. c \in Channels(k)
    BY DEF ReadRest
  <2>2. /\ 2 <= Len(Program(k, c)) /\ Len(Program(k, c)) <= 7
        /\ \A i \in 1 .. Len(Program(k, c)) :
              Placed(k, c, Len(Program(k, c)) - i + 1, Program(k, c)[i])
    BY <2>1, Programs
  <2>3. /\ s # <<>> /\ 1 <= Len(s) /\ Len(s) <= Len(Program(k, c))
        /\ Head(s) = Program(k, c)[Len(Program(k, c)) - Len(s) + 1]
        /\ Tail(s) = <<>> \/ Rest(Tail(s), Program(k, c))
    BY <1>1, <2>2, RestStep
  <2>4. Placed(k, c, Len(s), Head(s))
    <3> DEFINE L == Len(Program(k, c))
               i == L - Len(s) + 1
    <3>1. i \in 1 .. L /\ L - i + 1 = Len(s)
      BY <2>2, <2>3
    <3>2. Placed(k, c, L - i + 1, Program(k, c)[i])
      BY <2>2, <3>1
    <3> QED
      BY <2>3, <3>1, <3>2
  <2>5. 1 <= Len(s) /\ Len(s) <= 7
    BY <2>2, <2>3
  <2>6. Tail(s) = <<>> \/ ReadRest(k, c, Tail(s))
    BY <2>1, <2>3 DEF ReadRest
  <2> QED
    BY <2>3, <2>4, <2>5, <2>6
<1>2. CASE s = <<Do("return", 0)>>
  <2>1. Len(s) = 1 /\ Head(s) = Do("return", 0) /\ Tail(s) = <<>> /\ s # <<>>
    BY <1>2
  <2> QED
    BY <2>1 DEF Placed, Do
<1> QED
  BY <1>1, <1>2 DEF ReadRest

(* What is left of a program of two transfers.                             *)
LEMMA RestOfTwo ==
  ASSUME NEW S, NEW s \in Seq(S), NEW p, Len(p) = 2, Rest(s, p)
  PROVE  \/ Len(s) = 2 /\ Head(s) = p[1] /\ Rest(Tail(s), p)
         \/ Len(s) = 1 /\ Head(s) = p[2] /\ Tail(s) = <<>>
<1>0. Len(p) \in Nat /\ Len(s) \in Nat
  OBVIOUS
<1>1. /\ 1 <= Len(s) /\ Len(s) <= Len(p)
      /\ Head(s) = p[Len(p) - Len(s) + 1]
      /\ Tail(s) = <<>> \/ Rest(Tail(s), p)
      /\ Tail(s) = <<>> <=> Len(s) = 1
  BY <1>0, RestStep
<1>2. CASE Len(s) = 1
  BY <1>1, <1>2
<1>3. CASE Len(s) = 2
  BY <1>1, <1>3
<1>4. Len(s) = 1 \/ Len(s) = 2
  <2>1. 1 <= Len(s) /\ Len(s) <= 2
    BY DEF Rest
  <2>2. PICK n : n = Len(s) /\ n \in Nat /\ 1 <= n /\ n <= 2
    BY <1>0, <2>1
  <2> QED
    BY <2>2
<1> QED
  BY <1>2, <1>3, <1>4

(* The same of a write.                                                    *)
LEMMA WriteStep ==
  ASSUME NEW k, NEW c, NEW s \in Seq(Steps), WriteRest(k, c, s)
  PROVE  /\ s # <<>> /\ c \in Outputs(k)
         /\ WritePlaced(k, c, Len(s), Head(s))
         /\ Tail(s) = <<>> \/ WriteRest(k, c, Tail(s))
<1>1. PICK v \in 0 .. 1 : Rest(s, Writes(k, c, v)) /\ c \in Outputs(k)
  BY DEF WriteRest
<1>2. CASE k = "sn3218"
  <2>1. Writes(k, c, v) = <<Set("stage", c, v), Do("update", c)>>
    BY <1>2 DEF Writes
  <2>2. PICK p : p = Writes(k, c, v) /\ Len(p) = 2 /\ p[1] = Set("stage", c, v) /\ p[2] = Do("update", c)
    BY <2>1
  <2>3. \/ Len(s) = 2 /\ Head(s) = p[1] /\ Rest(Tail(s), p)
        \/ Len(s) = 1 /\ Head(s) = p[2] /\ Tail(s) = <<>>
    BY <1>1, <2>2, RestOfTwo
  <2>4. WritePlaced(k, c, Len(s), Head(s))
    BY <1>2, <2>2, <2>3 DEF WritePlaced
  <2>5. Tail(s) = <<>> \/ WriteRest(k, c, Tail(s))
    BY <1>1, <2>2, <2>3 DEF WriteRest
  <2>6. s # <<>>
    BY <1>1 DEF Rest
  <2> QED
    BY <1>1, <2>4, <2>5, <2>6
<1>3. CASE k # "sn3218"
  <2>1. Writes(k, c, v) = <<Set("dac", c, v)>>
    BY <1>3 DEF Writes
  <2>2. PICK p : p = Writes(k, c, v) /\ Len(p) = 1 /\ p[1] = Set("dac", c, v)
    BY <2>1
  <2>0. Len(p) \in Nat /\ Len(s) \in Nat
    BY <2>2
  <2>3. /\ s # <<>> /\ 1 <= Len(s) /\ Len(s) <= Len(p) /\ Head(s) = p[Len(p) - Len(s) + 1]
        /\ Tail(s) = <<>> <=> Len(s) = 1
    BY <1>1, <2>0, <2>2, RestStep
  <2>4. Len(s) = 1
    BY <2>0, <2>2, <2>3
  <2>5. Head(s) = Set("dac", c, v) /\ Tail(s) = <<>>
    BY <2>2, <2>3, <2>4
  <2> QED
    BY <1>1, <1>3, <2>3, <2>4, <2>5 DEF WritePlaced
<1> QED
  BY <1>2, <1>3

(* What the next transfer says of the call.                                *)
LEMMA PlacedHead ==
  ASSUME NEW k, NEW c, NEW n \in Nat, NEW h, Placed(k, c, n, h)
  PROVE  /\ h.do \in {"start", "select", "poll", "delay"} =>
              n # 1 /\ Samplings(k, n - 1) = Samplings(k, n)
         /\ h.do \in {"exchange", "transfer", "fetch", "pollfetch", "attempt"} =>
              n # 1 /\ Samplings(k, n - 1) = Samplings(k, n) + 1 /\ Samplings(k, n) <= 1
         /\ h.do = "return" <=> n = 1
         /\ h.do \in {"start", "select", "poll", "delay", "exchange", "transfer", "fetch",
                      "pollfetch", "attempt", "return"}
<1>1. CASE k \in {"ads1115", "htu21d", "mcp3422"}
  BY <1>1 DEF Placed, Samplings, Do
<1>2. CASE k \in {"mcp3002", "mcp3004", "max31855", "ds18b20", "rht03"}
  BY <1>2 DEF Placed, Samplings, Do
<1>3. CASE k = "pcf8591"
  BY <1>3 DEF Placed, Samplings, Do
<1>4. CASE k = "bmp180"
  BY <1>4 DEF Placed, Samplings, Do
<1>5. CASE k \notin {"ads1115", "htu21d", "mcp3422", "mcp3002", "mcp3004", "max31855", "ds18b20",
                    "rht03", "pcf8591", "bmp180"}
  BY <1>5 DEF Placed, Samplings, Do
<1> QED
  BY <1>1, <1>2, <1>3, <1>4, <1>5

(* The same of a write: it has its output as its argument, and the         *)
(* transfer that stages a value is not the last.                           *)
LEMMA WritePlacedHead ==
  ASSUME NEW k, NEW c, NEW n \in Nat, NEW h, WritePlaced(k, c, n, h)
  PROVE  /\ h.do \in {"stage", "update", "dac"} /\ h.c = c
         /\ h.do \in {"stage", "dac"} => h.v \in 0 .. 1
         /\ h.do = "stage" <=> n = 2
         /\ h.do = "stage" => k = "sn3218"
         /\ h.do = "update" => k = "sn3218" /\ n = 1
         /\ h.do = "dac" => k # "sn3218" /\ n = 1
  BY DEF WritePlaced, Do, Set

(* No call is both.                                                        *)
LEMMA ReadOrWrite ==
  ASSUME NEW k, NEW c, NEW s \in Seq(Steps), ReadRest(k, c, s)
  PROVE  ~WriteRest(k, c, s)
<1>1. PICK n \in Nat : n = Len(s)
  OBVIOUS
<1>0. PICK h : h = Head(s)
  OBVIOUS
<1>2. Placed(k, c, n, h)
  BY <1>0, <1>1, ReadStep
<1>3. h.do \notin {"stage", "update", "dac"}
  BY <1>2, PlacedHead
<1>4. WriteRest(k, c, s) => WritePlaced(k, c, n, h)
  BY <1>0, <1>1, WriteStep
<1>5. WritePlaced(k, c, n, h) => h.do \in {"stage", "update", "dac"}
  BY WritePlacedHead
<1> QED
  BY <1>3, <1>4, <1>5

(* Taking the first element off a sequence.                                *)
LEMMA TailOf ==
  ASSUME NEW S, NEW s \in Seq(S), s # <<>>
  PROVE  /\ Head(s) \in S /\ Tail(s) \in Seq(S) /\ Len(s) \in Nat \ {0}
         /\ Len(Tail(s)) = Len(s) - 1
         /\ Tail(s) = <<>> <=> Len(s) = 1
<1>1. /\ Head(s) \in S /\ Tail(s) \in Seq(S) /\ Len(s) \in Nat \ {0}
      /\ Len(Tail(s)) = Len(s) - 1
  BY HeadTailProperties, EmptySeq
<1>2. Tail(s) = <<>> <=> Len(Tail(s)) = 0
  BY <1>1, EmptyIs
<1> QED
  BY <1>1, <1>2

-----------------------------------------------------------------------------
(* After a transfer ...                                                    *)
LEMMA AfterDone ==
  ASSUME TypeOK, NEW t \in Threads, ~Idle(t), Done(t)
  PROVE  /\ todo' \in [Threads -> Seq(Steps)] /\ Len(todo'[t]) <= 7
         /\ todo'[t] = Tail(todo[t]) /\ Len(todo'[t]) = Len(todo[t]) - 1
         /\ Idle(t)' <=> Len(todo[t]) = 1
         /\ \A u \in Threads : u # t => todo'[u] = todo[u]
<1>1. todo[t] \in Seq(Steps) /\ todo[t] # <<>> /\ Len(todo[t]) <= 7
  BY DEF TypeOK, Idle
<1>2. /\ Tail(todo[t]) \in Seq(Steps) /\ Len(Tail(todo[t])) = Len(todo[t]) - 1
      /\ Len(todo[t]) \in Nat
      /\ Tail(todo[t]) = <<>> <=> Len(todo[t]) = 1
  BY <1>1, TailOf
<1>3. todo'[t] = Tail(todo[t]) /\ \A u \in Threads : u # t => todo'[u] = todo[u]
  BY DEF Done, TypeOK
<1>4. todo' \in [Threads -> Seq(Steps)]
  BY <1>2 DEF Done, TypeOK
<1>5. Len(todo'[t]) <= 7
  BY <1>1, <1>2, <1>3
<1> QED
  BY <1>2, <1>3, <1>4, <1>5 DEF Idle

(* ... and after one that gave a sample.                                   *)
LEMMA AfterGot ==
  ASSUME TypeOK, NEW t \in Threads, NEW s \in Samples, Len(value[t]) <= 1, Got(t, s)
  PROVE  /\ value' \in [Threads -> Seq(Samples)] /\ \A u \in Threads : Len(value'[u]) <= 2
         /\ Len(value'[t]) = Len(value[t]) + 1 /\ value'[t][Len(value'[t])] = s
         /\ Len(value[t]) = 1 => value'[t][1] = value[t][1]
         /\ \A u \in Threads : u # t => value'[u] = value[u]
<1>1. value[t] \in Seq(Samples) /\ Len(value[t]) \in Nat
  BY DEF TypeOK
<1>2. /\ value'[t] = Append(value[t], s) /\ \A u \in Threads : u # t => value'[u] = value[u]
      /\ value' \in [Threads -> Seq(Samples)]
  BY <1>1 DEF Got, TypeOK
<1>3. /\ Len(value'[t]) = Len(value[t]) + 1 /\ value'[t][Len(value'[t])] = s
      /\ Len(value[t]) = 1 => value'[t][1] = value[t][1]
  BY <1>1, <1>2
<1>4. ASSUME NEW u \in Threads PROVE Len(value'[u]) <= 2
  <2>1. Len(value[u]) <= 2
    BY DEF TypeOK
  <2> QED
    BY <1>1, <1>2, <1>3, <2>1
<1> QED
  BY <1>2, <1>3, <1>4

(* What a thread in a call is about to do, by its next transfer.           *)
LEMMA NextTransfer ==
  ASSUME TypeOK, CallInv, NEW t \in Threads, ~Idle(t),
         NEW n, n = Len(todo[t]), NEW h, h = Head(todo[t])
  PROVE  /\ h \in Steps /\ n \in Nat /\ n <= 7 /\ n # 0
         /\ h.do \in {"start", "select", "poll", "delay"} =>
              Reading(t) /\ n # 1 /\ Len(value[t]) = Samplings(kind, n - 1)
         /\ h.do \in {"exchange", "transfer", "fetch", "pollfetch", "attempt"} =>
              Reading(t) /\ n # 1 /\ Len(value[t]) <= 1 /\ Len(value[t]) + 1 = Samplings(kind, n - 1)
         /\ h.do = "attempt" => tries[t] < MaxTries
         /\ h.do = "return" <=> Reading(t) /\ n = 1
         /\ h.do \in {"stage", "update", "dac"} <=> Writing(t)
         /\ Writing(t) <=> ~Reading(t)
         /\ Writing(t) => /\ WritePlaced(kind, chan[t], n, h)
                          /\ chan[t] \in Outputs(kind) /\ Len(value[t]) = 0
         /\ Reading(t) => /\ Placed(kind, chan[t], n, h)
                          /\ chan[t] \in Channels(kind) /\ Len(value[t]) = Samplings(kind, n)
<1>1. todo[t] \in Seq(Steps) /\ todo[t] # <<>> /\ Len(todo[t]) <= 7
  BY DEF TypeOK, Idle
<1>2. h \in Steps /\ n \in Nat \ {0} /\ n <= 7
  BY <1>1, TailOf
<1>3. Reading(t) => Placed(kind, chan[t], n, h) /\ chan[t] \in Channels(kind)
  BY <1>1, ReadStep DEF Reading, ReadRest
<1>4. Writing(t) => WritePlaced(kind, chan[t], n, h) /\ chan[t] \in Outputs(kind)
  BY <1>1, WriteStep DEF Writing
<1>5. \/ /\ Reading(t) /\ Len(value[t]) = Samplings(kind, n)
         /\ h.do = "attempt" => tries[t] < MaxTries
      \/ Writing(t) /\ Len(value[t]) = 0
  BY DEF CallInv
<1>6. Placed(kind, chan[t], n, h) =>
        /\ h.do \in {"start", "select", "poll", "delay"} =>
              n # 1 /\ Samplings(kind, n - 1) = Samplings(kind, n)
        /\ h.do \in {"exchange", "transfer", "fetch", "pollfetch", "attempt"} =>
              n # 1 /\ Samplings(kind, n - 1) = Samplings(kind, n) + 1 /\ Samplings(kind, n) <= 1
        /\ h.do = "return" <=> n = 1
        /\ h.do \in {"start", "select", "poll", "delay", "exchange", "transfer", "fetch",
                     "pollfetch", "attempt", "return"}
  BY <1>2, PlacedHead
<1>7. WritePlaced(kind, chan[t], n, h) => h.do \in {"stage", "update", "dac"}
  BY <1>2, WritePlacedHead
<1>8. CASE Reading(t)
  <2>1. Len(value[t]) = Samplings(kind, n) /\ (h.do = "attempt" => tries[t] < MaxTries) /\ ~Writing(t)
    BY <1>3, <1>4, <1>5, <1>6, <1>7, <1>8
  <2> QED
    BY <1>2, <1>3, <1>6, <1>8, <2>1
<1>9. CASE ~Reading(t)
  BY <1>2, <1>4, <1>5, <1>7, <1>9
<1> QED
  BY <1>8, <1>9

(* A thread that did its next transfer is at the one after it.             *)
LEMMA CallMoves ==
  ASSUME TypeOK, CallInv, NEW t \in Threads, ~Idle(t), Done(t), kind' = kind, chan' = chan,
         \A u \in Threads : u # t => value'[u] = value[u] /\ tries'[u] = tries[u],
         Len(todo[t]) # 1 /\ Reading(t) => Len(value'[t]) = Samplings(kind, Len(todo[t]) - 1),
         Len(todo[t]) # 1 /\ Writing(t) => Len(value'[t]) = 0
  PROVE  CallInv'
<1> SUFFICES ASSUME NEW u \in Threads, ~Idle(u)'
             PROVE  \/ /\ Reading(u)' /\ Len(value'[u]) = Samplings(kind, Len(todo'[u]))
                       /\ Head(todo'[u]).do = "attempt" => tries'[u] < MaxTries
                    \/ Writing(u)' /\ Len(value'[u]) = 0
  BY DEF CallInv
<1>1. CASE u # t
  <2>1. todo'[u] = todo[u]
    BY <1>1, AfterDone
  <2> QED
    BY <1>1, <2>1 DEF CallInv, Idle, Reading, Writing
<1>2. CASE u = t
  <2>1. /\ todo'[t] = Tail(todo[t]) /\ Len(todo'[t]) = Len(todo[t]) - 1 /\ Len(todo[t]) # 1
        /\ todo[t] \in Seq(Steps) /\ Tail(todo[t]) # <<>> /\ todo'[t] \in Seq(Steps)
    BY <1>2, AfterDone DEF Idle, TypeOK
  <2>2. CASE Reading(t)
    <3>1. ReadRest(kind, chan[t], todo'[t])
      BY <2>1, <2>2, ReadStep DEF Reading
    <3>2. /\ Placed(kind, chan[t], Len(todo[t]), Head(todo[t]))
          /\ Placed(kind, chan[t], Len(todo[t]) - 1, Head(todo'[t]))
      BY <2>1, <2>2, <3>1, ReadStep DEF Reading
    <3>3. Head(todo'[t]).do # "attempt"
      BY <3>2 DEF Placed, Do
    <3> QED
      BY <1>2, <2>1, <2>2, <3>1, <3>3 DEF Reading
  <2>3. CASE Writing(t)
    <3>1. WriteRest(kind, chan[t], todo'[t])
      BY <2>1, <2>3, WriteStep DEF Writing
    <3> QED
      BY <1>2, <2>1, <2>3, <3>1 DEF Writing
  <2> QED
    BY <2>2, <2>3 DEF CallInv
<1> QED
  BY <1>1, <1>2

(* What TypeOK says of the call a thread is in.                            *)
LEMMA ArgTyped ==
  ASSUME NEW t \in Threads, Head(todo[t]) \in Steps
  PROVE  Arg(t) \in 0 .. 7
  BY DEF Arg, Steps

(* The sample a thread takes is typed.                                     *)
LEMMA SampleTyped ==
  ASSUME TypeOK, NEW t \in Threads, NEW c \in 0 .. 7
  PROVE  Sample(c, t) \in Samples
  BY SensorAssumption DEF TypeOK, Sample, Samples

(* What stands for no sample, for a made-up one and for an error is typed. *)
LEMMA MarksTyped == Junk \in Samples /\ Error \in Samples /\ None \in Samples
  BY DEF Junk, Error, None, Samples

(* The steps keep the types and the places of the calls.                   *)
LEMMA TypeStep == TypeOK /\ CallInv /\ [Next]_vars => TypeOK' /\ CallInv'
<1> SUFFICES ASSUME TypeOK, CallInv, [Next]_vars PROVE TypeOK' /\ CallInv'
  OBVIOUS
<1>1. ASSUME NEW t \in Threads, Start(t) \/ Select(t) \/ Wait(t) PROVE TypeOK' /\ CallInv'
  <2>1. PICK h, n : /\ h = Head(todo[t]) /\ n = Len(todo[t]) /\ ~Idle(t) /\ Done(t)
                    /\ h.do \in {"start", "select", "poll", "delay"}
    BY <1>1 DEF Start, Select, Wait, Step
  <2>2. todo' \in [Threads -> Seq(Steps)] /\ \A u \in Threads : Len(todo'[u]) <= 7
    BY <2>1, AfterDone DEF TypeOK
  <2>3. Reading(t) /\ ~Writing(t) /\ Len(value[t]) = Samplings(kind, n - 1) /\ Arg(t) \in 0 .. 7
    BY <2>1, NextTransfer, ArgTyped
  <2>4. /\ conv' \in {conv, Sample(Arg(t), t)} /\ mux' \in {mux, Arg(t)} /\ value' = value
        /\ UNCHANGED <<kind, base, reg, staged, output, chan, tries, id, mine, faults, failed, overlap,
                       result, asked>>
    BY <1>1 DEF Start, Select, Wait, Same, NoFault
  <2>5. TypeOK'
    BY <2>2, <2>3, <2>4, SampleTyped DEF TypeOK
  <2> QED
    BY <2>1, <2>3, <2>4, <2>5, CallMoves
<1>2. ASSUME NEW t \in Threads, Exchange(t) \/ Transfer(t) \/ Fetch(t) PROVE TypeOK' /\ CallInv'
  <2>1. PICK h, n : /\ h = Head(todo[t]) /\ n = Len(todo[t]) /\ ~Idle(t) /\ Done(t)
                    /\ h.do \in {"exchange", "transfer", "fetch", "pollfetch"}
    BY <1>2 DEF Exchange, Transfer, Fetch, Step
  <2>2. todo' \in [Threads -> Seq(Steps)] /\ \A u \in Threads : Len(todo'[u]) <= 7
    BY <2>1, AfterDone DEF TypeOK
  <2>3. /\ Reading(t) /\ ~Writing(t) /\ Arg(t) \in 0 .. 7
        /\ Len(value[t]) <= 1 /\ Len(value[t]) + 1 = Samplings(kind, n - 1)
    BY <2>1, NextTransfer, ArgTyped
  <2>4. /\ value' \in [Threads -> Seq(Samples)] /\ \A u \in Threads : Len(value'[u]) <= 2
        /\ Len(value'[t]) = Samplings(kind, n - 1)
        /\ \A u \in Threads : u # t => value'[u] = value[u]
    <3>1. PICK s \in {reg, Sample(Arg(t), t)} : Got(t, s)
      BY <1>2 DEF Exchange, Transfer, Fetch
    <3>2. s \in Samples
      BY <2>3, SampleTyped DEF TypeOK
    <3> QED
      BY <2>3, <3>1, <3>2, AfterGot
  <2>5. /\ reg' \in {reg, Sample(mux, t)}
        /\ UNCHANGED <<kind, base, conv, mux, staged, output, chan, tries, id, mine, faults, failed,
                       overlap, result, asked>>
    BY <1>2 DEF Exchange, Transfer, Fetch, Same, NoFault
  <2>6. reg' \in Samples
    BY <2>5, SampleTyped DEF TypeOK
  <2>7. TypeOK'
    BY <2>2, <2>4, <2>5, <2>6 DEF TypeOK
  <2> QED
    BY <2>1, <2>3, <2>4, <2>5, <2>7, CallMoves
<1>3. ASSUME NEW t \in Threads, Stage(t) \/ Update(t) \/ Dac(t) \/ WriteFails(t) PROVE TypeOK' /\ CallInv'
  <2>1. PICK h, n : /\ h = Head(todo[t]) /\ n = Len(todo[t]) /\ ~Idle(t) /\ Done(t)
                    /\ h.do \in {"stage", "update", "dac"}
    BY <1>3 DEF Stage, Update, Dac, WriteFails, Step
  <2>2. todo' \in [Threads -> Seq(Steps)] /\ \A u \in Threads : Len(todo'[u]) <= 7
    BY <2>1, AfterDone DEF TypeOK
  <2>3. /\ Writing(t) /\ ~Reading(t) /\ Len(value[t]) = 0 /\ Arg(t) \in Outputs(kind)
        /\ h.do \in {"stage", "dac"} => h.v \in 0 .. 1
    BY <2>1, NextTransfer, WritePlacedHead DEF Arg
  <2>4. /\ value' = value
        /\ UNCHANGED <<kind, base, conv, reg, chan, tries, id, mine, overlap, result>>
    BY <1>3 DEF Stage, Update, Dac, WriteFails, Same
  <2>5. /\ staged' \in [Outputs(kind) -> 0 .. 1] /\ output' \in [Outputs(kind) -> 0 .. 1] /\ mux' \in 0 .. 7
        /\ faults' \in 0 .. MaxFaults /\ failed' \in [Threads -> BOOLEAN]
        /\ asked' \in [Outputs(kind) -> {Unknown, 0, 1}]
    <3>1. CASE Stage(t)
      BY <2>1, <2>3, <3>1 DEF Stage, Step, NoFault, TypeOK
    <3>2. CASE Update(t)
      BY <3>2 DEF Update, NoFault, TypeOK
    <3>3. CASE Dac(t)
      BY <2>1, <2>3, <3>3 DEF Dac, Step, NoFault, TypeOK
    <3>4. CASE WriteFails(t)
      <4>1. asked' \in [Outputs(kind) -> {Unknown, 0, 1}]
        BY <2>3, <3>4 DEF WriteFails, TypeOK
      <4>2. faults' \in 0 .. MaxFaults /\ failed' \in [Threads -> BOOLEAN]
        BY <3>4, SensorAssumption DEF WriteFails, Fault, TypeOK
      <4> QED
        BY <3>4, <4>1, <4>2 DEF WriteFails, TypeOK
    <3> QED
      BY <1>3, <3>1, <3>2, <3>3, <3>4
  <2>6. TypeOK'
    BY <2>2, <2>4, <2>5 DEF TypeOK
  <2> QED
    BY <2>1, <2>3, <2>4, <2>6, CallMoves
<1>4. ASSUME NEW t \in Threads, Attempt(t) \/ AttemptFails(t) PROVE TypeOK' /\ CallInv'
  <2>1. PICK h, n : h = Head(todo[t]) /\ n = Len(todo[t]) /\ h.do = "attempt" /\ ~Idle(t)
    BY <1>4 DEF Attempt, AttemptFails, Step
  <2>2. /\ Reading(t) /\ ~Writing(t) /\ Arg(t) \in 0 .. 7 /\ tries[t] < MaxTries
        /\ Len(value[t]) <= 1 /\ Len(value[t]) + 1 = Samplings(kind, n - 1)
    BY <2>1, NextTransfer, ArgTyped
  <2>3. /\ tries' \in [Threads -> 0 .. MaxTries] /\ tries'[t] = tries[t] + 1
        /\ faults' \in 0 .. MaxFaults /\ failed' \in [Threads -> BOOLEAN]
        /\ \A u \in Threads : u # t => tries'[u] = tries[u]
    <3>1. tries' = [tries EXCEPT ![t] = @ + 1] /\ tries \in [Threads -> 0 .. MaxTries]
      BY <1>4 DEF Attempt, AttemptFails, TypeOK
    <3>2. tries[t] + 1 \in 0 .. MaxTries
      BY <2>2, <3>1, SensorAssumption
    <3>3. faults' \in 0 .. MaxFaults /\ failed' \in [Threads -> BOOLEAN]
      <4>1. CASE UNCHANGED <<faults, failed>>
        BY <4>1 DEF TypeOK
      <4>2. CASE Fault(t)
        BY <4>2, SensorAssumption DEF Fault, TypeOK
      <4> QED
        BY <1>4, <4>1, <4>2 DEF Attempt, AttemptFails, NoFault
    <3> QED
      BY <3>1, <3>2, <3>3
  <2>4. /\ kind' = kind /\ chan' = chan
        /\ UNCHANGED <<base, conv, reg, mux, staged, output, id, mine, overlap, result, asked>>
    BY <1>4 DEF Attempt, AttemptFails, Same
  <2>5. CASE tries'[t] < MaxTries /\ UNCHANGED <<value, todo>>
    <3>1. TypeOK'
      BY <2>3, <2>4, <2>5 DEF TypeOK
    <3>2. CallInv'
      BY <2>3, <2>4, <2>5 DEF CallInv, Idle, Reading, Writing
    <3> QED
      BY <3>1, <3>2
  <2>6. ASSUME NEW smp \in {Sample(Arg(t), t), Error, Junk}, Got(t, smp), Done(t) PROVE TypeOK' /\ CallInv'
    <3>1. smp \in Samples
      BY <2>2, SampleTyped, MarksTyped
    <3>2. /\ value' \in [Threads -> Seq(Samples)] /\ \A u \in Threads : Len(value'[u]) <= 2
          /\ Len(value'[t]) = Samplings(kind, n - 1)
          /\ \A u \in Threads : u # t => value'[u] = value[u]
      BY <2>2, <2>6, <3>1, AfterGot
    <3>3. todo' \in [Threads -> Seq(Steps)] /\ \A u \in Threads : Len(todo'[u]) <= 7
      BY <2>1, <2>6, AfterDone DEF TypeOK
    <3>4. TypeOK'
      BY <2>3, <2>4, <3>2, <3>3 DEF TypeOK
    <3> QED
      BY <2>1, <2>2, <2>3, <2>4, <2>6, <3>2, <3>4, CallMoves
  <2> QED
    BY <1>4, <2>5, <2>6 DEF Attempt, AttemptFails
<1>5. ASSUME NEW t \in Threads, TransferFails(t) PROVE TypeOK' /\ CallInv'
  <2>1. PICK h, n : /\ h = Head(todo[t]) /\ n = Len(todo[t]) /\ ~Idle(t)
                    /\ h.do \in {"start", "select", "poll", "exchange", "transfer", "fetch", "pollfetch"}
    BY <1>5 DEF TransferFails, Step
  <2>2. /\ Reading(t) /\ ~Writing(t) /\ n \in Nat
        /\ h.do \in {"start", "select", "poll"} => Len(value[t]) = Samplings(kind, n - 1)
        /\ h.do \in {"exchange", "transfer", "fetch", "pollfetch"} =>
             Len(value[t]) <= 1 /\ Len(value[t]) + 1 = Samplings(kind, n - 1)
        /\ chan[t] \in Channels(kind)
        /\ Placed(kind, chan[t], n, h)
        /\ Len(value[t]) = Samplings(kind, n)
    <3>1. /\ Reading(t) /\ ~Writing(t) /\ n \in Nat
          /\ chan[t] \in Channels(kind)
          /\ Placed(kind, chan[t], n, h)
          /\ Len(value[t]) = Samplings(kind, n)
      BY <2>1, NextTransfer
    <3>2. /\ h.do \in {"start", "select", "poll"} => Len(value[t]) = Samplings(kind, n - 1)
          /\ h.do \in {"exchange", "transfer", "fetch", "pollfetch"} =>
               Len(value[t]) <= 1 /\ Len(value[t]) + 1 = Samplings(kind, n - 1)
      BY <2>1, NextTransfer
    <3> QED
      BY <3>1, <3>2
  <2>3. /\ kind' = kind /\ chan' = chan
        /\ UNCHANGED <<base, conv, reg, mux, staged, output, id, mine, overlap, result, asked, tries>>
        /\ faults' \in 0 .. MaxFaults /\ failed' \in [Threads -> BOOLEAN]
    BY <1>5, SensorAssumption DEF TransferFails, Same, Fault, TypeOK
  <2>4. CASE UNCHANGED <<value, todo>>
    <3>1. TypeOK'
      BY <2>3, <2>4 DEF TypeOK
    <3>2. CallInv'
      BY <2>3, <2>4 DEF CallInv, Idle, Reading, Writing
    <3> QED
      BY <3>1, <3>2
  <2>5. CASE h.do \in {"start", "select", "poll"} /\ Done(t) /\ UNCHANGED value
    <3>1. todo' \in [Threads -> Seq(Steps)] /\ \A u \in Threads : Len(todo'[u]) <= 7
      BY <2>1, <2>5, AfterDone DEF TypeOK
    <3>2. TypeOK'
      BY <2>3, <2>5, <3>1 DEF TypeOK
    <3> QED
      BY <2>1, <2>2, <2>3, <2>5, <3>2, CallMoves
  <2>6. CASE h.do \in {"exchange", "transfer", "fetch", "pollfetch"} /\ Done(t) /\ Got(t, Junk)
    <3>1. /\ value' \in [Threads -> Seq(Samples)] /\ \A u \in Threads : Len(value'[u]) <= 2
          /\ Len(value'[t]) = Samplings(kind, n - 1)
          /\ \A u \in Threads : u # t => value'[u] = value[u]
      BY <2>2, <2>6, MarksTyped, AfterGot
    <3>2. todo' \in [Threads -> Seq(Steps)] /\ \A u \in Threads : Len(todo'[u]) <= 7
      BY <2>1, <2>6, AfterDone DEF TypeOK
    <3>3. TypeOK'
      BY <2>3, <3>1, <3>2 DEF TypeOK
    <3> QED
      BY <2>1, <2>2, <2>3, <2>6, <3>1, <3>3, CallMoves
  <2>7. CASE kind \in Checks /\ todo' = [todo EXCEPT ![t] = <<Do("return", 0)>>] /\ Got(t, Error)
             /\ h.do \in {"start", "transfer", "fetch"}
    <3> DEFINE r == <<Do("return", 0)>>
    <3>1. Do("return", 0) \in Steps /\ r \in Seq(Steps) /\ Len(r) = 1 /\ r # <<>> /\ Head(r).do = "return"
      BY DoTyped DEF Do
    <3>2. Len(value[t]) = 0
      BY <2>2, <2>7 DEF Checks, Placed, Samplings, Do
    <3>3. /\ value' \in [Threads -> Seq(Samples)] /\ \A u \in Threads : Len(value'[u]) <= 2
          /\ Len(value'[t]) = 1
          /\ \A u \in Threads : u # t => value'[u] = value[u]
      <4>1. Len(value[t]) <= 1
        BY <3>2
      <4>2. /\ value' \in [Threads -> Seq(Samples)] /\ \A u \in Threads : Len(value'[u]) <= 2
            /\ Len(value'[t]) = Len(value[t]) + 1
            /\ \A u \in Threads : u # t => value'[u] = value[u]
        BY <2>7, <4>1, MarksTyped, AfterGot
      <4> QED
        BY <3>2, <4>2
    <3>4. /\ todo' \in [Threads -> Seq(Steps)] /\ todo'[t] = r
          /\ \A u \in Threads : u # t => todo'[u] = todo[u]
      BY <2>7, <3>1 DEF TypeOK
    <3>5. ASSUME NEW u \in Threads PROVE Len(todo'[u]) <= 7
      <4>1. CASE u = t
        <5>1. todo'[u] = <<Do("return", 0)>>
          BY <3>4, <4>1
        <5> QED
          BY <5>1
      <4>2. CASE u # t
        BY <3>4, <4>2 DEF TypeOK
      <4> QED
        BY <4>1, <4>2
    <3>6. TypeOK'
      BY <2>3, <3>3, <3>4, <3>5 DEF TypeOK
    <3>7. Reading(t)' /\ Len(value'[t]) = Samplings(kind, 1) /\ Head(todo'[t]).do # "attempt"
      BY <2>2, <2>3, <2>7, <3>1, <3>3, <3>4 DEF Reading, ReadRest, Samplings, Checks
    <3>8. CallInv'
      BY <2>3, <3>1, <3>3, <3>4, <3>7 DEF CallInv, Idle, Reading, Writing
    <3> QED
      BY <3>6, <3>8
  <2> QED
    BY <1>5, <2>1, <2>4, <2>5, <2>6, <2>7 DEF TransferFails, Step
<1>6. ASSUME NEW t \in Threads, Return(t) PROVE TypeOK' /\ CallInv'
  <2>1. PICK h, n : h = Head(todo[t]) /\ n = Len(todo[t]) /\ h.do = "return" /\ ~Idle(t) /\ Done(t)
    BY <1>6 DEF Return, Step
  <2>2. todo' \in [Threads -> Seq(Steps)] /\ \A u \in Threads : Len(todo'[u]) <= 7
    BY <2>1, AfterDone DEF TypeOK
  <2>3. /\ Reading(t) /\ n = 1 /\ chan[t] \in Channels(kind)
        /\ value[t] \in Seq(Samples) /\ Len(value[t]) = Samplings(kind, 1)
    BY <2>1, NextTransfer DEF TypeOK
  <2>4. PICK r \in Samples : result' = [result EXCEPT ![t] = r]
    <3>1. CASE kind = "bmp180"
      <4>1. Len(value[t]) = 2 /\ value[t][1] \in Samples /\ value[t][2] \in Samples
        BY <2>3, <3>1 DEF Samplings
      <4> QED
        <5>1. CASE chan[t] = 3
          BY <1>6, <3>1, <5>1, MarksTyped DEF Return
        <5>2. CASE chan[t] # 3
          <6>1. PICK i \in {1, 2} : i = Quantity(kind, chan[t]) + 1
            BY <3>1 DEF Quantity
          <6> QED
            BY <1>6, <3>1, <4>1, <5>2, <6>1 DEF Return
        <5> QED
          BY <5>1, <5>2
    <3>2. CASE kind # "bmp180"
      <4>1. value[t][Len(value[t])] \in Samples
        BY <2>3, <3>2 DEF Samplings
      <4> QED
        BY <1>6, <3>2, <4>1 DEF Return
    <3> QED
      BY <3>1, <3>2
  <2>5. UNCHANGED <<chip, chan, value, tries, id, mine, faults, failed, overlap, asked>>
    BY <1>6 DEF Return
  <2>6. TypeOK'
    BY <2>2, <2>4, <2>5 DEF chip, TypeOK
  <2> QED
    BY <2>1, <2>3, <2>5, <2>6, CallMoves DEF chip
<1>7. ASSUME Convert PROVE TypeOK' /\ CallInv'
  <2>1. TypeOK'
    BY <1>7, MarksTyped DEF Convert, TypeOK
  <2>2. CallInv'
    BY <1>7 DEF Convert, CallInv, Idle, Reading, Writing
  <2> QED
    BY <2>1, <2>2
<1>8. ASSUME NEW t \in Threads, NEW c, NEW steps \in Seq(Steps), Begin(t, c, steps),
              c \in 0 .. 7, Len(steps) <= 7, asked' \in [Outputs(kind) -> {Unknown, 0, 1}],
              \/ ReadRest(kind, c, steps) /\ Samplings(kind, Len(steps)) = 0
              \/ WriteRest(kind, c, steps)
       PROVE  TypeOK' /\ CallInv'
  <2>1. /\ todo' \in [Threads -> Seq(Steps)] /\ \A u \in Threads : Len(todo'[u]) <= 7
        /\ todo'[t] = steps /\ chan'[t] = c /\ \A u \in Threads : u # t => chan'[u] = chan[u] /\ todo'[u] = todo[u]
    BY <1>8 DEF Begin, TypeOK
  <2>2. /\ value' \in [Threads -> Seq(Samples)] /\ \A u \in Threads : Len(value'[u]) <= 2
        /\ Len(value'[t]) = 0 /\ \A u \in Threads : u # t => value'[u] = value[u]
    BY <1>8 DEF Begin, TypeOK
  <2>3. /\ tries' \in [Threads -> 0 .. MaxTries] /\ tries'[t] < MaxTries
        /\ \A u \in Threads : u # t => tries'[u] = tries[u]
    BY <1>8, SensorAssumption DEF Begin, TypeOK
  <2>4. TypeOK'
    <3>1. /\ id' \in 0 .. MaxCalls /\ mine' \in [Threads -> 0 .. MaxCalls]
          /\ chan' \in [Threads -> 0 .. 7]
      BY <1>8, SensorAssumption DEF Begin, TypeOK
    <3>2. /\ result' \in [Threads -> Samples] /\ failed' \in [Threads -> BOOLEAN]
          /\ overlap' \in [Threads -> BOOLEAN]
      BY <1>8, MarksTyped DEF Begin, TypeOK
    <3>3. UNCHANGED <<kind, base, conv, reg, mux, staged, output, faults>>
      BY <1>8 DEF Begin, chip
    <3> QED
      BY <1>8, <2>1, <2>2, <2>3, <3>1, <3>2, <3>3 DEF TypeOK
  <2>5. kind' = kind
    BY <1>8 DEF Begin, chip
  <2>6. CallInv'
    <3>1. \/ Reading(t)' /\ Len(value'[t]) = Samplings(kind, Len(todo'[t]))
          \/ Writing(t)' /\ Len(value'[t]) = 0
      BY <1>8, <2>1, <2>2, <2>5 DEF Reading, Writing
    <3>2. ASSUME NEW u \in Threads, u # t
          PROVE  /\ Idle(u)' = Idle(u) /\ Reading(u)' = Reading(u) /\ Writing(u)' = Writing(u)
                 /\ value'[u] = value[u] /\ tries'[u] = tries[u] /\ todo'[u] = todo[u]
      BY <2>1, <2>2, <2>3, <2>5, <3>2 DEF Idle, Reading, Writing
    <3> QED
      BY <2>3, <2>5, <3>1, <3>2 DEF CallInv
  <2> QED
    BY <2>4, <2>6
<1>9. ASSUME NEW t \in Threads, NEW c \in Channels(kind), analogRead(t, c) PROVE TypeOK' /\ CallInv'
  <2>1. Begin(t, c, Program(kind, c)) /\ asked' = asked
    BY <1>9, InputIs, SensorAssumption DEF analogRead, Program, TypeOK
  <2>2. /\ Program(kind, c) \in Seq(Steps) /\ Samplings(kind, Len(Program(kind, c))) = 0
        /\ 1 <= Len(Program(kind, c)) /\ Len(Program(kind, c)) <= 7
    BY Programs
  <2>3. ReadRest(kind, c, Program(kind, c))
    BY <2>2, RestAll DEF ReadRest
  <2>4. c \in 0 .. 7 /\ asked' \in [Outputs(kind) -> {Unknown, 0, 1}]
    BY <2>1 DEF Channels, TypeOK
  <2> QED
    BY <1>8, <2>1, <2>2, <2>3, <2>4
<1>10. ASSUME NEW t \in Threads, NEW c \in Outputs(kind), NEW v \in 0 .. 1, analogWrite(t, c, v)
       PROVE  TypeOK' /\ CallInv'
  <2>1. Begin(t, c, Writes(kind, c, v))
    BY <1>10 DEF analogWrite
  <2>2. c \in 0 .. 7 /\ asked' \in [Outputs(kind) -> {Unknown, 0, 1}]
    BY <1>10 DEF analogWrite, Outputs, TypeOK
  <2>3. /\ Writes(kind, c, v) \in Seq(Steps)
        /\ 1 <= Len(Writes(kind, c, v)) /\ Len(Writes(kind, c, v)) <= 7
    BY <2>2, WritesTyped
  <2>4. WriteRest(kind, c, Writes(kind, c, v))
    BY <2>3, RestAll DEF WriteRest
  <2> QED
    BY <1>8, <2>1, <2>2, <2>3, <2>4
<1>11. CASE UNCHANGED vars
  <2>1. TypeOK'
    BY <1>11 DEF vars, chip, TypeOK
  <2>2. CallInv'
    BY <1>11 DEF vars, chip, CallInv, Idle, Reading, Writing
  <2> QED
    BY <2>1, <2>2
<1> QED
  BY <1>1, <1>2, <1>3, <1>4, <1>5, <1>6, <1>7, <1>9, <1>10, <1>11
     DEF Next, ThreadStep, FaultStep

(* Nobody is in a call at first.                                           *)
LEMMA TypeInit == Init => TypeOK /\ CallInv
<1> SUFFICES ASSUME Init PROVE TypeOK /\ CallInv
  OBVIOUS
<1>1. todo = [t \in Threads |-> <<>>] /\ todo \in [Threads -> Seq(Steps)]
  BY DEF Init
<1>2. value = [t \in Threads |-> <<>>] /\ value \in [Threads -> Seq(Samples)]
  BY DEF Init
<1>3. ASSUME NEW t \in Threads PROVE Len(todo[t]) <= 7 /\ Len(value[t]) <= 2
  <2>1. todo[t] = <<>> /\ value[t] = <<>>
    BY <1>1, <1>2
  <2> QED
    BY <2>1
<1>4. TypeOK
  BY <1>1, <1>2, <1>3, SensorAssumption, MarksTyped DEF Init, TypeOK
<1>5. CallInv
  BY <1>1 DEF CallInv, Idle
<1> QED
  BY <1>4, <1>5

(* Whatever fails, a call's records stay in their types, and the call is   *)
(* somewhere in its driver's sequence of transfers.                        *)
THEOREM TypeCorrect == Spec => []TypeOK
<1>1. TypeOK /\ CallInv => TypeOK
  OBVIOUS
<1> QED
  BY <1>1, TypeInit, TypeStep, PTL DEF Spec

-----------------------------------------------------------------------------
(* A thread that reads, after its next transfer.                           *)
LEMMA ReadMoves ==
  ASSUME TypeOK, NEW t \in Threads, ~Idle(t), Done(t), Reading(t), kind' = kind, chan' = chan,
         NEW n, n = Len(todo[t]), NEW g, g = Head(todo'[t])
  PROVE  /\ Idle(t)' <=> n = 1
         /\ Len(todo'[t]) = n - 1
         /\ n # 1 => Reading(t)' /\ Placed(kind, chan[t], n - 1, g)
         /\ ~Idle(t)' => ~Writing(t)'
<1>1. /\ todo'[t] = Tail(todo[t]) /\ Len(todo'[t]) = Len(todo[t]) - 1
      /\ todo[t] \in Seq(Steps) /\ todo'[t] \in Seq(Steps)
      /\ Idle(t)' <=> Len(todo[t]) = 1
  BY AfterDone DEF TypeOK
<1>2. ASSUME n # 1 PROVE ReadRest(kind, chan[t], todo'[t])
  BY <1>1, <1>2, ReadStep DEF Reading, Idle
<1>3. ASSUME n # 1 PROVE Placed(kind, chan[t], n - 1, g) /\ Reading(t)' /\ ~Writing(t)'
  BY <1>1, <1>2, <1>3, ReadStep, ReadOrWrite DEF Reading, Writing
<1> QED
  BY <1>1, <1>3

(* Steps but those that begin a call leave the others alone.               *)
LEMMA AloneStep == TypeOK /\ CallInv /\ Alone /\ [Next]_vars => Alone'
<1> SUFFICES ASSUME TypeOK, CallInv, Alone, [Next]_vars PROVE Alone'
  OBVIOUS
<1>1. ASSUME NEW t \in Threads, NEW c, NEW steps, Begin(t, c, steps) PROVE Alone'
  <2>1. /\ \A u \in Threads : u # t => todo'[u] = todo[u]
        /\ overlap' = [u \in Threads |-> IF u = t THEN \E w \in Threads \ {t} : ~Idle(w)
                                        ELSE overlap[u] \/ ~Idle(u)]
    BY <1>1 DEF Begin, TypeOK
  <2> QED
    BY <2>1 DEF Alone, Idle
<1>2. ASSUME NEW t \in Threads, ThreadStep(t) \/ FaultStep(t) PROVE Alone'
  <2>1. ~Idle(t) /\ overlap' = overlap
    BY <1>2 DEF ThreadStep, FaultStep, Start, Select, Exchange, Transfer, Wait, Fetch, Attempt, Return,
                Stage, Update, Dac, AttemptFails, TransferFails, WriteFails, Step, Same
  <2>2. \A u \in Threads : u # t => todo'[u] = todo[u]
    BY <1>2 DEF ThreadStep, FaultStep, Start, Select, Exchange, Transfer, Wait, Fetch, Attempt, Return,
                Stage, Update, Dac, AttemptFails, TransferFails, WriteFails, Done, TypeOK
  <2> QED
    BY <2>1, <2>2 DEF Alone, Idle
<1>3. CASE UNCHANGED <<todo, overlap>>
  BY <1>3 DEF Alone, Idle
<1> QED
  BY <1>1, <1>2, <1>3 DEF Next, analogRead, analogWrite, Convert, vars

(* No read of pcf8591 starts a conversion that ends on its own.            *)
LEMMA NoConversionStep == TypeOK /\ CallInv /\ NoConversion /\ [Next]_vars => NoConversion'
<1> SUFFICES ASSUME TypeOK, CallInv, NoConversion, [Next]_vars PROVE NoConversion'
  OBVIOUS
<1>1. ASSUME NEW t \in Threads, Start(t) PROVE NoConversion'
  <2>1. PICK n, h : n = Len(todo[t]) /\ h = Head(todo[t]) /\ h.do = "start" /\ ~Idle(t)
    BY <1>1 DEF Start, Step
  <2>2. Placed(kind, chan[t], n, h)
    BY <2>1, NextTransfer
  <2>3. kind # "pcf8591"
    BY <2>1, <2>2 DEF Placed, Do
  <2> QED
    BY <1>1, <2>3 DEF Start, Same, NoConversion
<1>2. CASE UNCHANGED kind /\ conv' \in {conv, None}
  BY <1>2 DEF NoConversion
<1> QED
  BY <1>1, <1>2 DEF Next, ThreadStep, FaultStep, Select, Exchange, Transfer, Wait, Fetch, Attempt, Return,
       Stage, Update, Dac, AttemptFails, TransferFails, WriteFails, Same, analogRead, analogWrite, Begin,
       Convert, vars, chip

-----------------------------------------------------------------------------
(* A step of t is no business of the other threads: they are in no call,   *)
(* or no longer have the chip to themselves.                               *)
LEMMA FreshOthers ==
  ASSUME Alone, FreshInv, NEW t \in Threads, ~Idle(t), kind' = kind,
         \A u \in Threads : u # t =>
            UNCHANGED <<todo[u], failed[u], overlap[u], result[u], chan[u], mine[u]>>,
         Undisturbed(t)' => Fresh(t)'
  PROVE  FreshInv'
<1> SUFFICES ASSUME NEW u \in Threads, u # t, Undisturbed(u)' PROVE Fresh(u)'
  BY DEF FreshInv
<1>1. Idle(u) /\ Idle(u)' /\ Undisturbed(u)
  BY DEF Alone, Undisturbed, Idle
<1> QED
  BY <1>1 DEF FreshInv, Fresh, Own

(* What comes after what in the programs.                                  *)
LEMMA Follows ==
  ASSUME NEW k, NEW c \in Channels(k), NEW n \in Nat, NEW m \in Nat, NEW h, NEW g,
         n = m + 1, Placed(k, c, n, h), Placed(k, c, m, g)
  PROVE  /\ h.do = "start" => /\ g.do \in {"poll", "delay", "pollfetch"} /\ k # "pcf8591"
                              /\ h.c = Started(k, c, m)
                              /\ k = "bmp180" => n \in {7, 4}
         /\ h.do = "fetch" => IF k = "bmp180" THEN (n = 5 /\ g.do = "start") \/ (n = 2 /\ g.do = "return")
                              ELSE n = 2 /\ g.do = "return" /\ Started(k, c, n) = c /\ Quantity(k, c) = c
         /\ h.do = "pollfetch" => /\ k # "bmp180" /\ n = 2 /\ g.do = "return"
                                  /\ Started(k, c, n) = c /\ Quantity(k, c) = c
         /\ h.do = "select" => k = "pcf8591" /\ n = 4 /\ g.do = "exchange" /\ h.c = c
         /\ h.do = "exchange" => /\ k = "pcf8591" /\ Quantity(k, c) = c
                                 /\ \/ n = 3 /\ g.do = "exchange"
                                    \/ n = 2 /\ g.do = "return"
         /\ h.do = "transfer" => k # "bmp180" /\ n = 2 /\ g.do = "return" /\ h.c = Quantity(k, c)
         /\ h.do = "attempt" => k # "bmp180" /\ n = 2 /\ g.do = "return" /\ h.c = Quantity(k, c)
<1> USE DEF Placed, Do, Started, Quantity
<1>1. CASE k \in {"ads1115", "htu21d", "mcp3422"}
  BY <1>1
<1>2. CASE k \in {"mcp3002", "mcp3004", "max31855", "ds18b20", "rht03"}
  BY <1>2
<1>3. CASE k = "pcf8591"
  BY <1>3
<1>4. CASE k = "bmp180"
  BY <1>4
<1> QED
  BY <1>1, <1>2, <1>3, <1>4 DEF Channels

(* After the wait for a conversion comes its result.                       *)
LEMMA FollowsWait ==
  ASSUME NEW k, NEW c \in Channels(k), NEW n \in Nat, NEW m \in Nat, NEW h, NEW g,
         n = m + 1, Placed(k, c, n, h), Placed(k, c, m, g), h.do \in {"poll", "delay"}
  PROVE  /\ g.do = "fetch" /\ Started(k, c, n) = Started(k, c, m)
         /\ k = "bmp180" => n \in {6, 3}
<1> USE DEF Placed, Do, Started
<1>1. CASE k \in {"ads1115", "htu21d", "mcp3422"}
  BY <1>1
<1>2. CASE k \in {"mcp3002", "mcp3004", "max31855", "ds18b20", "rht03", "pcf8591"}
  BY <1>2
<1>3. CASE k = "bmp180"
  BY <1>3
<1> QED
  BY <1>1, <1>2, <1>3 DEF Channels

(* Transfers that give no sample ...                                       *)
LEMMA KnowsMore ==
  ASSUME NEW k, NEW c \in Channels(k), NEW n \in Nat, NEW m \in Nat, NEW h, NEW g,
         n = m + 1, Placed(k, c, n, h), Placed(k, c, m, g),
         NEW me, NEW cv, NEW rg, NEW mx, NEW v, Knows(k, c, me, n, h.do, cv, rg, mx, v)
  PROVE  /\ h.do = "start" => Knows(k, c, me, m, g.do, [chan |-> h.c, call |-> me], rg, mx, v)
         /\ h.do = "select" => Knows(k, c, me, m, g.do, cv, rg, h.c, v)
         /\ h.do \in {"poll", "delay"} /\ cv = None => Knows(k, c, me, m, g.do, cv, rg, mx, v)
<1>0. c # -1 /\ Started(k, c, n) # -1
  BY DEF Channels, Started
<1>1. CASE h.do = "start"
  BY <1>1, Follows DEF Knows
<1>2. CASE h.do = "select"
  BY <1>2, Follows DEF Knows
<1>3. CASE h.do \in {"poll", "delay"} /\ cv = None
  <2>1. [chan |-> Started(k, c, n), call |-> me] # None
    BY <1>0 DEF None
  <2>2. rg = [chan |-> Started(k, c, n), call |-> me]
    BY <1>3, <2>1 DEF Knows
  <2>3. g.do = "fetch" /\ Started(k, c, n) = Started(k, c, m) /\ (k = "bmp180" => n \in {6, 3})
    BY <1>3, FollowsWait
  <2>4. k = "bmp180" /\ m <= 4 => v[1] = [chan |-> 0, call |-> me]
    BY <2>3 DEF Knows
  <2> QED
    BY <1>3, <2>2, <2>3, <2>4 DEF Knows
<1> QED
  BY <1>1, <1>2, <1>3

(* ... and those that do: v are the samples before and w those after.      *)
LEMMA KnowsSample ==
  ASSUME NEW k, NEW c \in Channels(k), NEW n \in Nat, NEW m \in Nat, NEW h, NEW g,
         n = m + 1, Placed(k, c, n, h), Placed(k, c, m, g),
         NEW me, NEW cv, NEW rg, NEW mx, NEW v, Knows(k, c, me, n, h.do, cv, rg, mx, v),
         NEW w, Len(w) = Samplings(k, m), Len(w) = 2 => w[1] = v[1]
  PROVE  /\ h.do = "exchange" /\ w[Len(w)] = rg =>
              Knows(k, c, me, m, g.do, cv, [chan |-> mx, call |-> me], mx, w)
         /\ h.do \in {"transfer", "attempt"} /\ w[Len(w)] \in {[chan |-> h.c, call |-> me], Error} =>
              Knows(k, c, me, m, g.do, cv, rg, mx, w)
         /\ h.do = "fetch" /\ w[Len(w)] = rg => Knows(k, c, me, m, g.do, cv, rg, mx, w)
         /\ h.do = "pollfetch" /\ w[Len(w)] = rg /\ cv = None => Knows(k, c, me, m, g.do, cv, rg, mx, w)
<1>0. c # -1 /\ Started(k, c, n) # -1
  BY DEF Channels, Started
<1>1. CASE h.do = "exchange" /\ w[Len(w)] = rg
  BY <1>1, Follows DEF Knows
<1>2. CASE h.do \in {"transfer", "attempt"} /\ w[Len(w)] \in {[chan |-> h.c, call |-> me], Error}
  <2>1. k # "bmp180" /\ g.do = "return" /\ h.c = Quantity(k, c)
    BY <1>2, Follows
  <2> QED
    BY <2>1, <1>2 DEF Knows
<1>3. CASE h.do = "fetch" /\ w[Len(w)] = rg
  <2>1. CASE k = "bmp180" /\ n = 5
    <3>1. g.do = "start"
      BY <1>3, <2>1, Follows
    <3>2. m = 4 /\ Len(w) = 1
      BY <2>1 DEF Samplings
    <3>3. w[1] = [chan |-> 0, call |-> me]
      BY <1>3, <2>1, <3>2 DEF Knows, Started
    <3> QED
      BY <1>3, <2>1, <3>1, <3>2, <3>3 DEF Knows
  <2>2. CASE k = "bmp180" /\ n = 2
    <3>1. g.do = "return"
      BY <1>3, <2>2, Follows
    <3>2. m = 1 /\ Len(w) = 2
      BY <2>2 DEF Samplings
    <3>3. rg = [chan |-> 1, call |-> me] /\ v[1] = [chan |-> 0, call |-> me]
      BY <1>3, <2>2 DEF Knows, Started
    <3>4. w[2] = [chan |-> 1, call |-> me]
      BY <1>3, <3>2, <3>3
    <3>5. w[1] = [chan |-> 0, call |-> me]
      BY <3>2, <3>3
    <3> QED
      BY <2>2, <3>1, <3>2, <3>4, <3>5 DEF Knows
  <2>3. CASE k # "bmp180"
    BY <1>3, <2>3, Follows DEF Knows
  <2> QED
    BY <1>3, <2>1, <2>2, <2>3, Follows
<1>4. CASE h.do = "pollfetch" /\ w[Len(w)] = rg /\ cv = None
  BY <1>0, <1>4, Follows DEF Knows, None
<1> QED
  BY <1>1, <1>2, <1>3, <1>4

(* The sample a reader gets is the one its place in the program counts.    *)
LEMMA SampleGot ==
  ASSUME TypeOK, CallInv, NEW t \in Threads, ~Idle(t), NEW s \in Samples, Got(t, s),
         Head(todo[t]).do \in {"exchange", "transfer", "fetch", "pollfetch", "attempt"},
         NEW m \in Nat, Len(todo[t]) = m + 1
  PROVE  /\ Len(value'[t]) = Samplings(kind, m) /\ value'[t][Len(value'[t])] = s
         /\ Len(value'[t]) = 2 => value'[t][1] = value[t][1]
<1>0. PICK n, h : n = Len(todo[t]) /\ h = Head(todo[t])
  OBVIOUS
<1>1. h.do \in {"exchange", "transfer", "fetch", "pollfetch", "attempt"} =>
        Len(value[t]) <= 1 /\ Len(value[t]) + 1 = Samplings(kind, n - 1)
  BY <1>0, NextTransfer
<1>2. Len(value[t]) <= 1
  BY <1>0, <1>1
<1>3. Len(value[t]) + 1 = Samplings(kind, n - 1)
  BY <1>0, <1>1
<1>4. n - 1 = m
  BY <1>0
<1>5. PICK l \in Nat : l = Len(value[t])
  <2>1. value[t] \in Seq(Samples)
    BY DEF TypeOK
  <2> QED
    BY <2>1, LenProperties
<1>6. l + 1 = Samplings(kind, m)
  BY <1>3, <1>4, <1>5
<1>7. /\ Len(value'[t]) = Len(value[t]) + 1 /\ value'[t][Len(value'[t])] = s
      /\ Len(value[t]) = 1 => value'[t][1] = value[t][1]
  BY <1>2, AfterGot
<1>8. Len(value'[t]) = l + 1
  BY <1>5, <1>7
<1>9. l + 1 = 2 => l = 1
  OBVIOUS
<1> QED
  BY <1>5, <1>6, <1>7, <1>8, <1>9

(* A thread that reads goes on knowing if its transfer keeps what it knows. *)
LEMMA FreshReader ==
  ASSUME TypeOK, CallInv, Alone, FreshInv, NEW t \in Threads, ~Idle(t), Done(t),
         UNCHANGED <<kind, chan, mine, failed, overlap, result>>,
         Head(todo[t]).do \in {"start", "select", "poll", "delay", "exchange", "transfer", "fetch",
                               "pollfetch", "attempt"},
         \A n \in Nat, m \in Nat : \A h, g :
            /\ n = Len(todo[t]) /\ n = m + 1 /\ h = Head(todo[t])
            /\ chan[t] \in Channels(kind)
            /\ Placed(kind, chan[t], n, h) /\ Placed(kind, chan[t], m, g)
            /\ Knows(kind, chan[t], mine[t], n, h.do, conv, reg, mux, value[t])
            => Knows(kind, chan[t], mine[t], m, g.do, conv', reg', mux', value'[t])
  PROVE  FreshInv'
<1>1. PICK n, h, g : n = Len(todo[t]) /\ h = Head(todo[t]) /\ g = Head(todo'[t])
  OBVIOUS
<1>2. \A u \in Threads : u # t => todo'[u] = todo[u]
  BY AfterDone
<1>3. /\ Reading(t) /\ n \in Nat /\ n # 1 /\ n # 0 /\ Placed(kind, chan[t], n, h)
      /\ chan[t] \in Channels(kind)
  BY <1>1, NextTransfer
<1>4. ~Idle(t)' /\ Len(todo'[t]) = n - 1 /\ Placed(kind, chan[t], n - 1, g)
  BY <1>1, <1>3, ReadMoves
<1>5. PICK m \in Nat : n = m + 1 /\ Len(todo'[t]) = m /\ Placed(kind, chan[t], m, g)
  BY <1>3, <1>4
<1>6. ASSUME Undisturbed(t) PROVE Progress(t)'
  <2>1. Knows(kind, chan[t], mine[t], n, h.do, conv, reg, mux, value[t])
    BY <1>1, <1>3, <1>6 DEF FreshInv, Fresh, Progress
  <2>2. Knows(kind, chan[t], mine[t], m, g.do, conv', reg', mux', value'[t])
    BY <1>1, <1>3, <1>5, <2>1
  <2> QED
    BY <1>1, <1>5, <2>2 DEF Progress
<1> QED
  BY <1>2, <1>4, <1>6, FreshOthers DEF Undisturbed, Fresh

(* A thread that writes is in no reading.                                  *)
LEMMA FreshWriter ==
  ASSUME TypeOK, CallInv, Alone, FreshInv, NEW t \in Threads, ~Idle(t), Done(t),
         UNCHANGED <<kind, chan, mine, overlap, result>>, Writing(t), result[t] = None,
         \A u \in Threads : u # t => failed'[u] = failed[u]
  PROVE  FreshInv'
<1>1. \A u \in Threads : u # t => todo'[u] = todo[u]
  BY AfterDone
<1>2. ~Idle(t)' => ~Reading(t)'
  <2>1. todo'[t] = Tail(todo[t]) /\ todo[t] \in Seq(Steps) /\ todo'[t] \in Seq(Steps)
    BY AfterDone DEF TypeOK
  <2>2. todo'[t] = <<>> \/ WriteRest(kind, chan[t], todo'[t])
    BY <2>1, WriteStep DEF Writing
  <2> QED
    BY <2>1, <2>2, ReadOrWrite DEF Idle, Reading
<1> QED
  BY <1>1, <1>2, FreshOthers DEF Undisturbed, Fresh

(* A call that begins: those under way no longer have the chip alone.      *)
LEMMA FreshBegin ==
  ASSUME TypeOK, FreshInv, NEW t \in Threads, NEW c, NEW steps, Begin(t, c, steps), steps # <<>>,
         Reading(t)' => Progress(t)'
  PROVE  FreshInv'
<1> SUFFICES ASSUME NEW u \in Threads, Undisturbed(u)' PROVE Fresh(u)'
  BY DEF FreshInv
<1>1. CASE u = t
  <2>1. ~Idle(t)'
    BY DEF Begin, Idle, TypeOK
  <2> QED
    BY <1>1, <2>1 DEF Fresh
<1>2. CASE u # t
  <2>1. overlap'[u] = (overlap[u] \/ ~Idle(u)) /\ failed'[u] = failed[u]
    BY <1>2 DEF Begin, TypeOK
  <2>2. Idle(u) /\ Undisturbed(u)
    BY <2>1 DEF Undisturbed
  <2>3. Idle(u)' /\ UNCHANGED <<kind, result[u], chan[u], mine[u]>>
    BY <1>2, <2>2 DEF Begin, TypeOK, Idle, chip
  <2> QED
    BY <2>2, <2>3 DEF FreshInv, Fresh, Own
<1> QED
  BY <1>1, <1>2

(* A call that has the chip to itself and whose transfers all work knows   *)
(* what the chip holds for it.                                             *)
LEMMA FreshStep ==
  TypeOK /\ CallInv /\ Alone /\ NoConversion /\ Unreturned /\ FreshInv /\ [Next]_vars => FreshInv'
<1> SUFFICES ASSUME TypeOK, CallInv, Alone, NoConversion, Unreturned, FreshInv, [Next]_vars
             PROVE  FreshInv'
  OBVIOUS
<1>1. ASSUME NEW t \in Threads, Start(t) PROVE FreshInv'
  <2>1. /\ ~Idle(t) /\ Done(t) /\ Head(todo[t]).do = "start"
        /\ UNCHANGED <<kind, chan, mine, failed, overlap, result>>
    BY <1>1 DEF Start, Step, Same, NoFault
  <2>2. conv' = [chan |-> Head(todo[t]).c, call |-> mine[t]] /\ reg' = reg /\ mux' = mux /\ value' = value
    BY <1>1 DEF Start, Arg, Sample
  <2>3. ASSUME NEW n \in Nat, NEW m \in Nat, NEW h, NEW g,
               n = Len(todo[t]), n = m + 1, h = Head(todo[t]), chan[t] \in Channels(kind),
               Placed(kind, chan[t], n, h), Placed(kind, chan[t], m, g),
               Knows(kind, chan[t], mine[t], n, h.do, conv, reg, mux, value[t])
        PROVE  Knows(kind, chan[t], mine[t], m, g.do, conv', reg', mux', value'[t])
    BY <2>1, <2>2, KnowsMore, <2>3
  <2> QED
    BY <2>1, <2>3, FreshReader
<1>2. ASSUME NEW t \in Threads, Select(t) PROVE FreshInv'
  <2>1. /\ ~Idle(t) /\ Done(t) /\ Head(todo[t]).do = "select"
        /\ UNCHANGED <<kind, chan, mine, failed, overlap, result>>
    BY <1>2 DEF Select, Step, Same, NoFault
  <2>2. conv' = conv /\ reg' = reg /\ mux' = Head(todo[t]).c /\ value' = value
    BY <1>2 DEF Select, Arg, Sample
  <2>3. ASSUME NEW n \in Nat, NEW m \in Nat, NEW h, NEW g,
               n = Len(todo[t]), n = m + 1, h = Head(todo[t]), chan[t] \in Channels(kind),
               Placed(kind, chan[t], n, h), Placed(kind, chan[t], m, g),
               Knows(kind, chan[t], mine[t], n, h.do, conv, reg, mux, value[t])
        PROVE  Knows(kind, chan[t], mine[t], m, g.do, conv', reg', mux', value'[t])
    BY <2>1, <2>2, KnowsMore, <2>3
  <2> QED
    BY <2>1, <2>3, FreshReader
<1>3. ASSUME NEW t \in Threads, Wait(t) PROVE FreshInv'
  <2>1. /\ ~Idle(t) /\ Done(t) /\ Head(todo[t]).do \in {"poll", "delay"}
        /\ UNCHANGED <<kind, chan, mine, failed, overlap, result>>
    BY <1>3 DEF Wait, Step, Same, NoFault
  <2>2. conv = None /\ conv' = conv /\ reg' = reg /\ mux' = mux /\ value' = value
    BY <1>3 DEF Wait, Arg, Sample
  <2>3. ASSUME NEW n \in Nat, NEW m \in Nat, NEW h, NEW g,
               n = Len(todo[t]), n = m + 1, h = Head(todo[t]), chan[t] \in Channels(kind),
               Placed(kind, chan[t], n, h), Placed(kind, chan[t], m, g),
               Knows(kind, chan[t], mine[t], n, h.do, conv, reg, mux, value[t])
        PROVE  Knows(kind, chan[t], mine[t], m, g.do, conv', reg', mux', value'[t])
    BY <2>1, <2>2, KnowsMore, <2>3
  <2> QED
    BY <2>1, <2>3, FreshReader
<1>4. ASSUME NEW t \in Threads, Exchange(t) PROVE FreshInv'
  <2>1. /\ ~Idle(t) /\ Done(t) /\ Head(todo[t]).do = "exchange"
        /\ UNCHANGED <<kind, chan, mine, failed, overlap, result>>
    BY <1>4 DEF Exchange, Step, Same, NoFault
  <2>2. conv' = conv /\ reg' = [chan |-> mux, call |-> mine[t]] /\ mux' = mux
    BY <1>4 DEF Exchange, Arg, Sample
  <2>3. reg \in Samples /\ Got(t, reg)
    BY <1>4, <2>1, NextTransfer, ArgTyped, SampleTyped DEF Exchange, TypeOK
  <2>4. ASSUME NEW m \in Nat, Len(todo[t]) = m + 1
        PROVE  /\ Len(value'[t]) = Samplings(kind, m) /\ value'[t][Len(value'[t])] = reg
               /\ Len(value'[t]) = 2 => value'[t][1] = value[t][1]
    BY <2>1, <2>3, <2>4, SampleGot
  <2>5. ASSUME NEW n \in Nat, NEW m \in Nat, NEW h, NEW g,
               n = Len(todo[t]), n = m + 1, h = Head(todo[t]), chan[t] \in Channels(kind),
               Placed(kind, chan[t], n, h), Placed(kind, chan[t], m, g),
               Knows(kind, chan[t], mine[t], n, h.do, conv, reg, mux, value[t])
        PROVE  Knows(kind, chan[t], mine[t], m, g.do, conv', reg', mux', value'[t])
    <3>1. /\ Len(value'[t]) = Samplings(kind, m) /\ value'[t][Len(value'[t])] = reg
          /\ Len(value'[t]) = 2 => value'[t][1] = value[t][1]
      BY <2>4, <2>5
    <3>2. Knows(kind, chan[t], mine[t], m, g.do, conv, [chan |-> mux, call |-> mine[t]], mux, value'[t])
      BY <2>1, <2>2, <2>5, <3>1, KnowsSample
    <3> QED
      BY <2>2, <3>2
  <2> QED
    BY <2>1, <2>5, FreshReader
<1>5. ASSUME NEW t \in Threads, Transfer(t) PROVE FreshInv'
  <2>1. /\ ~Idle(t) /\ Done(t) /\ Head(todo[t]).do = "transfer"
        /\ UNCHANGED <<kind, chan, mine, failed, overlap, result>>
    BY <1>5 DEF Transfer, Step, Same, NoFault
  <2>2. conv' = conv /\ reg' = reg /\ mux' = mux
    BY <1>5 DEF Transfer, Arg, Sample
  <2>3. Sample(Arg(t), t) \in Samples /\ Got(t, Sample(Arg(t), t))
    BY <1>5, <2>1, NextTransfer, ArgTyped, SampleTyped DEF Transfer, TypeOK
  <2>4. ASSUME NEW m \in Nat, Len(todo[t]) = m + 1
        PROVE  /\ Len(value'[t]) = Samplings(kind, m) /\ value'[t][Len(value'[t])] = Sample(Arg(t), t)
               /\ Len(value'[t]) = 2 => value'[t][1] = value[t][1]
    BY <2>1, <2>3, <2>4, SampleGot
  <2>5. ASSUME NEW n \in Nat, NEW m \in Nat, NEW h, NEW g,
               n = Len(todo[t]), n = m + 1, h = Head(todo[t]), chan[t] \in Channels(kind),
               Placed(kind, chan[t], n, h), Placed(kind, chan[t], m, g),
               Knows(kind, chan[t], mine[t], n, h.do, conv, reg, mux, value[t])
        PROVE  Knows(kind, chan[t], mine[t], m, g.do, conv', reg', mux', value'[t])
    <3>1. /\ Len(value'[t]) = Samplings(kind, m) /\ value'[t][Len(value'[t])] = Sample(Arg(t), t)
          /\ Len(value'[t]) = 2 => value'[t][1] = value[t][1]
      BY <2>4, <2>5
    <3>2. Knows(kind, chan[t], mine[t], m, g.do, conv, reg, mux, value'[t])
      BY <2>1, <2>2, <2>5, <3>1, KnowsSample DEF Sample, Arg
    <3> QED
      BY <2>2, <3>2
  <2> QED
    BY <2>1, <2>5, FreshReader
<1>6. ASSUME NEW t \in Threads, Fetch(t) PROVE FreshInv'
  <2>1. /\ ~Idle(t) /\ Done(t) /\ Head(todo[t]).do \in {"fetch", "pollfetch"}
        /\ UNCHANGED <<kind, chan, mine, failed, overlap, result>>
    BY <1>6 DEF Fetch, Step, Same, NoFault
  <2>2. conv' = conv /\ reg' = reg /\ mux' = mux /\ (Head(todo[t]).do = "pollfetch" => conv = None)
    BY <1>6 DEF Fetch, Arg, Sample, Step
  <2>3. reg \in Samples /\ Got(t, reg)
    BY <1>6, <2>1, NextTransfer, ArgTyped, SampleTyped DEF Fetch, TypeOK
  <2>4. ASSUME NEW m \in Nat, Len(todo[t]) = m + 1
        PROVE  /\ Len(value'[t]) = Samplings(kind, m) /\ value'[t][Len(value'[t])] = reg
               /\ Len(value'[t]) = 2 => value'[t][1] = value[t][1]
    BY <2>1, <2>3, <2>4, SampleGot
  <2>5. ASSUME NEW n \in Nat, NEW m \in Nat, NEW h, NEW g,
               n = Len(todo[t]), n = m + 1, h = Head(todo[t]), chan[t] \in Channels(kind),
               Placed(kind, chan[t], n, h), Placed(kind, chan[t], m, g),
               Knows(kind, chan[t], mine[t], n, h.do, conv, reg, mux, value[t])
        PROVE  Knows(kind, chan[t], mine[t], m, g.do, conv', reg', mux', value'[t])
    <3>1. /\ Len(value'[t]) = Samplings(kind, m) /\ value'[t][Len(value'[t])] = reg
          /\ Len(value'[t]) = 2 => value'[t][1] = value[t][1]
      BY <2>4, <2>5
    <3>2. PICK w, v, k, c, me : /\ w = value'[t] /\ v = value[t] /\ k = kind /\ c = chan[t] /\ me = mine[t]
      OBVIOUS
    <3>3. Len(w) = Samplings(k, m) /\ w[Len(w)] = reg /\ (Len(w) = 2 => w[1] = v[1])
      BY <3>1, <3>2
    <3>4. /\ c \in Channels(k) /\ Placed(k, c, n, h) /\ Placed(k, c, m, g)
          /\ Knows(k, c, me, n, h.do, conv, reg, mux, v)
      BY <2>5, <3>2
    <3>5. /\ h.do = "fetch" => Knows(k, c, me, m, g.do, conv, reg, mux, w)
          /\ h.do = "pollfetch" /\ conv = None => Knows(k, c, me, m, g.do, conv, reg, mux, w)
      BY <2>5, <3>3, <3>4, KnowsSample
    <3>6. Knows(k, c, me, m, g.do, conv, reg, mux, w)
      BY <2>1, <2>2, <2>5, <3>5
    <3> QED
      BY <2>2, <3>2, <3>6
  <2> QED
    BY <2>1, <2>5, FreshReader
<1>7. ASSUME NEW t \in Threads, Stage(t) \/ Update(t) \/ Dac(t) \/ WriteFails(t) PROVE FreshInv'
  <2>1. /\ ~Idle(t) /\ Done(t) /\ Head(todo[t]).do \in {"stage", "update", "dac"}
        /\ UNCHANGED <<kind, chan, mine, overlap, result>>
        /\ \A u \in Threads : u # t => failed'[u] = failed[u]
    BY <1>7 DEF Stage, Update, Dac, WriteFails, Step, Same, NoFault, Fault, TypeOK
  <2>2. Writing(t)
    BY <2>1, NextTransfer
  <2> QED
    BY <2>1, <2>2, FreshWriter DEF Unreturned
<1>8. ASSUME NEW t \in Threads, Attempt(t) PROVE FreshInv'
  <2>1. /\ ~Idle(t) /\ Head(todo[t]).do = "attempt"
        /\ UNCHANGED <<kind, chan, mine, failed, overlap, result, conv, reg, mux>>
    BY <1>8 DEF Attempt, Step, Same, NoFault
  <2>2. CASE UNCHANGED <<value, todo>>
    BY <2>1, <2>2 DEF FreshInv, Undisturbed, Fresh, Idle, Reading, Progress, Own
  <2>3. ASSUME NEW s \in {Sample(Arg(t), t), Error}, Got(t, s), Done(t) PROVE FreshInv'
    <3>1. s \in Samples
      BY <2>1, NextTransfer, ArgTyped, SampleTyped, MarksTyped
    <3>2. ASSUME NEW m \in Nat, Len(todo[t]) = m + 1
          PROVE  /\ Len(value'[t]) = Samplings(kind, m) /\ value'[t][Len(value'[t])] = s
                 /\ Len(value'[t]) = 2 => value'[t][1] = value[t][1]
      BY <2>1, <2>3, <3>1, <3>2, SampleGot
    <3>3. ASSUME NEW n \in Nat, NEW m \in Nat, NEW h, NEW g,
                 n = Len(todo[t]), n = m + 1, h = Head(todo[t]), chan[t] \in Channels(kind),
                 Placed(kind, chan[t], n, h), Placed(kind, chan[t], m, g),
                 Knows(kind, chan[t], mine[t], n, h.do, conv, reg, mux, value[t])
          PROVE  Knows(kind, chan[t], mine[t], m, g.do, conv', reg', mux', value'[t])
      <4>1. /\ Len(value'[t]) = Samplings(kind, m)
            /\ Len(value'[t]) = 2 => value'[t][1] = value[t][1]
            /\ value'[t][Len(value'[t])] \in {[chan |-> h.c, call |-> mine[t]], Error}
        BY <3>2, <3>3 DEF Sample, Arg
      <4>2. Knows(kind, chan[t], mine[t], m, g.do, conv, reg, mux, value'[t])
        BY <2>1, <3>3, <4>1, KnowsSample
      <4> QED
        BY <2>1, <4>2
    <3> QED
      BY <2>1, <2>3, <3>3, FreshReader
  <2> QED
    BY <1>8, <2>2, <2>3 DEF Attempt
<1>9. ASSUME NEW t \in Threads, AttemptFails(t) \/ TransferFails(t) PROVE FreshInv'
  <2>1. /\ ~Idle(t) /\ UNCHANGED <<kind, chan, mine, overlap, result>>
        /\ failed' = [failed EXCEPT ![t] = TRUE]
    BY <1>9 DEF AttemptFails, TransferFails, Step, Same, Fault
  <2>2. \A u \in Threads : u # t => todo'[u] = todo[u]
    BY <1>9 DEF AttemptFails, TransferFails, Done, TypeOK
  <2>3. failed'[t] /\ \A u \in Threads : u # t => failed'[u] = failed[u]
    BY <2>1 DEF TypeOK
  <2> QED
    BY <2>1, <2>2, <2>3, FreshOthers DEF Undisturbed
<1>10. ASSUME NEW t \in Threads, Return(t) PROVE FreshInv'
  <2>1. PICK n, h : n = Len(todo[t]) /\ h = Head(todo[t]) /\ h.do = "return" /\ ~Idle(t) /\ Done(t)
    BY <1>10 DEF Return, Step
  <2>2. UNCHANGED <<kind, chan, mine, failed, overlap, value>>
    BY <1>10 DEF Return, chip
  <2>3. \A u \in Threads : u # t => todo'[u] = todo[u] /\ result'[u] = result[u]
    BY <1>10, <2>1, AfterDone DEF Return, TypeOK
  <2>4. Reading(t) /\ n = 1
    BY <2>1, NextTransfer
  <2>5. Idle(t)'
    BY <2>1, <2>4, AfterDone
  <2>6. ASSUME Undisturbed(t) PROVE result'[t] \in {Own(t), Error}
    <3>1. Knows(kind, chan[t], mine[t], 1, "return", conv, reg, mux, value[t])
      BY <2>1, <2>4, <2>6 DEF FreshInv, Fresh, Progress
    <3>2. CASE kind = "bmp180"
      <4>1. /\ value[t][1] = [chan |-> 0, call |-> mine[t]]
            /\ value[t][2] = [chan |-> 1, call |-> mine[t]]
        BY <3>1, <3>2 DEF Knows
      <4>2. result'[t] = IF chan[t] = 3 THEN Error ELSE value[t][Quantity(kind, chan[t]) + 1]
        BY <1>10, <3>2 DEF Return, TypeOK
      <4>3. Quantity(kind, chan[t]) = 0 \/ Quantity(kind, chan[t]) = 1
        BY <3>2 DEF Quantity
      <4> QED
        BY <4>1, <4>2, <4>3 DEF Own
    <3>3. CASE kind # "bmp180"
      <4>1. result'[t] = value[t][Len(value[t])]
        BY <1>10, <3>3 DEF Return, TypeOK
      <4> QED
        BY <3>1, <3>3, <4>1 DEF Knows, Own
    <3> QED
      BY <3>2, <3>3
  <2>7. Undisturbed(t)' => Fresh(t)'
    BY <2>2, <2>5, <2>6 DEF Undisturbed, Fresh, Own
  <2> QED
    BY <2>1, <2>2, <2>3, <2>7, FreshOthers
<1>11. ASSUME Convert PROVE FreshInv'
  <2> SUFFICES ASSUME NEW t \in Threads, Undisturbed(t)' PROVE Fresh(t)'
    BY DEF FreshInv
  <2>1. /\ UNCHANGED <<kind, todo, chan, value, mine, failed, overlap, result, mux>>
        /\ conv # None /\ reg' = conv /\ conv' = None
    BY <1>11 DEF Convert
  <2>2. Fresh(t)
    BY <2>1 DEF Undisturbed, FreshInv
  <2>3. ASSUME ~Idle(t), Reading(t) PROVE Progress(t)'
    <3>1. PICK n, h : n = Len(todo[t]) /\ h = Head(todo[t])
      OBVIOUS
    <3>2. Knows(kind, chan[t], mine[t], n, h.do, conv, reg, mux, value[t])
      BY <2>2, <2>3, <3>1 DEF Fresh, Progress
    <3>3. Placed(kind, chan[t], n, h)
      BY <2>3, <3>1, NextTransfer
    <3>4. h.do # "exchange"
      BY <2>1, <3>3 DEF Placed, Do, NoConversion
    <3>5. Knows(kind, chan[t], mine[t], n, h.do, conv', reg', mux, value[t])
      BY <2>1, <3>2, <3>4 DEF Knows
    <3> QED
      BY <2>1, <3>1, <3>5 DEF Progress
  <2> QED
    BY <2>1, <2>2, <2>3 DEF Fresh, Idle, Reading, Own
<1>12. ASSUME NEW t \in Threads, NEW c \in Channels(kind), analogRead(t, c) PROVE FreshInv'
  <2>1. Begin(t, c, Program(kind, c))
    BY <1>12, InputIs, SensorAssumption DEF analogRead, Program, TypeOK
  <2>2. PICK p : /\ p = Program(kind, c) /\ p \in Seq(Steps) /\ 2 <= Len(p)
                 /\ p[1].do \in {"start", "select", "transfer", "attempt"}
                 /\ kind = "bmp180" => Len(p) = 7
    BY Programs
  <2>3. todo'[t] = p /\ kind' = kind
    BY <2>1, <2>2 DEF Begin, chip, TypeOK
  <2>4. Head(p) = p[1] /\ p # <<>>
    BY <2>2
  <2>5. PICK n, do : n = Len(p) /\ do = Head(p).do
    OBVIOUS
  <2>6. do \in {"start", "select", "transfer", "attempt"} /\ (kind = "bmp180" => n = 7)
    BY <2>2, <2>4, <2>5
  <2>7. Knows(kind, chan'[t], mine'[t], n, do, conv', reg', mux', value'[t])
    BY <2>6 DEF Knows
  <2>8. Progress(t)'
    BY <2>3, <2>5, <2>7 DEF Progress
  <2> QED
    BY <2>1, <2>2, <2>4, <2>8, FreshBegin
<1>13. ASSUME NEW t \in Threads, NEW c \in Outputs(kind), NEW v \in 0 .. 1, analogWrite(t, c, v)
       PROVE  FreshInv'
  <2>1. Begin(t, c, Writes(kind, c, v))
    BY <1>13 DEF analogWrite
  <2>2. /\ Writes(kind, c, v) \in Seq(Steps) /\ 1 <= Len(Writes(kind, c, v))
        /\ WriteRest(kind, c, Writes(kind, c, v)) /\ Writes(kind, c, v) # <<>>
    <3>1. c \in 0 .. 7
      BY DEF Outputs
    <3>2. Writes(kind, c, v) \in Seq(Steps) /\ 1 <= Len(Writes(kind, c, v))
      BY <3>1, WritesTyped
    <3>3. Rest(Writes(kind, c, v), Writes(kind, c, v))
      BY <3>2, RestAll
    <3>4. Writes(kind, c, v) # <<>>
      BY <3>2
    <3> QED
      BY <3>2, <3>3, <3>4 DEF WriteRest
  <2>3. todo'[t] = Writes(kind, c, v) /\ chan'[t] = c /\ kind' = kind
    BY <2>1 DEF Begin, chip, TypeOK
  <2>4. ~Reading(t)'
    BY <2>2, <2>3, ReadOrWrite DEF Reading
  <2> QED
    BY <2>1, <2>2, <2>4, FreshBegin
<1>14. CASE UNCHANGED vars
  BY <1>14 DEF vars, chip, FreshInv, Undisturbed, Fresh, Idle, Reading, Progress, Own
<1> QED
  BY <1>1, <1>2, <1>3, <1>4, <1>5, <1>6, <1>7, <1>8, <1>9, <1>10, <1>11, <1>12, <1>13, <1>14
     DEF Next, ThreadStep, FaultStep

(* A call begins with no result, and returning ends it.                    *)
LEMMA UnreturnedStep == TypeOK /\ CallInv /\ Unreturned /\ [Next]_vars => Unreturned'
<1> SUFFICES ASSUME TypeOK, CallInv, Unreturned, [Next]_vars PROVE Unreturned'
  OBVIOUS
<1>1. ASSUME NEW t \in Threads, NEW c, NEW steps, Begin(t, c, steps) PROVE Unreturned'
  <2>1. result' = [result EXCEPT ![t] = None] /\ \A u \in Threads : u # t => todo'[u] = todo[u]
    BY <1>1 DEF Begin, TypeOK
  <2> QED
    BY <2>1 DEF Unreturned, Idle, TypeOK
<1>2. ASSUME NEW t \in Threads, ~Idle(t), result' = result,
             \A u \in Threads : u # t => todo'[u] = todo[u]
      PROVE  Unreturned'
  BY <1>2 DEF Unreturned, Idle
<1>3. ASSUME NEW t \in Threads, (ThreadStep(t) /\ ~Return(t)) \/ FaultStep(t) PROVE Unreturned'
  <2>1. ~Idle(t) /\ result' = result
    BY <1>3 DEF ThreadStep, FaultStep, Start, Select, Exchange, Transfer, Wait, Fetch, Attempt,
                Stage, Update, Dac, AttemptFails, TransferFails, WriteFails, Step, Same
  <2>2. \A u \in Threads : u # t => todo'[u] = todo[u]
    BY <1>3 DEF ThreadStep, FaultStep, Start, Select, Exchange, Transfer, Wait, Fetch, Attempt,
                Stage, Update, Dac, AttemptFails, TransferFails, WriteFails, Done, TypeOK
  <2> QED
    BY <1>2, <2>1, <2>2
<1>4. ASSUME NEW t \in Threads, Return(t) PROVE Unreturned'
  <2>1. PICK n, h : n = Len(todo[t]) /\ h = Head(todo[t]) /\ h.do = "return" /\ ~Idle(t) /\ Done(t)
    BY <1>4 DEF Return, Step
  <2>2. n = 1
    BY <2>1, NextTransfer
  <2>3. Idle(t)' /\ \A u \in Threads : u # t => todo'[u] = todo[u]
    BY <2>1, <2>2, AfterDone
  <2>4. \A u \in Threads : u # t => result'[u] = result[u]
    BY <1>4 DEF Return, TypeOK
  <2> QED
    BY <2>3, <2>4 DEF Unreturned, Idle
<1>5. CASE UNCHANGED <<todo, result>>
  BY <1>5 DEF Unreturned, Idle
<1> QED
  BY <1>1, <1>3, <1>4, <1>5 DEF Next, analogRead, analogWrite, Convert, vars

(* What the readings rest on.                                              *)
CallsKept == TypeOK /\ CallInv /\ Alone /\ NoConversion /\ Unreturned /\ FreshInv

(* It holds at first ...                                                   *)
LEMMA CallsInit == Init => CallsKept
<1> SUFFICES ASSUME Init PROVE CallsKept
  OBVIOUS
<1>1. TypeOK /\ CallInv
  BY TypeInit
<1>2. \A t \in Threads : Idle(t) /\ result[t] = None
  BY DEF Init, Idle
<1>3. Alone /\ Unreturned /\ FreshInv
  BY <1>2 DEF Alone, Unreturned, FreshInv, Fresh
<1>4. NoConversion
  BY DEF Init, NoConversion
<1> QED
  BY <1>1, <1>3, <1>4 DEF CallsKept

(* ... and every step keeps it.                                            *)
LEMMA CallsStep == CallsKept /\ [Next]_vars => CallsKept'
  BY TypeStep, AloneStep, NoConversionStep, UnreturnedStep, FreshStep DEF CallsKept

(* A reading is of the input that was asked for, from a conversion this    *)
(* call started, whatever the chip, the pin the node starts at and the     *)
(* calls before it, unless a transfer of the call failed or another thread *)
(* used the chip meanwhile.                                                *)
THEOREM ReadingsFresh == Spec => []FreshReading
<1>1. CallsKept => FreshReading
  <2> SUFFICES ASSUME CallsKept, NEW t \in Threads, result[t] # None, Undisturbed(t)
               PROVE  result[t] \in {Own(t), Error}
    BY DEF FreshReading, Undisturbed
  <2>1. Idle(t)
    BY DEF CallsKept, Unreturned
  <2> QED
    BY <2>1 DEF CallsKept, FreshInv, Fresh
<1> QED
  BY <1>1, CallsInit, CallsStep, PTL DEF Spec

-----------------------------------------------------------------------------
(* A step of a thread that is in no write before or after disturbs none.   *)
LEMMA OutputReader ==
  ASSUME OutputInv, NEW t \in Threads, UNCHANGED <<kind, chan, staged, output, asked>>,
         \A u \in Threads : u # t => todo'[u] = todo[u],
         ~Idle(t) => ~Writing(t), ~Idle(t)' => ~Writing(t)'
  PROVE  OutputInv'
<1>1. ASSUME NEW c, NEW u \in Threads
      PROVE  /\ Writes1(u, c)' <=> Writes1(u, c)
             /\ Writes1(u, c)' => todo'[u] = todo[u]
  BY DEF Writes1, Idle, Writing
<1> QED
  BY <1>1 DEF OutputInv

(* The transfers of a write of output c are at c, and a thread that stages *)
(* shows its value next.                                                   *)
LEMMA WriterMoves ==
  ASSUME TypeOK, CallInv, NEW t \in Threads, ~Idle(t), Done(t), Writing(t), kind' = kind, chan' = chan,
         NEW h, h = Head(todo[t]), NEW g, g = Head(todo'[t])
  PROVE  /\ chan[t] \in Outputs(kind) /\ h.c = chan[t]
         /\ h.do \in {"stage", "dac"} => h.v \in 0 .. 1
         /\ h.do = "stage" => ~Idle(t)' /\ Writing(t)' /\ g.do = "update" /\ kind = "sn3218"
         /\ h.do = "update" => Idle(t)' /\ kind = "sn3218"
         /\ h.do = "dac" => Idle(t)' /\ kind # "sn3218"
<1>1. PICK n : n = Len(todo[t])
  OBVIOUS
<1>2. WritePlaced(kind, chan[t], n, h) /\ chan[t] \in Outputs(kind) /\ n \in Nat
  BY <1>1, NextTransfer
<1>3. /\ h.c = chan[t]
      /\ h.do \in {"stage", "dac"} => h.v \in 0 .. 1
      /\ h.do = "stage" => n = 2 /\ kind = "sn3218"
      /\ h.do = "update" => kind = "sn3218" /\ n = 1
      /\ h.do = "dac" => kind # "sn3218" /\ n = 1
  BY <1>2, WritePlacedHead
<1>4. /\ todo'[t] = Tail(todo[t]) /\ Len(todo'[t]) = n - 1 /\ (Idle(t)' <=> n = 1)
      /\ todo[t] \in Seq(Steps) /\ todo'[t] \in Seq(Steps)
  BY <1>1, AfterDone DEF TypeOK
<1>5. ASSUME h.do = "stage" PROVE Writing(t)' /\ g.do = "update"
  <2>0. n = 2 /\ n - 1 = 1 /\ n # 1
    BY <1>3, <1>5
  <2>1. ~Idle(t)' /\ Len(todo'[t]) = 1
    BY <1>4, <2>0
  <2>2. WriteRest(kind, chan[t], todo'[t])
    BY <1>4, <2>1, WriteStep DEF Writing, Idle
  <2>3. WritePlaced(kind, chan[t], 1, g)
    BY <1>4, <2>1, <2>2, WriteStep
  <2>4. g.do = "update"
    BY <1>3, <1>5, <2>3 DEF WritePlaced, Do
  <2> QED
    BY <2>2, <2>4 DEF Writing
<1> QED
  BY <1>2, <1>3, <1>4, <1>5

(* A write of an output goes on alone or makes its result unknown, so what *)
(* it staged or is about to write stays what was asked for.                *)
LEMMA OutputStep == TypeOK /\ CallInv /\ OutputInv /\ [Next]_vars => OutputInv'
<1> SUFFICES ASSUME TypeOK, CallInv, OutputInv, [Next]_vars PROVE OutputInv'
  OBVIOUS
<1>1. ASSUME NEW t \in Threads, Done(t), ~Idle(t), UNCHANGED <<kind, chan, staged, output, asked>>,
             Head(todo[t]).do \in {"start", "select", "poll", "delay", "exchange", "transfer", "fetch",
                                   "pollfetch", "attempt", "return"}
      PROVE  OutputInv'
  <2>1. Reading(t) /\ ~Writing(t)
    BY <1>1, NextTransfer
  <2>2. ~Idle(t)' => ~Writing(t)'
    BY <1>1, <2>1, ReadMoves
  <2>3. \A u \in Threads : u # t => todo'[u] = todo[u]
    BY <1>1, AfterDone
  <2> QED
    BY <1>1, <2>1, <2>2, <2>3, OutputReader
<1>2. ASSUME UNCHANGED <<kind, chan, staged, output, asked, todo>> PROVE OutputInv'
  BY <1>2 DEF OutputInv, Writes1, Idle, Writing
<1>3. ASSUME NEW t \in Threads,
             \/ Start(t) \/ Select(t) \/ Exchange(t) \/ Transfer(t) \/ Wait(t) \/ Fetch(t) \/ Return(t)
      PROVE  OutputInv'
  <2>1. /\ Done(t) /\ ~Idle(t) /\ UNCHANGED <<kind, chan, staged, output, asked>>
        /\ Head(todo[t]).do \in {"start", "select", "poll", "delay", "exchange", "transfer", "fetch",
                                 "pollfetch", "attempt", "return"}
    BY <1>3 DEF Start, Select, Exchange, Transfer, Wait, Fetch, Return, Step, Same, chip
  <2> QED
    BY <1>1, <2>1
<1>4. ASSUME NEW t \in Threads, Attempt(t) \/ AttemptFails(t) PROVE OutputInv'
  <2>1. /\ Done(t) \/ UNCHANGED todo
        /\ ~Idle(t) /\ UNCHANGED <<kind, chan, staged, output, asked>>
        /\ Head(todo[t]).do = "attempt"
    BY <1>4 DEF Attempt, AttemptFails, Step, Same
  <2> QED
    BY <1>1, <1>2, <2>1
<1>5. ASSUME NEW t \in Threads, TransferFails(t) PROVE OutputInv'
  <2>1. ~Idle(t) /\ UNCHANGED <<kind, chan, staged, output, asked>>
    BY <1>5 DEF TransferFails, Step, Same
  <2>2. CASE kind \in Checks
    BY <2>1, <2>2 DEF OutputInv, Outputs, Checks
  <2>3. CASE kind \notin Checks
    <3>1. /\ Done(t) \/ UNCHANGED todo
          /\ Head(todo[t]).do \in {"start", "select", "poll", "exchange", "transfer", "fetch", "pollfetch"}
      BY <1>5, <2>3 DEF TransferFails, Step
    <3> QED
      BY <1>1, <1>2, <2>1, <3>1
  <2> QED
    BY <2>2, <2>3
<1>6. ASSUME NEW t \in Threads, Stage(t) \/ Update(t) \/ Dac(t) \/ WriteFails(t) PROVE OutputInv'
  <2>1. PICK h, g : /\ h = Head(todo[t]) /\ g = Head(todo'[t]) /\ ~Idle(t) /\ Done(t)
                    /\ h.do \in {"stage", "update", "dac"} /\ kind' = kind /\ chan' = chan
    BY <1>6 DEF Stage, Update, Dac, WriteFails, Step, Same
  <2>2. Writing(t)
    BY <2>1, NextTransfer
  <2>3. /\ chan[t] \in Outputs(kind) /\ h.c = chan[t]
        /\ h.do \in {"stage", "dac"} => h.v \in 0 .. 1
        /\ h.do = "stage" => ~Idle(t)' /\ Writing(t)' /\ g.do = "update" /\ kind = "sn3218"
        /\ h.do = "update" => Idle(t)' /\ kind = "sn3218"
        /\ h.do = "dac" => Idle(t)' /\ kind # "sn3218"
    BY <2>1, <2>2, WriterMoves
  <2>4. ASSUME NEW u \in Threads, u # t PROVE todo'[u] = todo[u]
    BY <2>1, <2>4, AfterDone
  <2>5. ASSUME NEW u \in Threads, u # t, NEW c PROVE Writes1(u, c)' <=> Writes1(u, c)
    BY <2>1, <2>4, <2>5 DEF Writes1, Idle, Writing
  <2>6. Writes1(t, chan[t]) /\ \A c : (Writes1(t, c) => c = chan[t]) /\ (Writes1(t, c)' => c = chan[t])
    BY <2>1, <2>2 DEF Writes1
  <2>7. CASE Stage(t)
    <3>1. staged' = [staged EXCEPT ![chan[t]] = h.v] /\ output' = output /\ asked' = asked
      BY <2>1, <2>3, <2>7 DEF Stage, Arg
    <3>2. h.do = "stage" /\ Writes1(t, chan[t])' /\ g.do = "update"
      BY <2>1, <2>3, <2>7 DEF Stage, Step, Writes1
    <3> SUFFICES ASSUME NEW c \in Outputs(kind), asked[c] # Unknown
                 PROVE  /\ \A u, w \in Threads : Writes1(u, c)' /\ Writes1(w, c)' => u = w
                        /\ \A u \in Threads : Writes1(u, c)' =>
                             IF Head(todo'[u]).do = "update" THEN staged'[c] = asked[c]
                             ELSE Head(todo'[u]).v = asked[c]
                        /\ (\A u \in Threads : ~Writes1(u, c)') =>
                             output'[c] = asked[c] /\ (kind = "sn3218" => staged'[c] = asked[c])
      BY <2>1, <3>1 DEF OutputInv
    <3>3. \A u \in Threads : Writes1(u, c)' => Writes1(u, c)
      BY <2>5, <2>6, <3>2
    <3>4. \A u, w \in Threads : Writes1(u, c)' /\ Writes1(w, c)' => u = w
      BY <3>3 DEF OutputInv
    <3>5. c \in DOMAIN output /\ c \in DOMAIN staged /\ chan[t] \in DOMAIN staged /\ chan[t] \in DOMAIN output
      BY <2>3 DEF TypeOK
    <3>6. CASE c = chan[t]
      <4>1. staged'[c] = h.v /\ h.v = asked[c]
        BY <2>1, <2>6, <3>1, <3>2, <3>5, <3>6 DEF OutputInv
      <4>2. \A u \in Threads : Writes1(u, c)' => u = t
        BY <2>6, <3>2, <3>3, <3>6 DEF OutputInv
      <4>3. ~(\A u \in Threads : ~Writes1(u, c)')
        BY <2>1, <3>2, <3>6 DEF Writes1, Writing, Idle
      <4> QED
        BY <2>1, <3>2, <3>4, <4>1, <4>2, <4>3
    <3>7. CASE c # chan[t]
      <4>1. staged'[c] = staged[c] /\ output'[c] = output[c]
        BY <3>1, <3>5, <3>7
      <4>2. \A u \in Threads : Writes1(u, c)' => todo'[u] = todo[u]
        BY <2>4, <2>6, <3>7
      <4>3. \A u \in Threads : Writes1(u, c)' <=> Writes1(u, c)
        BY <2>5, <2>6, <3>7
      <4> QED
        BY <3>4, <4>1, <4>2, <4>3 DEF OutputInv
    <3> QED
      BY <3>6, <3>7
  <2>8. CASE Update(t)
    <3>1. output' = staged /\ staged' = staged /\ asked' = asked
      BY <2>8 DEF Update
    <3>2. h.do = "update" /\ kind = "sn3218" /\ \A c : ~Writes1(t, c)'
      BY <2>1, <2>3, <2>8 DEF Update, Step, Writes1
    <3> SUFFICES ASSUME NEW c \in Outputs(kind), asked[c] # Unknown
                 PROVE  /\ \A u, w \in Threads : Writes1(u, c)' /\ Writes1(w, c)' => u = w
                        /\ \A u \in Threads : Writes1(u, c)' =>
                             IF Head(todo'[u]).do = "update" THEN staged'[c] = asked[c]
                             ELSE Head(todo'[u]).v = asked[c]
                        /\ (\A u \in Threads : ~Writes1(u, c)') =>
                             output'[c] = asked[c] /\ (kind = "sn3218" => staged'[c] = asked[c])
      BY <2>1, <3>1 DEF OutputInv
    <3>3. \A u \in Threads : Writes1(u, c)' => Writes1(u, c)
      BY <2>5, <2>6, <3>2
    <3>4. \A u, w \in Threads : Writes1(u, c)' /\ Writes1(w, c)' => u = w
      BY <3>3 DEF OutputInv
    <3>5. c \in DOMAIN output /\ c \in DOMAIN staged /\ chan[t] \in DOMAIN staged /\ chan[t] \in DOMAIN output
      BY <2>3 DEF TypeOK
    <3>6. \A u \in Threads : Writes1(u, c)' => todo'[u] = todo[u]
      BY <2>4, <3>2
    <3>7. ASSUME \A u \in Threads : ~Writes1(u, c)' PROVE staged[c] = asked[c]
      <4>1. CASE c = chan[t]
        BY <2>1, <2>6, <3>2, <4>1 DEF OutputInv
      <4>2. CASE c # chan[t]
        <5>1. \A u \in Threads : ~Writes1(u, c)
          BY <2>5, <2>6, <3>7, <4>2
        <5> QED
          BY <3>2, <5>1 DEF OutputInv
      <4> QED
        BY <4>1, <4>2
    <3> QED
      BY <3>1, <3>3, <3>4, <3>6, <3>7 DEF OutputInv
  <2>9. CASE Dac(t)
    <3>1. output' = [output EXCEPT ![chan[t]] = h.v] /\ staged' = staged /\ asked' = asked
      BY <2>1, <2>3, <2>9 DEF Dac, Arg
    <3>2. h.do = "dac" /\ kind # "sn3218" /\ \A c : ~Writes1(t, c)'
      BY <2>1, <2>3, <2>9 DEF Dac, Step, Writes1
    <3> SUFFICES ASSUME NEW c \in Outputs(kind), asked[c] # Unknown
                 PROVE  /\ \A u, w \in Threads : Writes1(u, c)' /\ Writes1(w, c)' => u = w
                        /\ \A u \in Threads : Writes1(u, c)' =>
                             IF Head(todo'[u]).do = "update" THEN staged'[c] = asked[c]
                             ELSE Head(todo'[u]).v = asked[c]
                        /\ (\A u \in Threads : ~Writes1(u, c)') =>
                             output'[c] = asked[c] /\ (kind = "sn3218" => staged'[c] = asked[c])
      BY <2>1, <3>1 DEF OutputInv
    <3>3. \A u \in Threads : Writes1(u, c)' => Writes1(u, c)
      BY <2>5, <2>6, <3>2
    <3>4. \A u, w \in Threads : Writes1(u, c)' /\ Writes1(w, c)' => u = w
      BY <3>3 DEF OutputInv
    <3>5. c \in DOMAIN output /\ c \in DOMAIN staged /\ chan[t] \in DOMAIN staged /\ chan[t] \in DOMAIN output
      BY <2>3 DEF TypeOK
    <3>6. \A u \in Threads : Writes1(u, c)' => todo'[u] = todo[u]
      BY <2>4, <3>2
    <3>7. ASSUME \A u \in Threads : ~Writes1(u, c)' PROVE output'[c] = asked[c]
      <4>1. CASE c = chan[t]
        BY <2>1, <2>6, <3>1, <3>2, <3>5, <4>1 DEF OutputInv
      <4>2. CASE c # chan[t]
        <5>1. \A u \in Threads : ~Writes1(u, c)
          BY <2>5, <2>6, <3>7, <4>2
        <5> QED
          BY <3>1, <3>5, <4>2, <5>1 DEF OutputInv
      <4> QED
        BY <4>1, <4>2
    <3> QED
      BY <3>1, <3>2, <3>3, <3>4, <3>6, <3>7 DEF OutputInv
  <2>10. CASE WriteFails(t)
    <3>1. asked' = [asked EXCEPT ![chan[t]] = Unknown] /\ staged' = staged /\ output' = output
      BY <2>1, <2>3, <2>10 DEF WriteFails, Arg
    <3>2. \A c \in Outputs(kind) : asked'[c] # Unknown => c # chan[t] /\ asked'[c] = asked[c]
      BY <2>3, <3>1 DEF TypeOK
    <3> QED
      BY <2>1, <2>4, <2>5, <2>6, <3>1, <3>2 DEF OutputInv
  <2> QED
    BY <1>6, <2>7, <2>8, <2>9, <2>10
<1>7. ASSUME NEW t \in Threads, NEW c \in Channels(kind), analogRead(t, c) PROVE OutputInv'
  <2>1. Begin(t, c, Program(kind, c)) /\ asked' = asked
    BY <1>7, InputIs, SensorAssumption DEF analogRead, Program, TypeOK
  <2>2. Idle(t) /\ UNCHANGED <<kind, staged, output>>
    BY <2>1 DEF Begin, chip
  <2>3. todo'[t] = Program(kind, c) /\ chan'[t] = c
    BY <2>1 DEF Begin, TypeOK
  <2>4. ASSUME NEW u \in Threads, u # t PROVE todo'[u] = todo[u] /\ chan'[u] = chan[u]
    BY <2>1, <2>4 DEF Begin, TypeOK
  <2>5. Program(kind, c) \in Seq(Steps) /\ ReadRest(kind, c, Program(kind, c))
    <3>1. Program(kind, c) \in Seq(Steps) /\ 1 <= Len(Program(kind, c))
      BY Programs
    <3> QED
      BY <3>1, RestAll DEF ReadRest
  <2>6. ~Writing(t)'
    BY <2>2, <2>3, <2>5, ReadOrWrite DEF Writing
  <2>7. ASSUME NEW d, NEW u \in Threads
        PROVE  /\ Writes1(u, d)' <=> Writes1(u, d)
               /\ Writes1(u, d)' => todo'[u] = todo[u]
    <3>1. CASE u = t
      BY <2>2, <2>6, <3>1 DEF Writes1
    <3>2. CASE u # t
      BY <2>2, <2>4, <3>2 DEF Writes1, Idle, Writing
    <3> QED
      BY <3>1, <3>2
  <2> QED
    BY <2>1, <2>2, <2>7 DEF OutputInv
<1>8. ASSUME NEW t \in Threads, NEW c \in Outputs(kind), NEW v \in 0 .. 1, analogWrite(t, c, v)
      PROVE  OutputInv'
  <2>1. Begin(t, c, Writes(kind, c, v))
    BY <1>8 DEF analogWrite
  <2>2. Idle(t) /\ UNCHANGED <<kind, staged, output>>
    BY <2>1 DEF Begin, chip
  <2>3. todo'[t] = Writes(kind, c, v) /\ chan'[t] = c
    BY <2>1 DEF Begin, TypeOK
  <2>4. ASSUME NEW u \in Threads, u # t PROVE todo'[u] = todo[u] /\ chan'[u] = chan[u]
    BY <2>1, <2>4 DEF Begin, TypeOK
  <2>5. asked' = [asked EXCEPT ![c] = IF \E u \in Threads : ~Idle(u) /\ chan[u] = c THEN Unknown ELSE v]
    BY <1>8 DEF analogWrite
  <2>6. ASSUME NEW u \in Threads, u # t, NEW d PROVE Writes1(u, d)' <=> Writes1(u, d)
    BY <2>2, <2>4, <2>6 DEF Writes1, Idle, Writing
  <2>7. \A d : ~Writes1(t, d) /\ (Writes1(t, d)' => d = c)
    BY <2>2, <2>3 DEF Writes1
  <2>8. ASSUME asked'[c] # Unknown
        PROVE  /\ asked'[c] = v /\ \A u \in Threads : ~Writes1(u, c)
               /\ Writes1(t, c)' /\ Head(todo'[t]).do # "update" /\ Head(todo'[t]).v = v
    <3>1. c \in 0 .. 7
      BY DEF Outputs
    <3>2. Writes(kind, c, v) \in Seq(Steps) /\ 1 <= Len(Writes(kind, c, v)) /\ Writes(kind, c, v) # <<>>
      BY <3>1, WritesTyped
    <3>3. Writing(t)' /\ ~Idle(t)'
      BY <2>2, <2>3, <3>2, RestAll DEF Writing, WriteRest, Idle
    <3>4. asked'[c] = v /\ \A u \in Threads : ~Writes1(u, c)
      BY <2>5, <2>8 DEF Writes1, TypeOK
    <3>5. Head(Writes(kind, c, v)).do # "update" /\ Head(Writes(kind, c, v)).v = v
      BY DEF Writes, Set
    <3> QED
      BY <2>3, <3>3, <3>4, <3>5 DEF Writes1
  <2>9. ASSUME NEW d \in Outputs(kind), d # c PROVE asked'[d] = asked[d]
    BY <2>5, <2>9 DEF TypeOK
  <2>10. ASSUME NEW d \in Outputs(kind), asked'[d] # Unknown, d # c
         PROVE  /\ \A u, w \in Threads : Writes1(u, d)' /\ Writes1(w, d)' => u = w
                /\ \A u \in Threads : Writes1(u, d)' =>
                     IF Head(todo'[u]).do = "update" THEN staged'[d] = asked'[d]
                     ELSE Head(todo'[u]).v = asked'[d]
                /\ (\A u \in Threads : ~Writes1(u, d)') =>
                     output'[d] = asked'[d] /\ (kind' = "sn3218" => staged'[d] = asked'[d])
    BY <2>2, <2>4, <2>6, <2>7, <2>9, <2>10 DEF OutputInv
  <2>11. ASSUME asked'[c] # Unknown
         PROVE  /\ \A u, w \in Threads : Writes1(u, c)' /\ Writes1(w, c)' => u = w
                /\ \A u \in Threads : Writes1(u, c)' =>
                     IF Head(todo'[u]).do = "update" THEN staged'[c] = asked'[c]
                     ELSE Head(todo'[u]).v = asked'[c]
                /\ \E u \in Threads : Writes1(u, c)'
    BY <2>6, <2>8, <2>11
  <2> QED
    BY <2>2, <2>10, <2>11 DEF OutputInv
<1> QED
  BY <1>2, <1>3, <1>4, <1>5, <1>6, <1>7, <1>8
     DEF Next, ThreadStep, FaultStep, Convert, vars, chip

(* When nobody is in a call every output is as it was last written,        *)
(* whatever other outputs and inputs of the chip were used meanwhile,      *)
(* except where a write failed or raced another use of that channel.       *)
THEOREM OutputsAsWritten == Spec => []OutputAsWritten
<1> DEFINE I == TypeOK /\ CallInv /\ OutputInv
<1>1. Init => I
  <2> SUFFICES ASSUME Init PROVE I
    OBVIOUS
  <2>1. \A t \in Threads : Idle(t)
    BY DEF Init, Idle
  <2> QED
    BY <2>1, TypeInit DEF Init, OutputInv, Writes1
<1>2. I /\ [Next]_vars => I'
  BY TypeStep, OutputStep
<1>3. I => OutputAsWritten
  BY DEF OutputAsWritten, OutputInv, Writes1
<1> QED
  BY <1>1, <1>2, <1>3, PTL DEF Spec

=============================================================================
