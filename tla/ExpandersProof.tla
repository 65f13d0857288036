--------------------------- MODULE ExpandersProof ---------------------------
(***************************************************************************)
(* Proofs about Expanders for every set of chips, any number of bits in a  *)
(* bank, of threads, of calls and of lost transactions.                    *)
(***************************************************************************)
EXTENDS Expanders, FiniteSetTheorems, TLAPS

(* Changing one bit of a register gives a register.                        *)
LEMMA WithTyped ==
  ASSUME NEW set \in SUBSET Bits, NEW bit \in Bits, NEW on
  PROVE  With(set, bit, on) \in SUBSET Bits
BY DEF With

(* The setup functions leave a well-typed state, whatever they read.       *)
LEMMA InitTyped == Init => TypeOK
<1> SUFFICES ASSUME Init PROVE TypeOK
  OBVIOUS
<1> USE ExpanderAssumption DEF Bits
<1>1. PICK k \in Kinds, latches \in Left, ok \in BOOLEAN : Setup(k, latches, ok)
  BY DEF Init
<1>2. kind \in Kinds /\ out = All(latches) /\ readOk = All(ok)
  BY <1>1 DEF Setup
<1>3. out \in [Banks -> SUBSET Bits] /\ readOk \in [Banks -> BOOLEAN]
  BY <1>2 DEF All
<1>4. shadow \in [Banks -> SUBSET Bits]
  <2>1. CASE k = "sr595"
    BY <1>1, <2>1 DEF Setup, All
  <2>2. CASE k # "sr595" /\ ~ok
    BY <1>1, <2>2 DEF Setup, All, FailedRead
  <2>3. CASE k = "pcf8574" /\ ok
    BY <1>1, <2>3 DEF Setup, All
  <2>4. CASE k \notin {"sr595", "pcf8574"} /\ ok
    BY <1>1, <1>3, <2>4 DEF Setup
  <2> QED
    BY <2>1, <2>2, <2>3, <2>4
<1>5. writeOk \in [Banks -> BOOLEAN]
  BY <1>1 DEF Setup
<1>6. asked = [level |-> shadow, dir |-> All(Bits), pullup |-> All({})]
  BY <1>1 DEF Setup
<1>7. dir = All(Bits) /\ pullup = All({}) /\ shift = {} /\ faults = 0 /\ calls = 0
      /\ call = [t \in Threads |-> NoCall] /\ old = [t \in Threads |-> {}]
  BY DEF Init
<1>8. All(Bits) \in [Banks -> SUBSET Bits] /\ All({}) \in [Banks -> SUBSET Bits]
  BY DEF All
<1>9. NoCall \in CallRecords
  BY DEF NoCall, CallRecords, Places, Banks
<1> QED
  BY <1>2, <1>3, <1>4, <1>5, <1>6, <1>7, <1>8, <1>9 DEF TypeOK, CallRecords, Settings

(* What the start of a call does to the calls.                             *)
LEMMA BeginTyped ==
  ASSUME TypeOK, NEW t \in Threads, NEW op \in {"digitalWrite", "dir", "pullup"},
         NEW at \in {"shadow", "read"}, NEW bank \in Banks, NEW bit \in Bits, NEW on \in BOOLEAN,
         Begin(t, op, at, bank, bit, on)
  PROVE  /\ call' = [call EXCEPT ![t] = [op |-> op, at |-> at, bank |-> bank, bit |-> bit, on |-> on]]
         /\ call' \in [Threads -> CallRecords]
         /\ calls' \in 0 .. MaxCalls
BY ExpanderAssumption DEF Begin, TypeOK, CallRecords, Places

(* What a step of a call does to the calls: only its own moves.            *)
LEMMA AtTyped ==
  ASSUME TypeOK, NEW t \in Threads, NEW from, NEW to \in Places, At(t, from, to)
  PROVE  /\ call' \in [Threads -> CallRecords]
         /\ call[t].at = from
         /\ \A u \in Threads : u # t => call'[u] = call[u]
         /\ to = "idle" => call'[t] = NoCall
         /\ to # "idle" => call'[t] = [call[t] EXCEPT !.at = to]
<1> USE ExpanderAssumption DEF TypeOK, CallRecords, At
<1>1. CASE to = "idle"
  <2>1. NoCall \in CallRecords
    BY DEF NoCall, CallRecords, Places, Banks, Bits
  <2> QED
    BY <1>1, <2>1
<1>2. CASE to # "idle"
  BY <1>2
<1> QED
  BY <1>1, <1>2

(* Every step keeps the types: in particular the bit the sr595 counts down *)
(* stays within the bank, and so does what is shifted.                     *)
LEMMA StepTyped == TypeOK /\ [Next]_vars => TypeOK'
<1> SUFFICES ASSUME TypeOK, [Next]_vars PROVE TypeOK'
  OBVIOUS
<1>1. ASSUME NEW t \in Threads, NEW bank \in Banks, NEW bit \in Bits, NEW on \in BOOLEAN
      PROVE  /\ digitalWrite(t, bank, bit, on) => TypeOK'
             /\ pinMode(t, bank, bit, on) => TypeOK'
             /\ pullUpDnControl(t, bank, bit, on) => TypeOK'
  <2>1. ASSUME NEW op \in {"digitalWrite", "dir", "pullup"}, NEW at \in {"shadow", "read"},
               Begin(t, op, at, bank, bit, on), asked' \in Settings
        PROVE  TypeOK'
    BY <2>1, BeginTyped DEF Begin, TypeOK, CallRecords, Settings
  <2>2. \A set \in SUBSET Bits : With(set, bit, on) \in SUBSET Bits
    BY DEF With
  <2>3. [asked EXCEPT !.level[bank] = With(@, bit, on)] \in Settings
    BY <2>2 DEF TypeOK, CallRecords, Settings
  <2>4. [asked EXCEPT !.dir[bank] = With(@, bit, on)] \in Settings
    BY <2>2 DEF TypeOK, CallRecords, Settings
  <2>5. [asked EXCEPT !.pullup[bank] = With(@, bit, on)] \in Settings
    BY <2>2 DEF TypeOK, CallRecords, Settings
  <2> QED
    BY <2>1, <2>3, <2>4, <2>5 DEF digitalWrite, pinMode, pullUpDnControl
<1>2. ASSUME NEW t \in Threads, ReadShadow(t) PROVE TypeOK'
  <2>1. With(shadow[call[t].bank], call[t].bit, call[t].on) \in SUBSET Bits
    BY WithTyped DEF TypeOK, CallRecords, Settings
  <2>2. At(t, "shadow", IF kind = "sr595" THEN "store" ELSE "bus")
    BY <1>2 DEF ReadShadow
  <2> QED
    BY <1>2, <2>1, <2>2, AtTyped DEF ReadShadow, TypeOK, CallRecords, Places
<1>3. ASSUME NEW t \in Threads, BusWrite(t) PROVE TypeOK'
  <2>1. faults' \in 0 .. MaxFaults
    <3>1. faults' = faults \/ (faults < MaxFaults /\ faults' = faults + 1)
      BY <1>3 DEF BusWrite
    <3> QED
      BY <3>1, ExpanderAssumption DEF TypeOK, CallRecords, Settings
  <2>2. out' \in [Banks -> SUBSET Bits]
    BY <1>3 DEF BusWrite, TypeOK
  <2>3. writeOk' \in [Banks -> BOOLEAN]
    BY <1>3 DEF BusWrite, TypeOK
  <2>4. At(t, "bus", "store") /\ UNCHANGED <<kind, calls, dir, pullup, shift, shadow, old, readOk, asked>>
    BY <1>3 DEF BusWrite
  <2> QED
    BY <2>1, <2>2, <2>3, <2>4, AtTyped DEF TypeOK, CallRecords, Places
<1>4. ASSUME NEW t \in Threads, Store(t) PROVE TypeOK'
  BY <1>4, AtTyped DEF Store, TypeOK, CallRecords, Places
<1>5. ASSUME NEW t \in Threads, LatchLow(t) PROVE TypeOK'
  <2>1. call' = [call EXCEPT ![t].at = "shift", ![t].bit = Top]
    BY <1>5 DEF LatchLow
  <2>2. Top \in Bits
    BY ExpanderAssumption DEF Bits
  <2>3. call' \in [Threads -> CallRecords]
    <3> DEFINE rec == [call[t] EXCEPT !.at = "shift",
                                     !.bit = Top]
    <3>1. call' = [call EXCEPT ![t] = rec]
      BY <2>1, <2>2 DEF TypeOK, CallRecords, Settings
    <3>2. rec \in CallRecords
      BY <2>1, <2>2 DEF TypeOK, CallRecords, Places
    <3> HIDE DEF rec
    <3> QED
      BY <3>1, <3>2 DEF TypeOK, CallRecords, Settings
  <2> QED
    BY <1>5, <2>3 DEF LatchLow, TypeOK
<1>6. ASSUME NEW t \in Threads, ShiftBit(t) PROVE TypeOK'
  <2>1. shift' = {i + 1 : i \in shift \ {Top}} \cup (IF call[t].bit \in old[t] THEN {0} ELSE {})
    BY <1>6 DEF ShiftBit
  <2>2. ASSUME NEW i \in shift \ {Top} PROVE i + 1 \in Bits
    <3>1. i \in 0 .. Top /\ i # Top
      BY DEF TypeOK, Bits
    <3> QED
      BY <3>1, ExpanderAssumption DEF Bits
  <2>3. 0 \in Bits
    BY ExpanderAssumption DEF Bits
  <2>4. shift' \subseteq Bits
    BY <2>1, <2>2, <2>3
  <2>5. call' = [call EXCEPT ![t].at = IF call[t].bit = 0 THEN "high" ELSE "shift",
                             ![t].bit = IF call[t].bit = 0 THEN 0 ELSE call[t].bit - 1]
    BY <1>6 DEF ShiftBit
  <2>6. (IF call[t].bit = 0 THEN 0 ELSE call[t].bit - 1) \in Bits
    <3>1. call[t].bit \in 0 .. Top
      BY DEF TypeOK, CallRecords, Bits
    <3> QED
      BY <3>1, ExpanderAssumption DEF Bits
  <2>7. call' \in [Threads -> CallRecords]
    <3> DEFINE rec == [call[t] EXCEPT !.at = IF call[t].bit = 0 THEN "high" ELSE "shift",
                                     !.bit = IF call[t].bit = 0 THEN 0 ELSE call[t].bit - 1]
    <3>1. call' = [call EXCEPT ![t] = rec]
      BY <2>5, <2>6 DEF TypeOK, CallRecords, Settings
    <3>2. rec \in CallRecords
      BY <2>5, <2>6 DEF TypeOK, CallRecords, Places
    <3> HIDE DEF rec
    <3> QED
      BY <3>1, <3>2 DEF TypeOK, CallRecords, Settings
  <2> QED
    BY <1>6, <2>4, <2>7 DEF ShiftBit, TypeOK
<1>7. ASSUME NEW t \in Threads, LatchHigh(t) PROVE TypeOK'
  BY <1>7, AtTyped DEF LatchHigh, TypeOK, CallRecords, Places
<1>8. ASSUME NEW t \in Threads, ReadRegister(t) PROVE TypeOK'
  <2>1. \A s \in SUBSET Bits : With(s, call[t].bit, call[t].on) \in SUBSET Bits
    BY WithTyped DEF TypeOK, CallRecords, Settings
  <2>2. Register(t) \in SUBSET Bits
    BY DEF Register, TypeOK, CallRecords
  <2>3. FailedRead(kind) \subseteq SUBSET Bits
    BY DEF FailedRead
  <2>4. old' \in [Threads -> SUBSET Bits]
    <3>1. PICK s \in SUBSET Bits : old' = [old EXCEPT ![t] = With(s, call[t].bit, call[t].on)]
      BY <1>8, <2>2, <2>3 DEF ReadRegister
    <3> QED
      BY <2>1, <3>1 DEF TypeOK, CallRecords, Settings
  <2>5. faults' \in 0 .. MaxFaults
    <3>1. faults' = faults \/ (faults < MaxFaults /\ faults' = faults + 1)
      BY <1>8 DEF ReadRegister
    <3> QED
      BY <3>1, ExpanderAssumption DEF TypeOK, CallRecords, Settings
  <2>6. readOk' \in [Banks -> BOOLEAN]
    BY <1>8 DEF ReadRegister, TypeOK
  <2> QED
    BY <1>8, <2>4, <2>5, <2>6, AtTyped DEF ReadRegister, TypeOK, CallRecords, Places
<1>9. ASSUME NEW t \in Threads, WriteRegister(t) PROVE TypeOK'
  <2>1. dir' \in [Banks -> SUBSET Bits] /\ pullup' \in [Banks -> SUBSET Bits]
    BY <1>9 DEF WriteRegister, TypeOK
  <2>2. readOk' \in [Banks -> BOOLEAN]
    BY <1>9 DEF WriteRegister, TypeOK
  <2>3. faults' \in 0 .. MaxFaults
    <3>1. faults' = faults \/ (faults < MaxFaults /\ faults' = faults + 1)
      BY <1>9 DEF WriteRegister
    <3> QED
      BY <3>1, ExpanderAssumption DEF TypeOK, CallRecords, Settings
  <2> QED
    BY <1>9, <2>1, <2>2, <2>3, AtTyped DEF WriteRegister, TypeOK, CallRecords, Places
<1>10. CASE UNCHANGED vars
  BY <1>10 DEF vars, TypeOK
<1> QED
  BY <1>1, <1>2, <1>3, <1>4, <1>5, <1>6, <1>7, <1>8, <1>9, <1>10 DEF Next, Calls, Step

(* The drivers keep shadows, registers and latches within their banks.     *)
THEOREM TypeCorrect == Spec => []TypeOK
BY InitTyped, StepTyped, PTL DEF Spec

-----------------------------------------------------------------------------
(* Where a call is tells what it does; no two calls are in one bank; and   *)
(* only the sr595 shifts.                                                  *)
CallInv ==
    /\ \A t \in Threads :
         LET c == call[t]
         IN  /\ c.at = "idle" <=> c.op = "none"
             /\ c.at \in {"read", "write"} <=> c.op \in {"dir", "pullup"}
             /\ c.at # "idle" => c.bank \in BanksOf(kind)
             /\ c.at \in {"low", "shift", "high"} => kind = "sr595"
             /\ c.at = "bus" => kind # "sr595"
    /\ \A t, u \in Threads :
         call[t].at # "idle" /\ call[u].at # "idle" /\ call[t].bank = call[u].bank => t = u

(* A call that begins keeps CallInv: its bank was free.                    *)
LEMMA BeginCall ==
  ASSUME TypeOK, CallInv, NEW t \in Threads, NEW op \in {"digitalWrite", "dir", "pullup"},
         NEW at \in {"shadow", "read"}, NEW bank \in Banks, NEW bit \in Bits, NEW on \in BOOLEAN,
         at = "read" <=> op \in {"dir", "pullup"},
         Begin(t, op, at, bank, bit, on)
  PROVE  CallInv'
<1>1. /\ call'[t] = [op |-> op, at |-> at, bank |-> bank, bit |-> bit, on |-> on]
      /\ \A u \in Threads : u # t => call'[u] = call[u]
      /\ kind' = kind /\ bank \in BanksOf(kind)
  BY BeginTyped DEF Begin, TypeOK
<1>2. \A u \in Threads : call[u].at # "idle" => call[u].bank # bank
  BY DEF Begin, Busy
<1> QED
  BY <1>1, <1>2 DEF CallInv

(* So does a call that goes on to a place of its own kind, or returns.     *)
LEMMA AtCall ==
  ASSUME TypeOK, CallInv, NEW t \in Threads, NEW from \in Places \ {"idle"}, NEW to \in Places,
         At(t, from, to), kind' = kind,
         to # "idle" => (from \in {"read", "write"} <=> to \in {"read", "write"}),
         to \in {"low", "shift", "high"} => kind = "sr595",
         to = "bus" => kind # "sr595"
  PROVE  CallInv'
<1>1. /\ call[t].at = from
      /\ \A u \in Threads : u # t => call'[u] = call[u]
  BY AtTyped
<1>2. CASE to = "idle"
  <2>1. call'[t] = NoCall
    BY <1>2, AtTyped
  <2> QED
    BY <1>1, <2>1 DEF CallInv, NoCall
<1>3. CASE to # "idle"
  <2>1. call'[t] = [call[t] EXCEPT !.at = to]
    BY <1>3, AtTyped
  <2>2. call'[t].at = to /\ call'[t].op = call[t].op /\ call'[t].bank = call[t].bank
    BY <2>1 DEF TypeOK, CallRecords
  <2> QED
    BY <1>1, <1>3, <2>2 DEF CallInv
<1> QED
  BY <1>2, <1>3

(* Every step keeps CallInv.                                               *)
LEMMA CallStep == TypeOK /\ CallInv /\ [Next]_vars => CallInv'
<1> SUFFICES ASSUME TypeOK, CallInv, [Next]_vars PROVE CallInv'
  OBVIOUS
<1>1. ASSUME NEW t \in Threads, Calls(t) PROVE CallInv'
  <2>1. PICK bank \in Banks, bit \in Bits, on \in BOOLEAN :
          digitalWrite(t, bank, bit, on) \/ pinMode(t, bank, bit, on) \/ pullUpDnControl(t, bank, bit, on)
    BY <1>1 DEF Calls
  <2>2. PICK op \in {"digitalWrite", "dir", "pullup"}, at \in {"shadow", "read"} :
          (at = "read" <=> op \in {"dir", "pullup"}) /\ Begin(t, op, at, bank, bit, on)
    BY <2>1 DEF digitalWrite, pinMode, pullUpDnControl
  <2> QED
    BY <2>2, BeginCall
<1>2. ASSUME NEW t \in Threads, ReadShadow(t) PROVE CallInv'
  BY <1>2, AtCall DEF ReadShadow, Places
<1>3. ASSUME NEW t \in Threads, BusWrite(t) PROVE CallInv'
  BY <1>3, AtCall DEF BusWrite, Places
<1>4. ASSUME NEW t \in Threads, Store(t) PROVE CallInv'
  BY <1>4, AtCall DEF Store, Places
<1>5. ASSUME NEW t \in Threads, LatchLow(t) \/ ShiftBit(t) PROVE CallInv'
  <2>0. PICK at \in {"shift", "high"} : \E n : call' = [call EXCEPT ![t].at = at, ![t].bit = n]
    BY <1>5 DEF LatchLow, ShiftBit
  <2>1. PICK n : call' = [call EXCEPT ![t].at = at, ![t].bit = n]
    BY <2>0
  <2>2. call[t].at \in {"low", "shift"} /\ kind' = kind
    BY <1>5 DEF LatchLow, ShiftBit
  <2>3. /\ call'[t].at = at /\ call'[t].op = call[t].op /\ call'[t].bank = call[t].bank
        /\ \A u \in Threads : u # t => call'[u] = call[u]
    BY <2>1 DEF TypeOK, CallRecords
  <2> QED
    BY <2>2, <2>3 DEF CallInv
<1>6. ASSUME NEW t \in Threads, LatchHigh(t) PROVE CallInv'
  BY <1>6, AtCall DEF LatchHigh, Places
<1>7. ASSUME NEW t \in Threads, ReadRegister(t) PROVE CallInv'
  BY <1>7, AtCall DEF ReadRegister, Places
<1>8. ASSUME NEW t \in Threads, WriteRegister(t) PROVE CallInv'
  BY <1>8, AtCall DEF WriteRegister, Places
<1>9. CASE UNCHANGED vars
  BY <1>9 DEF vars, CallInv
<1> QED
  BY <1>1, <1>2, <1>3, <1>4, <1>5, <1>6, <1>7, <1>8, <1>9 DEF Next, Step

-----------------------------------------------------------------------------
(* One bit of the sr595's shift register: what was in it has moved up one  *)
(* place, and the next lower bit of the shadow has come in.                *)
LEMMA OneBitIn ==
  ASSUME NEW sh \in SUBSET Bits, NEW to \in SUBSET Bits, NEW bit \in Bits,
         \A i \in Bits : i < Top - bit => (i \in sh <=> i + bit + 1 \in to)
  PROVE  \A i \in Bits : i < Top - bit + 1 =>
           (i \in {j + 1 : j \in sh \ {Top}} \cup (IF bit \in to THEN {0} ELSE {}) <=> i + bit \in to)
<1> DEFINE new == {j + 1 : j \in sh \ {Top}} \cup (IF bit \in to THEN {0} ELSE {})
<1> SUFFICES ASSUME NEW i \in Bits, i < Top - bit + 1 PROVE i \in new <=> i + bit \in to
  OBVIOUS
<1>a. Top \in Nat /\ i \in 0 .. Top /\ bit \in 0 .. Top /\ \A j \in sh : j \in 0 .. Top
  BY ExpanderAssumption DEF Bits
<1>1. CASE i = 0
  <2>1. i \notin {j + 1 : j \in sh \ {Top}}
    BY <1>a, <1>1
  <2>2. i \in new <=> bit \in to
    BY <1>1, <2>1
  <2>3. i + bit = bit
    BY <1>a, <1>1
  <2> QED
    BY <2>2, <2>3
<1>2. CASE i # 0
  <2>1. i - 1 \in Bits /\ i - 1 < Top - bit /\ i - 1 # Top /\ (i - 1) + 1 = i /\ (i - 1) + bit + 1 = i + bit
    BY <1>a, <1>2 DEF Bits
  <2>2. i \in new <=> i - 1 \in sh
    <3>1. ASSUME i - 1 \in sh PROVE i \in new
      BY <2>1, <3>1
    <3>2. ASSUME i \in new PROVE i - 1 \in sh
      <4>1. PICK j \in sh \ {Top} : i = j + 1
        BY <1>2, <3>2
      <4>2. i - 1 = j
        BY <1>a, <4>1
      <4> QED
        BY <4>2
    <3> QED
      BY <3>1, <3>2
  <2>3. i - 1 \in sh <=> (i - 1) + bit + 1 \in to
    BY <2>1
  <2> QED
    BY <2>1, <2>2, <2>3
<1> QED
  BY <1>1, <1>2

-----------------------------------------------------------------------------
(* A bank nobody is writing: shadow and outputs are as asked.              *)
Level(b) == shadow[b] = asked.level[b] /\ (writeOk[b] => out[b] = asked.level[b])

(* A thread that is writing has in old what was asked, once it has read    *)
(* the shadow; the shift register fills with old, its highest bits first.  *)
Written(t) ==
    LET c == call[t]
        b == c.bank
    IN  /\ c.at = "shadow" => With(shadow[b], c.bit, c.on) = asked.level[b]
        /\ c.at \in {"bus", "store", "low", "shift", "high"} => old[t] = asked.level[b]
        /\ c.at = "store" /\ kind # "sr595" => (writeOk[b] => out[b] = old[t])
        /\ c.at \in {"low", "shift", "high"} => shadow[b] = old[t]
        /\ c.at = "shift" =>
             \A i \in Bits : i < Top - c.bit => (i \in shift <=> i + c.bit + 1 \in old[t])
        /\ c.at = "high" => \A i \in Bits : i \in shift <=> i \in old[t]

Writes(t) == call[t].op = "digitalWrite"

LevelInv ==
    /\ \A b \in Banks : (\A t \in Threads : Writes(t) => call[t].bank # b) => Level(b)
    /\ \A t \in Threads : Writes(t) => Written(t)

(* A step that has nothing to do with levels.                              *)
LEMMA LevelKept ==
  ASSUME LevelInv, UNCHANGED <<kind, shadow, out, writeOk, shift, asked.level>>,
         \A u \in Threads : Writes(u) \/ Writes(u)' => UNCHANGED <<call[u], old[u]>>
  PROVE  LevelInv'
<1>1. \A u \in Threads : Writes(u)' <=> Writes(u)
  BY DEF Writes
<1>2. ASSUME NEW b \in Banks, \A t \in Threads : Writes(t)' => call'[t].bank # b PROVE Level(b)'
  BY <1>1, <1>2 DEF LevelInv, Level
<1>3. ASSUME NEW t \in Threads, Writes(t)' PROVE Written(t)'
  BY <1>1, <1>3 DEF LevelInv, Written
<1> QED
  BY <1>2, <1>3 DEF LevelInv

(* A step of a write changes nothing of other banks, so that only its own  *)
(* bank has to be looked at.                                               *)
LEMMA LevelOthers ==
  ASSUME TypeOK, CallInv, LevelInv, NEW t \in Threads, Writes(t), UNCHANGED <<kind, asked>>,
         NEW b \in Banks, b = call[t].bank,
         \A u \in Threads : u # t => UNCHANGED <<call[u], old[u]>>,
         \A d \in Banks : d # b => UNCHANGED <<shadow[d], out[d], writeOk[d]>>,
         \/ ~Writes(t)' /\ Level(b)'
         \/ Writes(t)' /\ call'[t].bank = b /\ Written(t)',
         shift' = shift \/ kind = "sr595"
  PROVE  LevelInv'
<1>1. \A u \in Threads : u # t => (Writes(u)' <=> Writes(u)) /\ call'[u].bank = call[u].bank
  BY DEF Writes
<1>2. \A u \in Threads : Writes(u) /\ u # t => call[u].bank # b
  BY DEF Writes, CallInv
<1>3. ASSUME NEW d \in Banks, \A u \in Threads : Writes(u)' => call'[u].bank # d PROVE Level(d)'
  <2>1. CASE d = b
    BY <1>3, <2>1
  <2>2. CASE d # b
    <3>1. \A u \in Threads : Writes(u) => call[u].bank # d
      BY <1>1, <1>3, <2>2
    <3>2. Level(d)
      BY <3>1 DEF LevelInv
    <3> QED
      BY <2>2, <3>2 DEF Level
  <2> QED
    BY <2>1, <2>2
<1>4. ASSUME NEW u \in Threads, u # t, Writes(u)' PROVE Written(u)'
  <2>1. Writes(u) /\ Written(u) /\ call[u].bank # b
    BY <1>1, <1>2, <1>4 DEF LevelInv
  <2>2. call[u].at # "idle" /\ call[t].at # "idle"
    BY <2>1 DEF Writes, CallInv
  <2>3. kind # "sr595"
    BY <2>1, <2>2 DEF CallInv, BanksOf, TwoBanks
  <2>4. call[u].at \notin {"low", "shift", "high"}
    BY <2>3 DEF CallInv
  <2>5. call[u].bank \in Banks
    BY DEF TypeOK, CallRecords
  <2> QED
    BY <1>4, <2>1, <2>4, <2>5 DEF Written
<1>5. ASSUME NEW u \in Threads, Writes(u)' PROVE Written(u)'
  BY <1>4, <1>5
<1> QED
  BY <1>3, <1>5 DEF LevelInv

(* Calls that begin.  Before the bit is changed the shadow is what was     *)
(* asked for, as nobody else is in the bank.                               *)
LEMMA LevelBegin ==
  ASSUME TypeOK, CallInv, LevelInv, NEW t \in Threads, NEW bank \in Banks, NEW bit \in Bits,
         NEW on \in BOOLEAN, Begin(t, "digitalWrite", "shadow", bank, bit, on),
         asked' = [asked EXCEPT !.level[bank] = With(@, bit, on)]
  PROVE  LevelInv'
<1>1. /\ call'[t] = [op |-> "digitalWrite", at |-> "shadow", bank |-> bank, bit |-> bit, on |-> on]
      /\ \A u \in Threads : u # t => call'[u] = call[u]
      /\ UNCHANGED <<kind, out, shift, shadow, old, writeOk>>
  BY BeginTyped DEF Begin, TypeOK
<1>2. \A u \in Threads : Writes(u) => call[u].bank # bank
  BY DEF Begin, Busy, Writes, CallInv
<1>3. Level(bank)
  BY <1>2 DEF LevelInv
<1>4. /\ asked'.level[bank] = With(asked.level[bank], bit, on)
      /\ \A d \in Banks : d # bank => asked'.level[d] = asked.level[d]
  BY DEF TypeOK, Settings
<1>5. ASSUME NEW d \in Banks, \A u \in Threads : Writes(u)' => call'[u].bank # d PROVE Level(d)'
  <2>1. d # bank
    BY <1>1, <1>5 DEF Writes
  <2>2. ~Writes(t)
    BY DEF Begin, Writes, CallInv
  <2>3. \A u \in Threads : Writes(u) => call[u].bank # d
    BY <1>1, <1>5, <2>2 DEF Writes
  <2> QED
    BY <1>1, <1>4, <2>1, <2>3 DEF LevelInv, Level
<1>6. Written(t)'
  BY <1>1, <1>3, <1>4 DEF Written, Level
<1>7. ASSUME NEW u \in Threads, u # t, Writes(u)' PROVE Written(u)'
  <2>1. Writes(u) /\ Written(u) /\ call[u].bank # bank /\ call[u].bank \in Banks
    BY <1>1, <1>2, <1>7 DEF Writes, LevelInv, TypeOK, CallRecords
  <2> QED
    BY <1>1, <1>4, <1>7, <2>1 DEF Written
<1> QED
  BY <1>5, <1>6, <1>7 DEF LevelInv

(* Every step keeps LevelInv.                                              *)
LEMMA LevelStep == TypeOK /\ CallInv /\ LevelInv /\ [Next]_vars => LevelInv'
<1> SUFFICES ASSUME TypeOK, CallInv, LevelInv, [Next]_vars PROVE LevelInv'
  OBVIOUS
<1>1. ASSUME NEW t \in Threads, Calls(t) PROVE LevelInv'
  <2>1. PICK bank \in Banks, bit \in Bits, on \in BOOLEAN :
          digitalWrite(t, bank, bit, on) \/ pinMode(t, bank, bit, on) \/ pullUpDnControl(t, bank, bit, on)
    BY <1>1 DEF Calls
  <2>2. CASE /\ Begin(t, "digitalWrite", "shadow", bank, bit, on)
             /\ asked' = [asked EXCEPT !.level[bank] = With(@, bit, on)]
    BY <2>2, LevelBegin
  <2>3. ASSUME NEW op \in {"dir", "pullup"}, Begin(t, op, "read", bank, bit, on), asked'.level = asked.level
        PROVE  LevelInv'
    <3>1. /\ call'[t].op = op /\ call[t].at = "idle"
          /\ \A u \in Threads : u # t => call'[u] = call[u]
          /\ UNCHANGED <<kind, out, shift, shadow, old, writeOk>>
      BY <2>3, BeginTyped DEF Begin, TypeOK
    <3>2. ~Writes(t) /\ ~Writes(t)'
      BY <2>3, <3>1 DEF Writes, CallInv
    <3> QED
      BY <2>3, <3>1, <3>2, LevelKept DEF Writes
  <2>4. [asked EXCEPT !.dir[bank] = With(@, bit, on)].level = asked.level
        /\ [asked EXCEPT !.pullup[bank] = With(@, bit, on)].level = asked.level
    BY DEF TypeOK, Settings
  <2> QED
    BY <2>1, <2>2, <2>3, <2>4 DEF digitalWrite, pinMode, pullUpDnControl
<1>2. ASSUME NEW t \in Threads, call[t].at \notin {"idle", "read", "write"}
      PROVE  Writes(t) /\ Written(t) /\ call[t].bank \in Banks
  BY <1>2 DEF CallInv, TypeOK, CallRecords, Places, Writes, LevelInv
<1>3. ASSUME NEW t \in Threads, ReadShadow(t) PROVE LevelInv'
  <2> DEFINE to == IF kind = "sr595" THEN "store" ELSE "bus"
  <2>1. PICK b \in Banks : b = call[t].bank /\ Writes(t) /\ Written(t)
    BY <1>2, <1>3 DEF ReadShadow, At
  <2>2. /\ call[t].at = "shadow" /\ call'[t] = [call[t] EXCEPT !.at = to]
        /\ \A u \in Threads : u # t => call'[u] = call[u]
    BY <1>3, AtTyped DEF ReadShadow, Places
  <2>3. call'[t].at = to /\ call'[t].op = call[t].op /\ call'[t].bank = b
    BY <2>1, <2>2 DEF TypeOK, CallRecords
  <2>4. /\ old'[t] = With(shadow[b], call[t].bit, call[t].on)
        /\ \A u \in Threads : u # t => old'[u] = old[u]
    BY <1>3, <2>1 DEF ReadShadow, TypeOK
  <2>5. old'[t] = asked.level[b]
    BY <2>1, <2>2, <2>4 DEF Written
  <2>6. UNCHANGED <<kind, out, shift, shadow, writeOk, asked>>
    BY <1>3 DEF ReadShadow
  <2>7. kind = "sr595" \/ to = "bus"
    OBVIOUS
  <2>8. Writes(t)' /\ Written(t)'
    BY <2>1, <2>3, <2>5, <2>6, <2>7 DEF Writes, Written
  <2> QED
    BY <2>1, <2>2, <2>3, <2>4, <2>6, <2>8, LevelOthers
<1>4. ASSUME NEW t \in Threads, BusWrite(t) PROVE LevelInv'
  <2>1. PICK b \in Banks : b = call[t].bank /\ Writes(t) /\ Written(t)
    BY <1>2, <1>4 DEF BusWrite, At
  <2>2. /\ call[t].at = "bus" /\ call'[t] = [call[t] EXCEPT !.at = "store"]
        /\ \A u \in Threads : u # t => call'[u] = call[u]
    BY <1>4, AtTyped DEF BusWrite, Places
  <2>3. call'[t].at = "store" /\ call'[t].op = call[t].op /\ call'[t].bank = b
    BY <2>1, <2>2 DEF TypeOK, CallRecords
  <2>4. UNCHANGED <<kind, shift, shadow, old, asked>>
    BY <1>4 DEF BusWrite
  <2>5. /\ \A d \in Banks : d # b => UNCHANGED <<out[d], writeOk[d]>>
        /\ writeOk'[b] => out'[b] = old[t]
    BY <1>4, <2>1 DEF BusWrite, TypeOK
  <2>6. Writes(t)' /\ Written(t)'
    BY <2>1, <2>2, <2>3, <2>4, <2>5 DEF Writes, Written
  <2>7. /\ UNCHANGED <<kind, asked>>
        /\ \A u \in Threads : u # t => UNCHANGED <<call[u], old[u]>>
        /\ \A d \in Banks : d # b => UNCHANGED <<shadow[d], out[d], writeOk[d]>>
        /\ shift' = shift
    BY <2>2, <2>4, <2>5
  <2> QED
    BY <2>1, <2>3, <2>6, <2>7, LevelOthers
<1>5. ASSUME NEW t \in Threads, Store(t) PROVE LevelInv'
  <2>1. PICK b \in Banks : b = call[t].bank /\ Writes(t) /\ Written(t)
    BY <1>2, <1>5 DEF Store, At
  <2>2. /\ call[t].at = "store"
        /\ \A u \in Threads : u # t => call'[u] = call[u] /\ old'[u] = old[u]
        /\ UNCHANGED <<kind, out, writeOk, shift, asked>>
        /\ shadow'[b] = old[t]
        /\ \A d \in Banks : d # b => shadow'[d] = shadow[d]
    BY <1>5, <2>1, AtTyped DEF Store, TypeOK, Places
  <2>3. old[t] = asked.level[b]
    BY <2>1, <2>2 DEF Written
  <2>4. CASE kind = "sr595"
    <3>1. call'[t] = [call[t] EXCEPT !.at = "low"] /\ old' = old
      BY <1>5, <2>4, AtTyped DEF Store, Places
    <3>2. call'[t].at = "low" /\ call'[t].op = call[t].op /\ call'[t].bank = b
      BY <2>1, <3>1 DEF TypeOK, CallRecords
    <3>3. Writes(t)' /\ Written(t)'
      BY <2>1, <2>2, <2>3, <3>1, <3>2 DEF Writes, Written
    <3> QED
      BY <2>1, <2>2, <3>2, <3>3, LevelOthers
  <2>5. CASE kind # "sr595"
    <3>1. call'[t] = NoCall
      BY <1>5, <2>5, AtTyped DEF Store, Places
    <3>2. ~Writes(t)'
      BY <3>1 DEF Writes, NoCall
    <3>3. writeOk[b] => out[b] = asked.level[b]
      BY <2>1, <2>2, <2>3, <2>5 DEF Written
    <3>4. Level(b)'
      BY <2>2, <2>3, <3>3 DEF Level
    <3> QED
      BY <2>1, <2>2, <3>2, <3>4, LevelOthers
  <2> QED
    BY <2>4, <2>5
<1>6. ASSUME NEW t \in Threads, LatchLow(t) PROVE LevelInv'
  <2>1. PICK b \in Banks : b = call[t].bank /\ Writes(t) /\ Written(t)
    BY <1>2, <1>6 DEF LatchLow
  <2>2. /\ call[t].at = "low" /\ call'[t] = [call[t] EXCEPT !.at = "shift", !.bit = Top]
        /\ \A u \in Threads : u # t => call'[u] = call[u]
        /\ UNCHANGED <<kind, out, shift, shadow, old, writeOk, asked>>
    BY <1>6 DEF LatchLow, TypeOK, CallRecords
  <2>3. call'[t].at = "shift" /\ call'[t].op = call[t].op /\ call'[t].bank = b /\ call'[t].bit = Top
    BY <2>1, <2>2 DEF TypeOK, CallRecords
  <2>4. \A i \in Bits : ~(i < Top - Top)
    BY ExpanderAssumption DEF Bits
  <2>5. Writes(t)' /\ Written(t)'
    BY <2>1, <2>2, <2>3, <2>4 DEF Writes, Written
  <2> QED
    BY <2>1, <2>2, <2>3, <2>5, LevelOthers
<1>7. ASSUME NEW t \in Threads, ShiftBit(t) PROVE LevelInv'
  <2> DEFINE bit == call[t].bit
  <2>1. PICK b \in Banks : b = call[t].bank /\ Writes(t) /\ Written(t)
    BY <1>2, <1>7 DEF ShiftBit
  <2>2. /\ call[t].at = "shift"
        /\ call'[t] = [call[t] EXCEPT !.at = IF bit = 0 THEN "high" ELSE "shift",
                                      !.bit = IF bit = 0 THEN 0 ELSE bit - 1]
        /\ \A u \in Threads : u # t => call'[u] = call[u]
        /\ UNCHANGED <<kind, out, shadow, old, writeOk, asked>>
        /\ shift' = {i + 1 : i \in shift \ {Top}} \cup (IF bit \in old[t] THEN {0} ELSE {})
    BY <1>7 DEF ShiftBit, TypeOK, CallRecords
  <2>3. /\ call'[t].at = IF bit = 0 THEN "high" ELSE "shift"
        /\ call'[t].bit = IF bit = 0 THEN 0 ELSE bit - 1
        /\ call'[t].op = call[t].op /\ call'[t].bank = b
    BY <2>1, <2>2 DEF TypeOK, CallRecords
  <2>4. bit \in Bits /\ old[t] \in SUBSET Bits /\ shift \in SUBSET Bits /\ Top \in Nat
    BY ExpanderAssumption DEF TypeOK, CallRecords
  <2>5. \A i \in Bits : i < Top - bit => (i \in shift <=> i + bit + 1 \in old[t])
    BY <2>1, <2>2 DEF Written
  <2> HIDE DEF bit
  <2>6. \A i \in Bits : i < Top - bit + 1 => (i \in shift' <=> i + bit \in old[t])
    BY <2>2, <2>4, <2>5, OneBitIn
  <2>7. kind = "sr595"
    BY <2>2 DEF CallInv
  <2>8. old[t] = asked.level[b] /\ shadow[b] = old[t]
    BY <2>1, <2>2 DEF Written
  <2>9. Writes(t)'
    BY <2>1, <2>3 DEF Writes
  <2>10. CASE bit = 0
    <3>1. \A i \in Bits : i < Top - bit + 1 /\ i + bit = i
      BY <2>4, <2>10 DEF Bits
    <3>2. \A i \in Bits : i \in shift' <=> i \in old[t]
      BY <2>6, <3>1
    <3>3. call'[t].at = "high"
      BY <2>3, <2>10
    <3>4. Written(t)'
      BY <2>2, <2>3, <2>8, <3>2, <3>3 DEF Written
    <3> QED
      BY <2>1, <2>2, <2>3, <2>7, <2>9, <3>4, LevelOthers
  <2>11. CASE bit # 0
    <3>1. call'[t].at = "shift" /\ call'[t].bit = bit - 1
      BY <2>3, <2>11
    <3>2. \A i \in Bits : Top - (bit - 1) = Top - bit + 1 /\ i + (bit - 1) + 1 = i + bit
      BY <2>4 DEF Bits
    <3>3. \A i \in Bits : i < Top - (bit - 1) => (i \in shift' <=> i + (bit - 1) + 1 \in old[t])
      BY <2>6, <3>2
    <3>4. Written(t)'
      BY <2>2, <2>3, <2>8, <3>1, <3>3 DEF Written
    <3> QED
      BY <2>1, <2>2, <2>3, <2>7, <2>9, <3>4, LevelOthers
  <2> QED
    BY <2>10, <2>11
<1>8. ASSUME NEW t \in Threads, LatchHigh(t) PROVE LevelInv'
  <2>1. PICK b \in Banks : b = call[t].bank /\ Writes(t) /\ Written(t)
    BY <1>2, <1>8 DEF LatchHigh, At
  <2>2. /\ call[t].at = "high" /\ call'[t] = NoCall
        /\ \A u \in Threads : u # t => call'[u] = call[u] /\ old'[u] = old[u]
        /\ UNCHANGED <<kind, shift, shadow, asked>>
    BY <1>8, AtTyped DEF LatchHigh, TypeOK, Places
  <2>3. b = "A" /\ kind = "sr595"
    BY <2>1, <2>2 DEF CallInv, BanksOf, TwoBanks
  <2>4. out'[b] = shift /\ \A d \in Banks : d # b => UNCHANGED <<out[d], writeOk[d]>>
    BY <1>8, <2>3 DEF LatchHigh, TypeOK
  <2>5. \A i \in Bits : i \in shift <=> i \in old[t]
    BY <2>1, <2>2 DEF Written
  <2>6. shift = old[t]
    BY <2>5 DEF TypeOK
  <2>7. Level(b)'
    BY <2>1, <2>2, <2>4, <2>6 DEF Level, Written
  <2>8. ~Writes(t)'
    BY <2>2 DEF Writes, NoCall
  <2> QED
    BY <2>1, <2>2, <2>4, <2>7, <2>8, LevelOthers
<1>9. ASSUME NEW t \in Threads, ReadRegister(t) \/ WriteRegister(t) PROVE LevelInv'
  <2>1. /\ call[t].at \in {"read", "write"}
        /\ \A u \in Threads : u # t => call'[u] = call[u]
        /\ call'[t] = NoCall \/ call'[t] = [call[t] EXCEPT !.at = "write"]
    BY <1>9, AtTyped DEF ReadRegister, WriteRegister, Places
  <2>2. UNCHANGED <<kind, shadow, out, writeOk, shift, asked>>
        /\ \A u \in Threads : u # t => old'[u] = old[u]
    BY <1>9 DEF ReadRegister, WriteRegister, TypeOK
  <2>3. ~Writes(t) /\ ~Writes(t)'
    BY <2>1 DEF Writes, NoCall, CallInv, TypeOK, CallRecords
  <2> QED
    BY <2>1, <2>2, <2>3, LevelKept DEF Writes
<1>10. CASE UNCHANGED vars
  BY <1>10, LevelKept DEF vars
<1> QED
  BY <1>1, <1>3, <1>4, <1>5, <1>6, <1>7, <1>8, <1>9, <1>10 DEF Next, Step

(* After the setup no call is under way and the shadow is what was asked.  *)
LEMMA LevelInit == Init => CallInv /\ LevelInv
<1> SUFFICES ASSUME Init PROVE CallInv /\ LevelInv
  OBVIOUS
<1>1. CallInv
  BY DEF Init, CallInv, NoCall
<1>2. \A t \in Threads : ~Writes(t)
  BY DEF Init, Writes, NoCall
<1>3. asked.level = shadow /\ \A b \in Banks : writeOk[b] = (shadow[b] = out[b])
  BY DEF Init, Setup
<1> QED
  BY <1>1, <1>2, <1>3 DEF LevelInv, Level

(* The outputs of a bank no call is in are what was written to it, unless  *)
(* the last write was lost.                                                *)
THEOREM OutputsCorrect == Spec => [](OutputsAsWritten /\ ShadowAsWritten)
<1>1. CallInv /\ LevelInv => OutputsAsWritten /\ ShadowAsWritten
  <2> SUFFICES ASSUME CallInv, LevelInv, NEW b \in BanksOf(kind), Busy(b) = {}
               PROVE  shadow[b] = asked.level[b] /\ (writeOk[b] => out[b] = asked.level[b])
    BY DEF OutputsAsWritten, ShadowAsWritten
  <2>1. b \in Banks
    BY DEF BanksOf, Banks
  <2>2. \A t \in Threads : Writes(t) => call[t].bank # b
    BY DEF Busy, Writes, CallInv
  <2> QED
    BY <2>1, <2>2 DEF LevelInv, Level
<1> QED
  BY <1>1, LevelInit, CallStep, LevelStep, TypeCorrect, PTL DEF Spec

-----------------------------------------------------------------------------
(* Glitches.  What a writer is about to put on the outputs differs from    *)
(* what is there in the one bit it was asked to change.                    *)
Near(from, to) == \E bit \in Bits, on \in BOOLEAN : to = With(from, bit, on)

NearBank(t, b) ==
    writeOk[b] =>
        /\ call[t].at = "shadow" => shadow[b] = out[b]
        /\ call[t].at \in {"bus", "low", "shift", "high"} => Near(out[b], old[t])
        /\ call[t].at = "store" /\ kind = "sr595" => Near(out[b], old[t])

NearInv == \A t \in Threads : Writes(t) => NearBank(t, call[t].bank)

\* The second bank was in order from the setup on.
BothBanks ==
    faults = 0 /\ readOk["A"] /\ TwoBanks(kind) => \A b \in Banks : writeOk[b]

(* A step of one thread leaves the others as near as they were: threads    *)
(* that write the same bank do so one at a time.                           *)
LEMMA NearOthers ==
  ASSUME TypeOK, CallInv, NearInv, NEW t \in Threads, Writes(t), kind' = kind,
         NEW b \in Banks, b = call[t].bank,
         \A u \in Threads : u # t => UNCHANGED <<call[u], old[u]>>,
         \A d \in Banks : d # b => UNCHANGED <<shadow[d], out[d], writeOk[d]>>,
         Writes(t)' => call'[t].bank = b /\ NearBank(t, b)'
  PROVE  NearInv'
<1> SUFFICES ASSUME NEW u \in Threads, Writes(u)', u # t PROVE NearBank(u, call[u].bank)'
  BY DEF NearInv
<1>1. Writes(u) /\ call[u].bank # b /\ call[u].bank \in Banks
  BY DEF Writes, CallInv, TypeOK, CallRecords
<1> QED
  BY <1>1 DEF NearInv, NearBank

(* A call that writes no outputs.                                          *)
LEMMA NearKept ==
  ASSUME NearInv, UNCHANGED <<kind, shadow, out, writeOk>>,
         \A u \in Threads : Writes(u)' => Writes(u) /\ UNCHANGED <<call[u], old[u]>>
  PROVE  NearInv'
<1> SUFFICES ASSUME NEW u \in Threads, Writes(u)' PROVE NearBank(u, call[u].bank)'
  BY DEF NearInv
<1> QED
  BY DEF NearInv, NearBank

(* Every step keeps NearInv: a call reads the shadow when it is what the   *)
(* outputs are, and nobody else is in its bank until it has written.       *)
LEMMA NearStep == TypeOK /\ CallInv /\ LevelInv /\ NearInv /\ [Next]_vars => NearInv'
<1> SUFFICES ASSUME TypeOK, CallInv, LevelInv, NearInv, [Next]_vars PROVE NearInv'
  OBVIOUS
<1>1. ASSUME NEW t \in Threads, Calls(t) PROVE NearInv'
  <2>1. PICK bank \in Banks, bit \in Bits, on \in BOOLEAN :
          digitalWrite(t, bank, bit, on) \/ pinMode(t, bank, bit, on) \/ pullUpDnControl(t, bank, bit, on)
    BY <1>1 DEF Calls
  <2>2. PICK op \in {"digitalWrite", "dir", "pullup"}, at \in {"shadow", "read"} :
          (at = "read" <=> op \in {"dir", "pullup"}) /\ Begin(t, op, at, bank, bit, on)
    BY <2>1 DEF digitalWrite, pinMode, pullUpDnControl
  <2>3. /\ call'[t] = [op |-> op, at |-> at, bank |-> bank, bit |-> bit, on |-> on]
        /\ \A u \in Threads : u # t => call'[u] = call[u]
        /\ UNCHANGED <<kind, out, shadow, old, writeOk>>
    BY <2>2, BeginTyped DEF Begin, TypeOK
  <2>4. Level(bank)
    BY <2>2 DEF Begin, Busy, Writes, CallInv, LevelInv
  <2>5. ASSUME NEW u \in Threads, Writes(u)' PROVE NearBank(u, call[u].bank)'
    <3>1. CASE u = t
      BY <2>2, <2>3, <2>4, <2>5, <3>1 DEF NearBank, Level, Writes
    <3>2. CASE u # t
      BY <2>3, <2>5, <3>2 DEF NearInv, NearBank, Writes
    <3> QED
      BY <3>1, <3>2
  <2> QED
    BY <2>5 DEF NearInv
<1>2. ASSUME NEW t \in Threads, call[t].at \notin {"idle", "read", "write"}
      PROVE  Writes(t) /\ NearBank(t, call[t].bank) /\ call[t].bank \in Banks
  BY <1>2 DEF CallInv, TypeOK, CallRecords, Places, Writes, NearInv
<1>3. ASSUME NEW t \in Threads, ReadShadow(t) PROVE NearInv'
  <2>1. PICK b \in Banks : b = call[t].bank /\ Writes(t) /\ NearBank(t, b)
    BY <1>2, <1>3 DEF ReadShadow, At
  <2>a. PICK to \in {"store", "bus"} :
          /\ call[t].at = "shadow" /\ call'[t] = [call[t] EXCEPT !.at = to]
          /\ \A u \in Threads : u # t => call'[u] = call[u]
    BY <1>3, AtTyped DEF ReadShadow, Places
  <2>2. /\ call[t].at = "shadow" /\ call'[t].bank = b
        /\ \A u \in Threads : u # t => call'[u] = call[u] /\ old'[u] = old[u]
        /\ UNCHANGED <<kind, out, shadow, writeOk>>
        /\ old'[t] = With(shadow[b], call[t].bit, call[t].on)
    BY <1>3, <2>1, <2>a DEF ReadShadow, TypeOK, CallRecords
  <2>3. call[t].bit \in Bits /\ call[t].on \in BOOLEAN
    BY DEF TypeOK, CallRecords
  <2>4. writeOk[b] => Near(out[b], old'[t])
    BY <2>1, <2>2, <2>3 DEF Near, NearBank
  <2>5. call'[t].at # "shadow"
    BY <2>a DEF TypeOK, CallRecords
  <2>6. NearBank(t, b)'
    BY <2>2, <2>4, <2>5 DEF NearBank
  <2> QED
    BY <2>1, <2>2, <2>6, NearOthers
<1>4. ASSUME NEW t \in Threads, BusWrite(t) PROVE NearInv'
  <2>1. PICK b \in Banks : b = call[t].bank /\ Writes(t)
    BY <1>2, <1>4 DEF BusWrite, At
  <2>2. /\ call[t].at = "bus" /\ call'[t] = [call[t] EXCEPT !.at = "store"]
        /\ \A u \in Threads : u # t => call'[u] = call[u]
        /\ UNCHANGED <<kind, shadow, old>>
        /\ \A d \in Banks : d # b => UNCHANGED <<out[d], writeOk[d]>>
    BY <1>4, <2>1, AtTyped DEF BusWrite, Places, TypeOK
  <2>3. call'[t].at = "store" /\ call'[t].bank = b /\ kind # "sr595"
    BY <2>1, <2>2 DEF TypeOK, CallRecords, CallInv
  <2>4. NearBank(t, b)'
    BY <2>2, <2>3 DEF NearBank
  <2> QED
    BY <2>1, <2>2, <2>3, <2>4, NearOthers
<1>5. ASSUME NEW t \in Threads, Store(t) PROVE NearInv'
  <2>1. PICK b \in Banks : b = call[t].bank /\ Writes(t) /\ NearBank(t, b)
    BY <1>2, <1>5 DEF Store, At
  <2>2. /\ call[t].at = "store"
        /\ \A u \in Threads : u # t => call'[u] = call[u] /\ old'[u] = old[u]
        /\ UNCHANGED <<kind, out, writeOk>>
        /\ \A d \in Banks : d # b => shadow'[d] = shadow[d]
    BY <1>5, <2>1, AtTyped DEF Store, TypeOK, Places
  <2>3. CASE kind = "sr595"
    <3>1. call'[t] = [call[t] EXCEPT !.at = "low"] /\ old' = old
      BY <1>5, <2>3, AtTyped DEF Store, Places
    <3>2. call'[t].at = "low" /\ call'[t].bank = b
      BY <2>1, <3>1 DEF TypeOK, CallRecords
    <3>3. NearBank(t, b)'
      BY <2>1, <2>2, <2>3, <3>1, <3>2 DEF NearBank
    <3> QED
      BY <2>1, <2>2, <3>2, <3>3, NearOthers
  <2>4. CASE kind # "sr595"
    <3>a. call'[t] = NoCall
      BY <1>5, <2>4, AtTyped DEF Store, Places
    <3>1. ~Writes(t)'
      BY <3>a DEF Writes, NoCall
    <3> QED
      BY <2>1, <2>2, <3>1, NearOthers
  <2> QED
    BY <2>3, <2>4
<1>6. ASSUME NEW t \in Threads, LatchLow(t) \/ ShiftBit(t) PROVE NearInv'
  <2>1. PICK b \in Banks : b = call[t].bank /\ Writes(t) /\ NearBank(t, b)
    BY <1>2, <1>6 DEF LatchLow, ShiftBit
  <2>2. /\ call[t].at \in {"low", "shift"}
        /\ UNCHANGED <<kind, out, shadow, old, writeOk>>
        /\ \A u \in Threads : u # t => call'[u] = call[u]
    BY <1>6 DEF LatchLow, ShiftBit, TypeOK
  <2>3. call'[t].bank = b /\ call'[t].at \in {"shift", "high"}
    BY <1>6, <2>1 DEF LatchLow, ShiftBit, TypeOK, CallRecords
  <2>4. NearBank(t, b)'
    BY <2>1, <2>2, <2>3 DEF NearBank
  <2> QED
    BY <2>1, <2>2, <2>3, <2>4, NearOthers
<1>7. ASSUME NEW t \in Threads, LatchHigh(t) PROVE NearInv'
  <2>1. PICK b \in Banks : b = call[t].bank /\ Writes(t)
    BY <1>2, <1>7 DEF LatchHigh, At
  <2>a. call'[t] = NoCall /\ \A u \in Threads : u # t => call'[u] = call[u]
    BY <1>7, AtTyped DEF LatchHigh, Places
  <2>2. /\ ~Writes(t)' /\ UNCHANGED <<kind, shadow>>
        /\ \A u \in Threads : u # t => call'[u] = call[u] /\ old'[u] = old[u]
    BY <1>7, <2>a DEF LatchHigh, TypeOK, Writes, NoCall
  <2>3. b = "A"
    BY <1>7, <2>1 DEF LatchHigh, At, CallInv, BanksOf, TwoBanks
  <2>4. \A d \in Banks : d # b => UNCHANGED <<out[d], writeOk[d]>>
    BY <1>7, <2>3 DEF LatchHigh, TypeOK
  <2> QED
    BY <2>1, <2>2, <2>4, NearOthers
<1>8. ASSUME NEW t \in Threads, ReadRegister(t) \/ WriteRegister(t) PROVE NearInv'
  <2>1. /\ call[t].at \in {"read", "write"}
        /\ \A u \in Threads : u # t => call'[u] = call[u]
        /\ call'[t] = NoCall \/ call'[t] = [call[t] EXCEPT !.at = "write"]
    BY <1>8, AtTyped DEF ReadRegister, WriteRegister, Places
  <2>2. UNCHANGED <<kind, shadow, out, writeOk>>
        /\ \A u \in Threads : u # t => old'[u] = old[u]
    BY <1>8 DEF ReadRegister, WriteRegister, TypeOK
  <2>3. ~Writes(t)'
    BY <2>1 DEF Writes, NoCall, CallInv, TypeOK, CallRecords
  <2> QED
    BY <2>1, <2>2, <2>3, NearKept DEF Writes
<1>9. CASE UNCHANGED vars
  BY <1>9, NearKept DEF vars, Writes
<1> QED
  BY <1>1, <1>3, <1>4, <1>5, <1>6, <1>7, <1>8, <1>9 DEF Next, Step

(* While nothing fails no write of either bank is lost.                    *)
LEMMA BothStep == TypeOK /\ BothBanks /\ [Next]_vars => BothBanks'
<1> SUFFICES ASSUME TypeOK, BothBanks, [Next]_vars, faults' = 0, readOk'["A"], TwoBanks(kind)',
                    NEW b \in Banks
             PROVE  writeOk'[b]
  BY DEF BothBanks
<1> USE DEF TypeOK, BothBanks
<1>1. ASSUME NEW t \in Threads, Calls(t) PROVE writeOk'[b]
  BY <1>1 DEF Calls, digitalWrite, pinMode, pullUpDnControl, Begin
<1>2. ASSUME NEW t \in Threads, Step(t), ~BusWrite(t) PROVE writeOk'[b]
  BY <1>2 DEF Step, ReadShadow, Store, LatchLow, ShiftBit, LatchHigh, ReadRegister, WriteRegister
<1>3. ASSUME NEW t \in Threads, BusWrite(t) PROVE writeOk'[b]
  BY <1>3 DEF BusWrite
<1>4. CASE UNCHANGED vars
  BY <1>4 DEF vars
<1> QED
  BY <1>1, <1>2, <1>3, <1>4 DEF Next

Differ(from, to) == Cardinality((from \ to) \cup (to \ from))

(* Bits that differ by at most one change differ in at most one place.     *)
LEMMA NearCounts ==
  ASSUME NEW from, NEW to, from = to \/ Near(from, to)
  PROVE  Differ(from, to) <= 1
<1> DEFINE diff == (from \ to) \cup (to \ from)
<1>1. PICK bit : diff \subseteq {bit}
  BY DEF Near, With
<1>2. diff = {} \/ diff = {bit}
  BY <1>1
<1>3. Cardinality(diff) = 0 \/ Cardinality(diff) = 1
  BY <1>2, FS_EmptySet, FS_Singleton
<1> QED
  BY <1>3 DEF Differ

(* A step changes one output at most, on every chip, while nothing failed: *)
(* also when a sr595 is loaded bit by bit, and with two threads at work.   *)
THEOREM OutputsDoNotGlitch == Spec => OneOutputAtATime
<1> DEFINE Calm == faults = 0 /\ readOk["A"] /\ writeOk["A"]
           Smooth == Calm => \A b \in Banks : Differ(out[b], out'[b]) <= 1
<1>1. Init => CallInv /\ LevelInv /\ NearInv /\ BothBanks
  <2> SUFFICES ASSUME Init PROVE CallInv /\ LevelInv /\ NearInv /\ BothBanks
    OBVIOUS
  <2>1. CallInv /\ LevelInv
    BY LevelInit
  <2>2. NearInv
    BY DEF Init, NearInv, Writes, NoCall
  <2>3. PICK k \in Kinds, latches \in Left, ok \in BOOLEAN : Setup(k, latches, ok)
    BY DEF Init
  <2>4. BothBanks
    BY <2>3 DEF BothBanks, Setup, All, Banks, TwoBanks
  <2> QED
    BY <2>1, <2>2, <2>4
<1>2. TypeOK /\ CallInv /\ LevelInv /\ NearInv /\ BothBanks /\ [Next]_vars => [Smooth]_vars
  <2> SUFFICES ASSUME TypeOK, CallInv, LevelInv, NearInv, BothBanks, Next, Calm, NEW b \in Banks
               PROVE  Differ(out[b], out'[b]) <= 1
    OBVIOUS
  <2> SUFFICES out[b] = out'[b] \/ Near(out[b], out'[b])
    BY NearCounts
  <2>1. CASE UNCHANGED out
    BY <2>1
  <2>2. ASSUME NEW t \in Threads, BusWrite(t) PROVE out[b] = out'[b] \/ Near(out[b], out'[b])
    <3>1. call[t].at = "bus" /\ Writes(t) /\ call[t].bank \in BanksOf(kind)
      BY <2>2 DEF BusWrite, At, CallInv, Writes, TypeOK, CallRecords
    <3>2. writeOk[call[t].bank]
      BY <3>1 DEF BanksOf, BothBanks
    <3>3. Near(out[call[t].bank], old[t])
      BY <3>1, <3>2 DEF NearInv, NearBank
    <3>4. out'[b] = out[b] \/ (b = call[t].bank /\ out'[b] = old[t])
      BY <2>2 DEF BusWrite, TypeOK
    <3> QED
      BY <3>3, <3>4
  <2>3. ASSUME NEW t \in Threads, LatchHigh(t) PROVE out[b] = out'[b] \/ Near(out[b], out'[b])
    <3>1. call[t].at = "high" /\ Writes(t) /\ call[t].bank = "A"
      BY <2>3 DEF LatchHigh, At, CallInv, Writes, TypeOK, CallRecords, BanksOf, TwoBanks
    <3>2. Near(out["A"], old[t])
      BY <3>1 DEF NearInv, NearBank
    <3>3. \A i \in Bits : i \in shift <=> i \in old[t]
      BY <3>1 DEF LevelInv, Written
    <3>4. shift = old[t]
      BY <3>3 DEF TypeOK
    <3>5. out'[b] = out[b] \/ (b = "A" /\ out'[b] = shift)
      BY <2>3 DEF LatchHigh, TypeOK
    <3> QED
      BY <3>2, <3>4, <3>5
  <2> QED
    BY <2>1, <2>2, <2>3 DEF Next, Calls, Step, digitalWrite, pinMode, pullUpDnControl, Begin,
       ReadShadow, Store, LatchLow, ShiftBit, ReadRegister, WriteRegister
<1>3. [Smooth]_vars => [Calm => \A b \in Banks :
           Cardinality((out[b] \ out'[b]) \cup (out'[b] \ out[b])) <= 1]_vars
  BY DEF Differ
<1> QED
  BY <1>1, <1>2, <1>3, CallStep, LevelStep, NearStep, BothStep, TypeCorrect, PTL
  DEF Spec, OneOutputAtATime

-----------------------------------------------------------------------------
(* Directions and pull-ups.  A register nobody is changing is as asked, in *)
(* a bank without faults; a thread that is changing one has in old, once   *)
(* it has read the register, what was asked.                               *)
Ops == {"dir", "pullup"}
Chip(op)    == IF op = "dir" THEN dir ELSE pullup
Request(op) == IF op = "dir" THEN asked.dir ELSE asked.pullup

Changed(t) ==
    LET c == call[t]
    IN  /\ c.at = "read" => With(Chip(c.op)[c.bank], c.bit, c.on) = Request(c.op)[c.bank]
        /\ c.at = "write" => old[t] = Request(c.op)[c.bank]

RegisterInv ==
    /\ \A op \in Ops, b \in Banks :
         readOk[b] /\ (\A t \in Threads : ~(call[t].op = op /\ call[t].bank = b)) =>
           Chip(op)[b] = Request(op)[b]
    /\ \A t \in Threads : call[t].op \in Ops /\ readOk[call[t].bank] => Changed(t)

(* A step that has nothing to do with these registers.                     *)
LEMMA RegisterKept ==
  ASSUME RegisterInv, UNCHANGED <<dir, pullup, readOk, asked.dir, asked.pullup>>,
         \A u \in Threads : call[u].op \in Ops \/ call'[u].op \in Ops => UNCHANGED <<call[u], old[u]>>
  PROVE  RegisterInv'
<1>1. \A op : Chip(op)' = Chip(op) /\ Request(op)' = Request(op)
  BY DEF Chip, Request
<1>2. \A u \in Threads : call[u].op \in Ops \/ call'[u].op \in Ops => call'[u] = call[u] /\ old'[u] = old[u]
  OBVIOUS
<1>3. ASSUME NEW op \in Ops, NEW b \in Banks, readOk'[b],
             \A t \in Threads : ~(call'[t].op = op /\ call'[t].bank = b)
      PROVE  Chip(op)'[b] = Request(op)'[b]
  <2>1. \A t \in Threads : ~(call[t].op = op /\ call[t].bank = b)
    BY <1>2, <1>3
  <2> QED
    BY <1>1, <1>3, <2>1 DEF RegisterInv
<1>4. ASSUME NEW t \in Threads, call'[t].op \in Ops, readOk'[call'[t].bank] PROVE Changed(t)'
  BY <1>1, <1>2, <1>4 DEF RegisterInv, Changed
<1> QED
  BY <1>3, <1>4 DEF RegisterInv

(* A step of a change touches one register of one bank only, so that only  *)
(* that one has to be looked at.                                           *)
LEMMA RegisterOthers ==
  ASSUME TypeOK, CallInv, RegisterInv, NEW t \in Threads, NEW b \in Banks, NEW op \in Ops,
         \/ call[t].at = "idle" /\ Busy(b) = {}
         \/ call[t].op = op /\ call[t].bank = b,
         \A u \in Threads : u # t => UNCHANGED <<call[u], old[u]>>,
         \A o \in Ops, d \in Banks : o # op \/ d # b =>
             Chip(o)'[d] = Chip(o)[d] /\ Request(o)'[d] = Request(o)[d],
         \A d \in Banks : readOk'[d] => readOk[d],
         \/ call'[t].op = op /\ call'[t].bank = b /\ (readOk'[b] => Changed(t)')
         \/ call'[t].op = "none" /\ (readOk'[b] => Chip(op)'[b] = Request(op)'[b])
  PROVE  RegisterInv'
<1>1. ASSUME NEW o \in Ops, NEW d \in Banks, readOk'[d],
             \A u \in Threads : ~(call'[u].op = o /\ call'[u].bank = d)
      PROVE  Chip(o)'[d] = Request(o)'[d]
  <2>1. CASE o = op /\ d = b
    BY <1>1, <2>1
  <2>2. CASE o # op \/ d # b
    <3>1. ~(call[t].op = o /\ call[t].bank = d)
      BY <2>2 DEF CallInv, Ops
    <3>2. \A u \in Threads : ~(call[u].op = o /\ call[u].bank = d)
      BY <1>1, <3>1
    <3> QED
      BY <1>1, <2>2, <3>2 DEF RegisterInv
  <2> QED
    BY <2>1, <2>2
<1>2. ASSUME NEW u \in Threads, u # t, call'[u].op \in Ops, readOk'[call'[u].bank] PROVE Changed(u)'
  <2>1. call'[u] = call[u] /\ old'[u] = old[u] /\ call[u].op \in Ops /\ call[u].bank \in Banks
    BY <1>2 DEF TypeOK, CallRecords
  <2>2. call[u].at # "idle"
    BY <2>1 DEF CallInv, Ops
  <2>3. call[u].bank # b
    BY <1>2, <2>2 DEF CallInv, Busy, Ops
  <2>4. Changed(u)
    BY <1>2, <2>1 DEF RegisterInv
  <2>5. Chip(call[u].op)'[call[u].bank] = Chip(call[u].op)[call[u].bank]
        /\ Request(call[u].op)'[call[u].bank] = Request(call[u].op)[call[u].bank]
    BY <2>1, <2>3 DEF Chip, Request
  <2> QED
    BY <2>1, <2>4, <2>5 DEF Changed, Chip, Request
<1>3. ASSUME NEW u \in Threads, call'[u].op \in Ops, readOk'[call'[u].bank] PROVE Changed(u)'
  BY <1>2, <1>3 DEF Ops
<1> QED
  BY <1>1, <1>3 DEF RegisterInv

(* A change of a register that begins: the register is still what was      *)
(* asked for before, so that the one bit is all that is missing.           *)
LEMMA RegisterBegin ==
  ASSUME TypeOK, CallInv, RegisterInv, NEW t \in Threads, NEW bank \in Banks, NEW bit \in Bits,
         NEW on \in BOOLEAN, NEW op \in Ops, Begin(t, op, "read", bank, bit, on),
         asked' = IF op = "dir" THEN [asked EXCEPT !.dir[bank] = With(@, bit, on)]
                                ELSE [asked EXCEPT !.pullup[bank] = With(@, bit, on)]
  PROVE  RegisterInv'
<1>1. /\ call'[t] = [op |-> op, at |-> "read", bank |-> bank, bit |-> bit, on |-> on]
      /\ \A u \in Threads : u # t => call'[u] = call[u]
      /\ UNCHANGED <<dir, pullup, old, readOk>>
      /\ call[t].at = "idle" /\ Busy(bank) = {}
  BY BeginTyped DEF Begin, TypeOK, Ops
<1>2. /\ Request(op)'[bank] = With(Request(op)[bank], bit, on)
      /\ \A o \in Ops, d \in Banks : o # op \/ d # bank => Request(o)'[d] = Request(o)[d]
  BY DEF Request, Ops, TypeOK, Settings
<1>3. \A o : Chip(o)' = Chip(o)
  BY <1>1 DEF Chip
<1>4. \A u \in Threads : ~(call[u].op = op /\ call[u].bank = bank)
  BY <1>1 DEF Busy, CallInv, Ops
<1>5. readOk[bank] => Chip(op)[bank] = Request(op)[bank]
  BY <1>4 DEF RegisterInv
<1>6. readOk'[bank] => Changed(t)'
  <2>1. call'[t].at = "read" /\ call'[t].op = op /\ call'[t].bank = bank /\ call'[t].bit = bit
        /\ call'[t].on = on
    BY <1>1
  <2>2. Chip(op)'[bank] = Chip(op)[bank]
    BY <1>3
  <2>3. readOk' = readOk
    BY <1>1
  <2>4. readOk[bank] => With(Chip(op)'[bank], bit, on) = Request(op)'[bank]
    BY <1>2, <1>5, <2>2
  <2> QED
    BY <2>1, <2>3, <2>4 DEF Changed, Chip, Request
<1> QED
  BY <1>1, <1>2, <1>3, <1>6, RegisterOthers

(* Every step keeps RegisterInv.                                           *)
LEMMA RegisterStep == TypeOK /\ CallInv /\ RegisterInv /\ [Next]_vars => RegisterInv'
<1> SUFFICES ASSUME TypeOK, CallInv, RegisterInv, [Next]_vars PROVE RegisterInv'
  OBVIOUS
<1>1. ASSUME NEW t \in Threads, Calls(t) PROVE RegisterInv'
  <2>1. PICK bank \in Banks, bit \in Bits, on \in BOOLEAN :
          digitalWrite(t, bank, bit, on) \/ pinMode(t, bank, bit, on) \/ pullUpDnControl(t, bank, bit, on)
    BY <1>1 DEF Calls
  <2>2. CASE /\ Begin(t, "digitalWrite", "shadow", bank, bit, on)
             /\ asked' = [asked EXCEPT !.level[bank] = With(@, bit, on)]
    <3>1. asked'.dir = asked.dir /\ asked'.pullup = asked.pullup
      BY <2>2 DEF TypeOK, Settings
    <3>2. /\ call'[t].op = "digitalWrite" /\ call[t].at = "idle"
          /\ \A u \in Threads : u # t => call'[u] = call[u]
          /\ UNCHANGED <<dir, pullup, readOk, old>>
      BY <2>2, BeginTyped DEF Begin, TypeOK
    <3>3. call[t].op \notin Ops /\ call'[t].op \notin Ops
      BY <3>2 DEF CallInv, Ops
    <3> QED
      BY <3>1, <3>2, <3>3, RegisterKept
  <2>3. CASE pullUpDnControl(t, bank, bit, on)
    BY <2>3, RegisterBegin DEF pullUpDnControl, Ops
  <2>4. CASE /\ Begin(t, "dir", "read", bank, bit, on)
             /\ asked' = [asked EXCEPT !.dir[bank] = With(@, bit, on)]
    BY <2>4, RegisterBegin DEF Ops
  <2> QED
    BY <2>1, <2>2, <2>3, <2>4 DEF digitalWrite, pinMode
<1>2. ASSUME NEW t \in Threads,
             ReadShadow(t) \/ BusWrite(t) \/ Store(t) \/ LatchLow(t) \/ ShiftBit(t) \/ LatchHigh(t)
      PROVE  RegisterInv'
  <2>1. /\ call[t].at \in {"shadow", "bus", "store", "low", "shift", "high"}
        /\ \A u \in Threads : u # t => old'[u] = old[u]
        /\ UNCHANGED <<dir, pullup, readOk, asked>>
    BY <1>2 DEF ReadShadow, BusWrite, Store, LatchLow, ShiftBit, LatchHigh, At, TypeOK
  <2>2. call[t].op \notin Ops
    BY <2>1 DEF CallInv, Ops
  <2>3. call'[t].op \in {call[t].op, "none"} /\ \A u \in Threads : u # t => call'[u] = call[u]
    <3>1. CASE ShiftBit(t) \/ LatchLow(t)
      BY <3>1 DEF ShiftBit, LatchLow, TypeOK, CallRecords
    <3>2. CASE ReadShadow(t) \/ BusWrite(t) \/ Store(t) \/ LatchHigh(t)
      <4>1. PICK from, to \in Places : At(t, from, to)
        BY <3>2 DEF ReadShadow, BusWrite, Store, LatchHigh, Places
      <4>2. /\ \A u \in Threads : u # t => call'[u] = call[u]
            /\ call'[t] = NoCall \/ call'[t] = [call[t] EXCEPT !.at = to]
        BY <4>1, AtTyped
      <4>3. [call[t] EXCEPT !.at = to].op = call[t].op /\ NoCall.op = "none"
        BY DEF TypeOK, CallRecords, NoCall
      <4> QED
        BY <4>2, <4>3
    <3> QED
      BY <1>2, <3>1, <3>2
  <2>4. call'[t].op \notin Ops
    BY <2>2, <2>3 DEF Ops
  <2> QED
    BY <2>1, <2>2, <2>3, <2>4, RegisterKept
<1>3. ASSUME NEW t \in Threads, ReadRegister(t) PROVE RegisterInv'
  <2>1. PICK b \in Banks, op \in Ops : b = call[t].bank /\ op = call[t].op /\ call[t].at = "read"
    BY <1>3 DEF ReadRegister, At, CallInv, TypeOK, CallRecords, Ops
  <2>2. /\ call'[t] = [call[t] EXCEPT !.at = "write"]
        /\ \A u \in Threads : u # t => call'[u] = call[u] /\ old'[u] = old[u]
        /\ UNCHANGED <<dir, pullup, asked>>
    BY <1>3, AtTyped DEF ReadRegister, TypeOK, Places
  <2>3. call'[t].at = "write" /\ call'[t].op = op /\ call'[t].bank = b
    BY <2>1, <2>2 DEF TypeOK, CallRecords
  <2>4. /\ \A d \in Banks : readOk'[d] => readOk[d]
        /\ readOk'[b] => old'[t] = With(Register(t), call[t].bit, call[t].on)
    BY <1>3, <2>1 DEF ReadRegister, TypeOK
  <2>5. Register(t) = Chip(op)[b] /\ \A o : Chip(o)' = Chip(o) /\ Request(o)' = Request(o)
    BY <2>1, <2>2 DEF Register, Chip, Request, Ops
  <2>6. readOk'[b] => old'[t] = Request(op)[b]
    BY <2>1, <2>4, <2>5 DEF RegisterInv, Changed
  <2>7. readOk'[b] => Changed(t)'
    BY <2>2, <2>3, <2>6 DEF Changed, Request
  <2> QED
    BY <2>1, <2>2, <2>3, <2>4, <2>5, <2>7, RegisterOthers
<1>4. ASSUME NEW t \in Threads, WriteRegister(t) PROVE RegisterInv'
  <2>1. PICK b \in Banks, op \in Ops : b = call[t].bank /\ op = call[t].op /\ call[t].at = "write"
    BY <1>4 DEF WriteRegister, At, CallInv, TypeOK, CallRecords, Ops
  <2>2. /\ call'[t] = NoCall
        /\ \A u \in Threads : u # t => call'[u] = call[u] /\ old'[u] = old[u]
        /\ asked' = asked
    BY <1>4, AtTyped DEF WriteRegister, TypeOK, Places
  <2>3. call'[t].op = "none"
    BY <2>2 DEF NoCall
  <2>4. /\ \A d \in Banks : readOk'[d] => readOk[d]
        /\ readOk'[b] => Chip(op)'[b] = old[t]
        /\ \A o \in Ops, d \in Banks : o # op \/ d # b => Chip(o)'[d] = Chip(o)[d]
    BY <1>4, <2>1 DEF WriteRegister, TypeOK, Chip, Ops
  <2>5. \A o : Request(o)' = Request(o)
    BY <2>2 DEF Request
  <2>6. readOk'[b] => Chip(op)'[b] = Request(op)'[b]
    BY <2>1, <2>4, <2>5 DEF RegisterInv, Changed
  <2> QED
    BY <2>1, <2>2, <2>3, <2>4, <2>5, <2>6, RegisterOthers
<1>5. CASE UNCHANGED vars
  BY <1>5, RegisterKept DEF vars
<1> QED
  BY <1>1, <1>2, <1>3, <1>4, <1>5 DEF Next, Step

(* Directions and pull-ups of a bank no call is in are as asked for, if    *)
(* its registers were always read and written.                             *)
THEOREM SettingsCorrect == Spec => []SettingsAsAsked
<1>1. Init => CallInv
  BY DEF Init, CallInv, NoCall
<1>2. Init => RegisterInv
  <2> SUFFICES ASSUME Init PROVE RegisterInv
    OBVIOUS
  <2>1. \A t \in Threads : call[t].op = "none"
    BY DEF Init, NoCall
  <2>2. asked.dir = dir /\ asked.pullup = pullup
    BY DEF Init, Setup
  <2> QED
    BY <2>1, <2>2 DEF RegisterInv, Chip, Request, Ops
<1>3. CallInv /\ RegisterInv => SettingsAsAsked
  <2> SUFFICES ASSUME CallInv, RegisterInv, NEW b \in BanksOf(kind), Busy(b) = {}, readOk[b]
               PROVE  dir[b] = asked.dir[b] /\ pullup[b] = asked.pullup[b]
    BY DEF SettingsAsAsked
  <2>1. b \in Banks
    BY DEF BanksOf, Banks
  <2>2. \A op \in Ops, t \in Threads : ~(call[t].op = op /\ call[t].bank = b)
    BY DEF Busy, CallInv, Ops
  <2>3. \A op \in Ops : Chip(op)[b] = Request(op)[b]
    BY <2>1, <2>2 DEF RegisterInv
  <2> QED
    BY <2>3 DEF Chip, Request, Ops
<1> QED
  BY <1>1, <1>2, <1>3, CallStep, RegisterStep, TypeCorrect, PTL DEF Spec
=============================================================================
