----------------------------- MODULE Expanders -----------------------------
(***************************************************************************)
(* The drivers of the output expanders: mcp23008, mcp23017, mcp23s08,      *)
(* mcp23s17, mcp23016, pcf8574 and sr595 of src/lib.  A driver keeps the   *)
(* output latches of its chip in its node (data2 and data3, data3 for the  *)
(* sr595), changes one bit of that shadow and writes it whole; directions  *)
(* and pull-ups are read from the chip, changed and written back.  Nothing *)
(* is locked and no result of the bus is looked at.                        *)
(*                                                                         *)
(* A process drives one chip of any kind from two threads, each of which   *)
(* keeps to a bank of eight pins where the chip has two.  A register is    *)
(* the set of its bits that are 1.                                         *)
(***************************************************************************)
EXTENDS Integers, FiniteSets, TLC

CONSTANTS
    Threads,
    Kinds,     \* the chips
    Left,      \* what an earlier process may have left in the latches
    Top,       \* bits 0 .. Top of a bank are modelled
    MaxFaults, \* bound on failing bus transfers
    MaxCalls   \* bound on calls

ASSUME ExpanderAssumption ==
    /\ Kinds \subseteq {"mcp23008", "mcp23017", "mcp23s08", "mcp23s17", "mcp23016",
                        "pcf8574", "sr595"}
    /\ Left \subseteq SUBSET (0 .. Top)
    /\ Top \in Nat /\ MaxFaults \in Nat /\ MaxCalls \in Nat

VARIABLES
    kind,    \* which chip it is
    out,     \* the chip's output latches
    dir,     \* its direction registers: the inputs
    pullup,  \* its pull-up registers
    shift,   \* sr595: the bits shifted in so far, latest first
    shadow,  \* data2 and data3 of the node
    call,    \* the call each thread is in
    old,     \* its local copy of a register
    faults, calls,
    writeOk, \* history: the last write of a bank's outputs arrived
    readOk,  \* history: every read of a bank's registers worked
    asked    \* history: levels, directions and pulls asked for

vars == <<kind, out, dir, pullup, shift, shadow, call, old, faults, calls, writeOk, readOk, asked>>

Bits  == 0 .. Top
Banks == {"A", "B"}
SPI    == {"mcp23s08", "mcp23s17"}
TwoBanks(k) == k \in {"mcp23017", "mcp23s17", "mcp23016"}
BanksOf(k)  == IF TwoBanks(k) THEN Banks ELSE {"A"}
HasPulls(k) == k \in {"mcp23008", "mcp23017", "mcp23s08", "mcp23s17"}

NoCall == [op |-> "none", at |-> "idle", bank |-> "A", bit |-> 0, on |-> FALSE]
With(set, bit, on) == IF on THEN set \cup {bit} ELSE set \ {bit}
All(set) == [b \in Banks |-> set]

Places == {"idle", "shadow", "bus", "store", "low", "shift", "high", "read", "write"}
CallRecords == [op : {"none", "digitalWrite", "dir", "pullup"}, at : Places,
                bank : Banks, bit : Bits, on : BOOLEAN]
Settings == [level : [Banks -> SUBSET Bits], dir : [Banks -> SUBSET Bits],
             pullup : [Banks -> SUBSET Bits]]

TypeOK ==
    /\ kind \in Kinds
    /\ out \in [Banks -> SUBSET Bits] /\ shadow \in [Banks -> SUBSET Bits]
    /\ dir \in [Banks -> SUBSET Bits] /\ pullup \in [Banks -> SUBSET Bits]
    /\ shift \subseteq Bits
    /\ old \in [Threads -> SUBSET Bits]
    /\ call \in [Threads -> CallRecords]
    /\ faults \in 0 .. MaxFaults /\ calls \in 0 .. MaxCalls
    /\ writeOk \in [Banks -> BOOLEAN] /\ readOk \in [Banks -> BOOLEAN]
    /\ asked \in Settings

(***************************************************************************)
(* The setup functions: the shadow is read from the chip, whose latches    *)
(* an earlier process may have left anyhow; sr595Setup assumes they are 0, *)
(* so that the first write settles them, and pcf8574Setup reads the pins,  *)
(* where something outside may hold a 1 low.  A failed I2C read gives -1,  *)
(* a failed SPI read whatever was in the buffer.                           *)
(***************************************************************************)
FailedRead(k) == IF k \in SPI THEN SUBSET Bits ELSE {Bits}

Setup(k, latches, ok) ==
    /\ kind = k
    /\ out = All(latches)
    /\ readOk = All(ok)
    /\ IF k = "sr595" THEN shadow = All({})
       ELSE IF ~ok THEN \E s \in FailedRead(k) : shadow = All(s)
       ELSE IF k = "pcf8574" THEN \E s \in SUBSET latches : shadow = All(s)
       ELSE shadow = out
    /\ writeOk = [b \in Banks |-> shadow[b] = out[b]]
    /\ asked = [level |-> shadow, dir |-> All(Bits), pullup |-> All({})]

Init ==
    /\ \E k \in Kinds, latches \in Left, ok \in BOOLEAN : Setup(k, latches, ok)
    /\ dir = All(Bits)
    /\ pullup = All({})
    /\ shift = {}
    /\ call = [t \in Threads |-> NoCall]
    /\ old = [t \in Threads |-> {}]
    /\ faults = 0 /\ calls = 0

-----------------------------------------------------------------------------
Busy(b) == {t \in Threads : call[t].at # "idle" /\ call[t].bank = b}

Begin(t, op, at, bank, bit, on) ==
    /\ call[t].at = "idle"
    /\ bank \in BanksOf(kind) /\ Busy(bank) = {}
    /\ calls < MaxCalls /\ calls' = calls + 1
    /\ call' = [call EXCEPT ![t] = [op |-> op, at |-> at, bank |-> bank, bit |-> bit, on |-> on]]
    /\ UNCHANGED <<kind, out, dir, pullup, shift, shadow, old, faults, writeOk, readOk>>

digitalWrite(t, bank, bit, on) ==
    /\ Begin(t, "digitalWrite", "shadow", bank, bit, on)
    /\ asked' = [asked EXCEPT !.level[bank] = With(@, bit, on)]

\* The mcp chips have a direction register; the pcf8574 drives an input high
\* and an output low, through the same shadow; the sr595 has only outputs.
pinMode(t, bank, bit, input) ==
    \/ /\ kind \notin {"pcf8574", "sr595"}
       /\ Begin(t, "dir", "read", bank, bit, input)
       /\ asked' = [asked EXCEPT !.dir[bank] = With(@, bit, input)]
    \/ /\ kind = "pcf8574"
       /\ Begin(t, "digitalWrite", "shadow", bank, bit, input)
       /\ asked' = [asked EXCEPT !.level[bank] = With(@, bit, input)]

pullUpDnControl(t, bank, bit, up) ==
    /\ HasPulls(kind)
    /\ Begin(t, "pullup", "read", bank, bit, up)
    /\ asked' = [asked EXCEPT !.pullup[bank] = With(@, bit, up)]

At(t, from, to) ==
    /\ call[t].at = from
    /\ call' = IF to = "idle" THEN [call EXCEPT ![t] = NoCall] ELSE [call EXCEPT ![t].at = to]

\* old is the shadow with one bit changed.
Bug_WrongShadow(t) ==
    /\ At(t, "shadow", IF kind = "sr595" THEN "store" ELSE "bus")
    /\ old' = [old EXCEPT ![t] = With(shadow["A"], call[t].bit, call[t].on)]
    /\ UNCHANGED <<kind, calls, out, dir, pullup, shift, shadow, faults, writeOk, readOk, asked>>

ReadShadow(t) ==
    /\ At(t, "shadow", IF kind = "sr595" THEN "store" ELSE "bus")
    /\ old' = [old EXCEPT ![t] = With(shadow[call[t].bank], call[t].bit, call[t].on)]
    /\ UNCHANGED <<kind, calls, out, dir, pullup, shift, shadow, faults, writeOk, readOk, asked>>

\* A write that fails is not noticed.
BusWrite(t) ==
    /\ At(t, "bus", "store")
    /\ LET b == call[t].bank
       IN  \/ /\ out' = [out EXCEPT ![b] = old[t]]
              /\ writeOk' = [writeOk EXCEPT ![b] = TRUE]
              /\ UNCHANGED faults
           \/ /\ faults < MaxFaults /\ faults' = faults + 1
              /\ writeOk' = [writeOk EXCEPT ![b] = FALSE]
              /\ UNCHANGED out
    /\ UNCHANGED <<kind, calls, dir, pullup, shift, shadow, old, readOk, asked>>

Store(t) ==
    /\ At(t, "store", IF kind = "sr595" THEN "low" ELSE "idle")
    /\ shadow' = [shadow EXCEPT ![call[t].bank] = old[t]]
    /\ old' = IF kind = "sr595" THEN old ELSE [old EXCEPT ![t] = {}]
    /\ UNCHANGED <<kind, calls, out, dir, pullup, shift, faults, writeOk, readOk, asked>>

(***************************************************************************)
(* sr595: latch low, the bits with the highest first, latch high, which    *)
(* copies the shift register to the outputs.  bit counts down in call.bit. *)
(***************************************************************************)
LatchLow(t) ==
    /\ call[t].at = "low"
    /\ call' = [call EXCEPT ![t].at = "shift", ![t].bit = Top]
    /\ UNCHANGED <<kind, calls, out, dir, pullup, shift, shadow, old, faults, writeOk, readOk, asked>>

Bug_LatchWhileShifting(t) ==
    LET bit == call[t].bit
    IN  /\ call[t].at = "shift"
        /\ shift' = {i + 1 : i \in shift \ {Top}} \cup (IF bit \in old[t] THEN {0} ELSE {})
        /\ out' = [out EXCEPT !["A"] = shift']
        /\ call' = [call EXCEPT ![t].at = IF bit = 0 THEN "high" ELSE "shift",
                                ![t].bit = IF bit = 0 THEN 0 ELSE bit - 1]
        /\ UNCHANGED <<kind, calls, dir, pullup, shadow, old, faults, writeOk, readOk, asked>>

ShiftBit(t) ==
    LET bit == call[t].bit
    IN  /\ call[t].at = "shift"
        /\ shift' = {i + 1 : i \in shift \ {Top}} \cup (IF bit \in old[t] THEN {0} ELSE {})
        /\ call' = [call EXCEPT ![t].at = IF bit = 0 THEN "high" ELSE "shift",
                                ![t].bit = IF bit = 0 THEN 0 ELSE bit - 1]
        /\ UNCHANGED <<kind, calls, out, dir, pullup, shadow, old, faults, writeOk, readOk, asked>>

LatchHigh(t) ==
    /\ At(t, "high", "idle")
    /\ out' = [out EXCEPT !["A"] = shift]
    /\ writeOk' = [writeOk EXCEPT !["A"] = TRUE]
    /\ old' = [old EXCEPT ![t] = {}]
    /\ UNCHANGED <<kind, calls, dir, pullup, shift, shadow, faults, readOk, asked>>

\* Directions and pull-ups: read the register and change a bit ...
Register(t) == IF call[t].op = "dir" THEN dir[call[t].bank] ELSE pullup[call[t].bank]

ReadRegister(t) ==
    /\ At(t, "read", "write")
    /\ \/ /\ old' = [old EXCEPT ![t] = With(Register(t), call[t].bit, call[t].on)]
          /\ UNCHANGED <<faults, readOk>>
       \/ /\ faults < MaxFaults /\ faults' = faults + 1
          /\ readOk' = [readOk EXCEPT ![call[t].bank] = FALSE]
          /\ \E s \in FailedRead(kind) :
               old' = [old EXCEPT ![t] = With(s, call[t].bit, call[t].on)]
    /\ UNCHANGED <<kind, calls, out, dir, pullup, shift, shadow, writeOk, asked>>

\* ... and write it.  (A lost write leaves the pin as it was.)
Bug_WriteBothBanks(t) ==
    /\ At(t, "write", "idle")
    /\ dir' = IF call[t].op = "dir" THEN All(old[t]) ELSE dir
    /\ pullup' = IF call[t].op = "pullup" THEN All(old[t]) ELSE pullup
    /\ old' = [old EXCEPT ![t] = {}]
    /\ UNCHANGED <<kind, calls, out, shift, shadow, faults, writeOk, readOk, asked>>

WriteRegister(t) ==
    /\ At(t, "write", "idle")
    /\ LET b == call[t].bank
       IN  \/ /\ dir' = IF call[t].op = "dir" THEN [dir EXCEPT ![b] = old[t]] ELSE dir
              /\ pullup' = IF call[t].op = "pullup" THEN [pullup EXCEPT ![b] = old[t]] ELSE pullup
              /\ UNCHANGED <<faults, readOk>>
           \/ /\ faults < MaxFaults /\ faults' = faults + 1
              /\ readOk' = [readOk EXCEPT ![b] = FALSE]
              /\ UNCHANGED <<dir, pullup>>
    /\ old' = [old EXCEPT ![t] = {}]
    /\ UNCHANGED <<kind, calls, out, shift, shadow, writeOk, asked>>

Calls(t) ==
    \E bank \in Banks, bit \in Bits, on \in BOOLEAN :
        digitalWrite(t, bank, bit, on) \/ pinMode(t, bank, bit, on)
          \/ pullUpDnControl(t, bank, bit, on)

Step(t) ==
    \/ ReadShadow(t) \/ BusWrite(t) \/ Store(t)
    \/ LatchLow(t) \/ ShiftBit(t) \/ LatchHigh(t)
    \/ ReadRegister(t) \/ WriteRegister(t)

Next == \E t \in Threads : Calls(t) \/ Step(t)

Spec == Init /\ [][Next]_vars

\* The two threads are alike.
Symmetry == Permutations(Threads)

-----------------------------------------------------------------------------
(* The outputs are what the callers wrote, unless the last write of the    *)
(* bank was lost: because a write sends the whole shadow, the next one     *)
(* that arrives repairs what earlier ones lost.                            *)
OutputsAsWritten ==
    \A b \in BanksOf(kind) : Busy(b) = {} /\ writeOk[b] => out[b] = asked.level[b]

(* The shadow is never behind the callers: a lost write does not make it   *)
(* forget a bit.                                                           *)
ShadowAsWritten == \A b \in BanksOf(kind) : Busy(b) = {} => shadow[b] = asked.level[b]

(* Directions and pull-ups are as asked for in a bank whose registers were *)
(* always read and written: threads that keep to a bank each need no lock, *)
(* and a fault in one bank never reaches the other.                        *)
SettingsAsAsked ==
    \A b \in BanksOf(kind) : Busy(b) = {} /\ readOk[b] =>
        dir[b] = asked.dir[b] /\ pullup[b] = asked.pullup[b]

(* Outputs do not glitch: while no write was lost and the setup read the   *)
(* latches, a step changes one output at most, also on the sr595, which is *)
(* loaded bit by bit.                                                      *)
OneOutputAtATime ==
    [][faults = 0 /\ readOk["A"] /\ writeOk["A"] =>
         \A b \in Banks : Cardinality((out[b] \ out'[b]) \cup (out'[b] \ out[b])) <= 1]_vars
=============================================================================
