-------------------------- MODULE ExtensionsProof --------------------------
(* Proofs about NodeTable and about Extensions, which drives it: for every  *)
(* set of setup calls and strings, every choice of pin blocks, any number   *)
(* of calls and any width of an int.  All but TypeCorrect assume that one   *)
(* thread makes the calls.                                                  *)
EXTENDS Extensions, WellFoundedInduction, TLAPS

\* No pin is covered at two positions of the list, unchecked blocks apart.
Disjoint(list) ==
    \A p \in Int : \A i, j \in Matches(list, p) : i = j \/ AtLimit(list[i]) \/ AtLimit(list[j])

\* What Check establishes for the pins the node will cover.
Clear(list, n) == AtLimit(n) \/ \A p \in Int : Covers(n, p) => Matches(list, p) = {}

InCall(n) == pc[n] \notin {"check", "ready"}

Reached(n) == \A p \in Int : Covers(n, p) => Found(n, p)

ListInv ==
    /\ TypeOK
    /\ \A i \in DOMAIN wiringPiNodes : PinBase[wiringPiNodes[i]] >= FirstNodePin
    /\ Disjoint(wiringPiNodes)
    /\ \A n \in Nodes : pc[n] # "check" => PinBase[n] >= FirstNodePin
    /\ \A n \in Nodes : pc[n] \in {"head", "link"} => Clear(wiringPiNodes, n)
    /\ \A n \in Nodes : pc[n] = "link" => next[n] = wiringPiNodes
    /\ \A m, n \in Nodes : InCall(m) /\ InCall(n) => m = n
    /\ \A n \in Nodes : pc[n] \in {"install", "ready"} => Reached(n)

-----------------------------------------------------------------------------
(* What linking a node in front of a list does to its positions.           *)
LEMMA Push ==
    ASSUME NEW s \in Seq(Nodes), NEW n \in Nodes
    PROVE  /\ <<n>> \o s \in Seq(Nodes)
           /\ Len(<<n>> \o s) = Len(s) + 1
           /\ (<<n>> \o s)[1] = n
           /\ \A i \in DOMAIN s : (<<n>> \o s)[i + 1] = s[i]
           /\ \A i \in DOMAIN (<<n>> \o s) :
                 i = 1 \/ (i - 1 \in DOMAIN s /\ (<<n>> \o s)[i] = s[i - 1])
  OBVIOUS

(* The pins a node covers are those of its block if the block fits an int, *)
(* and none otherwise.                                                     *)
LEMMA CoversIs ==
    ASSUME NEW n \in Nodes, NEW p \in Int, PinBase[n] >= FirstNodePin
    PROVE  Covers(n, p) <=> p \in Block(n) /\ End(n) <= IntMax + 1
  <1>1. /\ PinBase[n] \in Int /\ NumPins[n] \in Int /\ IntMax \in Nat
        /\ PinBase[n] <= IntMax /\ 0 <= NumPins[n] /\ NumPins[n] <= IntMax
    BY NodeAssumption
  <1> QED
    BY <1>1 DEF Covers, Block, End, pinMax, AsInt, FirstNodePin

(* A set of natural numbers has a least one.                               *)
LEMMA LeastExists ==
    ASSUME NEW T, T \subseteq Nat, T # {}
    PROVE  \E x \in T : \A y \in T : x <= y
  <1> DEFINE Less == {ss \in Nat \X Nat : ss[1] < ss[2]}
  <1>1. IsWellFoundedOn(Less, Nat)
    BY NatLessThanWellFounded DEF OpToRel
  <1>2. PICK x \in T : \A y \in T : ~(<<y, x>> \in Less)
    BY <1>1, WFMin
  <1>3. ASSUME NEW y \in T PROVE x <= y
    <2>1. x \in Nat /\ y \in Nat
      OBVIOUS
    <2>2. ~(<<y, x>> \in Less)
      BY <1>2
    <2>3. y < x => <<y, x>> \in Less
      BY <2>1
    <2> QED
      BY <2>1, <2>2, <2>3
  <1> QED
    BY <1>3

(* A lookup finds the first position that covers the pin, and nothing when *)
(* there is none.                                                          *)
LEMMA LookupFirst ==
    ASSUME NEW list \in Seq(Nodes), NEW p \in Int
    PROVE  /\ Matches(list, p) = {} => FindNode(list, p) = NoNode
           /\ Matches(list, p) # {} =>
                \E i \in Matches(list, p) :
                   FindNode(list, p) = list[i] /\ \A j \in Matches(list, p) : i <= j
  <1>1. ASSUME Matches(list, p) # {}
        PROVE  \E i \in Matches(list, p) :
                  FindNode(list, p) = list[i] /\ \A j \in Matches(list, p) : i <= j
    <2> DEFINE M == Matches(list, p)
               first == CHOOSE i \in M : \A j \in M : i <= j
    <2>1. M \subseteq Nat
      BY DEF Matches
    <2>2. \E i \in M : \A j \in M : i <= j
      <3> HIDE DEF M
      <3> QED
        BY <2>1, <1>1, LeastExists DEF M
    <2>3. first \in M /\ \A j \in M : first <= j
      BY <2>2, Zenon
    <2>4. FindNode(list, p) = list[first]
      BY <1>1 DEF FindNode
    <2> QED
      BY <2>3, <2>4
  <1> QED
    BY <1>1 DEF FindNode

(* What is found is a node of the list, so nothing found means no match.   *)
LEMMA LookupNone ==
    ASSUME NEW list \in Seq(Nodes), NEW p \in Int
    PROVE  FindNode(list, p) = NoNode <=> Matches(list, p) = {}
  <1>1. \A i \in Matches(list, p) : list[i] # NoNode
    BY NodeAssumption DEF Matches
  <1> QED
    BY <1>1, LookupFirst

(* A lookup in a list with one more node in front.                         *)
LEMMA PushFind ==
    ASSUME NEW s \in Seq(Nodes), NEW n \in Nodes, NEW p \in Int
    PROVE  FindNode(<<n>> \o s, p) = IF Covers(n, p) THEN n ELSE FindNode(s, p)
  <1> DEFINE t == <<n>> \o s
  <1>1. /\ t \in Seq(Nodes) /\ Len(t) = Len(s) + 1 /\ t[1] = n
        /\ \A i \in DOMAIN s : t[i + 1] = s[i]
        /\ \A i \in DOMAIN t : i = 1 \/ (i - 1 \in DOMAIN s /\ t[i] = s[i - 1])
    BY Push
  <1>t. s \in Seq(Nodes) /\ Len(s) \in Nat /\ DOMAIN s = 1 .. Len(s)
    OBVIOUS
  <1> HIDE DEF t
  <1>d. DOMAIN t = 1 .. Len(s) + 1
    BY <1>1
  <1>2. \A i \in Matches(s, p) : i \in Nat /\ i + 1 \in Matches(t, p) /\ t[i + 1] = s[i]
    BY <1>1, <1>t, <1>d DEF Matches
  <1>3. CASE Covers(n, p)
    <2>1. 1 \in Matches(t, p)
      BY <1>1, <1>t, <1>d, <1>3 DEF Matches
    <2>2. PICK i \in Matches(t, p) : FindNode(t, p) = t[i] /\ \A j \in Matches(t, p) : i <= j
      BY <1>1, <2>1, LookupFirst
    <2>3. i <= 1 /\ i \in 1 .. Len(s) + 1
      BY <2>1, <2>2, <1>d DEF Matches
    <2>4. i = 1
      BY <2>3, <1>t
    <2> QED
      BY <1>1, <1>3, <2>2, <2>4 DEF t
  <1>4. CASE ~Covers(n, p)
    <2>1. \A i \in Matches(t, p) : i - 1 \in Matches(s, p) /\ t[i] = s[i - 1] /\ i \in Nat
      BY <1>1, <1>d, <1>4 DEF Matches
    <2>2. CASE Matches(s, p) = {}
      <3>1. Matches(t, p) = {}
        BY <2>1, <2>2
      <3> QED
        BY <1>1, <1>4, <2>2, <3>1, LookupFirst DEF t
    <2>3. CASE Matches(s, p) # {}
      <3>1. PICK j \in Matches(s, p) : FindNode(s, p) = s[j] /\ \A k \in Matches(s, p) : j <= k
        BY <2>3, LookupFirst
      <3>2. Matches(t, p) # {}
        BY <3>1, <1>2
      <3>3. PICK i \in Matches(t, p) : FindNode(t, p) = t[i] /\ \A k \in Matches(t, p) : i <= k
        BY <3>2, <1>1, LookupFirst
      <3>4. i <= j + 1 /\ j <= i - 1 /\ i \in Nat /\ j \in Nat
        BY <3>1, <3>3, <2>1, <1>2
      <3>5. i = j + 1
        BY <3>4
      <3> QED
        BY <3>1, <3>3, <3>5, <1>2, <1>4 DEF t
    <2> QED
      BY <2>2, <2>3
  <1> QED
    BY <1>3, <1>4

(* A node whose pins are clear can be linked in: no pin is covered twice,  *)
(* and every pin that had a node keeps it.  Blocks that were not checked   *)
(* are the exception.                                                      *)
LEMMA LinkDisjoint ==
    ASSUME NEW s \in Seq(Nodes), NEW n \in Nodes, Disjoint(s), Clear(s, n)
    PROVE  /\ Disjoint(<<n>> \o s)
           /\ \A p \in Int : FindNode(s, p) # NoNode
                => \/ FindNode(<<n>> \o s, p) = FindNode(s, p)
                   \/ FindNode(<<n>> \o s, p) = n /\ AtLimit(n)
  <1> DEFINE t == <<n>> \o s
  <1>1. /\ t \in Seq(Nodes)
        /\ Len(t) = Len(s) + 1
        /\ t[1] = n
        /\ \A i \in DOMAIN s : t[i + 1] = s[i]
        /\ \A i \in DOMAIN t : i = 1 \/ (i - 1 \in DOMAIN s /\ t[i] = s[i - 1])
    BY Push
  <1>3. Disjoint(t)
    <2> HIDE DEF t
    <2> SUFFICES ASSUME NEW p \in Int, NEW i \in Matches(t, p), NEW j \in Matches(t, p),
                        ~AtLimit(t[i]), ~AtLimit(t[j])
                 PROVE  i = j
      BY DEF Disjoint
    <2>1. i \in DOMAIN t /\ j \in DOMAIN t /\ Covers(t[i], p) /\ Covers(t[j], p)
      BY DEF Matches
    <2>2. \A k \in DOMAIN t : Covers(t[k], p) => k = 1 \/ k - 1 \in Matches(s, p)
      BY <1>1 DEF Matches
    <2>3. i \in Int /\ j \in Int
      BY <1>1, <2>1
    <2>4. CASE Covers(n, p) /\ ~AtLimit(n)
      <3>1. Matches(s, p) = {}
        BY <2>4 DEF Clear
      <3> QED
        BY <2>1, <2>2, <3>1
    <2>5. CASE ~(Covers(n, p) /\ ~AtLimit(n))
      <3>1. i # 1 /\ j # 1
        BY <1>1, <2>1, <2>5
      <3>2. i - 1 \in Matches(s, p) /\ j - 1 \in Matches(s, p)
        BY <2>1, <2>2, <3>1
      <3>3. t[i] = s[i - 1] /\ t[j] = s[j - 1]
        BY <1>1, <2>1, <3>1
      <3>4. i - 1 = j - 1
        BY <3>2, <3>3 DEF Disjoint
      <3> QED
        BY <2>3, <3>4
    <2> QED
      BY <2>4, <2>5
  <1>4. ASSUME NEW p \in Int, FindNode(s, p) # NoNode
        PROVE  FindNode(t, p) = FindNode(s, p) \/ (FindNode(t, p) = n /\ AtLimit(n))
    <2>1. Matches(s, p) # {}
      BY <1>4, LookupNone
    <2>2. Covers(n, p) => AtLimit(n)
      BY <2>1 DEF Clear
    <2> QED
      BY <2>2, PushFind
  <1> QED
    BY <1>3, <1>4

-----------------------------------------------------------------------------
(* The tables are empty and typed at first.                                *)
LEMMA TypeInit == Init => TypeOK
  <1>1. Init => exited \in BOOLEAN
    BY ZenonT(20) DEF Init
  <1>2. Init => /\ pc \in [Nodes -> Steps]
                /\ next \in [Nodes -> Seq(Nodes)]
                /\ wiringPiNodes \in Seq(Nodes)
    BY DEF Init, Steps
  <1> QED
    BY <1>1, <1>2 DEF TypeOK

(* Set-ups keep the list, the program counters and the saved next pointers *)
(* well typed, whatever thread makes the calls.                            *)
THEOREM TypeCorrect == Spec => []TypeOK
  <1>1. Init => TypeOK
    BY TypeInit
  <1>2. TypeOK /\ [Next]_vars => TypeOK'
    <2> SUFFICES ASSUME TypeOK, [Next]_vars
                 PROVE  TypeOK'
      OBVIOUS
    <2> USE DEF TypeOK, Steps
    <2>1. ASSUME NEW n \in Nodes, Check(n)
          PROVE  TypeOK'
      BY <2>1 DEF Check, Step
    <2>2. ASSUME NEW n \in Nodes, Refuse(n)
          PROVE  TypeOK'
      BY <2>2 DEF Refuse
    <2>3. ASSUME NEW n \in Nodes, ReadHead(n)
          PROVE  TypeOK'
      BY <2>3 DEF ReadHead, Step
    <2>4. ASSUME NEW n \in Nodes, Link(n)
          PROVE  TypeOK'
      BY <2>4, Push DEF Link, Step
    <2>5. ASSUME NEW n \in Nodes, Install(n)
          PROVE  TypeOK'
      BY <2>5 DEF Install, Step
    <2>6. CASE UNCHANGED vars
      BY <2>6 DEF vars
    <2> QED
      BY <2>1, <2>2, <2>3, <2>4, <2>5, <2>6 DEF Next
  <1> QED
    BY <1>1, <1>2, PTL DEF Spec

(* An empty list has all it should have.                                   *)
LEMMA ListInvInit == Init => ListInv
  <1> SUFFICES ASSUME Init PROVE ListInv
    OBVIOUS
  <1>1. TypeOK
    BY TypeInit
  <1>2. wiringPiNodes = <<>> /\ \A n \in Nodes : pc[n] = "check"
    BY DEF Init
  <1>3. Disjoint(wiringPiNodes)
    BY <1>2 DEF Disjoint, Matches
  <1> QED
    BY <1>1, <1>2, <1>3 DEF ListInv, InCall

(* Only Link changes the list, and it links a node whose pins Check found  *)
(* clear; nothing was linked since, because no other set-up is in progress.*)
LEMMA ListInvStep == Serial /\ ListInv /\ [Next]_vars => ListInv'
  <1> SUFFICES ASSUME Serial, ListInv, [Next]_vars
               PROVE  ListInv'
    OBVIOUS
  <1>0. TypeOK
    BY DEF ListInv
  <1> USE DEF Steps
  <1>1. ASSUME NEW n \in Nodes, Check(n)
        PROVE  ListInv'
    <2>1. /\ pc[n] = "check" /\ pc' = [pc EXCEPT ![n] = "head"]
          /\ next' = next /\ wiringPiNodes' = wiringPiNodes /\ exited' = exited
          /\ \A m \in Nodes : pc[m] \in {"check", "ready"}
      BY <1>1 DEF Check, Step, MayStart
    <2>2. PinBase[n] >= FirstNodePin /\ Clear(wiringPiNodes, n)
      <3>1. PinBase[n] >= FirstNodePin /\ (Taken(n) = {} \/ LoopWraps(n))
        BY <1>1 DEF Check
      <3>2. PinBase[n] \in Int /\ NumPins[n] \in Int /\ IntMax \in Nat
        BY NodeAssumption
      <3>3. ASSUME NEW p \in Int, Covers(n, p), ~AtLimit(n)
            PROVE  Matches(wiringPiNodes, p) = {}
        <4>1. p \in Block(n) /\ End(n) <= IntMax + 1
          BY <3>1, <3>3, CoversIs
        <4>2. ~LoopWraps(n)
          BY <3>2, <3>3, <4>1 DEF LoopWraps, AtLimit, End
        <4>3. FindNode(wiringPiNodes, p) = NoNode
          BY <3>1, <4>1, <4>2 DEF Taken
        <4> QED
          BY <4>3, LookupNone, <1>0 DEF TypeOK
      <3> QED
        BY <3>1, <3>3 DEF Clear
    <2>3. TypeOK'
      BY <1>0, <2>1 DEF TypeOK
    <2>4. \A m \in Nodes : pc'[m] = IF m = n THEN "head" ELSE pc[m]
      BY <1>0, <2>1 DEF TypeOK
    <2> QED
      BY <2>1, <2>2, <2>3, <2>4 DEF ListInv, InCall, Reached, Found
  <1>2. ASSUME NEW n \in Nodes, Refuse(n)
        PROVE  ListInv'
    BY <1>2 DEF Refuse, ListInv, InCall, TypeOK, Reached, Found
  <1>3. ASSUME NEW n \in Nodes, ReadHead(n)
        PROVE  ListInv'
    <2>1. /\ pc[n] = "head" /\ pc' = [pc EXCEPT ![n] = "link"]
          /\ next' = [next EXCEPT ![n] = wiringPiNodes]
          /\ wiringPiNodes' = wiringPiNodes /\ exited' = exited
      BY <1>3 DEF ReadHead, Step
    <2>2. TypeOK'
      BY <1>0, <2>1 DEF TypeOK
    <2>3. \A m \in Nodes : /\ pc'[m] = IF m = n THEN "link" ELSE pc[m]
                           /\ next'[m] = IF m = n THEN wiringPiNodes ELSE next[m]
      BY <1>0, <2>1 DEF TypeOK
    <2> QED
      BY <2>1, <2>2, <2>3 DEF ListInv, InCall, Reached, Found
  <1>4. ASSUME NEW n \in Nodes, Link(n)
        PROVE  ListInv'
    <2>1. /\ pc[n] = "link" /\ pc' = [pc EXCEPT ![n] = "install"]
          /\ next' = next /\ exited' = exited
          /\ wiringPiNodes' = <<n>> \o wiringPiNodes
      BY <1>4 DEF Link, Step, ListInv
    <2>2. PinBase[n] >= FirstNodePin /\ Clear(wiringPiNodes, n)
      BY <2>1 DEF ListInv
    <2>3. wiringPiNodes \in Seq(Nodes)
      BY <1>0 DEF TypeOK
    <2>4. Disjoint(wiringPiNodes')
      BY <2>1, <2>2, <2>3, LinkDisjoint DEF ListInv
    <2>5. TypeOK'
      BY <1>0, <2>1, <2>3, Push DEF TypeOK
    <2>6. \A m \in Nodes : pc'[m] = IF m = n THEN "install" ELSE pc[m]
      BY <1>0, <2>1 DEF TypeOK
    <2>7. \A i \in DOMAIN wiringPiNodes' : PinBase[wiringPiNodes'[i]] >= FirstNodePin
      BY <2>1, <2>2, <2>3, Push DEF ListInv
    <2>8. \A m \in Nodes : pc'[m] \notin {"head", "link"}
      BY <2>1, <2>6 DEF ListInv, InCall
    <2>9. ASSUME NEW m \in Nodes, pc'[m] \in {"install", "ready"}
          PROVE  Reached(m)'
      <3> SUFFICES ASSUME NEW p \in Int, Covers(m, p)
                   PROVE  Found(m, p)'
        BY DEF Reached
      <3>1. FindNode(wiringPiNodes', p) = IF Covers(n, p) THEN n ELSE FindNode(wiringPiNodes, p)
        BY <2>1, <2>3, PushFind
      <3>2. CASE m = n
        BY <3>1, <3>2 DEF Found
      <3>3. CASE m # n
        <4>1. Found(m, p)
          BY <2>6, <2>9, <3>3 DEF ListInv, Reached
        <4>2. FindNode(wiringPiNodes, p) # NoNode
          BY <4>1, NodeAssumption DEF Found
        <4>3. FindNode(wiringPiNodes', p) = FindNode(wiringPiNodes, p)
              \/ (FindNode(wiringPiNodes', p) = n /\ AtLimit(n))
          BY <2>1, <2>2, <2>3, <4>2, LinkDisjoint DEF ListInv
        <4> QED
          BY <4>1, <4>3, NodeAssumption DEF Found
      <3> QED
        BY <3>2, <3>3
    <2>10. \A m, k \in Nodes : InCall(m)' /\ InCall(k)' => m = k
      BY <2>1, <2>6 DEF ListInv, InCall
    <2>11. \A m \in Nodes : pc'[m] # "check" => PinBase[m] >= FirstNodePin
      BY <2>2, <2>6 DEF ListInv
    <2> QED
      BY <2>4, <2>5, <2>7, <2>8, <2>9, <2>10, <2>11 DEF ListInv
  <1>5. ASSUME NEW n \in Nodes, Install(n)
        PROVE  ListInv'
    <2>1. /\ pc[n] = "install" /\ pc' = [pc EXCEPT ![n] = "ready"]
          /\ next' = next /\ wiringPiNodes' = wiringPiNodes /\ exited' = exited
      BY <1>5 DEF Install, Step
    <2>2. TypeOK'
      BY <1>0, <2>1 DEF TypeOK
    <2>3. \A m \in Nodes : pc'[m] = IF m = n THEN "ready" ELSE pc[m]
      BY <1>0, <2>1 DEF TypeOK
    <2> QED
      BY <2>1, <2>2, <2>3 DEF ListInv, InCall, Reached, Found
  <1>6. CASE UNCHANGED vars
    BY <1>6 DEF vars, ListInv, InCall, TypeOK, Reached, Found
  <1> QED
    BY <1>1, <1>2, <1>3, <1>4, <1>5, <1>6 DEF Next

(* The list is in order as long as no two calls make a node at once.       *)
LEMMA ListInvariant == ASSUME Serial PROVE Spec => []ListInv
  BY ListInvInit, ListInvStep, PTL DEF Spec

-----------------------------------------------------------------------------
(* wiringPiNewNode's overlap check keeps every pin with at most one node,  *)
(* and the on-board pins with none.                                        *)
THEOREM OneNodePerPin == ASSUME Serial PROVE Spec => []PinsOwnedOnce
  <1>1. ListInv => PinsOwnedOnce
    <2> SUFFICES ASSUME ListInv, NEW p \in Pins
                 PROVE  /\ \A i, j \in Matches(wiringPiNodes, p) :
                              i = j \/ AtLimit(wiringPiNodes[i]) \/ AtLimit(wiringPiNodes[j])
                        /\ p < FirstNodePin => Matches(wiringPiNodes, p) = {}
      BY DEF PinsOwnedOnce
    <2>1. p \in Int
      BY NodeAssumption
    <2>2. \A i \in Matches(wiringPiNodes, p) : ~ (p < FirstNodePin)
      <3> SUFFICES ASSUME NEW i \in Matches(wiringPiNodes, p), p < FirstNodePin
                   PROVE  FALSE
        OBVIOUS
      <3>1. i \in DOMAIN wiringPiNodes /\ p >= PinBase[wiringPiNodes[i]]
        BY DEF Matches, Covers
      <3>2. PinBase[wiringPiNodes[i]] >= FirstNodePin /\ wiringPiNodes[i] \in Nodes
        BY <3>1 DEF ListInv, TypeOK
      <3>3. PinBase[wiringPiNodes[i]] \in Int
        BY <3>2, NodeAssumption
      <3> QED
        BY <2>1, <3>1, <3>2, <3>3 DEF FirstNodePin
    <2> QED
      BY <2>1, <2>2 DEF ListInv, Disjoint
  <1> QED
    BY <1>1, ListInvariant, PTL

(* Every pin of the block of a node that is set up leads to that node, if  *)
(* the block fits, and no pin leads to it otherwise.                       *)
LEMMA ReadyFound ==
    ASSUME ListInv, NEW n \in Nodes, pc[n] = "ready", NEW p \in Int
    PROVE  IF End(n) <= IntMax + 1 THEN p \in Block(n) => Found(n, p)
           ELSE FindNode(wiringPiNodes, p) # n
  <1>1. PinBase[n] >= FirstNodePin /\ Reached(n) /\ wiringPiNodes \in Seq(Nodes)
    BY DEF ListInv, TypeOK
  <1>2. Covers(n, p) <=> p \in Block(n) /\ End(n) <= IntMax + 1
    BY <1>1, CoversIs
  <1>3. FindNode(wiringPiNodes, p) = n => Covers(n, p)
    <2>1. Matches(wiringPiNodes, p) # {} /\ FindNode(wiringPiNodes, p) = n => Covers(n, p)
      BY <1>1, LookupFirst DEF Matches
    <2> QED
      BY <2>1, <1>1, LookupNone, NodeAssumption
  <1> QED
    BY <1>1, <1>2, <1>3 DEF Reached

(* A device whose set-up returned is found under each of its pins, whatever *)
(* was set up since, unless its block runs past the largest int: then it is *)
(* found under none.                                                       *)
THEOREM DevicesReachable == ASSUME Serial PROVE Spec => []SetupReachable
  <1>1. ListInv => SetupReachable
    BY ReadyFound, NodeAssumption DEF SetupReachable
  <1> QED
    BY <1>1, ListInvariant, PTL

(* Once a pin number reaches a device it reaches that device for good.     *)
THEOREM LookupsNeverMove == ASSUME Serial PROVE Spec => LookupStable
  <1> DEFINE Kept ==
        \A p \in Pins : FindNode(wiringPiNodes, p) # NoNode
          => LET new == FindNode(wiringPiNodes', p)
             IN  new = FindNode(wiringPiNodes, p) \/ (new # NoNode /\ AtLimit(new))
  <1>1. ListInv /\ [Next]_vars => [Kept]_vars
    <2> SUFFICES ASSUME ListInv, Next
                 PROVE  Kept
      OBVIOUS
    <2>1. CASE wiringPiNodes' = wiringPiNodes
      BY <2>1
    <2>2. ASSUME NEW n \in Nodes, Link(n)
          PROVE  Kept
      <3>1. wiringPiNodes' = <<n>> \o wiringPiNodes /\ Clear(wiringPiNodes, n)
        BY <2>2 DEF Link, Step, ListInv
      <3>2. Pins \subseteq Int /\ n # NoNode
        BY NodeAssumption
      <3> QED
        BY <3>1, <3>2, LinkDisjoint DEF ListInv, TypeOK
    <2> QED
      BY <2>1, <2>2 DEF Next, Check, Refuse, ReadHead, Install
  <1> QED
    BY <1>1, ListInvariant, PTL DEF Spec, LookupStable

-----------------------------------------------------------------------------
(* Every step of loadWPiExtension leaves the list alone or is a step of    *)
(* wiringPiNewNode.                                                        *)
LEMMA ExtStep == ExtNext => [Next]_vars
  <1> SUFFICES ASSUME NEW n \in Nodes,
                      Load(n) \/ OpenDevice(n) \/ MakeNode(n) \/ Finish(n)
               PROVE  [Next]_vars
    BY DEF ExtNext
  <1> QED
    BY DEF Load, OpenDevice, MakeNode, Finish, Next

(* The parser drives the node list as NodeTable specifies it, so that what *)
(* is proved of NodeTable holds of every program that loads extensions.    *)
LEMMA ExtImplementsNodeTable == ExtSpec => Spec
  <1>1. ExtInit => Init
    BY DEF ExtInit
  <1>2. [ExtNext]_<<vars, extVars>> => [Next]_vars
    BY ExtStep
  <1> QED
    BY <1>1, <1>2, PTL DEF ExtSpec, Spec

Linked(n)    == \E x \in DOMAIN wiringPiNodes : wiringPiNodes[x] = n
WasLinked(n) == \E x \in DOMAIN atCall[n] : atCall[n][x] = n

\* One call at a time; a string makes its node in its first call or never.
CallFits(n) ==
    /\ lpc[n] # "out" => n \in severed /\ n \notin loaded
    /\ lpc[n] = "out" => pc[n] \in {"check", "ready"}
    /\ lpc[n] = "open" => pc[n] = "check" /\ n \notin answered
    /\ n \notin severed => pc[n] = "check" /\ n \notin loaded \cup answered
    /\ pc[n] \in {"check", "head", "link"} => ~Linked(n)

OneCall == \A m, n \in Nodes : lpc[m] # "out" /\ lpc[n] # "out" => m = n

Refused(n) == result[n] = "FALSE" /\ lpc[n] = "out" => ~Linked(n) \/ WasLinked(n)
Working(n) == n \in loaded \cap answered => n \in handlers /\ pc[n] = "ready"

NodeFits(n) == CallFits(n) /\ Refused(n) /\ Working(n)

ExtInv ==
    /\ ListInv
    /\ ExtTypeOK
    /\ OneCall
    /\ \A n \in Nodes : NodeFits(n)

(* Nothing was refused or loaded at first.                                 *)
LEMMA ExtInvInit == ExtInit => ExtInv
  <1> SUFFICES ASSUME ExtInit PROVE ExtInv
    OBVIOUS
  <1>1. ListInv
    BY ListInvInit DEF ExtInit
  <1>2. ExtTypeOK
    BY <1>1, ExtensionAssumption DEF ListInv, ExtInit, ExtTypeOK
  <1>3. OneCall
    BY DEF ExtInit, OneCall
  <1>4. ASSUME NEW n \in Nodes PROVE NodeFits(n)
    BY DEF ExtInit, Init, NodeFits, CallFits, Refused, Working, Linked
  <1> QED
    BY <1>1, <1>2, <1>3, <1>4 DEF ExtInv

(* A call starts: it returns at once or has cut its string.                *)
LEMMA LoadStep ==
    ASSUME ExtInv, ListInv', NEW n \in Nodes, Load(n)
    PROVE  ExtInv'
  <1> USE DEF ExtInv, ExtTypeOK
  <1>1. /\ UNCHANGED <<vars, handlers, answered, loaded>>
        /\ atCall' = [atCall EXCEPT ![n] = wiringPiNodes]
        /\ \A m \in Nodes : lpc[m] = "out"
        /\ lpc' = lpc \/ \E to \in {"node", "open"} :
              lpc' = [lpc EXCEPT ![n] = to] /\ n \notin severed /\ Text[n].colon
        /\ lpc' = lpc => result' = [result EXCEPT ![n] = "FALSE"]
        /\ lpc' # lpc => result' = result
        /\ severed' = IF Text[n].colon THEN severed \cup {n} ELSE severed
    BY DEF Load, Parses
  <1>2. ExtTypeOK'
    <2>1. calls' \in 0 .. MaxCalls
      BY ExtensionAssumption DEF Load
    <2>2. atCall' \in [Nodes -> Seq(Nodes)]
      BY <1>1 DEF ListInv, TypeOK
    <2>3. lpc' \in [Nodes -> {"out", "open", "node"}]
      BY <1>1
    <2>4. result' \in [Nodes -> {"none", "TRUE", "FALSE"}]
      BY <1>1
    <2> QED
      BY <1>1, <2>1, <2>2, <2>3, <2>4 DEF ListInv
  <1>3. OneCall'
    BY <1>1 DEF OneCall
  <1>4. ASSUME NEW m \in Nodes PROVE CallFits(m)'
    BY <1>1 DEF CallFits, NodeFits, Linked, vars
  <1>5. ASSUME NEW m \in Nodes PROVE Refused(m)'
    <2>1. Linked(m)' <=> Linked(m)
      BY <1>1 DEF Linked, vars
    <2>2. CASE m = n
      <3>1. WasLinked(n)' <=> Linked(n)
        BY <1>1 DEF Linked, WasLinked
      <3> QED
        BY <2>1, <2>2, <3>1 DEF Refused
    <2>3. CASE m # n
      <3>1. lpc'[m] = lpc[m] /\ result'[m] = result[m] /\ atCall'[m] = atCall[m]
        BY <1>1, <2>3
      <3>2. Refused(m)
        BY DEF NodeFits
      <3> QED
        BY <2>1, <3>1, <3>2 DEF Refused, WasLinked
    <2> QED
      BY <2>2, <2>3
  <1>6. ASSUME NEW m \in Nodes PROVE Working(m)'
    BY <1>1 DEF Working, NodeFits, vars
  <1> QED
    BY <1>2, <1>3, <1>4, <1>5, <1>6 DEF NodeFits

(* The device answers, or the call is over without a node.                 *)
LEMMA OpenDeviceStep ==
    ASSUME ExtInv, ListInv', NEW n \in Nodes, OpenDevice(n)
    PROVE  ExtInv'
  <1> USE DEF ExtInv, ExtTypeOK
  <1>1. ExtTypeOK'
    <2>1. /\ lpc' \in [Nodes -> {"out", "open", "node"}]
          /\ result' \in [Nodes -> {"none", "TRUE", "FALSE"}]
      BY DEF OpenDevice, Return
    <2>2. loaded' \subseteq Nodes /\ answered' \subseteq Nodes
      BY DEF OpenDevice, Return
    <2> QED
      BY <2>1, <2>2 DEF OpenDevice, ListInv
  <1>2. OneCall'
    BY DEF OneCall, OpenDevice, Return
  <1>3. ASSUME NEW m \in Nodes PROVE CallFits(m)'
    BY DEF CallFits, NodeFits, Linked, vars, OpenDevice, Return
  <1>4. ASSUME NEW m \in Nodes PROVE Refused(m)'
    BY DEF Refused, NodeFits, CallFits, Linked, WasLinked, vars, OpenDevice, Return
  <1>5. ASSUME NEW m \in Nodes PROVE Working(m)'
    BY DEF Working, NodeFits, CallFits, vars, OpenDevice, Return
  <1> QED
    BY <1>1, <1>2, <1>3, <1>4, <1>5 DEF NodeFits

(* wiringPiNewNode: only the node of the call under way joins the list.    *)
LEMMA MakeNodeStep ==
    ASSUME ExtInv, ListInv', NEW n \in Nodes, MakeNode(n)
    PROVE  ExtInv'
  <1> USE DEF ExtInv, ExtTypeOK
  <1>1. UNCHANGED extVars /\ lpc[n] = "node"
    BY DEF MakeNode
  <1>2. ExtTypeOK'
    BY <1>1 DEF extVars, ListInv
  <1>3. /\ \A m \in Nodes : m # n => (Linked(m)' <=> Linked(m)) /\ pc'[m] = pc[m]
        /\ pc'[n] \in {"check", "head", "link"} => ~Linked(n)'
        /\ n \notin loaded
        /\ pc[n] # "ready"
    <2>1. CASE Check(n) \/ Refuse(n) \/ ReadHead(n)
      BY <1>1, <2>1
         DEF Check, Refuse, ReadHead, Step, Linked, NodeFits, CallFits, ListInv, TypeOK
    <2>2. CASE Link(n)
      <3>1. wiringPiNodes' = <<n>> \o wiringPiNodes /\ pc' = [pc EXCEPT ![n] = "install"]
        BY <2>2 DEF Link, Step, ListInv
      <3>2. wiringPiNodes \in Seq(Nodes)
        BY DEF ListInv, TypeOK
      <3>3. \A m \in Nodes : m # n => (Linked(m)' <=> Linked(m))
        <4> SUFFICES ASSUME NEW m \in Nodes, m # n
                     PROVE  Linked(m)' <=> Linked(m)
          OBVIOUS
        <4>1. ASSUME NEW x \in DOMAIN wiringPiNodes, wiringPiNodes[x] = m
              PROVE  Linked(m)'
          <5>1. x + 1 \in DOMAIN wiringPiNodes' /\ wiringPiNodes'[x + 1] = m
            BY <3>1, <3>2, <4>1, Push
          <5> QED
            BY <5>1 DEF Linked
        <4>2. ASSUME NEW x \in DOMAIN wiringPiNodes', wiringPiNodes'[x] = m
              PROVE  Linked(m)
          BY <3>1, <3>2, <4>2, Push DEF Linked
        <4> QED
          BY <4>1, <4>2 DEF Linked
      <3> QED
        BY <1>1, <2>2, <3>1, <3>3 DEF NodeFits, CallFits, ListInv, TypeOK, Link, Step
    <2> QED
      BY <2>1, <2>2 DEF MakeNode
  <1>4. OneCall'
    BY <1>1 DEF OneCall, extVars
  <1>5. ASSUME NEW m \in Nodes PROVE NodeFits(m)'
    <2>1. CallFits(m) /\ Refused(m) /\ Working(m) /\ CallFits(n)
      BY DEF NodeFits
    <2>2. UNCHANGED <<lpc, severed, handlers, result, atCall, answered, loaded>>
      BY <1>1 DEF extVars
    <2>3. CASE m # n
      BY <1>3, <2>1, <2>2, <2>3 DEF NodeFits, CallFits, Refused, Working, WasLinked
    <2>4. CASE m = n
      BY <1>1, <1>3, <2>1, <2>2, <2>4 DEF NodeFits, CallFits, Refused, Working, WasLinked
    <2> QED
      BY <2>3, <2>4
  <1> QED
    BY <1>2, <1>4, <1>5

(* The driver fills in its node.  The drivers that can still fail then are *)
(* not among those that report it.                                         *)
LEMMA FinishStep ==
    ASSUME ExtInv, ListInv', NEW n \in Nodes, Finish(n)
    PROVE  ExtInv'
  <1> USE DEF ExtInv, ExtTypeOK
  <1>1. /\ lpc[n] = "node" /\ lpc' = [lpc EXCEPT ![n] = "out"]
        /\ pc' = [pc EXCEPT ![n] = "ready"] /\ pc[n] = "install"
        /\ UNCHANGED <<wiringPiNodes, severed, calls, atCall>>
    BY DEF Finish, Install, Step, Return
  <1>2. /\ result' = [result EXCEPT ![n] = "TRUE"]
        /\ loaded' = loaded \cup {n}
    BY DEF Finish, Return, Reports
  <1>3. /\ \A m \in Nodes : m # n => /\ m \in answered' <=> m \in answered
                                     /\ m \in handlers' <=> m \in handlers
        /\ n \in answered' => n \in handlers'
        /\ answered' \subseteq Nodes /\ handlers' \subseteq Nodes
    BY DEF Finish
  <1>4. ExtTypeOK'
    BY <1>1, <1>2, <1>3 DEF ListInv
  <1>5. OneCall'
    BY <1>1 DEF OneCall
  <1>6. ASSUME NEW m \in Nodes PROVE NodeFits(m)'
    <2>1. CallFits(m) /\ Refused(m) /\ Working(m) /\ CallFits(n)
      BY DEF NodeFits
    <2>2. (Linked(m)' <=> Linked(m)) /\ (WasLinked(m)' <=> WasLinked(m))
      BY <1>1 DEF Linked, WasLinked
    <2>3. pc \in [Nodes -> Steps]
      BY DEF ListInv, TypeOK
    <2>4. CASE m # n
      BY <1>1, <1>2, <1>3, <2>1, <2>2, <2>3, <2>4 DEF NodeFits, CallFits, Refused, Working
    <2>5. CASE m = n
      BY <1>1, <1>2, <1>3, <2>1, <2>2, <2>3, <2>5 DEF NodeFits, CallFits, Refused, Working
    <2> QED
      BY <2>4, <2>5
  <1> QED
    BY <1>4, <1>5, <1>6

(* Every step of a call, on the list or around it, keeps all of it.        *)
LEMMA ExtInvStep == Serial /\ ExtInv /\ [ExtNext]_<<vars, extVars>> => ExtInv'
  <1> SUFFICES ASSUME Serial, ExtInv, [ExtNext]_<<vars, extVars>>
               PROVE  ExtInv'
    OBVIOUS
  <1>1. ListInv'
    BY ExtStep, ListInvStep DEF ExtInv
  <1>2. CASE ExtNext
    BY <1>1, <1>2, LoadStep, OpenDeviceStep, MakeNodeStep, FinishStep DEF ExtNext
  <1>3. CASE UNCHANGED <<vars, extVars>>
    <2>1. ExtTypeOK'
      BY <1>1, <1>3 DEF ExtInv, ListInv, ExtTypeOK, extVars
    <2>2. OneCall' /\ \A n \in Nodes : NodeFits(n)'
      BY <1>3 DEF ExtInv, OneCall, NodeFits, CallFits, Refused, Working, Linked, WasLinked,
         vars, extVars
    <2> QED
      BY <1>1, <2>1, <2>2 DEF ExtInv
  <1> QED
    BY <1>2, <1>3

(* It holds in every state.                                                *)
LEMMA ExtInvariant == ASSUME Serial PROVE ExtSpec => []ExtInv
  BY ExtInvInit, ExtInvStep, PTL DEF ExtSpec

(* A call of loadWPiExtension is at one of its places and its list at the  *)
(* time of the call was a list of nodes.                                   *)
THEOREM ExtTypeCorrect == ASSUME Serial PROVE ExtSpec => []ExtTypeOK
  BY ExtInvariant, PTL DEF ExtInv

(* A call that returned FALSE has left no node behind.                     *)
THEOREM RefusalsLeaveNothing == ASSUME Serial PROVE ExtSpec => []RefusedLeavesNone
  <1>1. ExtInv => RefusedLeavesNone
    <2> SUFFICES ASSUME ExtInv, NEW n \in Nodes, result[n] = "FALSE", lpc[n] = "out"
                 PROVE  ~Contains(wiringPiNodes, n) \/ Contains(atCall[n], n)
      BY DEF RefusedLeavesNone
    <2>1. \A s \in Seq(Nodes) : Contains(s, n) <=> \E x \in DOMAIN s : s[x] = n
      BY DEF Contains
    <2>2. wiringPiNodes \in Seq(Nodes) /\ atCall[n] \in Seq(Nodes)
      BY DEF ExtInv, ExtTypeOK, ListInv, TypeOK
    <2> QED
      BY <2>1, <2>2 DEF ExtInv, NodeFits, Refused, Linked, WasLinked
  <1> QED
    BY <1>1, ExtInvariant, PTL

(* An extension whose device answered works from then on, on all pins of   *)
(* its block if the block fits an int.                                     *)
THEOREM LoadedExtensionsWork == ASSUME Serial PROVE ExtSpec => []LoadedWorks
  <1>1. ExtInv => LoadedWorks
    <2> SUFFICES ASSUME ExtInv, NEW n \in loaded \cap answered
                 PROVE  n \in handlers /\ (End(n) <= IntMax + 1 => \A p \in Block(n) : Found(n, p))
      BY DEF LoadedWorks
    <2>1. n \in Nodes /\ n \in handlers /\ pc[n] = "ready"
      BY DEF ExtInv, ExtTypeOK, NodeFits, Working
    <2>2. ASSUME NEW p \in Block(n) PROVE p \in Int
      BY <2>1, NodeAssumption DEF Block
    <2> QED
      BY <2>1, <2>2, ReadyFound DEF ExtInv
  <1> QED
    BY <1>1, ExtInvariant, PTL
=============================================================================
