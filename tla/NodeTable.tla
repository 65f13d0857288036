----------------------------- MODULE NodeTable -----------------------------
(***************************************************************************)
(* The device node list of src/lib/wiringPi.c.  Every expander driver      *)
(* (mcp23017Setup, sr595Setup, drcSetupSerial, ...) calls wiringPiNewNode  *)
(* for a block of pins and then installs its handlers in the node; pinMode,*)
(* digitalWrite and the other core functions look a pin up with            *)
(* wiringPiFindNode.  The list is not locked.                              *)
(*                                                                         *)
(* A node is named after the setup call that makes it.                     *)
(***************************************************************************)
EXTENDS Integers, Sequences

CONSTANTS
    Nodes,    \* the setup calls of a process
    PinBase,  \* their arguments
    NumPins,
    Pins,     \* the pin numbers the program uses
    NoNode,   \* NULL
    Serial,   \* all setup calls come from one thread
    IntMax    \* the largest int: 2^31 - 1 in the code

ASSUME NodeAssumption ==
    /\ IntMax \in Nat
    /\ PinBase \in [Nodes -> -IntMax - 1 .. IntMax]
    /\ NumPins \in [Nodes -> 0 .. IntMax]
    /\ Pins \subseteq Int
    /\ NoNode \notin Nodes
    /\ Serial \in BOOLEAN

VARIABLES
    pc,            \* where each setup call is
    next,          \* node->next: the list behind the node when it was read
    wiringPiNodes, \* the list, most recent node first
    exited         \* wiringPiFailure (WPI_FATAL, ...) ended the process

vars == <<pc, next, wiringPiNodes, exited>>

Steps == {"check", "head", "link", "install", "ready"}

\* PI_GPIO_MASK: pins below this are on the board itself.
FirstNodePin == 64

\* A sum of two ints, as the machine leaves it.
AsInt(x) == IF x > IntMax THEN x - 2 * (IntMax + 1) ELSE x

\* The pins a call asks for, the first number behind them and what the node
\* keeps of them.
Block(n)  == PinBase[n] .. PinBase[n] + NumPins[n] - 1
End(n)    == PinBase[n] + NumPins[n]
pinMax(n) == AsInt(End(n) - 1)

Covers(n, p) == p >= PinBase[n] /\ p <= pinMax(n)

\* The positions of the list at which wiringPiFindNode could stop.
Matches(list, p) == {i \in DOMAIN list : Covers(list[i], p)}

\* wiringPiFindNode: the first node of the list whose block has the pin.
FindNode(list, p) ==
    IF Matches(list, p) = {} THEN NoNode
    ELSE list[CHOOSE i \in Matches(list, p) : \A j \in Matches(list, p) : i <= j]

TypeOK ==
    /\ pc \in [Nodes -> Steps]
    /\ next \in [Nodes -> Seq(Nodes)]
    /\ wiringPiNodes \in Seq(Nodes)
    /\ exited \in BOOLEAN

Init ==
    /\ pc = [n \in Nodes |-> "check"]
    /\ next = [n \in Nodes |-> <<>>]
    /\ wiringPiNodes = <<>>
    /\ exited = FALSE

Step(n, from, to) ==
    /\ ~exited
    /\ pc[n] = from
    /\ pc' = [pc EXCEPT ![n] = to]

MayStart(n) == Serial => \A m \in Nodes : pc[m] \in {"check", "ready"}

\* The pins of a call that lead to a node already.
Taken(n) == {p \in Block(n) : FindNode(wiringPiNodes, p) # NoNode}

\* The loop that looks for them ends at pinBase + numPins.  If that sum does
\* not fit an int, its wrapped value ends the loop before the first pin; a
\* compiler that counts the pins instead goes through them.
LoopWraps(n) == End(n) > IntMax

Bug_CheckBaseOnly(n) ==
    /\ MayStart(n)
    /\ PinBase[n] >= FirstNodePin
    /\ FindNode(wiringPiNodes, PinBase[n]) = NoNode
    /\ Step(n, "check", "head")
    /\ UNCHANGED <<next, wiringPiNodes, exited>>

Check(n) ==
    /\ MayStart(n)
    /\ PinBase[n] >= FirstNodePin
    /\ Taken(n) = {} \/ LoopWraps(n)
    /\ Step(n, "check", "head")
    /\ UNCHANGED <<next, wiringPiNodes, exited>>

Refuse(n) ==
    /\ ~exited
    /\ pc[n] = "check"
    /\ MayStart(n)
    /\ PinBase[n] < FirstNodePin \/ Taken(n) # {}
    /\ exited' = TRUE
    /\ UNCHANGED <<pc, next, wiringPiNodes>>

\* node->next = wiringPiNodes
ReadHead(n) ==
    /\ Step(n, "head", "link")
    /\ next' = [next EXCEPT ![n] = wiringPiNodes]
    /\ UNCHANGED <<wiringPiNodes, exited>>

Bug_LinkForgetsNext(n) ==
    /\ Step(n, "link", "install")
    /\ wiringPiNodes' = <<n>>
    /\ UNCHANGED <<next, exited>>

\* wiringPiNodes = node
Link(n) ==
    /\ Step(n, "link", "install")
    /\ wiringPiNodes' = <<n>> \o next[n]
    /\ UNCHANGED <<next, exited>>

\* The driver's setup function replaces the dummy handlers.
Install(n) ==
    /\ Step(n, "install", "ready")
    /\ UNCHANGED <<next, wiringPiNodes, exited>>

Next == \E n \in Nodes : Check(n) \/ Refuse(n) \/ ReadHead(n) \/ Link(n) \/ Install(n)

Spec == Init /\ [][Next]_vars

-----------------------------------------------------------------------------
\* A block whose last pin is IntMax: its pins are covered, but pinBase +
\* numPins wraps, so that nothing keeps it off the pins of other nodes.
AtLimit(n) == End(n) = IntMax + 1

(* No pin has two nodes and no on-board pin has one, so that the order of  *)
(* the list never decides which device a pin number reaches.  (A block     *)
(* that ends at IntMax is not checked and may lie over another.)           *)
PinsOwnedOnce ==
    \A p \in Pins :
        /\ \A i, j \in Matches(wiringPiNodes, p) :
              i = j \/ AtLimit(wiringPiNodes[i]) \/ AtLimit(wiringPiNodes[j])
        /\ p < FirstNodePin => Matches(wiringPiNodes, p) = {}

\* n is where a lookup of p ends, unless an unchecked block hides it.
Found(n, p) ==
    LET at == FindNode(wiringPiNodes, p)
    IN  at = n \/ (at # NoNode /\ AtLimit(at))

(* A set-up device stays reachable: each of its pins leads to its node,    *)
(* also at the upper end of the pin numbers.  A block that does not fit    *)
(* below IntMax is accepted too, and none of its pins leads anywhere.      *)
SetupReachable ==
    \A n \in Nodes : pc[n] = "ready" =>
        \A p \in Pins :
            IF End(n) <= IntMax + 1 THEN p \in Block(n) => Found(n, p)
            ELSE FindNode(wiringPiNodes, p) # n

(* Lookups are stable: once a pin leads to a node, later set-ups never     *)
(* redirect it (to a block that was checked), so a reader needs no lock    *)
(* against them.                                                           *)
LookupStable ==
    [][\A p \in Pins : FindNode(wiringPiNodes, p) # NoNode
          => LET new == FindNode(wiringPiNodes', p)
             IN  new = FindNode(wiringPiNodes, p) \/ (new # NoNode /\ AtLimit(new))]_vars
=============================================================================
