----------------------------- MODULE IsrService -----------------------------
(***************************************************************************)
(* What wiringPiISR promises its callers, without the thread, the hand-off  *)
(* of the pin and the file.  A call clears what is pending on its pin,      *)
(* installs its function and returns only when its handler has started.     *)
(* From then on the handler runs a function for edges and for nothing else: *)
(* one run at most for the edges since the run before, of the function that *)
(* was installed last for the pin of its call.                              *)
(***************************************************************************)
CONSTANTS
    Calls,  \* the calls of wiringPiISR made during the process's life
    Pins,   \* the pins they name
    PinOf,  \* the pin of each call
    NoCall  \* no function

VARIABLES
    phase,     \* called, cleared, stored, started or returned, for each call
    installed, \* pin -> the call whose function is installed last
    since,     \* the calls whose pin had an edge their handler did not accept
    due,       \* the calls whose handler has accepted an edge
    running    \* call -> the function its handler runs

sVars == <<phase, installed, since, due, running>>

SInit ==
    /\ phase = [c \in Calls |-> "called"]
    /\ installed = [p \in Pins |-> NoCall]
    /\ since = {} /\ due = {}
    /\ running = [c \in Calls |-> NoCall]

Advance(c, from, to) ==
    /\ phase[c] = from
    /\ phase' = [phase EXCEPT ![c] = to]

Clear(c) ==
    /\ Advance(c, "called", "cleared")
    /\ since' = since \ {c}
    /\ UNCHANGED <<installed, due, running>>

Install(c) ==
    /\ Advance(c, "cleared", "stored")
    /\ installed' = [installed EXCEPT ![PinOf[c]] = c]
    /\ UNCHANGED <<since, due, running>>

StartHandler(c) ==
    /\ Advance(c, "stored", "started")
    /\ UNCHANGED <<installed, since, due, running>>

ReturnFrom(c) ==
    /\ Advance(c, "started", "returned")
    /\ UNCHANGED <<installed, since, due, running>>

Arrive(p) ==
    /\ since' = since \cup {c \in Calls : PinOf[c] = p}
    /\ UNCHANGED <<phase, installed, due, running>>

Accept(c) ==
    /\ phase[c] \in {"started", "returned"}
    /\ c \in since /\ c \notin due /\ running[c] = NoCall
    /\ since' = since \ {c} /\ due' = due \cup {c}
    /\ UNCHANGED <<phase, installed, running>>

Run(c) ==
    /\ c \in due
    /\ installed[PinOf[c]] # NoCall
    /\ running' = [running EXCEPT ![c] = installed[PinOf[c]]]
    /\ due' = due \ {c}
    /\ UNCHANGED <<phase, installed, since>>

Finish(c) ==
    /\ running' = [running EXCEPT ![c] = NoCall]
    /\ UNCHANGED <<phase, installed, since, due>>

SNext ==
    \/ \E c \in Calls : \/ Clear(c) \/ Install(c) \/ StartHandler(c) \/ ReturnFrom(c)
                        \/ Accept(c) \/ Run(c) \/ Finish(c)
    \/ \E p \in Pins : Arrive(p)

SSpec == SInit /\ [][SNext]_sVars
=============================================================================
