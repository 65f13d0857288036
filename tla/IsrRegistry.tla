---------------------------- MODULE IsrRegistry ----------------------------
(***************************************************************************)
(* wiringPiISR, interruptHandler and waitForInterrupt of                   *)
(* src/lib/wiringPi.c: every call registers a function for a pin and       *)
(* starts a thread, to which it hands the pin in the global pinPass under  *)
(* pinMutex; the thread then waits on the pin's sysfs file and calls the   *)
(* function at each edge.                                                  *)
(*                                                                         *)
(* A call is identified by an element of Calls and makes at most one       *)
(* thread, which bears the same name.  The pin tables (pinToGpio,          *)
(* physToGpio) are injective on the pins used, so sysFds is indexed by the *)
(* pin itself.                                                             *)
(***************************************************************************)
EXTENDS Naturals, FiniteSets

CONSTANTS
    Calls,       \* the calls of wiringPiISR made during the process's life
    Pins,        \* the pins they name
    PinOf,       \* the pin each call registers
    ThreadOf,    \* the program thread that makes it
    NoPin,       \* -1, the idle value of pinPass
    NoCall,      \* no call: nobody holds pinMutex, or a NULL isrFunctions entry
    CreateFails, \* pthread_create may fail
    OpenFails    \* opening the value file may fail, which exits the process

ASSUME PinAssumption ==
    PinOf \in [Calls -> Pins] /\ NoPin \notin Pins /\ NoCall \notin Calls
ASSUME FailAssumption == CreateFails \in BOOLEAN /\ OpenFails \in BOOLEAN

VARIABLES
    pc,           \* where each call of wiringPiISR is
    thread,       \* where the handler thread of each call is
    myPin,        \* its local variable of that name
    pinPass,      \* the hand-off variable
    pinMutex,     \* who holds the mutex
    isrFunctions, \* pin -> the call whose function is installed
    sysFds,       \* pin -> number of times its file was opened, 0 is -1
    running,      \* the call whose function the handler of each call runs
    event,        \* external: the value file of the pin has a pending edge
    owed,         \* an edge arrived that no function call has followed yet
    since         \* history: the calls whose pin had an edge after they cleared
                  \* it and after their handler last read the file

callVars    == <<pc, pinMutex, isrFunctions, sysFds>>
handlerVars == <<thread, myPin, pinPass, running>>
vars == <<callVars, handlerVars, event, owed, since>>

CallSteps   == {"check", "open", "clear", "store", "lock", "pass", "create",
                "spin", "unlock", "done", "exit"}
ThreadSteps == {"none", "start", "took", "poll", "woken", "call", "running"}

TypeOK ==
    /\ pc \in [Calls -> CallSteps]
    /\ thread \in [Calls -> ThreadSteps]
    /\ myPin \in [Calls -> Pins \cup {NoPin}]
    /\ pinPass \in Pins \cup {NoPin}
    /\ pinMutex \in Calls \cup {NoCall}
    /\ isrFunctions \in [Pins -> Calls \cup {NoCall}]
    /\ sysFds \in [Pins -> Nat]
    /\ running \in [Calls -> Calls \cup {NoCall}]
    /\ event \in [Pins -> BOOLEAN]
    /\ owed \in [Pins -> BOOLEAN]
    /\ since \subseteq Calls

Init ==
    /\ pc = [c \in Calls |-> "check"]
    /\ thread = [c \in Calls |-> "none"]
    /\ myPin = [c \in Calls |-> NoPin]
    /\ pinPass = NoPin
    /\ pinMutex = NoCall
    /\ isrFunctions = [p \in Pins |-> NoCall]
    /\ sysFds = [p \in Pins |-> 0]
    /\ running = [c \in Calls |-> NoCall]
    /\ event = [p \in Pins |-> FALSE]
    /\ owed = [p \in Pins |-> FALSE]
    /\ since = {}

Running == \A c \in Calls : pc[c] # "exit"

CallStep(c, from, to) ==
    /\ Running
    /\ pc[c] = from
    /\ pc' = [pc EXCEPT ![c] = to]

ThreadStep(c, from, to) ==
    /\ Running
    /\ thread[c] = from
    /\ thread' = [thread EXCEPT ![c] = to]

-----------------------------------------------------------------------------
(* wiringPiISR *)

\* A thread makes one call at a time.
MayCall(c) ==
    \A d \in Calls : ThreadOf[d] = ThreadOf[c] => pc[d] \in {"check", "done"}

\* sysFds [bcmGpioPin] == -1 ?
CheckFd(c) ==
    /\ MayCall(c)
    /\ CallStep(c, "check", IF sysFds[PinOf[c]] = 0 THEN "open" ELSE "clear")
    /\ UNCHANGED <<handlerVars, pinMutex, isrFunctions, sysFds, event, owed, since>>

OpenFd(c) ==
    /\ CallStep(c, "open", "clear")
    /\ sysFds' = [sysFds EXCEPT ![PinOf[c]] = @ + 1]
    /\ UNCHANGED <<handlerVars, pinMutex, isrFunctions, event, owed, since>>

OpenExits(c) ==
    /\ OpenFails
    /\ CallStep(c, "open", "exit")
    /\ UNCHANGED <<handlerVars, pinMutex, isrFunctions, sysFds, event, owed, since>>

\* Clear any initial pending interrupt.
ClearPending(c) ==
    /\ CallStep(c, "clear", "store")
    /\ event' = [event EXCEPT ![PinOf[c]] = FALSE]
    /\ since' = since \ {c}
    /\ UNCHANGED <<handlerVars, pinMutex, isrFunctions, sysFds, owed>>

StoreFunction(c) ==
    /\ CallStep(c, "store", "lock")
    /\ isrFunctions' = [isrFunctions EXCEPT ![PinOf[c]] = c]
    /\ UNCHANGED <<handlerVars, pinMutex, sysFds, event, owed, since>>

Bug_LockIgnored(c) ==
    /\ CallStep(c, "lock", "pass")
    /\ pinMutex' = c
    /\ UNCHANGED <<handlerVars, isrFunctions, sysFds, event, owed, since>>

Lock(c) ==
    /\ CallStep(c, "lock", "pass")
    /\ pinMutex = NoCall
    /\ pinMutex' = c
    /\ UNCHANGED <<handlerVars, isrFunctions, sysFds, event, owed, since>>

PassPin(c) ==
    /\ CallStep(c, "pass", "create")
    /\ pinPass' = PinOf[c]
    /\ UNCHANGED <<thread, myPin, running, pinMutex, isrFunctions, sysFds, event, owed, since>>

\* The result of pthread_create is ignored.
CreateThread(c) ==
    /\ CallStep(c, "create", "spin")
    /\ \/ thread' = [thread EXCEPT ![c] = "start"]
       \/ CreateFails /\ UNCHANGED thread
    /\ UNCHANGED <<myPin, pinPass, running, pinMutex, isrFunctions, sysFds, event, owed, since>>

\* while (pinPass != -1) delay (1) ;
Spin(c) ==
    /\ CallStep(c, "spin", "unlock")
    /\ pinPass = NoPin
    /\ UNCHANGED <<handlerVars, pinMutex, isrFunctions, sysFds, event, owed, since>>

Bug_NoUnlock(c) ==
    /\ CallStep(c, "unlock", "done")
    /\ UNCHANGED <<handlerVars, pinMutex, isrFunctions, sysFds, event, owed, since>>

Unlock(c) ==
    /\ CallStep(c, "unlock", "done")
    /\ pinMutex' = NoCall
    /\ UNCHANGED <<handlerVars, isrFunctions, sysFds, event, owed, since>>

-----------------------------------------------------------------------------
(* interruptHandler and waitForInterrupt *)

TakePin(c) ==
    /\ ThreadStep(c, "start", "took")
    /\ myPin' = [myPin EXCEPT ![c] = pinPass]
    /\ UNCHANGED <<callVars, pinPass, running, event, owed, since>>

ReleasePin(c) ==
    /\ ThreadStep(c, "took", "poll")
    /\ pinPass' = NoPin
    /\ UNCHANGED <<callVars, myPin, running, event, owed, since>>

\* poll returns: the file is open and has an edge this thread may read.
Poll(c) ==
    /\ ThreadStep(c, "poll", "woken")
    /\ myPin[c] \in Pins
    /\ sysFds[myPin[c]] > 0
    /\ event[myPin[c]]
    /\ UNCHANGED <<callVars, myPin, pinPass, running, event, owed, since>>

\* The dummy read is missing: the edge stays pending.
Bug_NoDummyRead(c) ==
    /\ ThreadStep(c, "woken", "call")
    /\ since' = since \ {c}
    /\ UNCHANGED <<callVars, myPin, pinPass, running, event, owed>>

\* Read & clear, before the function is called.
ReadEvent(c) ==
    /\ ThreadStep(c, "woken", "call")
    /\ event' = [event EXCEPT ![myPin[c]] = FALSE]
    /\ since' = since \ {c}
    /\ UNCHANGED <<callVars, myPin, pinPass, running, owed>>

\* isrFunctions [myPin] () starts; every edge so far is served by it.
CallFunction(c) ==
    /\ ThreadStep(c, "call", "running")
    /\ running' = [running EXCEPT ![c] = isrFunctions[myPin[c]]]
    /\ owed' = [owed EXCEPT ![myPin[c]] = FALSE]
    /\ UNCHANGED <<callVars, myPin, pinPass, event, since>>

\* The file is read once more after the function: an edge that arrived
\* while it ran is cleared without a call.
Bug_ClearAfterCall(c) ==
    /\ ThreadStep(c, "running", "poll")
    /\ running' = [running EXCEPT ![c] = NoCall]
    /\ event' = [event EXCEPT ![myPin[c]] = FALSE]
    /\ UNCHANGED <<callVars, myPin, pinPass, owed, since>>

\* The function returns, and the for loop waits again.
FunctionReturns(c) ==
    /\ ThreadStep(c, "running", "poll")
    /\ running' = [running EXCEPT ![c] = NoCall]
    /\ UNCHANGED <<callVars, myPin, pinPass, event, owed, since>>

-----------------------------------------------------------------------------
(* External: an edge on the pin.  A caller that was told its pin is        *)
(* registered is owed a function call.                                     *)
Edge(p) ==
    /\ Running
    /\ event' = [event EXCEPT ![p] = TRUE]
    /\ owed' = [owed EXCEPT ![p] =
                  @ \/ \E c \in Calls : PinOf[c] = p /\ pc[c] = "done"]
    /\ since' = since \cup {c \in Calls : PinOf[c] = p}
    /\ UNCHANGED <<callVars, handlerVars>>

Caller(c) ==
    \/ CheckFd(c) \/ OpenFd(c) \/ OpenExits(c) \/ ClearPending(c)
    \/ StoreFunction(c) \/ Lock(c) \/ PassPin(c) \/ CreateThread(c)
    \/ Spin(c) \/ Unlock(c)

Handler(c) ==
    \/ TakePin(c) \/ ReleasePin(c) \/ Poll(c) \/ ReadEvent(c) \/ CallFunction(c)
    \/ FunctionReturns(c)

Next ==
    \/ \E c \in Calls : Caller(c) \/ Handler(c)
    \/ \E p \in Pins : Edge(p)

Spec == Init /\ [][Next]_vars

(***************************************************************************)
(* Every thread is scheduled, and the functions return.  A thread waiting  *)
(* for the mutex gets it if it is free again and again, which needs strong *)
(* fairness of Lock.                                                       *)
(***************************************************************************)
FairSpec ==
    /\ Spec
    /\ \A c \in Calls : WF_vars(Caller(c)) /\ WF_vars(Handler(c)) /\ SF_vars(Lock(c))

-----------------------------------------------------------------------------
CallsFor(p)   == {c \in Calls : PinOf[c] = p}
Threadless(c) == pc[c] = "spin" /\ thread[c] = "none"

(* The hand-off is exact: whatever other calls run at the same time, a     *)
(* handler thread serves the pin of the call that created it, and the call *)
(* does not return before it does.                                         *)
ServesOwnPin ==
    \A c \in Calls :
        /\ thread[c] \notin {"none", "start"} => myPin[c] = PinOf[c]
        /\ pc[c] \in {"unlock", "done"} => thread[c] \notin {"none", "start", "took"}

(* Every call of wiringPiISR returns or ends the process, unless           *)
(* pthread_create failed: then its caller waits for ever with pinMutex.    *)
CallReturns ==
    \A c \in Calls : <>(pc[c] = "done" \/ ~Running \/ \E d \in Calls : Threadless(d))

(* An edge on a pin that was registered once is followed by a call of the  *)
(* function, also when it arrives while the handler is busy with the one   *)
(* before.  (A second registration drops the edges that are pending.)      *)
EdgeServed ==
    \A p \in Pins : Cardinality(CallsFor(p)) = 1 => (owed[p] ~> (~owed[p] \/ ~Running))

-----------------------------------------------------------------------------
(* The calls implement IsrService: whatever registrations run at the same   *)
(* time, a handler calls the function installed last for the pin of its     *)
(* call, never before one is installed (isrFunctions starts out empty), and *)
(* once at most for the edges that arrived before it read the file.         *)
PhaseAt(step, handler) ==
    CASE step = "done"                                        -> "returned"
      [] step \in {"check", "open", "clear", "exit"}          -> "called"
      [] step = "store"                                       -> "cleared"
      [] step \in {"lock", "pass", "create", "spin", "unlock"} ->
           IF handler \in {"none", "start"} THEN "stored" ELSE "started"

phase == [c \in Calls |-> PhaseAt(pc[c], thread[c])]
due == {c \in Calls : thread[c] = "call"}

Service == INSTANCE IsrService WITH installed <- isrFunctions
ServiceSpec == Service!SSpec
=============================================================================
