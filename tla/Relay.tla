------------------------------- MODULE Relay -------------------------------
(***************************************************************************)
(* The relay server, src/ml/net/server: main installs eight signal         *)
(* handlers and the interrupt handlers, and then serves one TCP client at  *)
(* a time (networks.c).  Relay_Index is written by signal handlers, which  *)
(* run between any two steps, and by the thread of the interrupt IRA1      *)
(* (intr.c), which reads it first; the server loop reads it.  Signals come *)
(* from runs of sp_client (src/ml/net/client/main.c).                      *)
(*                                                                         *)
(* A request is a sequence of words, two of which, one after the other,    *)
(* stand for the text the server looks for.                                *)
(***************************************************************************)
EXTENDS Integers, Sequences, SequencesExt

CONSTANTS
    Clients,     \* TCP clients
    Requests,    \* what recv may return: words, the text or a part of it
    Indices,     \* the command line arguments sp_client is called with
    MaxCommands, \* bound on runs of sp_client
    MaxPresses   \* bound on interrupts

WhoIAm == <<"GET /esp_wifi/", "HTTP/1.1">>
Cells  == 1 .. 3 \* bound: BUFF_SIZE, in words
Words  == {"", "garbage"} \cup UNION {ToSet(r) : r \in Requests}

NoClient == "none"

ASSUME RelayAssumption ==
    /\ \A r \in Requests : r \in Seq(STRING) /\ Len(r) \in Cells
    /\ NoClient \notin Clients
    /\ Indices \subseteq Int
    /\ MaxCommands \in Nat /\ MaxPresses \in Nat

relay_switch == <<"UNKNOWN", "GPON1", "GPON2", "GPON3", "GPON4", "GOFF1", "GOFF2", "GOFF3", "GOFF4">>

\* The signal sp_client sends for its argument.
sig == <<"SIGUSR1", "SIGUSR2", "SIGALRM", "SIGVTALRM", "SIGTTIN", "SIGTTOU", "SIGURG", "SIGPROF">>
Signals == ToSet(sig)

Bug_Installs == <<
    <<"SIGUSR1", "signal_relay_on1">>,  <<"SIGUSR2", "signal_relay_on2">>,
    <<"SIGALRM", "signal_relay_on3">>,  <<"SIGVTALRM", "signal_relay_on4">>,
    <<"SIGTTIN", "signal_relay_off1">>, <<"SIGTTOU", "signal_relay_off2">>,
    <<"SIGURG", "signal_relay_off4">>,  <<"SIGPROF", "signal_relay_off3">> >>

\* The signals main installs handlers for, in its order, and the handlers.
Installs == <<
    <<"SIGUSR1", "signal_relay_on1">>,  <<"SIGUSR2", "signal_relay_on2">>,
    <<"SIGALRM", "signal_relay_on3">>,  <<"SIGVTALRM", "signal_relay_on4">>,
    <<"SIGTTIN", "signal_relay_off1">>, <<"SIGTTOU", "signal_relay_off2">>,
    <<"SIGURG", "signal_relay_off3">>,  <<"SIGPROF", "signal_relay_off4">> >>

\* What each handler stores in Relay_Index.
Stores == [signal_relay_on1  |-> 1, signal_relay_on2  |-> 2, signal_relay_on3  |-> 3,
           signal_relay_on4  |-> 4, signal_relay_off1 |-> 5, signal_relay_off2 |-> 6,
           signal_relay_off3 |-> 7, signal_relay_off4 |-> 8]

\* What "sp_client idx" is run for: net_spi.c runs it with 0 to switch the first
\* relay on and with 4 to switch it off; the others follow in the same order.
Asked(idx) ==
    CASE idx = 0 -> "GPON1" [] idx = 1 -> "GPON2" [] idx = 2 -> "GPON3" [] idx = 3 -> "GPON4"
      [] idx = 4 -> "GOFF1" [] idx = 5 -> "GOFF2" [] idx = 6 -> "GOFF3" [] idx = 7 -> "GOFF4"
Sensor == {"GPON1", "GOFF1"}

VARIABLES
    pc,          \* where main is; "paused" after net_server returned
    installed,   \* how many handlers main has installed
    pending,     \* signals sent and not delivered yet
    Relay_Index,
    pressed, loaded, \* the IRA1 thread: in the handler, and what it read
    presses, commands,
    status,      \* each client: "away", "open", "closed" or "reset"
    inbox,       \* what it sent and the server did not read
    backlog,     \* clients waiting to be accepted
    serving,     \* client_socket
    buff_rcv, buff_snd, \* kept from client to client
    answer,      \* what the client being served was sent
    burst,       \* history: what was asked of the relays since all was quiet
    seen         \* history: Relay_Index since the client was accepted

relay == <<pending, Relay_Index, pressed, loaded, presses, commands, burst>>
net   == <<status, inbox, backlog, serving, buff_rcv, buff_snd, answer>>
vars  == <<pc, installed, relay, net, seen>>

TypeOK ==
    /\ pc \in {"signal", "intr", "bind", "listen", "accept", "recv", "strstr", "write", "close",
               "paused", "killed", "stopped"}
    /\ installed \in 0 .. Len(Installs)
    /\ pending \subseteq Signals
    /\ Relay_Index \in 0 .. 8 /\ loaded \in 0 .. 8
    /\ serving \in Clients \cup {NoClient}
    /\ backlog \in Seq(Clients)
    /\ status \in [Clients -> {"away", "open", "closed", "reset"}]
    /\ inbox \in [Clients -> Requests \cup {<<>>}]
    /\ buff_rcv \in [Cells -> Words]

Init ==
    /\ pc = "signal" /\ installed = 0
    /\ pending = {} /\ Relay_Index = 0 /\ pressed = FALSE /\ loaded = 0
    /\ presses = 0 /\ commands = 0 /\ burst = {}
    /\ status = [c \in Clients |-> "away"]
    /\ inbox = [c \in Clients |-> <<>>]
    /\ backlog = <<>> /\ serving = NoClient
    /\ \E cell \in {"", "garbage"} : buff_rcv = [i \in Cells |-> cell] \* "" ends a string
    /\ buff_snd = "garbage"
    /\ answer = "nothing"
    /\ seen = {}

Running == pc \notin {"killed", "stopped"}
Goto(from, to) == pc = from /\ pc' = to
See == seen' = IF serving = NoClient THEN {} ELSE seen \cup {Relay_Index'}

-----------------------------------------------------------------------------
(* main *)

InstallHandler ==
    /\ Goto("signal", IF installed + 1 < Len(Installs) THEN "signal" ELSE "intr")
    /\ installed' = installed + 1
    /\ UNCHANGED <<relay, net, seen>>

\* dev_lib_setup and intr_init.
InitInterrupts == Goto("intr", "bind") /\ UNCHANGED <<installed, relay, net, seen>>

\* When net_server returns, main pauses for good and still takes signals.
Bind ==
    /\ Goto("bind", "listen") \/ Goto("bind", "paused")
    /\ UNCHANGED <<installed, relay, net, seen>>

-----------------------------------------------------------------------------
(* Signals and the interrupt *)

\* The handler of a signal, its place among those main installs, and the
\* argument that makes sp_client send the signal.
Place(s)   == SelectInSeq(Installs, LAMBDA e : e[1] = s)
Handler(s) == Installs[Place(s)][2]
Command(s) == SelectInSeq(sig, LAMBDA t : t = s) - 1

\* A run of sp_client: the process it finds may not be the server.
SpClient(idx) ==
    /\ commands < MaxCommands
    /\ commands' = commands + 1
    /\ \/ /\ 0 <= idx /\ idx < Len(sig)
          /\ pending' = pending \cup {sig[idx + 1]}
          /\ burst' = (IF pending = {} /\ ~pressed THEN {} ELSE burst) \cup {Asked(idx)}
       \/ UNCHANGED <<pending, burst>>
    /\ UNCHANGED <<pc, installed, Relay_Index, pressed, loaded, presses, net, seen>>

\* In any order; a signal without its handler has its default action.
Deliver(s) ==
    /\ Running /\ s \in pending
    /\ pending' = pending \ {s}
    /\ IF Place(s) <= installed
         THEN Relay_Index' = Stores[Handler(s)] /\ UNCHANGED <<pc, burst>>
         ELSE /\ UNCHANGED Relay_Index
              /\ burst' = burst \ {Asked(Command(s))}
              /\ pc' = CASE s = "SIGURG" -> pc
                         [] s \in {"SIGTTIN", "SIGTTOU"} -> "stopped"
                         [] OTHER -> "killed"
    /\ See
    /\ UNCHANGED <<installed, pressed, loaded, presses, commands, net>>

\* IRA1: serial_send, then the two halves of the assignment.
IRA1 ==
    /\ Running /\ pc \notin {"signal", "intr"}
    /\ ~pressed /\ presses < MaxPresses
    /\ pressed' = TRUE /\ loaded' = Relay_Index /\ presses' = presses + 1
    /\ burst' = (IF pending = {} THEN {} ELSE burst) \cup Sensor
    /\ UNCHANGED <<pc, installed, pending, Relay_Index, commands, net, seen>>

\* ///Off:On
IRA1Store ==
    /\ Running /\ pressed
    /\ pressed' = FALSE /\ loaded' = 0
    /\ Relay_Index' = IF loaded = 1 THEN 5 ELSE 1
    /\ See
    /\ UNCHANGED <<pc, installed, pending, presses, commands, burst, net>>

-----------------------------------------------------------------------------
(* External: the clients *)

Connect(c) ==
    /\ status[c] = "away" /\ pc \in {"accept", "recv", "strstr", "write", "close"}
    /\ status' = [status EXCEPT ![c] = "open"]
    /\ backlog' = Append(backlog, c)
    /\ UNCHANGED <<pc, installed, relay, inbox, serving, buff_rcv, buff_snd, answer, seen>>

Send(c) ==
    /\ status[c] = "open" /\ inbox[c] = <<>> /\ ~(serving = c /\ pc # "recv")
    /\ \E r \in Requests : inbox' = [inbox EXCEPT ![c] = r]
    /\ UNCHANGED <<pc, installed, relay, status, backlog, serving, buff_rcv, buff_snd, answer, seen>>

HangUp(c) ==
    /\ status[c] = "open"
    /\ \E how \in {"closed", "reset"} : status' = [status EXCEPT ![c] = how]
    /\ UNCHANGED <<pc, installed, relay, inbox, backlog, serving, buff_rcv, buff_snd, answer, seen>>

-----------------------------------------------------------------------------
(* net_server *)

Listen ==
    /\ Goto("listen", "accept") \/ Goto("listen", "paused")
    /\ UNCHANGED <<installed, relay, net, seen>>

Accept ==
    /\ Goto("accept", "recv") /\ backlog # <<>>
    /\ serving' = Head(backlog) /\ backlog' = Tail(backlog)
    /\ seen' = {Relay_Index}
    /\ UNCHANGED <<installed, relay, status, inbox, buff_rcv, buff_snd, answer>>

AcceptFails == Goto("accept", "paused") /\ UNCHANGED <<installed, relay, net, seen>>

\* recv writes over the front of what is left of earlier requests.
Overlay(data) == [i \in Cells |-> IF i <= Len(data) THEN data[i] ELSE buff_rcv[i]]

Bug_Recv ==
    /\ pc = "recv"
    /\ IF status[serving] = "open" THEN pc' = "recv" ELSE pc' = "strstr"
    /\ buff_rcv' = Overlay(inbox[serving])
    /\ inbox' = [inbox EXCEPT ![serving] = <<>>]
    /\ UNCHANGED <<installed, relay, status, backlog, serving, buff_snd, answer, seen>>

\* A client that neither sends nor hangs up is waited for.
Recv ==
    /\ pc = "recv"
    /\ \/ /\ inbox[serving] # <<>> /\ status[serving] # "reset"
          /\ pc' = "strstr"
          /\ buff_rcv' = Overlay(inbox[serving])
          /\ inbox' = [inbox EXCEPT ![serving] = <<>>]
       \/ /\ status[serving] = "reset" \/ (status[serving] = "closed" /\ inbox[serving] = <<>>)
          /\ pc' = "write"
          /\ UNCHANGED <<buff_rcv, inbox>>
    /\ UNCHANGED <<installed, relay, status, backlog, serving, buff_snd, answer, seen>>

\* strstr, up to the end of the string or of the buffer.
Found ==
    \E i \in 1 .. Len(buff_rcv) - 1 :
        /\ SubSeq(buff_rcv, i, i + 1) = WhoIAm
        /\ \A j \in 1 .. i : buff_rcv[j] # ""

Bug_Strstr ==
    /\ Goto("strstr", "write")
    /\ buff_snd' = IF Found /\ buff_snd = "garbage" THEN relay_switch[Relay_Index + 1] ELSE buff_snd
    /\ UNCHANGED <<installed, relay, status, inbox, backlog, serving, buff_rcv, answer, seen>>

Strstr ==
    /\ Goto("strstr", "write")
    /\ buff_snd' = IF Found THEN relay_switch[Relay_Index + 1] ELSE buff_snd
    /\ UNCHANGED <<installed, relay, status, inbox, backlog, serving, buff_rcv, answer, seen>>

\* Whatever is in buff_snd is written, also to a client that asked nothing;
\* after a reset write raises SIGPIPE, unless the reset is reported first.
Write ==
    /\ \/ /\ Goto("write", "close")
          /\ answer' = IF status[serving] = "open" THEN buff_snd ELSE answer
       \/ Goto("write", "killed") /\ status[serving] = "reset" /\ UNCHANGED answer
    /\ UNCHANGED <<installed, relay, status, inbox, backlog, serving, buff_rcv, buff_snd, seen>>

Close ==
    /\ Goto("close", "listen")
    /\ serving' = NoClient /\ answer' = "nothing" /\ seen' = {}
    /\ status' = [status EXCEPT ![serving] = "closed"]
    /\ inbox' = [inbox EXCEPT ![serving] = <<>>]
    /\ UNCHANGED <<installed, relay, backlog, buff_rcv, buff_snd>>

Serve == Listen \/ Accept \/ AcceptFails \/ Recv \/ Strstr \/ Write \/ Close

Next ==
    \/ InstallHandler \/ InitInterrupts \/ Bind \/ Serve
    \/ \E idx \in Indices : SpClient(idx)
    \/ \E s \in Signals : Deliver(s)
    \/ IRA1 \/ IRA1Store
    \/ \E c \in Clients : Connect(c) \/ Send(c) \/ HangUp(c)

Spec == Init /\ [][Next]_vars

\* The server's thread runs; nothing is assumed of clients and signals.
FairSpec == Spec /\ WF_vars(Serve)

-----------------------------------------------------------------------------
(* A client that asks with the whole text is told a state the relays had   *)
(* while it was served, whatever the buffers still hold of other clients   *)
(* and whichever signals and interrupts come in between.                   *)
AskerTold ==
    pc = "close" /\ SubSeq(buff_rcv, 1, 2) = WhoIAm /\ answer # "nothing" =>
        \E i \in seen : answer = relay_switch[i + 1]

(* When nothing is on its way, the relays are as somebody asked since they *)
(* were last quiet: by a command that found its handler or, for the first  *)
(* relay, by the sensor, also when signals and the sensor's two steps      *)
(* overlap.  For that the table of the client, the handlers main installs, *)
(* what they store and the names the server sends have to agree.           *)
AsAsked ==
    Running /\ installed = Len(Installs) /\ pending = {} /\ ~pressed /\ burst # {} =>
        relay_switch[Relay_Index + 1] \in burst

(* A client that is being served and has sent something or hung up does    *)
(* not keep the others waiting: it is closed.                              *)
ClientClosed ==
    \A c \in Clients :
        serving = c /\ (inbox[c] # <<>> \/ status[c] # "open") ~> serving # c \/ ~Running
=============================================================================
