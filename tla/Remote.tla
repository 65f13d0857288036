------------------------------- MODULE Remote -------------------------------
(***************************************************************************)
(* Remote pins: src/lib/drcSerial.c drives an ATmega over a serial line,   *)
(* src/lib/drcNet.c another Pi over TCP.  Both set the connection up, make *)
(* a node, and turn each call on its pins into a command; reads wait for   *)
(* the answer.  On the line every byte is written on its own and a read    *)
(* gives up after ten seconds; on the socket a command is one send and one *)
(* recv that waits for ever.  Nothing is locked, and no answer names the   *)
(* question it belongs to.                                                 *)
(*                                                                         *)
(* The device and the server are not in the repository: they are assumed   *)
(* to execute commands in order and to answer each question once.  Only    *)
(* the server is assumed to keep running.                                  *)
(***************************************************************************)
EXTENDS Integers, Sequences, FiniteSets

CONSTANTS
    Threads,
    Links,    \* "serial", "net"
    Modes,    \* the pin modes used
    MaxCalls, \* bound on calls
    MaxTries  \* pings of drcSetupSerial: 4 in the code

ASSUME RemoteAssumption ==
    Links \subseteq {"serial", "net"} /\ MaxCalls \in Nat /\ MaxTries \in Nat

VARIABLES
    link,     \* which of the two it is
    st,       \* how far the setup is
    tries,    \* drcSetupSerial's pings
    password, \* whether the program gives the right one
    srv,      \* what the server knows of the connection
    lost,     \* the connection is closed at the other end
    exited,   \* SIGPIPE
    toDev, toHost, \* bytes or commands, and answers, on their way
    cur,      \* the bytes of a command the device has so far
    dev,      \* the device's pin
    todo,     \* what is left of each thread's call
    id,       \* the calls so far; a call is known by its number
    mine,     \* the call of each thread
    late,     \* history: answers their reader no longer waits for
    crossed,  \* history: a thread took the answer to another question
    overlap,  \* history: two calls were in progress at once
    asked     \* history: the pin as the calls want it

setup == <<link, password, srv, st, tries>>
remoteVars == <<setup, lost, exited, toDev, toHost, cur, dev, todo, id, mine, late, crossed, overlap, asked>>

Pong == [for |-> 0, part |-> 1]
Idle(t) == todo[t] = <<>>

RemoteTypeOK ==
    /\ link \in Links
    /\ st \in {"open", "flush", "ping", "wait", "connect", "challenge", "answer", "lowat", "up", "failed"}
    /\ late \in 0 .. MaxTries + 2 * MaxCalls
    /\ dev.mode \in {"i", "o", "p"} /\ asked.mode \in {"i", "o", "p"}
    /\ \A t \in Threads : Len(todo[t]) <= 4

RemoteInit ==
    /\ link \in Links
    /\ st = IF link = "serial" THEN "open" ELSE "connect"
    /\ password \in BOOLEAN
    /\ toHost \in IF link = "serial" THEN {<<>>, <<Pong>>} ELSE {<<>>}  \* left by an earlier process
    /\ tries = 0 /\ id = 0 /\ late = 0
    /\ srv = "none"
    /\ lost = FALSE /\ exited = FALSE /\ crossed = FALSE /\ overlap = FALSE
    /\ toDev = <<>> /\ cur = <<>>
    /\ dev = [mode |-> "i", level |-> "0", pwm |-> "0"]
    /\ asked = dev
    /\ todo = [t \in Threads |-> <<>>] /\ mine = [t \in Threads |-> 0]

-----------------------------------------------------------------------------
(* drcSetupSerial                                                          *)
SerialSetup(from, to) ==
    /\ link = "serial" /\ st = from /\ st' = to
    /\ UNCHANGED <<link, password, srv, lost, exited, cur, dev, todo, id, mine, crossed, overlap, asked>>

SerialOpen ==
    /\ SerialSetup("open", "flush") \/ SerialSetup("open", "failed")
    /\ UNCHANGED <<toDev, toHost, tries, late>>

Bug_NoFlush == SerialSetup("flush", "ping") /\ UNCHANGED <<toDev, toHost, tries, late>>

Flush ==
    /\ SerialSetup("flush", "ping")
    /\ toHost' = <<>>
    /\ UNCHANGED <<toDev, tries, late>>

Ping ==
    /\ tries < MaxTries
    /\ SerialSetup("ping", "wait")
    /\ tries' = tries + 1
    /\ toDev' = Append(toDev, [b |-> "@", for |-> 0])
    /\ UNCHANGED <<toHost, late>>

Pinged ==
    /\ toHost # <<>>
    /\ SerialSetup("wait", IF Head(toHost) = Pong THEN "up" ELSE "wait")
    /\ toHost' = Tail(toHost)
    /\ UNCHANGED <<toDev, tries, late>>

\* Two seconds are over; the ping is still on its way.
PingTimesOut ==
    /\ SerialSetup("wait", "ping")
    /\ late' = late + 1
    /\ UNCHANGED <<toDev, toHost, tries>>

GiveUp ==
    /\ tries = MaxTries
    /\ SerialSetup("ping", "failed")
    /\ UNCHANGED <<toDev, toHost, tries, late>>

(* _drcSetupNet and drcSetupNet                                            *)
NetSetup(from, to) ==
    /\ link = "net" /\ st = from /\ st' = to
    /\ UNCHANGED <<link, password, tries, exited, toDev, toHost, cur, dev, todo, id, mine,
                   late, crossed, overlap, asked>>

\* The addresses are tried in turn; a socket that cannot connect is left open.
NetConnect ==
    \/ NetSetup("connect", "challenge") /\ srv' = "asked" /\ UNCHANGED lost
    \/ NetSetup("connect", "failed") /\ UNCHANGED <<srv, lost>>

\* Lines are read until one is the challenge, or until the server hangs up.
Challenge ==
    /\ IF lost THEN NetSetup("challenge", "failed") ELSE NetSetup("challenge", "answer")
    /\ UNCHANGED <<srv, lost>>

\* The encrypted password is written and nothing is read back.
Authenticate ==
    /\ \/ NetSetup("answer", "failed") /\ lost /\ UNCHANGED srv
       \/ NetSetup("answer", "lowat") /\ srv' = "checking"
    /\ UNCHANGED lost

LowWaterMark ==
    /\ NetSetup("lowat", "up") \/ NetSetup("lowat", "failed")
    /\ UNCHANGED <<srv, lost>>

\* The server disconnects on a bad response.
Verify ==
    /\ srv = "checking"
    /\ srv' = IF password THEN "accepted" ELSE "rejected"
    /\ lost' = (lost \/ ~password)
    /\ UNCHANGED <<link, password, st, tries, exited, toDev, toHost, cur, dev, todo, id, mine,
                   late, crossed, overlap, asked>>

\* The connection breaks, or the server ends.
ServerEnds ==
    /\ link = "net" /\ srv # "none" /\ ~lost
    /\ lost' = TRUE
    /\ UNCHANGED <<setup, exited, toDev, toHost, cur, dev, todo, id, mine, late, crossed, overlap, asked>>

-----------------------------------------------------------------------------
(* The calls                                                               *)
Ops == {[op |-> "pinMode", arg |-> m] : m \in Modes}
   \cup {[op |-> "pull", arg |-> p] : p \in {"PUD_UP", "PUD_DOWN", "PUD_OFF"}}
   \cup {[op |-> "digitalWrite", arg |-> v] : v \in {"0", "1"}}
   \cup {[op |-> "pwmWrite", arg |-> "9"], [op |-> "digitalRead", arg |-> ""], [op |-> "analogRead", arg |-> ""]}

ModeByte(m) == CASE m = "OUTPUT" -> "o" [] m = "PWM_OUTPUT" -> "p" [] OTHER -> "i"

\* What the device or the server makes of a whole command.
Apply(s, c) ==
    CASE c[1] \in {"i", "o", "p"} -> [s EXCEPT !.mode = c[1]]
      [] c[1] \in {"0", "1"} -> [s EXCEPT !.level = c[1]]
      [] c[1] = "v" -> [s EXCEPT !.pwm = c[3]]
      [] OTHER -> s

Bug_Bytes(c) ==
    CASE c.op = "pinMode" -> <<ModeByte(c.arg), "pin">>
      [] c.op = "pull" /\ c.arg = "PUD_UP"   -> <<"1", "pin">>
      [] c.op = "pull" /\ c.arg = "PUD_OFF"  -> <<"0", "pin">>
      [] c.op = "pull" /\ c.arg = "PUD_DOWN" -> <<>>
      [] c.op = "digitalWrite" -> <<c.arg, "pin">>
      [] c.op = "pwmWrite"     -> <<"v", "pin", c.arg>>
      [] c.op = "digitalRead"  -> <<"r", "pin">>
      [] c.op = "analogRead"   -> <<"a", "pin">>

\* The bytes a call writes; a pull forces the pin into input mode first.
Bytes(c) ==
    CASE c.op = "pinMode" -> <<ModeByte(c.arg), "pin">>
      [] c.op = "pull" /\ c.arg = "PUD_UP"   -> <<"i", "pin", "1", "pin">>
      [] c.op = "pull" /\ c.arg = "PUD_OFF"  -> <<"i", "pin", "0", "pin">>
      [] c.op = "pull" /\ c.arg = "PUD_DOWN" -> <<"i", "pin">>
      [] c.op = "digitalWrite" -> <<c.arg, "pin">>
      [] c.op = "pwmWrite"     -> <<"v", "pin", c.arg>>
      [] c.op = "digitalRead"  -> <<"r", "pin">>
      [] c.op = "analogRead"   -> <<"a", "pin">>

\* What a caller expects of the pin after the call.
Wanted(s, c) ==
    CASE c.op = "pinMode" -> [s EXCEPT !.mode = ModeByte(c.arg)]
      [] c.op = "digitalWrite" -> [s EXCEPT !.level = c.arg]
      [] c.op = "pwmWrite" -> [s EXCEPT !.pwm = c.arg]
      [] c.op = "pull" -> [s EXCEPT !.mode = "i",
                                    !.level = IF c.arg = "PUD_UP" THEN "1"
                                              ELSE IF c.arg = "PUD_OFF" THEN "0" ELSE @]
      [] OTHER -> s

Gets(c) == CASE c.op = "digitalRead" -> 1 [] c.op = "analogRead" -> 2 [] OTHER -> 0

SerialSteps(c) ==
    [i \in DOMAIN Bytes(c) |-> [do |-> "put", what |-> Bytes(c)[i]]]
    \o [i \in 1 .. Gets(c) |-> [do |-> "get", part |-> i]]
NetSteps(c) == <<[do |-> "send", what |-> c], [do |-> "recv", part |-> 1]>>

\* One thread at a time uses a serial line; a socket several.
Call(t, c) ==
    /\ st = "up" /\ ~exited /\ id < MaxCalls /\ Idle(t)
    /\ link = "serial" => \A u \in Threads : Idle(u)
    /\ todo' = [todo EXCEPT ![t] = IF link = "serial" THEN SerialSteps(c) ELSE NetSteps(c)]
    /\ id' = id + 1 /\ mine' = [mine EXCEPT ![t] = id + 1]
    /\ overlap' = (overlap \/ \E u \in Threads : ~Idle(u))
    /\ asked' = IF link = "serial" THEN Wanted(asked, c) ELSE asked
    /\ UNCHANGED <<setup, lost, exited, toDev, toHost, cur, dev, late, crossed>>

Now(t, do) == ~exited /\ ~Idle(t) /\ Head(todo[t]).do = do
Done(t) == todo' = [todo EXCEPT ![t] = Tail(@)]

\* serialPutchar.  A byte carries the number of its call for the history only.
Put(t) ==
    /\ Now(t, "put") /\ Done(t)
    /\ toDev' = Append(toDev, [b |-> Head(todo[t]).what, for |-> mine[t]])
    /\ UNCHANGED <<setup, lost, exited, toHost, cur, dev, id, mine, late, crossed, overlap, asked>>

Take(t) ==
    /\ toHost # <<>>
    /\ toHost' = Tail(toHost)
    /\ crossed' = (crossed \/ Head(toHost) # [for |-> mine[t], part |-> Head(todo[t]).part])

Bug_Get(t) ==
    /\ Now(t, "get") /\ Done(t)
    /\ Take(t)
    /\ UNCHANGED <<setup, lost, exited, toDev, cur, dev, id, mine, late, overlap, asked>>

\* serialGetchar: a byte, or -1 after ten seconds.
Get(t) ==
    /\ Now(t, "get") /\ Done(t)
    /\ \/ Take(t) /\ UNCHANGED late
       \/ late' = late + 1 /\ UNCHANGED <<toHost, crossed>>
    /\ UNCHANGED <<setup, lost, exited, toDev, cur, dev, id, mine, overlap, asked>>

\* On a closed connection send fails or raises SIGPIPE, which nothing catches.
SendCommand(t) ==
    /\ Now(t, "send") /\ Done(t)
    /\ IF lost
       THEN exited' \in BOOLEAN /\ UNCHANGED <<toDev, asked>>
       ELSE /\ toDev' = Append(toDev, [call |-> Head(todo[t]).what, for |-> mine[t]])
            /\ asked' = Wanted(asked, Head(todo[t]).what)
            /\ UNCHANGED exited
    /\ UNCHANGED <<setup, lost, toHost, cur, dev, id, mine, late, crossed, overlap>>

Bug_RecvAnswer(t) ==
    /\ Now(t, "recv") /\ Done(t)
    /\ \/ Take(t)
       \/ toHost = <<>> /\ UNCHANGED <<toHost, crossed>>
    /\ UNCHANGED <<setup, lost, exited, toDev, cur, dev, id, mine, late, overlap, asked>>

\* recv waits for a whole answer or the end of the connection.
RecvAnswer(t) ==
    /\ Now(t, "recv") /\ Done(t)
    /\ \/ Take(t)
       \/ lost /\ toHost = <<>> /\ UNCHANGED <<toHost, crossed>>
    /\ UNCHANGED <<setup, lost, exited, toDev, cur, dev, id, mine, late, overlap, asked>>

-----------------------------------------------------------------------------
(* The other end                                                           *)
Wants(op) == CASE op = "@" -> 1 [] op = "v" -> 3 [] OTHER -> 2
AnswerOf(op, for) ==
    CASE op = "@" -> <<Pong>>
      [] op = "r" -> <<[for |-> for, part |-> 1]>>
      [] op = "a" -> <<[for |-> for, part |-> 1], [for |-> for, part |-> 2]>>
      [] OTHER -> <<>>

\* The ATmega takes a byte; with the last one of a command it executes it.
DeviceStep ==
    /\ link = "serial" /\ toDev # <<>>
    /\ LET now == Append(cur, Head(toDev))
           op  == now[1].b
       IN  IF Len(now) < Wants(op)
           THEN cur' = now /\ UNCHANGED <<dev, toHost>>
           ELSE /\ cur' = <<>>
                /\ dev' = Apply(dev, [i \in DOMAIN now |-> now[i].b])
                /\ toHost' = toHost \o AnswerOf(op, now[1].for)
    /\ toDev' = Tail(toDev)
    /\ UNCHANGED <<setup, lost, exited, todo, id, mine, late, crossed, overlap, asked>>

\* The server (drcNetServer) makes the same call of wiringPi and sends the
\* command back: one record over a stream that loses nothing, so that on the
\* socket the pin is as asked by the shape of the protocol.
ServerStep ==
    /\ link = "net" /\ srv = "accepted" /\ ~lost /\ toDev # <<>>
    /\ dev' = Wanted(dev, Head(toDev).call)
    /\ toHost' = Append(toHost, [for |-> Head(toDev).for, part |-> 1])
    /\ toDev' = Tail(toDev)
    /\ UNCHANGED <<setup, lost, exited, cur, todo, id, mine, late, crossed, overlap, asked>>

SetupStep ==
    SerialOpen \/ Flush \/ Ping \/ Pinged \/ PingTimesOut \/ GiveUp
    \/ NetConnect \/ Challenge \/ Authenticate \/ LowWaterMark
ThreadStep(t) == Put(t) \/ Get(t) \/ SendCommand(t) \/ RecvAnswer(t)

RemoteNext ==
    \/ SetupStep \/ Verify \/ ServerEnds
    \/ \E t \in Threads : ThreadStep(t) \/ \E c \in Ops : Call(t, c)
    \/ DeviceStep \/ ServerStep

\* The program runs, and so does the server; the ATmega may be switched off.
Fairness ==
    /\ WF_remoteVars(SetupStep) /\ WF_remoteVars(Verify) /\ WF_remoteVars(ServerStep)
    /\ \A t \in Threads : WF_remoteVars(ThreadStep(t))

RemoteSpec == RemoteInit /\ [][RemoteNext]_remoteVars /\ Fairness

-----------------------------------------------------------------------------
(* A read returns the answer to its own question, as long as none was      *)
(* given up on before and, on a socket, no two calls were under way.       *)
AnswersOwn == crossed => late > 0 \/ overlap

\* The answers to what is on its way to the device or half executed.
AnswersOwed ==
    LET bytes == cur \o toDev
    IN  {o \in (DOMAIN bytes) \X {1, 2} : o[2] <= Len(AnswerOf(bytes[o[1]].b, bytes[o[1]].for))}

(* Between calls exactly the answers that came too late lie ahead of the   *)
(* next question, one for each wait that was given up: what later reads    *)
(* return is shifted by them and by nothing else.                          *)
LagIsLate ==
    link = "serial" /\ st = "up" /\ (\A t \in Threads : Idle(t))
        => Len(toHost) + Cardinality(AnswersOwed) = late

(* Once the device has got everything, its pin is as the calls asked, also *)
(* when reads timed out or several threads called.  It is the serial line, *)
(* where a command is several bytes, that could go wrong.                  *)
PinAsAsked ==
    st = "up" /\ ~lost /\ toDev = <<>> /\ cur = <<>> /\ (\A t \in Threads : Idle(t))
        => dev = asked

(* Every call returns or the process is ended: a server that runs answers  *)
(* each command, one that is gone closes the connection, and a serial      *)
(* read gives up.                                                          *)
CallReturns ==
    \A t \in Threads : (~Idle(t)) ~> (Idle(t) \/ exited)

=============================================================================
