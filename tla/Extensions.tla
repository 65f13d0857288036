----------------------------- MODULE Extensions -----------------------------
(***************************************************************************)
(* loadWPiExtension of src/lib/wpiExtensions.c: a string such as           *)
(* "mcp23017:100:0x20" names a driver, the first pin of its block and the  *)
(* driver's parameters; the parser checks them and calls the driver's      *)
(* setup function, which opens the device and makes the node (NodeTable).  *)
(*                                                                         *)
(* A setup call n of NodeTable is here the string Text[n] it is made from. *)
(* A number in it is the sequence of its digits (base) or its value        *)
(* (params, where Bad is a field that is no number and a string counts as  *)
(* 0 when empty, 1 otherwise).  The strings lie in writable buffers, and   *)
(* the parser cuts them at the first colon.                                *)
(***************************************************************************)
EXTENDS NodeTable, SequencesExt

CONSTANTS
    Text,     \* the strings: [colon, name, base, params]
    MaxCalls  \* bound on calls

VARIABLES
    lpc,      \* where the call for each string is
    severed,  \* the strings whose first colon is a 0 now
    handlers, \* the nodes whose driver has put its functions in
    result,   \* what the last call with a string returned
    calls,
    atCall,   \* history: the list when the last call with a string began
    answered, \* history: the strings whose device answered
    loaded    \* history: the strings for which a call returned TRUE

extVars == <<lpc, severed, handlers, result, calls, atCall, answered, loaded>>

Bad        == -1
AnyInt     == 0 .. IntMax
I2CAddress == 3 .. 119
SPIChannel == 0 .. 1
MayBeEmpty == 0 .. 1
NotEmpty   == 1 .. 1

\* What the parser accepts in each field, driver by driver.
ExpanderFields ==
    [mcp23008 |-> <<1 .. 119>>, mcp23016 |-> <<I2CAddress>>, mcp23017 |-> <<I2CAddress>>,
     mcp23s08 |-> <<SPIChannel, 0 .. 7>>, mcp23s17 |-> <<SPIChannel, 0 .. 7>>]
PinFields ==
    [sr595 |-> <<8 .. 32, AnyInt, AnyInt, AnyInt>>, pcf8574 |-> <<I2CAddress>>,
     ads1115 |-> <<I2CAddress>>, pcf8591 |-> <<I2CAddress>>,
     pseudoPins |-> <<>>, bmp180 |-> <<>>, htu21d |-> <<>>]
SensorFields ==
    [ds18b20 |-> <<MayBeEmpty>>, rht03 |-> <<AnyInt>>, max31855 |-> <<SPIChannel>>,
     mcp3002 |-> <<SPIChannel>>, mcp3004 |-> <<SPIChannel>>, max5322 |-> <<SPIChannel>>]
BusFields ==
    [mcp4802 |-> <<SPIChannel>>, sn3218 |-> <<>>, mcp3422 |-> <<I2CAddress, 0 .. 3, 0 .. 3>>,
     drcs |-> <<1 .. 1000, NotEmpty, 1 .. 4000000>>,
     drcn |-> <<1 .. 1000, NotEmpty, MayBeEmpty, NotEmpty>>]
Fields == ExpanderFields @@ PinFields @@ SensorFields @@ BusFields

extensionFunctions == DOMAIN Fields

\* The block of pins each driver makes: a fixed number or the first field.
PinsOf(t) ==
    CASE t.name \in {"mcp23008", "mcp23s08", "pcf8574", "mcp3004", "ads1115"} -> 8
      [] t.name \in {"mcp23016", "mcp23017", "mcp23s17"} -> 16
      [] t.name \in {"pcf8591", "bmp180", "mcp3422", "max31855"} -> 4
      [] t.name \in {"htu21d", "rht03", "mcp3002", "mcp4802", "max5322"} -> 2
      [] t.name = "ds18b20" -> 1
      [] t.name = "sn3218" -> 18
      [] t.name = "pseudoPins" -> 64
      [] OTHER -> t.params[1]

\* Field by field: a missing one, a word for a number, a number out of range.
FieldsAccepted(t) ==
    LET want == Fields[t.name]
    IN  /\ Len(t.params) >= Len(want)
        /\ \A i \in DOMAIN want : t.params[i] \in want[i]

TooLarge == -1
Unsigned(x) == x % (2 * (IntMax + 1))

\* pinBase is unsigned and is looked at before each multiplication.
AddDigit(value, digit) ==
    IF value = TooLarge \/ value > IntMax THEN TooLarge
    ELSE Unsigned(value * 10 + digit)
ReadBase(digits) == FoldLeft(AddDigit, 0, digits)

\* Everything loadWPiExtension looks at before it calls a setup function.
Parses(t) ==
    /\ t.colon
    /\ t.base # <<>>
    /\ ReadBase(t.base) >= FirstNodePin
    /\ t.name \in extensionFunctions
    /\ FieldsAccepted(t)

ASSUME ExtensionAssumption ==
    /\ MaxCalls \in Nat
    /\ \A n \in Nodes : Parses(Text[n]) =>
          PinBase[n] = AsInt(ReadBase(Text[n].base)) /\ NumPins[n] = PinsOf(Text[n])

-----------------------------------------------------------------------------
ExtTypeOK ==
    /\ TypeOK
    /\ lpc \in [Nodes -> {"out", "open", "node"}]
    /\ handlers \cup severed \cup answered \cup loaded \subseteq Nodes
    /\ result \in [Nodes -> {"none", "TRUE", "FALSE"}]
    /\ calls \in 0 .. MaxCalls
    /\ atCall \in [Nodes -> Seq(Nodes)]

ExtInit ==
    /\ Init
    /\ lpc = [n \in Nodes |-> "out"]
    /\ severed = {} /\ handlers = {} /\ answered = {} /\ loaded = {}
    /\ result = [n \in Nodes |-> "none"]
    /\ calls = 0
    /\ atCall = [n \in Nodes |-> <<>>]

Kind(n) == Text[n].name
NoDevice == {"sr595", "pseudoPins"}  \* nothing is opened before the node
Bug_Reports == extensionFunctions
\* The drivers whose result loadWPiExtension returns; for the others it says TRUE.
Reports  == {"ds18b20", "rht03", "drcn"}

\* The string is cut at its colon, so a second call finds none.
Load(n) ==
    /\ ~exited /\ calls < MaxCalls
    /\ \A m \in Nodes : lpc[m] = "out"
    /\ calls' = calls + 1
    /\ atCall' = [atCall EXCEPT ![n] = wiringPiNodes]
    /\ severed' = IF Text[n].colon THEN severed \cup {n} ELSE severed
    /\ IF n \notin severed /\ Parses(Text[n])
       THEN /\ lpc' = [lpc EXCEPT ![n] = IF Kind(n) \in NoDevice THEN "node" ELSE "open"]
            /\ UNCHANGED result
       ELSE /\ result' = [result EXCEPT ![n] = "FALSE"]
            /\ UNCHANGED lpc
    /\ UNCHANGED <<vars, handlers, answered, loaded>>

\* rht03 opens nothing: it refuses a pin that is not on the board.
Answers(n) == IF Kind(n) = "rht03" THEN {Text[n].params[1] < FirstNodePin} ELSE BOOLEAN

Return(n, ok) ==
    LET said == ok \/ Kind(n) \notin Reports
    IN  /\ lpc' = [lpc EXCEPT ![n] = "out"]
        /\ result' = [result EXCEPT ![n] = IF said THEN "TRUE" ELSE "FALSE"]
        /\ loaded' = IF said THEN loaded \cup {n} ELSE loaded

\* wiringPiI2CSetup, wiringPiSPISetup, open, serialOpen or the connection of drcn.
OpenDevice(n) ==
    /\ lpc[n] = "open"
    /\ \E works \in Answers(n) :
          IF works
          THEN /\ lpc' = [lpc EXCEPT ![n] = "node"]
               /\ answered' = answered \cup {n}
               /\ UNCHANGED <<result, loaded>>
          ELSE Return(n, FALSE) /\ UNCHANGED answered
    /\ UNCHANGED <<vars, severed, handlers, calls, atCall>>

MakeNode(n) ==
    /\ lpc[n] = "node"
    /\ Check(n) \/ Refuse(n) \/ ReadHead(n) \/ Link(n)
    /\ UNCHANGED extVars

Bug_Finish(n) ==
    /\ lpc[n] = "node"
    /\ Install(n)
    /\ Return(n, TRUE)
    /\ answered' = answered \cup {n}
    /\ handlers' = IF Kind(n) = "sr595" THEN handlers ELSE handlers \cup {n}
    /\ UNCHANGED <<severed, calls, atCall>>

\* The driver fills its node in.  pseudoPins opens its memory only now, and
\* htu21d asks the chip only when its handlers are in.
Finish(n) ==
    /\ lpc[n] = "node"
    /\ Install(n)
    /\ \E works \in IF Kind(n) \in {"pseudoPins", "htu21d"} THEN BOOLEAN ELSE {TRUE} :
          /\ Return(n, works)
          /\ answered' = IF works THEN answered \cup {n} ELSE answered \ {n}
          /\ handlers' = IF works \/ Kind(n) = "htu21d" THEN handlers \cup {n} ELSE handlers
    /\ UNCHANGED <<severed, calls, atCall>>

ExtNext == \E n \in Nodes : Load(n) \/ OpenDevice(n) \/ MakeNode(n) \/ Finish(n)

ExtSpec == ExtInit /\ [][ExtNext]_<<vars, extVars>>

-----------------------------------------------------------------------------
(* A call that returns FALSE has made no node: the pins it asked for stay  *)
(* free for another extension.                                             *)
RefusedLeavesNone ==
    \A n \in Nodes : result[n] = "FALSE" /\ lpc[n] = "out" =>
        ~Contains(wiringPiNodes, n) \/ Contains(atCall[n], n)

(* An extension that was loaded and whose device answered works from then  *)
(* on: every pin of its block leads to its node, with the driver's         *)
(* functions in it, whatever is loaded, refused or retried later.  (The    *)
(* parser lets base numbers through whose block does not fit an int; see   *)
(* SetupReachable for these.)                                              *)
LoadedWorks ==
    \A n \in loaded \cap answered :
        n \in handlers /\ (End(n) <= IntMax + 1 => \A p \in Block(n) : Found(n, p))

=============================================================================
