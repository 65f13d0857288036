---------------------------- MODULE MCExtensions ----------------------------
(* An instance of Extensions for TLC: strings whose blocks are adjacent,    *)
(* overlap or nest, end at the largest int or run past it, one the parser    *)
(* refuses for each reason it has, numbers that do not fit an int, and       *)
(* setups that fail before and after the node.                              *)
EXTENDS Extensions

CONSTANTS a, b, c, d, e, f, g, h, i, j, k, l, m

Str(name, base, params) == [colon |-> TRUE, name |-> name, base |-> base, params |-> params]

MCText ==
       a :> Str("mcp23008", <<6, 4>>, <<32>>)
    @@ b :> Str("ds18b20", <<7, 2>>, <<1>>)
    @@ c :> Str("pcf8591", <<7, 0>>, <<72>>)
    @@ d :> Str("htu21d", <<2, 5, 0>>, <<>>)
    @@ e :> Str("mcp3002", <<5, 7, 6>>, <<0>>)
    @@ f :> Str("drcn", <<7, 5>>, <<2, 1, 0, 1>>)
    @@ g :> Str("pseudoPins", <<7, 4>>, <<>>)
    @@ h :> Str("sr595", <<7, 7>>, <<8, 0, 1, 2>>)
    @@ i :> Str("max31855", <<4, 0, 0>>, <<1>>)
    @@ j :> Str("rht03", <<9, 0>>, <<64>>)
    @@ k :> [colon |-> FALSE, name |-> "sn3218", base |-> <<8, 0>>, params |-> <<>>]
    @@ l :> Str("pcf8574", <<2, 4, 8>>, <<56>>)
    @@ m :> Str("ads1115", <<2, 4, 9>>, <<72>>)

MCRefused ==
    {Str("sn3218", <<>>, <<>>), Str("sn3218", <<6, 3>>, <<>>), Str("sn3218", <<3, 0, 0, 0>>, <<>>),
     Str("none", <<6, 4>>, <<>>), Str("sr595", <<7, 0>>, <<7, 0, 1, 2>>),
     Str("sr595", <<7, 0>>, <<8, 0, 1>>), Str("mcp3422", <<7, 0>>, <<104, 0, Bad>>),
     Str("mcp23s17", <<7, 0>>, <<0, 8>>), Str("drcs", <<7, 0>>, <<4, 0, 9600>>)}

\* Each of these is refused before anything is opened.
ASSUME RefusedAssumption == \A t \in MCRefused : ~Parses(t)

\* The blocks these strings ask for, as ExtensionAssumption checks.
MCPinBase ==
    a :> 64 @@ b :> 72 @@ c :> 70 @@ d :> 250 @@ e :> 64 @@ f :> 75 @@ g :> 74 @@ h :> 77
    @@ i :> -112 @@ j :> 90 @@ k :> 0 @@ l :> 248 @@ m :> 249
MCNumPins ==
    a :> 8 @@ b :> 1 @@ c :> 4 @@ d :> 2 @@ e :> 2 @@ f :> 2 @@ g :> 64 @@ h :> 8
    @@ i :> 4 @@ j :> 2 @@ k :> 0 @@ l :> 8 @@ m :> 8
=============================================================================
