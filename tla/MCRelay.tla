------------------------------ MODULE MCRelay ------------------------------
(* Requests: the text, something else with the text behind it, and the first *)
(* half of the text alone, which what an earlier client left in the buffer   *)
(* completes.  Arguments of sp_client of both halves of its table, and one   *)
(* beyond it.                                                                *)
EXTENDS Relay

MCRequests == {WhoIAm, <<"x">> \o WhoIAm, <<WhoIAm[1]>>}
MCIndices  == {0, 6, 8}
=============================================================================
