------------------------------ MODULE MCRecord ------------------------------
(* Two directions of one connection, records told apart by their content    *)
(* type, and a counter of three numbers so that it runs out.                *)
EXTENDS Record

MCPayloadLen == [p \in Payloads |-> 1]
=============================================================================
