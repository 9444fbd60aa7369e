----------------------------- MODULE MCEndToEnd -----------------------------
(* A batch of two payloads and two workers. *)
EXTENDS EndToEnd, TLC

CONSTANTS e1, e2, r1

MCBody == r1 :> [json |-> TRUE, items |-> <<"text", "text">>]
=============================================================================
