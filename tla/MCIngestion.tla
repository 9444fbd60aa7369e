---------------------------- MODULE MCIngestion ----------------------------
(* Two batches (one of them with an empty payload last), an empty batch    *)
(* and two single requests (one of which does not decode) at the same time. *)
EXTENDS Ingestion, TLC

CONSTANTS e1, e2, e3, r1, r2, r3, r4, r5

MCBody ==
    (r1 :> [json |-> TRUE,  items |-> <<"text">>]) @@
    (r2 :> [json |-> FALSE, items |-> <<"">>]) @@
    (r3 :> [json |-> TRUE,  items |-> <<"text", "text">>]) @@
    (r4 :> [json |-> TRUE,  items |-> <<"text", "">>]) @@
    (r5 :> [json |-> TRUE,  items |-> <<>>])
=============================================================================
