---------------------------- MODULE MCBatchPool ----------------------------
(* Environments for BatchPool. *)
EXTENDS BatchPool

Env(idle, batch, conc) ==
    [claimIdleMs |-> idle, lockTTL |-> {}, doneTTL |-> {}, batchSize |-> batch, concurrency |-> conc]

\* Nothing set (batches of 10, concurrency 4); a sequential worker without
\* recovery; out-of-range values, which become the defaults; a small pool.
Various == {Env({}, {}, {}), Env({-1}, {3}, {1}), Env({0}, {-5}, {0}), Env({500}, {5}, {2})}

SmallPool == {Env({}, {3}, {2})}

NoRecovery == {Env({0}, {}, {})}
=============================================================================
