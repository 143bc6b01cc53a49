--------------------------- MODULE MCTaskScheduler --------------------------
(***************************************************************************)
(* Instances of TaskScheduler: the tasks of one replication round (read    *)
(* the local version on MAIN, fetch the remote configuration in the POOL,  *)
(* then synchronise on MAIN) and, in the larger one, of a SYNC_FROM        *)
(* request, whose failed fetch enqueues the "aborted" response.            *)
(***************************************************************************)
EXTENDS TaskScheduler, TLC

MCTarget == [t \in Task |-> IF t = "fetch" THEN "POOL" ELSE "MAIN"]

MCOnSuccess == [t \in Task |-> IF t = "fetch" THEN "sync" ELSE None]

MCOnFailure ==
    [t \in Task |-> IF t = "fetch" /\ "abort" \in Task THEN "abort" ELSE None]

Symmetry == Permutations(Client)
=============================================================================
