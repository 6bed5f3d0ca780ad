----------------------------- MODULE MCRollback -----------------------------
(* Runs for model checking Rollback: a service started and stopped again   *)
(* and the reverse, two services, and a step nothing can undo in between.  *)
EXTENDS Rollback, TLC

CONSTANTS A, B

Do(k, s) == [kind |-> k, svc |-> s]

Runs == {<<Do("start", A), Do("stop", B)>>,
         <<Do("stop", A), Do("restart", B), Do("start", A)>>,
         <<Do("start", A), Do("stop", A)>>}

Alike == Permutations(Handlers)
=============================================================================
