----------------------------- MODULE MCRunStore -----------------------------
(* Small instances of RunStore: two owners contend for one request, and one *)
(* of them has a second run.                                                *)
EXTENDS RunStore, TLC

Plain == [request |-> "r1", owner |-> "alice", effectful |-> FALSE]
Other == [request |-> "r2", owner |-> "bob", effectful |-> FALSE]
Effect == [request |-> "r1", owner |-> "bob", effectful |-> TRUE]
Everyone == {Plain, Effect, Other}
EffectOnly == {Effect}
TwoFiles == {[size |-> 1, digest |-> "a"], [size |-> 2, digest |-> "b"]}
OneTime == [r \in Request |-> 0]
TwoTimes == [r \in Request |-> IF r = "r1" THEN 1 ELSE 0]
WorkerSymmetry == Permutations(Worker)
=============================================================================
