---------------------------- MODULE MCDispatcher ----------------------------
(* A small instance of Dispatcher: an R0 and an effectful capability of one *)
(* plugin, a version of the plugin for another profile, one receipt, two    *)
(* threads.                                                                 *)
EXTENDS Dispatcher, TLC

Capabilities == {"read", "write"}
Order == [c \in Capabilities |-> IF c = "read" THEN 1 ELSE 2]
Plugin == [plugin |-> "p", version |-> 2, caps |-> Capabilities]
OldPlugin == [plugin |-> "p", version |-> 1, caps |-> {"write"}]
Manifests == {Plugin, OldPlugin}
OfThisProfile == {Plugin}
Receipts == {[id |-> "receipt", capability |-> "write", registration |-> Plugin]}
WriteOnly == {"write"}
ThreadSymmetry == Permutations(Thread)
=============================================================================
