----------------------------- MODULE MCMCPHost -----------------------------
(* A small instance of MCPHost: one effectful, asynchronous capability, of  *)
(* a plugin that has also a version for another profile, with a capability  *)
(* of tier R0 beside it; one charge in the quota.                           *)
EXTENDS MCPHost, TLC

Capabilities == {"read", "write"}
Order == [c \in Capabilities |-> IF c = "read" THEN 1 ELSE 2]
Plugin == [plugin |-> "p", version |-> 2, caps |-> {"write"}]
OldPlugin == [plugin |-> "p", version |-> 1, caps |-> Capabilities]
Manifests == {Plugin, OldPlugin}
OfThisProfile == {Plugin}
Receipts == [id : Thread, capability : Capabilities, registration : Manifests]
WriteOnly == {"write"}
=============================================================================
