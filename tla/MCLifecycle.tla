---------------------------- MODULE MCLifecycle ----------------------------
(* A small instance of LifecycleRegistry: two versions of one plugin, and a *)
(* second plugin that claims one of its capabilities.                       *)
EXTENDS LifecycleRegistry

Capabilities == {"c1", "c2", "c3"}
Order == [c \in Capabilities |-> CASE c = "c1" -> 1 [] c = "c2" -> 2 [] OTHER -> 3]
Of(plugin, version, caps) == [plugin |-> plugin, version |-> version, caps |-> caps]
Manifests == {Of("p", 1, {"c1", "c2"}), Of("p", 2, {"c1"}), Of("q", 1, {"c2", "c3"}), Of("r", 1, {"c3"})}
=============================================================================
