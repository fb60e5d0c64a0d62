--------------------------- MODULE AuthorizedRuns ---------------------------
(***************************************************************************)
(* What the two engine databases promise whoever reads both: an effectful  *)
(* run appears only once a receipt was consumed for its request, and a     *)
(* receipt goes one way, from none through available to redeemed.  A run   *)
(* may still appear after its receipt is redeemed: runs.py checks the      *)
(* receipt in a transaction of its own before it inserts the run.          *)
(***************************************************************************)
CONSTANT Request

VARIABLES
    runs,   \* requests that have a run
    policy  \* request -> how far its receipt is

Consume(r) ==
    /\ policy[r] = "none"
    /\ policy' = [policy EXCEPT ![r] = "available"]
    /\ UNCHANGED runs

Redeem(r) ==
    /\ policy[r] = "available"
    /\ policy' = [policy EXCEPT ![r] = "redeemed"]
    /\ UNCHANGED runs

CreateRun(r) ==
    /\ r \notin runs /\ policy[r] # "none"
    /\ runs' = runs \cup {r}
    /\ UNCHANGED policy

Init == runs = {} /\ policy = [r \in Request |-> "none"]
Next == \E r \in Request : Consume(r) \/ Redeem(r) \/ CreateRun(r)
Spec == Init /\ [][Next]_<<runs, policy>>
=============================================================================
