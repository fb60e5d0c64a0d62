----------------------------- MODULE RunJournal -----------------------------
(***************************************************************************)
(* What a run store promises: one append-only journal of states for each   *)
(* request, which opens as queued and closes with its first terminal state *)
(* (docs/runtime.md, "Durable runs and artifacts").                        *)
(***************************************************************************)
EXTENDS Sequences

CONSTANT Request

VARIABLE journal  \* request -> the states it has gone through

Terminal == {"succeeded", "failed", "cancelled"}
Successors(state) ==
    CASE state = "queued" -> {"running", "failed", "cancelled"}
      [] state = "running" -> {"running"} \cup Terminal
      [] OTHER -> {}

Opened(r) ==
    /\ r \in Request \ DOMAIN journal
    /\ journal' = [q \in DOMAIN journal \cup {r} |-> IF q = r THEN <<"queued">> ELSE journal[q]]

Extended(r) ==
    /\ r \in DOMAIN journal
    /\ \E state \in Successors(journal[r][Len(journal[r])]) :
          journal' = [journal EXCEPT ![r] = Append(@, state)]

Init == journal = <<>>
Next == \E r \in Request : Opened(r) \/ Extended(r)
Spec == Init /\ [][Next]_journal
=============================================================================
