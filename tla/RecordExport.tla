---------------------------- MODULE RecordExport ----------------------------
(***************************************************************************)
(* OptimadeExporter.export (export.py): threads of one process that each   *)
(* fetch a record and write it to a new file beneath the export root,      *)
(* beside the other calls of the process.  The process may crash, which    *)
(* ends its calls and its lookups and leaves the files; an operator clears *)
(* away what is left half written.  The POSIX writer is modelled.          *)
(***************************************************************************)
EXTENDS ProviderCalls

CONSTANTS
    Name,       \* destinations an export may ask for
    Digest,     \* what the provider's record may hash to
    MaxCrashes, \* bound
    MaxStuck    \* bound: clean-ups that fail

ASSUME ExportAssumption == None \notin Digest /\ MaxCrashes \in Nat /\ MaxStuck \in Nat

VARIABLES
    files,         \* what is at each destination
    rightsCurrent, \* whether the reviewed rights still permit redistribution
    artifacts,     \* what the exports have answered with
    faults         \* crashes and failed clean-ups

exportVars == <<files, rightsCurrent, artifacts, faults>>
vars == <<clientVars, exportVars>>

\* A file is absent, being written by an export, whole, or left by an export
\* that never answered for it, whatever its content then is.
Absent == [state |-> "absent"]
File(state, digest, writer) == [state |-> state, digest |-> digest, writer |-> writer]

\* An export: its destination, the digest it expects, if any, what it fetched,
\* and whether the rights have been lacking ever since that arrived.
Export(name, expected) ==
    [at |-> "fetch", name |-> name, expected |-> expected]
Fetched(export, digest, late) ==
    [at |-> "fetched", name |-> export.name, expected |-> export.expected,
     digest |-> digest, late |-> late]

Rest == UNCHANGED <<slotVars, begun, tokenizerVars>>
Puts(name, file) == files' = [files EXCEPT ![name] = file]

-----------------------------------------------------------------------------
\* Without current rights, or with something at the destination, an export is
\* refused before the network is used.
ExportBegins(c, name, expected) ==
    /\ rightsCurrent /\ files[name] = Absent
    /\ Begins(c, Export(name, expected))
    /\ UNCHANGED exportVars

FetchFails(c) ==
    /\ calls[c].at = "fetch" /\ Fails(c)
    /\ Ends(c)
    /\ Rest /\ UNCHANGED exportVars

RecordFetched(c, digest) ==
    /\ calls[c].at = "fetch" /\ gets[c] = Done("response")
    /\ Moves(c, Fetched(calls[c], digest, ~rightsCurrent), Idle)
    /\ Rest /\ UNCHANGED exportVars

AsExpected(c) == calls[c].expected \in {None, calls[c].digest}

AcceptsWithoutRights(c) ==
    /\ calls[c].at = "fetched"
    /\ AsExpected(c)
    /\ calls' = [calls EXCEPT ![c].at = "opening"]
    /\ Rest /\ UNCHANGED <<gets, exportVars>>

\* The digest, then the rights again, by the clock of this moment.
FetchAccepted(c) ==
    /\ calls[c].at = "fetched"
    /\ AsExpected(c) /\ rightsCurrent
    /\ calls' = [calls EXCEPT ![c].at = "opening"]
    /\ Rest /\ UNCHANGED <<gets, exportVars>>

\* The digest differs, the rights have gone, the API version is not supported,
\* or the record does not render.
FetchRejected(c) ==
    /\ calls[c].at = "fetched"
    /\ Ends(c)
    /\ Rest /\ UNCHANGED exportVars

-----------------------------------------------------------------------------
(* _write_posix.                                                           *)

OpensOver(c) ==
    /\ calls[c].at = "opening"
    /\ Puts(calls[c].name, File("partial", calls[c].digest, c))
    /\ calls' = [calls EXCEPT ![c].at = "writing"]
    /\ Rest /\ UNCHANGED <<gets, rightsCurrent, artifacts, faults>>

\* O_CREAT | O_EXCL: the name must still be free.
Opens(c) ==
    /\ calls[c].at = "opening"
    /\ files[calls[c].name] = Absent
    /\ Puts(calls[c].name, File("partial", calls[c].digest, c))
    /\ calls' = [calls EXCEPT ![c].at = "writing"]
    /\ Rest /\ UNCHANGED <<gets, rightsCurrent, artifacts, faults>>

\* It is taken, or a directory has changed, or the system refuses.
OpenUnlinks(c) ==
    /\ calls[c].at = "opening"
    /\ Puts(calls[c].name, Absent)
    /\ Ends(c)
    /\ Rest /\ UNCHANGED <<rightsCurrent, artifacts, faults>>

OpenFails(c) ==
    /\ calls[c].at = "opening"
    /\ Ends(c)
    /\ Rest /\ UNCHANGED exportVars

\* Written and synchronised; the digest answered is that of the content.
Written(c) ==
    /\ calls[c].at = "writing"
    /\ Puts(calls[c].name, File("whole", calls[c].digest, c))
    /\ artifacts' = artifacts \cup
           {[name |-> calls[c].name, digest |-> calls[c].digest, expected |-> calls[c].expected]}
    /\ Ends(c)
    /\ Rest /\ UNCHANGED <<rightsCurrent, faults>>

\* The file is unlinked; an unlink that fails is passed over.
WriteFails(c) ==
    /\ calls[c].at = "writing"
    /\ \/ Puts(calls[c].name, Absent) /\ UNCHANGED faults
       \/ /\ faults.stuck < MaxStuck
          /\ Puts(calls[c].name, [files[calls[c].name] EXCEPT !.state = "left"])
          /\ faults' = [faults EXCEPT !.stuck = @ + 1]
    /\ Ends(c)
    /\ Rest /\ UNCHANGED <<rightsCurrent, artifacts>>

-----------------------------------------------------------------------------
(* The environment.                                                        *)

\* The wall clock passes an end of the reviewed period, either way: it may be
\* set back.
RightsChange ==
    /\ rightsCurrent' = ~rightsCurrent
    /\ calls' = [c \in Caller |->
           IF calls[c].at = "fetched" /\ rightsCurrent' THEN [calls[c] EXCEPT !.late = FALSE] ELSE calls[c]]
    /\ UNCHANGED <<transportVars, begun, tokenizerVars, files, artifacts, faults>>

\* The process ends and a new one starts: its memory is as at first, and of
\* the files those being written stay behind as they are.
Crash ==
    /\ faults.crashes < MaxCrashes
    /\ faults' = [faults EXCEPT !.crashes = @ + 1]
    /\ files' = [n \in Name |-> IF files[n].state = "partial"
                                THEN [files[n] EXCEPT !.state = "left"] ELSE files[n]]
    /\ gets' = [c \in Caller |-> Idle] /\ calls' = [c \in Caller |-> NoCall]
    /\ freeSlots' = DnsSlots /\ lookups' = 0 /\ releasing' = 0 /\ lost' = 0
    /\ tokenizerLock' = None /\ encoding' = FALSE /\ downloads' = 0
    /\ UNCHANGED <<begun, rightsCurrent, artifacts>>

OperatorClears(name) ==
    /\ files[name].state = "left"
    /\ Puts(name, Absent)
    /\ UNCHANGED <<clientVars, rightsCurrent, artifacts, faults>>
-----------------------------------------------------------------------------
Init ==
    /\ ClientInit
    /\ files = [n \in Name |-> Absent]
    /\ rightsCurrent = TRUE
    /\ artifacts = {}
    /\ faults = [crashes |-> 0, stuck |-> 0]

Arrives(c) ==
    \/ Requests(c) /\ UNCHANGED exportVars
    \/ \E n \in Name, expected \in Digest \cup {None} : ExportBegins(c, n, expected)

Step(c) ==
    \/ ClientStep(c) /\ UNCHANGED exportVars
    \/ FetchFails(c) \/ (\E digest \in Digest : RecordFetched(c, digest))
    \/ FetchAccepted(c) \/ FetchRejected(c)
    \/ Opens(c) \/ OpenFails(c) \/ Written(c) \/ WriteFails(c)

Next ==
    \/ \E c \in Caller : Arrives(c) \/ Step(c)
    \/ (RefusedTargets \/ Resolvers) /\ UNCHANGED exportVars
    \/ RightsChange \/ Crash \/ \E n \in Name : OperatorClears(n)

Spec == Init /\ [][Next]_vars

\* The scheduler runs every thread that can go on, and every wait on the
\* network has a timeout.  Nothing is assumed of the resolver.
FairSpec == Spec /\ \A c \in Caller : WF_vars(Step(c))

-----------------------------------------------------------------------------
(* Properties.                                                             *)

\* Every call of the process ends, answered or failed, although lookups may
\* never return, hold all the DNS slots, and the tokenizer lock is held across
\* a get: nothing waits without a timeout on something that may not come.
EveryCallEnds == \A c \in Caller : Busy(c) ~> ~Busy(c)

\* If every lookup returns in the end, the slots of those whose callers have
\* given up come back: again and again only lookups that somebody waits for
\* hold one.  A slot whose thread never started stays lost.
SlotsReturn ==
    WF_transportVars(AbandonedLookupEnds) /\ WF_transportVars(SlotReleased)
        => []<>(freeSlots + lost + Cardinality(Waiting) = DnsSlots)

\* docs/contracts.md: the rights are checked again after the fetch, the write
\* is exclusive, and docs/runtime.md: a digest mismatch leaves the destination
\* absent.  A file being written belongs to one export, whose rights have been
\* current since the record arrived and whose digest is the expected one; a
\* finished file has been answered for; without a fault nothing else is there.
FilesExplained ==
    /\ \A n \in Name :
          /\ files[n].state = "partial" => calls[files[n].writer].at = "writing"
          /\ files[n].state = "left" => faults.crashes + faults.stuck > 0
          /\ files[n].state = "whole" =>
                \E a \in artifacts : a.name = n /\ a.digest = files[n].digest
    /\ \A c \in Caller : calls[c].at = "writing" =>
          /\ files[calls[c].name] = File("partial", calls[c].digest, c)
          /\ ~calls[c].late
          /\ calls[c].expected \in {None, calls[c].digest}

\* What an export has answered with stays true, whatever other exports,
\* crashes and clean-ups do later: the file is there, whole, and has the digest
\* of the answer, which is the one asked for.
ArtifactOnDisk ==
    \A a \in artifacts :
        /\ files[a.name].state = "whole" /\ files[a.name].digest = a.digest
        /\ a.expected \in {None, a.digest}

\* No export touches a file it did not create: a file appears where there was
\* none, its own writer finishes or removes it, and only one that a crash or a
\* failed clean-up left behind is ever cleared away.
NeverOverwritten ==
    [][\A n \in Name : files'[n] # files[n] =>
          \/ files[n] = Absent /\ files'[n].state = "partial"
          \/ files[n].state = "partial" /\ calls'[files[n].writer] = NoCall
          \/ files[n].state = "left" /\ files'[n] = Absent]_vars
=============================================================================
