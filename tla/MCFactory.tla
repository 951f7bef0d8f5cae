----------------------------- MODULE MCFactory -----------------------------
(***************************************************************************)
(* Instances of Factory for TLC.  A scene gives one behaviour its inputs   *)
(* and its faults; a run explores each of its scenes in full.              *)
(***************************************************************************)
EXTENDS Factory

Good == [fingerprint |-> 1, good |-> TRUE, recalled |-> FALSE]
Known == [fingerprint |-> 2, good |-> TRUE, recalled |-> TRUE]

Fix1 == <<1, 1>>
Fix2 == <<2, 1>>
Event(room, type, value) == [room |-> room, type |-> type, value |-> value]
Merged(room) == Event(room, "merged", "")
Healthy(room) == Event(room, "monitor", "healthy")

\* One fix, from its merge to the promoted entry; the process dies anywhere.
Fix == [defer |-> TRUE, detections |-> 1, investigations |-> {Good}, tasks |-> 1,
        events |-> {Merged(Fix1), Healthy(Fix1)}, burst |-> 2, windows |-> 2, refusals |-> FALSE,
        human |-> {}, faults |-> {"crash"}, failures |-> 1]

\* A line that cannot be appended, an outcome ledger that refuses, a label that is not laid.
Lines == [Fix EXCEPT !.burst = 1, !.faults = {"append", "outcome"}]

\* The forge stays away until each step is given up.
Window == [Fix EXCEPT !.burst = 1, !.windows = 1, !.faults = {"forge"}, !.failures = 2]

\* Without the curation every detection is filed, and a new task moves the generation.
Filing == [Fix EXCEPT !.defer = FALSE, !.detections = 2, !.tasks = 2, !.events = {Merged(Fix1), Merged(Fix2)}]

\* A delivery sent again, a factory whose answers are lost.
Resend == [Filing EXCEPT !.detections = 1, !.events = {Merged(Fix1)},
                         !.faults = {"resend", "factory", "append", "crash"}, !.failures = 2]

\* The incident fires again: a second task, and a fix of its own.
Refire == [Fix EXCEPT !.detections = 2, !.tasks = 2, !.events = {Merged(Fix1), Merged(Fix2), Healthy(Fix2)},
                      !.burst = 1, !.windows = 0, !.faults = {}, !.failures = 0]

\* A fix that is reverted, and one that ends without a merge: a second task takes over.
Late == [Refire EXCEPT !.events = {Merged(Fix1), Event(Fix1, "reverted", "")}]
Fails == [Refire EXCEPT !.events = {Event(Fix1, "ended", "failed"), Merged(Fix2)}]

\* A factory that refuses, people who merge or close the entry, a listing that fails.
Refusal == [Fix EXCEPT !.detections = 2, !.refusals = TRUE, !.events = {}, !.human = {"closed", "merged"},
                       !.faults = {"list", "forge", "label", "append", "sync"}]

\* The entry is in the catalogue already.
Recall == [Fix EXCEPT !.investigations = {Known}, !.events = {Merged(Fix1)}, !.faults = {"outcome"}]
RecallThenFresh == [Recall EXCEPT !.investigations = {Known, Good}, !.events = {}, !.detections = 2]

\* A fix whose repository cannot be named.
Unnamed == [Fix EXCEPT !.events = {Event(Fix1, "merged", "unnamed"), Healthy(Fix1)}, !.faults = {}, !.failures = 0]
SCurated == {Fix, Lines, Window, Filing, Resend, Refire, Late, Fails, Refusal, Recall, RecallThenFresh}
SUnnamed == {Unnamed}
SBroker == {Filing, Resend}
=============================================================================
