---------------------------- MODULE MCMergeLabel ----------------------------
(***************************************************************************)
(* Instances of MergeLabel for TLC.                                        *)
(***************************************************************************)
EXTENDS MergeLabel

CONSTANTS n, m

Base == [actors |-> {"sweeper", "curation"}, edits |-> {}, bad |-> {}, revoke |-> TRUE, onBase |-> FALSE,
         people |-> {"held"}, moves |-> 1, failures |-> 1]

\* Evidence and humans change while two groomers look.
Weighed == [Base EXCEPT !.people = {"held", "failed", "contest", "solved", "accepted", "security", "merge"}, !.moves = 0]

\* A conflict, a note, a human's commit: the label comes off and returns, or does not.
Rebuilt == [Base EXCEPT !.edits = {n}, !.people = {"held", "commit"}, !.actors = {"sweeper", "operator"}]

\* Two edits, one of which the threat check hits.
Edited == [Base EXCEPT !.edits = {n, m}, !.bad = {m}, !.people = {"held", "merge"}, !.moves = 0, !.actors = {"sweeper"}]

\* The sweep without evidence; the base has the entry already.
Plain == [Base EXCEPT !.actors = {"plain"}, !.people = {"solved", "accepted", "resolve", "merge"}]
OnBase == [Rebuilt EXCEPT !.onBase = TRUE, !.edits = {}]

MCScenes == {Weighed, Rebuilt, Edited, Plain, OnBase}
MCAccepted == {[Edited EXCEPT !.people = {"accepted"}, !.failures = 0, !.actors = {}]}

=============================================================================
