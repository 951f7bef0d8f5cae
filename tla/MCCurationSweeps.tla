-------------------------- MODULE MCCurationSweeps --------------------------
(***************************************************************************)
(* Instances of CurationSweeps for TLC.                                    *)
(***************************************************************************)
EXTENDS CurationSweeps

CONSTANTS d1, d2, f1, f2, r1

\* f1 and f2 are two fingerprints of one incident: an alert and a manual investigation.
Base == [sweeps |-> {"sweeper"}, passes |-> <<>>, people |-> {}, episodes |-> 0, threshold |-> 2, prs |-> 2,
         failures |-> 1, entries |-> 0, maxOpen |-> 1, minGap |-> 1, days |-> 0,
         title |-> (f1 :> "t") @@ (f2 :> "t") @@ (NoFp :> "n"), resource |-> (f1 :> r1) @@ (f2 :> r1)]

\* Drafts, refused and reopened, or labelled and stale, beside notes.
Groomed == [Base EXCEPT !.passes = <<"suppress", "dedup", "lifecycle">>]
Refusing == [Groomed EXCEPT !.people = {"reject", "reopen"}]
Labelling == [Groomed EXCEPT !.people = {"protect", "merge", "age", "note"}]

\* An incident that comes back, with its drafts and its issues.
Recurrent == [Base EXCEPT !.episodes = 2, !.people = {"reject", "reopen", "gap"}, !.prs = 1,
                          !.passes = <<"suppress", "recurrence">>]

\* Two entries that decay, or are confirmed again and again; no incident is drafted.
Entries2 == [Base EXCEPT !.title = NoFp :> "n", !.resource = <<>>, !.entries = 2, !.prs = 3]
Retiring == [Entries2 EXCEPT !.passes = <<"lifecycle", "retire">>,
                             !.people = {"decay", "recover", "reject", "merge", "age"}]
Removing == [Retiring EXCEPT !.people = {"decay", "remove", "reject", "merge", "age"}]
Validating == [Entries2 EXCEPT !.passes = <<"revalidate">>, !.people = {"reject", "merge"}, !.days = 2]

MCScenes == {Refusing, Labelling, Recurrent, Retiring, Removing, Validating}
MCObserved == {[Groomed EXCEPT !.people = {"age"}, !.failures = 0],
               [Validating EXCEPT !.people = {}, !.days = 1],
               [Recurrent EXCEPT !.people = {"reject"}],
               [Entries2 EXCEPT !.passes = <<"retire", "revalidate">>, !.people = {"decay", "recover"},
                                !.days = 1, !.entries = 1, !.failures = 0]}

=============================================================================
