--------------------------- MODULE FactoryRecord ---------------------------
(***************************************************************************)
(* What the factory ledger knows of one incident: the fix attempt that is  *)
(* current, and the hold that keeps the knowledge-base entry back until a  *)
(* fix is verified or a window ends.  Operators only: each is what one     *)
(* function of factory/ledger.go or factory/curation.go does to a Record.  *)
(*                                                                         *)
(* A room is <<task, n>>: n = 0 is the task's own room, n > 0 the rooms of *)
(* its fixes.  The broker names <<task, 0>> as the origin of both.         *)
(***************************************************************************)
EXTENDS Integers, FiniteSets, SequencesExt

CONSTANT MaxFailures    \* maxPastWindowFailures, 30 in the code

ASSUME FailuresAssumption == MaxFailures \in Nat \ {0}

NoRoom == <<0, 0>>
Origin(room) == <<room[1], 0>>

\* Hold.Drafted: empty, "none", or the number of the pull request.  An entry is named
\* by the pull request that brought it; Catalogued is one a recall matched.
Undrafted == -1
DraftedNone == 0
NoEntry == 0
Catalogued == -1

\* The soak deadline of a merge that was not there any more when it was computed.
Epoch == <<0, 1>>

-----------------------------------------------------------------------------
(* Generations: one fix attempt each.                                      *)

NoGeneration == [room |-> NoRoom, fix |-> NoRoom, pr |-> FALSE, merged |-> FALSE, verdict |-> "",
                 evidence |-> NoRoom, monitor |-> "", reverted |-> FALSE, observed |-> "",
                 resolved |-> ""]

\* "failed", "held", or "" while it is pending.
Outcome(g) ==
    IF g.reverted \/ g.verdict = "persisting" \/ g.monitor = "regression" THEN "failed"
    ELSE IF g.verdict = "resolved" /\ g.monitor = "healthy" THEN "held" ELSE ""

NoHold == [kind |-> "none", accepted |-> 0, gens |-> <<>>, fingerprint |-> 0, good |-> FALSE,
           drafted |-> Undrafted, entry |-> NoEntry, promoteDue |-> FALSE, linkDue |-> FALSE,
           entryDue |-> FALSE, failures |-> <<>>]

\* gen holds the fields Generation() copies; soak names the merge whose deadline
\* SoakUntil is, refused is a terminal Record.Outcome.
NoRecord == [gen |-> NoGeneration, soak |-> NoRoom, refused |-> FALSE, ended |-> "",
             hold |-> NoHold, draftFingerprint |-> 0]

failedGenerations(gens) == SelectSeq(gens, LAMBDA g : Outcome(g) = "failed")

\* Every generation with a fix, oldest first.
generations(r) ==
    IF r.gen.fix = NoRoom THEN r.hold.gens ELSE Append(r.hold.gens, r.gen)

\* The hold archives a generation that had a fix; the hold and the draft's fingerprint survive.
startGeneration(r) ==
    LET archived == IF r.hold.kind # "none" /\ r.gen.fix # NoRoom
                    THEN Append(r.hold.gens, r.gen) ELSE r.hold.gens
    IN [NoRecord EXCEPT !.hold = [r.hold EXCEPT !.gens = archived],
                        !.draftFingerprint = r.draftFingerprint]

\* The record after the factory answered with room.
file(r, room) ==
    LET at == IF r.gen.room # NoRoom /\ r.gen.room # room THEN startGeneration(r) ELSE r
    IN [at EXCEPT !.gen.room = room]

\* An update of the generation whose fix room is room, current or archived.
OnGeneration(r, room, Update(_)) ==
    IF r.gen.fix = room THEN [r EXCEPT !.gen = Update(r.gen)]
    ELSE [r EXCEPT !.hold.gens = [i \in DOMAIN r.hold.gens |->
            IF r.hold.gens[i].fix = room THEN Update(r.hold.gens[i]) ELSE r.hold.gens[i]]]

\* Mutant: the verdict lands on whatever generation is current.
recordVerdictCurrent(r, room, verdict, evidence) ==
    [r EXCEPT !.gen.verdict = verdict, !.gen.evidence = evidence]

recordVerdict(r, room, verdict, evidence) ==
    OnGeneration(r, room, LAMBDA g : [g EXCEPT !.verdict = verdict, !.evidence = evidence])

MarkObserved(r, room, o) == OnGeneration(r, room, LAMBDA g : [g EXCEPT !.observed = o])
MarkResolved(r, room, o) == OnGeneration(r, room, LAMBDA g : [g EXCEPT !.resolved = o])

\* The task ended with nothing left to merge.
fixEndedUnmerged(r) ==
    r.ended # "" /\ ~r.gen.merged /\ (r.ended # "done" \/ ~r.gen.pr)

\* Merged, and without a verdict or a terminal outcome.
AwaitsVerdict(r) == r.gen.merged /\ r.gen.verdict = "" /\ ~r.refused

\* Mutant: nobody looks for a merge that lost its deadline.
NeverUnscheduled(r) == FALSE

Unscheduled(r) == AwaitsVerdict(r) /\ r.soak = NoRoom

-----------------------------------------------------------------------------
(* Webhooks.                                                               *)

\* Whether ByRoom finds the record of the incident.
ByRoom(r, room) ==
    room \in {r.gen.room, r.gen.fix} \/ \E i \in DOMAIN r.hold.gens : r.hold.gens[i].fix = room

archived(r, room) ==
    /\ room \notin {r.gen.room, r.gen.fix}
    /\ \E i \in DOMAIN r.hold.gens : r.hold.gens[i].fix = room

\* Where handle sends an event: to the current generation, an archived one, or nowhere.
route(r, ev) ==
    IF archived(r, ev.room)
    THEN IF ev.type \in {"monitor", "reverted"} THEN "archived" ELSE "ignored"
    ELSE IF /\ ByRoom(r, ev.room) \/ Origin(ev.room) \in {r.gen.room, r.gen.fix}
            /\ ev.room = r.gen.room \/ r.gen.fix \in {NoRoom, ev.room}
         THEN "current" ELSE "ignored"

\* What an event says about the generation of its fix.
Heard(g, ev) ==
    CASE ev.type = "merged"   -> [g EXCEPT !.merged = TRUE]
      [] ev.type = "monitor"  -> [g EXCEPT !.monitor = ev.value]
      [] ev.type = "reverted" -> [g EXCEPT !.reverted = TRUE]
      [] OTHER                -> g

\* eventRepo refuses a repository that cannot be one: the fix stays unnamed.
\* handle's update: an unknown room whose origin is the task becomes its fix.
handle(r, ev) ==
    LET bound == [r EXCEPT !.gen.fix = IF @ = NoRoom /\ ev.room # r.gen.room THEN ev.room ELSE @,
                           !.gen.pr = @ \/ (ev.type \in {"opened", "merged", "reverted"} /\ ev.value # "unnamed")]
    IN IF ev.room # bound.gen.fix THEN bound
       ELSE [bound EXCEPT !.gen = Heard(bound.gen, ev),
                          !.ended = IF ev.type = "ended" THEN ev.value ELSE @]

handleArchived(r, ev) ==
    [r EXCEPT !.hold.gens = [i \in DOMAIN r.hold.gens |->
        IF r.hold.gens[i].fix = ev.room THEN Heard(r.hold.gens[i], ev) ELSE r.hold.gens[i]]]

-----------------------------------------------------------------------------
(* Holds.  An investigation is [fingerprint, good]: its text decides       *)
(* whether it meets the curator's bar.                                     *)

Starting(inv, at, fingerprint, gens) ==
    [NoHold EXCEPT !.kind = "held", !.accepted = at, !.good = inv.good,
                   !.fingerprint = fingerprint, !.gens = gens]

\* A fresh investigation the factory accepted: a new hold, a hold started again, or the
\* newest snapshot of one not yet drafted.
hold(r, inv, at, restart) ==
    LET h == r.hold
        fresh == IF r.draftFingerprint # 0 THEN r.draftFingerprint ELSE inv.fingerprint
        failed == failedGenerations(h.gens)
        unmarked == [i \in DOMAIN failed |-> [failed[i] EXCEPT !.observed = "", !.resolved = ""]]
    IN IF h.kind # "held"
       THEN [r EXCEPT !.hold = Starting(inv, at, fresh, failed)]
       ELSE IF restart
       THEN [r EXCEPT !.hold = Starting(inv, at, h.fingerprint, unmarked)]
       ELSE IF h.drafted = Undrafted /\ inv.good THEN [r EXCEPT !.hold.good = TRUE]
       ELSE r

\* holdRecall: an observe-only hold, of a recall with none yet.
holdRecall(r, inv) ==
    IF r.hold.kind # "none" THEN r
    ELSE [r EXCEPT !.hold = [NoHold EXCEPT !.kind = "observe", !.drafted = DraftedNone,
                                           !.entry = Catalogued, !.fingerprint = inv.fingerprint]]

\* Hold.Failures counts by step, or by step and fix room.
Once(step) == <<step, NoRoom>>

Unfailed(h, step) ==
    [h EXCEPT !.failures = [s \in DOMAIN h.failures \ {step} |-> h.failures[s]]]

\* Drafted is set once, and Entry with it unless the pull request is still to be read.
Drafted(h, drafted, entry) ==
    [Unfailed(h, Once("draft")) EXCEPT
        !.drafted = drafted, !.entry = entry, !.good = FALSE, !.linkDue = drafted # DraftedNone,
        !.promoteDue = drafted # DraftedNone, !.entryDue = drafted # DraftedNone /\ entry = NoEntry]

Frozen(h) == h.kind = "none" \/ h.drafted # Undrafted

\* Mutant: every outcome known by now counts as written, not those the draft was made with.
writeDraftAll(r, drafted, entry, carried) ==
    IF Frozen(r.hold) THEN r
    ELSE FoldLeft(LAMBDA acc, g : MarkResolved(acc, g.fix, Outcome(g)),
                  [r EXCEPT !.hold = Drafted(@, drafted, entry)],
                  IF drafted = DraftedNone THEN <<>> ELSE generations(r))

\* carried maps each fix the draft was written with to its outcome.
writeDraft(r, drafted, entry, carried) ==
    IF Frozen(r.hold) THEN r
    ELSE FoldLeft(LAMBDA acc, room : MarkResolved(acc, room, carried[room]),
                  [r EXCEPT !.hold = Drafted(@, drafted, entry)], SetToSeq(DOMAIN carried))

\* A failure past the window is counted, and the one that reaches the bound is terminal.
Failed(h, step) == IF step \in DOMAIN h.failures THEN h.failures[step] ELSE 0

GivesUp(h, step) == Failed(h, step) + 1 >= MaxFailures

CountFailure(r, step) ==
    IF r.hold.kind = "none" THEN r
    ELSE IF GivesUp(r.hold, step) THEN [r EXCEPT !.hold = Unfailed(@, step)]
    ELSE [r EXCEPT !.hold.failures = [s \in DOMAIN @ \cup {step} |->
                                        IF s = step THEN Failed(r.hold, step) + 1 ELSE @[s]]]
=============================================================================
