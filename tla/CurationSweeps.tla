--------------------------- MODULE CurationSweeps ---------------------------
(***************************************************************************)
(* The grooming passes of a sweep (curate/): Suppress, Dedup and Lifecycle *)
(* over the drafts that wait for a human, Recurrence, and Retirement and   *)
(* Revalidation, which propose to edit a merged entry                      *)
(* (forge/github/entryedit.go).  A pass keeps no store: it lists pull      *)
(* requests, issues and the ledger's roll-ups, decides on what it saw, and *)
(* acts call by call while humans, drafters and other sweeps go on.        *)
(***************************************************************************)
EXTENDS Integers, FiniteSets, FiniteSetsExt, Functions, Sequences, TLC

CONSTANTS
    Drafters,       \* the goroutines that curate investigations
    NoFp,           \* the fingerprint of a pull request without a marker
    Scenes          \* the deployments, histories and faults explored

\* sweeps: the server's sweeper, the command; prs bounds the pull requests; title and
\* resource: the title and the affected resource of each fingerprint; people: what humans
\* and the ledger do; episodes bounds an incident's open episodes, days those of a
\* confirmation; threshold: of Recurrence; entries: how many, in the order of their paths;
\* maxOpen, minGap: of Revalidation; failures bounds the calls that fail.
SceneFields == {"sweeps", "passes", "prs", "title", "resource", "people", "episodes", "threshold",
                "entries", "maxOpen", "minGap", "days", "failures"}
Proposing == {"retire", "revalidate"}
Passes == {"suppress", "dedup", "lifecycle", "recurrence"} \cup Proposing
ASSUME ScenesAssumption ==
    \A s \in Scenes :
        /\ DOMAIN s = SceneFields
        /\ {s.prs, s.entries, s.episodes, s.threshold, s.maxOpen, s.minGap, s.days, s.failures} \subseteq Nat
        /\ s.passes \in Seq(Passes) /\ s.passes # <<>>

VARIABLES
    scene,
    pr,         \* the pull requests labelled runlore, by number
    gaps,       \* how many knowledge-gap issues are open for each resource
    open,       \* the ledger's unresolved episodes of each fingerprint
    track,      \* its roll-up of each entry: below the floor, for long enough, last confirmed
    file,       \* each entry on the base branch
    looked,     \* the fingerprint each drafter found no open pull request for
    sweep,      \* where each sweep is
    spent,      \* failed calls so far
    noes        \* auxiliary: the fingerprints a human closed a draft of

vars == <<scene, pr, gaps, open, track, file, looked, sweep, spent, noes>>

Numbers == 1..scene.prs
Fps == DOMAIN scene.resource
Resources == Range(scene.resource)
Entries == 1..scene.entries

\* kind: a draft, a note, or the pass that proposes an edit of entry; date: what it would
\* stamp over was; labelled: with what the passes list on.
NoPR == [state |-> "none", kind |-> "draft", fp |-> NoFp, entry |-> 0, date |-> 0, was |-> 0, labelled |-> TRUE,
         marks |-> {}, stale |-> FALSE, closer |-> "nobody"]
Idle == [pass |-> 0, step |-> "idle", seen |-> <<>>, todo |-> {}, at |-> 0, number |-> 0, noes |-> {},
         budget |-> 0, file |-> <<>>, asked |-> {}]

Open == {n \in Numbers : pr[n].state = "open" /\ pr[n].labelled}
Protected(p) == "protected" \in p.marks

\* ClosedPRSuppression: the fingerprints of the pull requests closed unmerged, but for
\* those to be revised and submitted again.
Suppressed ==
    {pr[n].fp : n \in {n \in Numbers : pr[n].state = "closed" /\ "needs-work" \notin pr[n].marks}} \ {NoFp}

isDuplicatePair(p, q) == (p.fp # NoFp /\ p.fp = q.fp) \/ scene.title[p.fp] = scene.title[q.fp]

\* The duplicates among listed pull requests: an unprotected one is a duplicate of the
\* lowest-numbered one like it that is not a duplicate itself.
Duplicates(seen) ==
    LET among == {n \in DOMAIN seen : seen[n].kind = "draft"}
        dup[n \in Numbers] ==
            /\ n \in among /\ ~Protected(seen[n])
            /\ \E m \in among : m < n /\ ~dup[m] /\ isDuplicatePair(seen[m], seen[n])
    IN {n \in Numbers : dup[n]}

\* What bugs would do: a stale sweep that takes every kind of pull request.
AnyStale(seen) == {n \in DOMAIN seen : ~Protected(seen[n]) /\ seen[n].stale}

\* Lifecycle: drafts and notes without progress, never an edit of a merged entry.
Stale(seen) == {n \in DOMAIN seen : seen[n].kind \notin Proposing /\ ~Protected(seen[n]) /\ seen[n].stale}

\* Retirement's candidates decayed below the floor for long enough, Revalidation's are
\* confirmed and not below it.
Candidate(pass, t) == IF pass = "retire" THEN t.enough /\ t.below ELSE t.confirmed > 0 /\ ~t.below

\* The proposals the label lists of a pass, and the entries of some.
Listed(pass, state) == {n \in Numbers : pr[n].state = state /\ pr[n].kind = pass /\ pr[n].labelled}
About(numbers) == {pr[n].entry : n \in numbers}

-----------------------------------------------------------------------------
Init ==
    /\ scene \in Scenes
    /\ pr = [n \in Numbers |-> NoPR]
    /\ gaps = [r \in Resources |-> 0]
    /\ open = [f \in Fps |-> 0]
    /\ track = [e \in Entries |-> [below |-> FALSE, enough |-> FALSE, confirmed |-> 0]]
    /\ file = [e \in Entries |-> [exists |-> TRUE, retired |-> FALSE, validated |-> 0]]
    /\ looked = [d \in Drafters |-> NoFp]
    /\ sweep = [s \in scene.sweeps |-> Idle]
    /\ spent = 0
    /\ noes = {}

Fails == spent < scene.failures /\ spent' = spent + 1
Works == spent' = spent

forge == <<pr, gaps>>
ledger == <<open, track>>
others == <<scene, ledger, file, looked, noes>>

\* A comment, a label or a push is an update: the age starts again.
Change(n, p) == pr' = [pr EXCEPT ![n] = [p EXCEPT !.stale = FALSE]]

-----------------------------------------------------------------------------
(* The environment: humans, time, drafters and the ledger's writers.       *)

Human(what) == what \in scene.people /\ UNCHANGED <<scene, gaps, ledger, looked, sweep, spent>>

\* solved, accepted, investigating, ready-to-merge: a human has touched it.
Protect(n) ==
    /\ Human("protect") /\ n \in Open
    /\ Change(n, [pr[n] EXCEPT !.marks = @ \cup {"protected"}])
    /\ UNCHANGED <<file, noes>>

\* Closing without merging is a no, unless the label says to revise it.
Reject(n, mark) ==
    /\ Human("reject") /\ pr[n].state = "open"
    /\ Change(n, [pr[n] EXCEPT !.state = "closed", !.closer = "human", !.marks = @ \cup mark])
    /\ noes' = IF pr[n].fp = NoFp \/ mark # {} THEN noes ELSE noes \cup {pr[n].fp}
    /\ UNCHANGED file

\* A merged proposal changes its line of the entry, if that is still as it found it; and it
\* is never listed again.
Merge(n) ==
    /\ Human("merge") /\ pr[n].state = "open"
    /\ LET e == pr[n].entry
       IN \/ /\ pr[n].kind \notin Proposing
             /\ Change(n, [pr[n] EXCEPT !.state = "merged"])
             /\ UNCHANGED file
          \/ /\ pr[n].kind = "retire" /\ file[e].exists
             /\ file' = [file EXCEPT ![e].retired = TRUE]
             /\ Change(n, NoPR)
          \/ /\ pr[n].kind = "revalidate" /\ file[e].exists /\ file[e].validated = pr[n].was
             /\ file' = [file EXCEPT ![e].validated = pr[n].date]
             /\ Change(n, NoPR)
    /\ UNCHANGED noes

Reopen(n) ==
    /\ Human("reopen") /\ pr[n].state = "closed"
    /\ Change(n, [pr[n] EXCEPT !.state = "open", !.closer = "nobody"])
    /\ UNCHANGED <<file, noes>>

\* An entry is removed by hand.
Remove(e) ==
    /\ Human("remove")
    /\ file' = [file EXCEPT ![e].exists = FALSE]
    /\ UNCHANGED <<pr, noes>>

GoesStale(n) ==
    /\ "age" \in scene.people /\ n \in Open
    /\ pr' = [pr EXCEPT ![n].stale = TRUE]
    /\ UNCHANGED <<others, gaps, sweep, spent>>

Free == {n \in Numbers : pr[n].state = "none"}
Opens(kind, fp) ==
    /\ Free # {}
    /\ pr' = [pr EXCEPT ![Min(Free)] = [NoPR EXCEPT !.state = "open", !.kind = kind, !.fp = fp]]
    /\ UNCHANGED <<scene, gaps, ledger, file, sweep, spent, noes>>

\* Curate drafts what is neither in the catalogue nor on an open pull request; what a
\* human closed it does not look at.
Look(d, fp) ==
    /\ looked[d] = NoFp
    /\ ~\E n \in Numbers : pr[n].fp = fp /\ pr[n].state \in {"open", "merged"}
    /\ looked' = [looked EXCEPT ![d] = fp]
    /\ UNCHANGED <<scene, forge, ledger, file, sweep, spent, noes>>

Draft(d) ==
    /\ looked[d] # NoFp
    /\ Opens("draft", looked[d])
    /\ looked' = [looked EXCEPT ![d] = NoFp]

\* A human's note, a hand-filed entry: neither has a marker.
OpenNote == "note" \in scene.people /\ Opens("note", NoFp) /\ UNCHANGED looked

Learns == UNCHANGED <<scene, forge, file, looked, sweep, spent, noes>>

Recurs(fp) ==
    /\ open[fp] < scene.episodes
    /\ open' = [open EXCEPT ![fp] = @ + 1]
    /\ UNCHANGED track /\ Learns

Resolves(fp) ==
    /\ open[fp] > 0
    /\ open' = [open EXCEPT ![fp] = @ - 1]
    /\ UNCHANGED track /\ Learns

\* Recalls, resolves and votes move an entry's factor across the floor, either way.
Tracks(e) ==
    /\ \/ "decay" \in scene.people /\ track' = [track EXCEPT ![e].below = TRUE, ![e].enough = TRUE]
       \/ "recover" \in scene.people /\ track' = [track EXCEPT ![e].below = FALSE]
       \/ track[e].confirmed < scene.days /\ track' = [track EXCEPT ![e].confirmed = @ + 1]
    /\ UNCHANGED open /\ Learns

-----------------------------------------------------------------------------
(* A sweep: the passes of Agent.Run, one after the other.                  *)

\* A pass that is done, or whose listing fails, leaves the rest to the next.
EndPass(s) ==
    LET next == sweep[s].pass + 1
    IN sweep' = [sweep EXCEPT ![s] =
        IF next > Len(scene.passes) THEN Idle
        ELSE [Idle EXCEPT !.pass = next, !.step = "list", !.asked = sweep[s].asked]]

Pass(s) == scene.passes[sweep[s].pass]
At(s, step) == sweep[s].step = step

\* The ticker, or someone who runs the command.
Start(s) ==
    /\ At(s, "idle")
    /\ sweep' = [sweep EXCEPT ![s].pass = 1, ![s].step = "list"]
    /\ UNCHANGED <<others, forge, spent>>

\* The pull requests, episodes or counts a pass decides on are the ones of this moment.
List(s) ==
    /\ At(s, "list")
    /\ CASE Pass(s) = "suppress" ->
               LET listed == {n \in Open : pr[n].fp # NoFp /\ ~Protected(pr[n])}
               IN sweep' = [sweep EXCEPT ![s].step = IF listed = {} THEN "act" ELSE "fetch", ![s].todo = listed]
         [] Pass(s) = "dedup" -> sweep' = [sweep EXCEPT ![s].step = "act", ![s].todo = Duplicates(Restrict(pr, Open))]
         [] Pass(s) = "lifecycle" -> sweep' = [sweep EXCEPT ![s].step = "act", ![s].todo = Stale(Restrict(pr, Open))]
         [] Pass(s) = "recurrence" ->
               sweep' = [sweep EXCEPT ![s].step = IF \A f \in Fps : open[f] = 0 THEN "issues" ELSE "fetch", ![s].seen = open]
         [] OTHER ->
               LET found == {e \in Entries : Candidate(Pass(s), track[e])}
               IN sweep' = [sweep EXCEPT ![s].step = IF found = {} THEN "propose" ELSE "open",
                                         ![s].seen = track, ![s].todo = found]
    /\ Works
    /\ UNCHANGED <<others, forge>>

\* The suppression set is fetched once something could match it.
Fetch(s) ==
    /\ At(s, "fetch")
    /\ IF Pass(s) = "suppress"
       THEN sweep' = [sweep EXCEPT ![s].step = "act", ![s].todo = {n \in @ : pr[n].fp \in Suppressed}]
       ELSE sweep' = [sweep EXCEPT ![s].step = "issues", ![s].noes = Suppressed]
    /\ Works
    /\ UNCHANGED <<others, forge>>

\* The unresolved episodes seen, of a fingerprint a human said no to, or of a resource.
\* What bugs would do: counting those of a refused fingerprint and leaving it at that.
NeverEscalated(s) == {}
Refused(s) == {f \in sweep[s].noes : sweep[s].seen[f] >= scene.threshold}
Unexplained(s) ==
    {r \in Resources :
        MapThenSumSet(LAMBDA f : sweep[s].seen[f], {f \in Fps \ sweep[s].noes : scene.resource[f] = r})
            >= scene.threshold}

\* The open issues are the record of what was reported.
Unreported(candidates) == {c \in candidates : gaps[c.resource] = 0}

Issues(s) ==
    /\ At(s, "issues")
    /\ sweep' = [sweep EXCEPT ![s].step = "report", ![s].todo = Unreported(
           {[fp |-> f, resource |-> scene.resource[f]] : f \in Refused(s)}
             \cup {[fp |-> NoFp, resource |-> r] : r \in Unexplained(s)})]
    /\ Works
    /\ UNCHANGED <<others, forge>>

\* What bugs would do: an error that ends the goroutine of the sweeper.
StopsForGood(s) ==
    /\ sweep[s].step \in {"list", "fetch", "issues", "open", "closed"}
    /\ Fails
    /\ sweep' = [sweep EXCEPT ![s].step = "stopped"]
    /\ UNCHANGED <<others, forge>>

ListFails(s) ==
    /\ sweep[s].step \in {"list", "fetch", "issues", "open", "closed"}
    /\ Fails
    /\ EndPass(s)
    /\ UNCHANGED <<others, forge>>

\* The comment that says why comes first; without its answer nothing is closed.
Comment(s) ==
    /\ At(s, "act")
    /\ \E n \in sweep[s].todo :
         \/ /\ Works
            /\ Change(n, pr[n])
            /\ sweep' = [sweep EXCEPT ![s].step = "close", ![s].at = n]
         \/ /\ Fails
            /\ UNCHANGED pr \/ Change(n, pr[n])
            /\ sweep' = [sweep EXCEPT ![s].todo = @ \ {n}]
    /\ UNCHANGED <<others, gaps>>

Close(s) ==
    /\ At(s, "close")
    /\ LET n == sweep[s].at
           Closed == IF n \in Open THEN Change(n, [pr[n] EXCEPT !.state = "closed", !.closer = Pass(s)]) ELSE UNCHANGED pr
       IN /\ \/ Works /\ Closed
             \/ Fails /\ (UNCHANGED pr \/ Closed)
          /\ sweep' = [sweep EXCEPT ![s].step = "act", ![s].todo = @ \ {n}, ![s].at = 0]
    /\ UNCHANGED <<others, gaps>>

\* What bugs would do: not counting what this run has reported.
ReportsBoth(s) ==
    /\ At(s, "report")
    /\ \E c \in sweep[s].todo :
         /\ gaps' = [gaps EXCEPT ![c.resource] = @ + 1]
         /\ sweep' = [sweep EXCEPT ![s].todo = @ \ {c}]
    /\ Works
    /\ UNCHANGED <<others, pr>>

\* OpenIssue: those that link the human's close come first, and stand for their resource;
\* an issue whose answer is lost is open, and stands for nothing in this run.
Report(s) ==
    /\ At(s, "report")
    /\ \E c \in sweep[s].todo :
         /\ c.fp = NoFp => \A d \in sweep[s].todo : d.fp = NoFp
         /\ \/ /\ Works
               /\ gaps' = [gaps EXCEPT ![c.resource] = @ + 1]
               /\ sweep' = [sweep EXCEPT ![s].todo = {d \in @ : d.resource # c.resource}]
            \/ /\ Fails
               /\ gaps' \in {gaps, [gaps EXCEPT ![c.resource] = @ + 1]}
               /\ sweep' = [sweep EXCEPT ![s].todo = @ \ {c}]
    /\ UNCHANGED <<others, pr>>

-----------------------------------------------------------------------------
(* Retirement and Revalidation: the proposals to edit a merged entry.      *)

\* What bugs would do: reading first what was declined, then what is open.
ClosedFirst(s) ==
    /\ sweep[s].step \in {"open", "closed"}
    /\ sweep' = [sweep EXCEPT
           ![s].step = IF @ = "open" THEN "closed" ELSE "propose",
           ![s].todo = @ \ About(Listed(Pass(s), IF At(s, "open") THEN "closed" ELSE "open")),
           ![s].budget = scene.maxOpen - Cardinality(Listed(Pass(s), "open"))]
    /\ Works
    /\ UNCHANGED <<others, forge>>

\* What bugs would do: a bound for each sweep.
BudgetPerSweep(s) ==
    /\ sweep[s].step \in {"open", "closed"}
    /\ sweep' = [sweep EXCEPT
           ![s].step = IF @ = "open" THEN "closed" ELSE "propose",
           ![s].todo = @ \ About(Listed(Pass(s), sweep[s].step)),
           ![s].budget = scene.maxOpen]
    /\ Works
    /\ UNCHANGED <<others, forge>>

\* What is open was asked already and fills the review queue; what was closed unmerged, a
\* human has declined.
ListProposals(s) ==
    /\ sweep[s].step \in {"open", "closed"}
    /\ sweep' = [sweep EXCEPT
           ![s].step = IF @ = "open" THEN "closed" ELSE "propose",
           ![s].todo = @ \ About(Listed(Pass(s), sweep[s].step)),
           ![s].budget = IF At(s, "open") THEN scene.maxOpen - Cardinality(Listed(Pass(s), "open")) ELSE @]
    /\ Works
    /\ UNCHANGED <<others, forge>>

QueueFull(s) == Pass(s) = "revalidate" /\ sweep[s].budget <= 0

\* The next candidate: a flaky entry never starves the rest.
NextOne(s) == sweep' = [sweep EXCEPT ![s].step = "propose", ![s].todo = @ \ {sweep[s].at}]

\* setLastValidated: nothing newer by the minimal gap, or a date ahead of it.
Recently(t, f) == t.confirmed - f.validated < scene.minGap

\* setStatusRetired, setLastValidated: the file on the base says that nothing is to do.
Unwarranted(s, e) == file[e].retired \/ (Pass(s) = "revalidate" /\ Recently(sweep[s].seen[e], file[e]))

\* The entry on the base branch; a removed one is an error.
ReadEntry(s) ==
    /\ At(s, "propose") /\ sweep[s].todo # {} /\ ~QueueFull(s)
    /\ LET e == Min(sweep[s].todo)
       IN \/ /\ file[e].exists /\ ~Unwarranted(s, e) /\ Works
             /\ sweep' = [sweep EXCEPT ![s].step = "pr", ![s].at = e, ![s].file = file[e]]
          \/ (~file[e].exists \/ Unwarranted(s, e)) /\ Works /\ sweep' = [sweep EXCEPT ![s].todo = @ \ {e}]
          \/ Fails /\ sweep' = [sweep EXCEPT ![s].todo = @ \ {e}]
    /\ UNCHANGED <<others, forge>>

\* Branch, commit and pull request; the blob's hash fails the commit of a file that changed
\* meanwhile, and the answer that the pull request is open may be lost.
Propose(s) ==
    LET e == sweep[s].at
        Opened == pr' = [pr EXCEPT ![Min(Free)] = [NoPR EXCEPT
            !.state = "open", !.kind = Pass(s), !.entry = e, !.labelled = FALSE,
            !.date = sweep[s].seen[e].confirmed, !.was = sweep[s].file.validated]]
    IN /\ At(s, "pr")
       /\ \/ file[e] # sweep[s].file /\ Works /\ NextOne(s) /\ UNCHANGED pr
          \/ /\ file[e] = sweep[s].file /\ Free # {} /\ Works /\ Opened
             /\ sweep' = [sweep EXCEPT ![s].step = "label", ![s].number = Min(Free),
                                       ![s].asked = @ \cup {<<Pass(s), e>>}]
          \/ file[e] = sweep[s].file /\ Free # {} /\ Fails /\ NextOne(s) /\ Opened
          \/ Fails /\ NextOne(s) /\ UNCHANGED pr
       /\ UNCHANGED <<others, gaps>>

\* addLabels, without which no pass sees the proposal; only a good answer spends the budget.
Label(s) ==
    LET labelled == [pr EXCEPT ![sweep[s].number].labelled = TRUE]
    IN /\ At(s, "label")
       /\ \/ /\ Works /\ pr' = labelled
             /\ sweep' = [sweep EXCEPT ![s].step = "propose", ![s].todo = @ \ {sweep[s].at}, ![s].budget = @ - 1]
          \/ Fails /\ pr' \in {pr, labelled} /\ NextOne(s)
       /\ UNCHANGED <<others, gaps>>

-----------------------------------------------------------------------------
PassOver(s) ==
    /\ sweep[s].step \in {"act", "report", "propose"}
    /\ sweep[s].todo = {} \/ (At(s, "propose") /\ QueueFull(s))
    /\ EndPass(s)
    /\ UNCHANGED <<others, forge, spent>>

\* The lease is lost, or the command interrupted.
Cancelled(s) ==
    /\ ~At(s, "idle") /\ Fails
    /\ sweep' = [sweep EXCEPT ![s] = Idle]
    /\ UNCHANGED <<others, forge>>

\* A human closes a knowledge-gap issue.
CloseGap(r) ==
    /\ "gap" \in scene.people /\ gaps[r] > 0
    /\ gaps' = [gaps EXCEPT ![r] = @ - 1]
    /\ UNCHANGED <<others, pr, sweep, spent>>

Sweeps(s) ==
    \/ Start(s) \/ List(s) \/ Fetch(s) \/ Issues(s) \/ ListFails(s) \/ Comment(s) \/ Close(s)
    \/ Report(s) \/ ListProposals(s) \/ ReadEntry(s) \/ Propose(s) \/ Label(s) \/ PassOver(s)

Humans ==
    \/ \E n \in Numbers : Protect(n) \/ Merge(n) \/ Reopen(n) \/ GoesStale(n)
    \/ \E n \in Numbers, mark \in {{}, {"needs-work"}} : Reject(n, mark)
    \/ \E r \in Resources : CloseGap(r)
    \/ \E e \in Entries : Remove(e)
    \/ OpenNote

Next ==
    \/ Humans
    \/ \E d \in Drafters : Draft(d) \/ \E f \in Fps : Look(d, f)
    \/ \E f \in Fps : Recurs(f) \/ Resolves(f)
    \/ \E e \in Entries : Tracks(e)
    \/ \E s \in scene.sweeps : Sweeps(s) \/ Cancelled(s)

Spec == Init /\ [][Next]_vars

\* The ticker goes on, and a sweep does not stop within a pass.
FairSpec == Spec /\ WF_vars("sweeper" \in scene.sweeps /\ Sweeps("sweeper"))

-----------------------------------------------------------------------------
(* Properties.                                                             *)

\* A resource has one open knowledge-gap issue and one more for each failed call at most,
\* whose answer was lost (recurrence.go:113), however the close of a draft, the human who
\* closes an issue and new episodes interleave with the pass.
OneGapPerResource == \A r \in Resources : gaps[r] <= 1 + spent

\* A draft of what a human has refused does not stay open, unless someone touches it.
Redraft(n) == pr[n].state = "open" /\ ~Protected(pr[n]) /\ pr[n].fp \in Suppressed
AllNumbers == UNION {1..s.prs : s \in Scenes}
RedraftsAreClosed == \A n \in AllNumbers : []<>~(n \in Numbers /\ Redraft(n))

\* An incident of which a threshold of episodes stays unresolved has an issue, whether its
\* drafts are refused, reopened or refused again meanwhile (suppression.go:14: a no is
\* counted silently and, past the threshold, escalated).
AllFps == UNION {DOMAIN s.resource : s \in Scenes}
RecurrenceIsReported ==
    \A f \in AllFps :
        <>[](f \in Fps /\ open[f] >= scene.threshold) => []<>(f \in Fps /\ gaps[scene.resource[f]] > 0)

\* A human's no lasts: it is silent for redrafts and loud for what keeps recurring.
RefusalIsHeeded == RedraftsAreClosed /\ RecurrenceIsReported

Proposals(pass, e) == {n \in Numbers : pr[n].kind = pass /\ pr[n].entry = e /\ pr[n].state # "none"}

\* Whenever a human closes it, be it during a sweep, what was proposed with its label is
\* not proposed again while it is open or declined (retirement.go:51, "is a human veto that
\* is never re-nagged").
AskedOnce ==
    [][\A n \in Numbers : pr[n].state = "none" /\ pr'[n].state = "open" /\ pr'[n].kind \in Proposing =>
         \A m \in Proposals(pr'[n].kind, pr'[n].entry) : ~pr[m].labelled]_vars

\* The review queue, over all sweeps, exceeds its bound by the calls that failed at most
\* (revalidation.go:88, "It is a reviewer-queue bound, not a per-run one").
Waiting == {n \in Numbers : pr[n].state = "open" /\ pr[n].kind = "revalidate"}
QueueBounded == Cardinality(Waiting) <= scene.maxOpen + spent

\* An entry that stays decayed, or confirmed, is proposed or a human has declined: no other
\* entry, no failed call, no housekeeping close stands in the way (retirement.go:63, "one
\* flaky entry never starves the rest"; lifecycle.go:29), but a full review queue may.
AllEntries == UNION {1..s.entries : s \in Scenes}
Warranted(pass, e) ==
    /\ e \in Entries /\ Candidate(pass, track[e]) /\ file[e].exists /\ ~file[e].retired
    /\ pass = "revalidate" => ~Recently(track[e], file[e])
Answered(pass, e) ==
    \/ \E n \in Proposals(pass, e) : pr[n].state = "open" \/ pr[n].closer = "human"
    \/ pass = "revalidate" /\ Cardinality(Waiting) >= scene.maxOpen
WarrantedIsProposed ==
    \A pass \in Proposing, e \in AllEntries : <>[]Warranted(pass, e) => []<>Answered(pass, e)

\* Suppress closes what "a human previously rejected" (suppression.go:124), and not what
\* RunLore itself closed.
OnlyHumansRefuse == \A n \in Numbers : pr[n].closer = "suppress" => pr[n].fp \in noes

\* Recurrence "opens at most one issue per pattern" (recurrence.go:16).
OneIssuePerPattern == \A r \in Resources : gaps[r] <= 1

\* "MaxOpen bounds how many revalidation PRs may be waiting on a human at once"
\* (revalidation.go:87).
ReviewQueueBounded == Cardinality(Waiting) <= scene.maxOpen

\* "an entry can never be proposed for both in one sweep" (revalidation.go:70).
DisjointInASweep == \A s \in scene.sweeps, e \in Entries : ~(Proposing \X {e} \subseteq sweep[s].asked)

=============================================================================
