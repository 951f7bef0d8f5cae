------------------------------ MODULE Factory ------------------------------
(***************************************************************************)
(* One incident handed to the agent factory.  A finished investigation is  *)
(* filed as a task; the factory's broker reports, by webhook, the fix room *)
(* of the task, its merge, what the monitor read and a revert; the         *)
(* verifier checks the alert once the merge has soaked and tells the       *)
(* factory; the curation holds the knowledge-base entry until a fix is     *)
(* verified, then drafts it, credits it and has it promoted.               *)
(*                                                                         *)
(* Five actors share the record of the incident: the investigation that    *)
(* ends (cur), the webhook handlers (hooks), the goroutine of a merge      *)
(* (merging), the verifier (ver) and the curation's tick (tick).  A step   *)
(* is one critical section of the ledger, with the call of a service that  *)
(* comes before it or after it.  The factory, its broker, the forge and    *)
(* Alertmanager are external.                                              *)
(***************************************************************************)
EXTENDS FactoryRecord

CONSTANT Scenes     \* what may happen: [defer, detections, investigations, tasks, events,
                    \*  burst, windows, refusals, human, faults, failures]

VARIABLES
    scene, failures, \* the bounds of this behaviour, and the faults so far
    rec, seen,      \* Ledger.records of the incident, Ledger.seen
    disk,           \* what replaying factory.jsonl gives: [rec, seen]
    hooks,          \* the webhooks being handled, whose ids are claimed
    merging,        \* the OnMerged goroutines: not started, or with the fix they read
    ver, evidence,  \* Verifier.Once, and its cache: the fix it investigated for
    cur,            \* Curation.Curate, or Notifier.Deliver
    tick,           \* Curation.Once
    tasks,          \* the factory's tasks for the incident: how many, is the last one open
    mail, said,     \* the broker: events not acknowledged, events sent
    lost,           \* events acknowledged whose handling then failed
    posted,         \* the verdict the factory took on each fix
    soaked, passed, \* merges whose soak is over, acceptances whose window is
    accepted,       \* instants given to holds
    prs,            \* the forge's entry pull requests
    told,           \* outcome.Ledger.verifies, by fix room
    abandoned       \* what the curation gave up, by step and fix room

stored == <<rec, seen, disk>>
factory == <<tasks, mail, said, posted>>
curating == <<cur, tick, accepted, prs, told, abandoned>>
clocks == <<soaked, passed>>

vars == <<scene, failures, stored, hooks, merging, ver, evidence, factory, lost, curating, clocks>>

Fault(kind) ==
    /\ kind \in scene.faults /\ failures < scene.failures
    /\ failures' = failures + 1

NoFault == UNCHANGED failures

Spread(f, x, y) == [z \in DOMAIN f \cup {x} |-> IF z = x THEN y ELSE f[z]]

\* Upsert: the line is durable before the memory changes; a failed Sync leaves it in the file.
Stored(next) == rec' = next /\ disk' = [disk EXCEPT !.rec = next] /\ UNCHANGED seen

Upsert(next, ok) ==
    \/ ok /\ NoFault /\ Stored(next)
    \/ ~ok /\ Fault("append") /\ UNCHANGED stored
    \/ ~ok /\ Fault("sync") /\ disk' = [disk EXCEPT !.rec = next] /\ UNCHANGED <<rec, seen>>

windowPassed(h) == h.accepted = 0 \/ h.accepted \in passed

IdleCurate == [pc |-> "idle", inv |-> [fingerprint |-> 0, good |-> FALSE, recalled |-> FALSE],
               room |-> NoRoom, status |-> "", restart |-> FALSE]
IdleTick == [pc |-> "idle", todo |-> <<>>, pr |-> DraftedNone, entry |-> NoEntry, fingerprint |-> 0,
             carried |-> <<>>, route |-> ""]
IdleVerifier == [pc |-> "idle", fix |-> NoRoom, verdict |-> "", evidence |-> NoRoom]

Init ==
    /\ scene \in Scenes /\ failures = 0
    /\ rec = NoRecord /\ seen = {} /\ disk = [rec |-> NoRecord, seen |-> {}]
    /\ hooks = {} /\ merging = {} /\ ver = IdleVerifier /\ evidence = NoRoom
    /\ cur = IdleCurate /\ tick = IdleTick /\ accepted = 0
    /\ tasks = [n |-> 0, open |-> FALSE] /\ mail = {} /\ said = {} /\ lost = {} /\ posted = <<>>
    /\ soaked = {} /\ passed = {}
    /\ prs = <<>> /\ told = <<>> /\ abandoned = {}

-----------------------------------------------------------------------------
(* The factory, its broker, time and the people at the forge.              *)

\* The task's proposal is out: the factory may open another for the next detection.
TaskEnds ==
    /\ tasks.open
    /\ tasks' = [tasks EXCEPT !.open = FALSE]
    /\ UNCHANGED <<scene, failures, stored, hooks, merging, ver, evidence, mail, said, posted, lost,
                   curating, clocks>>

\* The factory reports a fix of a task it has; what follows a merge follows its report.
Emit(ev) ==
    /\ ev \in scene.events \ said
    /\ ev.room[1] <= tasks.n /\ Cardinality(mail) < scene.burst
    /\ ev.type \in {"monitor", "reverted"} => \E e \in said : e.room = ev.room /\ e.type = "merged"
    /\ mail' = mail \cup {ev} /\ said' = said \cup {ev}
    /\ UNCHANGED <<scene, failures, stored, hooks, merging, ver, evidence, tasks, posted, lost,
                   curating, clocks>>

SoakEnds(room) ==
    /\ room \notin soaked \cup {NoRoom, Epoch}
    /\ room = rec.soak \/ (rec.gen.merged /\ room = rec.gen.fix)
    /\ soaked' = soaked \cup {room}
    /\ UNCHANGED <<scene, failures, stored, hooks, merging, ver, evidence, factory, lost, curating, passed>>

WindowEnds ==
    /\ rec.hold.kind # "none" /\ ~windowPassed(rec.hold) /\ Cardinality(passed) < scene.windows
    /\ passed' = passed \cup {rec.hold.accepted}
    /\ UNCHANGED <<scene, failures, stored, hooks, merging, ver, evidence, factory, lost, curating, soaked>>

\* A person merges an entry's pull request, or closes it.
Decides(n, state) ==
    /\ state \in scene.human /\ prs[n].state = "open"
    /\ prs' = [prs EXCEPT ![n].state = state]
    /\ UNCHANGED <<scene, failures, stored, hooks, merging, ver, evidence, factory, lost, cur, tick, accepted,
                   told, abandoned, clocks>>

-----------------------------------------------------------------------------
(* Receiver.                                                               *)

Acknowledge(ev) == mail' = mail \ {ev}

\* Claim and ByRoom.  An id that is claimed or seen is acknowledged without being handled.
Receive(ev) ==
    /\ ev \in mail
    /\ \/ /\ \E h \in hooks : h.ev = ev
          /\ Fault("resend") /\ Acknowledge(ev) /\ UNCHANGED <<stored, hooks>>
       \/ /\ ev \in seen
          /\ NoFault /\ Acknowledge(ev) /\ UNCHANGED <<stored, hooks>>
       \/ /\ ev \notin seen /\ (\A h \in hooks : h.ev # ev)
          /\ NoFault
          /\ IF route(rec, ev) = "ignored"
             THEN /\ Acknowledge(ev) /\ seen' = seen \cup {ev}
                  /\ disk' = [disk EXCEPT !.seen = @ \cup {ev}]
                  /\ UNCHANGED <<rec, hooks>>
             ELSE /\ hooks' = hooks \cup {[ev |-> ev, route |-> route(rec, ev)]}
                  /\ UNCHANGED <<mail, stored>>
    /\ UNCHANGED <<scene, merging, ver, evidence, tasks, said, posted, lost, curating, clocks>>

\* The Upsert, then MarkSeen, whose failure does not fail the request, and Release.
Handle(h) ==
    LET next == IF h.route = "archived" THEN handleArchived(rec, h.ev) ELSE handle(rec, h.ev)
    IN /\ h \in hooks /\ hooks' = hooks \ {h}
       /\ \/ /\ rec' = next /\ Acknowledge(h.ev) /\ UNCHANGED lost
             /\ merging' = IF next.gen.merged /\ ~rec.gen.merged THEN merging \cup {NoRoom} ELSE merging
             /\ \/ NoFault /\ seen' = seen \cup {h.ev} /\ disk' = [rec |-> next, seen |-> seen']
                \/ Fault("append") /\ UNCHANGED seen /\ disk' = [disk EXCEPT !.rec = next]
          \/ /\ Upsert(next, FALSE)
             /\ lost' = IF h.ev \in mail THEN lost ELSE lost \cup {h.ev}
             /\ UNCHANGED <<mail, merging>>
    /\ UNCHANGED <<scene, ver, evidence, tasks, said, posted, curating, clocks>>

-----------------------------------------------------------------------------
(* Verifier.                                                               *)

\* OnMerged reads the record and asks Alertmanager, ...
OnMergedReads ==
    /\ NoRoom \in merging
    /\ merging' = (merging \ {NoRoom}) \cup
                    {IF rec.gen.merged THEN rec.gen.fix ELSE rec.gen.room}
    /\ UNCHANGED <<scene, failures, stored, hooks, ver, evidence, factory, lost, curating, clocks>>

\* ... then writes when the soak of what it read ends.
OnMergedWrites(room, ok) ==
    /\ room \in merging \ {NoRoom} /\ merging' = merging \ {room}
    /\ Upsert([rec EXCEPT !.soak = room], ok)
    /\ UNCHANGED <<scene, hooks, ver, evidence, factory, lost, curating, clocks>>

Due(r) == AwaitsVerdict(r) /\ (r.soak = Epoch \/ r.soak \in soaked)

\* Once looks for merges without a deadline, ...
VerifierTick ==
    /\ ver.pc = "idle"
    /\ \/ Unscheduled(rec) /\ ver' = [ver EXCEPT !.pc = "schedule"]
       \/ ~Unscheduled(rec) /\ Due(rec) /\ ver' = [ver EXCEPT !.pc = "check", !.fix = rec.gen.fix]
    /\ UNCHANGED <<scene, failures, stored, hooks, merging, evidence, factory, lost, curating, clocks>>

\* ... schedules them from the merge time the record then has, ...
Schedule(ok) ==
    /\ ver.pc = "schedule" /\ ver' = IdleVerifier
    /\ Upsert([rec EXCEPT !.soak = IF rec.gen.merged THEN rec.gen.fix ELSE Epoch], ok)
    /\ UNCHANGED <<scene, hooks, merging, evidence, factory, lost, curating, clocks>>

\* ... and checks those that are due: Alertmanager's answer, the cached re-investigation,
\* and the factory, which takes a verdict once and refuses another.
Check(verdict) ==
    LET own == IF evidence = NoRoom THEN ver.fix ELSE evidence
        standing == IF ver.fix \in DOMAIN posted THEN posted[ver.fix] ELSE verdict
    IN /\ ver.pc = "check"
       /\ \/ /\ NoFault /\ standing = verdict
             /\ posted' = Spread(posted, ver.fix, verdict)
             /\ evidence' = NoRoom
             /\ ver' = [ver EXCEPT !.pc = "record", !.verdict = verdict, !.evidence = own]
          \/ /\ NoFault /\ (standing # verdict \/ scene.refusals)
             /\ UNCHANGED posted /\ evidence' = NoRoom
             /\ ver' = [ver EXCEPT !.pc = "record"]
          \/ /\ Fault("factory") /\ ver' = IdleVerifier /\ evidence' = own
             /\ posted' \in {posted, Spread(posted, ver.fix, standing)}
    /\ UNCHANGED <<scene, stored, hooks, merging, tasks, mail, said, lost, curating, clocks>>

\* The verdict goes to the generation of its fix, a refusal to the current one only.
RecordVerdict(ok) ==
    /\ ver.pc = "record" /\ ver' = IdleVerifier
    /\ Upsert(IF ver.verdict # "" THEN recordVerdict(rec, ver.fix, ver.verdict, ver.evidence)
              ELSE [rec EXCEPT !.refused = @ \/ rec.gen.fix = ver.fix], ok)
    /\ UNCHANGED <<scene, hooks, merging, evidence, factory, lost, curating, clocks>>

-----------------------------------------------------------------------------
(* The forge, as the curator and the curation use it.                      *)

Entries(state, fingerprint) ==
    {n \in DOMAIN prs : prs[n].state = state /\ prs[n].fingerprint = fingerprint
                        /\ (state = "open" => prs[n].labelled)}

Opens(fingerprint, has, labelled) ==
    prs' = Append(prs, [fingerprint |-> fingerprint, state |-> "open", labelled |-> labelled,
                        ready |-> FALSE, has |-> has])

CurateFailed == -1

\* Curator.Curate: the bar, the catalogue, the open pull requests, then a new one, whose label
\* is best-effort and whose answer may be lost.  The comment on an open one may fail.
Inner(fingerprint, good, has, answer) ==
    LET known == Entries("merged", fingerprint) # {}
        open == Entries("open", fingerprint) # {}
    IN \/ /\ ~good \/ known \/ open
          /\ answer = DraftedNone /\ NoFault /\ UNCHANGED prs
       \/ /\ good /\ ~known /\ answer = Len(prs) + 1
          /\ \/ ~open /\ NoFault /\ Opens(fingerprint, has, TRUE)
             \/ ~open /\ Fault("label") /\ Opens(fingerprint, has, FALSE)
             \/ open /\ Fault("list") /\ Opens(fingerprint, has, TRUE)
       \/ /\ good /\ ~known /\ answer = CurateFailed
          /\ Fault("forge")
          /\ UNCHANGED prs \/ (~open /\ Opens(fingerprint, has, TRUE))

-----------------------------------------------------------------------------
(* Curation.Curate.                                                        *)

\* A drafted hold without a fix waits for what people do to its pull request.
WaitsOnPR(r) == r.hold.kind = "held" /\ r.gen.fix = NoRoom /\ r.hold.drafted > DraftedNone

\* undecided, but for that pull request.
undecided(r) ==
    /\ r.hold.kind = "held"
    /\ IF r.gen.fix = NoRoom THEN r.hold.drafted = Undrafted /\ ~windowPassed(r.hold)
       ELSE /\ r.gen.verdict = "" /\ ~r.refused /\ ~r.gen.reverted /\ r.gen.monitor # "regression"
            /\ ~fixEndedUnmerged(r)
            /\ r.gen.merged \/ ~windowPassed(r.hold)

\* prHolds: an open pull request holds, one that cannot be read for a bounded number of times.
Detect(inv) ==
    LET filing == [cur EXCEPT !.pc = "file", !.inv = inv]
    IN /\ cur.pc = "idle" /\ scene.detections > 0
       /\ scene' = [scene EXCEPT !.detections = @ - 1]
       /\ \/ /\ ~scene.defer \/ ~WaitsOnPR(rec)
             /\ cur' = IF scene.defer /\ undecided(rec) THEN cur ELSE filing
             /\ NoFault /\ UNCHANGED stored
          \/ /\ scene.defer /\ WaitsOnPR(rec)
             /\ \/ /\ cur' = IF prs[rec.hold.drafted].state = "open" THEN cur ELSE filing
                   /\ NoFault
                   /\ IF Once("pr_state") \in DOMAIN rec.hold.failures
                      THEN Stored([rec EXCEPT !.hold = Unfailed(@, Once("pr_state"))]) ELSE UNCHANGED stored
                \/ /\ Fault("forge")
                   /\ IF windowPassed(rec.hold)
                      THEN /\ Stored(CountFailure(rec, Once("pr_state")))
                           /\ cur' = IF GivesUp(rec.hold, Once("pr_state")) THEN filing ELSE cur
                      ELSE UNCHANGED <<stored, cur>>
    /\ UNCHANGED <<hooks, merging, ver, evidence, factory, lost, tick, accepted, prs, told, abandoned, clocks>>

\* CreateTask: one open task per incident.  A retry after a lost answer finds the task
\* it created itself.
File ==
    LET room == <<tasks.n, 0>>
        fresh == <<tasks.n + 1, 0>>
        opened == [n |-> tasks.n + 1, open |-> TRUE]
        answered(status, at) ==
            cur' = [cur EXCEPT !.pc = IF status = "refused" THEN "decide" ELSE "filed",
                               !.status = status, !.room = at]
    IN /\ cur.pc = "file"
       /\ \/ /\ NoFault /\ (scene.refusals \/ (~tasks.open /\ tasks.n = scene.tasks))
             /\ answered("refused", NoRoom) /\ UNCHANGED tasks
          \/ NoFault /\ tasks.open /\ answered("same", room) /\ UNCHANGED tasks
          \/ NoFault /\ ~tasks.open /\ tasks.n < scene.tasks /\ answered("new", fresh) /\ tasks' = opened
          \/ /\ Fault("factory") /\ ~tasks.open /\ tasks.n < scene.tasks /\ tasks' = opened
             /\ answered("same", fresh) \/ answered("refused", NoRoom)
    /\ UNCHANGED <<scene, stored, hooks, merging, ver, evidence, mail, said, posted, lost, tick, accepted,
                   prs, told, abandoned, clocks>>

\* The answer is written into the record; one that cannot be counts as a refusal.
Filed(ok) ==
    /\ cur.pc = "filed"
    /\ Upsert(file(rec, cur.room), ok)
    /\ cur' = IF ~scene.defer THEN IdleCurate
              ELSE [cur EXCEPT !.pc = "decide", !.status = IF ok THEN @ ELSE "refused"]
    /\ UNCHANGED <<scene, hooks, merging, ver, evidence, factory, lost, tick, accepted, prs, told,
                   abandoned, clocks>>

\* The hold settled with nothing to its name.
noLiveArtifact(h) ==
    \/ h.drafted = DraftedNone /\ h.entry = NoEntry
    \/ h.drafted > DraftedNone /\ prs[h.drafted].labelled /\ prs[h.drafted].state = "closed"

\* Hold, draft, or leave to the hold that stands; an unreadable pull request is taken as live.
Decide ==
    LET h == rec.hold
        taken == cur.status \in {"new", "same"}
        go(pc, restart) == cur' = [cur EXCEPT !.pc = pc, !.restart = restart]
        next(restart) ==
            IF cur.inv.recalled
            THEN IF taken THEN go("hold", FALSE) ELSE cur' = IdleCurate
            ELSE IF \/ h.kind = "held" /\ ~restart /\ (~taken \/ h.drafted # Undrafted)
                    \/ h.kind # "none" /\ cur.status = "same"
            THEN cur' = IdleCurate
            ELSE go(IF taken THEN "hold" ELSE "draft", restart)
    IN /\ cur.pc = "decide"
       /\ \/ NoFault /\ next(h.kind = "held" /\ cur.status = "new" /\ noLiveArtifact(h))
          \/ Fault("forge") /\ h.drafted > DraftedNone /\ next(FALSE)
    /\ UNCHANGED <<scene, stored, hooks, merging, ver, evidence, factory, lost, tick, accepted, prs, told,
                   abandoned, clocks>>

\* A hold that cannot be written drafts now, unless another stands.
Hold(ok) ==
    LET next == IF cur.inv.recalled THEN holdRecall(rec, cur.inv)
                ELSE hold(rec, cur.inv, accepted + 1, cur.restart)
    IN /\ cur.pc = "hold"
       /\ Upsert(next, ok)
       /\ accepted' = IF next.hold.accepted = accepted + 1 THEN accepted + 1 ELSE accepted
       /\ cur' = IF ok \/ cur.inv.recalled \/ rec.hold.kind = "held" THEN IdleCurate
                 ELSE [cur EXCEPT !.pc = "draft"]
    /\ UNCHANGED <<scene, hooks, merging, ver, evidence, factory, lost, tick, prs, told, abandoned, clocks>>

\* draft: the path without a factory, ...
Draft(answer) ==
    /\ cur.pc = "draft"
    /\ Inner(cur.inv.fingerprint, cur.inv.good, <<>>, answer)
    /\ cur' = IF answer > DraftedNone THEN [cur EXCEPT !.pc = "mark"] ELSE IdleCurate
    /\ UNCHANGED <<scene, stored, hooks, merging, ver, evidence, factory, lost, tick, accepted, told,
                   abandoned, clocks>>

\* ... which leaves its fingerprint for a later hold to adopt the pull request by.
MarkDraft(ok) ==
    /\ cur.pc = "mark" /\ cur' = IdleCurate
    /\ Upsert([rec EXCEPT !.draftFingerprint = IF @ = 0 THEN cur.inv.fingerprint ELSE @], ok)
    /\ UNCHANGED <<scene, hooks, merging, ver, evidence, factory, lost, tick, accepted, prs, told,
                   abandoned, clocks>>

-----------------------------------------------------------------------------
(* Curation.Once.                                                          *)

Others == <<scene, hooks, merging, ver, evidence, factory, lost, cur, clocks>>

\* A step failed: past the window its attempts are counted, and the last is terminal.
Retries(kind, step, room, Terminal(_), again, over) ==
    LET h == rec.hold
        name == <<step, room>>
    IN /\ Fault(kind)
       /\ IF ~windowPassed(h) THEN UNCHANGED <<stored, abandoned>> /\ tick' = again
          ELSE IF GivesUp(h, name)
          THEN /\ Stored(Terminal(CountFailure(rec, name)))
               /\ abandoned' = abandoned \cup {<<step, room>>} /\ tick' = over
          ELSE /\ Stored(CountFailure(rec, name)) /\ UNCHANGED abandoned /\ tick' = again

\* Where a settled hold goes on.
Onward(h) == [IdleTick EXCEPT !.pc = IF h.linkDue THEN "link" ELSE "observe"]

\* Mutant: every generation is told at the hold's instant.
InstantOfHold(h, i) == 10 * h.accepted

\* The instant of a generation: the hold's acceptance plus its index.
Instant(h, i) == 10 * h.accepted + i

\* What is new of the generations, for observe and for record.
News(r, Old(_)) ==
    LET gens == generations(r)
        new == {i \in DOMAIN gens : Outcome(gens[i]) # "" /\ Outcome(gens[i]) # Old(gens[i])}
    IN [k \in 1..Cardinality(new) |->
          LET i == SetToSortSeq(new, <)[k]
          IN [fix |-> gens[i].fix, outcome |-> Outcome(gens[i]), at |-> Instant(r.hold, i), named |-> gens[i].pr]]

HeldUnwritten(r) ==
    \E i \in DOMAIN generations(r) : Outcome(generations(r)[i]) = "held" /\ generations(r)[i].resolved # "held"

\* Whether a tick would do anything about a settled hold.
HasWork(r) ==
    \/ r.hold.entryDue \/ r.hold.linkDue \/ (r.hold.promoteDue /\ ~HeldUnwritten(r))
    \/ News(r, LAMBDA g : g.observed) # <<>>
    \/ r.hold.kind = "held" /\ r.hold.entry # NoEntry /\ News(r, LAMBDA g : g.resolved) # <<>>

\* settle of a hold that has its draft; a tick with nothing to do is a stutter.
Settled ==
    /\ tick.pc = "idle" /\ rec.hold.kind # "none" /\ rec.hold.drafted # Undrafted
    /\ HasWork(rec)
    /\ tick' = IF rec.hold.entryDue THEN [IdleTick EXCEPT !.pc = "entry"] ELSE Onward(rec.hold)
    /\ NoFault /\ UNCHANGED <<Others, stored, accepted, prs, told, abandoned>>

MaySettle ==
    /\ tick.pc = "idle" /\ rec.hold.kind # "none" /\ rec.hold.drafted = Undrafted
    /\ \/ windowPassed(rec.hold)
       \/ \E i \in DOMAIN generations(rec) : Outcome(generations(rec)[i]) = "held"

ToWrite(pr, entry, carried) ==
    tick' = [IdleTick EXCEPT !.pc = "write", !.pr = pr, !.entry = entry, !.carried = carried]

\* Every generation with an outcome whose fix can be named goes into the draft.
Carried(r) ==
    LET gens == generations(r)
        named == {i \in DOMAIN gens : Outcome(gens[i]) # "" /\ gens[i].pr}
    IN [room \in {gens[i].fix : i \in named} |->
          Outcome(gens[CHOOSE i \in named : gens[i].fix = room])]

\* An open pull request with the hold's fingerprint is adopted, ...
Adopt ==
    /\ MaySettle
    /\ \E n \in Entries("open", rec.hold.fingerprint) : ToWrite(n, n, <<>>)
    /\ NoFault /\ UNCHANGED <<Others, stored, accepted, prs, told, abandoned>>

NothingToAdopt == Entries("open", rec.hold.fingerprint) = {}

\* A listing that fails past the window does not block what comes next.
Unlisted == Fault("list") /\ windowPassed(rec.hold) /\ ~NothingToAdopt

\* ... else an entry of the catalogue stands for the draft, ...
FindEntry ==
    /\ MaySettle
    /\ \/ NoFault /\ NothingToAdopt
       \/ Unlisted
    /\ \E n \in Entries("merged", rec.hold.fingerprint) : ToWrite(DraftedNone, n, <<>>)
    /\ abandoned' = IF failures' > failures THEN abandoned \cup {Once("adopt")} ELSE abandoned
    /\ UNCHANGED <<Others, stored, accepted, prs, told>>

\* ... else the entry is drafted with what is known of its fixes.
DraftHeld(answer) ==
    /\ MaySettle /\ NothingToAdopt /\ Entries("merged", rec.hold.fingerprint) = {}
    /\ Inner(rec.hold.fingerprint, rec.hold.good, Carried(rec), answer)
    /\ IF answer # CurateFailed
       THEN /\ ToWrite(answer, NoEntry, IF answer > DraftedNone THEN Carried(rec) ELSE <<>>)
            /\ UNCHANGED <<stored, abandoned>>
       ELSE IF ~windowPassed(rec.hold) THEN tick' = IdleTick /\ UNCHANGED <<stored, abandoned>>
       ELSE /\ Stored(CountFailure(rec, Once("draft")))
            /\ IF GivesUp(rec.hold, Once("draft"))
               THEN /\ ToWrite(DraftedNone, NoEntry, <<>>)
                    /\ abandoned' = abandoned \cup {Once("draft")}
               ELSE tick' = IdleTick /\ UNCHANGED abandoned
    /\ UNCHANGED <<Others, accepted, told>>

\* Past the window the entry is drafted although the open ones cannot be listed: the
\* curator's own listing finds the open one after all, or fails as well.
DraftUnlisted(answer) ==
    /\ MaySettle /\ Unlisted /\ Entries("merged", rec.hold.fingerprint) = {}
    /\ \/ answer = DraftedNone /\ UNCHANGED prs
       \/ rec.hold.good /\ answer = Len(prs) + 1 /\ Opens(rec.hold.fingerprint, Carried(rec), TRUE)
    /\ ToWrite(answer, NoEntry, IF answer > DraftedNone THEN Carried(rec) ELSE <<>>)
    /\ abandoned' = abandoned \cup {Once("adopt")}
    /\ UNCHANGED <<Others, stored, accepted, told>>

WriteDraft(ok) ==
    /\ tick.pc = "write"
    /\ Upsert(writeDraft(rec, tick.pr, tick.entry, tick.carried), ok)
    /\ tick' = IF ~ok THEN IdleTick
               ELSE IF rec'.hold.entryDue THEN [IdleTick EXCEPT !.pc = "entry"] ELSE Onward(rec'.hold)
    /\ UNCHANGED <<Others, accepted, prs, told, abandoned>>

\* readEntry: the path of the entry the draft carries, its label laid first if it is missing.
ReadEntry ==
    LET n == rec.hold.drafted
        known(path, r) == [r EXCEPT !.hold = [Unfailed(@, Once("entry")) EXCEPT !.entry = path, !.entryDue = FALSE]]
    IN /\ tick.pc = "entry"
       /\ \/ n <= DraftedNone /\ tick' = IdleTick /\ NoFault /\ UNCHANGED <<stored, prs, abandoned>>
          \/ \E ok \in BOOLEAN :
               /\ n > DraftedNone /\ Upsert(known(n, rec), ok)
               /\ prs' = [prs EXCEPT ![n].labelled = TRUE]
               /\ tick' = IF ok THEN Onward(rec.hold) ELSE IdleTick
               /\ UNCHANGED abandoned
          \/ /\ n > DraftedNone
             /\ Retries("forge", "entry", NoRoom, LAMBDA r : known(NoEntry, r), IdleTick, Onward(rec.hold))
             /\ UNCHANGED prs
    /\ UNCHANGED <<Others, accepted, told>>

Link ==
    LET linked(r) == [r EXCEPT !.hold = [Unfailed(@, Once("link")) EXCEPT !.linkDue = FALSE]]
        on == [IdleTick EXCEPT !.pc = "observe"]
    IN /\ tick.pc = "link"
       /\ \/ ~rec.hold.linkDue /\ tick' = on /\ NoFault /\ UNCHANGED <<stored, abandoned>>
          \/ rec.hold.linkDue /\ \E ok \in BOOLEAN : Upsert(linked(rec), ok) /\ tick' = on /\ UNCHANGED abandoned
          \/ rec.hold.linkDue /\ Retries("outcome", "link", NoRoom, linked, on, on)
    /\ UNCHANGED <<Others, accepted, prs, told>>

\* observe reads what is new; a hold without an instant is first given one.
Observe ==
    LET todo == News(rec, LAMBDA g : g.observed)
        h == rec.hold
    IN /\ tick.pc = "observe"
       /\ IF todo # <<>> /\ h.entry # NoEntry /\ h.accepted = 0
          THEN \E ok \in BOOLEAN :
                 /\ Upsert([rec EXCEPT !.hold.accepted = accepted + 1], ok)
                 /\ accepted' = accepted + 1
                 /\ tick' = [tick EXCEPT !.pc = IF ok THEN "observe" ELSE "record"]
          ELSE /\ tick' = IF todo = <<>> THEN [IdleTick EXCEPT !.pc = "record"]
                          ELSE [IdleTick EXCEPT !.pc = "tell", !.todo = todo, !.entry = h.entry,
                                                !.fingerprint = h.fingerprint]
               /\ NoFault /\ UNCHANGED <<stored, accepted>>
    /\ UNCHANGED <<Others, prs, told, abandoned>>

Rest(pc, end) ==
    IF Len(tick.todo) > 1 THEN [tick EXCEPT !.pc = pc, !.todo = Tail(@)]
    ELSE [IdleTick EXCEPT !.pc = end]

Observed(item, r) ==
    LET marked == MarkObserved(r, item.fix, item.outcome)
    IN [marked EXCEPT !.hold = [Unfailed(@, <<"verify", item.fix>>) EXCEPT
            !.promoteDue = @ \/ (marked.hold.kind # "none" /\ marked.hold.drafted # DraftedNone)]]

\* outcome.Ledger.Verify: one observation per fix room, none older than the one it replaces.
Verify ==
    LET item == Head(tick.todo)
        stale == item.fix \in DOMAIN told /\ item.at < told[item.fix].at
    IN /\ tick.pc = "tell"
       /\ \/ /\ NoFault /\ tick' = [tick EXCEPT !.pc = "observed"]
             /\ told' = IF tick.entry = NoEntry \/ stale THEN told
                        ELSE Spread(told, item.fix, [fingerprint |-> tick.fingerprint, at |-> item.at,
                                                     outcome |-> item.outcome])
             /\ UNCHANGED <<stored, abandoned>>
          \/ /\ tick.entry # NoEntry /\ UNCHANGED told
             /\ Retries("outcome", "verify", item.fix, LAMBDA r : Observed(item, r),
                        Rest("tell", "record"), Rest("tell", "record"))
    /\ UNCHANGED <<Others, accepted, prs>>

MarkTold(ok) ==
    /\ tick.pc = "observed"
    /\ Upsert(Observed(Head(tick.todo), rec), ok)
    /\ tick' = Rest("tell", "record")
    /\ UNCHANGED <<Others, accepted, prs, told, abandoned>>

\* record reads what is not yet in the entry; a recall's entry is not the hold's to write.
Record ==
    LET todo == News(rec, LAMBDA g : g.resolved)
    IN /\ tick.pc = "record"
       /\ tick' = IF todo = <<>> \/ rec.hold.kind = "observe" \/ rec.hold.entry = NoEntry
                  THEN [IdleTick EXCEPT !.pc = "promote"]
                  ELSE [IdleTick EXCEPT !.pc = "resolve", !.todo = todo,
                          !.pr = IF rec.hold.drafted > DraftedNone THEN rec.hold.drafted ELSE rec.hold.entry]
       /\ NoFault /\ UNCHANGED <<Others, stored, accepted, prs, told, abandoned>>

Resolved(item, way, r) ==
    LET marked == MarkResolved(r, item.fix, item.outcome)
    IN [marked EXCEPT !.hold = [Unfailed(@, <<"resolve", item.fix>>) EXCEPT
            !.promoteDue = marked.hold.kind # "none" /\
                           (way = "appended" \/ (@ /\ ~(way = "" /\ item.outcome = "held")))]]

\* kbresolve.Resolve: a commit on the open pull request, whose push strips the label, or an
\* edit of the merged entry; a fix that cannot be named and a closed pull request end it.
Resolve ==
    LET item == Head(tick.todo)
        pr == prs[tick.pr]
        noted == [pr EXCEPT !.has = Spread(@, item.fix, item.outcome),
                            !.ready = @ /\ pr.state # "open"]
        changed == item.fix \notin DOMAIN pr.has \/ pr.has[item.fix] # item.outcome
        way == IF ~item.named \/ pr.state = "closed" THEN ""
               ELSE IF ~changed THEN "unchanged" ELSE IF pr.state = "open" THEN "appended" ELSE "edit-pr"
    IN /\ tick.pc = "resolve"
       /\ \/ /\ NoFault /\ tick' = [tick EXCEPT !.pc = "resolved", !.route = way]
             /\ prs' = IF way \in {"", "unchanged"} THEN prs ELSE [prs EXCEPT ![tick.pr] = noted]
             /\ abandoned' = IF way = "" THEN abandoned \cup {<<"resolve", item.fix>>} ELSE abandoned
             /\ UNCHANGED stored
          \/ /\ way # ""
             /\ prs' \in {prs, [prs EXCEPT ![tick.pr] = noted]}
             /\ Retries("forge", "resolve", item.fix, LAMBDA r : Resolved(item, "", r),
                        Rest("resolve", "promote"), Rest("resolve", "promote"))
    /\ UNCHANGED <<Others, accepted, told>>

MarkWritten(ok) ==
    /\ tick.pc = "resolved"
    /\ Upsert(Resolved(Head(tick.todo), tick.route, rec), ok)
    /\ tick' = Rest("resolve", "promote")
    /\ UNCHANGED <<Others, accepted, prs, told, abandoned>>

\* outcome.Ledger.Verifications: the newest observation of a fingerprint, a failure winning a tie.
Latest(fingerprint) ==
    LET rooms == {f \in DOMAIN told : told[f].fingerprint = fingerprint}
        newest == {f \in rooms : \A g \in rooms : told[g].at <= told[f].at}
    IN IF rooms = {} THEN "" ELSE IF \E f \in newest : told[f].outcome = "failed" THEN "failed" ELSE "held"

Promoted(r) == [r EXCEPT !.hold = [Unfailed(@, Once("promote")) EXCEPT !.promoteDue = FALSE]]

\* Mutant: the label does not wait for the held fixes to be written.
PromoteEarly ==
    LET n == rec.hold.drafted
        listed == n > DraftedNone /\ prs[n].state = "open" /\ prs[n].labelled
        latest == Latest(rec.hold.fingerprint)
    IN /\ tick.pc = "promote"
       /\ IF ~rec.hold.promoteDue
          THEN tick' = IdleTick /\ NoFault /\ UNCHANGED <<stored, prs, abandoned>>
          ELSE \/ /\ NoFault /\ tick' = [IdleTick EXCEPT !.pc = "promoted"]
                  /\ prs' = IF listed THEN [prs EXCEPT ![n].ready = latest = "held" \/ (@ /\ latest # "failed")]
                            ELSE prs
                  /\ UNCHANGED <<stored, abandoned>>
               \/ n > DraftedNone /\ UNCHANGED prs /\ Retries("forge", "promote", NoRoom, Promoted, IdleTick, IdleTick)
    /\ UNCHANGED <<Others, accepted, told>>

\* Queue.PromoteOne: the latest observation lays the label or withdraws it.
Promote ==
    LET n == rec.hold.drafted
        listed == n > DraftedNone /\ prs[n].state = "open" /\ prs[n].labelled
        latest == Latest(rec.hold.fingerprint)
    IN /\ tick.pc = "promote"
       /\ IF ~rec.hold.promoteDue \/ HeldUnwritten(rec)
          THEN tick' = IdleTick /\ NoFault /\ UNCHANGED <<stored, prs, abandoned>>
          ELSE \/ /\ NoFault /\ tick' = [IdleTick EXCEPT !.pc = "promoted"]
                  /\ prs' = IF listed THEN [prs EXCEPT ![n].ready = latest = "held" \/ (@ /\ latest # "failed")]
                            ELSE prs
                  /\ UNCHANGED <<stored, abandoned>>
               \/ n > DraftedNone /\ UNCHANGED prs /\ Retries("forge", "promote", NoRoom, Promoted, IdleTick, IdleTick)
    /\ UNCHANGED <<Others, accepted, told>>

MarkPromoted(ok) ==
    /\ tick.pc = "promoted" /\ tick' = IdleTick
    /\ Upsert(Promoted(rec), ok)
    /\ UNCHANGED <<Others, accepted, prs, told, abandoned>>

-----------------------------------------------------------------------------
\* The process dies, or the Lease moves: the next leader reads the file.
Crash ==
    /\ Fault("crash")
    /\ rec' = disk.rec /\ seen' = disk.seen
    /\ hooks' = {} /\ merging' = {} /\ ver' = IdleVerifier /\ evidence' = NoRoom
    /\ cur' = IdleCurate /\ tick' = IdleTick
    /\ lost' = lost \cup {h.ev : h \in {k \in hooks : k.ev \notin mail}}
    /\ UNCHANGED <<scene, disk, factory, accepted, prs, told, abandoned, clocks>>

Answers == {CurateFailed, DraftedNone, Len(prs) + 1}

VerifierSteps ==
    \/ OnMergedReads \/ VerifierTick
    \/ \E verdict \in {"resolved", "persisting"} : Check(verdict)
    \/ \E ok \in BOOLEAN : Schedule(ok) \/ RecordVerdict(ok) \/ \E room \in merging : OnMergedWrites(room, ok)

CurateSteps ==
    \/ \E inv \in scene.investigations : Detect(inv)
    \/ File \/ Decide
    \/ \E answer \in Answers : Draft(answer)
    \/ \E ok \in BOOLEAN : Filed(ok) \/ Hold(ok) \/ MarkDraft(ok)

TickSteps ==
    \/ Settled \/ Adopt \/ FindEntry \/ ReadEntry \/ Link \/ Observe \/ Verify \/ Record \/ Resolve \/ Promote
    \/ \E answer \in Answers : DraftHeld(answer) \/ DraftUnlisted(answer)
    \/ \E ok \in BOOLEAN : WriteDraft(ok) \/ MarkTold(ok) \/ MarkWritten(ok) \/ MarkPromoted(ok)

World ==
    \/ TaskEnds
    \/ \E ev \in scene.events : Emit(ev)
    \/ \E n \in DOMAIN prs, state \in scene.human : Decides(n, state)

ASoakEnds == \E room \in {rec.soak, rec.gen.fix} : SoakEnds(room)

Time == WindowEnds \/ ASoakEnds

Webhooks == (\E ev \in mail : Receive(ev)) \/ \E h \in hooks : Handle(h)

Next == World \/ Time \/ Webhooks \/ VerifierSteps \/ CurateSteps \/ TickSteps \/ Crash

Spec == Init /\ [][Next]_vars

\* What keeps running does: the handlers, the goroutine of a merge, the two tickers, time.
FairSpec ==
    /\ Spec
    /\ WF_vars(Webhooks) /\ WF_vars(VerifierSteps) /\ WF_vars(TickSteps)
    /\ WF_vars(WindowEnds) /\ WF_vars(ASoakEnds)

-----------------------------------------------------------------------------
(* Properties.                                                             *)

Generations == generations(rec)

\* A verdict stands on the generation of the fix it was gathered for, whatever generation
\* is current when it is written, and it is the one the factory took.
VerdictIsItsOwn ==
    \A i \in DOMAIN Generations :
        LET g == Generations[i]
        IN g.verdict # "" => g.fix \in DOMAIN posted /\ posted[g.fix] = g.verdict

\* A fix belongs to the task that is its origin.
IsOwn(gen) == gen.fix # NoRoom => Origin(gen.fix) = gen.room

\* A late verdict on an older generation does not outrank the newest one told, as long as
\* no generation was given the fix of another (FixOfItsTask).
LatestIsNewest ==
    LET credited == {i \in DOMAIN Generations :
                       LET f == Generations[i].fix
                       IN f \in DOMAIN told /\ told[f].at >= Instant(rec.hold, 0)}
    IN credited # {} /\ (\A i \in DOMAIN Generations : IsOwn(Generations[i])) =>
           Latest(rec.hold.fingerprint) = told[Generations[Max(credited)].fix].outcome

\* A generation is marked as written only when its entry holds it.
ResolvedIsWritten ==
    LET n == IF rec.hold.drafted > DraftedNone THEN rec.hold.drafted ELSE rec.hold.entry
    IN rec.hold.kind = "held" /\ n > NoEntry =>
        \A i \in DOMAIN Generations :
            LET g == Generations[i]
            IN g.resolved # "" /\ <<"resolve", g.fix>> \notin abandoned => g.fix \in DOMAIN prs[n].has

\* The held fixes an entry's pull request does not carry when it gets the label.
Missing(n) ==
    {f \in {Generations[i].fix : i \in {j \in DOMAIN Generations : Outcome(Generations[j]) = "held"}} :
        f \notin DOMAIN prs[n].has}

Labels(n) == ~prs[n].ready /\ prs'[n].ready

\* The label the merge gate trusts is laid on an entry that holds every fix that held, but
\* for those the curation gave up writing.
LabelCoversFixes == \A n \in DOMAIN prs : Labels(n) => \A f \in Missing(n) : <<"resolve", f>> \in abandoned

\* What the ledger calls written, and what the label vouches for, the entry holds.
EntryHoldsFixes == [][ResolvedIsWritten' /\ LabelCoversFixes]_vars

\* "a held fix that could not be written cancels the promote, since the label would land on
\* a body without it" (curation.go, record).
PromotedIsComplete == [][\A n \in DOMAIN prs : Labels(n) => Missing(n) = {}]_vars

\* A merged fix gets a verdict or a refusal, whatever died in between.
FixGetsDecided == AwaitsVerdict(rec) ~> ~AwaitsVerdict(rec)

Unwritten ==
    {i \in DOMAIN Generations : /\ rec.hold.kind = "held" /\ Outcome(Generations[i]) = "held"
                                /\ \A n \in DOMAIN prs : Generations[i].fix \notin DOMAIN prs[n].has}

\* A fix that held ends up in an entry, unless it stops holding or no entry can take it.
HeldFixReachesEntry ==
    Unwritten # {} ~> \/ Unwritten = {} \/ \E x \in abandoned : x[1] \in {"draft", "entry", "resolve"}
                      \/ (rec.hold.drafted = DraftedNone /\ rec.hold.entry = NoEntry)

\* An event that was acknowledged is in the ledger, or on its way there.
AcknowledgedIsKept == lost = {}

\* The fix bound to the current task is a fix of that task.
FixOfItsTask == IsOwn(rec.gen)
=============================================================================
