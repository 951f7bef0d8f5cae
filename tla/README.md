# RunLore in TLA+

RunLore (`lore`) is an SRE agent: alerts and GitOps failures arrive, a leader
investigates them one at a time with a language model, proposes or takes remediation,
remembers the outcome, curates what it learned, and talks about it in chat threads.
This directory models its stateful core, checks it with TLC on small instances and
proves most of what it checks, eight components' worth, with TLAPS.  Paths below are relative
to `src/internal/` unless they start with another directory of the repository.

## The system

```
 webhooks --> source.Pipeline --> dedup --> debounce hold --> coalescer --+
 GitOps watcher, re-investigation poller ---------------------------------+--> Queue --> LoopInvestigator
 resolved webhook --> cancel hold, cancel queued, Ledger.Resolve          |      (one worker per term)
                                                                          |            | gate, recall, tool loop
 humans (Slack, Matrix, HTTP) --> Ledger.Feedback / Silence               |            v
 factory verifier, curation  ---> Ledger.Verify / Confirm / Link          |     onInvestigationComplete:
                                                                          |     curate, Ledger.Open, act, deliver
 leader election starts and cancels a term: Ledger.Reload, Queue.Run, ... +            |
                                                                                       v
 any replica --> forward middleware --> leader: approve, reject, pause --> action.Approvals / Auto --> executor, audit
 chat mention --> Dispatcher --> Responder: silence, note, chat --> registry, chat budget, pull request
 task filed --> factory --> webhooks --> factory.Ledger --> verifier, curation --> entry pull request, promote
 Git repositories --> catalog.Syncer --> Catalog (search, recall, curator)
 ticker, command --> curate.Agent: groom drafts, report recurrences, label and refresh, propose edits --> forge
```

| Component | State | Operations | What is hard | What makes it correct | Module |
|---|---|---|---|---|---|
| Investigation queue `investigate/investigate.go` | payload map, cancel index, in-flight marks, the term's client-go queue | Enqueue, CancelByFingerprint, Run, process, Drain | the mutex is released before `wq.Add`; a lost term's worker overlaps the next term's | nothing accepted is stranded, the index is exact, every removal has a reason | `InvestigationQueue` |
| Outcome ledger `outcome/ledger.go` | append-only file; eight indexes folded from it | seven writers, load, compaction | write faults, crashes, resolves before opens, a file shared by replicas | indexes equal a replay; every credit is given once and taken back exactly; compaction is invisible | `OutcomeFold`, `OutcomeLedger`, `DurableLedger` |
| Alert intake `source/`, `trigger/dedup.go`, `coalesce/` | dedup times, holds, batches, cooldowns | Ingest, Hold, Cancel, Add, sweep | a timer racing a resolve; alerts in flight between stages | an admitted alert is investigated, suppressed by a cooldown or cancelled by its own resolve, once | `AlertIntake` |
| Recurrence gate, investigation loop, completion `investigate/` , `app/investigate.go` | a run's history and spend, the trigger's roll-up | decide, one step of the loop, complete | ceilings crossed in the middle of a turn, compaction of the history, a provider that refuses or cuts off, failing curation, ledger and notifier | a well-formed history, one request beyond a ceiling, one completion per paid run, suppression only of what was answered | `InvestigationLoop` |
| Leader election, forwarding `app/server.go`, `app/leader_identity.go`, `server/forward.go` | leader flag and tracker of every replica | the election's callbacks, middleware, proxy | both lag behind the Lease | one hop; nothing done twice | `LeaderForward` |
| Remediation gate, audit `action/`, `audit/` | pending approvals, kill switch, rate window, hash chain | Register, Approve, Reject, Run, Pause, Log | two approvers, a pause racing an execution, a failing audit file | an action runs once, sanctioned, and is in the file as far as its writes succeed | `ActionGate` |
| Thread registry, notes, chat `thread/` | contexts by thread root with their file, per-root locks, write window, chat budget | Put, Update, Load, note, chat | reference-counted locks, memory before append, a forge that fails half-way | one writer per root, caps that bind, outages that cost nothing | `ChatBudget`, `ThreadNotes` |
| Factory `factory/`, `curate/resolution.go`, `kbresolve/` | the record of an incident with its fix generations, its file, seen ids | file, webhooks, verify, the curation's tick | five actors on one record; everything may fail, repeat or come late | a verdict belongs to its fix; the label covers the fixes; what held is written | `FactoryRecord`, `Factory` |
| Curation sweeps `curate/`, `forge/github/` | none of their own: pull requests, labels, issues, the ledger's roll-ups, entries | Agent.Run's passes, Promote, appended notes | what was listed is old when it is acted on; a close, a label is the only record of a decision; calls fail half-way | a no lasts, a question is asked once, the label follows the evidence, no edit is lost | `CurationSweeps`, `MergeLabel` |
| Catalogue sync `catalog/`, `app/catalog.go` | mirror and last revision per root, index, entries | Sync, Run, ReloadDelta, ReloadContext | a failed re-index, incremental indexing, two syncers on one index | one revision is served, and it catches up | `CatalogSync` |

`PROJECT.json` lists every component with its files and status, every definition with
the lines it stands for, and the hazards of this code at their lines.

## What is modelled

Every module has one action per critical section, or per stretch of code between two
calls that may block or fail; a step of a goroutine is named by its `pc`.  Payloads are
model values or records of what some rule reads.  Faults are switched on by the
instance (`faults`) and counted (`failures`), so that a run can say which combinations
it explores; a *scene* is one such choice of inputs and faults, picked by `Init`.

### InvestigationQueue

One variable per field of `Queue` (`reqs`, `byFP`, `inflight`, `seq`, `wq`), plus the
work queue of every leadership term (`wqs`), the goroutine in `Run` of every term
(`worker`), their contexts (`ctx`), the start window (`starts`), the `Enqueue` calls
caught between `q.mu.Unlock` and `wq.Add` (`adds`), and the SIGTERM drain.

| Action | Code |
|---|---|
| `Enqueue`, `EnqueueAdd` | the two halves of `Enqueue` |
| `CancelByFingerprint` | the resolved webhook's cancel |
| `StartTerm`, `CancelContext`, `ShutDown` | `Run` begins (stored payloads are replayed in any map order), the lease is lost, the goroutine that shuts the queue down |
| `Get`, `GetShutdown`, `ReadPayload`, `Gate`, `Investigate`, `Commit`, `Drop`, `Unmark`, `Done` | `Run`'s loop and `process`; `Investigate` ends in success, a permanent error or a retryable one |
| `Drain`, `DrainReturn` | the shutdown drain and its end, by completion or deadline |
| `DelayElapsed`, `WindowSlides` | the delaying queue's timer, the sliding window |

client-go's queue is external: `WqAdd`, `WqGet`, `WqDone`, `WqAddRateLimited` and
`WqForget` restate its dirty/processing/queue rules, and that `Get` keeps handing out
queued items after a shutdown.  Requests are a coalescing key, a fingerprint and a set
of fingerprints.  The failure count saturates at `MaxRequeues`, the only value it is
compared with.

### OutcomeFold, OutcomeLedger, DurableLedger

`OutcomeFold` is the pure part: `foldLocked(m, e)` is what one event does to the
indexes.  Maps are total, with a null value for an absent key; `LastConfirmed`, titles,
token counts and the other fields no rule reads are left out.

`OutcomeLedger` puts the file around it: `record` appends one line and then folds, and
may meet a failing `Sync`, a short `Write` or the death of the process; `StartLoad`,
`FoldLine`, `EndFold`, `ScratchLine` and `Rewrite` are a load followed, on a file past
its bound, by the compaction into a checkpoint and a tail; `Crash` forgets the memory.
A load holds its own process's mutex; other processes on the file do not wait for it,
which is why it is split line by line.  `Replayed` is what a process reading the file
now would rebuild.

`DurableLedger` is the abstract specification: a state that changes only by one
recorded event at a time and by silences lapsing.  `OutcomeLedger` implements it under
`state <- Replayed` (`IsDurable`).

### AlertIntake

Every stage an alert passes has a mutex of its own and the alert is in none of them in
between, so the state is where each admitted alert is: `entering` (past the dedup),
`holds` (debounce goroutines) with `holder` (the map a resolve looks in), `adding` (on
its way to the coalescer), `pending` (its batches), `flushes` (batches not yet handed
over) and `queued`.

| Action | Code |
|---|---|
| `Admit`, `Hold` | `Ingest` of a firing alert: dedup, then the debounce or no hold at all |
| `WindowOver`, `DropHeld` | the cases of `wait`'s select, each of which may be chosen once it is ready |
| `Resolve`, `CancelQueued` | `Ingest` of a resolved alert: `Cancel`, then `CancelByFingerprint` |
| `Add` | the coalescer's critical section: suppress, flush a critical with the pending batch, or buffer and flush a full batch; whether a standing vote opens the cooldown is any answer of the ledger |
| `Sweep`, `Emit` | the ticker's sweep with its eviction; the sink that makes one request of a batch |
| `Stop` | the end of the serve context, once the HTTP server has waited for its handlers |
| `Tick` | time: windows are kept as the time left, batch ages saturate |
| `Start` | a worker of `InvestigationQueue` takes the request (external here) |

Policy matching is the choice of alerts; the coalescer is taken to be enabled, as the
chart ships it, and so is `cancel_queued_on_resolve`, the default.  `fate`, `bypassed`
and `cool` are auxiliary: how each alert ended, which passed on a vote, and the cooldown
as its comments describe it.

### InvestigationLoop

One trigger's firings through one worker.  `trigger` is what the ledger's roll-up holds
of it, `run` the locals of `Investigate` (history, spend, calibration, nudges, step),
`completions` what each accepted investigation came to.

| Action | Code |
|---|---|
| `Fire`, `Retry`, `Drop` | a call of `Investigate`, entered through `decide`; the queue's retry and its end |
| `Loop` | one stretch of the loop: recall before it, the budget ladder (`FinalStep`, `Crosses`) with compaction (`Elided`) and digests, the request, and its answer: a failure, a refusal, a cut-off turn, prose, or a turn with calls (`Turn`), verification, the final result |
| `Expire` | the deadline of an investigation |
| `Curate`, `RecordOpen`, `Deliver` | `onInvestigationComplete` in its order, one open per alert |
| `Human`, `Tick`, `Crash` | votes and silences, time, the death of the process between any two steps |

What a model answers is an environment choice; a message is what it weighs in tokens,
the calls it carries and the call it answers, which is what the providers check of a
history.  Prompts, the wording of nudges, tool outputs and the scores of recall are left
out.

### LeaderForward, ActionGate

`LeaderForward` has the replicas, the Lease and the terms, with the two things a replica
knows of them: its own flag (`leader`, from `OnStartedLeading`/`OnStoppedLeading`) and
the tracked holder (`tracker`, from `OnNewLeader`), each of which lags.  A request is
sent to any replica (`Send`), served or proxied once (`Arrive`), fails to reach the
holder (`Unreachable`) or outlives the proxy's patience (`ProxyGivesUp`) while the
leader is still at it.  `ActionGate` extends it by what those requests do.

| Action | Code |
|---|---|
| `Propose`, `Register` | `reviewActions` (`deriveSafety`, then the policy), `Approvals.Register` |
| `ApproveClaim`, `ApproveExecute`, `ApproveRecord` | `Approvals.Approve`: the claim under the lock, the executor, the audit record |
| `Reject`, `List`, `Age` | the other handlers, the TTL |
| `RunOne`, `AutoRecheck`, `AutoReserve`, `AutoExecute`, `AutoRecord` | `Auto.Run` and `runOne` in order: mode and confidence, the second look at the kill switch, the rate window, the patch, the record |
| `Pause`, `Resume`, `WindowSlides` | the kill switch, the window |
| `Log`, `LogFails` | `Logger.Log`: the record lands, or its write or Sync fails and `recordAttempt` drops the error |
| `Elect`, `Die`, `Boot` | the election's steps as they bear on the gate; a start verifies the chain and is refused when it is broken (`OpenVerified`, `BuildAuditor`) |

A patch applies and is answered, is refused, or applies and its answer is lost; the last two
are recorded as failed.  Each replica writes a file of its own (`files`).  A record is its
action and decision with `prev` and `hash`, a hash being the place in the file.  A write that
fails leaves nothing; or a part of the line, or all of it without its end, to which the next
record is glued; a Sync that fails leaves the whole record.  In all three `lastHash` stays,
so that after the last two the chain is broken.  `faults` counts the failures by how, `told`
is the executions whose record was handed to `Log`: with them `AuditHolds` says how far the
file may be trusted, `AuditTruthful` what holds whatever fails.

### ChatBudget, ThreadNotes

`ThreadNotes` has the registry in memory and on disk for every process, the per-root
guards as objects (`writeLocks` points to `locks`, as the map points to reference
counts), the slots of the dispatcher (`work`), the forge's pull requests, and through
`ChatBudget` every process's window of calls and reservations of the thread chat.

| Action | Code |
|---|---|
| `Register`, `HandleMention` | a delivered investigation's `Put`; a mention and the precedence of its commands |
| `Allow`, `Answer`, `Panic`, `ChatSlide` | the chat call: reservation, settlement or refund, a panicking handler, the window |
| `LockRoot`, `Enter`, `Unlock`, `Drop` | the reference-counted guard of a thread root |
| `IsOpen`, `AppendToEntry`, `CommentOnPR`, `OpenPR`, `WriteBack`, `Count` | a note's way to the forge and back into the registry |
| `Tick`, `Slide`, `Close` | expiry, the write window, somebody closes a pull request |
| `Restart`, `Failover` | a process dies, with or without a torn line, and replays the file; the Lease moves |

A note is a key; the text of prompts and replies is left out.

### FactoryRecord, Factory

`FactoryRecord` is the pure part: what one function of `factory/ledger.go` or
`factory/curation.go` does to the record of an incident, its generations (one fix
attempt each) and its hold.  `Factory` runs five actors on one record: the
investigation that ends (`cur`), the webhook handlers (`hooks`), the goroutine of a merge
(`merging`), the verifier (`ver`) and the curation's tick (`tick`).

| Action | Code |
|---|---|
| `Detect`, `File`, `Filed`, `Decide`, `Hold`, `Draft`, `MarkDraft` | `Curation.Curate` and the notifier's filing of a task |
| `Receive`, `Handle` | a webhook: the claim of its id, then its handling, whose failure un-claims it |
| `OnMergedReads`, `OnMergedWrites` | the goroutine that schedules a soak |
| `VerifierTick`, `Schedule`, `Check`, `RecordVerdict` | `Verifier.Once` and `check` |
| `Settled` to `Link`, `Observe` to `MarkTold`, `Record` to `MarkWritten`, `Promote`, `MarkPromoted` | the steps of `Curation.Once`: draft or adopt the entry, tell the outcome ledger, write the fix, lay the label |
| `World`, `Time`, `Crash` | tasks, events, people, services; the ends of soak and window; the death of the process |

Left out: the BM25 and decider duplicates, failures of `PullSummary` (no state changes),
risk and threat flags and the human "accepted"/"solved" labels at promotion, `readEntry`
with a hold restarted meanwhile, Slack lines, signatures, the expiry of seen ids, the
compaction of the file.  In the retries the write that counts a failure is merged with
the write that gives up.

### CatalogSync

`mirror` and `lastRev` per root (the operator's own, the commons), the goroutine of each
syncer (`pc`, `job`), and the catalogue: `index`, `entries`, `vectors`, `ready`.  A
revision is a tree, a function from paths to contents; a file that does not parse is a
content of its own.

| Action | Code |
|---|---|
| `Push` | the repository moves (external) |
| `Tick`, `SyncFails`, `Checkout`, `Compare` | `Sync`: clone, pull or pinned checkout, a failure, HEAD against `lastRev` and the delta |
| `Reload`, `LoadOwn`, `LoadCommons`, `Build`, `Embed`, `Swap` | `ReloadContext` between its failing calls; `Fail` is `Run`'s roll-back |
| `Mutate`, `SwapDelta` | `ReloadDelta`: the live index document by document, outside the mutex, then the entries; an error falls back to the full reload |
| `armCommons`, `Crash` | the start of the commons syncer; a start on the mirrors of a dead process |

The walk of a root whose checkout runs may find any mixture of old and new files
(`Seen`).  go-git's pull is taken to complete or to leave its mirror as it was.  Ranking
and the vector cache, which only saves calls, are left out.

### CurationSweeps, MergeLabel

A pass keeps no store.  It lists pull requests, issues and the ledger's roll-ups, decides
on what it saw, and acts call by call while everyone else goes on; its memory is what it
left on the forge.  `CurationSweeps` has the pull requests with their marks and who
closed them, the issues, the ledger's episodes and roll-ups, the entries on the base
branch, and where each sweep is (`sweep`).

| Action | Code |
|---|---|
| `Start`, `List`, `Fetch`, `Issues`, `ListFails`, `PassOver`, `Cancelled` | `Agent.Run` and the listings of each pass: a failed one ends its pass, not the sweep |
| `Comment`, `Close` | `Suppress`, `Dedup`, `Lifecycle`: the comment that says why, then the close; of both the answer may be lost |
| `Report` | `Recurrence`, the refused incidents before the unexplained ones; an issue whose answer is lost is open all the same, and not remembered in that run |
| `ListProposals`, `ReadEntry`, `Propose`, `Label` | `Retirement`, `Revalidation` with `openEntryEditPR`: what is open, what was declined, the file, branch to pull request, the label without which no pass sees it |
| `Look`, `Draft` | `Curate` looks for an open pull request and opens one |
| `Protect`, `Reject`, `Merge`, `Reopen`, `Remove`, `CloseGap`, `GoesStale`, `OpenNote`, `Recurs`, `Resolves`, `Tracks` | humans, time, the ledger |

`MergeLabel` is about one entry pull request and the label `ready-to-merge` on it.

| Action | Code |
|---|---|
| `RefreshList`, `EntryPRState`, `Strip`, `RebuildCheckFirst` to `RebuildPush` | `RefreshEntries` and `RebuildEntryPR`: the label comes off, the branch is rebuilt on the base and force-pushed |
| `QueueList`, `ReadText`, `Relabel` | the Queue, Promote and the Queue without evidence: evidence, labels, the threat check, what becomes of the label |
| `EditReadPR` to `EditLanded` | `editEntryOnPR`, a note or a resolution appended call by call |
| `Label`, `Commit`, `Learn`, `BaseMoves`, `Merge` | humans, the ledger, another merge, the merge automation |

An entry's factor is below the floor or not; titles, comments and bodies are their
markers.  Of dedup's title similarity the instance chooses which titles are alike.

## Runs

| Run | Expect | Question | Bounds |
|---|---|---|---|
| `queue` | pass | two terms that may overlap, losses and re-acquisitions, retries, throttling, batches | 2 keys, 3 payloads (alone, batch, other key), 2 enqueues, 2 terms, 1 start per window, 1 requeue |
| `queue_stop` | pass | one term, SIGTERM drain; liveness | 3 enqueues, 1 term |
| `ledger` | pass | every event kind at every admissible time, write faults, crashes, compactions | 3 calls, 2 instants, compaction from the second line, clocks one tick late |
| `ledger_replay` | pass | live indexes against a replay; refinement of `DurableLedger` | 4 calls, 2 instants, no write faults |
| `intake` | pass | alerts lost, doubled, out of a resolve's reach, investigated again inside a cooldown; liveness | 3 firings of a warning and a critical, windows of 1 to 3 ticks, batches of 3 |
| `gate` | pass | executed twice, unsanctioned, after a pause; what the audit file is worth when its writes fail | 2 replicas, 2 terms; approve: 1 action, 2 requests, 1 crash and 1 failed write of the audit file; auto: 2 actions with 2 requests, or with 1 request, 1 crash and 1 failed write; dry-run: 1 action |
| `thread` | pass | writers, caps, refunds, settlement, restarts | 8 scenes: outage, crowding, a root made anew, crashes, failing disk, failover, chat, prose; 2 or 3 roots, 2 handlers, 2 notes per thread, 1 or 2 faults |
| `loop` | pass | history, ceilings, completion, suppression | 4 scenes: a long investigation, a dense one with recall and digests, a recurring trigger with votes, a dying process; 4 steps, 3 firings |
| `factory` | pass | verdicts, credits, entries, label; liveness | 11 scenes: at most 2 tasks, 2 detections, 2 faults; 2 failures for the code's 30 |
| `catalog` | pass | what is served while upstream moves and everything fails; liveness | 5 scenes: tracked, pinned at a revision that is passed or still to come, mounted with commons; 4 revisions, 2 paths, 3 faults |
| `curation` | pass | refusals, recurrences, proposals to edit, the review queue; liveness | 6 scenes: drafts refused and reopened, drafts labelled and stale beside notes, an incident that comes back, two entries that decay and recover or are removed, two that are confirmed; 2 or 3 pull requests, 1 failed call |
| `label` | pass | the label under evidence, rebuilds and edits; liveness | 5 scenes: two groomers on changing evidence, a conflict with a note and a human's commit, two edits one of which is a threat, the Queue without evidence, an entry the base has; 1 conflict, 1 failed call |

Why these bounds are enough.  Queue: two enqueues let a re-fire supersede the payload
under investigation, with the mark, retry, drop and cancel paths of both terms' workers
interleaved; two terms are the most that can overlap, since `Run` returns before a third
starts in sequence; two keys tell a wrong index entry from a right one.  Ledger: an
early resolve, its open and a second event fit in three calls, and so does a vote cast,
moved by a newer open and changed; a compaction of a compaction follows from a second
load; `MaxEarly = 1` reaches the cap on the second early resolve.  Intake: three firings
give a batch of two that a third joins, drains or follows within the cooldown, and a
hold that ends late beside its successor.  Gate: two requests are an approval with its
retry, with a second approver or with a reject; two terms are a leader and the next; one
failed write that cuts a line short costs two records, and with a crash a start on the broken
chain.
Thread: two handlers and two notes reach the per-thread cap with one write in flight;
three deliveries add the one that follows an outage.  Loop: four steps hold a turn that
crosses a ceiling, its compaction, the forced step and the cut-off after it; three
firings an answered occurrence, one inside its cooldown and one after it.  Factory: two
generations are what one may be mistaken for; two failures separate "again" from "given
up".  Catalogue: of four revisions one adds, one changes, one makes unparseable and
one reverts; three faults make an incremental pass, its rebuild and the retry fail.
Curation: two drafts are a pair of duplicates, or a refused one and its redraft; of two
entries the first may stand in the way of the second; a third pull request is the one
whose label failed.  Label: an edit and a rebuild, or two groomers, are what can meet on
one branch.

Every counter cut off by a bound (`MaxSeq`, `MaxTerms`, `MaxCalls`, `MaxTime`,
`MaxAlerts`, `MaxSends`, the fields of a scene or a deployment) is guarded in the action that names it.
Deadlock checking is off in every run: a state in which all bounded inputs have been
given, or the process has drained, rightly has no step.

The type invariants that no proof module proves are kept in their modules as
documentation of the state and may be added to a `.cfg`.

### Fairness

Weak fairness only, of what the Go scheduler, a ticker or the clock does:

- `InvestigationQueue!FairSpec`: each worker's step, the shutdown goroutine, the pending
  `wq.Add`, each delay, the window, and `StartTerm` (the election loop rejoins until the
  context ends).  Nothing is assumed of callers, the lease, or the investigations' results.
- `AlertIntake!FairSpec`: the goroutines that carry an alert, the sweep, time, and that
  a stored request is taken, which is the queue's own liveness; nothing of the webhooks.
- `Factory!FairSpec`: the webhook handlers with the broker's redelivery, the verifier's
  and the curation's ticks, the ends of soak and window; nothing of the factory, of
  people or of the faults, which are bounded.  `FixGetsDecided` and `HeldFixReachesEntry`
  therefore say what happens once services answer again.
- `CurationSweeps!FairSpec`, `MergeLabel!FairSpec`: the server's sweep, which its ticker
  starts again (`curate/sweeper.go`) and which does not stop within a pass; nothing of the
  command, the operator, humans, drafters or the faults, which are bounded.
- `CatalogSync!FairSpec`: each syncer with its ticker, and the end of the start.

### Observations

These are statements of the repository, or properties one would expect, that the model
refutes; each has a definition and a configuration that shows the behaviour (of those in
`MCFactoryBroker` and in `MCCurationSweepsObserved`, check one at a time: TLC stops at the
first).

| Configuration | Property | What happens |
|---|---|---|
| `MCInvestigationQueueDrain` | `DrainHandsOutNothing` | "Drain stops the current term's queue from starting new work" (`investigate.go:343`): items queued before the shutdown are still handed out, until the drain's deadline |
| `MCInvestigationQueueOverlap` | `InflightNeverCancelled` | "An IN-FLIGHT investigation is never cancelled" (`investigate.go:279`): `inflight` is a set of keys; with two overlapping terms the first worker to finish clears both marks |
| `MCOutcomeLedgerShared` | `HistoryNeverShrinks` | "zero data loss on failover" (`deploy/helm/runlore/values.yaml:495`): a replica that starts compacts what it read and renames it over lines the leader appended since |
| `MCAlertIntakeCooldown` | `NewCriticalNotSuppressed` | a flush between the end of a cooldown and its eviction inherits its alertnames (`coalescer.go:294`): a critical nothing covered is suppressed |
| `MCActionGateUnrecorded` | `ExecutionsRecorded` | "the executed/failed records are guaranteed by construction" (`executor.go:29`): the write of the record fails, and `recordAttempt` drops the error (`auto.go:160`); the approval was answered with success |
| `MCActionGateFailover` | `TermStartsPaused` | `Auto.paused` of a replica that was leader, and was resumed, is not engaged again when it leads a second time |
| `MCThreadNotesFailover` | `FailoverKeepsThreads` | "an in-memory-only registry would orphan every live thread on a failover" (`thread/registry.go:51`): the file that is to prevent it is read when a process starts (`app/serve.go:205`) and not when a standby becomes leader (`app/serve.go:409`), so the new leader does not know the threads registered since |
| `MCThreadNotesReborn` | `ReplayIsExact` | "replays the JSONL, last-write-wins per root, dropping expired entries" (`thread/registry.go:166`): a root made anew after its TTL keeps the place of its old line in the replay, which evicts as it reads and expires at the end (lines 191, 198); the live thread is evicted for one registered since, though the process held both |
| `MCFactoryLabel` | `PromotedIsComplete` | "a held fix that could not be written cancels the promote" (`curation.go:599`): a fix given up as unnameable is promoted once its late verdict is observed (line 574) |
| `MCFactoryBroker` | `FixOfItsTask` | a filing between `handle`'s read and its `Upsert` binds the old fix to the new task (`webhook.go:240,261`) |
| `MCFactoryBroker` | `AcknowledgedIsKept` | "the broker's retry of this id must be handled, not dropped" (`webhook.go:212`): an overlapping resend is acknowledged, then the first delivery fails |
| `MCCatalogSyncCommons` | `CommonsCatchUp` | two syncers reload one catalogue without a common lock (`app/catalog.go:54-57`): the walk that began first is swapped in last, and both roots' `lastRev` say it was indexed; a walk may also meet the other syncer's checkout and serve part of a revision until that one reloads, which `IndexIsOneRevision` therefore excepts |
| `MCCurationSweepsObserved` | `OnlyHumansRefuse` | "whose DupFingerprint a human previously rejected" (`suppression.go:124`): a draft that `Lifecycle` closed as stale counts as a refusal, and the next draft of the incident is closed for it |
| `MCCurationSweepsObserved` | `OneIssuePerPattern` | "opens at most one issue per pattern" (`recurrence.go:16`): the POST of an issue lands and its answer is lost (`github.go:139-147`), so `open[pattern]` stays unset (`recurrence.go:113`) and the loop over the patterns (118-126) opens a second in the same run |
| `MCCurationSweepsObserved` | `ReviewQueueBounded` | "MaxOpen bounds how many revalidation PRs may be waiting on a human at once" (`revalidation.go:87`): one whose label or answer failed is open and uncounted |
| `MCCurationSweepsObserved` | `DisjointInASweep` | "an entry can never be proposed for both in one sweep" (`revalidation.go:70`): each pass reads the live ledger for itself |
| `MCMergeLabelAccepted` | `AcceptedIsRead` | "RunLore's own later write takes accepted off" (`resolution.go:39`): a human who accepts between an edit's reading of the labels and its push accepts a text without it |

Seen while modelling, without a configuration: chat calls admitted together each overshoot
the token ceiling by what they cost over their estimate, where `budget.go:262-264` says "up
to one call's charge"; the verifier caches what it found under the incident
(`verifier.go:160`), so a verdict that could not be posted lends its evidence to the
next generation's check; a `Sync` error after a successful `Write` leaves a line that
is not folded, and a short `Write` a partial line the next event is
glued to (`ledger.go:1083-1103`); when a document of a delta cannot be indexed and the
rebuild fails too, and upstream then reverts, the next delta does not name the documents
already changed, though "an incremental error must never leave a wrong index behind"
(`catalog.go:264`); an open that an early resolve settles at once stays in
`l.open` (`ledger.go:161`); a conclusive answer whose delivery failed earns suppression
all the same (`loop.go:433`); a commons root that cannot be walked is skipped until HEAD
moves (`catalog.go:218-224`), as are the vectors of a failed embed pass (`hybrid.go:86`);
two sweeps at once, the server's and the command's, may both open an issue for one
resource; "ready-to-merge comes off before the push" (`noteappend.go:83`), but not one that
a groomer lays between the two; dedup keeps the oldest draft of an incident, which the stale sweep right after it
may close; a note pushed after a rebuild's second look at the head is overwritten, as
`forge/github/refresh.go:146` says; a batch of one alert with and one without
a fingerprint counts as a single-alert request, so a resolve cancels both; verification,
digests and the recall check spend beyond the ceilings' guard; `loop.go:627` speaks of
any cancelled context where the code asks for `DeadlineExceeded`; a crash between a patch
and its record leaves an execution unaudited; replicas that share one audit file, as the
Deployment shape of the chart does (`values.yaml:495`), each write at the offset they found
when they opened it (`OpenVerified` opens without `O_APPEND`, `audit.go:95`) and over one
another's records; a write refund gives back the newest token, not the
caller's; a line torn by a crash swallows the next append to the registry's file; a
standby that loads the registry may compact over the leader's lines; a comment on a
pull request closed since it was looked at is acknowledged although nothing indexes it.

## What is proved

`InvestigationQueueProofs` proves, for every value of the constants: `TypeCorrect`,
`IndexIsSound` and `IndexIsComplete`, together `IndexIsExact`, `MarksDoNotLeak`, `NothingStranded`
(`Spec => []...`) and the action property `RemovalIsAccounted`.  `InflightNeverCancelled` is
proved for every behaviour in which no two process calls share a key
(`UnsharedIsNeverCancelled`, from `Marked`: what a worker holds is marked in flight), hence
for a process that leads once (`OneTermIsNeverCancelled`); sharing a key is exactly how
`MCInvestigationQueueOverlap` refutes it.

The inductive invariant adds three facts to the properties.  `KeyedByPayload`: what is
stored under `k` has key `k`, which makes the index arguments local.  `TermInv`: terms
that have not started have no goroutine, and `wq` is the newest term as long as its
worker has not returned; it is what sends an `Enqueue`'s add to the queue that serves.
`SeqInv`: no stored or held sequence number exceeds `seq`, and a held payload with the
stored one's number is the stored one, which `Commit`'s comparison needs.  Each action
has a step per conjunct it can disturb.

`OutcomeLedgerProofs` proves `VotesAreCounted`, `RoomsAreCounted` and `LinksAreKept`,
together `RollUpIsExact`, and `ResolvesPairOff`, for any number of processes, events, faults
and crashes, from `LedgerSound` (`Spec => []SoundState`).  `SoundState` says that every state a process may come to
serve is sound: its memory, the scratch state of a compaction, every checkpoint in the
file and in a load, and that every line is a well-formed event or such a checkpoint.
It is needed because a checkpoint is trusted blindly when it is folded.  The key lemma
`CardinalityMove` counts what a changed vote or verification moves from one entry to
another; each event kind has a lemma that its fold keeps `Sound`.  `Paired` types the stacks
of open recalls and the buffers of early resolves; `owed` is the set of stack places whose
resolution credits an entry, and a push or a pop moves exactly one of them.

For one process on its file the module also proves the refinement, `LedgerIsDurable`,
whatever writes fail or half-succeed, and `HistoryIsKept`; and `OneProcessInLockstep` when
no write does.  The hypotheses are needed: a failed `Sync` leaves a line in the file that the
process did not fold, a partial line swallows the next one, and a second process compacts
what it read over lines appended since (`MCOutcomeLedgerShared`).  `after(s, i)` is the state
i lines of a file replay to.  `Agree` relates two records that differ in silences lapsed by
an instant; every fold keeps it, for later instants too (`FoldAgrees`, `SeedAgrees`,
`AgreeLater`), so a checkpoint of the first lines, pruned when it was written, and the tail
replay to what the whole file did (`CompactAgrees`).  `Loading` says that what a load has
folded is the replay of the lines it has read; with it every step of the file is an append,
a lapse or a compaction that agrees (`FileStep`), which are `DurableLedger`'s `Record`,
`Tick` and a stutter.  `Lock` adds that the running indexes agree with the file.

`ActionGateProofs` proves `GateTypeCorrect`, `ExecutesAtMostOnce`, `ExecutesOnlySanctioned`,
`KillSwitchWins` and `AuditIsBelieved`, for any number of replicas, actions, requests and
terms.  `AtMostOnce` is not inductive: the invariant `IInv` follows an id from hand to
hand.  `OneHolder`: it waits in one replica's queue, or one request has claimed it, or one
worker has it.  `HeldUnspent`: whoever holds it, it has not reached the cluster, and
`RejectStands`: nobody holds one whose rejection was acknowledged.  `ModeOK`: mode approve
has no workers at work and mode auto nothing pending, so the two paths never meet.
`SendsOK` and `WorkOK` tie a step to the kind of its request and to a process that is up,
`PassedBefore` is the second look that `PauseWins` needs, `AppliedOK` remembers who
approved.  The steps that only route a request, run the election or move time share frame
lemmas; every handler and worker step has a lemma of its own.

`AuditIsBelieved` is for any number of failed writes, in any order with crashes and starts.
`AuditTruthful` is a part of `IInv`.  `LossOK` strengthens the bound on what is missing by the
loss to come: a file that ends within a line (`Cut`) swallows the next record, so a write that
is cut short is charged for two when it happens.  `ChainOK`: unless a write was cut short or
a Sync failed, every record is whole, in its place and chained to the one before, and
`lastHash` is the end of the file; what fails without a byte in the file does not touch
it.  Every step of the gate leaves the files alone, logs one decision or is a start
(`FilesStep`), and a logged decision is one of four changes of one file (`LogCases`), so
neither invariant looks at the handlers.

`CurationSweepsProofs` proves `SweepsTypeCorrect`, `OneGapAtATime`, `ProposedOnce` and
`ReviewQueueKeepsBound`, for any number of entries, drafts, passes and failing calls.  Two
hypotheses on the scenes bound what is claimed.  `OneSweep`: no two sweeps overlap, as the
sweeper is one goroutine of the leader; a command run beside it may open two issues for one
resource although no call fails, or propose twice.  `DeclinedForGood`: nobody reopens a proposal that was closed, as
the code takes a close for a final no (`retirement.go:51`).  What a pass works from is
older than the forge it writes to, and the invariants say how a remembered list may have
aged: `GapsOK`, what a pass is about to report is open only through calls whose answer was
lost; `LeftUnasked`, what its
listings left to propose is on no labelled proposal, or on one closed since that the second
listing will show; `ProposalsOK` and `NumberOK`, what a proposal may become and which one
waits for its label; `BudgetOK`, what a pass may still open and what waits never exceed the
bound by more than the calls that failed, the proposals without a label among them.

It also proves, about `MergeLabel` as an instance (`Ready`), the action property
`RebuildsKeepEdits`, for any groomers, edits, deployments, humans and failing calls.  A
rebuild reads the head and the text of a branch by two calls, and what it pushes replaces
whatever is there.  The head of a pull request only grows, and its text changes with it
alone (`Moves`); so, by `HeldIsCurrent`, a groomer that still finds the head it examined
first holds the text that is there, and at the second look at the head nothing has been
missed.  A push over a newer head is the window that remains.

`InvestigationLoopProofs` proves `LoopTypeCorrect`, `EveryRequestPairs`,
`OneRequestConceded`, `FiringsCompleteOnce` and the action property `SuppressionIsEarned`,
for any calls and turns, any prices and ceilings, any order of compaction and any number of
firings.  What a history weighs is a fold, and the first lemmas give it the laws the ladder
rests on: the weight is a number, a message adds its own (`EstimateAppend`) and an elided
history weighs no more (`EstimateElide`).  The pairing is kept by what may be done to a
history: a message without calls (`PairedAppend`), a turn with its results
(`PairedTurn`), and elision, which keeps the shape (`PairedShape`).  `Conceding` is what
makes the single concession inductive: once a request has crossed a ceiling the nudge is
on record, and a request that crosses one is only ever sent with the nudge on record and
nothing conceded yet.  `FiringsOK` and `CompletionsOK` tie the end of a firing to
where `Investigate` is and to its completion, `TriggerOK` the ledger's roll-up of the
trigger to a completion that gave it, which is what suppression must be earned by.

`AlertIntakeProofs` proves `IntakeTypeCorrect`, `AlertsStayReachable` and the action property
`OneLookPerCooldown`, for any alerts, groups, windows, bounds of the coalescer and batches
and for any interleaving of the stages with resolves and the shutdown.  That an open alert
has one place is a count of tuples; the invariant says it in sets.  `Placed`: the six stages
share out the open alerts, and `Once`: none holds an alert twice.  Each step then moves a set
between two stages or ends it, and one lemma per stage says what a batch taken, grown,
flushed or replaced does to the set (`PendingTaken`, `PendingGrown`, `FlushesAdded`,
`QueueReplaced`).  `Cancellable` carries the clocks: a running hold has at least the
difference of the two windows less to run than the dedup window that admitted its alert, so
when that fingerprint is admitted again no hold of it runs whose entry could be taken.
`Cooled` ties `Coalescer.recent` to the cooldown the comments describe: the same time left,
at least its alertnames.  The reverse inclusion is what fails (`MCAlertIntakeCooldown`).

`CatalogSyncProofs` proves `ServesRevisions`, for any histories of the roots, pins, faults
and crashes, and one syncer.  `Sound` is the invariant.  `MirrorSound`: a directory without
a syncer never changes, and a mirror is at a revision that may be served by the time its HEAD
is looked at, although the clone of a pinned commit begins on the default branch.
`WalkSound`: a walk found the revision of the mirror, as nobody else checks one out while a
reload runs.  `DeltaSound`: what is served is the revision the next delta starts from, which
the roll-back of `lastRev` keeps true when a reload fails.  `IndexSound`: half-way
through a delta, index and walk agree outside the documents still to be done (`Agree`), and
documents in no delta agree because the two trees do (`DiffIsEnough`); `torn` excuses an
index an incremental pass left behind when the rebuild failed too.  With two syncers only
the types and `MirrorSound` remain, the others are what a walk of the other's mirror breaks.

`ThreadNotesProofs` proves `OneWriterPerRoot` (`OneWriter`), `OneWriterOnePR`
(`WritersOpenOne`), `OutageIsFree` (`OutagesAreFree`), `CapsCountWrites` (`CapsCount`),
`BudgetSettles` (`BudgetsSettle`) and `RestartKeepsThreads` (`RestartsKeepThreads`), for any
replicas, handlers, threads, messages and bounds, and any interleaving of the handlers with
expiry, eviction, crashes, torn lines, failovers and a forge that fails or answers too late.
`Typed` says what every part holds.  The five invariants on top of it each close a gap.

- `LocksOK`: a guard's count is the number of handlers that refer to it, no two roots share
  one, and of those that refer to it one at most is inside.  A guard is deleted when its
  count is zero and made again under the same root, so who is inside is only known from who
  refers to what.
- `TargetsOK`: where a note is going (`target`) is a pull request of its context, so that
  `WriteBack` and `Count` write where the note went.
- `Allowance`, with `Paying`: the bound on the write window, stated from every instant on
  (`\A s \in slid..reserved`).  A refund gives back the newest token, whoever took it
  (`window.go:56`), so the bound of the window alone is not inductive.
- `Budgeted`: of a budget's entries from any call on, no more are reservations than calls that
  are in flight or never came back; and as long as no call has left the window, the sum of
  what is settled is what the recorded calls cost.  `Record` settles the newest
  reservation (`budget.go:361`), which need not be that of the call that came back.
- `Known`, while no append has failed and the Lease has not moved: every context the leader
  tracks or the file says last notes its open pull request and counts its notes, but for one
  that is being written back, and a handler at the forge holds what the registry holds.  It has
  to speak of the file, as a restart brings back contexts that memory had evicted, and of a
  thread made anew under a handler of the old one.

`Survives` is what a restart rests on: memory is exactly the file's replay, eviction queue
included, until the first TTL is over; and while there is room for every root, a context
that has not expired is tracked if and only if it is the last line of its root.  A line more
is a put more (`AppendedReplay`), a compacted file replays to the memory it was written from
(`CompactedReplay`), and with room for all a replay evicts nothing (`ReplayKeepsAll`).  When
threads have been both evicted and expired the two differ (`MCThreadNotesReborn`).

Assumptions: the named `ASSUME`s of the modules only (finite sets, null values outside
the types, bounds in `Nat`); TLC evaluates them on every run.

Left to TLC: all liveness (`EventuallyTaken`, `EventuallySettled`, `FixGetsDecided`,
`HeldFixReachesEntry`, `CatchesUp`, `RefusalIsHeeded`, `WarrantedIsProposed`,
`CondemnedLosesLabel`, `ProvenGetsLabel`), beyond the prover; and the safety of `Factory`
(`VerdictIsItsOwn`, `LatestIsNewest`, `EntryHoldsFixes`), whose record passes through some forty
actions of five actors and is not proved yet.  What a `SelectSeq` contains cannot be proved (its
definition recurses inside the library), so `resolvesSince`, which the pairing rests on, is
a recursive function of its own, and the ledger's lemmas about replays do their induction
over the numbers of lines (`UpTo`).

## Not modelled

Decoders of alert sources, notifiers, REST clients of the forges, model, MCP, metrics
and log clients, Kubernetes calls, investigation tools, the diff engine, configuration,
redaction, telemetry and the evaluation harness: I/O, parsing and rendering without
state the other components share.  The scores of recall, reranking and BM25 are floating
point; a model's answer is a choice.  The GitOps failure watcher's re-check, the
re-investigation poller, the Contested comments and the queue issue of a sweep change
state and are still to be added.  One audit file that two replicas write (a Deployment
over a shared volume) is outside `ActionGate`, where each replica has its own; so is the
audit log of the modes that execute nothing.  `CurationSweeps.Propose` is one step for
the branch, its commit and the pull request: no sweep reads a branch without a pull
request, so what a failing middle call leaves behind is not state of the module.

## Plan

1. `AlertIntake` composed with `InvestigationQueue`, so that the batch it hands over is
   the queue's payload, and extended by the GitOps watcher's re-check.
2. Proofs: `VerdictIsItsOwn` in `Factory`.
3. The Contested comments and the queue issue, which rewrite one text on every sweep.
4. Abstract specifications: an intake in which an alert is accepted, suppressed,
   cancelled or investigated; a gate in which an action is proposed and executed at most
   once.
