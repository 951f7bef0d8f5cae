------------------------- MODULE InvestigationQueue -------------------------
(***************************************************************************)
(* The investigation queue of internal/investigate/investigate.go: payload *)
(* map, cancel index and in-flight marks under one mutex, fed by webhooks, *)
(* watchers and pollers, and consumed by one worker per leadership term.   *)
(*                                                                         *)
(* Every term builds a fresh client-go work queue.  The worker of a lost   *)
(* term may still be inside its last investigation when the next term      *)
(* starts, so two workers can be active over the same payload map.         *)
(* Enqueue releases the mutex before it calls wq.Add: the two halves are   *)
(* two actions.  A process step that takes the mutex is an action of its   *)
(* own for the same reason.                                                *)
(***************************************************************************)
EXTENDS Naturals, Sequences, FiniteSets

CONSTANTS
    Keys,         \* coalescing keys (source, namespace, name, title)
    Fps,          \* alert fingerprints
    Requests,     \* payloads: [key, fp, fps], fp = NoFp when the source has none
    NoFp, NoKey, NoPending, \* absent fingerprint, index entry, payload
    MaxSeq,       \* bound on the number of Enqueue calls
    MaxTerms,     \* bound on the number of leadership terms of this process
    MaxStarts,    \* investigation starts allowed per window, 0 = unlimited
    MaxRequeues,  \* throttled requeues before a key is dropped
    Sigterm       \* whether the process may be asked to stop

ASSUME QueueConstants ==
    /\ IsFiniteSet(Keys)
    /\ NoFp \notin Fps /\ NoKey \notin Keys
    /\ Requests \subseteq [key : Keys, fp : Fps \cup {NoFp}, fps : SUBSET Fps]
    /\ NoPending \notin [req : Requests, seq : Nat]
    /\ MaxSeq \in Nat /\ MaxTerms \in Nat
    /\ MaxStarts \in Nat /\ MaxRequeues \in Nat
    /\ Sigterm \in BOOLEAN

VARIABLES
    reqs,      \* Queue.reqs: pending payload of each key
    byFP,      \* Queue.byFP: cancel index
    inflight,  \* Queue.inflight
    seq,       \* Queue.seq
    wq,        \* Queue.wq: the term whose work queue Enqueue feeds, 0 = nil
    adds,      \* Enqueue calls between q.mu.Unlock and wq.Add
    wqs,       \* the work queue of every term
    worker,    \* the goroutine in Run of every term
    ctx,       \* the context of every term
    term,      \* number of terms started so far
    starts,    \* entries of the sliding start window
    drain      \* the SIGTERM drain: [state, term]

vars == <<reqs, byFP, inflight, seq, wq, adds, wqs, worker, ctx, term, starts, drain>>

Terms   == 1..MaxTerms
Pending == [req : Requests, seq : Nat]

IdlePc == {"absent", "get", "stopped"}
HoldPc == {"read", "done"}                           \* an item, no payload
MarkedPc == {"gate", "run", "commit", "drop", "unmark"} \* a payload, marked in flight
Worker == [pc : IdlePc, key : {NoKey}, p : {NoPending}]
          \cup [pc : HoldPc, key : Keys, p : {NoPending}]
          \cup [pc : MarkedPc, key : Keys, p : Pending]
NoWorker == [pc |-> "absent", key |-> NoKey, p |-> NoPending]

-----------------------------------------------------------------------------
(* The client-go rate-limiting work queue, external to the repository.     *)

WorkQueue == [queue : Seq(Keys), dirty : SUBSET Keys, processing : SUBSET Keys,
              waiting : SUBSET Keys, requeues : [Keys -> Nat], shutdown : BOOLEAN]

NewWorkQueue == [queue |-> <<>>, dirty |-> {}, processing |-> {}, waiting |-> {},
                 requeues |-> [k \in Keys |-> 0], shutdown |-> FALSE]

\* An item already dirty is merged; one being processed waits for its Done.
WqAdd(w, k) ==
    IF w.shutdown \/ k \in w.dirty THEN w
    ELSE [w EXCEPT !.dirty = @ \cup {k},
                   !.queue = IF k \in w.processing THEN @ ELSE Append(@, k)]

WqGet(w) == [w EXCEPT !.queue = Tail(@),
                      !.dirty = @ \ {Head(w.queue)},
                      !.processing = @ \cup {Head(w.queue)}]

WqDone(w, k) == [w EXCEPT !.processing = @ \ {k},
                          !.queue = IF k \in w.dirty THEN Append(@, k) ELSE @]

\* The failure count is compared with MaxRequeues only, so it saturates there.
WqAddRateLimited(w, k) ==
    [w EXCEPT !.requeues[k] = IF @ < MaxRequeues THEN @ + 1 ELSE @,
              !.waiting = IF w.shutdown THEN @ ELSE @ \cup {k}]

\* A backoff delay is over: the delaying queue adds the item.
WqDelayOver(w, k) == [WqAdd(w, k) EXCEPT !.waiting = w.waiting \ {k}]

WqForget(w, k) == [w EXCEPT !.requeues[k] = 0]

-----------------------------------------------------------------------------
(* The cancel index.                                                       *)

\* Only a single-fingerprint request is cancellable on a resolve.
cancellableFingerprint(r) == IF Cardinality(r.fps) > 1 THEN NoFp ELSE r.fp

\* The index without r's entry, if that entry still points at k.
unindexLocked(idx, r, k) ==
    [f \in Fps |-> IF f = cancellableFingerprint(r) /\ idx[f] = k THEN NoKey ELSE idx[f]]

indexLocked(idx, r) ==
    [f \in Fps |-> IF f = cancellableFingerprint(r) THEN r.key ELSE idx[f]]

\* Payload and index entry go together.
removeLocked(k) ==
    /\ reqs' = [reqs EXCEPT ![k] = NoPending]
    /\ byFP' = unindexLocked(byFP, reqs[k].req, k)

-----------------------------------------------------------------------------
Init ==
    /\ reqs = [k \in Keys |-> NoPending]
    /\ byFP = [f \in Fps |-> NoKey]
    /\ inflight = {}
    /\ seq = 0
    /\ wq = 0
    /\ adds = {}
    /\ wqs = [t \in Terms |-> NewWorkQueue]
    /\ worker = [t \in Terms |-> NoWorker]
    /\ ctx = [t \in Terms |-> "none"]
    /\ term = 0
    /\ starts = 0
    /\ drain = [state |-> "no", term |-> 0]

(* Producers.                                                              *)

\* Mutant: the payload being coalesced over keeps its index entry.
MutEnqueueKeepsIndex(r) ==
    /\ seq < MaxSeq
    /\ seq' = seq + 1
    /\ reqs' = [reqs EXCEPT ![r.key] = [req |-> r, seq |-> seq + 1]]
    /\ byFP' = indexLocked(byFP, r)
    /\ adds' = IF wq = 0 THEN adds
               ELSE adds \cup {[term |-> wq, key |-> r.key, seq |-> seq + 1]}
    /\ UNCHANGED <<inflight, wq, wqs, worker, ctx, term, starts, drain>>

\* Enqueue up to q.mu.Unlock: the latest payload of a key wins.
Enqueue(r) ==
    /\ seq < MaxSeq
    /\ seq' = seq + 1
    /\ LET k == r.key
           idx == IF reqs[k] = NoPending THEN byFP
                  ELSE unindexLocked(byFP, reqs[k].req, k)
       IN /\ reqs' = [reqs EXCEPT ![k] = [req |-> r, seq |-> seq + 1]]
          /\ byFP' = indexLocked(idx, r)
          /\ adds' = IF wq = 0 THEN adds
                     ELSE adds \cup {[term |-> wq, key |-> k, seq |-> seq + 1]}
    /\ UNCHANGED <<inflight, wq, wqs, worker, ctx, term, starts, drain>>

\* The wq.Add of an Enqueue, on the work queue it read under the mutex.
EnqueueAdd(a) ==
    /\ a \in adds
    /\ adds' = adds \ {a}
    /\ wqs' = [wqs EXCEPT ![a.term] = WqAdd(@, a.key)]
    /\ UNCHANGED <<reqs, byFP, inflight, seq, wq, worker, ctx, term, starts, drain>>

\* Mutant: a resolve does not look at the in-flight marks.
MutCancelIgnoresInflight(f) ==
    /\ byFP[f] # NoKey
    /\ IF reqs[byFP[f]] = NoPending
       THEN /\ byFP' = [byFP EXCEPT ![f] = NoKey]
            /\ UNCHANGED reqs
       ELSE removeLocked(byFP[f])
    /\ UNCHANGED <<inflight, seq, wq, adds, wqs, worker, ctx, term, starts, drain>>

\* A resolved webhook drops the queued, not in-flight, investigation of f.
CancelByFingerprint(f) ==
    /\ byFP[f] # NoKey
    /\ byFP[f] \notin inflight
    /\ IF reqs[byFP[f]] = NoPending
       THEN /\ byFP' = [byFP EXCEPT ![f] = NoKey]
            /\ UNCHANGED reqs
       ELSE removeLocked(byFP[f])
    /\ UNCHANGED <<inflight, seq, wq, adds, wqs, worker, ctx, term, starts, drain>>

-----------------------------------------------------------------------------
(* Leadership.                                                             *)

\* The goroutine of term t moves on.
Goto(t, pc, k, p) == worker' = [worker EXCEPT ![t] = [pc |-> pc, key |-> k, p |-> p]]
StepTo(t, pc) == Goto(t, pc, worker[t].key, worker[t].p)

Orders(S) == {s \in [1..Cardinality(S) -> S] : \A i, j \in DOMAIN s : s[i] = s[j] => i = j}

\* Mutant: a new term does not replay the stored payloads.
MutStartTermNoReplay ==
    /\ term < MaxTerms
    /\ drain.state # "returned"
    /\ term > 0 => ctx[term] = "cancelled"
    /\ LET t == term + 1
       IN /\ term' = t
          /\ wq' = t
          /\ ctx' = [ctx EXCEPT ![t] = "live"]
          /\ Goto(t, "get", NoKey, NoPending)
          /\ wqs' = [wqs EXCEPT ![t] = NewWorkQueue]
    /\ UNCHANGED <<reqs, byFP, inflight, seq, adds, starts, drain>>

\* Run begins: a fresh work queue, every stored payload replayed in map order.
StartTerm ==
    /\ term < MaxTerms
    /\ drain.state # "returned"
    /\ term > 0 => ctx[term] = "cancelled"
    /\ LET t == term + 1
           stored == {k \in Keys : reqs[k] # NoPending}
       IN /\ term' = t
          /\ wq' = t
          /\ ctx' = [ctx EXCEPT ![t] = "live"]
          /\ Goto(t, "get", NoKey, NoPending)
          /\ \E order \in Orders(stored) :
                wqs' = [wqs EXCEPT ![t] = [NewWorkQueue EXCEPT !.queue = order, !.dirty = stored]]
    /\ UNCHANGED <<reqs, byFP, inflight, seq, adds, starts, drain>>

\* The term's context is cancelled: the lease is lost, or stopWork after a drain.
\* MaxTerms also bounds the losses: the last term only ends by a drain.
CancelContext(t) ==
    /\ ctx[t] = "live"
    /\ t < MaxTerms \/ drain.state = "returned"
    /\ ctx' = [ctx EXCEPT ![t] = "cancelled"]
    /\ UNCHANGED <<reqs, byFP, inflight, seq, wq, adds, wqs, worker, term, starts, drain>>

\* The goroutine Run started sees the cancelled context and shuts the queue down.
ShutDown(t) ==
    /\ ctx[t] = "cancelled"
    /\ ~wqs[t].shutdown
    /\ wqs' = [wqs EXCEPT ![t].shutdown = TRUE, ![t].waiting = {}]
    /\ UNCHANGED <<reqs, byFP, inflight, seq, wq, adds, worker, ctx, term, starts, drain>>

\* SIGTERM: Drain reads q.wq and asks that queue to shut down with a drain.
Drain ==
    /\ Sigterm
    /\ drain.state = "no"
    /\ drain' = [state |-> IF wq = 0 THEN "returned" ELSE "waiting", term |-> wq]
    /\ wqs' = [t \in Terms |-> IF t = wq THEN [wqs[t] EXCEPT !.shutdown = TRUE, !.waiting = {}]
                               ELSE wqs[t]]
    /\ UNCHANGED <<reqs, byFP, inflight, seq, wq, adds, worker, ctx, term, starts>>

\* Drain returns: nothing is being processed, or its deadline has passed.
DrainReturn ==
    /\ drain.state = "waiting"
    /\ drain' = [drain EXCEPT !.state = "returned"]
    /\ UNCHANGED <<reqs, byFP, inflight, seq, wq, adds, wqs, worker, ctx, term, starts>>

-----------------------------------------------------------------------------
(* The worker of term t.                                                   *)


\* wq.Get hands out what is still queued even after a shutdown.
Get(t) ==
    /\ worker[t].pc = "get"
    /\ wqs[t].queue # <<>>
    /\ wqs' = [wqs EXCEPT ![t] = WqGet(@)]
    /\ Goto(t, "read", Head(wqs[t].queue), NoPending)
    /\ UNCHANGED <<reqs, byFP, inflight, seq, wq, adds, ctx, term, starts, drain>>

\* Run returns; q.wq is cleared unless a newer term has replaced it.  The queue
\* itself becomes garbage: only a late wq.Add can still reach it, and is ignored.
GetShutdown(t) ==
    /\ worker[t].pc = "get"
    /\ wqs[t].queue = <<>>
    /\ wqs[t].shutdown
    /\ Goto(t, "stopped", NoKey, NoPending)
    /\ wq' = IF wq = t THEN 0 ELSE wq
    /\ wqs' = [wqs EXCEPT ![t] = [NewWorkQueue EXCEPT !.shutdown = TRUE]]
    /\ UNCHANGED <<reqs, byFP, inflight, seq, adds, ctx, term, starts, drain>>

\* process: copy the payload and mark it in flight, or no-op on a stale item.
ReadPayload(t) ==
    LET k == worker[t].key IN
    /\ worker[t].pc = "read"
    /\ \/ /\ reqs[k] # NoPending
          /\ inflight' = inflight \cup {k}
          /\ Goto(t, "gate", k, reqs[k])
          /\ UNCHANGED wqs
       \/ /\ reqs[k] = NoPending
          /\ Goto(t, "done", k, NoPending)
          /\ wqs' = [wqs EXCEPT ![t] = WqForget(@, k)]
          /\ UNCHANGED inflight
    /\ UNCHANGED <<reqs, byFP, seq, wq, adds, ctx, term, starts, drain>>

\* Mutant: the back-off path returns without clearing its in-flight mark.
MutGateLeaksMark(t) ==
    LET k == worker[t].key IN
    /\ worker[t].pc = "gate"
    /\ \/ /\ MaxStarts = 0 \/ starts < MaxStarts
          /\ starts' = IF MaxStarts = 0 THEN starts ELSE starts + 1
          /\ StepTo(t, "run")
          /\ UNCHANGED wqs
       \/ /\ MaxStarts > 0 /\ starts >= MaxStarts
          /\ Goto(t, "done", k, NoPending)
          /\ wqs' = [wqs EXCEPT ![t] = WqAddRateLimited(@, k)]
          /\ UNCHANGED starts
    /\ UNCHANGED <<reqs, byFP, inflight, seq, wq, adds, ctx, term, drain>>

\* The start budget: Window.Allow, then drop or back off when it refuses.
Gate(t) ==
    LET k == worker[t].key IN
    /\ worker[t].pc = "gate"
    /\ \/ /\ MaxStarts = 0 \/ starts < MaxStarts
          /\ starts' = IF MaxStarts = 0 THEN starts ELSE starts + 1
          /\ StepTo(t, "run")
          /\ UNCHANGED wqs
       \/ /\ MaxStarts > 0 /\ starts >= MaxStarts
          /\ wqs[t].requeues[k] >= MaxRequeues
          /\ StepTo(t, "drop")
          /\ wqs' = [wqs EXCEPT ![t] = WqForget(@, k)]
          /\ UNCHANGED starts
       \/ /\ MaxStarts > 0 /\ starts >= MaxStarts
          /\ wqs[t].requeues[k] < MaxRequeues
          /\ StepTo(t, "unmark")
          /\ wqs' = [wqs EXCEPT ![t] = WqAddRateLimited(@, k)]
          /\ UNCHANGED starts
    /\ UNCHANGED <<reqs, byFP, inflight, seq, wq, adds, ctx, term, drain>>

\* Mutant: an error worth a retry is not requeued.
MutInvestigateNoRequeue(t) ==
    LET k == worker[t].key IN
    /\ worker[t].pc = "run"
    /\ \/ /\ StepTo(t, "commit")
          /\ wqs' = [wqs EXCEPT ![t] = WqForget(@, k)]
       \/ /\ StepTo(t, "unmark")
          /\ UNCHANGED wqs
    /\ UNCHANGED <<reqs, byFP, inflight, seq, wq, adds, ctx, term, starts, drain>>

\* Investigate returns: success, a permanent error, or one worth a retry.
Investigate(t) ==
    LET k == worker[t].key IN
    /\ worker[t].pc = "run"
    /\ \/ /\ StepTo(t, "commit")
          /\ wqs' = [wqs EXCEPT ![t] = WqForget(@, k)]
       \/ /\ StepTo(t, "drop")
          /\ wqs' = [wqs EXCEPT ![t] = WqForget(@, k)]
       \/ /\ StepTo(t, "unmark")
          /\ wqs' = [wqs EXCEPT ![t] = WqAddRateLimited(@, k)]
    /\ UNCHANGED <<reqs, byFP, inflight, seq, wq, adds, ctx, term, starts, drain>>

\* Mutant: the compare-and-delete without its comparison.
MutMayDelete(t) == reqs[worker[t].key] # NoPending

\* After a success the payload goes only if no newer trigger superseded it.
mayDelete(t) == reqs[worker[t].key] # NoPending /\ reqs[worker[t].key].seq = worker[t].p.seq

Commit(t) ==
    /\ worker[t].pc = "commit"
    /\ IF mayDelete(t) THEN removeLocked(worker[t].key) ELSE UNCHANGED <<reqs, byFP>>
    /\ StepTo(t, "unmark")
    /\ UNCHANGED <<inflight, seq, wq, adds, wqs, ctx, term, starts, drain>>

\* A drop removes whatever payload is stored now.
Drop(t) ==
    /\ worker[t].pc = "drop"
    /\ IF reqs[worker[t].key] # NoPending THEN removeLocked(worker[t].key)
       ELSE UNCHANGED <<reqs, byFP>>
    /\ StepTo(t, "unmark")
    /\ UNCHANGED <<inflight, seq, wq, adds, wqs, ctx, term, starts, drain>>

\* The deferred calls of process, in the order they run.
Unmark(t) ==
    /\ worker[t].pc = "unmark"
    /\ inflight' = inflight \ {worker[t].key}
    /\ Goto(t, "done", worker[t].key, NoPending)
    /\ UNCHANGED <<reqs, byFP, seq, wq, adds, wqs, ctx, term, starts, drain>>

Done(t) ==
    /\ worker[t].pc = "done"
    /\ wqs' = [wqs EXCEPT ![t] = WqDone(@, worker[t].key)]
    /\ Goto(t, "get", NoKey, NoPending)
    /\ UNCHANGED <<reqs, byFP, inflight, seq, wq, adds, ctx, term, starts, drain>>

-----------------------------------------------------------------------------
(* Time.                                                                   *)

DelayElapsed(t, k) ==
    /\ k \in wqs[t].waiting
    /\ wqs' = [wqs EXCEPT ![t] = WqDelayOver(@, k)]
    /\ UNCHANGED <<reqs, byFP, inflight, seq, wq, adds, worker, ctx, term, starts, drain>>

\* The oldest start leaves the sliding window.
WindowSlides ==
    /\ starts > 0
    /\ starts' = starts - 1
    /\ UNCHANGED <<reqs, byFP, inflight, seq, wq, adds, wqs, worker, ctx, term, drain>>

-----------------------------------------------------------------------------
WorkerStep(t) ==
    \/ Get(t) \/ GetShutdown(t) \/ ReadPayload(t) \/ Gate(t) \/ Investigate(t)
    \/ Commit(t) \/ Drop(t) \/ Unmark(t) \/ Done(t)

Next ==
    \/ \E r \in Requests : Enqueue(r)
    \/ \E a \in adds : EnqueueAdd(a)
    \/ \E f \in Fps : CancelByFingerprint(f)
    \/ StartTerm
    \/ \E t \in Terms : CancelContext(t) \/ ShutDown(t) \/ WorkerStep(t)
    \/ Drain
    \/ DrainReturn
    \/ \E t \in Terms, k \in Keys : DelayElapsed(t, k)
    \/ WindowSlides

Spec == Init /\ [][Next]_vars

\* What the Go scheduler, the election loop and the clock owe every caller.
Fairness ==
    /\ \A t \in Terms : WF_vars(WorkerStep(t)) /\ WF_vars(ShutDown(t))
    /\ \A t \in Terms, k \in Keys : WF_vars(DelayElapsed(t, k))
    /\ WF_vars(\E a \in adds : EnqueueAdd(a))
    /\ WF_vars(StartTerm)
    /\ WF_vars(WindowSlides)

FairSpec == Spec /\ Fairness

-----------------------------------------------------------------------------
(* Properties.                                                             *)

TypeOK ==
    /\ reqs \in [Keys -> Pending \cup {NoPending}]
    /\ byFP \in [Fps -> Keys \cup {NoKey}]
    /\ inflight \subseteq Keys
    /\ seq \in Nat
    /\ wq \in 0..MaxTerms
    /\ adds \subseteq [term : Terms, key : Keys, seq : Nat]
    /\ wqs \in [Terms -> WorkQueue]
    /\ worker \in [Terms -> Worker]
    /\ ctx \in [Terms -> {"none", "live", "cancelled"}]
    /\ term \in 0..MaxTerms
    /\ starts \in Nat
    /\ drain \in [state : {"no", "waiting", "returned"}, term : 0..MaxTerms]

\* The cancel index never outlives nor misdescribes a payload: what it names is
\* stored, and is a single-alert request with that very fingerprint.
IndexSound ==
    \A f \in Fps : byFP[f] # NoKey =>
        /\ reqs[byFP[f]] # NoPending
        /\ cancellableFingerprint(reqs[byFP[f]].req) = f

\* Sources whose fingerprint determines the coalescing key (Alertmanager's does).
FpDeterminesKey ==
    \A r1, r2 \in Requests :
        cancellableFingerprint(r1) = cancellableFingerprint(r2)
            /\ cancellableFingerprint(r1) # NoFp => r1.key = r2.key

\* With such sources every stored single-alert request can be cancelled.
IndexComplete ==
    FpDeterminesKey =>
        \A k \in Keys :
            reqs[k] # NoPending /\ cancellableFingerprint(reqs[k].req) # NoFp
                => byFP[cancellableFingerprint(reqs[k].req)] = k

\* The cancel index is the stored single-alert requests and nothing else.
IndexExact == IndexSound /\ IndexComplete

\* The current work queue, or the worker serving it, still knows about k.
Attended(t, k) ==
    \/ k \in wqs[t].dirty \cup wqs[t].waiting
    \/ \E a \in adds : a.term = t /\ a.key = k
    \/ /\ worker[t].key = k
       /\ \/ worker[t].pc \in {"read", "drop"}
          \/ worker[t].pc \in {"gate", "run", "commit"} /\ worker[t].p = reqs[k]

\* The newest term's worker serves its queue and has not been told to stop.
Serving == term > 0 /\ worker[term].pc # "stopped" /\ ~wqs[term].shutdown

\* No stored request is stranded: while a term is serving, every payload in reqs
\* is still going to surface in its work queue, whatever the overlap of Enqueue's
\* two halves, retries, superseding triggers and the previous term's worker.
NoRequestStranded ==
    Serving => \A k \in Keys : reqs[k] # NoPending => Attended(term, k)

\* An in-flight mark never outlives the process call that set it: a leaked mark
\* would make its key uncancellable for good.
NoLeakedMark ==
    \A k \in inflight : \E t \in Terms : worker[t].key = k /\ worker[t].pc \in MarkedPc

\* A resolve never cancels an investigation that is running: the payload a worker
\* is investigating leaves reqs only through the end of that very process call.
InflightNeverCancelled ==
    [][\A t \in Terms, k \in Keys :
          /\ worker[t].pc = "run" /\ worker[t].key = k /\ worker[t].p = reqs[k]
          /\ reqs'[k] = NoPending
          => \E u \in Terms : worker[u].key = k /\ worker[u].pc \in {"commit", "drop"}]_vars

\* A stored payload disappears only because that very payload was investigated
\* with success, because a worker dropped its key, or because it was a queued
\* single-alert request its own fingerprint cancelled.
RemovalAccounted ==
    [][\A k \in Keys : reqs[k] # NoPending /\ reqs'[k] = NoPending =>
          \/ \E t \in Terms : worker[t].key = k /\ worker[t].pc = "drop"
          \/ \E t \in Terms : worker[t].key = k /\ worker[t].pc = "commit" /\ worker[t].p = reqs[k]
          \/ /\ k \notin inflight
             /\ ~(Cardinality(reqs[k].req.fps) > 1)
             /\ reqs[k].req.fp # NoFp]_vars

\* Drain hands out no further item: only an item already handed out is finished.
DrainHandsOutNothing ==
    [][\A t \in Terms : drain.state = "waiting" /\ drain.term = t /\ worker[t].pc = "get"
          => worker'[t].pc # "read"]_vars

\* Every accepted request is eventually started or leaves the queue, unless the
\* process is told to stop.
EventuallyTaken ==
    \A k \in Keys : reqs[k] # NoPending ~>
        \/ reqs[k] = NoPending
        \/ \E t \in Terms : worker[t].key = k /\ worker[t].pc = "run"
        \/ drain.state # "no"
=============================================================================
