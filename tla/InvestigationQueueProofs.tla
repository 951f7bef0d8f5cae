----------------------- MODULE InvestigationQueueProofs -----------------------
(***************************************************************************)
(* Proofs about InvestigationQueue, for every set of keys, fingerprints    *)
(* and requests and every bound.                                           *)
(***************************************************************************)
EXTENDS InvestigationQueue, FiniteSetTheorems, SequenceTheorems, TLAPS

-----------------------------------------------------------------------------
(* The work-queue operators preserve the type of a work queue.             *)

\* An enumeration is a sequence.
LEMMA FunctionSeq ==
    ASSUME NEW S, NEW n \in Nat, NEW f \in [1..n -> S]
    PROVE  f \in Seq(S)
    BY SeqDef

\* Each operation of the work queue returns a work queue.
LEMMA NewWorkQueueType == NewWorkQueue \in WorkQueue
BY DEF NewWorkQueue, WorkQueue

LEMMA WqAddType ==
    ASSUME NEW w \in WorkQueue, NEW k \in Keys
    PROVE  WqAdd(w, k) \in WorkQueue
<1> DEFINE q == IF k \in w.processing THEN w.queue ELSE Append(w.queue, k)
<1>1. q \in Seq(Keys)
  BY DEF WorkQueue
<1>2. [w EXCEPT !.dirty = w.dirty \cup {k}, !.queue = q] \in WorkQueue
  <2> HIDE DEF q
  <2> QED  BY <1>1 DEF WorkQueue
<1> QED  BY <1>2 DEF WqAdd

LEMMA WqDelayOverType ==
    ASSUME NEW w \in WorkQueue, NEW k \in Keys
    PROVE  WqDelayOver(w, k) \in WorkQueue
<1>1. WqAdd(w, k) \in WorkQueue
  BY WqAddType
<1>2. w.waiting \ {k} \in SUBSET Keys
  BY DEF WorkQueue
<1>3. QED  BY <1>1, <1>2 DEF WqDelayOver, WorkQueue

LEMMA WqGetType ==
    ASSUME NEW w \in WorkQueue, w.queue # <<>>
    PROVE  WqGet(w) \in WorkQueue /\ Head(w.queue) \in Keys
<1> DEFINE h == Head(w.queue)
           q == Tail(w.queue)
<1>1. h \in Keys /\ q \in Seq(Keys)
  BY DEF WorkQueue
<1>2. [w EXCEPT !.queue = q, !.dirty = w.dirty \ {h},
                !.processing = w.processing \cup {h}] \in WorkQueue
  <2> HIDE DEF q, h
  <2> QED  BY <1>1 DEF WorkQueue
<1> QED  BY <1>1, <1>2 DEF WqGet

LEMMA WqDoneType ==
    ASSUME NEW w \in WorkQueue, NEW k \in Keys
    PROVE  WqDone(w, k) \in WorkQueue
<1> DEFINE q == IF k \in w.dirty THEN Append(w.queue, k) ELSE w.queue
<1>1. q \in Seq(Keys)
  BY DEF WorkQueue
<1>2. [w EXCEPT !.processing = w.processing \ {k}, !.queue = q] \in WorkQueue
  <2> HIDE DEF q
  <2> QED  BY <1>1 DEF WorkQueue
<1> QED  BY <1>2 DEF WqDone

LEMMA WqAddRateLimitedType ==
    ASSUME NEW w \in WorkQueue, NEW k \in Keys
    PROVE  WqAddRateLimited(w, k) \in WorkQueue
<1> DEFINE n == IF w.requeues[k] < MaxRequeues THEN w.requeues[k] + 1 ELSE w.requeues[k]
           d == IF w.shutdown THEN w.waiting ELSE w.waiting \cup {k}
<1>1. n \in Nat /\ d \in SUBSET Keys
  BY DEF WorkQueue
<1>2. [w EXCEPT !.requeues[k] = n, !.waiting = d] \in WorkQueue
  <2> HIDE DEF n, d
  <2> QED  BY <1>1 DEF WorkQueue
<1> QED  BY <1>2 DEF WqAddRateLimited

LEMMA WqForgetType ==
    ASSUME NEW w \in WorkQueue, NEW k \in Keys
    PROVE  WqForget(w, k) \in WorkQueue
BY DEF WqForget, WorkQueue

LEMMA WqShutDownType ==
    ASSUME NEW w \in WorkQueue
    PROVE  [w EXCEPT !.shutdown = TRUE, !.waiting = {}] \in WorkQueue
BY DEF WorkQueue

-----------------------------------------------------------------------------
(* The cancel index.                                                       *)

LEMMA FingerprintType ==
    ASSUME NEW r \in Requests
    PROVE  /\ r.key \in Keys
           /\ cancellableFingerprint(r) \in Fps \cup {NoFp}
           /\ cancellableFingerprint(r) # NoFp => ~(Cardinality(r.fps) > 1) /\ r.fp # NoFp
<1>1. r.key \in Keys /\ r.fp \in Fps \cup {NoFp} /\ r.fps \in SUBSET Fps
  BY QueueConstants
<1>2. CASE Cardinality(r.fps) > 1
  BY <1>1, <1>2 DEF cancellableFingerprint
<1>3. CASE ~(Cardinality(r.fps) > 1)
  <2>1. cancellableFingerprint(r) = r.fp
    BY <1>3 DEF cancellableFingerprint
  <2>2. QED  BY <1>1, <1>3, <2>1
<1>4. QED  BY <1>2, <1>3

LEMMA IndexType ==
    ASSUME NEW idx \in [Fps -> Keys \cup {NoKey}], NEW r \in Requests, NEW k
    PROVE  /\ unindexLocked(idx, r, k) \in [Fps -> Keys \cup {NoKey}]
           /\ indexLocked(idx, r) \in [Fps -> Keys \cup {NoKey}]
BY FingerprintType DEF unindexLocked, indexLocked

LEMMA RemoveType ==
    ASSUME TypeOK, NEW k \in Keys, reqs[k] # NoPending, removeLocked(k)
    PROVE  /\ reqs' \in [Keys -> Pending \cup {NoPending}]
           /\ byFP' \in [Fps -> Keys \cup {NoKey}]
<1>1. reqs[k].req \in Requests
  BY DEF TypeOK, Pending
<1>2. QED  BY <1>1, IndexType DEF TypeOK, removeLocked

-----------------------------------------------------------------------------
(* Type correctness, one step per action.                                  *)

\* The queue starts with every variable in its type.
LEMMA TypeInit == Init => TypeOK
<1> SUFFICES ASSUME Init PROVE TypeOK
  OBVIOUS
<1>1. wqs \in [Terms -> WorkQueue]
  BY NewWorkQueueType DEF Init
<1>2. worker \in [Terms -> Worker]
  BY DEF Init, Worker, NoWorker, IdlePc
<1>3. QED  BY <1>1, <1>2, QueueConstants DEF Init, TypeOK, Terms

\* A worker holds a key and a payload exactly when its step needs them.
LEMMA WorkerKey ==
    ASSUME TypeOK, NEW t \in Terms
    PROVE  /\ worker[t].pc \notin IdlePc => worker[t].key \in Keys
           /\ worker[t].pc \in MarkedPc => worker[t].p \in Pending
           /\ worker[t].pc \notin MarkedPc => worker[t].p = NoPending
           /\ worker[t].pc \in IdlePc => worker[t].key = NoKey
BY DEF TypeOK, Worker, IdlePc, HoldPc, MarkedPc

\* A step that gives a worker what its new place needs keeps the workers' type.
LEMMA GotoType ==
    ASSUME TypeOK, NEW t \in Terms, NEW pc, NEW k, NEW p, Goto(t, pc, k, p),
           \/ pc \in IdlePc /\ k = NoKey /\ p = NoPending
           \/ pc \in HoldPc /\ k \in Keys /\ p = NoPending
           \/ pc \in MarkedPc /\ k \in Keys /\ p \in Pending
    PROVE  worker' \in [Terms -> Worker]
<1>1. [pc |-> pc, key |-> k, p |-> p] \in Worker
  BY DEF Worker
<1>2. QED  BY <1>1 DEF TypeOK, Goto

\* A step within process that keeps key and payload keeps the worker's type.
LEMMA StepToType ==
    ASSUME TypeOK, NEW t \in Terms, NEW pc \in MarkedPc, worker[t].pc \in MarkedPc, StepTo(t, pc)
    PROVE  worker' \in [Terms -> Worker]
<1>1. worker[t].key \in Keys /\ worker[t].p \in Pending
  BY WorkerKey DEF IdlePc, MarkedPc
<1>2. QED  BY <1>1, GotoType DEF StepTo

LEMMA WqsUpdateType ==
    ASSUME TypeOK, NEW t \in Terms, NEW w \in WorkQueue, wqs' = [wqs EXCEPT ![t] = w]
    PROVE  wqs' \in [Terms -> WorkQueue]
BY DEF TypeOK

\* Every step keeps every variable in its type.
LEMMA TypeNext == TypeOK /\ [Next]_vars => TypeOK'
<1> SUFFICES ASSUME TypeOK, [Next]_vars PROVE TypeOK'
  OBVIOUS
<1> USE QueueConstants DEF Terms
<1>1. ASSUME NEW r \in Requests, Enqueue(r) PROVE TypeOK'
  <2> DEFINE idx == IF reqs[r.key] = NoPending THEN byFP
                    ELSE unindexLocked(byFP, reqs[r.key].req, r.key)
  <2>1. r.key \in Keys /\ seq' \in Nat
    BY <1>1, FingerprintType DEF Enqueue, TypeOK
  <2>2. idx \in [Fps -> Keys \cup {NoKey}]
    <3>1. CASE reqs[r.key] = NoPending
      BY <3>1 DEF TypeOK
    <3>2. CASE reqs[r.key] # NoPending
      <4>1. reqs[r.key].req \in Requests
        BY <2>1, <3>2 DEF TypeOK, Pending
      <4>2. QED  BY <3>2, <4>1, IndexType DEF TypeOK
    <3>3. QED  BY <3>1, <3>2
  <2>3. byFP' \in [Fps -> Keys \cup {NoKey}]
    <3>1. byFP' = indexLocked(idx, r)
      BY <1>1 DEF Enqueue
    <3>2. QED  BY <2>2, <3>1, IndexType
  <2>4. reqs' \in [Keys -> Pending \cup {NoPending}]
    BY <1>1, <2>1 DEF Enqueue, TypeOK, Pending
  <2>5. adds' \subseteq [term : Terms, key : Keys, seq : Nat]
    BY <1>1, <2>1 DEF Enqueue, TypeOK
  <2>6. QED  BY <1>1, <2>1, <2>3, <2>4, <2>5 DEF Enqueue, TypeOK
<1>2. ASSUME NEW a \in adds, EnqueueAdd(a) PROVE TypeOK'
  <2>1. a.term \in Terms /\ a.key \in Keys
    BY DEF TypeOK
  <2>2. WqAdd(wqs[a.term], a.key) \in WorkQueue
    BY <2>1, WqAddType DEF TypeOK
  <2>3. wqs' \in [Terms -> WorkQueue]
    BY <1>2, <2>1, <2>2 DEF EnqueueAdd, TypeOK
  <2>4. QED  BY <1>2, <2>3 DEF EnqueueAdd, TypeOK
<1>3. ASSUME NEW f \in Fps, CancelByFingerprint(f) PROVE TypeOK'
  <2>1. byFP[f] \in Keys
    BY <1>3 DEF CancelByFingerprint, TypeOK
  <2>2. CASE reqs[byFP[f]] = NoPending
    BY <1>3, <2>2 DEF CancelByFingerprint, TypeOK
  <2>3. CASE reqs[byFP[f]] # NoPending
    BY <1>3, <2>1, <2>3, RemoveType DEF CancelByFingerprint, TypeOK
  <2>4. QED  BY <2>2, <2>3
<1>4. ASSUME StartTerm PROVE TypeOK'
  <2> DEFINE t == term + 1
             stored == {k \in Keys : reqs[k] # NoPending}
  <2>1. t \in Terms
    BY <1>4 DEF StartTerm, TypeOK
  <2>2. PICK order \in Orders(stored) :
          wqs' = [wqs EXCEPT ![t] = [NewWorkQueue EXCEPT !.queue = order, !.dirty = stored]]
    BY <1>4 DEF StartTerm
  <2>3. order \in Seq(Keys)
    <3>1. Cardinality(stored) \in Nat
      BY FS_Subset, FS_CardinalityType
    <3>2. order \in [1..Cardinality(stored) -> Keys]
      BY DEF Orders
    <3>3. QED  BY <3>1, <3>2, FunctionSeq
  <2>4. [NewWorkQueue EXCEPT !.queue = order, !.dirty = stored] \in WorkQueue
    <3> HIDE DEF stored
    <3>1. stored \subseteq Keys
      BY DEF stored
    <3>2. QED  BY <2>3, <3>1, NewWorkQueueType DEF WorkQueue
  <2>5. wqs' \in [Terms -> WorkQueue]
    BY <2>1, <2>2, <2>4 DEF TypeOK
  <2>6. worker' \in [Terms -> Worker]
    BY <1>4, <2>1, GotoType DEF StartTerm, IdlePc
  <2>7. ctx' \in [Terms -> {"none", "live", "cancelled"}]
    BY <1>4, <2>1 DEF StartTerm, TypeOK
  <2>8. QED  BY <1>4, <2>1, <2>5, <2>6, <2>7 DEF StartTerm, TypeOK
<1>5. ASSUME NEW t \in Terms, CancelContext(t) PROVE TypeOK'
  BY <1>5 DEF CancelContext, TypeOK
<1>6. ASSUME NEW t \in Terms, ShutDown(t) PROVE TypeOK'
  <2>1. [wqs[t] EXCEPT !.shutdown = TRUE, !.waiting = {}] \in WorkQueue
    BY WqShutDownType DEF TypeOK
  <2>2. wqs' \in [Terms -> WorkQueue]
    BY <1>6, <2>1 DEF ShutDown, TypeOK
  <2>3. QED  BY <1>6, <2>2 DEF ShutDown, TypeOK
<1>7. ASSUME NEW t \in Terms, WorkerStep(t) PROVE TypeOK'
  <2>1. CASE Get(t)
    <3>1. WqGet(wqs[t]) \in WorkQueue /\ Head(wqs[t].queue) \in Keys
      BY <2>1, WqGetType DEF Get, TypeOK
    <3>2. wqs' \in [Terms -> WorkQueue]
      BY <2>1, <3>1 DEF Get, TypeOK
    <3>3. worker' \in [Terms -> Worker]
      BY <2>1, <3>1, GotoType DEF Get, HoldPc
    <3>4. QED  BY <2>1, <3>2, <3>3 DEF Get, TypeOK
  <2>2. CASE GetShutdown(t)
    <3>1. [NewWorkQueue EXCEPT !.shutdown = TRUE] \in WorkQueue
      BY NewWorkQueueType DEF WorkQueue
    <3>2. wqs' \in [Terms -> WorkQueue]
      BY <2>2, <3>1 DEF GetShutdown, TypeOK
    <3>3. worker' \in [Terms -> Worker]
      BY <2>2, GotoType DEF GetShutdown, IdlePc
    <3>4. QED  BY <2>2, <3>2, <3>3 DEF GetShutdown, TypeOK
  <2>3. CASE ReadPayload(t)
    <3>1. worker[t].key \in Keys
      BY <2>3, WorkerKey DEF ReadPayload, IdlePc
    <3>2. wqs' \in [Terms -> WorkQueue]
      <4>1. WqForget(wqs[t], worker[t].key) \in WorkQueue
        BY <3>1, WqForgetType DEF TypeOK
      <4>2. \/ wqs' = wqs
            \/ wqs' = [wqs EXCEPT ![t] = WqForget(wqs[t], worker[t].key)]
        BY <2>3 DEF ReadPayload
      <4>3. QED  BY <4>1, <4>2, WqsUpdateType DEF TypeOK
    <3>3. worker' \in [Terms -> Worker]
      <4>1. CASE reqs[worker[t].key] # NoPending
        <5>1. reqs[worker[t].key] \in Pending
          BY <3>1, <4>1 DEF TypeOK
        <5>2. QED  BY <2>3, <3>1, <4>1, <5>1, GotoType DEF ReadPayload, MarkedPc
      <4>2. CASE reqs[worker[t].key] = NoPending
        BY <2>3, <3>1, <4>2, GotoType DEF ReadPayload, HoldPc
      <4>3. QED  BY <4>1, <4>2
    <3>4. QED  BY <2>3, <3>1, <3>2, <3>3 DEF ReadPayload, TypeOK
  <2>4. CASE Gate(t)
    <3>1. worker[t].key \in Keys
      BY <2>4, WorkerKey DEF Gate, IdlePc
    <3>2. wqs' \in [Terms -> WorkQueue]
      <4>1. /\ WqForget(wqs[t], worker[t].key) \in WorkQueue
            /\ WqAddRateLimited(wqs[t], worker[t].key) \in WorkQueue
        BY <3>1, WqForgetType, WqAddRateLimitedType DEF TypeOK
      <4>2. \/ wqs' = wqs
            \/ wqs' = [wqs EXCEPT ![t] = WqForget(wqs[t], worker[t].key)]
            \/ wqs' = [wqs EXCEPT ![t] = WqAddRateLimited(wqs[t], worker[t].key)]
        BY <2>4 DEF Gate
      <4>3. QED  BY <4>1, <4>2, WqsUpdateType DEF TypeOK
    <3>3. worker' \in [Terms -> Worker] /\ starts' \in Nat
      BY <2>4, StepToType DEF Gate, TypeOK, MarkedPc
    <3>4. QED  BY <2>4, <3>2, <3>3 DEF Gate, TypeOK
  <2>5. CASE Investigate(t)
    <3>1. worker[t].key \in Keys
      BY <2>5, WorkerKey DEF Investigate, IdlePc
    <3>2. wqs' \in [Terms -> WorkQueue]
      <4>1. /\ WqForget(wqs[t], worker[t].key) \in WorkQueue
            /\ WqAddRateLimited(wqs[t], worker[t].key) \in WorkQueue
        BY <3>1, WqForgetType, WqAddRateLimitedType DEF TypeOK
      <4>2. \/ wqs' = wqs
            \/ wqs' = [wqs EXCEPT ![t] = WqForget(wqs[t], worker[t].key)]
            \/ wqs' = [wqs EXCEPT ![t] = WqAddRateLimited(wqs[t], worker[t].key)]
        BY <2>5 DEF Investigate
      <4>3. QED  BY <4>1, <4>2, WqsUpdateType DEF TypeOK
    <3>3. worker' \in [Terms -> Worker]
      BY <2>5, StepToType DEF Investigate, MarkedPc
    <3>4. QED  BY <2>5, <3>2, <3>3 DEF Investigate, TypeOK
  <2>6. CASE Commit(t)
    <3>1. worker[t].key \in Keys
      BY <2>6, WorkerKey DEF Commit, IdlePc
    <3>2. reqs' \in [Keys -> Pending \cup {NoPending}] /\ byFP' \in [Fps -> Keys \cup {NoKey}]
      BY <2>6, <3>1, RemoveType DEF Commit, mayDelete, TypeOK
    <3>3. worker' \in [Terms -> Worker]
      BY <2>6, StepToType DEF Commit, MarkedPc
    <3>4. QED  BY <2>6, <3>2, <3>3 DEF Commit, TypeOK
  <2>7. CASE Drop(t)
    <3>1. worker[t].key \in Keys
      BY <2>7, WorkerKey DEF Drop, IdlePc
    <3>2. reqs' \in [Keys -> Pending \cup {NoPending}] /\ byFP' \in [Fps -> Keys \cup {NoKey}]
      BY <2>7, <3>1, RemoveType DEF Drop, TypeOK
    <3>3. worker' \in [Terms -> Worker]
      BY <2>7, StepToType DEF Drop, MarkedPc
    <3>4. QED  BY <2>7, <3>2, <3>3 DEF Drop, TypeOK
  <2>8. CASE Unmark(t)
    <3>1. worker' \in [Terms -> Worker]
      <4>1. worker[t].key \in Keys
        BY <2>8, WorkerKey DEF Unmark, IdlePc
      <4>2. QED  BY <2>8, <4>1, GotoType DEF Unmark, HoldPc
    <3>2. QED  BY <2>8, <3>1 DEF Unmark, TypeOK
  <2>9. CASE Done(t)
    <3>1. worker[t].key \in Keys
      BY <2>9, WorkerKey DEF Done, IdlePc
    <3>2. wqs' \in [Terms -> WorkQueue]
      BY <2>9, <3>1, WqDoneType DEF Done, TypeOK
    <3>3. worker' \in [Terms -> Worker]
      BY <2>9, GotoType DEF Done, IdlePc
    <3>4. QED  BY <2>9, <3>2, <3>3 DEF Done, TypeOK
  <2>10. QED
    BY <1>7, <2>1, <2>2, <2>3, <2>4, <2>5, <2>6, <2>7, <2>8, <2>9 DEF WorkerStep
<1>8. ASSUME Drain PROVE TypeOK'
  <2>1. \A t \in Terms : [wqs[t] EXCEPT !.shutdown = TRUE, !.waiting = {}] \in WorkQueue
    BY WqShutDownType DEF TypeOK
  <2>2. wqs' \in [Terms -> WorkQueue]
    BY <1>8, <2>1 DEF Drain, TypeOK
  <2>3. QED  BY <1>8, <2>2 DEF Drain, TypeOK
<1>9. ASSUME DrainReturn PROVE TypeOK'
  BY <1>9 DEF DrainReturn, TypeOK
<1>10. ASSUME NEW t \in Terms, NEW k \in Keys, DelayElapsed(t, k) PROVE TypeOK'
  <2>1. WqDelayOver(wqs[t], k) \in WorkQueue
    BY WqDelayOverType DEF TypeOK
  <2>2. wqs' \in [Terms -> WorkQueue]
    BY <1>10, <2>1 DEF DelayElapsed, TypeOK
  <2>3. QED  BY <1>10, <2>2 DEF DelayElapsed, TypeOK
<1>11. ASSUME WindowSlides PROVE TypeOK'
  BY <1>11 DEF WindowSlides, TypeOK
<1>12. CASE UNCHANGED vars
  BY <1>12 DEF vars, TypeOK
<1>13. QED
  BY <1>1, <1>2, <1>3, <1>4, <1>5, <1>6, <1>7, <1>8, <1>9, <1>10, <1>11, <1>12 DEF Next

\* Every variable keeps its type, in every behaviour and for every constant.
THEOREM TypeCorrect == Spec => []TypeOK
<1>1. QED  BY TypeInit, TypeNext, PTL DEF Spec

-----------------------------------------------------------------------------
(* The cancel index.  Only Enqueue, CancelByFingerprint, Commit and Drop     *)
(* touch reqs and byFP; the last three do so through removeLocked.           *)

PendingNotNone == \A x \in Pending : x # NoPending

\* The null payload is no payload.
LEMMA PendingIsSomething == PendingNotNone
BY QueueConstants DEF Pending, PendingNotNone

\* What the steps that leave payloads and index alone, or remove one payload, do.
LEMMA IndexSteps ==
    ASSUME TypeOK, [Next]_vars
    PROVE  \/ \E r \in Requests : Enqueue(r)
           \/ \E k \in Keys : reqs[k] # NoPending /\ removeLocked(k)
           \/ \E f \in Fps : /\ byFP[f] # NoKey /\ reqs[byFP[f]] = NoPending
                             /\ byFP' = [byFP EXCEPT ![f] = NoKey] /\ UNCHANGED reqs
           \/ UNCHANGED <<reqs, byFP>>
<1>1. ASSUME NEW f \in Fps, CancelByFingerprint(f)
      PROVE  \/ \E k \in Keys : reqs[k] # NoPending /\ removeLocked(k)
             \/ /\ byFP[f] # NoKey /\ reqs[byFP[f]] = NoPending
                /\ byFP' = [byFP EXCEPT ![f] = NoKey] /\ UNCHANGED reqs
  <2>1. byFP[f] \in Keys
    BY <1>1 DEF CancelByFingerprint, TypeOK
  <2>2. QED  BY <1>1, <2>1 DEF CancelByFingerprint
<1>2. ASSUME NEW t \in Terms, Commit(t) \/ Drop(t)
      PROVE  \/ \E k \in Keys : reqs[k] # NoPending /\ removeLocked(k)
             \/ UNCHANGED <<reqs, byFP>>
  <2>1. worker[t].key \in Keys
    BY <1>2, WorkerKey DEF Commit, Drop, IdlePc
  <2>2. QED  BY <1>2, <2>1 DEF Commit, Drop, mayDelete
<1>3. ASSUME NEW t \in Terms, WorkerStep(t), ~Commit(t), ~Drop(t)
      PROVE  UNCHANGED <<reqs, byFP>>
  BY <1>3 DEF WorkerStep, Get, GetShutdown, ReadPayload, Gate, Investigate, Unmark, Done
<1>4. ASSUME \/ \E a \in adds : EnqueueAdd(a)
             \/ StartTerm \/ Drain \/ DrainReturn \/ WindowSlides
             \/ \E t \in Terms : CancelContext(t) \/ ShutDown(t)
             \/ \E t \in Terms, k \in Keys : DelayElapsed(t, k)
             \/ UNCHANGED vars
      PROVE  UNCHANGED <<reqs, byFP>>
  BY <1>4 DEF EnqueueAdd, StartTerm, Drain, DrainReturn, WindowSlides, CancelContext,
              ShutDown, DelayElapsed, vars
<1>5. QED  BY <1>1, <1>2, <1>3, <1>4 DEF Next

\* Payloads are stored under their own key.
KeyedByPayload == \A k \in Keys : reqs[k] # NoPending => reqs[k].req.key = k

\* Every step keeps what is stored under its own key.
LEMMA KeyedNext == TypeOK /\ KeyedByPayload /\ [Next]_vars => KeyedByPayload'
<1> SUFFICES ASSUME TypeOK, KeyedByPayload, [Next]_vars PROVE KeyedByPayload'
  OBVIOUS
<1>1. ASSUME NEW r \in Requests, Enqueue(r) PROVE KeyedByPayload'
  BY <1>1, FingerprintType DEF Enqueue, TypeOK, KeyedByPayload
<1>2. ASSUME NEW k \in Keys, removeLocked(k) PROVE KeyedByPayload'
  BY <1>2 DEF removeLocked, TypeOK, KeyedByPayload
<1>3. ASSUME UNCHANGED reqs PROVE KeyedByPayload'
  BY <1>3 DEF KeyedByPayload
<1>4. QED  BY <1>1, <1>2, <1>3, IndexSteps

\* Every step keeps the index sound.
LEMMA IndexSoundNext == TypeOK /\ IndexSound /\ [Next]_vars => IndexSound'
<1> SUFFICES ASSUME TypeOK, IndexSound, [Next]_vars PROVE IndexSound'
  OBVIOUS
<1> USE PendingIsSomething DEF PendingNotNone
<1>1. ASSUME NEW r \in Requests, Enqueue(r) PROVE IndexSound'
  <2> DEFINE k == r.key
             idx == IF reqs[k] = NoPending THEN byFP ELSE unindexLocked(byFP, reqs[k].req, k)
  <2>1. /\ k \in Keys
        /\ reqs' = [reqs EXCEPT ![k] = [req |-> r, seq |-> seq + 1]]
        /\ byFP' = indexLocked(idx, r)
    BY <1>1, FingerprintType DEF Enqueue
  <2>2. [req |-> r, seq |-> seq + 1] \in Pending
    BY DEF TypeOK, Pending
  <2> SUFFICES ASSUME NEW f \in Fps, byFP'[f] # NoKey
               PROVE  /\ reqs'[byFP'[f]] # NoPending
                      /\ cancellableFingerprint(reqs'[byFP'[f]].req) = f
    BY DEF IndexSound
  <2>3. CASE f = cancellableFingerprint(r)
    <3>1. byFP'[f] = k
      BY <2>1, <2>3 DEF indexLocked
    <3>2. reqs'[k] = [req |-> r, seq |-> seq + 1]
      BY <2>1 DEF TypeOK
    <3>3. QED  BY <2>2, <2>3, <3>1, <3>2
  <2>4. CASE f # cancellableFingerprint(r)
    <3>1. byFP'[f] = idx[f]
      BY <2>1, <2>4 DEF indexLocked
    <3>2. idx[f] = byFP[f] /\ byFP[f] # k
      <4>1. CASE reqs[k] = NoPending
        BY <3>1, <4>1 DEF IndexSound
      <4>2. CASE reqs[k] # NoPending
        BY <3>1, <4>2 DEF IndexSound, unindexLocked
      <4>3. QED  BY <4>1, <4>2
    <3>3. byFP[f] \in Keys
      BY <3>1, <3>2 DEF TypeOK
    <3>4. reqs'[byFP[f]] = reqs[byFP[f]]
      BY <2>1, <3>2, <3>3 DEF TypeOK
    <3>5. QED  BY <3>1, <3>2, <3>4 DEF IndexSound
  <2>5. QED  BY <2>3, <2>4
<1>2. ASSUME NEW k \in Keys, reqs[k] # NoPending, removeLocked(k) PROVE IndexSound'
  <2> SUFFICES ASSUME NEW f \in Fps, byFP'[f] # NoKey
               PROVE  /\ reqs'[byFP'[f]] # NoPending
                      /\ cancellableFingerprint(reqs'[byFP'[f]].req) = f
    BY DEF IndexSound
  <2>1. byFP'[f] = byFP[f] /\ byFP[f] # k
    BY <1>2 DEF removeLocked, unindexLocked, IndexSound
  <2>2. byFP[f] \in Keys
    BY <2>1 DEF TypeOK
  <2>3. reqs'[byFP[f]] = reqs[byFP[f]]
    BY <1>2, <2>1, <2>2 DEF removeLocked, TypeOK
  <2>4. QED  BY <2>1, <2>3 DEF IndexSound
<1>3. ASSUME NEW f \in Fps, byFP' = [byFP EXCEPT ![f] = NoKey], UNCHANGED reqs PROVE IndexSound'
  BY <1>3 DEF IndexSound, TypeOK
<1>4. ASSUME UNCHANGED <<reqs, byFP>> PROVE IndexSound'
  BY <1>4 DEF IndexSound
<1>5. QED  BY <1>1, <1>2, <1>3, <1>4, IndexSteps

\* Every step keeps the index complete.
LEMMA IndexCompleteNext ==
    TypeOK /\ KeyedByPayload /\ IndexSound /\ IndexComplete /\ [Next]_vars => IndexComplete'
<1> SUFFICES ASSUME TypeOK, KeyedByPayload, IndexSound, IndexComplete, [Next]_vars, FpDeterminesKey,
                    NEW k \in Keys, reqs'[k] # NoPending,
                    cancellableFingerprint(reqs'[k].req) # NoFp
             PROVE  byFP'[cancellableFingerprint(reqs'[k].req)] = k
  BY DEF IndexComplete, FpDeterminesKey
<1> USE PendingIsSomething DEF PendingNotNone
<1>0. cancellableFingerprint(reqs'[k].req) \in Fps
  <2>1. reqs'[k].req \in Requests
    BY TypeNext DEF TypeOK, Pending
  <2>2. QED  BY <2>1, FingerprintType
<1>1. ASSUME NEW r \in Requests, Enqueue(r)
      PROVE  byFP'[cancellableFingerprint(reqs'[k].req)] = k
  <2> DEFINE idx == IF reqs[r.key] = NoPending THEN byFP
                    ELSE unindexLocked(byFP, reqs[r.key].req, r.key)
             f == cancellableFingerprint(reqs'[k].req)
  <2>1. /\ r.key \in Keys
        /\ reqs' = [reqs EXCEPT ![r.key] = [req |-> r, seq |-> seq + 1]]
        /\ byFP' = indexLocked(idx, r)
    BY <1>1, FingerprintType DEF Enqueue
  <2>2. CASE k = r.key
    <3>1. reqs'[k].req = r
      BY <2>1, <2>2 DEF TypeOK
    <3>2. QED  BY <1>0, <2>1, <2>2, <3>1 DEF indexLocked
  <2>3. CASE k # r.key
    <3>1. reqs'[k] = reqs[k]
      BY <2>1, <2>3 DEF TypeOK
    <3>2. byFP[f] = k
      BY <3>1 DEF IndexComplete
    <3>3. f # cancellableFingerprint(r)
      <4>1. reqs[k].req \in Requests /\ reqs[k].req.key = k
        BY <3>1 DEF TypeOK, Pending, KeyedByPayload
      <4>2. QED  BY <2>3, <3>1, <4>1 DEF FpDeterminesKey
    <3>4. idx[f] = byFP[f]
      BY <1>0, <2>3, <3>2 DEF unindexLocked
    <3>5. byFP'[f] = idx[f]
      BY <1>0, <2>1, <3>3 DEF indexLocked
    <3>6. QED  BY <3>2, <3>4, <3>5
  <2>4. QED  BY <2>2, <2>3
<1>2. ASSUME NEW j \in Keys, reqs[j] # NoPending, removeLocked(j)
      PROVE  byFP'[cancellableFingerprint(reqs'[k].req)] = k
  <2>1. k # j /\ reqs'[k] = reqs[k]
    BY <1>2 DEF removeLocked, TypeOK
  <2>2. byFP[cancellableFingerprint(reqs[k].req)] = k
    BY <2>1 DEF IndexComplete
  <2>3. QED  BY <1>0, <1>2, <2>1, <2>2 DEF removeLocked, unindexLocked
<1>3. ASSUME NEW f \in Fps, byFP[f] # NoKey, reqs[byFP[f]] = NoPending
      PROVE  FALSE
  BY <1>3 DEF IndexSound
<1>4. ASSUME UNCHANGED <<reqs, byFP>>
      PROVE  byFP'[cancellableFingerprint(reqs'[k].req)] = k
  BY <1>4 DEF IndexComplete
<1>5. QED  BY <1>1, <1>2, <1>3, <1>4, IndexSteps

\* The cancel index never outlives nor misdescribes a payload.
THEOREM IndexIsSound == Spec => []IndexSound
<1>1. Init => IndexSound
  BY DEF Init, IndexSound
<1>2. QED  BY <1>1, TypeCorrect, IndexSoundNext, PTL DEF Spec

\* Where fingerprints determine keys, every stored single-alert request is cancellable.
THEOREM IndexIsComplete == Spec => []IndexComplete
<1>1. Init => KeyedByPayload /\ IndexComplete
  BY DEF Init, KeyedByPayload, IndexComplete
<1>2. QED
  BY <1>1, TypeCorrect, KeyedNext, IndexIsSound, IndexCompleteNext, PTL DEF Spec

\* The cancel index is exact: Enqueue, unindexLocked and the removals keep it in step
\* with the stored payloads.
THEOREM IndexIsExact == Spec => []IndexExact
  BY IndexIsSound, IndexIsComplete, PTL DEF IndexExact

-----------------------------------------------------------------------------
(* In-flight marks.                                                        *)

\* Terms not started yet have no goroutine; the newest term's queue is Queue.wq
\* until its Run returns.
TermInv ==
    /\ \A t \in Terms : t > term => worker[t].pc = "absent"
    /\ term > 0 /\ worker[term].pc # "stopped" => wq = term

\* Every step keeps the facts about terms.
LEMMA TermNext == TypeOK /\ TermInv /\ [Next]_vars => TermInv'
<1> SUFFICES ASSUME TypeOK, TermInv, [Next]_vars PROVE TermInv'
  OBVIOUS
<1> USE QueueConstants DEF Terms
<1>1. ASSUME StartTerm PROVE TermInv'
  BY <1>1 DEF StartTerm, TermInv, TypeOK, Goto
<1>2. ASSUME NEW t \in Terms, WorkerStep(t) PROVE TermInv'
  <2>1. /\ \A u \in Terms \ {t} : worker'[u] = worker[u]
        /\ worker[t].pc # "absent" /\ worker[t].pc # "stopped"
    BY <1>2 DEF WorkerStep, Get, GetShutdown, ReadPayload, Gate, Investigate, Commit, Drop,
                Unmark, Done, StepTo, Goto, TypeOK
  <2>2. t <= term /\ term' = term
    BY <1>2, <2>1 DEF TermInv, TypeOK, WorkerStep, Get, GetShutdown, ReadPayload, Gate,
                      Investigate, Commit, Drop, Unmark, Done
  <2>3. CASE GetShutdown(t)
    BY <2>1, <2>2, <2>3 DEF GetShutdown, Goto, TermInv, TypeOK
  <2>4. CASE ~GetShutdown(t)
    <3>1. wq' = wq
      BY <1>2, <2>4 DEF WorkerStep, Get, ReadPayload, Gate, Investigate, Commit, Drop, Unmark, Done
    <3>2. QED  BY <2>1, <2>2, <3>1 DEF TermInv, TypeOK
  <2>5. QED  BY <2>3, <2>4
<1>3. ASSUME UNCHANGED <<worker, wq, term>> PROVE TermInv'
  BY <1>3 DEF TermInv
<1>4. QED
  BY <1>1, <1>2, <1>3 DEF Next, Enqueue, EnqueueAdd, CancelByFingerprint, CancelContext,
        ShutDown, Drain, DrainReturn, DelayElapsed, WindowSlides, vars

\* Every step keeps each in-flight mark with a running call.
LEMMA MarkNext == TypeOK /\ TermInv /\ NoLeakedMark /\ [Next]_vars => NoLeakedMark'
<1> SUFFICES ASSUME TypeOK, TermInv, NoLeakedMark, [Next]_vars, NEW k \in inflight'
             PROVE  \E t \in Terms : worker'[t].key = k /\ worker'[t].pc \in MarkedPc
  BY DEF NoLeakedMark
<1>1. ASSUME NEW t \in Terms, WorkerStep(t)
      PROVE  \E u \in Terms : worker'[u].key = k /\ worker'[u].pc \in MarkedPc
  <2>1. \A u \in Terms \ {t} : worker'[u] = worker[u]
    BY <1>1 DEF WorkerStep, Get, GetShutdown, ReadPayload, Gate, Investigate, Commit, Drop,
                Unmark, Done, StepTo, Goto, TypeOK
  <2>2. CASE ReadPayload(t) /\ k \notin inflight
    <3>1. worker'[t].key = k /\ worker'[t].pc = "gate"
      BY <2>2 DEF ReadPayload, Goto, TypeOK
    <3>2. QED  BY <3>1 DEF MarkedPc
  <2>3. CASE k \in inflight
    <3>1. PICK u \in Terms : worker[u].key = k /\ worker[u].pc \in MarkedPc
      BY <2>3 DEF NoLeakedMark
    <3>2. CASE u # t
      BY <2>1, <3>1, <3>2
    <3>3. CASE u = t
      <4>1. CASE Unmark(t)
        BY <3>1, <3>3, <4>1 DEF Unmark
      <4>2. CASE Gate(t) \/ Investigate(t) \/ Commit(t) \/ Drop(t)
        <5>1. worker'[t].key = k /\ worker'[t].pc \in MarkedPc
          BY <3>1, <3>3, <4>2 DEF Gate, Investigate, Commit, Drop, StepTo, Goto, TypeOK, MarkedPc
        <5>2. QED  BY <5>1
      <4>3. CASE Get(t) \/ GetShutdown(t) \/ ReadPayload(t) \/ Done(t)
        BY <3>1, <3>3, <4>3 DEF Get, GetShutdown, ReadPayload, Done, MarkedPc
      <4>4. QED  BY <1>1, <4>1, <4>2, <4>3 DEF WorkerStep
    <3>4. QED  BY <3>2, <3>3
  <2>4. QED
    BY <1>1, <2>2, <2>3 DEF WorkerStep, Get, GetShutdown, ReadPayload, Gate, Investigate,
                            Commit, Drop, Unmark, Done
<1>2. ASSUME StartTerm
      PROVE  \E u \in Terms : worker'[u].key = k /\ worker'[u].pc \in MarkedPc
  <2>1. PICK u \in Terms : worker[u].key = k /\ worker[u].pc \in MarkedPc
    BY <1>2 DEF StartTerm, NoLeakedMark
  <2>2. u # term + 1
    BY <2>1 DEF TermInv, TypeOK, MarkedPc, Terms
  <2>3. worker'[u] = worker[u]
    BY <1>2, <2>2 DEF StartTerm, Goto, TypeOK
  <2>4. QED  BY <2>1, <2>3
<1>3. ASSUME UNCHANGED <<inflight, worker>>
      PROVE  \E u \in Terms : worker'[u].key = k /\ worker'[u].pc \in MarkedPc
  BY <1>3 DEF NoLeakedMark
<1>4. QED
  BY <1>1, <1>2, <1>3 DEF Next, Enqueue, EnqueueAdd, CancelByFingerprint, CancelContext,
        ShutDown, Drain, DrainReturn, DelayElapsed, WindowSlides, vars

\* An in-flight mark never outlives the process call that set it.
THEOREM MarksDoNotLeak == Spec => []NoLeakedMark
<1>1. Init => TermInv /\ NoLeakedMark
  BY DEF Init, TermInv, NoLeakedMark, NoWorker
<1>2. QED  BY <1>1, TypeCorrect, TermNext, MarkNext, PTL DEF Spec

-----------------------------------------------------------------------------
(* No stored request is stranded.                                          *)

\* A step that leaves the newest term's queue and goroutine alone, and at most
\* removes payloads, strands nothing.
LEMMA StrandsNothing ==
    ASSUME TypeOK, NoRequestStranded, adds \subseteq adds', term' = term,
           term > 0 => worker'[term] = worker[term] /\ wqs'[term] = wqs[term],
           \A k \in Keys : reqs'[k] # NoPending => reqs'[k] = reqs[k]
    PROVE  NoRequestStranded'
<1> SUFFICES ASSUME Serving', NEW k \in Keys, reqs'[k] # NoPending PROVE Attended(term, k)'
  BY DEF NoRequestStranded
<1>1. Attended(term, k)
  BY DEF NoRequestStranded, Serving
<1>2. QED  BY <1>1 DEF Attended, Serving

\* Whatever attends to a key keeps doing so when its queue only gains entries.
LEMMA AddAttends ==
    ASSUME NEW w \in WorkQueue, NEW k \in Keys
    PROVE  /\ WqAdd(w, k).shutdown = w.shutdown
           /\ WqAdd(w, k).waiting = w.waiting
           /\ w.dirty \subseteq WqAdd(w, k).dirty
           /\ ~w.shutdown => k \in WqAdd(w, k).dirty
BY DEF WqAdd, WorkQueue

\* What finishing an item does to the parts of the work queue that attend to keys.
LEMMA ProcessQueueFields ==
    ASSUME NEW w \in WorkQueue, NEW k \in Keys
    PROVE  /\ WqForget(w, k).shutdown = w.shutdown /\ WqForget(w, k).dirty = w.dirty
           /\ WqForget(w, k).waiting = w.waiting
           /\ WqDone(w, k).shutdown = w.shutdown /\ WqDone(w, k).dirty = w.dirty
           /\ WqDone(w, k).waiting = w.waiting
           /\ WqAddRateLimited(w, k).shutdown = w.shutdown
           /\ WqAddRateLimited(w, k).dirty = w.dirty
           /\ w.waiting \subseteq WqAddRateLimited(w, k).waiting
           /\ ~w.shutdown => k \in WqAddRateLimited(w, k).waiting
BY DEF WqForget, WqDone, WqAddRateLimited, WorkQueue

\* The end of a delay moves the key from waiting to dirty, unless the queue shut down.
LEMMA DelayOverFields ==
    ASSUME NEW w \in WorkQueue, NEW k \in Keys
    PROVE  /\ WqDelayOver(w, k).shutdown = w.shutdown
           /\ w.dirty \subseteq WqDelayOver(w, k).dirty
           /\ WqDelayOver(w, k).waiting = w.waiting \ {k}
           /\ ~w.shutdown => k \in WqDelayOver(w, k).dirty
<1>1. WqAdd(w, k) \in WorkQueue
  BY WqAddType
<1>2. QED  BY <1>1, AddAttends DEF WqDelayOver, WorkQueue

\* Every step keeps each stored request attended.
LEMMA StrandedNext == TypeOK /\ TermInv /\ NoRequestStranded /\ [Next]_vars => NoRequestStranded'
<1> SUFFICES ASSUME TypeOK, TermInv, NoRequestStranded, [Next]_vars PROVE NoRequestStranded'
  OBVIOUS
<1> USE QueueConstants DEF Terms
<1>0. term > 0 => /\ term \in Terms /\ wqs[term] \in WorkQueue
  BY DEF TypeOK
<1>1. ASSUME NEW r \in Requests, Enqueue(r) PROVE NoRequestStranded'
  <2> SUFFICES ASSUME Serving', NEW k \in Keys, reqs'[k] # NoPending PROVE Attended(term, k)'
    BY DEF NoRequestStranded
  <2>1. Serving /\ term' = term /\ wqs' = wqs /\ worker' = worker /\ adds \subseteq adds'
    BY <1>1 DEF Enqueue, Serving
  <2>2. CASE k = r.key
    <3>1. wq = term /\ wq # 0
      BY <2>1 DEF Serving, TermInv, TypeOK
    <3>2. [term |-> term, key |-> k, seq |-> seq + 1] \in adds'
      BY <1>1, <2>2, <3>1 DEF Enqueue
    <3>3. QED  BY <2>1, <3>2 DEF Attended
  <2>3. CASE k # r.key
    <3>1. reqs'[k] = reqs[k]
      BY <1>1, <2>3 DEF Enqueue, TypeOK
    <3>2. Attended(term, k)
      BY <2>1, <3>1 DEF NoRequestStranded
    <3>3. QED  BY <2>1, <3>1, <3>2 DEF Attended
  <2>4. QED  BY <2>2, <2>3
<1>2. ASSUME NEW a \in adds, EnqueueAdd(a) PROVE NoRequestStranded'
  <2> SUFFICES ASSUME Serving', NEW k \in Keys, reqs'[k] # NoPending PROVE Attended(term, k)'
    BY DEF NoRequestStranded
  <2>1. /\ term' = term /\ worker' = worker /\ reqs' = reqs /\ adds' = adds \ {a} /\ term > 0
        /\ a.term \in Terms /\ a.key \in Keys
    BY <1>2 DEF EnqueueAdd, Serving, TypeOK
  <2>2. wqs'[term] = IF a.term = term THEN WqAdd(wqs[term], a.key) ELSE wqs[term]
    BY <1>0, <1>2, <2>1 DEF EnqueueAdd, TypeOK
  <2>3. /\ wqs'[term].shutdown = wqs[term].shutdown /\ wqs'[term].waiting = wqs[term].waiting
        /\ wqs[term].dirty \subseteq wqs'[term].dirty
    BY <1>0, <2>1, <2>2, AddAttends
  <2>4. Serving
    BY <2>1, <2>3 DEF Serving
  <2>5. Attended(term, k)
    BY <2>1, <2>4 DEF NoRequestStranded
  <2>6. CASE a.term = term /\ a.key = k
    <3>1. k \in wqs'[term].dirty
      BY <1>0, <2>1, <2>2, <2>4, <2>6, AddAttends DEF Serving
    <3>2. QED  BY <2>1, <3>1 DEF Attended
  <2>7. CASE ~(a.term = term /\ a.key = k)
    BY <2>1, <2>3, <2>5, <2>7 DEF Attended
  <2>8. QED  BY <2>6, <2>7
<1>3. ASSUME NEW f \in Fps, CancelByFingerprint(f) PROVE NoRequestStranded'
  <2>1. byFP[f] \in Keys
    BY <1>3 DEF CancelByFingerprint, TypeOK
  <2>2. \A k \in Keys : reqs'[k] # NoPending => reqs'[k] = reqs[k]
    BY <1>3, <2>1 DEF CancelByFingerprint, removeLocked, TypeOK
  <2>3. QED  BY <1>3, <2>2, StrandsNothing DEF CancelByFingerprint
<1>4. ASSUME StartTerm PROVE NoRequestStranded'
  <2> DEFINE stored == {k \in Keys : reqs[k] # NoPending}
  <2>1. PICK order \in Orders(stored) :
          wqs' = [wqs EXCEPT ![term + 1] = [NewWorkQueue EXCEPT !.queue = order, !.dirty = stored]]
    BY <1>4 DEF StartTerm
  <2>2. term + 1 \in Terms /\ term' = term + 1 /\ reqs' = reqs
    BY <1>4 DEF StartTerm, TypeOK
  <2>3. wqs'[term'].dirty = stored
    <3> HIDE DEF stored
    <3>1. wqs'[term'] = [NewWorkQueue EXCEPT !.queue = order, !.dirty = stored]
      BY <2>1, <2>2 DEF TypeOK
    <3>2. QED  BY <3>1 DEF NewWorkQueue
  <2>4. QED  BY <2>2, <2>3 DEF NoRequestStranded, Attended
<1>5. ASSUME NEW t \in Terms, ShutDown(t) PROVE NoRequestStranded'
  <2>1. CASE t = term
    BY <1>5, <2>1 DEF ShutDown, TypeOK, NoRequestStranded, Serving, WorkQueue
  <2>2. CASE t # term
    <3>1. term > 0 => wqs'[term] = wqs[term]
      BY <1>0, <1>5, <2>2 DEF ShutDown, TypeOK
    <3>2. QED  BY <1>5, <3>1, StrandsNothing DEF ShutDown
  <2>3. QED  BY <2>1, <2>2
<1>6. ASSUME Drain PROVE NoRequestStranded'
  <2> SUFFICES ASSUME Serving' PROVE FALSE
    BY DEF NoRequestStranded
  <2>1. term \in Terms /\ term' = term /\ worker' = worker
    BY <1>0, <1>6 DEF Drain, Serving
  <2>2. wq = term
    BY <2>1 DEF TermInv, Serving, TypeOK
  <2>3. wqs'[term] = [wqs[term] EXCEPT !.shutdown = TRUE, !.waiting = {}]
    BY <1>6, <2>1, <2>2 DEF Drain
  <2>4. wqs'[term].shutdown
    BY <1>0, <2>1, <2>3 DEF WorkQueue
  <2>5. QED  BY <2>1, <2>4 DEF Serving
<1>7. ASSUME NEW t \in Terms, NEW j \in Keys, DelayElapsed(t, j) PROVE NoRequestStranded'
  <2>1. CASE t # term
    <3>1. term > 0 => wqs'[term] = wqs[term]
      BY <1>0, <1>7, <2>1 DEF DelayElapsed, TypeOK
    <3>2. QED  BY <1>7, <3>1, StrandsNothing DEF DelayElapsed
  <2>2. CASE t = term
    <3> SUFFICES ASSUME Serving', NEW k \in Keys, reqs'[k] # NoPending PROVE Attended(term, k)'
      BY DEF NoRequestStranded
    <3>1. /\ term' = term /\ worker' = worker /\ reqs' = reqs /\ adds' = adds
          /\ wqs'[term] = WqDelayOver(wqs[term], j)
      BY <1>7, <2>2 DEF DelayElapsed, TypeOK
    <3>2. Serving /\ Attended(term, k)
      BY <1>0, <2>2, <3>1, DelayOverFields DEF Serving, NoRequestStranded
    <3>3. QED  BY <1>0, <2>2, <3>1, <3>2, DelayOverFields DEF Serving, Attended
  <2>3. QED  BY <2>1, <2>2
<1>8. ASSUME NEW t \in Terms, WorkerStep(t) PROVE NoRequestStranded'
  <2>0. /\ term' = term /\ adds' = adds
        /\ \A k \in Keys : reqs'[k] # NoPending => reqs'[k] = reqs[k]
    <3>1. CASE Commit(t) \/ Drop(t)
      BY <3>1 DEF Commit, Drop, removeLocked, TypeOK
    <3>2. CASE ~(Commit(t) \/ Drop(t))
      BY <1>8, <3>2 DEF WorkerStep, Get, GetShutdown, ReadPayload, Gate, Investigate, Unmark, Done
    <3>3. QED  BY <1>8, <3>1, <3>2 DEF WorkerStep, Commit, Drop
  <2>1. CASE t # term
    <3>1. term > 0 => worker'[term] = worker[term] /\ wqs'[term] = wqs[term]
      BY <1>0, <1>8, <2>1 DEF WorkerStep, Get, GetShutdown, ReadPayload, Gate, Investigate, Commit,
                              Drop, Unmark, Done, StepTo, Goto, TypeOK
    <3>2. QED  BY <2>0, <3>1, StrandsNothing
  <2>2. CASE t = term
    <3> SUFFICES ASSUME Serving', NEW k \in Keys, reqs'[k] # NoPending PROVE Attended(term, k)'
      BY DEF NoRequestStranded
    <3> DEFINE j == worker[term].key
               w == wqs[term]
    <3>0. /\ reqs'[k] = reqs[k] /\ term > 0 /\ w \in WorkQueue
          /\ (Serving => Attended(term, k))
      BY <1>0, <2>0 DEF Serving, NoRequestStranded
    <3>1. CASE Get(t)
      <4>1. /\ worker[term].pc = "get" /\ w.queue # <<>>
            /\ wqs'[term] = WqGet(w)
            /\ worker'[term] = [pc |-> "read", key |-> Head(w.queue), p |-> NoPending]
        BY <2>2, <3>1 DEF Get, Goto, TypeOK
      <4>2. /\ WqGet(w).dirty = w.dirty \ {Head(w.queue)}
            /\ WqGet(w).waiting = w.waiting /\ WqGet(w).shutdown = w.shutdown
        BY <3>0 DEF WqGet, WorkQueue
      <4>3. Attended(term, k)
        BY <2>0, <3>0, <4>1, <4>2 DEF Serving
      <4>4. QED  BY <2>0, <4>1, <4>2, <4>3 DEF Attended
    <3>2. CASE GetShutdown(t)
      BY <2>0, <2>2, <3>2 DEF GetShutdown, Goto, Serving, TypeOK
    <3>3. CASE ReadPayload(t)
      <4>0. worker[term].pc = "read" /\ j \in Keys
        BY <2>2, <3>3, WorkerKey DEF ReadPayload, IdlePc
      <4>1. /\ wqs'[term].dirty = w.dirty /\ wqs'[term].waiting = w.waiting
            /\ wqs'[term].shutdown = w.shutdown
        BY <2>2, <3>0, <3>3, <4>0, ProcessQueueFields DEF ReadPayload, TypeOK
      <4>2. Attended(term, k)
        BY <2>0, <3>0, <4>0, <4>1 DEF Serving
      <4>3. CASE k = j
        <5>1. worker'[term] = [pc |-> "gate", key |-> k, p |-> reqs[k]]
          BY <2>2, <3>0, <3>3, <4>3 DEF ReadPayload, Goto, TypeOK
        <5>2. QED  BY <2>0, <3>0, <5>1 DEF Attended
      <4>4. CASE k # j
        BY <2>0, <4>1, <4>2, <4>4 DEF Attended
      <4>5. QED  BY <4>3, <4>4
    <3>4. CASE Gate(t) \/ Investigate(t)
      <4>0. worker[term].pc \in {"gate", "run"} /\ j \in Keys
        BY <2>2, <3>4, WorkerKey DEF Gate, Investigate, IdlePc
      <4>1. /\ wqs'[term].dirty = w.dirty /\ w.waiting \subseteq wqs'[term].waiting
            /\ wqs'[term].shutdown = w.shutdown
        BY <2>2, <3>0, <3>4, <4>0, ProcessQueueFields DEF Gate, Investigate, TypeOK
      <4>2. Serving /\ Attended(term, k)
        BY <2>0, <3>0, <4>0, <4>1 DEF Serving
      <4>3. /\ worker'[term].key = j /\ worker'[term].p = worker[term].p
            /\ \/ worker'[term].pc \in {"run", "commit", "drop"}
               \/ worker'[term].pc = "unmark" /\ wqs'[term] = WqAddRateLimited(w, j)
        BY <2>2, <3>4 DEF Gate, Investigate, StepTo, Goto, TypeOK
      <4>4. worker'[term].pc = "unmark" => j \in wqs'[term].waiting
        BY <3>0, <4>0, <4>2, <4>3, ProcessQueueFields DEF Serving
      <4>5. QED  BY <2>0, <3>0, <4>0, <4>1, <4>2, <4>3, <4>4 DEF Attended
    <3>5. CASE Commit(t) \/ Drop(t)
      <4>0. /\ worker[term].pc \in {"commit", "drop"} /\ j \in Keys /\ wqs' = wqs
            /\ worker'[term].pc = "unmark"
        <5>1. CASE Commit(t)
          BY <2>2, <5>1, WorkerKey DEF Commit, IdlePc, StepTo, Goto, TypeOK
        <5>2. CASE Drop(t)
          BY <2>2, <5>2, WorkerKey DEF Drop, IdlePc, StepTo, Goto, TypeOK
        <5>3. QED  BY <3>5, <5>1, <5>2
      <4>1. Attended(term, k)
        BY <2>0, <3>0, <4>0 DEF Serving
      <4>2. ~(k = j /\ (worker[term].pc = "drop" \/ worker[term].p = reqs[k]))
        BY <2>2, <3>0, <3>5, <4>0 DEF Commit, Drop, mayDelete, removeLocked, TypeOK
      <4>3. QED  BY <2>0, <3>0, <4>0, <4>1, <4>2 DEF Attended
    <3>6. CASE Unmark(t)
      <4>0. /\ worker[term].pc = "unmark" /\ wqs' = wqs /\ worker'[term].pc = "done"
            /\ worker'[term].key = j
        BY <2>2, <3>6 DEF Unmark, Goto, TypeOK
      <4>1. Attended(term, k)
        BY <2>0, <3>0, <4>0 DEF Serving
      <4>2. QED  BY <2>0, <3>0, <4>0, <4>1 DEF Attended
    <3>7. CASE Done(t)
      <4>0. /\ worker[term].pc = "done" /\ j \in Keys /\ worker'[term].pc = "get"
            /\ wqs'[term] = WqDone(w, j)
        BY <2>2, <3>7, WorkerKey DEF Done, IdlePc, Goto, TypeOK
      <4>1. Attended(term, k)
        BY <2>0, <3>0, <4>0, ProcessQueueFields DEF Serving
      <4>2. QED  BY <2>0, <3>0, <4>0, <4>1, ProcessQueueFields DEF Attended
    <3>8. QED
      BY <1>8, <2>2, <3>1, <3>2, <3>3, <3>4, <3>5, <3>6, <3>7 DEF WorkerStep
  <2>3. QED  BY <2>1, <2>2
<1>9. ASSUME UNCHANGED <<reqs, adds, wqs, worker, term>> PROVE NoRequestStranded'
  BY <1>9, StrandsNothing
<1>10. QED
  BY <1>1, <1>2, <1>3, <1>4, <1>5, <1>6, <1>7, <1>8, <1>9
     DEF Next, CancelContext, DrainReturn, WindowSlides, vars

\* While a term serves, every stored request is going to surface in its queue.
THEOREM NothingStranded == Spec => []NoRequestStranded
<1>1. Init => TermInv /\ NoRequestStranded
  BY DEF Init, TermInv, NoRequestStranded, Serving, NoWorker
<1>2. QED  BY <1>1, TypeCorrect, TermNext, StrandedNext, PTL DEF Spec

-----------------------------------------------------------------------------
(* How a payload leaves the queue.                                         *)

\* A sequence number is given to one payload only.
SeqInv ==
    /\ \A k \in Keys : reqs[k] # NoPending => reqs[k].seq <= seq
    /\ \A t \in Terms : worker[t].pc \in MarkedPc =>
          /\ worker[t].p.seq <= seq
          /\ reqs[worker[t].key] # NoPending /\ reqs[worker[t].key].seq = worker[t].p.seq
                => worker[t].p = reqs[worker[t].key]

\* Every step keeps the facts about sequence numbers.
LEMMA SeqNext == TypeOK /\ SeqInv /\ [Next]_vars => SeqInv'
<1> SUFFICES ASSUME TypeOK, SeqInv, [Next]_vars PROVE SeqInv'
  OBVIOUS
<1>1. ASSUME NEW r \in Requests, Enqueue(r) PROVE SeqInv'
  <2>1. /\ seq' = seq + 1 /\ worker' = worker /\ r.key \in Keys
        /\ reqs' = [reqs EXCEPT ![r.key] = [req |-> r, seq |-> seq + 1]]
    BY <1>1, FingerprintType DEF Enqueue
  <2>2. ASSUME NEW k \in Keys, reqs'[k] # NoPending
        PROVE  reqs'[k].seq <= seq' /\ (reqs'[k].seq = seq' \/ reqs'[k] = reqs[k])
    <3>1. CASE k = r.key
      BY <2>1, <3>1 DEF TypeOK
    <3>2. CASE k # r.key
      <4>1. reqs'[k] = reqs[k] /\ reqs[k].seq \in Nat
        BY <2>1, <2>2, <3>2 DEF TypeOK, Pending
      <4>2. QED  BY <2>1, <2>2, <4>1 DEF SeqInv, TypeOK
    <3>3. QED  BY <3>1, <3>2
  <2>3. ASSUME NEW t \in Terms, worker[t].pc \in MarkedPc
        PROVE  worker[t].key \in Keys /\ worker[t].p.seq <= seq /\ worker[t].p.seq \in Nat
    BY <2>3, WorkerKey DEF SeqInv, IdlePc, MarkedPc, Pending
  <2>4. QED  BY <2>1, <2>2, <2>3 DEF SeqInv, TypeOK
<1>2. ASSUME NEW k \in Keys, removeLocked(k), seq' = seq,
             \A t \in Terms : worker'[t].pc \in MarkedPc =>
                worker[t].pc \in MarkedPc /\ worker'[t].p = worker[t].p /\ worker'[t].key = worker[t].key
      PROVE  SeqInv'
  <2>1. \A j \in Keys : reqs'[j] # NoPending => reqs'[j] = reqs[j]
    BY <1>2 DEF removeLocked, TypeOK
  <2>2. ASSUME NEW t \in Terms, worker[t].pc \in MarkedPc PROVE worker[t].key \in Keys
    BY <2>2, WorkerKey DEF IdlePc, MarkedPc
  <2>3. QED  BY <1>2, <2>1, <2>2 DEF SeqInv
<1>3. ASSUME UNCHANGED <<reqs, seq>>,
             \A t \in Terms : worker'[t].pc \in MarkedPc =>
                \/ worker[t].pc \in MarkedPc /\ worker'[t].p = worker[t].p /\ worker'[t].key = worker[t].key
                \/ worker'[t].key \in Keys /\ worker'[t].p = reqs[worker'[t].key]
                   /\ reqs[worker'[t].key] # NoPending
      PROVE  SeqInv'
  BY <1>3 DEF SeqInv
<1>4. ASSUME NEW t \in Terms, WorkerStep(t) PROVE SeqInv'
  <2>1. \A u \in Terms \ {t} : worker'[u] = worker[u]
    BY <1>4 DEF WorkerStep, Get, GetShutdown, ReadPayload, Gate, Investigate, Commit, Drop,
                Unmark, Done, StepTo, Goto, TypeOK
  <2>2. CASE Commit(t) \/ Drop(t)
    <3>1. worker[t].key \in Keys /\ seq' = seq
      BY <2>2, WorkerKey DEF Commit, Drop, IdlePc
    <3>2. /\ worker[t].pc \in MarkedPc
          /\ worker'[t].p = worker[t].p /\ worker'[t].key = worker[t].key
      BY <2>2 DEF Commit, Drop, StepTo, Goto, TypeOK, MarkedPc
    <3>3. CASE UNCHANGED reqs
      BY <1>3, <2>1, <3>1, <3>2, <3>3
    <3>4. CASE removeLocked(worker[t].key)
      BY <1>2, <2>1, <3>1, <3>2, <3>4
    <3>5. QED  BY <2>2, <3>3, <3>4 DEF Commit, Drop
  <2>3. CASE ReadPayload(t)
    <3>1. worker[t].key \in Keys
      BY <2>3, WorkerKey DEF ReadPayload, IdlePc
    <3>2. worker'[t].pc \in MarkedPc => /\ worker'[t].key \in Keys
                                        /\ worker'[t].p = reqs[worker'[t].key]
                                        /\ reqs[worker'[t].key] # NoPending
      BY <2>3, <3>1 DEF ReadPayload, Goto, TypeOK, MarkedPc
    <3>3. QED  BY <1>3, <2>1, <2>3, <3>2 DEF ReadPayload
  <2>4. CASE Gate(t) \/ Investigate(t)
    <3>1. /\ worker[t].pc \in MarkedPc
          /\ worker'[t].p = worker[t].p /\ worker'[t].key = worker[t].key
      BY <2>4 DEF Gate, Investigate, StepTo, Goto, TypeOK, MarkedPc
    <3>2. QED  BY <1>3, <2>1, <2>4, <3>1 DEF Gate, Investigate
  <2>5. CASE Get(t) \/ GetShutdown(t) \/ Unmark(t) \/ Done(t)
    <3>1. worker'[t].pc \notin MarkedPc
      BY <2>5 DEF Get, GetShutdown, Unmark, Done, Goto, TypeOK, MarkedPc
    <3>2. QED  BY <1>3, <2>1, <2>5, <3>1 DEF Get, GetShutdown, Unmark, Done
  <2>6. QED  BY <1>4, <2>2, <2>3, <2>4, <2>5 DEF WorkerStep
<1>5. ASSUME NEW f \in Fps, CancelByFingerprint(f) PROVE SeqInv'
  <2>1. byFP[f] \in Keys /\ worker' = worker /\ seq' = seq
    BY <1>5 DEF CancelByFingerprint, TypeOK
  <2>2. UNCHANGED reqs \/ removeLocked(byFP[f])
    BY <1>5 DEF CancelByFingerprint
  <2>3. QED  BY <1>2, <1>3, <2>1, <2>2
<1>6. ASSUME StartTerm PROVE SeqInv'
  <2>1. \A t \in Terms : worker'[t].pc \in MarkedPc => worker'[t] = worker[t]
    BY <1>6 DEF StartTerm, Goto, TypeOK, MarkedPc
  <2>2. QED  BY <1>3, <1>6, <2>1 DEF StartTerm
<1>7. ASSUME UNCHANGED <<reqs, seq, worker>> PROVE SeqInv'
  BY <1>3, <1>7
<1>8. QED
  BY <1>1, <1>4, <1>5, <1>6, <1>7 DEF Next, EnqueueAdd, CancelContext, ShutDown, Drain,
     DrainReturn, DelayElapsed, WindowSlides, vars

\* A payload disappears only by its own success, a drop, or its own cancellation.
THEOREM RemovalIsAccounted == Spec => RemovalAccounted
<1> DEFINE A == \A k \in Keys : reqs[k] # NoPending /\ reqs'[k] = NoPending =>
                  \/ \E t \in Terms : worker[t].key = k /\ worker[t].pc = "drop"
                  \/ \E t \in Terms : worker[t].key = k /\ worker[t].pc = "commit" /\ worker[t].p = reqs[k]
                  \/ /\ k \notin inflight
                     /\ ~(Cardinality(reqs[k].req.fps) > 1)
                     /\ reqs[k].req.fp # NoFp
<1>1. TypeOK /\ IndexSound /\ SeqInv /\ [Next]_vars => A
  <2> SUFFICES ASSUME TypeOK, IndexSound, SeqInv, [Next]_vars,
                      NEW k \in Keys, reqs[k] # NoPending, reqs'[k] = NoPending
               PROVE  \/ \E t \in Terms : worker[t].key = k /\ worker[t].pc = "drop"
                      \/ \E t \in Terms : worker[t].key = k /\ worker[t].pc = "commit" /\ worker[t].p = reqs[k]
                      \/ /\ k \notin inflight
                         /\ ~(Cardinality(reqs[k].req.fps) > 1)
                         /\ reqs[k].req.fp # NoFp
    OBVIOUS
  <2>1. reqs[k].req \in Requests
    BY DEF TypeOK, Pending
  <2>2. ASSUME NEW f \in Fps, CancelByFingerprint(f)
        PROVE  /\ k \notin inflight
               /\ ~(Cardinality(reqs[k].req.fps) > 1) /\ reqs[k].req.fp # NoFp
    <3>1. byFP[f] = k
      BY <2>2 DEF CancelByFingerprint, removeLocked, TypeOK
    <3>2. cancellableFingerprint(reqs[k].req) # NoFp
      BY <3>1, QueueConstants DEF IndexSound
    <3>3. QED  BY <2>1, <2>2, <3>1, <3>2, FingerprintType DEF CancelByFingerprint
  <2>3. ASSUME NEW t \in Terms, Commit(t)
        PROVE  worker[t].key = k /\ worker[t].pc = "commit" /\ worker[t].p = reqs[k]
    <3>1. worker[t].key = k /\ worker[t].pc = "commit" /\ reqs[k].seq = worker[t].p.seq
      BY <2>3 DEF Commit, mayDelete, removeLocked, TypeOK
    <3>2. QED  BY <3>1 DEF SeqInv, MarkedPc
  <2>4. ASSUME NEW t \in Terms, Drop(t)
        PROVE  worker[t].key = k /\ worker[t].pc = "drop"
    BY <2>4 DEF Drop, removeLocked, TypeOK
  <2>5. \/ \E f \in Fps : CancelByFingerprint(f)
        \/ \E t \in Terms : Commit(t) \/ Drop(t)
    <3>1. ASSUME NEW r \in Requests, Enqueue(r) PROVE FALSE
      <4>1. [req |-> r, seq |-> seq + 1] \in Pending
        BY DEF TypeOK, Pending
      <4>2. QED  BY <3>1, <4>1, PendingIsSomething DEF Enqueue, TypeOK, PendingNotNone
    <3>2. ASSUME UNCHANGED reqs PROVE FALSE
      BY <3>2
    <3>3. QED
      BY <3>1, <3>2 DEF Next, vars, EnqueueAdd, StartTerm, CancelContext, ShutDown, WorkerStep, Get,
         GetShutdown, ReadPayload, Gate, Investigate, Unmark, Done, Drain, DrainReturn, DelayElapsed,
         WindowSlides
  <2>6. QED  BY <2>2, <2>3, <2>4, <2>5
<1>2. Init => SeqInv
  BY DEF Init, SeqInv, NoWorker, MarkedPc
<1>3. TypeOK /\ IndexSound /\ SeqInv /\ [Next]_vars => [A]_vars
  BY <1>1
<1>4. QED
  BY <1>2, <1>3, TypeCorrect, IndexIsSound, SeqNext, PTL DEF Spec, RemovalAccounted

-----------------------------------------------------------------------------
(* No two investigations of one key.                                       *)

\* The payload a worker holds is marked in flight.
Marked == \A t \in Terms : worker[t].pc \in MarkedPc => worker[t].key \in inflight

\* No two process calls hold a payload of one key: the workers of two overlapping
\* terms may, and then the first to finish takes the one mark both rely on.
NoSharedKey ==
    \A t, u \in Terms :
        worker[t].pc \in MarkedPc /\ worker[u].pc \in MarkedPc /\ worker[t].key = worker[u].key => t = u

\* While no key is shared, every step keeps the marks.
LEMMA MarkedNext == TypeOK /\ Marked /\ NoSharedKey /\ [Next]_vars => Marked'
<1> SUFFICES ASSUME TypeOK, Marked, NoSharedKey, [Next]_vars,
                    NEW u \in Terms, worker'[u].pc \in MarkedPc
             PROVE  worker'[u].key \in inflight'
  BY DEF Marked
<1>1. ASSUME NEW t \in Terms, WorkerStep(t) PROVE worker'[u].key \in inflight'
  <2>1. CASE u = t
    <3>1. CASE ReadPayload(t)
      BY <2>1, <3>1 DEF ReadPayload, Goto, TypeOK, MarkedPc
    <3>2. CASE Gate(t) \/ Investigate(t) \/ Commit(t) \/ Drop(t)
      <4>1. worker[t].pc \in MarkedPc /\ worker'[t].key = worker[t].key /\ inflight' = inflight
        BY <3>2 DEF Gate, Investigate, Commit, Drop, StepTo, Goto, TypeOK, MarkedPc
      <4>2. QED  BY <2>1, <4>1 DEF Marked
    <3>3. CASE Get(t) \/ GetShutdown(t) \/ Unmark(t) \/ Done(t)
      BY <2>1, <3>3 DEF Get, GetShutdown, Unmark, Done, Goto, TypeOK, MarkedPc
    <3>4. QED  BY <1>1, <3>1, <3>2, <3>3 DEF WorkerStep
  <2>2. CASE u # t
    <3>1. worker'[u] = worker[u]
      BY <1>1, <2>2 DEF WorkerStep, Get, GetShutdown, ReadPayload, Gate, Investigate, Commit, Drop,
                        Unmark, Done, StepTo, Goto, TypeOK
    <3>2. worker[u].key \in inflight
      BY <3>1 DEF Marked
    <3>3. CASE Unmark(t)
      <4>1. worker[t].key # worker[u].key
        BY <2>2, <3>1, <3>3 DEF Unmark, NoSharedKey, MarkedPc
      <4>2. QED  BY <3>1, <3>2, <3>3, <4>1 DEF Unmark
    <3>4. CASE ~Unmark(t)
      <4>1. inflight \subseteq inflight'
        BY <1>1, <3>4 DEF WorkerStep, Get, GetShutdown, ReadPayload, Gate, Investigate, Commit, Drop, Done
      <4>2. QED  BY <3>1, <3>2, <4>1
    <3>5. QED  BY <3>3, <3>4
  <2>3. QED  BY <2>1, <2>2
<1>2. ASSUME StartTerm PROVE worker'[u].key \in inflight'
  <2>1. worker'[u] = worker[u] /\ inflight' = inflight
    BY <1>2 DEF StartTerm, Goto, TypeOK, MarkedPc
  <2>2. QED  BY <2>1 DEF Marked
<1>3. ASSUME UNCHANGED <<inflight, worker>> PROVE worker'[u].key \in inflight'
  BY <1>3 DEF Marked
<1>4. QED
  BY <1>1, <1>2, <1>3 DEF Next, Enqueue, EnqueueAdd, CancelByFingerprint, CancelContext, ShutDown,
     Drain, DrainReturn, DelayElapsed, WindowSlides, vars

\* While no key is shared, a resolve cancels no investigation that is running: the
\* mark the worker set keeps CancelByFingerprint away from its key.
THEOREM UnsharedIsNeverCancelled == Spec /\ []NoSharedKey => InflightNeverCancelled
<1> DEFINE A == \A t \in Terms, k \in Keys :
                   /\ worker[t].pc = "run" /\ worker[t].key = k /\ worker[t].p = reqs[k]
                   /\ reqs'[k] = NoPending
                   => \E u \in Terms : worker[u].key = k /\ worker[u].pc \in {"commit", "drop"}
<1>1. TypeOK /\ Marked /\ [Next]_vars => A
  <2> SUFFICES ASSUME TypeOK, Marked, [Next]_vars, NEW t \in Terms, NEW k \in Keys,
                      worker[t].pc = "run", worker[t].key = k, worker[t].p = reqs[k],
                      reqs'[k] = NoPending
               PROVE  \E u \in Terms : worker[u].key = k /\ worker[u].pc \in {"commit", "drop"}
    OBVIOUS
  <2>1. k \in inflight /\ reqs[k] \in Pending
    BY WorkerKey DEF Marked, MarkedPc
  <2>2. reqs[k] # NoPending
    BY <2>1, PendingIsSomething DEF PendingNotNone
  <2>3. ASSUME NEW f \in Fps, CancelByFingerprint(f) PROVE FALSE
    <3>1. byFP[f] = k
      BY <2>2, <2>3 DEF CancelByFingerprint, removeLocked, TypeOK
    <3>2. QED  BY <2>1, <2>3, <3>1 DEF CancelByFingerprint
  <2>4. ASSUME NEW u \in Terms, Commit(u) \/ Drop(u)
        PROVE  worker[u].key = k /\ worker[u].pc \in {"commit", "drop"}
    BY <2>2, <2>4 DEF Commit, Drop, removeLocked, TypeOK
  <2>5. ASSUME NEW r \in Requests, Enqueue(r) PROVE FALSE
    <3>1. [req |-> r, seq |-> seq + 1] \in Pending
      BY DEF TypeOK, Pending
    <3>2. QED  BY <2>2, <2>5, <3>1, PendingIsSomething DEF Enqueue, TypeOK, PendingNotNone
  <2>6. \/ \E f \in Fps : CancelByFingerprint(f)
        \/ \E u \in Terms : Commit(u) \/ Drop(u)
    <3>1. ASSUME UNCHANGED reqs PROVE FALSE
      BY <2>2, <3>1
    <3>2. QED
      BY <2>5, <3>1 DEF Next, vars, EnqueueAdd, StartTerm, CancelContext, ShutDown, WorkerStep, Get,
         GetShutdown, ReadPayload, Gate, Investigate, Unmark, Done, Drain, DrainReturn, DelayElapsed,
         WindowSlides
  <2>7. QED  BY <2>3, <2>4, <2>6
<1>2. Init => Marked
  BY DEF Init, Marked, NoWorker, MarkedPc
<1>3. TypeOK /\ Marked /\ [Next]_vars => [A]_vars
  BY <1>1
<1>4. QED
  BY <1>2, <1>3, TypeCorrect, MarkedNext, PTL DEF Spec, InflightNeverCancelled

\* With a single term no key can be shared, and the comment at investigate.go:279
\* holds: "An IN-FLIGHT investigation is never cancelled".
THEOREM OneTermIsNeverCancelled == MaxTerms = 1 => (Spec => InflightNeverCancelled)
<1> SUFFICES ASSUME MaxTerms = 1 PROVE Spec => InflightNeverCancelled
  OBVIOUS
<1>1. NoSharedKey
  BY DEF NoSharedKey, Terms
<1>2. QED  BY <1>1, UnsharedIsNeverCancelled, PTL

=============================================================================
