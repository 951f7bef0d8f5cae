-------------------------- MODULE ActionGateProofs --------------------------
(***************************************************************************)
(* Proofs about ActionGate, for every set of replicas, actions and         *)
(* policies and every bound: an action reaches the cluster at most once    *)
(* and only when it was sanctioned, the kill switch wins over every worker *)
(* that has not passed it, and the audit file says what was done as far as *)
(* its writes do not fail.                                                 *)
(***************************************************************************)
EXTENDS ActionGate, SequenceTheorems, FiniteSetTheorems, TLAPS

-----------------------------------------------------------------------------
(* The inductive invariant, clause by clause.                              *)

\* The requests an approval handler is at work on, and the workers of mode auto
\* that have yet to execute.
Approving == {"claimed", "patched", "error"}
Working   == {"recheck", "reserve", "execute"}

Spent(id) == \E i \in DOMAIN applied : applied[i] = id

\* A request has the kind of its handler, names an action the gate has given an id,
\* and is over once it was answered with success.
SendsOK ==
    \A n \in DOMAIN sends :
        /\ sends[n].pc \in Approving => sends[n].kind = "approve"
        /\ sends[n].kind \in {"approve", "reject"} => sends[n].id \in DOMAIN proposed
        /\ sends[n].answer = "ok" => sends[n].pc = "done"
        /\ sends[n].pc = "patched" => Spent(sends[n].id)

\* A term's work runs in a process that is up, on an action that has an id.
WorkOK ==
    \A t \in DOMAIN terms :
        /\ terms[t].live => terms[t].at \in up
        /\ terms[t].at \notin up => work[t].pc = "idle"
        /\ work[t].pc # "idle" => work[t].id \in DOMAIN proposed
        /\ work[t].pc = "patched" => Spent(work[t].id)

\* The mode of the deployment decides which of the two paths an action takes.
ModeOK ==
    IF config.mode = "approve"
    THEN \A t \in DOMAIN work : work[t].pc = "idle"
    ELSE /\ \A r \in Replicas : pending[r] = {}
         /\ \A n \in DOMAIN sends : sends[n].pc # "claimed"

\* An id waits in one queue, or one request has claimed it, or one worker has it.
OneHolder ==
    /\ \A r, s \in Replicas : \A id \in pending[r] : id \in pending[s] => r = s
    /\ \A m, n \in DOMAIN sends :
          sends[m].pc = "claimed" /\ sends[n].pc = "claimed" /\ sends[m].id = sends[n].id => m = n
    /\ \A n \in DOMAIN sends : sends[n].pc = "claimed" =>
          \A r \in Replicas : sends[n].id \notin pending[r]
    /\ \A t, u \in DOMAIN work :
          work[t].pc \in Working /\ work[u].pc \in Working /\ work[t].id = work[u].id => t = u

\* Whoever holds an id, it has not reached the cluster yet.
HeldUnspent ==
    /\ \A r \in Replicas : \A id \in pending[r] : ~Spent(id)
    /\ \A n \in DOMAIN sends : sends[n].pc = "claimed" => ~Spent(sends[n].id)
    /\ \A t \in DOMAIN work : work[t].pc \in Working => ~Spent(work[t].id)

\* An id whose rejection was acknowledged is out of reach for good.
RejectStands ==
    config.mode = "approve" =>
        \A n \in DOMAIN sends : sends[n].kind = "reject" /\ sends[n].answer = "ok" =>
            /\ ~Spent(sends[n].id)
            /\ \A r \in Replicas : sends[n].id \notin pending[r]
            /\ \A m \in DOMAIN sends : sends[m].pc = "claimed" => sends[m].id # sends[n].id

\* What was patched is an operation an executor runs, and under approve someone
\* approved it.
AppliedOK ==
    \A i \in DOMAIN applied :
        /\ proposed[applied[i]].op \in Known
        /\ config.mode = "approve" =>
               \E n \in DOMAIN sends : sends[n].kind = "approve" /\ sends[n].id = applied[i]

\* A worker past its second look at an engaged switch had passed it before.
PassedBefore ==
    \A t \in DOMAIN work :
        work[t].pc \in {"reserve", "execute"} /\ paused[terms[t].at] => work[t].cleared

IInv ==
    /\ TypeOK /\ SendsOK /\ WorkOK /\ ModeOK /\ OneHolder /\ HeldUnspent
    /\ RejectStands /\ AppliedOK /\ AtMostOnce /\ AuditTruthful /\ PassedBefore

\* What is lost: a file that ends in the middle of a line loses the next record too.
LossOK ==
    \A r \in Replicas :
        Cardinality(Missing(r)) + (IF Cut(files[r]) THEN 1 ELSE 0) <= faults[r].write + 2 * faults[r].torn

\* Unless bytes were written that lastHash does not stand for, every record is whole and
\* in its place, and the process knows the end of its file.
ChainOK ==
    \A r \in Replicas : faults[r].torn + faults[r].sync = 0 =>
        /\ \A k \in DOMAIN files[r] :
              /\ files[r][k].readable /\ files[r][k].ended
              /\ files[r][k].prev = k - 1 /\ files[r][k].hash = k
        /\ lastHash[r] = Len(files[r])

-----------------------------------------------------------------------------
(* Type correctness.                                                       *)

TermRec == [at : Replicas, live : BOOLEAN, started : BOOLEAN]
SendRec == [kind : {"approve", "reject", "list", "pause", "resume"}, id : Nat,
            at : Replicas, hop : BOOLEAN, cut : BOOLEAN,
            pc : {"arrived", "serve", "claimed", "patched", "error", "done"},
            answer : Answers]
WorkRec == [pc : {"idle", "recheck", "reserve", "execute", "patched", "error"},
            id : Nat, cleared : BOOLEAN]
FileRec == [prev : Nat, hash : Nat, id : Nat,
            decision : {"executed", "failed", "denied", "skipped", "dry-run"},
            readable : BOOLEAN, ended : BOOLEAN]

\* The parts of TypeOK that a step of the routing can change.
RoutingType ==
    /\ up \subseteq Replicas /\ crashes \in Nat
    /\ holder \in Replicas \cup {Nobody}
    /\ leader \in [Replicas -> BOOLEAN]
    /\ tracker \in [Replicas -> Replicas \cup {Nobody}]
    /\ terms \in Seq(TermRec)
    /\ sends \in Seq(SendRec)

AuditType ==
    /\ files \in [Replicas -> Seq(FileRec)]
    /\ lastHash \in [Replicas -> Nat]
    /\ faults \in [Replicas -> [write : Nat, torn : Nat, sync : Nat]]
    /\ told \in [Replicas -> SUBSET (1..Len(proposed))]

\* The parts of TypeOK that a step of the gate can change.
GateType ==
    /\ config \in Configs
    /\ proposed \in Seq(Review(Actions))
    /\ pending \in [Replicas -> SUBSET (1..Len(proposed))]
    /\ aged \subseteq 1..Len(proposed)
    /\ paused \in [Replicas -> BOOLEAN]
    /\ recent \in [Replicas -> Nat]
    /\ work \in Seq(WorkRec)
    /\ applied \in Seq(1..Len(proposed))
    /\ AuditType

\* The type invariant, split into what the routing and what the gate changes.
LEMMA TypeParts == TypeOK <=> RoutingType /\ GateType /\ Len(work) = Len(terms)
BY DEF TypeOK, RoutingType, GateType, TermRec, SendRec, WorkRec, FileRec, AuditType, audit

\* The same split of the next state's type.
LEMMA TypeNext ==
    ASSUME RoutingType', GateType', Len(work') = Len(terms')
    PROVE  TypeOK'
BY DEF TypeOK, RoutingType, GateType, TermRec, SendRec, WorkRec, FileRec, AuditType, audit

\* Answering a request keeps what it asked, and the first answer.
LEMMA AnsweredFacts ==
    ASSUME NEW m \in SendRec, NEW a \in Answers
    PROVE  /\ Answered(m, a) \in SendRec
           /\ Answered(m, a).kind = m.kind /\ Answered(m, a).id = m.id /\ Answered(m, a).at = m.at
           /\ Answered(m, a).pc = "done"
           /\ Answered(m, a).answer = IF m.answer = "none" THEN a ELSE m.answer
BY DEF Answered, SendRec, Answers

\* Routing a request serves it, sends it on or answers it, but never with success.
LEMMA MiddlewareFacts ==
    ASSUME TypeOK, NEW m \in SendRec
    PROVE  /\ middleware(m) \in SendRec
           /\ middleware(m).kind = m.kind /\ middleware(m).id = m.id
           /\ middleware(m).pc \in {m.pc, "serve", "done"}
           /\ m.answer # "ok" => middleware(m).answer # "ok"
<1> DEFINE served == ServesLocally(m)
<1>1. CASE served
  BY <1>1 DEF middleware, SendRec
<1>2. CASE ~served /\ m.hop
  <2>1. middleware(m) = Answered(m, "misdirected")
    BY <1>2 DEF middleware
  <2>2. QED  BY <2>1, AnsweredFacts DEF Answers
<1>3. CASE ~served /\ ~m.hop /\ tracker[m.at] = Nobody
  <2>1. middleware(m) = Answered(m, "unavailable")
    BY <1>3 DEF middleware
  <2>2. QED  BY <2>1, AnsweredFacts DEF Answers
<1>4. CASE ~served /\ ~m.hop /\ tracker[m.at] # Nobody
  <2>1. middleware(m) = [m EXCEPT !.hop = TRUE, !.at = tracker[m.at]]
    BY <1>4 DEF middleware
  <2>2. m.at \in Replicas /\ tracker[m.at] \in Replicas
    BY <1>4 DEF TypeOK, SendRec
  <2>3. QED  BY <2>1, <2>2 DEF SendRec
<1>5. QED  BY <1>1, <1>2, <1>3, <1>4 DEF SendRec

\* The gate starts with every variable in its type.
LEMMA TypeInit == Init => TypeOK
BY DEF Init, RoutingInit, TypeOK

\* What a step of the routing alone may do to the requests: a request on its way keeps
\* what it asked, does not enter an approval, and is not answered with success.
Routed ==
    /\ \A n \in DOMAIN sends : /\ n \in DOMAIN sends'
                               /\ sends'[n].kind = sends[n].kind /\ sends'[n].id = sends[n].id
                               /\ sends'[n].pc \in Approving => sends'[n].pc = sends[n].pc
                               /\ sends'[n].answer = "ok" => sends'[n] = sends[n]
    /\ \A n \in DOMAIN sends' \ DOMAIN sends :
          /\ sends'[n].kind \in {"approve", "reject"} => sends'[n].id \in DOMAIN proposed
          /\ sends'[n].pc \notin Approving /\ sends'[n].answer # "ok"

\* One request is rewritten.
LEMMA RoutedOne ==
    ASSUME TypeOK, SendsOK, NEW n \in DOMAIN sends, NEW m \in SendRec,
           sends' = [sends EXCEPT ![n] = m],
           m.kind = sends[n].kind, m.id = sends[n].id,
           m.pc \in Approving => m.pc = sends[n].pc,
           m.answer = "ok" => m = sends[n]
    PROVE  sends' \in Seq(SendRec) /\ Routed
<1>1. sends \in Seq(SendRec)
  BY DEF TypeOK, SendRec
<1>2. sends' \in Seq(SendRec) /\ DOMAIN sends' = DOMAIN sends
  BY <1>1
<1>3. QED  BY <1>1, <1>2 DEF Routed

\* A new request is a routing step: the requests before it stay, and none gains success.
LEMMA SendRouted ==
    ASSUME IInv, NEW kind \in Kinds, NEW r \in Replicas, NEW id \in Ids(kind), Send(kind, id, r)
    PROVE  sends' \in Seq(SendRec) /\ Routed
<1> DEFINE m == [kind |-> kind, id |-> id, at |-> r, hop |-> FALSE,
                 cut |-> FALSE, pc |-> "arrived", answer |-> "none"]
<1>1. sends \in Seq(SendRec) /\ proposed \in Seq(Review(Actions))
  BY DEF IInv, TypeOK, SendRec
<1>2. id \in Nat /\ (kind \in {"approve", "reject"} => id \in DOMAIN proposed)
  BY <1>1 DEF Ids
<1>3. kind \in {"approve", "reject", "list", "pause", "resume"}
  BY DEF Kinds
<1>4. m \in SendRec
  BY <1>2, <1>3 DEF SendRec, Answers
<1>5. /\ middleware(m) \in SendRec
      /\ middleware(m).kind = kind /\ middleware(m).id = id
      /\ middleware(m).pc \notin Approving /\ middleware(m).answer # "ok"
  BY <1>4, MiddlewareFacts DEF IInv, Approving
<1>6. sends' = Append(sends, middleware(m))
  BY DEF Send
<1> HIDE DEF m
<1>7. QED  BY <1>1, <1>2, <1>5, <1>6 DEF Routed

\* So is each step of a request on its way to the leader.
LEMMA ForwardingRouted ==
    ASSUME IInv, NEW n \in DOMAIN sends, Arrive(n) \/ Unreachable(n) \/ ProxyGivesUp(n)
    PROVE  sends' \in Seq(SendRec) /\ Routed
<1>0. sends \in Seq(SendRec)
  BY DEF IInv, TypeOK, SendRec
<1>1. sends[n] \in SendRec
  BY <1>0
<1>2. sends[n].answer = "ok" => sends[n].pc = "done"
  BY DEF IInv, SendsOK
<1>3. CASE Arrive(n)
  <2>1. sends' = [sends EXCEPT ![n] = middleware(sends[n])] /\ sends[n].pc = "arrived"
    BY <1>3 DEF Arrive
  <2>2. QED  BY <1>1, <1>2, <2>1, MiddlewareFacts, RoutedOne DEF IInv, Approving
<1>4. CASE Unreachable(n)
  <2>1. sends' = [sends EXCEPT ![n] = Answered(sends[n], "unavailable")] /\ sends[n].pc = "arrived"
    BY <1>4 DEF Unreachable
  <2>2. "unavailable" \in Answers
    BY DEF Answers
  <2>3. QED  BY <1>1, <1>2, <2>1, <2>2, AnsweredFacts, RoutedOne DEF IInv, Approving
<1>5. CASE ProxyGivesUp(n)
  <2> DEFINE m == [sends[n] EXCEPT !.cut = TRUE, !.answer = "unavailable"]
  <2>1. sends' = [sends EXCEPT ![n] = m]
    BY <1>1, <1>5 DEF ProxyGivesUp
  <2>2. /\ m \in SendRec /\ m.kind = sends[n].kind /\ m.id = sends[n].id
        /\ m.pc = sends[n].pc /\ m.answer # "ok"
    BY <1>1 DEF SendRec, Answers
  <2> HIDE DEF m
  <2>3. QED  BY <2>1, <2>2, RoutedOne DEF IInv
<1>6. QED  BY <1>3, <1>4, <1>5

-----------------------------------------------------------------------------
(* The steps of the routing and of the election.                           *)

\* What a step of the election may do to the terms while it opens none.
TermsKept ==
    /\ Len(terms') = Len(terms) /\ up' = up
    /\ \A t \in DOMAIN terms : terms'[t].at = terms[t].at /\ (terms'[t].live => terms[t].live)

\* A step that leaves the gate alone keeps the invariant.
LEMMA RoutingStep ==
    ASSUME IInv, RoutingType', Routed, TermsKept, UNCHANGED gate
    PROVE  IInv'
<1>0. /\ TypeOK /\ terms \in Seq(TermRec) /\ terms' \in Seq(TermRec)
      /\ DOMAIN terms' = DOMAIN terms /\ DOMAIN terms = DOMAIN work
  BY TypeParts DEF IInv, RoutingType, GateType, TermsKept, AuditType, audit
<1>1. TypeOK'
  BY <1>0, TypeParts, TypeNext DEF GateType, gate, TermsKept, audit, AuditType
<1>2. SendsOK'
  BY DEF IInv, SendsOK, Routed, gate, Spent, Approving, audit
<1>3. WorkOK'
  BY <1>0 DEF IInv, WorkOK, TermsKept, gate, Spent, audit
<1>4. ModeOK'
  BY DEF IInv, ModeOK, Routed, gate, Approving, audit
<1>5. OneHolder'
  BY DEF IInv, OneHolder, Routed, gate, Approving, audit
<1>6. HeldUnspent'
  BY DEF IInv, HeldUnspent, Routed, gate, Approving, Spent, audit
<1>7. RejectStands'
  BY DEF IInv, RejectStands, Routed, gate, Approving, Spent, audit
<1>8. AppliedOK'
  BY DEF IInv, AppliedOK, Routed, gate, audit
<1>9. AtMostOnce'
  BY DEF IInv, AtMostOnce, gate, audit
<1>10. AuditTruthful'
  BY DEF IInv, AuditTruthful, Routed, gate, audit, Says
<1>11. PassedBefore'
  BY <1>0 DEF IInv, PassedBefore, TermsKept, gate, audit
<1>12. QED  BY <1>1, <1>2, <1>3, <1>4, <1>5, <1>6, <1>7, <1>8, <1>9, <1>10, <1>11 DEF IInv

\* A new request keeps the invariant.
LEMMA ClientStep ==
    ASSUME IInv, Client
    PROVE  IInv'
<1>1. PICK kind \in Kinds, r \in Replicas : \E id \in Ids(kind) : Send(kind, id, r) /\ UNCHANGED gate
  BY DEF Client
<1>2. PICK id \in Ids(kind) : Send(kind, id, r) /\ UNCHANGED gate
  BY <1>1
<1>3. sends' \in Seq(SendRec) /\ Routed
  BY <1>2, SendRouted
<1>4. RoutingType' /\ TermsKept
  BY <1>2, <1>3, TypeParts DEF IInv, Send, RoutingType, TermsKept
<1>5. QED  BY <1>2, <1>3, <1>4, RoutingStep

\* A request on its way keeps the invariant.
LEMMA ForwardingStep ==
    ASSUME IInv, NEW n \in DOMAIN sends, Forwarding(n)
    PROVE  IInv'
<1>1. sends' \in Seq(SendRec) /\ Routed
  BY ForwardingRouted DEF Forwarding
<1>2. UNCHANGED <<up, crashes, holder, leader, tracker, terms, gate>>
  BY DEF Forwarding, Arrive, Unreachable, ProxyGivesUp
<1>3. RoutingType' /\ TermsKept
  BY <1>1, <1>2, TypeParts DEF IInv, RoutingType, TermsKept
<1>4. QED  BY <1>1, <1>2, <1>3, RoutingStep

\* The steps of the election that open no term.
LEMMA ElectionStep ==
    ASSUME IInv, NEW r \in Replicas, UNCHANGED gate,
           StartLeading(r) \/ NewLeader(r) \/ LoseLease(r) \/ StopLeading(r)
    PROVE  IInv'
<1>1. RoutingType /\ sends' = sends /\ up' = up /\ crashes' = crashes
  BY TypeParts DEF IInv, StartLeading, NewLeader, LoseLease, StopLeading
<1>2. Routed
  BY <1>1 DEF IInv, SendsOK, Routed
<1>3. CASE StartLeading(r)
  <2> DEFINE term(t) == [terms[t] EXCEPT !.started = TRUE]
  <2>1. PICK t \in DOMAIN terms : terms' = [terms EXCEPT ![t] = term(t)]
    BY <1>3 DEF StartLeading
  <2>2. terms \in Seq(TermRec) /\ terms[t] \in TermRec
    BY <1>1 DEF RoutingType
  <2>3. /\ term(t) \in TermRec /\ term(t).at = terms[t].at
        /\ term(t).live => terms[t].live
    BY <2>2 DEF TermRec
  <2> HIDE DEF term
  <2>4. terms' \in Seq(TermRec) /\ TermsKept
    BY <1>1, <2>2, <2>1, <2>3 DEF TermsKept
  <2>5. RoutingType'
    BY <1>1, <1>3, <2>4 DEF RoutingType, StartLeading
  <2>6. QED  BY <1>2, <2>4, <2>5, RoutingStep
<1>4. CASE NewLeader(r)
  <2>1. RoutingType' /\ TermsKept
    BY <1>1, <1>4 DEF RoutingType, NewLeader, TermsKept
  <2>2. QED  BY <1>2, <2>1, RoutingStep
<1>5. CASE LoseLease(r)
  <2> DEFINE term(t) == [terms[t] EXCEPT !.live = FALSE]
  <2>1. PICK t \in DOMAIN terms : terms' = [terms EXCEPT ![t] = term(t)]
    BY <1>5 DEF LoseLease
  <2>2. terms \in Seq(TermRec) /\ terms[t] \in TermRec
    BY <1>1 DEF RoutingType
  <2>3. /\ term(t) \in TermRec /\ term(t).at = terms[t].at
        /\ term(t).live => terms[t].live
    BY <2>2 DEF TermRec
  <2> HIDE DEF term
  <2>4. terms' \in Seq(TermRec) /\ TermsKept
    BY <1>1, <2>2, <2>1, <2>3 DEF TermsKept
  <2>5. RoutingType'
    BY <1>1, <1>5, <2>4 DEF RoutingType, LoseLease
  <2>6. QED  BY <1>2, <2>4, <2>5, RoutingStep
<1>6. CASE StopLeading(r)
  <2>1. RoutingType' /\ TermsKept
    BY <1>1, <1>6 DEF RoutingType, StopLeading, TermsKept
  <2>2. QED  BY <1>2, <2>1, RoutingStep
<1>7. QED  BY <1>3, <1>4, <1>5, <1>6

\* A new term begins in a process that is up, with an idle worker.
LEMMA AcquireStep ==
    ASSUME IInv, NEW r \in Replicas, Acquire(r), work' = Append(work, Idle),
           UNCHANGED <<config, proposed, pending, aged, paused, recent, applied, audit>>
    PROVE  IInv'
<1> DEFINE new == [at |-> r, live |-> TRUE, started |-> FALSE]
<1>1. RoutingType /\ GateType /\ Len(work) = Len(terms)
  BY TypeParts DEF IInv
<1>2. terms' = Append(terms, new) /\ r \in up /\ UNCHANGED <<up, crashes, leader, tracker, sends>>
  BY DEF Acquire
<1>3. new \in TermRec /\ Idle \in WorkRec
  BY DEF TermRec, WorkRec, Idle
<1>4. /\ terms' \in Seq(TermRec) /\ work' \in Seq(WorkRec) /\ Len(work') = Len(terms')
      /\ DOMAIN terms' = DOMAIN terms \cup {Len(terms) + 1} /\ DOMAIN work' = DOMAIN terms'
      /\ \A t \in DOMAIN terms : terms'[t] = terms[t] /\ work'[t] = work[t] /\ t \in DOMAIN work
      /\ terms'[Len(terms) + 1] = new /\ work'[Len(terms) + 1] = Idle
  <2>1. terms \in Seq(TermRec) /\ work \in Seq(WorkRec)
    BY <1>1 DEF RoutingType, GateType
  <2>2. QED  BY <1>1, <1>2, <1>3, <2>1
<1>5. Idle.pc = "idle" /\ new.at = r
  BY DEF Idle
<1>6. TypeOK'
  BY <1>1, <1>2, <1>4, TypeNext DEF RoutingType, GateType, Acquire, AuditType, audit
<1> HIDE DEF new
<1>7. SendsOK'
  BY <1>2 DEF IInv, SendsOK, Spent
<1>8. WorkOK'
  BY <1>2, <1>4, <1>5 DEF IInv, WorkOK, Spent
<1>9. ModeOK'
  BY <1>1, <1>2, <1>4, <1>5 DEF IInv, ModeOK
<1>10. OneHolder'
  BY <1>1, <1>2, <1>4, <1>5 DEF IInv, OneHolder, Working
<1>11. HeldUnspent'
  BY <1>1, <1>2, <1>4, <1>5 DEF IInv, HeldUnspent, Spent, Working
<1>12. RejectStands' /\ AppliedOK' /\ AtMostOnce' /\ AuditTruthful'
  BY <1>2 DEF IInv, RejectStands, AppliedOK, AtMostOnce, AuditTruthful, Spent, audit, Says
<1>13. PassedBefore'
  BY <1>1, <1>2, <1>4, <1>5 DEF IInv, PassedBefore
<1>14. QED
  BY <1>6, <1>7, <1>8, <1>9, <1>10, <1>11, <1>12, <1>13 DEF IInv

\* A process dies: what it held in memory is gone, what it was serving is cut off.
LEMMA DieStep ==
    ASSUME IInv, NEW r \in Replicas, Die(r)
    PROVE  IInv'
<1> DEFINE ended(t) == IF terms[t].at = r THEN [terms[t] EXCEPT !.live = FALSE] ELSE terms[t]
           idled(t) == IF terms[t].at = r THEN Idle ELSE work[t]
           cut(n)   == IF Open(sends[n]) /\ sends[n].at = r
                       THEN Answered(sends[n], "unavailable") ELSE sends[n]
<1>1. /\ RoutingType /\ GateType /\ Len(work) = Len(terms)
      /\ terms \in Seq(TermRec) /\ work \in Seq(WorkRec) /\ sends \in Seq(SendRec)
  BY TypeParts DEF IInv, RoutingType, GateType, AuditType, audit
<1>2. /\ terms' = [t \in DOMAIN terms |-> ended(t)]
      /\ work' = [t \in DOMAIN work |-> idled(t)]
      /\ sends' = [n \in DOMAIN sends |-> cut(n)]
      /\ pending' = [pending EXCEPT ![r] = {}]
      /\ recent' = [recent EXCEPT ![r] = 0]
      /\ up' = up \ {r} /\ leader' = [leader EXCEPT ![r] = FALSE]
      /\ tracker' = [tracker EXCEPT ![r] = Nobody]
      /\ crashes' = crashes + 1
      /\ UNCHANGED <<holder, config, proposed, aged, paused, applied, audit>>
  BY DEF Die, Crash
<1>3. \A t \in DOMAIN terms : terms[t] \in TermRec /\ work[t] \in WorkRec
  BY <1>1
<1>4. Idle \in WorkRec /\ Idle.pc = "idle"
  BY DEF Idle, WorkRec
<1>5. \A t \in DOMAIN terms :
          /\ ended(t) \in TermRec /\ ended(t).at = terms[t].at
          /\ ended(t).live => terms[t].live /\ terms[t].at # r
          /\ idled(t) \in WorkRec
          /\ idled(t).pc = "idle" \/ (terms[t].at # r /\ idled(t) = work[t])
  BY <1>3, <1>4 DEF TermRec
<1>6. \A n \in DOMAIN sends :
          /\ cut(n) \in SendRec /\ cut(n).kind = sends[n].kind /\ cut(n).id = sends[n].id
          /\ cut(n).pc \in Approving => cut(n) = sends[n]
          /\ cut(n).answer = "ok" => cut(n) = sends[n]
  <2> SUFFICES ASSUME NEW n \in DOMAIN sends
               PROVE  /\ cut(n) \in SendRec /\ cut(n).kind = sends[n].kind /\ cut(n).id = sends[n].id
                      /\ cut(n).pc \in Approving => cut(n) = sends[n]
                      /\ cut(n).answer = "ok" => cut(n) = sends[n]
    OBVIOUS
  <2>1. sends[n] \in SendRec
    BY <1>1
  <2>2. sends[n].answer = "ok" => ~Open(sends[n])
    BY DEF IInv, SendsOK, Open
  <2>3. QED  BY <2>1, <2>2, AnsweredFacts DEF Approving, Answers
<1> HIDE DEF ended, idled, cut
<1>7. /\ terms' \in Seq(TermRec) /\ Len(terms') = Len(terms) /\ DOMAIN terms' = DOMAIN terms
      /\ DOMAIN work = DOMAIN terms
  BY <1>1, <1>2, <1>5
<1>8. work' \in Seq(WorkRec) /\ Len(work') = Len(terms') /\ DOMAIN work' = DOMAIN terms
  BY <1>1, <1>2, <1>5, <1>7
<1>9. sends' \in Seq(SendRec) /\ DOMAIN sends' = DOMAIN sends
  BY <1>1, <1>2, <1>6
<1>10. \A t \in DOMAIN terms :
           /\ terms'[t].at = terms[t].at
           /\ terms'[t].live => terms[t].live /\ terms[t].at # r
           /\ work'[t].pc = "idle" \/ (terms[t].at # r /\ work'[t] = work[t])
  BY <1>2, <1>5, <1>7
<1>11. \A n \in DOMAIN sends :
          /\ sends'[n].kind = sends[n].kind /\ sends'[n].id = sends[n].id
          /\ sends'[n].pc \in Approving => sends'[n] = sends[n]
          /\ sends'[n].answer = "ok" => sends'[n] = sends[n]
  BY <1>2, <1>6
<1>12. /\ pending' \in [Replicas -> SUBSET (1..Len(proposed))]
       /\ \A s \in Replicas : pending'[s] \subseteq pending[s]
  BY <1>1, <1>2 DEF GateType, AuditType, audit
<1>13. /\ UNCHANGED <<config, proposed, applied, files, told, paused>> /\ up' = up \ {r}
       /\ \A id : Spent(id)' <=> Spent(id)
  BY <1>2 DEF Spent, audit
<1>14. TypeOK'
  <2>1. RoutingType'
    BY <1>1, <1>2, <1>7, <1>9 DEF RoutingType
  <2>2. /\ config' \in Configs /\ proposed' \in Seq(Review(Actions))
        /\ aged' \subseteq 1..Len(proposed') /\ applied' \in Seq(1..Len(proposed'))
    BY <1>1, <1>2 DEF GateType
  <2>3. paused' \in [Replicas -> BOOLEAN] /\ recent' \in [Replicas -> Nat]
    BY <1>1, <1>2 DEF GateType
  <2>4. AuditType'
    BY <1>1, <1>2 DEF GateType, AuditType, audit
  <2>5. pending' \in [Replicas -> SUBSET (1..Len(proposed'))]
    BY <1>2, <1>12
  <2>6. QED  BY <1>7, <1>8, <2>1, <2>2, <2>3, <2>4, <2>5, TypeNext DEF GateType
<1>15. SendsOK'
  BY <1>9, <1>11, <1>13 DEF IInv, SendsOK, Approving
<1>16. WorkOK'
  <2> SUFFICES ASSUME NEW t \in DOMAIN terms
               PROVE  /\ terms'[t].live => terms'[t].at \in up'
                      /\ terms'[t].at \notin up' => work'[t].pc = "idle"
                      /\ work'[t].pc # "idle" => work'[t].id \in DOMAIN proposed
                      /\ work'[t].pc = "patched" => Spent(work'[t].id)
    BY <1>7, <1>13 DEF WorkOK
  <2>1. /\ terms[t].live => terms[t].at \in up
        /\ terms[t].at \notin up => work[t].pc = "idle"
        /\ work[t].pc # "idle" => work[t].id \in DOMAIN proposed
        /\ work[t].pc = "patched" => Spent(work[t].id)
    BY DEF IInv, WorkOK
  <2>2. /\ terms'[t].at = terms[t].at
        /\ terms'[t].live => terms[t].live /\ terms[t].at # r
        /\ work'[t].pc = "idle" \/ (terms[t].at # r /\ work'[t] = work[t])
    BY <1>10
  <2>3. QED  BY <2>1, <2>2, <1>13
<1>17. ModeOK'
  BY <1>7, <1>8, <1>9, <1>10, <1>11, <1>12, <1>13 DEF IInv, ModeOK, Approving
<1>18. OneHolder'
  <2>1. \A t \in DOMAIN work : work'[t].pc \in Working => work'[t] = work[t]
    BY <1>7, <1>10 DEF Working
  <2>2. \A n \in DOMAIN sends : sends'[n].pc = "claimed" => sends'[n] = sends[n]
    BY <1>11 DEF Approving
  <2>3. DOMAIN work' = DOMAIN work
    BY <1>7, <1>8
  <2>4. QED  BY <1>9, <1>12, <2>1, <2>2, <2>3 DEF IInv, OneHolder
<1>19. HeldUnspent'
  <2>1. \A t \in DOMAIN work : work'[t].pc \in Working => work'[t] = work[t]
    BY <1>7, <1>10 DEF Working
  <2>2. \A n \in DOMAIN sends : sends'[n].pc = "claimed" => sends'[n] = sends[n]
    BY <1>11 DEF Approving
  <2>3. DOMAIN work' = DOMAIN work
    BY <1>7, <1>8
  <2>4. QED  BY <1>9, <1>12, <1>13, <2>1, <2>2, <2>3 DEF IInv, HeldUnspent, Spent
<1>20. RejectStands'
  BY <1>9, <1>11, <1>12, <1>13 DEF IInv, RejectStands, Approving
<1>21. AppliedOK' /\ AtMostOnce'
  BY <1>9, <1>11, <1>13 DEF IInv, AppliedOK, AtMostOnce
<1>22. AuditTruthful'
  BY <1>9, <1>11, <1>13 DEF IInv, AuditTruthful, audit, Says
<1>23. PassedBefore'
  BY <1>7, <1>8, <1>10, <1>13 DEF IInv, PassedBefore
<1>24. QED
  BY <1>14, <1>15, <1>16, <1>17, <1>18, <1>19, <1>20, <1>21, <1>22, <1>23 DEF IInv

\* A process starts with its kill switch engaged; no worker is left in it.
LEMMA BootStep ==
    ASSUME IInv, NEW r \in Replicas, Boot(r)
    PROVE  IInv'
<1>1. RoutingType /\ GateType /\ Len(work) = Len(terms) /\ DOMAIN work = DOMAIN terms
  <2>1. RoutingType /\ GateType /\ Len(work) = Len(terms)
    BY TypeParts DEF IInv
  <2>2. QED  BY <2>1 DEF RoutingType, GateType
<1>2. /\ r \notin up /\ up' = up \cup {r}
      /\ paused' = [paused EXCEPT ![r] = TRUE]
      /\ lastHash' = [lastHash EXCEPT ![r] = LastOf(files[r])]
      /\ UNCHANGED <<crashes, holder, leader, tracker, terms, sends,
                     config, proposed, pending, aged, recent, work, applied, files, faults, told>>
  BY DEF Boot, Restart
<1>3. LastOf(files[r]) \in Nat
  <2>1. files[r] \in Seq(FileRec)
    BY <1>1 DEF GateType, AuditType, audit
  <2>2. CASE files[r] = <<>>
    BY <2>2 DEF LastOf
  <2>3. CASE files[r] # <<>>
    <3>1. files[r][Len(files[r])] \in FileRec
      BY <2>1, <2>3
    <3>2. QED  BY <2>3, <3>1 DEF LastOf, FileRec
  <2>4. QED  BY <2>2, <2>3
<1>4. TypeOK'
  BY <1>1, <1>2, <1>3, TypeNext DEF RoutingType, GateType, AuditType, audit
<1>5. SendsOK' /\ ModeOK' /\ OneHolder' /\ HeldUnspent'
  BY <1>2 DEF IInv, SendsOK, ModeOK, OneHolder, HeldUnspent, Spent
<1>6. WorkOK'
  BY <1>2 DEF IInv, WorkOK, Spent
<1>7. RejectStands' /\ AppliedOK' /\ AtMostOnce' /\ AuditTruthful'
  BY <1>2 DEF IInv, RejectStands, AppliedOK, AtMostOnce, AuditTruthful, Spent, audit, Says
<1>8. PassedBefore'
  BY <1>1, <1>2 DEF IInv, WorkOK, PassedBefore, GateType
<1>9. QED  BY <1>4, <1>5, <1>6, <1>7, <1>8 DEF IInv

\* Ageing and the sliding window touch nothing the other clauses speak of.
LEMMA TimeStep ==
    ASSUME IInv, recent' \in [Replicas -> Nat], aged' \subseteq 1..Len(proposed),
           UNCHANGED <<routing, config, proposed, pending, paused, work, applied, audit>>
    PROVE  IInv'
<1>1. /\ RoutingType /\ GateType /\ Len(work) = Len(terms)
  BY TypeParts DEF IInv
<1>2. TypeOK'
  BY <1>1, TypeNext DEF RoutingType, GateType, routing, AuditType, audit
<1>3. QED
  BY <1>2 DEF IInv, SendsOK, WorkOK, ModeOK, OneHolder, HeldUnspent, RejectStands,
     AppliedOK, AtMostOnce, AuditTruthful, PassedBefore, Spent, routing, audit, Says

\* The sliding of a rate window keeps the invariant.
LEMMA WindowSlidesStep ==
    ASSUME IInv, NEW r \in Replicas, WindowSlides(r)
    PROVE  IInv'
<1>1. GateType
  BY TypeParts DEF IInv
<1>2. recent' \in [Replicas -> Nat]
  BY <1>1 DEF WindowSlides, GateType, AuditType, audit
<1>3. QED  BY <1>1, <1>2, TimeStep DEF WindowSlides, GateType, AuditType, audit

\* The ageing of a proposal keeps the invariant.
LEMMA AgeStep ==
    ASSUME IInv, NEW id \in DOMAIN proposed, Age(id)
    PROVE  IInv'
<1>1. GateType /\ id \in 1..Len(proposed)
  BY TypeParts DEF IInv, GateType, AuditType, audit
<1>2. QED  BY <1>1, TimeStep DEF Age, GateType, AuditType, audit

-----------------------------------------------------------------------------
(* The handlers, under approve and of the kill switch.                     *)

Decisions == {"executed", "failed", "denied", "skipped", "dry-run"}

\* A line is put after the others, or in the place of one that was cut short; then no
\* reader makes sense of it.
LEMMA PutFacts ==
    ASSUME NEW f \in Seq(FileRec), NEW l \in FileRec
    PROVE  /\ Put(f, l) \in Seq(FileRec) /\ Len(Put(f, l)) = Place(f) /\ Place(f) \in Nat \ {0}
           /\ DOMAIN Put(f, l) = 1..Place(f) /\ DOMAIN f = 1..Len(f)
           /\ \A k \in DOMAIN f : k = Place(f) \/ (k \in 1..Place(f) /\ Put(f, l)[k] = f[k])
           /\ \A k \in 1..Place(f) : k # Place(f) => k \in DOMAIN f
           /\ ~Cut(f) => Place(f) = Len(f) + 1 /\ Put(f, l)[Place(f)] = l
           /\ Cut(f) => /\ ~f[Place(f)].ended
                        /\ Put(f, l)[Place(f)] = [l EXCEPT !.readable = FALSE]
<1>1. Len(f) \in Nat /\ DOMAIN f = 1..Len(f) /\ \A k \in 1..Len(f) : f[k] \in FileRec
  OBVIOUS
<1>2. CASE ~Cut(f)
  <2>1. Put(f, l) = Append(f, l) /\ Place(f) = Len(f) + 1
    BY <1>2 DEF Put, Place
  <2>2. QED  BY <1>1, <1>2, <2>1
<1>3. CASE Cut(f)
  <2>1. PICK g : g = [l EXCEPT !.readable = FALSE]
    OBVIOUS
  <2>2. g \in FileRec
    BY <2>1 DEF FileRec
  <2>3. Put(f, l) = [f EXCEPT ![Len(f)] = g] /\ Place(f) = Len(f)
    BY <1>3, <2>1 DEF Put, Place
  <2>4. f # <<>> /\ ~f[Len(f)].ended
    BY <1>3 DEF Cut
  <2>5. Len(f) \in Nat \ {0}
    BY <1>1, <2>4
  <2>6. Put(f, l) \in Seq(FileRec) /\ Len(Put(f, l)) = Len(f) /\ Put(f, l)[Len(f)] = g
        /\ \A k \in DOMAIN f : k = Len(f) \/ Put(f, l)[k] = f[k]
    BY <1>1, <2>2, <2>3, <2>5
  <2>7. QED  BY <1>1, <1>3, <2>1, <2>3, <2>4, <2>5, <2>6
<1>4. QED  BY <1>2, <1>3

\* A file ends with a whole line when the last one put there is whole.
LEMMA PutEnds ==
    ASSUME NEW f \in Seq(FileRec), NEW l \in FileRec
    PROVE  Cut(Put(f, l)) <=> ~l.ended
<1>1. PICK g : g = Put(f, l)
  OBVIOUS
<1>2. g \in Seq(FileRec) /\ Len(g) = Place(f) /\ Place(f) \in Nat \ {0}
  BY <1>1, PutFacts
<1>3. g[Place(f)] = l \/ g[Place(f)] = [l EXCEPT !.readable = FALSE]
  BY <1>1, PutFacts
<1>4. [l EXCEPT !.readable = FALSE].ended = l.ended
  BY DEF FileRec
<1>5. g # <<>> /\ g[Len(g)].ended = l.ended
  BY <1>2, <1>3, <1>4
<1>6. QED  BY <1>1, <1>5 DEF Cut

\* After a line that has its end the next is added whole.
LEMMA PutWhole ==
    ASSUME NEW f \in Seq(FileRec), NEW l \in FileRec, ~Cut(f)
    PROVE  /\ Place(f) = Len(f) + 1 /\ Len(Put(f, l)) = Len(f) + 1 /\ Len(f) \in Nat
           /\ DOMAIN Put(f, l) = 1..(Len(f) + 1) /\ DOMAIN f = 1..Len(f)
           /\ Put(f, l)[Len(f) + 1] = l
           /\ \A k \in 1..Len(f) : Put(f, l)[k] = f[k]
<1>1. Put(f, l) = Append(f, l) /\ Place(f) = Len(f) + 1
  BY DEF Put, Place
<1>2. Len(f) \in Nat /\ DOMAIN f = 1..Len(f)
  OBVIOUS
<1>3. QED  BY <1>1, <1>2

\* A line that has its end stays where it is.
LEMMA PutKeeps ==
    ASSUME NEW f \in Seq(FileRec), NEW l \in FileRec, NEW k \in DOMAIN f, f[k].ended
    PROVE  k \in DOMAIN Put(f, l) /\ Put(f, l)[k] = f[k]
<1>1. CASE ~Cut(f)
  <2>1. k \in 1..Len(f) /\ Len(f) \in Nat
    OBVIOUS
  <2>2. QED  BY <1>1, <2>1, PutWhole
<1>2. CASE Cut(f)
  <2>1. PICK g : g = [l EXCEPT !.readable = FALSE]
    OBVIOUS
  <2>2. Put(f, l) = [f EXCEPT ![Len(f)] = g] /\ ~f[Len(f)].ended
    BY <1>2, <2>1 DEF Put, Cut
  <2>3. k # Len(f)
    BY <2>2
  <2>4. QED  BY <2>2, <2>3
<1>3. QED  BY <1>1, <1>2

\* What can be read afterwards was there or is the line that was put.
LEMMA PutReads ==
    ASSUME NEW f \in Seq(FileRec), NEW l \in FileRec, NEW k \in DOMAIN Put(f, l), Put(f, l)[k].readable
    PROVE  \/ k \in DOMAIN f /\ Put(f, l)[k] = f[k]
           \/ Put(f, l)[k].id = l.id /\ Put(f, l)[k].decision = l.decision
<1>1. CASE ~Cut(f)
  <2>1. k \in 1..Len(f) \/ k = Len(f) + 1
    BY <1>1, PutWhole
  <2>2. QED  BY <1>1, <2>1, PutWhole
<1>2. CASE Cut(f)
  <2>1. PICK g : g = [l EXCEPT !.readable = FALSE]
    OBVIOUS
  <2>2. ~g.readable
    BY <2>1 DEF FileRec
  <2>3. Put(f, l) = [f EXCEPT ![Len(f)] = g] /\ f # <<>>
    BY <1>2, <2>1 DEF Put, Cut
  <2>4. Len(f) \in DOMAIN f
    BY <2>3
  <2>5. k \in DOMAIN f /\ k # Len(f)
    BY <2>2, <2>3, <2>4
  <2>6. QED  BY <2>3, <2>5
<1>3. QED  BY <1>1, <1>2

\* The ways a record ends up in the file of the process that logs it, and in no other:
\* whole, not at all, cut short, or whole without lastHash.
Logged(r, l) ==
    /\ l \in FileRec /\ l.prev = lastHash[r] /\ l.hash = Place(files[r])
    /\ \/ /\ l.readable /\ l.ended
          /\ files' = [files EXCEPT ![r] = Put(files[r], l)]
          /\ lastHash' = [lastHash EXCEPT ![r] = Place(files[r])] /\ UNCHANGED faults
       \/ /\ faults' = [faults EXCEPT ![r].write = @ + 1]
          /\ UNCHANGED <<files, lastHash>>
       \/ /\ ~l.ended
          /\ faults' = [faults EXCEPT ![r].torn = @ + 1]
          /\ files' = [files EXCEPT ![r] = Put(files[r], l)] /\ UNCHANGED lastHash
       \/ /\ l.readable /\ l.ended
          /\ faults' = [faults EXCEPT ![r].sync = @ + 1]
          /\ files' = [files EXCEPT ![r] = Put(files[r], l)] /\ UNCHANGED lastHash

\* Logging a decision about an action is one of them.
LEMMA LogCases ==
    ASSUME AuditType, NEW r \in Replicas, NEW id \in Nat, NEW d \in Decisions, Log(r, id, d)
    PROVE  /\ told' = [told EXCEPT ![r] = IF d = "executed" THEN told[r] \cup {id} ELSE told[r]]
           /\ \E l \in FileRec : l.id = id /\ l.decision = d /\ Logged(r, l)
<1>1. /\ files \in [Replicas -> Seq(FileRec)] /\ lastHash \in [Replicas -> Nat]
      /\ told \in [Replicas -> SUBSET (1..Len(proposed))]
  BY DEF AuditType
<1>2. files[r] \in Seq(FileRec) /\ lastHash[r] \in Nat /\ Len(files[r]) \in Nat
  BY <1>1
<1>3. Place(files[r]) \in Nat
  BY <1>2 DEF Place
<1> DEFINE l == [prev |-> lastHash[r], hash |-> Place(files[r]), id |-> id, decision |-> d,
                 readable |-> TRUE, ended |-> TRUE]
           torn(b) == [l EXCEPT !.readable = b, !.ended = FALSE]
<1>4. l \in FileRec /\ l.prev = lastHash[r] /\ l.hash = Place(files[r]) /\ l.id = id /\ l.decision = d
      /\ l.readable /\ l.ended
  BY <1>2, <1>3 DEF FileRec, Decisions
<1>5. \A b \in BOOLEAN : torn(b) \in FileRec /\ torn(b).prev = lastHash[r] /\ torn(b).hash = Place(files[r])
                         /\ torn(b).id = id /\ torn(b).decision = d /\ ~torn(b).ended
  BY <1>2, <1>3 DEF FileRec, Decisions
<1>6. /\ told' = [told EXCEPT ![r] = IF d = "executed" THEN told[r] \cup {id} ELSE told[r]]
      /\ \/ /\ files' = [files EXCEPT ![r] = Put(files[r], l)]
            /\ lastHash' = [lastHash EXCEPT ![r] = l.hash] /\ UNCHANGED faults
         \/ LogFails(r, l)
  BY <1>1 DEF Log
<1>7. CASE LogFails(r, l)
  <2>1. UNCHANGED lastHash /\
        \/ faults' = [faults EXCEPT ![r].write = @ + 1] /\ UNCHANGED files
        \/ /\ faults' = [faults EXCEPT ![r].torn = @ + 1]
           /\ \E b \in BOOLEAN : files' = [files EXCEPT ![r] = Put(files[r], torn(b))]
        \/ /\ faults' = [faults EXCEPT ![r].sync = @ + 1]
           /\ files' = [files EXCEPT ![r] = Put(files[r], l)]
    BY <1>1, <1>7 DEF LogFails
  <2> HIDE DEF l, torn
  <2>2. QED  BY <1>4, <1>5, <1>6, <2>1 DEF Logged
<1> HIDE DEF l, torn
<1>8. QED  BY <1>4, <1>6, <1>7 DEF Logged

\* What can be read in a file after a record was logged was there before or is that record.
LEMMA LoggedType ==
    ASSUME AuditType, NEW r \in Replicas, NEW l \in FileRec, Logged(r, l)
    PROVE  /\ files' \in [Replicas -> Seq(FileRec)] /\ lastHash' \in [Replicas -> Nat]
           /\ faults' \in [Replicas -> [write : Nat, torn : Nat, sync : Nat]]
           /\ \A s \in Replicas : \A k \in DOMAIN files'[s] : files'[s][k].readable =>
                 \/ k \in DOMAIN files[s] /\ files'[s][k] = files[s][k]
                 \/ files'[s][k].id = l.id /\ files'[s][k].decision = l.decision
<1>1. /\ files \in [Replicas -> Seq(FileRec)] /\ lastHash \in [Replicas -> Nat]
      /\ faults \in [Replicas -> [write : Nat, torn : Nat, sync : Nat]] /\ files[r] \in Seq(FileRec)
  BY DEF AuditType
<1>2. faults' \in [Replicas -> [write : Nat, torn : Nat, sync : Nat]]
  <2>1. \/ UNCHANGED faults
        \/ faults' = [faults EXCEPT ![r] = [faults[r] EXCEPT !.write = @ + 1]]
        \/ faults' = [faults EXCEPT ![r] = [faults[r] EXCEPT !.torn = @ + 1]]
        \/ faults' = [faults EXCEPT ![r] = [faults[r] EXCEPT !.sync = @ + 1]]
    BY <1>1 DEF Logged
  <2>2. /\ [faults[r] EXCEPT !.write = @ + 1] \in [write : Nat, torn : Nat, sync : Nat]
        /\ [faults[r] EXCEPT !.torn = @ + 1] \in [write : Nat, torn : Nat, sync : Nat]
        /\ [faults[r] EXCEPT !.sync = @ + 1] \in [write : Nat, torn : Nat, sync : Nat]
    BY <1>1
  <2>3. QED  BY <1>1, <2>1, <2>2
<1>3. lastHash' \in [Replicas -> Nat]
  <2>1. Place(files[r]) \in Nat
    BY <1>1, PutFacts
  <2>2. QED  BY <1>1, <2>1 DEF Logged
<1>4. \/ files' = files
      \/ files' = [files EXCEPT ![r] = Put(files[r], l)]
  BY DEF Logged
<1>5. files' \in [Replicas -> Seq(FileRec)]
  <2>1. Put(files[r], l) \in Seq(FileRec)
    BY <1>1, PutFacts
  <2>2. QED  BY <1>1, <1>4, <2>1
<1>6. ASSUME NEW s \in Replicas, NEW k \in DOMAIN files'[s], files'[s][k].readable
      PROVE  \/ k \in DOMAIN files[s] /\ files'[s][k] = files[s][k]
             \/ files'[s][k].id = l.id /\ files'[s][k].decision = l.decision
  <2>1. CASE files'[s] = files[s]
    BY <1>6, <2>1
  <2>2. CASE s = r /\ files'[r] = Put(files[r], l)
    <3>1. k \in DOMAIN Put(files[r], l) /\ Put(files[r], l)[k].readable
      BY <1>6, <2>2
    <3>2. \/ k \in DOMAIN files[r] /\ Put(files[r], l)[k] = files[r][k]
          \/ Put(files[r], l)[k].id = l.id /\ Put(files[r], l)[k].decision = l.decision
      BY <1>1, <3>1, PutReads
    <3>3. QED  BY <2>2, <3>2
  <2>3. QED  BY <1>1, <1>4, <2>1, <2>2
<1>7. QED  BY <1>2, <1>3, <1>5, <1>6

\* The same of the decision that is logged, with the executions whose record was told.
LEMMA LogFacts ==
    ASSUME AuditType, NEW r \in Replicas, NEW id \in Nat, NEW d \in Decisions, Log(r, id, d),
           UNCHANGED proposed, d = "executed" => id \in 1..Len(proposed)
    PROVE  /\ AuditType'
           /\ told' = [told EXCEPT ![r] = IF d = "executed" THEN told[r] \cup {id} ELSE told[r]]
           /\ \A s \in Replicas : \A k \in DOMAIN files'[s] : files'[s][k].readable =>
                 \/ k \in DOMAIN files[s] /\ files'[s][k] = files[s][k]
                 \/ files'[s][k].id = id /\ files'[s][k].decision = d
<1>1. told \in [Replicas -> SUBSET (1..Len(proposed))]
  BY DEF AuditType
<1>2. told' = [told EXCEPT ![r] = IF d = "executed" THEN told[r] \cup {id} ELSE told[r]]
  BY LogCases
<1>3. PICK l \in FileRec : l.id = id /\ l.decision = d /\ Logged(r, l)
  BY LogCases
<1>4. told' \in [Replicas -> SUBSET (1..Len(proposed))]
  <2>1. told[r] \cup {id} \in SUBSET (1..Len(proposed)) \/ d # "executed"
    BY <1>1
  <2>2. QED  BY <1>1, <1>2, <2>1
<1>5. /\ files' \in [Replicas -> Seq(FileRec)] /\ lastHash' \in [Replicas -> Nat]
      /\ faults' \in [Replicas -> [write : Nat, torn : Nat, sync : Nat]]
      /\ \A s \in Replicas : \A k \in DOMAIN files'[s] : files'[s][k].readable =>
            \/ k \in DOMAIN files[s] /\ files'[s][k] = files[s][k]
            \/ files'[s][k].id = l.id /\ files'[s][k].decision = l.decision
  BY <1>3, LoggedType
<1>6. AuditType'
  BY <1>4, <1>5 DEF AuditType
<1>7. QED  BY <1>2, <1>3, <1>5, <1>6

\* What a file says of executions stays true when it grows by a truthful record.
LEMMA AuditGrows ==
    ASSUME IInv, NEW r \in Replicas, NEW id \in Nat, NEW d \in Decisions, Log(r, id, d),
           UNCHANGED proposed, d = "executed" => \E i \in DOMAIN applied : applied[i] = id,
           DOMAIN sends' = DOMAIN sends, applied' = applied,
           \A n \in DOMAIN sends : sends'[n].kind = "approve" /\ sends'[n].answer = "ok" =>
               \/ sends'[n] = sends[n]
               \/ sends'[n].at = r /\ sends'[n].id = id /\ d = "executed"
    PROVE  AuditTruthful' /\ AuditType'
<1>0. AuditType /\ applied \in Seq(1..Len(proposed)) /\ sends \in Seq(SendRec)
      /\ told \in [Replicas -> SUBSET (1..Len(proposed))]
  BY TypeParts DEF IInv, GateType, RoutingType, AuditType
<1>1. AuditType /\ UNCHANGED proposed /\ (d = "executed" => id \in 1..Len(proposed))
  BY <1>0
<1>2. /\ AuditType'
      /\ told' = [told EXCEPT ![r] = IF d = "executed" THEN told[r] \cup {id} ELSE told[r]]
      /\ \A s \in Replicas : \A k \in DOMAIN files'[s] : files'[s][k].readable =>
            \/ k \in DOMAIN files[s] /\ files'[s][k] = files[s][k]
            \/ files'[s][k].id = id /\ files'[s][k].decision = d
  BY <1>0, <1>1, LogFacts
<1>3. ASSUME NEW s \in Replicas, NEW k \in DOMAIN files'[s], Says(files'[s][k], files'[s][k].id)
      PROVE  \E i \in DOMAIN applied : applied[i] = files'[s][k].id
  <2>1. files'[s][k].readable /\ files'[s][k].decision = "executed"
    BY <1>3 DEF Says
  <2>2. CASE k \in DOMAIN files[s] /\ files'[s][k] = files[s][k]
    BY <1>3, <2>2 DEF IInv, AuditTruthful
  <2>3. CASE files'[s][k].id = id /\ files'[s][k].decision = d
    BY <2>1, <2>3
  <2>4. QED  BY <1>2, <2>1, <2>2, <2>3
<1>4. ASSUME NEW s \in Replicas
      PROVE  told[s] \subseteq told'[s] /\ \A k \in told'[s] : k \in told[s] \/ (k = id /\ d = "executed")
  BY <1>0, <1>2
<1>5. \A s \in Replicas : \A k \in told'[s] : \E i \in DOMAIN applied : applied[i] = k
  BY <1>4 DEF IInv, AuditTruthful
<1>6. ASSUME NEW n \in DOMAIN sends, sends'[n].kind = "approve", sends'[n].answer = "ok"
      PROVE  sends'[n].id \in told'[sends'[n].at]
  <2>1. CASE sends'[n] = sends[n]
    <3>1. sends[n].id \in told[sends[n].at]
      BY <1>6, <2>1 DEF IInv, AuditTruthful
    <3>2. sends[n] \in SendRec
      BY <1>0
    <3>3. sends[n].at \in Replicas
      BY <3>2 DEF SendRec
    <3>4. QED  BY <1>4, <2>1, <3>1, <3>3
  <2>2. CASE sends'[n].at = r /\ sends'[n].id = id /\ d = "executed"
    BY <1>0, <1>2, <2>2
  <2>3. QED  BY <1>6, <2>1, <2>2
<1>7. QED  BY <1>2, <1>3, <1>5, <1>6 DEF AuditTruthful

\* Handling request n rewrites that request and no other.
LEMMA HandledFacts ==
    ASSUME IInv, NEW n \in DOMAIN sends, NEW m \in SendRec, sends' = [sends EXCEPT ![n] = m]
    PROVE  /\ sends' \in Seq(SendRec) /\ DOMAIN sends' = DOMAIN sends
           /\ sends'[n] = m /\ \A k \in DOMAIN sends : k # n => sends'[k] = sends[k]
<1>1. sends \in Seq(SendRec)
  BY TypeParts DEF IInv, RoutingType
<1>2. QED  BY <1>1

\* What the invariant says of one request that an approval handler serves.
LEMMA RequestFacts ==
    ASSUME IInv, NEW n \in DOMAIN sends
    PROVE  /\ sends[n] \in SendRec /\ sends[n].at \in Replicas /\ sends[n].id \in Nat
           /\ DOMAIN work = DOMAIN terms /\ Len(work) = Len(terms)
           /\ RoutingType /\ GateType
<1>1. RoutingType /\ GateType /\ Len(work) = Len(terms)
  BY TypeParts DEF IInv
<1>2. sends \in Seq(SendRec) /\ DOMAIN work = DOMAIN terms
  BY <1>1 DEF RoutingType, GateType, AuditType, audit
<1>3. sends[n] \in SendRec
  BY <1>2
<1>4. QED  BY <1>1, <1>2, <1>3 DEF SendRec

\* The claim moves the id from the queue to the request, and nobody else has it.
LEMMA ApproveClaimStep ==
    ASSUME IInv, NEW n \in DOMAIN sends, ApproveClaim(n)
    PROVE  IInv'
<1> DEFINE r  == sends[n].at
           id == sends[n].id
           claimed == [sends[n] EXCEPT !.pc = "claimed"]
<1>1. /\ sends[n] \in SendRec /\ r \in Replicas /\ id \in Nat /\ DOMAIN work = DOMAIN terms
      /\ RoutingType /\ GateType /\ Len(work) = Len(terms)
  BY RequestFacts
<1>2. /\ sends[n].pc = "serve" /\ sends[n].kind = "approve"
      /\ UNCHANGED <<up, crashes, holder, leader, tracker, terms, config, proposed, aged, paused,
                     recent, work, applied, audit>>
  BY DEF ApproveClaim, Serving, ElectionUnchanged
<1>3. sends[n].answer # "ok"
  BY <1>2 DEF IInv, SendsOK
<1>4. CASE ~(id \in pending[r] /\ id \notin aged)
  <2> DEFINE m == Answered(sends[n], "refused")
  <2>1. sends' = [sends EXCEPT ![n] = m] /\ pending' = pending
    BY <1>4 DEF ApproveClaim, Reply
  <2>2. /\ m \in SendRec /\ m.kind = sends[n].kind /\ m.id = id
        /\ m.pc = "done" /\ m.answer # "ok"
    BY <1>1, <1>3, AnsweredFacts DEF Answers
  <2> HIDE DEF m
  <2>3. sends' \in Seq(SendRec) /\ Routed
    BY <2>1, <2>2, RoutedOne DEF IInv, Approving
  <2>4. RoutingType' /\ TermsKept /\ UNCHANGED gate
    BY <1>1, <1>2, <2>1, <2>3 DEF RoutingType, TermsKept, gate, audit
  <2>5. QED  BY <2>3, <2>4, RoutingStep
<1>5. CASE id \in pending[r] /\ id \notin aged
  <2>1. sends' = [sends EXCEPT ![n] = claimed] /\ pending' = [pending EXCEPT ![r] = pending[r] \ {id}]
    BY <1>1, <1>5 DEF ApproveClaim
  <2>2. /\ claimed \in SendRec /\ claimed.kind = "approve" /\ claimed.id = id
        /\ claimed.pc = "claimed" /\ claimed.answer # "ok"
    BY <1>1, <1>2, <1>3 DEF SendRec
  <2> HIDE DEF claimed
  <2>3. /\ sends' \in Seq(SendRec) /\ DOMAIN sends' = DOMAIN sends
        /\ sends'[n] = claimed /\ \A k \in DOMAIN sends : k # n => sends'[k] = sends[k]
    BY <2>1, <2>2, HandledFacts
  <2>4. /\ pending' \in [Replicas -> SUBSET (1..Len(proposed))]
        /\ \A s \in Replicas : pending'[s] \subseteq pending[s]
        /\ id \notin pending'[r]
    BY <1>1, <2>1 DEF GateType, AuditType, audit
  <2>5. /\ id \in DOMAIN proposed /\ ~Spent(id)
        /\ \A s \in Replicas : s # r => id \notin pending[s]
        /\ \A k \in DOMAIN sends : sends[k].pc = "claimed" => sends[k].id # id
        /\ config.mode = "approve"
    <3>1. id \in DOMAIN proposed
      BY <1>2 DEF IInv, SendsOK
    <3>2. ~Spent(id)
      BY <1>1, <1>5 DEF IInv, HeldUnspent
    <3>3. /\ \A s \in Replicas : s # r => id \notin pending[s]
          /\ \A k \in DOMAIN sends : sends[k].pc = "claimed" => sends[k].id # id
      BY <1>1, <1>5 DEF IInv, OneHolder
    <3>4. config.mode = "approve"
      BY <1>1, <1>5 DEF IInv, ModeOK
    <3>5. QED  BY <3>1, <3>2, <3>3, <3>4
  <2>6. \A k : Spent(k)' <=> Spent(k)
    BY <1>2 DEF Spent
  <2>7. TypeOK'
    BY <1>1, <1>2, <2>3, <2>4, TypeNext DEF RoutingType, GateType, AuditType, audit
  <2>8. SendsOK'
    BY <1>2, <2>2, <2>3, <2>5, <2>6 DEF IInv, SendsOK
  <2>9. WorkOK' /\ PassedBefore' /\ ModeOK'
    BY <1>2, <2>5, <2>6 DEF IInv, WorkOK, PassedBefore, ModeOK
  <2>10. OneHolder'
    BY SMTT(30), <1>2, <2>2, <2>3, <2>4, <2>5 DEF IInv, OneHolder
  <2>11. HeldUnspent'
    BY <1>2, <2>2, <2>3, <2>4, <2>5, <2>6 DEF IInv, HeldUnspent
  <2>12. RejectStands'
    <3>1. \A k \in DOMAIN sends : sends[k].kind = "reject" /\ sends[k].answer = "ok" => sends[k].id # id
      BY <1>1, <1>5, <2>5 DEF IInv, RejectStands
    <3>2. QED  BY <1>2, <2>2, <2>3, <2>4, <2>6, <3>1 DEF IInv, RejectStands
  <2>13. AppliedOK' /\ AtMostOnce'
    BY <1>2, <2>2, <2>3 DEF IInv, AppliedOK, AtMostOnce
  <2>14. AuditTruthful'
    BY <1>2, <2>2, <2>3 DEF IInv, AuditTruthful, audit, Says
  <2>15. QED
    BY <2>7, <2>8, <2>9, <2>10, <2>11, <2>12, <2>13, <2>14 DEF IInv
<1>6. QED  BY <1>4, <1>5

\* The patch spends the id that the request had claimed.
LEMMA ApproveExecuteStep ==
    ASSUME IInv, NEW n \in DOMAIN sends, NEW o \in {"patched", "error"}, ApproveExecute(n, o)
    PROVE  IInv'
<1> DEFINE r  == sends[n].at
           id == sends[n].id
<1>1. /\ sends[n] \in SendRec /\ r \in Replicas /\ id \in Nat /\ DOMAIN work = DOMAIN terms
      /\ RoutingType /\ GateType /\ Len(work) = Len(terms)
  BY RequestFacts
<1>2. /\ sends[n].pc = "claimed" /\ sends[n].kind = "approve"
      /\ UNCHANGED <<up, crashes, holder, leader, tracker, terms, config, proposed, pending, aged,
                     paused, recent, work>>
  BY DEF ApproveExecute, ElectionUnchanged, IInv, SendsOK, Approving
<1>3. /\ sends[n].answer # "ok" /\ id \in DOMAIN proposed /\ ~Spent(id)
      /\ config.mode = "approve" /\ \A s \in Replicas : id \notin pending[s]
      /\ \A k \in DOMAIN sends : k # n /\ sends[k].pc = "claimed" => sends[k].id # id
  <2>1. sends[n].answer # "ok" /\ id \in DOMAIN proposed
    BY <1>2 DEF IInv, SendsOK
  <2>2. ~Spent(id)
    BY <1>2 DEF IInv, HeldUnspent
  <2>3. config.mode = "approve"
    BY <1>2 DEF IInv, ModeOK
  <2>4. /\ \A s \in Replicas : id \notin pending[s]
        /\ \A k \in DOMAIN sends : k # n /\ sends[k].pc = "claimed" => sends[k].id # id
    BY <1>2 DEF IInv, OneHolder
  <2>5. QED  BY <2>1, <2>2, <2>3, <2>4
<1>4. CASE violation(deriveSafety(proposed[id]))
  <2> DEFINE m == Answered(sends[n], "failed")
  <2>1. sends' = [sends EXCEPT ![n] = m] /\ applied' = applied /\ Log(r, id, "denied")
    BY <1>4 DEF ApproveExecute, Reply
  <2>2. /\ m \in SendRec /\ m.kind = sends[n].kind /\ m.id = id
        /\ m.pc = "done" /\ m.answer # "ok"
    BY <1>1, <1>3, AnsweredFacts DEF Answers
  <2> HIDE DEF m
  <2>3. /\ sends' \in Seq(SendRec) /\ DOMAIN sends' = DOMAIN sends
        /\ sends'[n] = m /\ \A k \in DOMAIN sends : k # n => sends'[k] = sends[k]
    BY <2>1, <2>2, HandledFacts
  <2>4. AuditTruthful' /\ AuditType'
    BY <1>1, <1>2, <2>1, <2>2, <2>3, AuditGrows DEF Decisions
  <2>5. TypeOK'
    BY <1>1, <1>2, <2>1, <2>3, <2>4, TypeNext DEF RoutingType, GateType, AuditType, audit
  <2>6. \A k : Spent(k)' <=> Spent(k)
    BY <2>1 DEF Spent
  <2>7. SendsOK'
    BY <1>2, <2>2, <2>3, <2>6 DEF IInv, SendsOK, Approving
  <2>8. WorkOK' /\ PassedBefore' /\ ModeOK'
    BY <1>2, <2>2, <2>3, <2>6 DEF IInv, WorkOK, PassedBefore, ModeOK
  <2>9. OneHolder' /\ HeldUnspent'
    BY <1>2, <2>2, <2>3, <2>6 DEF IInv, OneHolder, HeldUnspent
  <2>10. RejectStands'
    BY <1>2, <2>2, <2>3, <2>6 DEF IInv, RejectStands
  <2>11. AppliedOK' /\ AtMostOnce'
    BY <1>2, <2>1, <2>2, <2>3 DEF IInv, AppliedOK, AtMostOnce
  <2>13. QED
    BY <2>4, <2>5, <2>7, <2>8, <2>9, <2>10, <2>11 DEF IInv
<1>5. CASE ~violation(deriveSafety(proposed[id]))
  <2> DEFINE m == [sends[n] EXCEPT !.pc = o]
  <2>1. sends' = [sends EXCEPT ![n] = m] /\ UNCHANGED audit /\ Executes(id, ~sends[n].cut, o)
    BY <1>5 DEF ApproveExecute, NoLog, audit
  <2>2. /\ m \in SendRec /\ m.kind = "approve" /\ m.id = id /\ m.at = r
        /\ m.pc = o /\ m.answer # "ok"
    BY <1>1, <1>2, <1>3 DEF SendRec
  <2> HIDE DEF m
  <2>3. /\ sends' \in Seq(SendRec) /\ DOMAIN sends' = DOMAIN sends
        /\ sends'[n] = m /\ \A k \in DOMAIN sends : k # n => sends'[k] = sends[k]
    BY <2>1, <2>2, HandledFacts
  <2>4. applied \in Seq(1..Len(proposed)) /\ id \in 1..Len(proposed)
    BY <1>1, <1>3 DEF GateType, AuditType, audit
  <2>5. /\ applied' \in Seq(1..Len(proposed))
        /\ \A i \in DOMAIN applied : i \in DOMAIN applied' /\ applied'[i] = applied[i]
        /\ \A i \in DOMAIN applied' : i \in DOMAIN applied \/ (i = Len(applied) + 1 /\ applied'[i] = id)
        /\ \A i \in DOMAIN applied' : i \in DOMAIN applied \/ proposed[id].op \in Known
        /\ o = "patched" => \E i \in DOMAIN applied' : applied'[i] = id
        /\ \A k : k # id => (Spent(k)' <=> Spent(k))
    <3>1. CASE applied' = Append(applied, id) /\ proposed[id].op \in Known
      <4>1. applied' = Append(applied, id) /\ proposed[id].op \in Known
        BY <3>1
      <4>2. /\ applied' \in Seq(1..Len(proposed))
            /\ DOMAIN applied' = DOMAIN applied \cup {Len(applied) + 1}
            /\ applied'[Len(applied) + 1] = id
            /\ \A i \in DOMAIN applied : applied'[i] = applied[i]
        BY <2>4, <4>1
      <4>3. \A i \in DOMAIN applied' : i \in DOMAIN applied \/ (i = Len(applied) + 1 /\ applied'[i] = id)
        BY <4>2
      <4>4. \A k : k # id => (Spent(k)' <=> Spent(k))
        BY <4>2, <4>3 DEF Spent
      <4>5. QED  BY <4>1, <4>2, <4>3, <4>4
    <3>2. CASE o = "error" /\ applied' = applied
      BY <2>4, <3>2 DEF Spent
    <3>3. QED  BY <2>1, <3>1, <3>2 DEF Executes
  <2>6. TypeOK'
    BY <1>1, <1>2, <2>1, <2>3, <2>5, TypeNext DEF RoutingType, GateType, AuditType, audit
  <2>7. SendsOK'
    <3>1. \A k : Spent(k) => Spent(k)'
      BY <2>5 DEF Spent
    <3>2. QED  BY SMTT(30), <1>2, <1>3, <2>2, <2>3, <2>5, <3>1 DEF IInv, SendsOK, Approving, Spent
  <2>8. ModeOK' /\ PassedBefore'
    BY <1>2, <1>3 DEF IInv, ModeOK, PassedBefore
  <2>9. WorkOK'
    <3>1. \A k : Spent(k) => Spent(k)'
      BY <2>5 DEF Spent
    <3>2. QED  BY <1>2, <3>1 DEF IInv, WorkOK
  <2>10. OneHolder'
    BY <1>2, <2>2, <2>3 DEF IInv, OneHolder
  <2>11. HeldUnspent'
    <3>1. \A t \in DOMAIN work : work[t].pc = "idle"
      BY <1>3 DEF IInv, ModeOK
    <3>2. \A s \in Replicas : \A k \in pending'[s] : ~Spent(k)'
      BY <1>2, <1>3, <2>5 DEF IInv, HeldUnspent
    <3>3. ASSUME NEW k \in DOMAIN sends, sends'[k].pc = "claimed"
          PROVE  \A i \in DOMAIN applied' : applied'[i] # sends'[k].id
      <4>1. k # n /\ sends'[k] = sends[k]
        BY <2>2, <2>3, <3>3
      <4>2. sends[k].id # id /\ ~Spent(sends[k].id)
        BY <1>3, <3>3, <4>1 DEF IInv, HeldUnspent
      <4>3. QED  BY <2>5, <4>1, <4>2 DEF Spent
    <3>4. QED  BY <1>2, <2>3, <3>1, <3>2, <3>3 DEF HeldUnspent, Working, Spent
  <2>12. RejectStands'
    <3>1. \A k \in DOMAIN sends : sends[k].kind = "reject" /\ sends[k].answer = "ok" => sends[k].id # id
      BY <1>2, <1>3 DEF IInv, RejectStands
    <3>2. ASSUME NEW k \in DOMAIN sends, sends'[k].kind = "reject", sends'[k].answer = "ok"
          PROVE  /\ sends'[k] = sends[k] /\ \A i \in DOMAIN applied' : applied'[i] # sends[k].id
                 /\ \A s \in Replicas : sends[k].id \notin pending[s]
                 /\ \A j \in DOMAIN sends : sends'[j].pc = "claimed" => sends'[j].id # sends[k].id
      <4>1. k # n /\ sends'[k] = sends[k]
        BY <2>2, <2>3, <3>2
      <4>2. /\ ~Spent(sends[k].id) /\ \A s \in Replicas : sends[k].id \notin pending[s]
            /\ \A j \in DOMAIN sends : sends[j].pc = "claimed" => sends[j].id # sends[k].id
        BY <1>3, <3>2, <4>1 DEF IInv, RejectStands
      <4>3. sends[k].id # id
        BY <3>1, <3>2, <4>1
      <4>4. \A i \in DOMAIN applied' : applied'[i] # sends[k].id
        BY <1>2, <2>5, <4>2, <4>3 DEF Spent
      <4>5. QED  BY <2>2, <2>3, <4>1, <4>2, <4>4
    <3>3. QED  BY <1>2, <2>3, <3>2 DEF RejectStands, Spent
  <2>13. AppliedOK'
    <3>1. ASSUME NEW i \in DOMAIN applied'
          PROVE  proposed[applied'[i]].op \in Known
      <4>1. CASE i \in DOMAIN applied
        BY <2>5, <4>1 DEF IInv, AppliedOK
      <4>2. CASE i \notin DOMAIN applied
        BY <2>5, <4>2
      <4>3. QED  BY <4>1, <4>2
    <3>2. ASSUME NEW i \in DOMAIN applied'
          PROVE  \E k \in DOMAIN sends : sends[k].kind = "approve" /\ sends[k].id = applied'[i]
      <4>1. CASE i \in DOMAIN applied
        BY <1>3, <2>5, <4>1 DEF IInv, AppliedOK
      <4>2. CASE i \notin DOMAIN applied
        BY <1>2, <2>5, <4>2
      <4>3. QED  BY <4>1, <4>2
    <3>3. \A k \in DOMAIN sends : sends'[k].kind = sends[k].kind /\ sends'[k].id = sends[k].id
      BY <1>2, <2>2, <2>3
    <3>4. QED  BY <1>2, <2>3, <3>1, <3>2, <3>3 DEF AppliedOK
  <2>14. AtMostOnce'
    BY <1>3, <2>5 DEF IInv, AtMostOnce, Spent
  <2>15. AuditTruthful'
    <3>1. \A k \in DOMAIN sends : sends'[k].answer = "ok" => sends'[k] = sends[k]
      BY <2>2, <2>3
    <3>2. \A k : (\E i \in DOMAIN applied : applied[i] = k) => \E i \in DOMAIN applied' : applied'[i] = k
      BY <2>5
    <3>3. \A s \in Replicas : \A k \in DOMAIN files[s] : Says(files[s][k], files[s][k].id) =>
              \E i \in DOMAIN applied' : applied'[i] = files[s][k].id
      BY <3>2 DEF IInv, AuditTruthful
    <3>4. \A s \in Replicas : \A k \in told[s] : \E i \in DOMAIN applied' : applied'[i] = k
      BY <3>2 DEF IInv, AuditTruthful
    <3>5. files' = files /\ told' = told
      BY <2>1 DEF audit
    <3>6. \A k \in DOMAIN sends : sends'[k].kind = "approve" /\ sends'[k].answer = "ok" =>
              sends'[k].id \in told[sends'[k].at]
      BY <3>1 DEF IInv, AuditTruthful
    <3>7. QED  BY <2>3, <3>3, <3>4, <3>5, <3>6 DEF AuditTruthful
  <2>16. QED
    BY <2>6, <2>7, <2>8, <2>9, <2>10, <2>11, <2>12, <2>13, <2>14, <2>15 DEF IInv
<1>6. QED  BY <1>4, <1>5

\* The record follows the outcome; only a patch is answered with success.
LEMMA ApproveRecordStep ==
    ASSUME IInv, NEW n \in DOMAIN sends, ApproveRecord(n)
    PROVE  IInv'
<1> DEFINE r  == sends[n].at
           id == sends[n].id
           d  == IF sends[n].pc = "patched" THEN "executed" ELSE "failed"
           m  == Answered(sends[n], IF sends[n].pc = "patched" THEN "ok" ELSE "failed")
<1>1. /\ sends[n] \in SendRec /\ r \in Replicas /\ id \in Nat /\ DOMAIN work = DOMAIN terms
      /\ RoutingType /\ GateType /\ Len(work) = Len(terms)
  BY RequestFacts
<1>2. /\ sends[n].pc \in {"patched", "error"} /\ sends[n].kind = "approve"
      /\ Log(r, id, d) /\ d \in Decisions /\ sends' = [sends EXCEPT ![n] = m]
      /\ UNCHANGED <<up, crashes, holder, leader, tracker, terms, config, proposed, pending, aged,
                     paused, recent, work, applied>>
  BY DEF ApproveRecord, Reply, ElectionUnchanged, IInv, SendsOK, Approving, Decisions
<1>3. /\ sends[n].answer # "ok"
      /\ sends[n].pc = "patched" => \E i \in DOMAIN applied : applied[i] = id
  BY <1>2 DEF IInv, SendsOK, Spent
<1>4. /\ m \in SendRec /\ m.kind = "approve" /\ m.id = id /\ m.at = r
      /\ m.pc = "done" /\ (m.answer = "ok" => d = "executed")
  BY <1>1, <1>2, <1>3, AnsweredFacts DEF Answers
<1>5. d = "executed" => \E i \in DOMAIN applied : applied[i] = id
  BY <1>3
<1> HIDE DEF m, d
<1>6. /\ sends' \in Seq(SendRec) /\ DOMAIN sends' = DOMAIN sends
      /\ sends'[n] = m /\ \A k \in DOMAIN sends : k # n => sends'[k] = sends[k]
  BY <1>2, <1>4, HandledFacts
<1>7. AuditTruthful' /\ AuditType'
  <2>1. \A k \in DOMAIN sends : sends'[k].kind = "approve" /\ sends'[k].answer = "ok" =>
            sends'[k] = sends[k] \/ (sends'[k].at = r /\ sends'[k].id = id /\ d = "executed")
    BY <1>4, <1>6
  <2>2. PICK x, s, e : x = id /\ s = r /\ e = d
    OBVIOUS
  <2>3. /\ s \in Replicas /\ x \in Nat /\ e \in Decisions /\ Log(s, x, e)
        /\ e = "executed" => \E i \in DOMAIN applied : applied[i] = x
        /\ \A k \in DOMAIN sends : sends'[k].kind = "approve" /\ sends'[k].answer = "ok" =>
               sends'[k] = sends[k] \/ (sends'[k].at = s /\ sends'[k].id = x /\ e = "executed")
    BY <1>1, <1>2, <1>5, <2>1, <2>2
  <2>4. QED  BY <1>2, <1>6, <2>3, AuditGrows
<1>8. TypeOK'
  BY <1>1, <1>2, <1>6, <1>7, TypeNext DEF RoutingType, GateType, AuditType, audit
<1>9. \A k : Spent(k)' <=> Spent(k)
  BY <1>2 DEF Spent
<1>10. SendsOK'
  BY <1>2, <1>4, <1>6, <1>9 DEF IInv, SendsOK, Approving
<1>11. WorkOK' /\ PassedBefore'
  BY <1>2, <1>9 DEF IInv, WorkOK, PassedBefore
<1>12. ModeOK' /\ OneHolder' /\ HeldUnspent'
  BY <1>2, <1>4, <1>6, <1>9 DEF IInv, ModeOK, OneHolder, HeldUnspent
<1>13. RejectStands'
  BY <1>2, <1>4, <1>6, <1>9 DEF IInv, RejectStands
<1>14. AppliedOK' /\ AtMostOnce'
  BY <1>2, <1>4, <1>6 DEF IInv, AppliedOK, AtMostOnce
<1>16. QED
  BY <1>7, <1>8, <1>10, <1>11, <1>12, <1>13, <1>14 DEF IInv

\* A reject and a list only take ids out of the queue; the id of an acknowledged
\* reject was waiting, so nobody has it, now or later.
LEMMA RejectStep ==
    ASSUME IInv, NEW n \in DOMAIN sends, Reject(n) \/ List(n)
    PROVE  IInv'
<1> DEFINE r  == sends[n].at
           id == sends[n].id
           m  == sends'[n]
<1>1. /\ sends[n] \in SendRec /\ r \in Replicas /\ id \in Nat /\ DOMAIN work = DOMAIN terms
      /\ RoutingType /\ GateType /\ Len(work) = Len(terms)
  BY RequestFacts
<1>2. /\ sends[n].pc = "serve" /\ sends[n].kind \in {"reject", "list"}
      /\ UNCHANGED <<up, crashes, holder, leader, tracker, terms, config, proposed, aged,
                     paused, recent, work, applied, audit>>
  BY DEF Reject, List, Serving, ElectionUnchanged
<1>3. sends[n].answer # "ok"
  BY <1>2 DEF IInv, SendsOK
<1>4. PICK a \in {"ok", "refused"} : sends' = [sends EXCEPT ![n] = Answered(sends[n], a)]
          /\ (sends[n].kind = "reject" /\ a = "ok" => id \in pending[r])
  BY <1>2 DEF Reject, List, Reply, Serving
<1>5. /\ Answered(sends[n], a) \in SendRec /\ Answered(sends[n], a).kind = sends[n].kind
      /\ Answered(sends[n], a).id = id /\ Answered(sends[n], a).pc = "done"
      /\ Answered(sends[n], a).answer = "ok" => a = "ok"
  BY <1>1, <1>3, AnsweredFacts DEF Answers
<1>6. /\ sends' \in Seq(SendRec) /\ DOMAIN sends' = DOMAIN sends
      /\ m = Answered(sends[n], a) /\ \A k \in DOMAIN sends : k # n => sends'[k] = sends[k]
  BY <1>4, <1>5, HandledFacts
<1>7. /\ m.kind = sends[n].kind /\ m.id = id /\ m.pc = "done"
      /\ m.kind = "reject" /\ m.answer = "ok" => id \in pending[r] /\ sends[n].kind = "reject"
  BY <1>4, <1>5, <1>6
<1> HIDE DEF m
<1>8. /\ pending' \in [Replicas -> SUBSET (1..Len(proposed))]
      /\ \A s \in Replicas : pending'[s] \subseteq pending[s]
      /\ sends[n].kind = "reject" => id \notin pending'[r]
  <2> DEFINE Q == SUBSET (1..Len(proposed))
  <2>1. pending \in [Replicas -> Q]
    BY <1>1 DEF GateType, AuditType, audit
  <2>2. PICK gone : pending' = [pending EXCEPT ![r] = @ \ gone] /\ (sends[n].kind = "reject" => id \in gone)
    <3>1. CASE Reject(n)
      <4>1. pending' = [pending EXCEPT ![r] = @ \ {id}]
        BY <3>1 DEF Reject
      <4>2. QED  BY <4>1
    <3>2. CASE List(n)
      <4>1. pending' = [pending EXCEPT ![r] = @ \ aged] /\ sends[n].kind = "list"
        BY <3>2 DEF List, Serving
      <4>2. QED  BY <4>1
    <3>3. QED  BY <3>1, <3>2
  <2>3. pending[r] \ gone \in Q /\ pending[r] \ gone \subseteq pending[r]
    BY <1>1, <2>1
  <2> HIDE DEF Q
  <2>4. pending' \in [Replicas -> Q]
    BY <1>1, <2>1, <2>2, <2>3
  <2>5. pending'[r] = pending[r] \ gone /\ \A s \in Replicas : s # r => pending'[s] = pending[s]
    BY <1>1, <2>1, <2>2
  <2>6. QED  BY <2>2, <2>3, <2>4, <2>5 DEF Q
<1>9. TypeOK'
  BY <1>1, <1>2, <1>6, <1>8, TypeNext DEF RoutingType, GateType, AuditType, audit
<1>10. \A k : Spent(k)' <=> Spent(k)
  BY <1>2 DEF Spent
<1>11. SendsOK'
  BY <1>2, <1>6, <1>7, <1>10 DEF IInv, SendsOK, Approving, m
<1>12. WorkOK' /\ PassedBefore'
  BY <1>2, <1>10 DEF IInv, WorkOK, PassedBefore
<1>13. ModeOK' /\ OneHolder' /\ HeldUnspent'
  BY SMTT(30), <1>2, <1>6, <1>7, <1>8, <1>10 DEF IInv, ModeOK, OneHolder, HeldUnspent, m
<1>14. RejectStands'
  <2>1. ASSUME config.mode = "approve",
               NEW k \in DOMAIN sends, sends'[k].kind = "reject", sends'[k].answer = "ok"
        PROVE  /\ ~Spent(sends[k].id) /\ sends'[k].id = sends[k].id
               /\ \A s \in Replicas : sends[k].id \notin pending'[s]
               /\ \A j \in DOMAIN sends : sends'[j].pc = "claimed" => sends'[j].id # sends[k].id
    <3>1. CASE k # n
      <4>1. /\ sends'[k] = sends[k] /\ ~Spent(sends[k].id)
            /\ \A s \in Replicas : sends[k].id \notin pending[s]
            /\ \A j \in DOMAIN sends : sends[j].pc = "claimed" => sends[j].id # sends[k].id
        BY <1>6, <2>1, <3>1 DEF IInv, RejectStands
      <4>2. QED  BY <1>6, <1>7, <1>8, <4>1 DEF m
    <3>2. CASE k = n
      <4>1. id \in pending[r] /\ id \notin pending'[r]
        BY <1>7, <1>8, <2>1, <3>2 DEF m
      <4>2. ~Spent(id)
        BY <1>1, <4>1 DEF IInv, HeldUnspent
      <4>3. /\ \A s \in Replicas : s # r => id \notin pending[s]
            /\ \A j \in DOMAIN sends : sends[j].pc = "claimed" => sends[j].id # id
        BY <1>1, <4>1 DEF IInv, OneHolder
      <4>4. QED  BY <1>6, <1>7, <1>8, <3>2, <4>1, <4>2, <4>3 DEF m
    <3>3. QED  BY <3>1, <3>2
  <2>2. QED  BY <1>2, <1>6, <2>1 DEF RejectStands, Spent
<1>15. AppliedOK' /\ AtMostOnce'
  BY <1>2, <1>6, <1>7 DEF IInv, AppliedOK, AtMostOnce, m
<1>16. AuditTruthful'
  <2>1. \A k \in DOMAIN sends : sends'[k].kind = "approve" => sends'[k] = sends[k]
    BY <1>2, <1>6, <1>7 DEF m
  <2>2. QED  BY <1>2, <1>6, <2>1 DEF IInv, AuditTruthful, audit, Says
<1>17. QED
  BY <1>9, <1>11, <1>12, <1>13, <1>14, <1>15, <1>16 DEF IInv

\* The kill switch: a pause marks every worker that is already past it.
LEMMA SwitchStep ==
    ASSUME IInv, NEW n \in DOMAIN sends, Pause(n) \/ Resume(n)
    PROVE  IInv'
<1> DEFINE r == sends[n].at
           m == Answered(sends[n], "ok")
           marked(t) == IF terms[t].at = r /\ work[t].pc \in {"reserve", "execute"}
                        THEN [work[t] EXCEPT !.cleared = TRUE] ELSE work[t]
<1>1. /\ sends[n] \in SendRec /\ r \in Replicas /\ DOMAIN work = DOMAIN terms
      /\ RoutingType /\ GateType /\ Len(work) = Len(terms)
  BY RequestFacts
<1>2. /\ sends[n].pc = "serve" /\ sends[n].kind \in {"pause", "resume"}
      /\ sends' = [sends EXCEPT ![n] = m]
      /\ UNCHANGED <<up, crashes, holder, leader, tracker, terms, config, proposed, pending, aged,
                     recent, applied, audit>>
  BY DEF Pause, Resume, Serving, Reply, ElectionUnchanged
<1>3. m \in SendRec /\ m.kind = sends[n].kind /\ m.id = sends[n].id /\ m.pc = "done"
  BY <1>1, AnsweredFacts DEF Answers
<1> HIDE DEF m
<1>4. /\ sends' \in Seq(SendRec) /\ DOMAIN sends' = DOMAIN sends
      /\ sends'[n] = m /\ \A k \in DOMAIN sends : k # n => sends'[k] = sends[k]
  BY <1>2, <1>3, HandledFacts
<1>5. \A t \in DOMAIN work : /\ work[t] \in WorkRec /\ marked(t) \in WorkRec
                             /\ marked(t).pc = work[t].pc /\ marked(t).id = work[t].id
                             /\ work[t].cleared => marked(t).cleared
  <2> SUFFICES ASSUME NEW t \in DOMAIN work
               PROVE  /\ work[t] \in WorkRec /\ marked(t) \in WorkRec
                      /\ marked(t).pc = work[t].pc /\ marked(t).id = work[t].id
                      /\ work[t].cleared => marked(t).cleared
    OBVIOUS
  <2>1. work[t] \in WorkRec
    BY <1>1 DEF GateType, AuditType, audit
  <2>2. QED  BY <2>1 DEF WorkRec
<1>6. /\ work' \in Seq(WorkRec) /\ Len(work') = Len(work) /\ DOMAIN work' = DOMAIN work
      /\ \A t \in DOMAIN work : work'[t].pc = work[t].pc /\ work'[t].id = work[t].id
      /\ paused' \in [Replicas -> BOOLEAN]
  <2>1. CASE Pause(n)
    <3>1. work' = [t \in DOMAIN work |-> marked(t)] /\ paused' = [paused EXCEPT ![r] = TRUE]
      BY <2>1 DEF Pause
    <3> HIDE DEF marked
    <3>2. QED  BY <1>1, <1>5, <3>1 DEF GateType, AuditType, audit
  <2>2. CASE Resume(n)
    BY <1>1, <2>2 DEF Resume, GateType, AuditType, audit
  <2>3. QED  BY <2>1, <2>2
<1>7. TypeOK'
  BY <1>1, <1>2, <1>4, <1>6, TypeNext DEF RoutingType, GateType, AuditType, audit
<1>8. \A k : Spent(k)' <=> Spent(k)
  BY <1>2 DEF Spent
<1>9. SendsOK'
  BY <1>2, <1>3, <1>4, <1>8 DEF IInv, SendsOK, Approving
<1>10. WorkOK'
  BY <1>1, <1>2, <1>6, <1>8 DEF IInv, WorkOK
<1>11. ModeOK' /\ OneHolder' /\ HeldUnspent'
  <2>1. \A k \in DOMAIN sends : sends'[k].pc = "claimed" => sends[k].pc = "claimed" /\ sends'[k].id = sends[k].id
    BY <1>3, <1>4
  <2>2. ModeOK'
    BY <1>2, <1>4, <1>6, <2>1 DEF IInv, ModeOK
  <2>3. OneHolder'
    <3>1. \A t, u \in DOMAIN work' :
              work'[t].pc \in Working /\ work'[u].pc \in Working /\ work'[t].id = work'[u].id => t = u
      BY <1>6 DEF IInv, OneHolder
    <3>2. QED  BY <1>2, <1>4, <2>1, <3>1 DEF IInv, OneHolder
  <2>4. HeldUnspent'
    BY <1>2, <1>4, <1>6, <1>8, <2>1 DEF IInv, HeldUnspent
  <2>5. QED  BY <2>2, <2>3, <2>4
<1>12. RejectStands'
  BY <1>2, <1>3, <1>4, <1>8 DEF IInv, RejectStands
<1>13. AppliedOK' /\ AtMostOnce'
  BY <1>2, <1>3, <1>4 DEF IInv, AppliedOK, AtMostOnce
<1>14. AuditTruthful'
  BY <1>2, <1>3, <1>4 DEF IInv, AuditTruthful, audit, Says
<1>15. PassedBefore'
  <2>1. CASE Pause(n)
    <3>1. work' = [t \in DOMAIN work |-> marked(t)] /\ paused' = [paused EXCEPT ![r] = TRUE]
      BY <2>1 DEF Pause
    <3>2. QED  BY <1>1, <1>2, <1>5, <3>1 DEF IInv, PassedBefore, GateType, AuditType, audit
  <2>2. CASE Resume(n)
    <3>1. work' = work /\ paused' = [paused EXCEPT ![r] = FALSE]
      BY <2>2 DEF Resume
    <3>2. \A s \in Replicas : paused'[s] => paused[s]
      <4>1. paused \in [Replicas -> BOOLEAN]
        BY <1>1 DEF GateType
      <4>2. \A s \in Replicas : paused'[s] = IF s = r THEN FALSE ELSE paused[s]
        BY <3>1, <4>1, Zenon
      <4>3. QED  BY <4>2, Zenon
    <3>3. \A t \in DOMAIN work : terms[t].at \in Replicas
      <4>1. terms \in Seq(TermRec) /\ DOMAIN work = DOMAIN terms
        BY <1>1 DEF RoutingType
      <4>2. \A t \in DOMAIN terms : terms[t] \in TermRec
        BY <4>1
      <4>3. QED  BY <4>1, <4>2 DEF TermRec
    <3>4. QED  BY <1>2, <3>1, <3>2, <3>3 DEF IInv, PassedBefore
  <2>3. QED  BY <2>1, <2>2
<1>16. QED
  BY <1>7, <1>9, <1>10, <1>11, <1>12, <1>13, <1>14, <1>15 DEF IInv

-----------------------------------------------------------------------------
(* The workers.                                                            *)

\* A worker is a worker of its process, and its id stays what it is.
LEMMA WorkerFacts ==
    ASSUME IInv, NEW t \in DOMAIN terms
    PROVE  /\ terms[t] \in TermRec /\ work[t] \in WorkRec /\ terms[t].at \in Replicas
           /\ DOMAIN work = DOMAIN terms /\ Len(work) = Len(terms)
           /\ RoutingType /\ GateType
           /\ \A x \in WorkRec : [work EXCEPT ![t] = x] \in Seq(WorkRec)
<1>1. RoutingType /\ GateType /\ Len(work) = Len(terms)
  BY TypeParts DEF IInv
<1>2. terms \in Seq(TermRec) /\ work \in Seq(WorkRec) /\ DOMAIN work = DOMAIN terms
  BY <1>1 DEF RoutingType, GateType, AuditType, audit
<1>3. terms[t] \in TermRec /\ work[t] \in WorkRec
  BY <1>2
<1>4. QED  BY <1>1, <1>2, <1>3 DEF TermRec

\* A proposed action gets an id nobody has seen, and every earlier id its action.
LEMMA ProposeFacts ==
    ASSUME IInv, NEW t \in DOMAIN terms, NEW a \in Review(Actions), Propose(t, a)
    PROVE  /\ proposed' \in Seq(Review(Actions)) /\ Len(proposed') = Len(proposed) + 1
           /\ Len(proposed') \in DOMAIN proposed'
           /\ \A i \in DOMAIN proposed : i \in DOMAIN proposed' /\ proposed'[i] = proposed[i]
           /\ 1..Len(proposed) \subseteq 1..Len(proposed') /\ applied \in Seq(1..Len(proposed'))
           /\ \A i \in DOMAIN applied : applied[i] \in DOMAIN proposed
           /\ \A r \in Replicas : pending[r] \subseteq 1..Len(proposed)
           /\ Len(proposed') \notin 1..Len(proposed) /\ ~Spent(Len(proposed'))
           /\ Len(proposed') \in Nat /\ DOMAIN proposed = 1..Len(proposed)
<1>1. /\ proposed \in Seq(Review(Actions)) /\ applied \in Seq(1..Len(proposed))
      /\ \A r \in Replicas : pending[r] \subseteq 1..Len(proposed)
      /\ proposed' = Append(proposed, a)
  BY TypeParts DEF IInv, GateType, Propose, AuditType, audit
<1>2. /\ Len(proposed) \in Nat /\ Len(proposed') = Len(proposed) + 1
      /\ proposed' \in Seq(Review(Actions)) /\ DOMAIN proposed' = 1..(Len(proposed) + 1)
      /\ DOMAIN proposed = 1..Len(proposed)
      /\ \A i \in DOMAIN proposed : proposed'[i] = proposed[i]
  BY <1>1
<1>3. 1..Len(proposed) \subseteq 1..Len(proposed') /\ Len(proposed') \notin 1..Len(proposed)
  BY <1>2
<1>4. \A i \in DOMAIN applied : applied[i] \in 1..Len(proposed)
  BY <1>1
<1>5. applied \in Seq(1..Len(proposed'))
  BY <1>1, <1>3, <1>4
<1>6. ~Spent(Len(proposed'))
  BY <1>3, <1>4 DEF Spent
<1>7. QED  BY <1>1, <1>2, <1>3, <1>4, <1>5, <1>6

\* Registering a proposal, with the eviction of the old ones, keeps the invariant.
LEMMA RegisterStep ==
    ASSUME IInv, NEW t \in DOMAIN terms, NEW a \in Review(Actions), Register(t, a)
    PROVE  IInv'
<1> DEFINE r == terms[t].at
<1>1. /\ r \in Replicas /\ DOMAIN work = DOMAIN terms /\ Len(work) = Len(terms)
      /\ RoutingType /\ GateType
  BY WorkerFacts
<1>2. /\ Propose(t, a) /\ config.mode = "approve"
      /\ UNCHANGED <<routing, config, aged, paused, recent, applied, work, audit>>
  BY DEF Register, Propose
<1>3. PICK id : id = Len(proposed')
  OBVIOUS
<1>4. /\ proposed' \in Seq(Review(Actions)) /\ id \in DOMAIN proposed' /\ id = Len(proposed')
      /\ \A i \in DOMAIN proposed : i \in DOMAIN proposed' /\ proposed'[i] = proposed[i]
      /\ 1..Len(proposed) \subseteq 1..Len(proposed') /\ applied \in Seq(1..Len(proposed'))
      /\ \A i \in DOMAIN applied : applied[i] \in DOMAIN proposed
      /\ \A s \in Replicas : pending[s] \subseteq 1..Len(proposed)
      /\ id \notin 1..Len(proposed) /\ ~Spent(id) /\ id \in 1..Len(proposed')
      /\ DOMAIN proposed = 1..Len(proposed)
  BY <1>2, <1>3, ProposeFacts
<1>5. pending' = [pending EXCEPT ![r] = pending[r] \cup {id}]
  BY <1>1, <1>3 DEF Register
<1>6. /\ pending' \in [Replicas -> SUBSET (1..Len(proposed'))]
      /\ \A s \in Replicas : \A k \in pending'[s] :
            k \in pending[s] \/ (s = r /\ k = id)
  BY <1>1, <1>4, <1>5 DEF GateType, AuditType, audit
<1>7. TypeOK'
  BY <1>1, <1>2, <1>4, <1>6, TypeNext DEF RoutingType, GateType, routing, AuditType, audit
<1>8. \A k : Spent(k)' <=> Spent(k)
  BY <1>2 DEF Spent
<1>9. SendsOK'
  BY <1>2, <1>4, <1>8 DEF IInv, SendsOK, routing
<1>10. WorkOK'
  BY <1>2, <1>4, <1>8 DEF IInv, WorkOK, routing
<1>11. ModeOK' /\ PassedBefore'
  BY <1>2 DEF IInv, ModeOK, PassedBefore, routing
<1>12. \A n \in DOMAIN sends : sends[n].kind \in {"approve", "reject"} => sends[n].id # id
  BY <1>4 DEF IInv, SendsOK
<1>13. \A n \in DOMAIN sends : sends[n].pc = "claimed" => sends[n].id # id
  BY <1>12 DEF IInv, SendsOK, Approving
<1>14. OneHolder'
  <2>1. \A s, u \in Replicas : \A k \in pending'[s] : k \in pending'[u] => s = u
    BY <1>4, <1>6 DEF IInv, OneHolder
  <2>2. \A n \in DOMAIN sends : sends[n].pc = "claimed" =>
            \A s \in Replicas : sends[n].id \notin pending'[s]
    BY <1>6, <1>13 DEF IInv, OneHolder
  <2>3. QED  BY <1>2, <2>1, <2>2 DEF IInv, OneHolder, routing
<1>15. HeldUnspent'
  BY <1>2, <1>4, <1>6, <1>8 DEF IInv, HeldUnspent, routing
<1>16. RejectStands'
  BY <1>2, <1>6, <1>8, <1>12 DEF IInv, RejectStands, routing
<1>17. AppliedOK' /\ AtMostOnce'
  BY <1>2, <1>4 DEF IInv, AppliedOK, AtMostOnce, routing
<1>18. AuditTruthful'
  BY <1>2 DEF IInv, AuditTruthful, routing, audit, Says
<1>19. QED
  BY <1>7, <1>9, <1>10, <1>11, <1>14, <1>15, <1>16, <1>17, <1>18 DEF IInv

\* A record of a worker answers no request.
LEMMA LoggedOff ==
    ASSUME IInv, NEW r \in Replicas, NEW id \in Nat, NEW d \in Decisions, Log(r, id, d),
           d = "executed" => \E i \in DOMAIN applied : applied[i] = id,
           UNCHANGED <<proposed, sends, applied>>
    PROVE  AuditTruthful' /\ AuditType'
BY AuditGrows

\* The record of an action that was just proposed and is not executed.
LEMMA LoggedNew ==
    ASSUME IInv, NEW r \in Replicas, NEW id \in Nat, NEW d \in Decisions, Log(r, id, d),
           d # "executed", UNCHANGED <<sends, applied>>, 1..Len(proposed) \subseteq 1..Len(proposed')
    PROVE  AuditTruthful' /\ AuditType'
<1>0. AuditType
  BY TypeParts DEF IInv, GateType
<1>1. told' = told
  BY <1>0, LogCases DEF AuditType
<1>2. PICK l \in FileRec : l.id = id /\ l.decision = d /\ Logged(r, l)
  BY <1>0, LogCases
<1>3. /\ files' \in [Replicas -> Seq(FileRec)] /\ lastHash' \in [Replicas -> Nat]
      /\ faults' \in [Replicas -> [write : Nat, torn : Nat, sync : Nat]]
  BY <1>0, <1>2, LoggedType
<1>4. \A s \in Replicas : \A k \in DOMAIN files'[s] : files'[s][k].readable =>
          \/ k \in DOMAIN files[s] /\ files'[s][k] = files[s][k]
          \/ files'[s][k].id = id /\ files'[s][k].decision = d
  BY <1>0, <1>2, LoggedType
<1>5. \A s \in Replicas : \A k \in DOMAIN files'[s] : Says(files'[s][k], files'[s][k].id) =>
          \E i \in DOMAIN applied : applied[i] = files'[s][k].id
  <2> SUFFICES ASSUME NEW s \in Replicas, NEW k \in DOMAIN files'[s], Says(files'[s][k], files'[s][k].id)
               PROVE  \E i \in DOMAIN applied : applied[i] = files'[s][k].id
    OBVIOUS
  <2>1. k \in DOMAIN files[s] /\ files'[s][k] = files[s][k]
    BY <1>4 DEF Says
  <2>2. QED  BY <2>1 DEF IInv, AuditTruthful
<1>6. AuditTruthful'
  BY <1>1, <1>5 DEF IInv, AuditTruthful
<1>7. told' \in [Replicas -> SUBSET (1..Len(proposed'))]
  BY <1>0, <1>1 DEF AuditType
<1>8. QED  BY <1>3, <1>6, <1>7 DEF AuditType

\* A worker records what became of its action and is idle again.
LEMMA WorkerIdles ==
    ASSUME IInv, NEW t \in DOMAIN terms, NEW d \in Decisions, terms[t].at \in up,
           Log(terms[t].at, work[t].id, d),
           d = "executed" => work[t].pc = "patched",
           work' = [work EXCEPT ![t] = Idle], recent' \in [Replicas -> Nat],
           UNCHANGED <<routing, config, proposed, pending, aged, paused, applied>>
    PROVE  IInv'
<1>1. /\ terms[t] \in TermRec /\ work[t] \in WorkRec /\ terms[t].at \in Replicas
      /\ DOMAIN work = DOMAIN terms /\ Len(work) = Len(terms)
      /\ RoutingType /\ GateType /\ work \in Seq(WorkRec)
  BY WorkerFacts DEF GateType, AuditType, audit
<1>2. PICK r, id : r = terms[t].at /\ id = work[t].id
  OBVIOUS
<1>3. r \in Replicas /\ id \in Nat /\ Log(r, id, d)
  BY <1>1, <1>2 DEF WorkRec
<1>4. d = "executed" => \E i \in DOMAIN applied : applied[i] = id
  BY <1>2 DEF IInv, WorkOK, Spent
<1>5. sends' = sends /\ terms' = terms /\ up' = up
  BY DEF routing
<1>6. AuditTruthful' /\ AuditType'
  BY <1>3, <1>4, <1>5, LoggedOff
<1>7. Idle \in WorkRec /\ Idle.pc = "idle"
  BY DEF Idle, WorkRec
<1>8. /\ work' \in Seq(WorkRec) /\ Len(work') = Len(work) /\ DOMAIN work' = DOMAIN work
      /\ \A u \in DOMAIN work : work'[u].pc = "idle" \/ work'[u] = work[u]
  BY <1>1, <1>7
<1>9. TypeOK'
  BY <1>1, <1>6, <1>8, TypeNext DEF RoutingType, GateType, routing, AuditType, audit
<1>10. \A k : Spent(k)' <=> Spent(k)
  BY DEF Spent
<1>11. SendsOK' /\ RejectStands' /\ AppliedOK' /\ AtMostOnce'
  BY <1>5, <1>10 DEF IInv, SendsOK, RejectStands, AppliedOK, AtMostOnce
<1>12. WorkOK'
  BY <1>1, <1>5, <1>8, <1>10 DEF IInv, WorkOK
<1>13. ModeOK'
  BY <1>5, <1>8 DEF IInv, ModeOK
<1>14. OneHolder' /\ HeldUnspent'
  <2>1. \A u \in DOMAIN work : work'[u].pc \in Working => work'[u] = work[u]
    BY <1>8 DEF Working
  <2>2. QED  BY <1>5, <1>8, <1>10, <2>1 DEF IInv, OneHolder, HeldUnspent
<1>15. PassedBefore'
  BY <1>5, <1>8 DEF IInv, PassedBefore
<1>16. QED
  BY <1>6, <1>9, <1>11, <1>12, <1>13, <1>14, <1>15 DEF IInv

\* A worker goes on with the id it has.
LEMMA WorkerGoesOn ==
    ASSUME IInv, NEW t \in DOMAIN terms, NEW pc \in {"reserve", "execute"}, terms[t].at \in up,
           work[t].pc \in Working, paused[terms[t].at] => work[t].cleared,
           work' = [work EXCEPT ![t] = [work[t] EXCEPT !.pc = pc]], recent' \in [Replicas -> Nat],
           UNCHANGED <<routing, config, proposed, pending, aged, paused, applied, audit>>
    PROVE  IInv'
<1> DEFINE x == [work[t] EXCEPT !.pc = pc]
<1>1. /\ terms[t] \in TermRec /\ work[t] \in WorkRec /\ terms[t].at \in Replicas
      /\ DOMAIN work = DOMAIN terms /\ Len(work) = Len(terms)
      /\ RoutingType /\ GateType /\ work \in Seq(WorkRec)
  BY WorkerFacts DEF GateType, AuditType, audit
<1>2. x \in WorkRec /\ x.pc = pc /\ x.id = work[t].id /\ x.cleared = work[t].cleared
  BY <1>1 DEF WorkRec
<1> HIDE DEF x
<1>3. /\ work' \in Seq(WorkRec) /\ Len(work') = Len(work) /\ DOMAIN work' = DOMAIN work
      /\ work'[t] = x /\ \A u \in DOMAIN work : u # t => work'[u] = work[u]
  BY <1>1, <1>2 DEF x
<1>4. /\ sends' = sends /\ terms' = terms /\ up' = up
      /\ \A k : Spent(k)' <=> Spent(k)
  BY DEF routing, Spent
<1>5. TypeOK'
  BY <1>1, <1>3, TypeNext DEF RoutingType, GateType, routing, AuditType, audit
<1>6. SendsOK' /\ RejectStands' /\ AppliedOK' /\ AtMostOnce' /\ AuditTruthful'
  BY <1>4 DEF IInv, SendsOK, RejectStands, AppliedOK, AtMostOnce, AuditTruthful, audit, Says
<1>7. \A u \in DOMAIN work : work'[u].id = work[u].id
  BY <1>2, <1>3
<1>8. WorkOK'
  BY <1>1, <1>2, <1>3, <1>4, <1>7 DEF IInv, WorkOK, Working
<1>9. ModeOK'
  BY <1>1, <1>4 DEF IInv, ModeOK, Working
<1>10. \A u \in DOMAIN work : work'[u].pc \in Working => work[u].pc \in Working
  BY <1>3
<1>11. OneHolder'
  BY <1>3, <1>4, <1>7, <1>10 DEF IInv, OneHolder
<1>12. HeldUnspent'
  BY <1>3, <1>4, <1>7, <1>10 DEF IInv, HeldUnspent
<1>13. PassedBefore'
  BY <1>1, <1>2, <1>3, <1>4 DEF IInv, PassedBefore
<1>14. QED
  BY <1>5, <1>6, <1>8, <1>9, <1>11, <1>12, <1>13 DEF IInv

\* An action begins under auto: held back and recorded, or handed to the second look.
LEMMA RunOneStep ==
    ASSUME IInv, NEW t \in DOMAIN terms, NEW a \in Review(Actions), NEW c \in BOOLEAN, RunOne(t, a, c)
    PROVE  IInv'
<1>1. /\ terms[t] \in TermRec /\ work[t] \in WorkRec /\ terms[t].at \in Replicas
      /\ DOMAIN work = DOMAIN terms /\ Len(work) = Len(terms)
      /\ RoutingType /\ GateType /\ work \in Seq(WorkRec)
  BY WorkerFacts DEF GateType, AuditType, audit
<1>2. /\ Propose(t, a) /\ config.mode = "auto"
      /\ UNCHANGED <<routing, config, aged, paused, recent, applied, pending>>
  BY DEF RunOne, Propose
<1>3. PICK id, r : id = Len(proposed') /\ r = terms[t].at
  OBVIOUS
<1>4. /\ proposed' \in Seq(Review(Actions)) /\ id \in DOMAIN proposed' /\ id = Len(proposed')
      /\ \A i \in DOMAIN proposed : i \in DOMAIN proposed' /\ proposed'[i] = proposed[i]
      /\ 1..Len(proposed) \subseteq 1..Len(proposed') /\ applied \in Seq(1..Len(proposed'))
      /\ \A i \in DOMAIN applied : applied[i] \in DOMAIN proposed
      /\ \A s \in Replicas : pending[s] \subseteq 1..Len(proposed)
      /\ id \notin 1..Len(proposed) /\ ~Spent(id) /\ id \in 1..Len(proposed')
      /\ DOMAIN proposed = 1..Len(proposed) /\ id \in Nat
  BY <1>2, <1>3, ProposeFacts
<1>5. \/ \E d \in Decisions : d # "executed" /\ Log(r, id, d) /\ work' = work
      \/ UNCHANGED audit
         /\ work' = [work EXCEPT ![t] = [pc |-> "recheck", id |-> id, cleared |-> FALSE]]
  BY <1>3 DEF RunOne, NoLog, Decisions, audit
<1>6. sends' = sends /\ terms' = terms /\ up' = up /\ \A k : Spent(k)' <=> Spent(k)
  BY <1>2 DEF routing, Spent
<1>7. AuditTruthful' /\ AuditType'
  <2>1. ASSUME NEW d \in Decisions, d # "executed", Log(r, id, d)
        PROVE  AuditTruthful' /\ AuditType'
    BY <1>1, <1>2, <1>3, <1>4, <1>6, <2>1, LoggedNew
  <2>2. CASE UNCHANGED audit
    <3>1. AuditTruthful'
      BY <1>2, <1>6, <2>2 DEF IInv, AuditTruthful, audit, Says
    <3>2. told \in [Replicas -> SUBSET (1..Len(proposed'))]
      BY <1>1, <1>4 DEF GateType, AuditType
    <3>3. QED  BY <1>1, <2>2, <3>1, <3>2 DEF GateType, AuditType, audit
  <2>3. QED  BY <1>5, <2>1, <2>2
<1> DEFINE x == [pc |-> "recheck", id |-> id, cleared |-> FALSE]
<1>8. x \in WorkRec /\ x.pc = "recheck" /\ x.id = id
  BY <1>4 DEF WorkRec
<1>9. /\ work' \in Seq(WorkRec) /\ Len(work') = Len(work) /\ DOMAIN work' = DOMAIN work
      /\ \A u \in DOMAIN work : work'[u] = work[u] \/ (u = t /\ work'[u] = x)
  <2>1. work' = work \/ work' = [work EXCEPT ![t] = x]
    BY <1>5
  <2> HIDE DEF x
  <2>2. QED  BY <1>1, <1>8, <2>1
<1> HIDE DEF x
<1>10. terms[t].at \in up
  BY <1>2 DEF IInv, WorkOK, Propose
<1>11. pending' \in [Replicas -> SUBSET (1..Len(proposed'))] /\ aged \subseteq 1..Len(proposed')
  BY <1>1, <1>2, <1>4 DEF GateType, AuditType, audit
<1>12. TypeOK'
  BY <1>1, <1>2, <1>4, <1>7, <1>9, <1>11, TypeNext DEF RoutingType, GateType, routing, AuditType, audit
<1>13. SendsOK' /\ RejectStands'
  BY <1>2, <1>4, <1>6 DEF IInv, SendsOK, RejectStands
<1>14. AppliedOK' /\ AtMostOnce'
  BY <1>2, <1>4, <1>6 DEF IInv, AppliedOK, AtMostOnce
<1>15. WorkOK'
  <2> SUFFICES ASSUME NEW u \in DOMAIN terms
               PROVE  /\ terms[u].live => terms[u].at \in up
                      /\ terms[u].at \notin up => work'[u].pc = "idle"
                      /\ work'[u].pc # "idle" => work'[u].id \in DOMAIN proposed'
                      /\ work'[u].pc = "patched" => Spent(work'[u].id)
    BY <1>6 DEF WorkOK
  <2>1. /\ terms[u].live => terms[u].at \in up
        /\ terms[u].at \notin up => work[u].pc = "idle"
        /\ work[u].pc # "idle" => work[u].id \in DOMAIN proposed
        /\ work[u].pc = "patched" => Spent(work[u].id)
    BY DEF IInv, WorkOK
  <2>2. QED  BY SMTT(30), <1>1, <1>4, <1>8, <1>9, <1>10, <2>1
<1>16. ModeOK'
  BY <1>2, <1>6 DEF IInv, ModeOK
<1>17. \A u \in DOMAIN work : work[u].pc \in Working => work[u].id # id
  BY <1>1, <1>4 DEF IInv, WorkOK, Working
<1>18. OneHolder'
  <2>1. ASSUME NEW u \in DOMAIN work, NEW v \in DOMAIN work, work'[u].pc \in Working,
               work'[v].pc \in Working, work'[u].id = work'[v].id
        PROVE  u = v
    <3>1. CASE work'[u] = work[u] /\ work'[v] = work[v]
      BY <2>1, <3>1 DEF IInv, OneHolder
    <3>2. QED  BY <1>8, <1>9, <1>17, <2>1, <3>1
  <2>2. QED  BY <1>2, <1>6, <1>9, <2>1 DEF IInv, OneHolder
<1>19. HeldUnspent'
  <2>1. \A u \in DOMAIN work : work'[u].pc \in Working => ~Spent(work'[u].id)
    BY <1>4, <1>8, <1>9 DEF IInv, HeldUnspent
  <2>2. QED  BY <1>2, <1>6, <1>9, <2>1 DEF IInv, HeldUnspent
<1>20. PassedBefore'
  <2>1. \A u \in DOMAIN work : work'[u].pc \in {"reserve", "execute"} => work'[u] = work[u]
    BY <1>8, <1>9
  <2>2. QED  BY <1>2, <1>6, <1>9, <2>1 DEF IInv, PassedBefore
<1>21. QED
  BY <1>7, <1>12, <1>13, <1>14, <1>15, <1>16, <1>18, <1>19, <1>20 DEF IInv

\* The patch spends the id the worker had.
LEMMA AutoExecuteStep ==
    ASSUME IInv, NEW t \in DOMAIN terms, NEW o \in {"patched", "error"}, AutoExecute(t, o)
    PROVE  IInv'
<1>1. /\ terms[t] \in TermRec /\ work[t] \in WorkRec /\ terms[t].at \in Replicas
      /\ DOMAIN work = DOMAIN terms /\ Len(work) = Len(terms)
      /\ RoutingType /\ GateType /\ work \in Seq(WorkRec)
  BY WorkerFacts DEF GateType, AuditType, audit
<1>2. PICK id : id = work[t].id
  OBVIOUS
<1> DEFINE x == [work[t] EXCEPT !.pc = o]
<1>3. /\ work[t].pc = "execute" /\ terms[t].at \in up /\ work' = [work EXCEPT ![t] = x]
      /\ Executes(id, terms[t].live, o)
      /\ UNCHANGED <<routing, config, proposed, pending, aged, paused, recent, audit>>
  BY <1>2 DEF AutoExecute
<1>4. sends' = sends /\ terms' = terms /\ up' = up
  BY <1>3 DEF routing
<1>5. x \in WorkRec /\ x.pc = o /\ x.id = id
  BY <1>1, <1>2 DEF WorkRec
<1> HIDE DEF x
<1>6. /\ work' \in Seq(WorkRec) /\ Len(work') = Len(work) /\ DOMAIN work' = DOMAIN work
      /\ work'[t] = x /\ \A u \in DOMAIN work : u # t => work'[u] = work[u]
  BY <1>1, <1>3, <1>5
<1>7. /\ id \in DOMAIN proposed /\ ~Spent(id) /\ config.mode # "approve"
      /\ \A r \in Replicas : pending[r] = {}
      /\ \A n \in DOMAIN sends : sends[n].pc # "claimed"
      /\ \A u \in DOMAIN work : u # t /\ work[u].pc \in Working => work[u].id # id
  <2>1. id \in DOMAIN proposed
    BY <1>2, <1>3 DEF IInv, WorkOK
  <2>2. ~Spent(id)
    BY <1>1, <1>2, <1>3 DEF IInv, HeldUnspent, Working
  <2>3. /\ config.mode # "approve" /\ \A r \in Replicas : pending[r] = {}
        /\ \A n \in DOMAIN sends : sends[n].pc # "claimed"
    BY <1>1, <1>3 DEF IInv, ModeOK
  <2>4. \A u \in DOMAIN work : u # t /\ work[u].pc \in Working => work[u].id # id
    BY <1>1, <1>2, <1>3 DEF IInv, OneHolder, Working
  <2>5. QED  BY <2>1, <2>2, <2>3, <2>4
<1>8. applied \in Seq(1..Len(proposed)) /\ id \in 1..Len(proposed)
  BY <1>1, <1>7 DEF GateType, AuditType, audit
<1>9. /\ applied' \in Seq(1..Len(proposed))
      /\ \A i \in DOMAIN applied : i \in DOMAIN applied' /\ applied'[i] = applied[i]
      /\ \A i \in DOMAIN applied' : i \in DOMAIN applied \/ (i = Len(applied) + 1 /\ applied'[i] = id)
      /\ \A i \in DOMAIN applied' : i \in DOMAIN applied \/ proposed[id].op \in Known
      /\ o = "patched" => Spent(id)'
      /\ \A k : k # id => (Spent(k)' <=> Spent(k))
      /\ \A k : Spent(k) => Spent(k)'
  <2>1. CASE applied' = Append(applied, id) /\ proposed[id].op \in Known
    <3>1. applied' = Append(applied, id) /\ proposed[id].op \in Known
      BY <2>1
    <3>2. /\ applied' \in Seq(1..Len(proposed))
          /\ DOMAIN applied' = DOMAIN applied \cup {Len(applied) + 1}
          /\ applied'[Len(applied) + 1] = id
          /\ \A i \in DOMAIN applied : applied'[i] = applied[i]
      BY <1>8, <3>1
    <3>3. \A i \in DOMAIN applied' : i \in DOMAIN applied \/ (i = Len(applied) + 1 /\ applied'[i] = id)
      BY <3>2
    <3>4. Spent(id)' /\ \A k : k # id => (Spent(k)' <=> Spent(k))
      BY <3>2, <3>3 DEF Spent
    <3>5. \A k : Spent(k) => Spent(k)'
      BY <3>2 DEF Spent
    <3>6. QED  BY <3>1, <3>2, <3>3, <3>4, <3>5
  <2>2. CASE o = "error" /\ applied' = applied
    BY <1>8, <2>2 DEF Spent
  <2>3. QED  BY <1>3, <2>1, <2>2 DEF Executes
<1>10. TypeOK'
  BY <1>1, <1>3, <1>6, <1>9, TypeNext DEF RoutingType, GateType, routing, AuditType, audit
<1>11. SendsOK'
  BY <1>3, <1>4, <1>9 DEF IInv, SendsOK
<1>12. WorkOK'
  <2> SUFFICES ASSUME NEW u \in DOMAIN terms
               PROVE  /\ terms[u].live => terms[u].at \in up
                      /\ terms[u].at \notin up => work'[u].pc = "idle"
                      /\ work'[u].pc # "idle" => work'[u].id \in DOMAIN proposed
                      /\ work'[u].pc = "patched" => \E i \in DOMAIN applied' : applied'[i] = work'[u].id
    BY <1>3, <1>4 DEF WorkOK, Spent
  <2>1. /\ terms[u].live => terms[u].at \in up
        /\ terms[u].at \notin up => work[u].pc = "idle"
        /\ work[u].pc # "idle" => work[u].id \in DOMAIN proposed
        /\ work[u].pc = "patched" => Spent(work[u].id)
    BY DEF IInv, WorkOK
  <2>2. CASE u = t
    BY <1>3, <1>5, <1>6, <1>7, <1>9, <2>1, <2>2 DEF Spent
  <2>3. CASE u # t
    BY <1>1, <1>6, <1>9, <2>1, <2>3 DEF Spent
  <2>4. QED  BY <2>2, <2>3
<1>13. ModeOK'
  BY <1>3, <1>4, <1>7 DEF IInv, ModeOK
<1>14. \A u \in DOMAIN work : work'[u].pc \in Working => u # t /\ work'[u] = work[u]
  BY <1>5, <1>6 DEF Working
<1>15. OneHolder'
  BY <1>3, <1>4, <1>6, <1>14 DEF IInv, OneHolder
<1>16. HeldUnspent'
  <2>1. ASSUME NEW u \in DOMAIN work, work'[u].pc \in Working
        PROVE  \A i \in DOMAIN applied' : applied'[i] # work'[u].id
    <3>1. work'[u] = work[u] /\ work[u].id # id /\ ~Spent(work[u].id)
      BY <1>7, <1>14, <2>1 DEF IInv, HeldUnspent
    <3>2. QED  BY <1>9, <3>1 DEF Spent
  <2>2. QED  BY <1>3, <1>4, <1>6, <1>7, <2>1 DEF HeldUnspent, Spent
<1>17. RejectStands'
  BY <1>3, <1>7 DEF RejectStands
<1>18. AppliedOK'
  <2>1. ASSUME NEW i \in DOMAIN applied'
        PROVE  proposed[applied'[i]].op \in Known
    <3>1. CASE i \in DOMAIN applied
      BY <1>9, <3>1 DEF IInv, AppliedOK
    <3>2. CASE i \notin DOMAIN applied
      BY <1>9, <3>2
    <3>3. QED  BY <3>1, <3>2
  <2>2. QED  BY <1>3, <1>7, <2>1 DEF AppliedOK
<1>19. AtMostOnce'
  BY <1>7, <1>9 DEF IInv, AtMostOnce, Spent
<1>20. AuditTruthful'
  <2>1. \A k : (\E i \in DOMAIN applied : applied[i] = k) => \E i \in DOMAIN applied' : applied'[i] = k
    BY <1>9
  <2>2. \A s \in Replicas : \A k \in DOMAIN files[s] : Says(files[s][k], files[s][k].id) =>
            \E i \in DOMAIN applied' : applied'[i] = files[s][k].id
    BY <2>1 DEF IInv, AuditTruthful
  <2>3. \A s \in Replicas : \A k \in told[s] : \E i \in DOMAIN applied' : applied'[i] = k
    BY <2>1 DEF IInv, AuditTruthful
  <2>4. files' = files /\ told' = told
    BY <1>3 DEF audit
  <2>5. QED  BY <1>4, <2>2, <2>3, <2>4 DEF IInv, AuditTruthful
<1>21. PassedBefore'
  <2>1. \A u \in DOMAIN work : work'[u].pc \in {"reserve", "execute"} => work'[u] = work[u]
    BY <1>14 DEF Working
  <2>2. QED  BY <1>3, <1>4, <1>6, <2>1 DEF IInv, PassedBefore
<1>22. QED
  BY <1>10, <1>11, <1>12, <1>13, <1>15, <1>16, <1>17, <1>18, <1>19, <1>20, <1>21 DEF IInv

\* Every step of a worker keeps the invariant.
LEMMA WorkerStep ==
    ASSUME IInv, NEW t \in DOMAIN terms, Worker(t)
    PROVE  IInv'
<1>1. /\ work[t] \in WorkRec /\ terms[t].at \in Replicas /\ GateType
  BY WorkerFacts
<1>2. CASE \E a \in Review(Actions) : Register(t, a) \/ \E c \in BOOLEAN : RunOne(t, a, c)
  BY <1>2, RegisterStep, RunOneStep
<1>3. CASE AutoRecheck(t)
  <2>1. /\ work[t].pc = "recheck" /\ terms[t].at \in up /\ recent' \in [Replicas -> Nat]
        /\ UNCHANGED <<routing, config, proposed, pending, aged, paused, applied>>
    BY <1>1, <1>3 DEF AutoRecheck, GateType, AuditType, audit
  <2>2. \/ /\ \E d \in Decisions : d # "executed" /\ Log(terms[t].at, work[t].id, d)
           /\ work' = [work EXCEPT ![t] = Idle]
        \/ /\ ~paused[terms[t].at] /\ UNCHANGED audit
           /\ work' = [work EXCEPT ![t] = [work[t] EXCEPT !.pc = "reserve"]]
    BY <1>3 DEF AutoRecheck, NoLog, Decisions, audit
  <2>3. QED  BY <2>1, <2>2, WorkerIdles, WorkerGoesOn DEF Working
<1>4. CASE AutoReserve(t)
  <2>1. /\ work[t].pc = "reserve" /\ terms[t].at \in up /\ recent' \in [Replicas -> Nat]
        /\ UNCHANGED <<routing, config, proposed, pending, aged, paused, applied>>
    <3>1. recent' = recent \/ recent' = [recent EXCEPT ![terms[t].at] = recent[terms[t].at] + 1]
      BY <1>1, <1>4 DEF AutoReserve, GateType, AuditType, audit
    <3>2. recent \in [Replicas -> Nat] /\ recent[terms[t].at] + 1 \in Nat
      BY <1>1 DEF GateType, AuditType, audit
    <3>3. recent' \in [Replicas -> Nat]
      BY <1>1, <3>1, <3>2
    <3>4. QED  BY <1>4, <3>3 DEF AutoReserve
  <2>2. \/ /\ \E d \in Decisions : d # "executed" /\ Log(terms[t].at, work[t].id, d)
           /\ work' = [work EXCEPT ![t] = Idle]
        \/ /\ UNCHANGED audit
           /\ work' = [work EXCEPT ![t] = [work[t] EXCEPT !.pc = "execute"]]
    BY <1>4 DEF AutoReserve, NoLog, Decisions, audit
  <2>3. t \in DOMAIN work /\ (paused[terms[t].at] => work[t].cleared)
    BY <2>1, WorkerFacts DEF IInv, PassedBefore
  <2>4. QED  BY <2>1, <2>2, <2>3, WorkerIdles, WorkerGoesOn DEF Working
<1>5. CASE \E o \in {"patched", "error"} : AutoExecute(t, o)
  BY <1>5, AutoExecuteStep
<1>6. CASE AutoRecord(t)
  <2>1. /\ terms[t].at \in up /\ recent' \in [Replicas -> Nat] /\ work' = [work EXCEPT ![t] = Idle]
        /\ UNCHANGED <<routing, config, proposed, pending, aged, paused, applied>>
    BY <1>1, <1>6 DEF AutoRecord, GateType, AuditType, audit
  <2>2. \E d \in Decisions : /\ Log(terms[t].at, work[t].id, d)
                             /\ d = "executed" => work[t].pc = "patched"
    BY <1>6 DEF AutoRecord, Decisions
  <2>3. QED  BY <2>1, <2>2, WorkerIdles
<1>7. QED  BY <1>2, <1>3, <1>4, <1>5, <1>6 DEF Worker

-----------------------------------------------------------------------------
(* The theorems.                                                           *)

\* The invariant holds at first.
LEMMA InvInit == Init => IInv
<1> SUFFICES ASSUME Init PROVE IInv
  OBVIOUS
<1>1. TypeOK
  BY TypeInit
<1>2. /\ sends = <<>> /\ terms = <<>> /\ work = <<>> /\ applied = <<>>
      /\ pending = [r \in Replicas |-> {}] /\ files = [r \in Replicas |-> <<>>]
      /\ told = [r \in Replicas |-> {}]
  BY DEF Init, RoutingInit
<1>3. QED
  BY <1>1, <1>2 DEF IInv, SendsOK, WorkOK, ModeOK, OneHolder, HeldUnspent, RejectStands,
     AppliedOK, AtMostOnce, AuditTruthful, PassedBefore, Spent, audit, Says

\* A stutter keeps the invariant.
LEMMA InvStutter == IInv /\ UNCHANGED vars => IInv'
BY DEF IInv, TypeOK, SendsOK, WorkOK, ModeOK, OneHolder, HeldUnspent, RejectStands,
   AppliedOK, AtMostOnce, AuditTruthful, PassedBefore, Spent, vars, routing, gate, LiveTerm, audit, Says

\* Every step keeps the invariant, action by action.
LEMMA InvNext == IInv /\ [Next]_vars => IInv'
<1> SUFFICES ASSUME IInv, [Next]_vars PROVE IInv'
  OBVIOUS
<1>1. ASSUME NEW r \in Replicas, Elect(r) PROVE IInv'
  BY <1>1, AcquireStep, ElectionStep DEF Elect
<1>2. ASSUME NEW r \in Replicas, Die(r) \/ Boot(r) PROVE IInv'
  BY <1>2, DieStep, BootStep
<1>3. ASSUME NEW r \in Replicas, WindowSlides(r) PROVE IInv'
  BY <1>3, WindowSlidesStep
<1>4. ASSUME NEW id \in DOMAIN proposed, Age(id) PROVE IInv'
  BY <1>4, AgeStep
<1>5. ASSUME NEW n \in DOMAIN sends, Forwarding(n) \/ Handler(n) PROVE IInv'
  BY <1>5, ForwardingStep, ApproveClaimStep, ApproveExecuteStep, ApproveRecordStep,
     RejectStep, SwitchStep DEF Handler
<1>6. ASSUME NEW t \in DOMAIN terms, Worker(t) PROVE IInv'
  BY <1>6, WorkerStep
<1>7. QED
  BY <1>1, <1>2, <1>3, <1>4, <1>5, <1>6, ClientStep, InvStutter DEF Next

\* The invariant holds in every state of every behaviour.
LEMMA InvAlways == Spec => []IInv
BY InvInit, InvNext, PTL DEF Spec

\* The state of every replica's gate keeps its type: an id that waits, that is claimed
\* or that is applied is one the gate has given (approvals.go:59-74).
THEOREM GateTypeCorrect == Spec => []TypeOK
BY InvAlways, PTL DEF IInv

\* An action reaches the cluster at most once: a request that is approved twice, on two
\* replicas, retried, proxied or cut off, finds the id claimed (approvals.go:86-104).
THEOREM ExecutesAtMostOnce == Spec => []AtMostOnce
BY InvAlways, PTL DEF IInv

\* Under approve, what reaches the cluster was approved and was never rejected with an
\* acknowledgement (approvals.go:129); in every mode it is a known operation on a
\* permitted, unprotected target (safety.go:20).
THEOREM ExecutesOnlySanctioned == Spec => []OnlySanctioned
<1>1. IInv => OnlySanctioned
  <2> SUFFICES ASSUME IInv, NEW i \in DOMAIN applied
               PROVE  /\ proposed[applied[i]].op \in Known /\ proposed[applied[i]].kind # ""
                      /\ proposed[applied[i]].ns \in AllowedNamespaces \ Protected
                      /\ config.mode = "approve" =>
                            /\ \E n \in DOMAIN sends : sends[n].kind = "approve" /\ sends[n].id = applied[i]
                            /\ \A n \in DOMAIN sends : sends[n].kind = "reject" /\ sends[n].id = applied[i] =>
                                  sends[n].answer # "ok"
    BY DEF OnlySanctioned
  <2>1. applied[i] \in DOMAIN proposed /\ proposed \in Seq(Review(Actions))
    BY TypeParts DEF IInv, GateType, AuditType, audit
  <2>2. proposed[applied[i]] \in Review(Actions)
    BY <2>1
  <2>3. ~violation(proposed[applied[i]])
    BY <2>2 DEF Review
  <2>4. proposed[applied[i]].op \in Known
    BY DEF IInv, AppliedOK
  <2>5. proposed[applied[i]].kind # "" /\ ~namespaceViolation(proposed[applied[i]].ns)
    BY <2>3, <2>4, PolicyAssumption DEF violation
  <2>6. config.mode = "approve" =>
            \E n \in DOMAIN sends : sends[n].kind = "approve" /\ sends[n].id = applied[i]
    BY DEF IInv, AppliedOK
  <2>7. ASSUME config.mode = "approve", NEW n \in DOMAIN sends,
               sends[n].kind = "reject", sends[n].id = applied[i], sends[n].answer = "ok"
        PROVE  FALSE
    <3>1. ~Spent(sends[n].id)
      BY <2>7 DEF IInv, RejectStands
    <3>2. QED  BY <2>7, <3>1 DEF Spent
  <2>8. QED  BY <2>4, <2>5, <2>6, <2>7 DEF namespaceViolation
<1>2. QED  BY <1>1, InvAlways, PTL

\* While the kill switch of a process is engaged, the only workers that still execute
\* are those that had passed their second look when it was (auto.go:107).
THEOREM KillSwitchWins == Spec => PauseWins
<1>1. IInv => \A t \in DOMAIN work :
          work[t].pc = "execute" /\ paused[terms[t].at] => work[t].cleared
  BY DEF IInv, PassedBefore
<1>2. IInv /\ [Next]_vars =>
          [\A t \in DOMAIN work :
              work[t].pc = "execute" /\ work'[t].pc # "execute" /\ applied' # applied
                /\ paused[terms[t].at] => work[t].cleared]_vars
  BY <1>1
<1>3. QED  BY <1>2, InvAlways, PTL DEF Spec, PauseWins

-----------------------------------------------------------------------------
(* The audit file.                                                         *)

\* Whatever a step is, one record is logged, or one process reads the end of its file.
LEMMA FilesStep ==
    ASSUME IInv, [Next]_vars
    PROVE  \/ UNCHANGED audit
           \/ \E r \in Replicas, id \in Nat, d \in Decisions : Log(r, id, d)
           \/ \E r \in Replicas : /\ UNCHANGED <<files, faults, told>>
                                  /\ lastHash' = [lastHash EXCEPT ![r] = LastOf(files[r])]
<1> DEFINE Goal == \/ UNCHANGED audit
                   \/ \E r \in Replicas, id \in Nat, d \in Decisions : Log(r, id, d)
                   \/ \E r \in Replicas : /\ UNCHANGED <<files, faults, told>>
                                          /\ lastHash' = [lastHash EXCEPT ![r] = LastOf(files[r])]
<1>1. ASSUME NEW r \in Replicas, Elect(r) \/ Die(r) \/ WindowSlides(r) PROVE UNCHANGED audit
  BY <1>1 DEF Elect, Die, WindowSlides, gate
<1>2. ASSUME NEW r \in Replicas, Boot(r)
      PROVE  UNCHANGED <<files, faults, told>> /\ lastHash' = [lastHash EXCEPT ![r] = LastOf(files[r])]
  BY <1>2 DEF Boot
<1>3. Client \/ (\E n \in DOMAIN sends : Forwarding(n)) \/ (\E id \in DOMAIN proposed : Age(id))
          => UNCHANGED audit
  BY DEF Client, Forwarding, Age, gate
<1>4. ASSUME NEW n \in DOMAIN sends, Handler(n) PROVE Goal
  <2>1. sends[n].at \in Replicas /\ sends[n].id \in Nat
    BY RequestFacts
  <2>2. CASE ApproveClaim(n) \/ Reject(n) \/ List(n) \/ Pause(n) \/ Resume(n)
    BY <2>2 DEF ApproveClaim, Reject, List, Pause, Resume
  <2>3. CASE ApproveRecord(n) \/ \E o \in {"patched", "error"} : ApproveExecute(n, o)
    BY <2>1, <2>3 DEF ApproveRecord, ApproveExecute, NoLog, Decisions
  <2>4. QED  BY <1>4, <2>2, <2>3 DEF Handler
<1>5. ASSUME NEW t \in DOMAIN terms, Worker(t) PROVE Goal
  <2>1. terms[t].at \in Replicas /\ work[t] \in WorkRec
    BY WorkerFacts
  <2>2. CASE \E a \in Review(Actions) : Register(t, a) \/ \E c \in BOOLEAN : RunOne(t, a, c)
    <3>1. ASSUME NEW a \in Review(Actions), Register(t, a) PROVE UNCHANGED audit
      BY <3>1 DEF Register
    <3>2. ASSUME NEW a \in Review(Actions), NEW c \in BOOLEAN, RunOne(t, a, c) PROVE Goal
      <4>1. Len(proposed') \in Nat
        BY <3>2, ProposeFacts DEF RunOne
      <4>2. QED  BY <2>1, <3>2, <4>1 DEF RunOne, NoLog, Decisions
    <3>3. QED  BY <2>2, <3>1, <3>2
  <2>3. CASE AutoRecheck(t) \/ AutoReserve(t) \/ AutoRecord(t)
    <3>1. work[t].id \in Nat
      BY <2>1 DEF WorkRec
    <3>2. QED  BY <2>1, <2>3, <3>1 DEF AutoRecheck, AutoReserve, AutoRecord, NoLog, Decisions
  <2>4. CASE \E o \in {"patched", "error"} : AutoExecute(t, o)
    BY <2>4 DEF AutoExecute
  <2>5. QED  BY <1>5, <2>2, <2>3, <2>4 DEF Worker
<1>6. UNCHANGED vars => UNCHANGED audit
  BY DEF vars, gate
<1>7. QED  BY <1>1, <1>2, <1>3, <1>4, <1>5, <1>6 DEF Next

\* A set that gains one element at most.
LEMMA OneMore ==
    ASSUME NEW S, NEW T, NEW x, IsFiniteSet(S), T \subseteq S \cup {x}
    PROVE  Cardinality(T) \in Nat /\ Cardinality(S) \in Nat /\ Cardinality(T) <= Cardinality(S) + 1
<1>1. IsFiniteSet(S \cup {x}) /\ Cardinality(S) \in Nat
      /\ Cardinality(S \cup {x}) \in {Cardinality(S), Cardinality(S) + 1}
  BY FS_AddElement, FS_CardinalityType
<1>2. Cardinality(T) <= Cardinality(S \cup {x}) /\ IsFiniteSet(T)
  BY <1>1, FS_Subset
<1>3. Cardinality(T) \in Nat
  BY <1>2, FS_CardinalityType
<1>4. QED  BY <1>1, <1>2, <1>3

\* A set that gains none.
LEMMA NoMore ==
    ASSUME NEW S, NEW T, IsFiniteSet(S), T \subseteq S
    PROVE  Cardinality(T) \in Nat /\ Cardinality(S) \in Nat /\ Cardinality(T) <= Cardinality(S)
<1>1. Cardinality(T) <= Cardinality(S) /\ IsFiniteSet(T)
  BY FS_Subset
<1>2. QED  BY <1>1, FS_CardinalityType

\* What is missing was told, and there are finitely many such.
LEMMA MissingFinite ==
    ASSUME IInv, NEW r \in Replicas
    PROVE  IsFiniteSet(Missing(r))
<1>1. told \in [Replicas -> SUBSET (1..Len(proposed))] /\ proposed \in Seq(Review(Actions))
  BY TypeParts DEF IInv, GateType, AuditType
<1>2. Missing(r) \subseteq 1..Len(proposed) /\ Len(proposed) \in Nat
  BY <1>1 DEF Missing
<1>3. IsFiniteSet(1..Len(proposed))
  BY <1>2, FS_Interval
<1>4. QED  BY <1>2, <1>3, FS_Subset

\* What one call of Log may add to the records that are missing: the one it was given, and
\* not that one when it lands whole after a whole line.
LosesAtMost(r, id, l) ==
    /\ \A s \in Replicas : s # r => Missing(s)' = Missing(s) /\ files'[s] = files[s]
    /\ Missing(r)' \subseteq Missing(r) \cup {id}
    /\ l.readable /\ l.ended /\ ~Cut(files[r]) /\ files'[r] = Put(files[r], l) =>
           Missing(r)' \subseteq Missing(r)

\* A record that is logged may go missing; none that is in a whole line does.
LEMMA LoggedMissing ==
    ASSUME IInv, NEW r \in Replicas, NEW id \in Nat, NEW d \in Decisions, NEW l \in FileRec,
           l.id = id, l.decision = d, Logged(r, l),
           told' = [told EXCEPT ![r] = IF d = "executed" THEN told[r] \cup {id} ELSE told[r]]
    PROVE  LosesAtMost(r, id, l)
<1>1. /\ files \in [Replicas -> Seq(FileRec)] /\ told \in [Replicas -> SUBSET (1..Len(proposed))]
      /\ files[r] \in Seq(FileRec)
  BY TypeParts DEF IInv, GateType, AuditType
<1>2. files' = files \/ files' = [files EXCEPT ![r] = Put(files[r], l)]
  BY DEF Logged
<1>3. \A s \in Replicas : s # r => files'[s] = files[s] /\ told'[s] = told[s]
  BY <1>1, <1>2
<1>4. told'[r] = IF d = "executed" THEN told[r] \cup {id} ELSE told[r]
  BY <1>1
<1>5. \A k \in DOMAIN files[r] : files[r][k].ended => k \in DOMAIN files'[r] /\ files'[r][k] = files[r][k]
  <2>1. CASE files'[r] = files[r]
    BY <2>1
  <2>2. CASE files'[r] = Put(files[r], l)
    <3> SUFFICES ASSUME NEW k \in DOMAIN files[r], files[r][k].ended
                 PROVE  k \in DOMAIN files'[r] /\ files'[r][k] = files[r][k]
      OBVIOUS
    <3>1. k \in DOMAIN Put(files[r], l) /\ Put(files[r], l)[k] = files[r][k]
      BY <1>1, PutKeeps
    <3>2. QED  BY <2>2, <3>1
  <2>3. QED  BY <1>1, <1>2, <2>1, <2>2
<1>6. Missing(r)' \subseteq Missing(r) \cup {id}
  BY <1>4, <1>5 DEF Missing
<1>7. ASSUME l.readable, l.ended, ~Cut(files[r]), files'[r] = Put(files[r], l)
      PROVE  Missing(r)' \subseteq Missing(r)
  <2>1. Len(files[r]) + 1 \in DOMAIN files'[r] /\ files'[r][Len(files[r]) + 1] = l
    BY <1>1, <1>7, PutWhole
  <2>2. d = "executed" => id \notin Missing(r)'
    BY <1>7, <2>1 DEF Missing, Says
  <2>3. d # "executed" => Missing(r)' \subseteq told[r]
    BY <1>4 DEF Missing
  <2>4. QED  BY <1>5, <1>6, <2>2, <2>3 DEF Missing
<1>8. \A s \in Replicas : s # r => Missing(s)' = Missing(s)
  BY <1>3 DEF Missing
<1>9. QED  BY <1>3, <1>6, <1>7, <1>8 DEF LosesAtMost

\* Every step keeps the losses within what has failed.
LEMMA LossStep ==
    ASSUME IInv, LossOK, [Next]_vars
    PROVE  LossOK'
<1>1. AuditType
  BY TypeParts DEF IInv, GateType
<1>2. CASE UNCHANGED <<files, faults, told>>
  BY <1>2 DEF LossOK, Missing
<1>3. ASSUME NEW r \in Replicas, NEW id \in Nat, NEW d \in Decisions, Log(r, id, d)
      PROVE  LossOK'
  <2>1. told' = [told EXCEPT ![r] = IF d = "executed" THEN told[r] \cup {id} ELSE told[r]]
    BY <1>1, <1>3, LogCases
  <2>2. PICK l \in FileRec : l.id = id /\ l.decision = d /\ Logged(r, l)
    BY <1>1, <1>3, LogCases
  <2>3. /\ \A s \in Replicas : s # r => Missing(s)' = Missing(s) /\ files'[s] = files[s]
        /\ Missing(r)' \subseteq Missing(r) \cup {id}
        /\ l.readable /\ l.ended /\ ~Cut(files[r]) /\ files'[r] = Put(files[r], l) =>
               Missing(r)' \subseteq Missing(r)
    <3>1. LosesAtMost(r, id, l)
      BY <2>1, <2>2, LoggedMissing
    <3>2. QED  BY <3>1 DEF LosesAtMost
  <2>4. faults \in [Replicas -> [write : Nat, torn : Nat, sync : Nat]] /\ files[r] \in Seq(FileRec)
        /\ files \in [Replicas -> Seq(FileRec)]
    BY <1>1 DEF AuditType
  <2>5. \A s \in Replicas : s # r => faults'[s] = faults[s]
    BY <2>2, <2>4 DEF Logged
  <2>6. ASSUME NEW s \in Replicas, s # r
        PROVE  Cardinality(Missing(s)') + (IF Cut(files'[s]) THEN 1 ELSE 0) <= faults'[s].write + 2 * faults'[s].torn
    BY <2>3, <2>5, <2>6 DEF LossOK
  <2>7. Cardinality(Missing(r)') + (IF Cut(files'[r]) THEN 1 ELSE 0) <= faults'[r].write + 2 * faults'[r].torn
    <3>1. /\ Cardinality(Missing(r)) \in Nat /\ Cardinality(Missing(r)') \in Nat
          /\ Cardinality(Missing(r)') <= Cardinality(Missing(r)) + 1
      BY <2>3, MissingFinite, OneMore
    <3>2. l.readable /\ l.ended /\ ~Cut(files[r]) /\ files'[r] = Put(files[r], l) =>
              Cardinality(Missing(r)') <= Cardinality(Missing(r))
      BY <2>3, MissingFinite, NoMore
    <3>3. Cardinality(Missing(r)) + (IF Cut(files[r]) THEN 1 ELSE 0) <= faults[r].write + 2 * faults[r].torn
      BY DEF LossOK
    <3>4. faults[r].write \in Nat /\ faults[r].torn \in Nat
      BY <2>4
    <3>5. CASE l.readable /\ l.ended /\ files'[r] = Put(files[r], l)
               /\ faults'[r].write = faults[r].write /\ faults'[r].torn = faults[r].torn
      <4>1. ~Cut(files'[r])
        BY <2>4, <3>5, PutEnds
      <4>2. CASE Cut(files[r])
        BY <3>1, <3>3, <3>4, <3>5, <4>1, <4>2
      <4>3. CASE ~Cut(files[r])
        BY <3>1, <3>2, <3>3, <3>4, <3>5, <4>1, <4>3
      <4>4. QED  BY <4>2, <4>3
    <3>6. CASE files'[r] = files[r] /\ faults'[r].write = faults[r].write + 1 /\ faults'[r].torn = faults[r].torn
      BY <3>1, <3>3, <3>4, <3>6
    <3>7. CASE faults'[r].write = faults[r].write /\ faults'[r].torn = faults[r].torn + 1
      BY <3>1, <3>3, <3>4, <3>7
    <3>8. QED
      <4>1. \/ /\ l.readable /\ l.ended /\ files' = [files EXCEPT ![r] = Put(files[r], l)]
               /\ (faults' = faults \/ faults' = [faults EXCEPT ![r] = [faults[r] EXCEPT !.sync = @ + 1]])
            \/ files' = files /\ faults' = [faults EXCEPT ![r] = [faults[r] EXCEPT !.write = @ + 1]]
            \/ faults' = [faults EXCEPT ![r] = [faults[r] EXCEPT !.torn = @ + 1]]
        BY <2>2, <2>4 DEF Logged
      <4>2. \/ /\ l.readable /\ l.ended /\ files'[r] = Put(files[r], l)
               /\ faults'[r].write = faults[r].write /\ faults'[r].torn = faults[r].torn
            \/ files'[r] = files[r] /\ faults'[r].write = faults[r].write + 1 /\ faults'[r].torn = faults[r].torn
            \/ faults'[r].write = faults[r].write /\ faults'[r].torn = faults[r].torn + 1
        BY <2>4, <4>1
      <4>3. QED  BY <3>5, <3>6, <3>7, <4>2
  <2>8. QED  BY <2>6, <2>7 DEF LossOK
<1>4. QED  BY <1>2, <1>3, FilesStep DEF audit

\* Every step keeps a file whose writes were whole an unbroken chain whose end its writer
\* knows.
LEMMA ChainStep ==
    ASSUME IInv, ChainOK, [Next]_vars
    PROVE  ChainOK'
<1>1. /\ files \in [Replicas -> Seq(FileRec)] /\ lastHash \in [Replicas -> Nat]
      /\ faults \in [Replicas -> [write : Nat, torn : Nat, sync : Nat]] /\ AuditType
  BY TypeParts DEF IInv, GateType, AuditType
<1>2. ASSUME NEW r \in Replicas, UNCHANGED <<files, faults>>,
             lastHash' = [lastHash EXCEPT ![r] = LastOf(files[r])]
      PROVE  ChainOK'
  <2>1. faults[r].torn + faults[r].sync = 0 => LastOf(files[r]) = Len(files[r])
    BY <1>1 DEF ChainOK, LastOf
  <2>2. \A s \in Replicas : s # r => lastHash'[s] = lastHash[s]
    BY <1>1, <1>2
  <2>3. lastHash'[r] = LastOf(files[r])
    BY <1>1, <1>2
  <2>4. QED  BY <1>2, <2>1, <2>2, <2>3 DEF ChainOK
<1>3. ASSUME NEW r \in Replicas, NEW id \in Nat, NEW d \in Decisions, Log(r, id, d)
      PROVE  ChainOK'
  <2>1. PICK l \in FileRec : Logged(r, l)
    BY <1>1, <1>3, LogCases
  <2>2. \A s \in Replicas : s # r => files'[s] = files[s] /\ lastHash'[s] = lastHash[s] /\ faults'[s] = faults[s]
    BY <1>1, <2>1 DEF Logged
  <2>3. ASSUME faults'[r].torn + faults'[r].sync = 0
        PROVE  /\ \A k \in DOMAIN files'[r] : /\ files'[r][k].readable /\ files'[r][k].ended
                                              /\ files'[r][k].prev = k - 1 /\ files'[r][k].hash = k
               /\ lastHash'[r] = Len(files'[r])
    <3>0. faults[r].torn \in Nat /\ faults[r].sync \in Nat /\ files[r] \in Seq(FileRec)
      BY <1>1
    <3>1. /\ faults[r].torn + faults[r].sync = 0
          /\ \/ /\ l.readable /\ l.ended /\ l.prev = lastHash[r] /\ l.hash = Place(files[r])
                /\ files'[r] = Put(files[r], l) /\ lastHash'[r] = Place(files[r])
             \/ files'[r] = files[r] /\ lastHash'[r] = lastHash[r]
      <4>1. \/ /\ l.readable /\ l.ended /\ l.prev = lastHash[r] /\ l.hash = Place(files[r])
               /\ files' = [files EXCEPT ![r] = Put(files[r], l)]
               /\ lastHash' = [lastHash EXCEPT ![r] = Place(files[r])] /\ faults' = faults
            \/ files' = files /\ lastHash' = lastHash
               /\ faults' = [faults EXCEPT ![r] = [faults[r] EXCEPT !.write = @ + 1]]
            \/ faults' = [faults EXCEPT ![r] = [faults[r] EXCEPT !.torn = @ + 1]]
            \/ faults' = [faults EXCEPT ![r] = [faults[r] EXCEPT !.sync = @ + 1]]
        BY <1>1, <2>1 DEF Logged
      <4>2. \/ /\ l.readable /\ l.ended /\ l.prev = lastHash[r] /\ l.hash = Place(files[r])
               /\ files'[r] = Put(files[r], l)
               /\ lastHash'[r] = Place(files[r]) /\ faults'[r] = faults[r]
            \/ files'[r] = files[r] /\ lastHash'[r] = lastHash[r]
               /\ faults'[r].torn = faults[r].torn /\ faults'[r].sync = faults[r].sync
            \/ faults'[r].torn = faults[r].torn + 1 /\ faults'[r].sync = faults[r].sync
            \/ faults'[r].torn = faults[r].torn /\ faults'[r].sync = faults[r].sync + 1
        BY <1>1, <4>1
      <4>3. QED  BY <2>3, <3>0, <4>2
    <3>2. /\ \A k \in DOMAIN files[r] : /\ files[r][k].readable /\ files[r][k].ended
                                        /\ files[r][k].prev = k - 1 /\ files[r][k].hash = k
          /\ lastHash[r] = Len(files[r])
      BY <3>1 DEF ChainOK
    <3>3. CASE files'[r] = Put(files[r], l) /\ lastHash'[r] = Place(files[r])
               /\ l.readable /\ l.ended /\ l.prev = lastHash[r] /\ l.hash = Place(files[r])
      <4>1. ~Cut(files[r])
        BY <3>0, <3>2 DEF Cut
      <4>2. /\ Place(files[r]) = Len(files[r]) + 1 /\ Len(files'[r]) = Place(files[r])
            /\ DOMAIN files'[r] = 1..(Len(files[r]) + 1) /\ DOMAIN files[r] = 1..Len(files[r])
            /\ files'[r][Len(files[r]) + 1] = l
            /\ \A k \in DOMAIN files[r] : files'[r][k] = files[r][k]
            /\ Len(files[r]) \in Nat
        BY <3>0, <3>3, <4>1, PutWhole
      <4>3. QED  BY <3>2, <3>3, <4>2
    <3>4. QED  BY <3>1, <3>2, <3>3
  <2>4. QED  BY <2>2, <2>3 DEF ChainOK
<1>4. CASE UNCHANGED audit
  BY <1>4 DEF ChainOK, audit
<1>5. QED  BY <1>2, <1>3, <1>4, FilesStep

\* Whatever writes of the audit file fail, and however: it claims no execution that did
\* not happen; of those whose record was handed to Log it lacks at most one for each write
\* that failed and two for each that was cut short; and a file none of whose writes left
\* bytes that lastHash does not stand for verifies at the next start (audit.go:145-155).
THEOREM AuditIsBelieved == Spec => []AuditHolds
<1>1. Init => ChainOK
  BY DEF Init, ChainOK
<1>2. Init => LossOK
  <2> SUFFICES ASSUME Init, NEW r \in Replicas
               PROVE  Cardinality(Missing(r)) + (IF Cut(files[r]) THEN 1 ELSE 0)
                        <= faults[r].write + 2 * faults[r].torn
    BY DEF LossOK
  <2>1. Missing(r) = {} /\ ~Cut(files[r]) /\ faults[r].write = 0 /\ faults[r].torn = 0
    BY DEF Init, Missing, Cut
  <2>2. QED  BY <2>1, FS_EmptySet
<1>3. IInv /\ ChainOK /\ [Next]_vars => ChainOK'
  BY ChainStep
<1>4. IInv /\ LossOK /\ [Next]_vars => LossOK'
  BY LossStep
<1>5. IInv /\ ChainOK => ChainVerifies
  <2> SUFFICES ASSUME IInv, ChainOK, NEW r \in Replicas, faults[r].torn + faults[r].sync = 0,
                      NEW i \in DOMAIN files[r]
               PROVE  files[r][i].readable /\ files[r][i].prev = IF i = 1 THEN 0 ELSE files[r][i - 1].hash
    BY DEF ChainVerifies, verifyChain
  <2>1. files[r] \in Seq(FileRec)
    BY TypeParts DEF IInv, GateType, AuditType
  <2>2. i # 1 => i - 1 \in DOMAIN files[r]
    BY <2>1
  <2>3. QED  BY <2>1, <2>2 DEF ChainOK
<1>6. IInv /\ LossOK => LossesAreFaults
  <2> SUFFICES ASSUME IInv, LossOK, NEW r \in Replicas
               PROVE  Cardinality(Missing(r)) <= faults[r].write + 2 * faults[r].torn
    BY DEF LossesAreFaults
  <2>1. Cardinality(Missing(r)) \in Nat
    BY MissingFinite, FS_CardinalityType
  <2>2. faults \in [Replicas -> [write : Nat, torn : Nat, sync : Nat]]
    BY TypeParts DEF IInv, GateType, AuditType
  <2>3. faults[r].write \in Nat /\ faults[r].torn \in Nat
    BY <2>2
  <2>4. Cardinality(Missing(r)) + (IF Cut(files[r]) THEN 1 ELSE 0) <= faults[r].write + 2 * faults[r].torn
    BY DEF LossOK
  <2>5. QED  BY <2>1, <2>3, <2>4
<1>7. IInv => AuditTruthful
  BY DEF IInv
<1>8. QED  BY <1>1, <1>2, <1>3, <1>4, <1>5, <1>6, <1>7, InvAlways, PTL DEF Spec, AuditHolds

=============================================================================
