----------------------------- MODULE ActionGate -----------------------------
(***************************************************************************)
(* The remediation gate of every replica: under mode "approve" the queue   *)
(* of actions that wait for a human, under mode "auto" the kill switch and *)
(* the rate window, both in the memory of the process that leads; and the  *)
(* hash-chained audit file of each replica, whose writes may fail.         *)
(*                                                                         *)
(* A step is what happens under one lock, or between two of them.  Times   *)
(* are abstracted: an entry past its TTL is in `aged', and the window of   *)
(* the rate limiter slides one execution at a time.                        *)
(***************************************************************************)
EXTENDS LeaderForward, FiniteSets

CONSTANTS
    Actions,        \* what a model proposes: [op, kind, ns, reversible, blast]
    Known,          \* providers.Ops: the operations an executor runs
    AllowedKinds, AllowedNamespaces, Protected, MaxBlast,   \* the policy
    MaxPerWindow,   \* executions per window in mode auto, 0 for no limit
    Configs         \* the deployments: [mode, dryRun], and for each the bounds
                    \* [actions, requests, crashes, faults (of one replica's file)]

ASSUME PolicyAssumption == MaxBlast \in Nat /\ MaxPerWindow \in Nat /\ "" \notin Known

VARIABLES
    config,     \* the deployment, the same on every replica
    proposed,   \* every action that passed Review; its index is its id
    pending,    \* Approvals.pending of every process
    aged,       \* the ids whose entry is older than the TTL
    paused,     \* Auto.paused of every process
    recent,     \* Auto.recent of every process: executions in the window
    work,       \* what every term's worker is doing: [pc, id, cleared]
    applied,    \* the ids patched onto the cluster, in order
    files,      \* the audit file of every replica
    lastHash,   \* Logger.lastHash of every process
    faults,     \* auxiliary: the audit writes of every replica that failed, by how
    told        \* auxiliary: the executions whose record a replica has handed to Log

audit == <<files, lastHash, faults, told>>
gate == <<config, proposed, pending, aged, paused, recent, work, applied, audit>>
vars == <<routing, gate>>

Idle == [pc |-> "idle", id |-> 0, cleared |-> FALSE]

-----------------------------------------------------------------------------
(* The policy.                                                             *)

\* Reversibility and blast radius come from the operation, whatever the model
\* claims; an unknown operation is not reversible; a suggestion keeps its claims.
deriveSafety(a) ==
    IF a.op = "" THEN a
    ELSE IF a.op \in Known THEN [a EXCEPT !.reversible = TRUE, !.blast = 1]
    ELSE [a EXCEPT !.reversible = FALSE]


namespaceViolation(ns) == ns = "" \/ ns \in Protected \/ ns \notin AllowedNamespaces

violation(a) ==
    \/ a.op # "" /\ a.op \notin Known
    \/ ~a.reversible
    \/ MaxBlast > 0 /\ a.blast > MaxBlast
    \/ AllowedKinds # {} /\ a.kind # "" /\ a.kind \notin AllowedKinds
    \/ a.op # "" /\ (a.kind = "" \/ namespaceViolation(a.ns))

Review(as) == {a \in {deriveSafety(b) : b \in as} : ~violation(a)}

-----------------------------------------------------------------------------
(* The audit file.  A record's hash stands for its place; a line without   *)
(* its end is what a write leaves that was cut short.                      *)

verifyChain(f) ==
    \A i \in DOMAIN f : f[i].readable /\ f[i].prev = IF i = 1 THEN 0 ELSE f[i - 1].hash

LastOf(f) == IF f = <<>> THEN 0 ELSE f[Len(f)].hash

\* What is written after a line without its end is glued to it.
Cut(f) == f # <<>> /\ ~f[Len(f)].ended
Place(f) == IF Cut(f) THEN Len(f) ELSE Len(f) + 1
Put(f, l) == IF Cut(f) THEN [f EXCEPT ![Len(f)] = [l EXCEPT !.readable = FALSE]] ELSE Append(f, l)

\* The write, or the Sync after it, fails: no byte is in the file, or some are, or the
\* whole line is.  The hash the next record is chained to stays.
LogFails(r, l) ==
    /\ faults[r].write + faults[r].torn + faults[r].sync < config.faults
    /\ \/ faults' = [faults EXCEPT ![r].write = @ + 1] /\ UNCHANGED files
       \/ /\ faults' = [faults EXCEPT ![r].torn = @ + 1]
          /\ \E readable \in BOOLEAN :
                files' = [files EXCEPT ![r] = Put(@, [l EXCEPT !.readable = readable, !.ended = FALSE])]
       \/ /\ faults' = [faults EXCEPT ![r].sync = @ + 1]
          /\ files' = [files EXCEPT ![r] = Put(@, l)]
    /\ UNCHANGED lastHash

\* Logger.Log of process r: a record of what was decided about an action.  recordAttempt
\* drops the error.
Log(r, id, decision) ==
    LET l == [prev |-> lastHash[r], hash |-> Place(files[r]), id |-> id, decision |-> decision,
              readable |-> TRUE, ended |-> TRUE]
    IN /\ told' = [told EXCEPT ![r] = IF decision = "executed" THEN @ \cup {id} ELSE @]
       /\ \/ /\ files' = [files EXCEPT ![r] = Put(@, l)]
             /\ lastHash' = [lastHash EXCEPT ![r] = l.hash]
             /\ UNCHANGED faults
          \/ LogFails(r, l)

NoLog == UNCHANGED audit

\* OpenVerified: a process that executes refuses to start on a broken chain.
Starts(r) == verifyChain(files[r])

Init ==
    /\ RoutingInit
    /\ config \in Configs
    /\ proposed = <<>>
    /\ pending = [r \in Replicas |-> {}]
    /\ aged = {}
    /\ paused = [r \in Replicas |-> TRUE]
    /\ recent = [r \in Replicas |-> 0]
    /\ work = <<>>
    /\ applied = <<>>
    /\ files = [r \in Replicas |-> <<>>]
    /\ lastHash = [r \in Replicas |-> 0]
    /\ faults = [r \in Replicas |-> [write |-> 0, torn |-> 0, sync |-> 0]]
    /\ told = [r \in Replicas |-> {}]

-----------------------------------------------------------------------------
(* An investigation completes and its actions reach the gate.              *)

\* A term's worker is at onInvestigationComplete with one reviewed action.
Propose(t, a) ==
    /\ terms[t].started /\ terms[t].live /\ work[t].pc = "idle"
    /\ Len(proposed) < config.actions
    /\ proposed' = Append(proposed, a)
    /\ UNCHANGED <<routing, config, aged, paused, recent, applied>>

\* Mode approve registers the action under a new id.
Register(t, a) ==
    /\ config.mode = "approve"
    /\ Propose(t, a)
    /\ pending' = [pending EXCEPT ![terms[t].at] = @ \cup {Len(proposed')}]
    /\ UNCHANGED <<work, audit>>

\* Mode auto begins runOne with its switch: the kill switch, the confidence,
\* reversibility, an empty op, dry-run; a gate that holds the action back is recorded.
RunOne(t, a, confident) ==
    LET r == terms[t].at
        skip == paused[r] \/ ~confident \/ ~a.reversible \/ a.op = ""
    IN /\ config.mode = "auto"
       /\ Propose(t, a)
       /\ IF skip \/ config.dryRun
          THEN /\ Log(r, Len(proposed'), IF skip THEN "skipped" ELSE "dry-run")
               /\ UNCHANGED work
          ELSE /\ NoLog
               /\ work' = [work EXCEPT ![t] = [pc |-> "recheck", id |-> Len(proposed'), cleared |-> FALSE]]
       /\ UNCHANGED pending

\* Mutant: the kill switch is not read again.
AutoNoRecheck(t) ==
    /\ work[t].pc = "recheck" /\ terms[t].at \in up
    /\ work' = [work EXCEPT ![t].pc = "reserve"]
    /\ UNCHANGED <<routing, config, proposed, pending, aged, paused, recent, applied, audit>>

\* The second look at the kill switch, then the envelope again.
AutoRecheck(t) ==
    LET r == terms[t].at
        a == deriveSafety(proposed[work[t].id])
    IN /\ work[t].pc = "recheck" /\ r \in up
       /\ IF paused[r] \/ violation(a)
          THEN /\ Log(r, work[t].id, IF paused[r] THEN "skipped" ELSE "denied")
               /\ work' = [work EXCEPT ![t] = Idle]
          ELSE /\ NoLog
               /\ work' = [work EXCEPT ![t].pc = "reserve"]
       /\ UNCHANGED <<routing, config, proposed, pending, aged, paused, recent, applied>>

AutoReserve(t) ==
    LET r == terms[t].at
    IN /\ work[t].pc = "reserve" /\ r \in up
       /\ IF MaxPerWindow > 0 /\ recent[r] >= MaxPerWindow
          THEN /\ Log(r, work[t].id, "skipped")
               /\ work' = [work EXCEPT ![t] = Idle]
               /\ UNCHANGED recent
          ELSE /\ NoLog
               /\ work' = [work EXCEPT ![t].pc = "execute"]
               /\ recent' = [recent EXCEPT ![r] = @ + 1]
       /\ UNCHANGED <<routing, config, proposed, pending, aged, paused, applied>>

\* The executor: it refuses an unknown operation and a context that has ended; an error is
\* what the cluster refused, or what it did and the answer was lost.
Executes(id, live, outcome) ==
    \/ live /\ proposed[id].op \in Known /\ applied' = Append(applied, id)
    \/ outcome = "error" /\ UNCHANGED applied

AutoExecute(t, outcome) ==
    /\ work[t].pc = "execute" /\ terms[t].at \in up
    /\ Executes(work[t].id, terms[t].live, outcome)
    /\ work' = [work EXCEPT ![t].pc = outcome]
    /\ UNCHANGED <<routing, config, proposed, pending, aged, paused, recent, audit>>

\* auditedExecutor writes the record after the patch has returned.
AutoRecord(t) ==
    /\ work[t].pc \in {"patched", "error"} /\ terms[t].at \in up
    /\ Log(terms[t].at, work[t].id, IF work[t].pc = "patched" THEN "executed" ELSE "failed")
    /\ work' = [work EXCEPT ![t] = Idle]
    /\ UNCHANGED <<routing, config, proposed, pending, aged, paused, recent, applied>>

WindowSlides(r) ==
    /\ recent[r] > 0
    /\ recent' = [recent EXCEPT ![r] = @ - 1]
    /\ UNCHANGED <<routing, config, proposed, pending, aged, paused, work, applied, audit>>

-----------------------------------------------------------------------------
(* The handlers, in the process the request was routed to.                 *)

Serving(n, kind) == sends[n].pc = "serve" /\ sends[n].kind = kind /\ sends[n].at \in up

Reply(n, a) == sends' = [sends EXCEPT ![n] = Answered(@, a)]

ElectionUnchanged == UNCHANGED <<up, crashes, holder, leader, tracker, terms>>

\* Mutant: the entry is read under the lock and left there.
ApproveUnclaimed(n) ==
    LET r == sends[n].at
        id == sends[n].id
    IN /\ Serving(n, "approve")
       /\ IF id \in pending[r] /\ id \notin aged
          THEN sends' = [sends EXCEPT ![n].pc = "claimed"]
          ELSE Reply(n, "refused")
       /\ ElectionUnchanged
       /\ UNCHANGED gate

\* Approve claims the entry under the lock that reads it; an entry past its TTL is
\* refused and left for List to collect.
ApproveClaim(n) ==
    LET r == sends[n].at
        id == sends[n].id
        claim == id \in pending[r] /\ id \notin aged
    IN /\ Serving(n, "approve")
       /\ IF claim
          THEN /\ pending' = [pending EXCEPT ![r] = @ \ {id}]
               /\ sends' = [sends EXCEPT ![n].pc = "claimed"]
          ELSE Reply(n, "refused") /\ UNCHANGED pending
       /\ ElectionUnchanged
       /\ UNCHANGED <<config, proposed, aged, paused, recent, work, applied, audit>>

\* The envelope again, then the executor with the request's context.
ApproveExecute(n, outcome) ==
    LET m == sends[n]
    IN /\ m.pc = "claimed" /\ m.at \in up
       /\ IF violation(deriveSafety(proposed[m.id]))
          THEN /\ Log(m.at, m.id, "denied")
               /\ Reply(n, "failed")
               /\ UNCHANGED applied
          ELSE /\ NoLog
               /\ Executes(m.id, ~m.cut, outcome)
               /\ sends' = [sends EXCEPT ![n].pc = outcome]
       /\ ElectionUnchanged
       /\ UNCHANGED <<config, proposed, pending, aged, paused, recent, work>>

\* Mutant: the record does not look at the outcome.
ApproveRecordBlind(n) ==
    LET m == sends[n]
    IN /\ m.pc \in {"patched", "error"} /\ m.at \in up
       /\ Log(m.at, m.id, "executed")
       /\ Reply(n, IF m.pc = "patched" THEN "ok" ELSE "failed")
       /\ ElectionUnchanged
       /\ UNCHANGED <<config, proposed, pending, aged, paused, recent, work, applied>>

ApproveRecord(n) ==
    LET m == sends[n]
        done == m.pc = "patched"
    IN /\ m.pc \in {"patched", "error"} /\ m.at \in up
       /\ Log(m.at, m.id, IF done THEN "executed" ELSE "failed")
       /\ Reply(n, IF done THEN "ok" ELSE "failed")
       /\ ElectionUnchanged
       /\ UNCHANGED <<config, proposed, pending, aged, paused, recent, work, applied>>

\* Mutant: a reject is acknowledged and the entry stays.
RejectKeeps(n) ==
    /\ Serving(n, "reject")
    /\ Reply(n, IF sends[n].id \in pending[sends[n].at] THEN "ok" ELSE "refused")
    /\ ElectionUnchanged
    /\ UNCHANGED gate

\* Reject has no TTL.
Reject(n) ==
    LET r == sends[n].at
        id == sends[n].id
    IN /\ Serving(n, "reject")
       /\ pending' = [pending EXCEPT ![r] = @ \ {id}]
       /\ Reply(n, IF id \in pending[r] THEN "ok" ELSE "refused")
       /\ ElectionUnchanged
       /\ UNCHANGED <<config, proposed, aged, paused, recent, work, applied, audit>>

List(n) ==
    LET r == sends[n].at
    IN /\ Serving(n, "list")
       /\ pending' = [pending EXCEPT ![r] = @ \ aged]
       /\ Reply(n, "ok")
       /\ ElectionUnchanged
       /\ UNCHANGED <<config, proposed, aged, paused, recent, work, applied, audit>>

\* Pause marks the workers that are already past their second look.
Pause(n) ==
    LET r == sends[n].at
    IN /\ Serving(n, "pause")
       /\ paused' = [paused EXCEPT ![r] = TRUE]
       /\ work' = [t \in DOMAIN work |->
                      IF terms[t].at = r /\ work[t].pc \in {"reserve", "execute"}
                      THEN [work[t] EXCEPT !.cleared = TRUE] ELSE work[t]]
       /\ Reply(n, "ok")
       /\ ElectionUnchanged
       /\ UNCHANGED <<config, proposed, pending, aged, recent, applied, audit>>

Resume(n) ==
    /\ Serving(n, "resume")
    /\ paused' = [paused EXCEPT ![sends[n].at] = FALSE]
    /\ Reply(n, "ok")
    /\ ElectionUnchanged
    /\ UNCHANGED <<config, proposed, pending, aged, recent, work, applied, audit>>

\* A pending entry outlives its TTL.
Age(id) ==
    /\ id \in DOMAIN proposed \ aged
    /\ \E r \in Replicas : id \in pending[r]
    /\ aged' = aged \cup {id}
    /\ UNCHANGED <<routing, config, proposed, pending, paused, recent, work, applied, audit>>

-----------------------------------------------------------------------------
(* The election and the routing, with what they do to the gate.            *)

\* A term's work begins with an idle worker.
Elect(r) ==
    \/ Acquire(r) /\ work' = Append(work, Idle)
                  /\ UNCHANGED <<config, proposed, pending, aged, paused, recent,
                                 applied, audit>>
    \/ (StartLeading(r) \/ NewLeader(r) \/ LoseLease(r) \/ StopLeading(r)) /\ UNCHANGED gate

\* The memory of the process is gone; the audit file stays.
Die(r) ==
    /\ crashes < config.crashes
    /\ Crash(r)
    /\ pending' = [pending EXCEPT ![r] = {}]
    /\ recent' = [recent EXCEPT ![r] = 0]
    /\ work' = [t \in DOMAIN work |-> IF terms[t].at = r THEN Idle ELSE work[t]]
    /\ UNCHANGED <<config, proposed, aged, paused, applied, audit>>

\* serve: the audit file is verified and the kill switch is engaged.
Boot(r) ==
    /\ Restart(r) /\ Starts(r)
    /\ paused' = [paused EXCEPT ![r] = TRUE]
    /\ lastHash' = [lastHash EXCEPT ![r] = LastOf(files[r])]
    /\ UNCHANGED <<config, proposed, pending, aged, recent, work, applied, files, faults, told>>

Kinds == IF config.mode = "approve" THEN {"approve", "reject", "list"} ELSE {"pause", "resume"}

Ids(kind) == IF kind \in {"approve", "reject"} THEN DOMAIN proposed ELSE {0}

Client ==
    /\ Len(sends) < config.requests
    /\ \E kind \in Kinds, r \in Replicas : \E id \in Ids(kind) : Send(kind, id, r) /\ UNCHANGED gate

Forwarding(n) == (Arrive(n) \/ Unreachable(n) \/ ProxyGivesUp(n)) /\ UNCHANGED gate

Handler(n) ==
    \/ ApproveClaim(n)
    \/ \E o \in {"patched", "error"} : ApproveExecute(n, o)
    \/ ApproveRecord(n)
    \/ Reject(n) \/ List(n) \/ Pause(n) \/ Resume(n)

Worker(t) ==
    \/ \E a \in Review(Actions) : Register(t, a) \/ \E c \in BOOLEAN : RunOne(t, a, c)
    \/ AutoRecheck(t) \/ AutoReserve(t)
    \/ \E o \in {"patched", "error"} : AutoExecute(t, o)
    \/ AutoRecord(t)

Next ==
    \/ \E r \in Replicas : Elect(r) \/ Die(r) \/ Boot(r) \/ WindowSlides(r)
    \/ Client
    \/ \E n \in DOMAIN sends : Forwarding(n) \/ Handler(n)
    \/ \E t \in DOMAIN terms : Worker(t)
    \/ \E id \in DOMAIN proposed : Age(id)

Spec == Init /\ [][Next]_vars

-----------------------------------------------------------------------------
TypeOK ==
    /\ up \subseteq Replicas /\ crashes \in Nat
    /\ holder \in Replicas \cup {Nobody}
    /\ leader \in [Replicas -> BOOLEAN]
    /\ tracker \in [Replicas -> Replicas \cup {Nobody}]
    /\ terms \in Seq([at : Replicas, live : BOOLEAN, started : BOOLEAN])
    /\ sends \in Seq([kind : {"approve", "reject", "list", "pause", "resume"}, id : Nat,
                      at : Replicas, hop : BOOLEAN, cut : BOOLEAN,
                      pc : {"arrived", "serve", "claimed", "patched", "error", "done"},
                      answer : Answers])
    /\ config \in Configs
    /\ proposed \in Seq(Review(Actions))
    /\ pending \in [Replicas -> SUBSET (1..Len(proposed))]
    /\ aged \subseteq 1..Len(proposed)
    /\ paused \in [Replicas -> BOOLEAN]
    /\ recent \in [Replicas -> Nat]
    /\ work \in Seq([pc : {"idle", "recheck", "reserve", "execute", "patched", "error"},
                     id : Nat, cleared : BOOLEAN])
    /\ Len(work) = Len(terms)
    /\ applied \in Seq(1..Len(proposed))
    /\ files \in [Replicas -> Seq([prev : Nat, hash : Nat, id : Nat, decision :
                      {"executed", "failed", "denied", "skipped", "dry-run"},
                      readable : BOOLEAN, ended : BOOLEAN])]
    /\ lastHash \in [Replicas -> Nat]
    /\ faults \in [Replicas -> [write : Nat, torn : Nat, sync : Nat]]
    /\ told \in [Replicas -> SUBSET (1..Len(proposed))]

\* An action reaches the cluster at most once, whoever approves it, however often
\* the request is retried, proxied or cut off (approvals.go:86-104).
AtMostOnce == \A i, j \in DOMAIN applied : applied[i] = applied[j] => i = j

\* What reaches the cluster was sanctioned.  Under approve someone approved that very id
\* and no reject of it was ever acknowledged (approvals.go:129); in every mode it is a
\* known operation on a permitted, unprotected target, whatever the model claimed
\* about it (safety.go:20).
OnlySanctioned ==
    \A i \in DOMAIN applied :
        LET a == proposed[applied[i]]
            asked(kind) == {n \in DOMAIN sends : sends[n].kind = kind /\ sends[n].id = applied[i]}
        IN /\ a.op \in Known /\ a.kind # "" /\ a.ns \in AllowedNamespaces \ Protected
           /\ config.mode = "approve" =>
                  asked("approve") # {} /\ \A n \in asked("reject") : sends[n].answer # "ok"

Says(e, id) == e.readable /\ e.id = id /\ e.decision = "executed"
Missing(r) == {id \in told[r] : ~\E k \in DOMAIN files[r] : files[r][k].ended /\ Says(files[r][k], id)}

\* The audit file claims no execution that did not happen, and what an approval was told
\* was done is, and had its record (executor.go:45).
AuditTruthful ==
    /\ \A r \in Replicas : \A k \in DOMAIN files[r] :
          Says(files[r][k], files[r][k].id) => \E i \in DOMAIN applied : applied[i] = files[r][k].id
    /\ \A r \in Replicas : \A id \in told[r] : \E i \in DOMAIN applied : applied[i] = id
    /\ \A n \in DOMAIN sends :
          sends[n].kind = "approve" /\ sends[n].answer = "ok" => sends[n].id \in told[sends[n].at]

\* A write that fails loses its own record, one that is cut short also the next, and a
\* Sync that fails none (audit.go:145-155).
LossesAreFaults == \A r \in Replicas : Cardinality(Missing(r)) <= faults[r].write + 2 * faults[r].torn

\* The file passes its own verification, so the next start is not refused, unless bytes
\* were written that lastHash does not stand for (audit.go:8-9, 153).
ChainVerifies ==
    \A r \in Replicas : faults[r].torn + faults[r].sync = 0 => verifyChain(files[r])

\* As far as writes fail, and no further, the audit file is broken or incomplete; whatever
\* fails it says nothing that was not done.
AuditHolds == AuditTruthful /\ LossesAreFaults /\ ChainVerifies

\* "the executed/failed records are guaranteed by construction" (executor.go:29).
ExecutionsRecorded == \A r \in Replicas : Missing(r) = {}

\* While the kill switch of a process is engaged, the only workers that still
\* execute are those that had passed their second look when it was (auto.go:107).
PauseWins ==
    [][\A t \in DOMAIN work :
          work[t].pc = "execute" /\ work'[t].pc # "execute" /\ applied' # applied
            /\ paused[terms[t].at] => work[t].cleared]_vars

\* A replica never takes the Lease with its kill switch released: leadership that
\* moves cannot resume unattended execution by itself (auto.go:46-48).
TermStartsPaused ==
    [][\A r \in Replicas : Len(terms') > Len(terms) /\ holder' = r => paused[r]]_vars
=============================================================================
