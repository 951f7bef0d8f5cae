--------------------------- MODULE LeaderForward ---------------------------
(***************************************************************************)
(* The replicas of one deployment, the Lease they contend for, and the     *)
(* routing of the requests that only the leader may serve.                 *)
(*                                                                         *)
(* A replica learns the holder of the Lease from OnNewLeader, some time    *)
(* after the Lease has moved, and its own flag follows OnStartedLeading    *)
(* and OnStoppedLeading, some time after it acquired or lost it: two flags *)
(* can be up at once, and a tracked holder can be stale.  A request that   *)
(* reaches a follower is proxied, once, to the tracked holder.             *)
(***************************************************************************)
EXTENDS Naturals, Sequences

CONSTANTS Replicas, Nobody, MaxTerms, MaxSends

ASSUME NobodyAssumption == Nobody \notin Replicas

VARIABLES
    up,       \* the replicas whose process runs
    crashes,  \* how often a process died
    holder,   \* the holder written in the Lease
    leader,   \* the atomic flag IsLeader reads, per replica
    tracker,  \* LeaderTracker: the holder last reported by OnNewLeader
    terms,    \* every term ever acquired: who led, and whether its context lives
    sends     \* every request ever sent: where it is and how it was answered

routing == <<up, crashes, holder, leader, tracker, terms, sends>>

Answers == {"none", "ok", "refused", "failed", "unavailable", "misdirected"}

\* A request still on its way, or being served.
Open(m) == m.pc # "done"

\* The first answer is what the client gets; a proxy that has given up keeps it.
Answered(m, a) == [m EXCEPT !.pc = "done", !.hop = FALSE, !.cut = FALSE,
                            !.answer = IF @ = "none" THEN a ELSE @]

RoutingInit ==
    /\ up = Replicas
    /\ crashes = 0
    /\ holder = Nobody
    /\ leader = [r \in Replicas |-> FALSE]
    /\ tracker = [r \in Replicas |-> Nobody]
    /\ terms = <<>>
    /\ sends = <<>>

-----------------------------------------------------------------------------
(* The election: client-go as RunLeaderElection uses it.                   *)

LiveTerm(r) == \E t \in DOMAIN terms : terms[t].at = r /\ terms[t].live

\* A replica in the acquire loop takes a Lease that was released or has run out.
\* It rejoins the loop only when the callbacks of its previous term have returned.
Acquire(r) ==
    /\ r \in up /\ ~leader[r] /\ \A s \in Replicas : ~LiveTerm(s)
    /\ Len(terms) < MaxTerms
    /\ holder' = r
    /\ terms' = Append(terms, [at |-> r, live |-> TRUE, started |-> FALSE])
    /\ UNCHANGED <<up, crashes, leader, tracker, sends>>

\* OnStartedLeading: the flag, then startWork under the term's context.
StartLeading(r) ==
    /\ \E t \in DOMAIN terms :
          /\ terms[t].at = r /\ terms[t].live /\ ~terms[t].started
          /\ terms' = [terms EXCEPT ![t].started = TRUE]
    /\ leader' = [leader EXCEPT ![r] = TRUE]
    /\ UNCHANGED <<up, crashes, holder, tracker, sends>>

\* OnNewLeader, on every replica that watches the Lease.
NewLeader(r) ==
    /\ r \in up /\ holder \notin {Nobody, tracker[r]}
    /\ tracker' = [tracker EXCEPT ![r] = holder]
    /\ UNCHANGED <<up, crashes, holder, leader, terms, sends>>

\* The Lease is released, or not renewed in time: client-go releases it and
\* cancels the term's context before it calls OnStoppedLeading.
LoseLease(r) ==
    /\ r \in up /\ holder = r /\ Len(terms) < MaxTerms
    /\ \E t \in DOMAIN terms :
          /\ terms[t].at = r /\ terms[t].live /\ terms[t].started
          /\ terms' = [terms EXCEPT ![t].live = FALSE]
    /\ holder' = Nobody
    /\ UNCHANGED <<up, crashes, leader, tracker, sends>>

\* OnStoppedLeading; the for loop of RunLeaderElection then contends again.
StopLeading(r) ==
    /\ r \in up /\ leader[r] /\ ~LiveTerm(r)
    /\ leader' = [leader EXCEPT ![r] = FALSE]
    /\ UNCHANGED <<up, crashes, holder, tracker, terms, sends>>

\* The process dies; what it was serving is cut off, and its caller sees an
\* error it takes for "unavailable".  A Lease it held still names it.
Crash(r) ==
    /\ r \in up /\ (LiveTerm(r) => Len(terms) < MaxTerms)
    /\ crashes' = crashes + 1
    /\ up' = up \ {r}
    /\ UNCHANGED holder
    /\ leader' = [leader EXCEPT ![r] = FALSE]
    /\ tracker' = [tracker EXCEPT ![r] = Nobody]
    /\ terms' = [t \in DOMAIN terms |->
                    IF terms[t].at = r THEN [terms[t] EXCEPT !.live = FALSE] ELSE terms[t]]
    /\ sends' = [n \in DOMAIN sends |->
                    IF Open(sends[n]) /\ sends[n].at = r
                    THEN Answered(sends[n], "unavailable") ELSE sends[n]]

Restart(r) ==
    /\ r \notin up
    /\ up' = up \cup {r}
    /\ UNCHANGED <<crashes, holder, leader, tracker, terms, sends>>

-----------------------------------------------------------------------------
(* Requests: Forward.middleware and Forward.proxy.                         *)

\* The leader serves; so does a follower whose tracker names itself, unless the
\* request was proxied to it.
ServesLocally(m) == leader[m.at] \/ (~m.hop /\ tracker[m.at] = m.at)

middleware(m) ==
    CASE ServesLocally(m)                      -> [m EXCEPT !.pc = "serve"]
      [] ~ServesLocally(m) /\ m.hop            -> Answered(m, "misdirected")
      [] ~ServesLocally(m) /\ ~m.hop /\ tracker[m.at] = Nobody -> Answered(m, "unavailable")
      [] OTHER                                 -> [m EXCEPT !.hop = TRUE, !.at = tracker[m.at]]

\* The Service hands a request to any replica, which routes it.
Send(kind, id, r) ==
    /\ r \in up /\ Len(sends) < MaxSends
    /\ sends' = Append(sends, middleware([kind |-> kind, id |-> id, at |-> r, hop |-> FALSE,
                                         cut |-> FALSE, pc |-> "arrived", answer |-> "none"]))
    /\ UNCHANGED <<up, crashes, holder, leader, tracker, terms>>

\* A proxied request arrives.
Arrive(n) ==
    /\ sends[n].pc = "arrived" /\ sends[n].at \in up
    /\ sends' = [sends EXCEPT ![n] = middleware(@)]
    /\ UNCHANGED <<up, crashes, holder, leader, tracker, terms>>

\* No response: the tracked leader does not answer the dial.
Unreachable(n) ==
    /\ sends[n].pc = "arrived" /\ sends[n].at \notin up
    /\ sends' = [sends EXCEPT ![n] = Answered(@, "unavailable")]
    /\ UNCHANGED <<up, crashes, holder, leader, tracker, terms>>

\* forwardTimeout runs out, or the proxying replica dies, while the leader is
\* still at it: the client hears "unavailable" and the leader's request context ends.
ProxyGivesUp(n) ==
    /\ Open(sends[n]) /\ sends[n].hop /\ ~sends[n].cut
    /\ sends' = [sends EXCEPT ![n].cut = TRUE, ![n].answer = "unavailable"]
    /\ UNCHANGED <<up, crashes, holder, leader, tracker, terms>>

=============================================================================
