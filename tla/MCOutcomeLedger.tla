--------------------------- MODULE MCOutcomeLedger ---------------------------
(* One trigger over two alerts; the second entry is only ever recalled for it. *)
EXTENDS OutcomeLedger

CONSTANTS p1, p2, f1, g1, t1, e1, e2, u1, u2, r1

Times == 1..MaxTime

\* A recall of e1 for an alert, a fresh answer for the alert, a recall of e2 for
\* a GitOps failure of the same trigger, which no resolve can reach.
MCOpens ==
    {[kind |-> "open", fp |-> f1, tk |-> t1, entry |-> e, answer |-> e = NoEntry,
      url |-> FALSE, started |-> s, at |-> a] : e \in {e1, NoEntry}, s \in Times, a \in Times}
    \cup {[kind |-> "open", fp |-> g1, tk |-> t1, entry |-> e2, answer |-> TRUE,
           url |-> TRUE, started |-> 1, at |-> a] : a \in Times}

MCResolves == {[kind |-> "resolve", fp |-> f1, at |-> a] : a \in Times}

MCVotes == {[kind |-> "feedback", tk |-> t1, user |-> u, rating |-> r, at |-> a] :
               u \in Users, r \in Ratings, a \in Times}

MCSilences == {[kind |-> "silence", tk |-> t1, window |-> 1, at |-> a] : a \in Times}

MCConfirms == {[kind |-> "confirm", tk |-> t1, entry |-> e1, at |-> a] : a \in Times}

MCVerifies == {[kind |-> "verify", room |-> r1, entry |-> e, verdict |-> h, at |-> a] :
                  e \in Entries, h \in Held, a \in Times}

MCLinks == {[kind |-> "link", tk |-> t1]}

MCEvents == MCOpens \cup MCResolves \cup MCVotes \cup MCSilences \cup MCConfirms
            \cup MCVerifies \cup MCLinks

\* A smaller set for longer histories: recalls of e1 whose investigation began at
\* once or at the start, resolves, one human, silences and one room.
MCShort ==
    {o \in MCOpens : o.fp = f1 /\ o.entry = e1}
    \cup MCResolves \cup MCVotes \cup MCSilences
    \cup {v \in MCVerifies : v.entry = e1 /\ v.verdict = "held"}
==============================================================================
