----------------------------- MODULE ChatBudget -----------------------------
(***************************************************************************)
(* The budget of the thread chat: calls and tokens in a sliding window.    *)
(* A call is admitted against an estimate, which stands as a reservation   *)
(* until what the call cost is recorded in its place.  `at' is the order   *)
(* of the entries in time; everything up to `cut' is out of the window.    *)
(***************************************************************************)
EXTENDS Integers, Sequences, FiniteSetsExt

CONSTANTS MaxCalls, MaxTokens   \* the two ceilings, 0 for none

ASSUME CeilingsAssumption == MaxCalls \in Nat /\ MaxTokens \in Nat

\* The elements of a sequence that are in a set, in their order.
Kept(seq, set) ==
    LET kept[i \in 0..Len(seq)] ==
            IF i = 0 THEN <<>>
            ELSE IF seq[i] \in set THEN Append(kept[i - 1], seq[i]) ELSE kept[i - 1]
    IN kept[Len(seq)]

\* The sum of the numbers f has for 1 up to n.
Total(f, n) ==
    LET sum[i \in 0..n] == IF i = 0 THEN 0 ELSE sum[i - 1] + f[i]
    IN sum[n]

NoBudget == [calls |-> {}, spent |-> <<>>]

\* The times of the calls are those of their admission, which differ.
slideLocked(b, cut) ==
    [calls |-> {t \in b.calls : t > cut},
     spent |-> Kept(b.spent, {b.spent[i] : i \in {j \in DOMAIN b.spent : b.spent[j].at > cut}})]

spentLocked(b) == Total([i \in DOMAIN b.spent |-> b.spent[i].tokens], Len(b.spent))

\* Admission asks whether a ceiling is already reached, not whether the call fits.
Admits(b) ==
    /\ MaxCalls = 0 \/ Cardinality(b.calls) < MaxCalls
    /\ MaxTokens = 0 \/ spentLocked(b) < MaxTokens

\* attempt: one critical section that decides and charges the estimate.
attempt(b, estimate, now) ==
    [calls |-> IF MaxCalls = 0 THEN b.calls ELSE b.calls \cup {now},
     spent |-> IF MaxTokens = 0 \/ estimate = 0 THEN b.spent
               ELSE Append(b.spent, [at |-> now, tokens |-> estimate, pending |-> TRUE])]

Pending(b) == {i \in DOMAIN b.spent : b.spent[i].pending}

\* Mutant: the cost is added and the reservation stays.
RecordBeside(b, tokens, now) ==
    [b EXCEPT !.spent = Append(@, [at |-> now, tokens |-> tokens, pending |-> FALSE])]

\* Record settles the newest reservation, or adds an entry when there is none.
Record(b, tokens, now) ==
    IF MaxTokens = 0 THEN b
    ELSE IF Pending(b) = {}
    THEN [b EXCEPT !.spent = Append(@, [at |-> now, tokens |-> tokens, pending |-> FALSE])]
    ELSE LET newest == Max(Pending(b))
         IN [b EXCEPT !.spent[newest].tokens = tokens, !.spent[newest].pending = FALSE]
=============================================================================
