---------------------------- MODULE DurableLedger ----------------------------
(***************************************************************************)
(* What the outcome ledger file promises to whoever replays it: one state  *)
(* that only ever changes by one recorded event at a time, and in which a  *)
(* human silence lapses when its window closes.  Nothing recorded is       *)
(* forgotten, applied twice or reordered, whatever happens to the file.    *)
(***************************************************************************)
EXTENDS OutcomeFold

CONSTANTS
    Events,   \* the events the callers may record
    MaxTime   \* bound on the clock

VARIABLES
    now,      \* wall clock
    state     \* what a replay at now would rebuild

Init ==
    /\ now = 1
    /\ state = Fresh

\* One event, no later than now, is folded in.
Record ==
    /\ \E s \in {state} :
          state' \in {pruneLapsedSilencesLocked(foldLocked(s, e), now) : e \in Events}
    /\ UNCHANGED now

Tick ==
    /\ now < MaxTime
    /\ now' = now + 1
    /\ state' = pruneLapsedSilencesLocked(state, now')

Next == Record \/ Tick

Spec == Init /\ [][Next]_<<now, state>>
==============================================================================
