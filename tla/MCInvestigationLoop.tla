------------------------ MODULE MCInvestigationLoop ------------------------
(* Instances of InvestigationLoop for TLC. *)
EXTENDS InvestigationLoop

CONSTANTS logs, status

MCTurns == {<<logs>>, <<logs, status>>, <<Malformed, logs>>, <<logs, Submit, status>>}

\* One firing and a provider that is slow, fails, refuses and cuts off.
Long == [steps |-> 4, attempts |-> 1, firings |-> 1, ticks |-> 1, alerts |-> 2, density |-> 1,
         turns |-> MCTurns, summarize |-> FALSE, recall |-> FALSE, human |-> FALSE,
         faults |-> {"model", "deadline", "refusal", "truncation"}]

\* Digests, a tokenizer twice as dense as the estimate, and recall before the loop.
Dense == [Long EXCEPT !.steps = 3, !.density = 2, !.summarize = TRUE, !.recall = TRUE,
                      !.faults = {"truncation", "deadline"}]

\* The trigger fires again and again: humans vote and the ledger fails, ...
Recurring == [Long EXCEPT !.steps = 1, !.firings = 3, !.ticks = 3, !.human = TRUE, !.attempts = 0,
                          !.turns = {<<Submit>>}, !.alerts = 1, !.faults = {"ledger"}]

\* ... or the process dies.
Dying == [Recurring EXCEPT !.human = FALSE, !.alerts = 2, !.attempts = 1,
                         !.faults = {"crash", "model", "notify"}]

MCScenes == {Long, Dense, Recurring, Dying}
=============================================================================
