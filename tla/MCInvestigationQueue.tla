------------------------ MODULE MCInvestigationQueue ------------------------
(* Two keys: k1 fires alone (f1) or as a batch of two alerts, k2 fires alone. *)
EXTENDS InvestigationQueue

CONSTANTS k1, k2, f1, f2

MCRequests == {[key |-> k1, fp |-> f1, fps |-> {f1}],
               [key |-> k1, fp |-> f1, fps |-> {f1, f2}],
               [key |-> k2, fp |-> f2, fps |-> {f2}]}
=============================================================================
