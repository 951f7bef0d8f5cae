---------------------------- MODULE MCActionGate ----------------------------
(***************************************************************************)
(* Two replicas; a model that proposes a good action, an unknown           *)
(* operation and a protected target, each claimed to be harmless.          *)
(* Under auto two actions in a row, with a pause and a resume, or with a   *)
(* crash and a failing audit file.                                         *)
(***************************************************************************)
EXTENDS ActionGate, TLC

CONSTANTS r1, r2

action(op, kind, ns) == [op |-> op, kind |-> kind, ns |-> ns, reversible |-> TRUE, blast |-> 0]

MCActions == {action("suspend", "Kustomization", "apps"),
              action("delete", "Kustomization", "apps"),
              action("suspend", "Kustomization", "kube-system")}

deployment(mode, dryRun, as, reqs, deaths, failing) ==
    [mode |-> mode, dryRun |-> dryRun, actions |-> as, requests |-> reqs,
     crashes |-> deaths, faults |-> failing]

MCConfigs == {deployment("approve", FALSE, 1, 2, 1, 1),
              deployment("auto", FALSE, 2, 2, 0, 0),
              deployment("auto", FALSE, 2, 1, 1, 1),
              deployment("auto", TRUE, 1, 2, 0, 0)}

Symmetric == Permutations(Replicas)
=============================================================================
