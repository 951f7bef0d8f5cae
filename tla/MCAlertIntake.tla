---------------------------- MODULE MCAlertIntake ----------------------------
(***************************************************************************)
(* Small instances of AlertIntake for TLC: a warning and a critical of one *)
(* correlation group, each of which may fire again.                         **)
(***************************************************************************)
EXTENDS AlertIntake

CONSTANTS f1, f2, k1, k2, g1, x, z

alert(f, t, k, c) == [fp |-> f, group |-> g1, title |-> t, key |-> k, critical |-> c]

MCFps == {f1, f2}
MCGroups == {g1}
MCTitles == {x, z}
MCKeys == {k1, k2}
MCAlerts == {alert(f1, x, k1, FALSE), alert(f2, z, k2, TRUE)}
=============================================================================
