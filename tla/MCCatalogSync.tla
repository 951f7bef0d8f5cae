--------------------------- MODULE MCCatalogSync ---------------------------
(***************************************************************************)
(* Instances of CatalogSync for TLC.                                       *)
(***************************************************************************)
EXTENDS CatalogSync, TLC

CONSTANTS a, b

\* An entry comes, changes with another, stops to parse, and is reverted.
Moves == << (a :> 1), (a :> 2) @@ (b :> 1), (a :> 1) @@ (b :> Unparseable), (a :> 3) @@ (b :> 1) >>
Rests == << (a :> 1) @@ (b :> 1), (a :> 2) >>
Still == << (a :> 1) >>

Tracked == [history |-> [own |-> Moves, commons |-> Still], pin |-> [own |-> 0, commons |-> 0],
            synced |-> {"own"}, commons |-> FALSE,
            faults |-> {"sync", "diff", "load", "index", "embed", "crash"}, failures |-> 3]

\* Pinned at a revision the branch leaves, or that is still to come.
Pin(n) == [Tracked EXCEPT !.pin["own"] = n]

\* The own root is a mounted directory, only the commons are synced.
Mounted == [Tracked EXCEPT !.history = [own |-> Still, commons |-> Moves], !.synced = {"commons"}, !.commons = TRUE]

\* Both are synced.
Both == [Tracked EXCEPT !.history = [own |-> Rests, commons |-> Rests], !.synced = Roots,
                        !.commons = TRUE, !.faults = {}, !.failures = 0]

\* The walk of the commons fails once.
MCCommonsFault == {[Mounted EXCEPT !.failures = 1, !.faults = {"commons"}]}
MCScenes == {Tracked, Pin(1), Pin(3), Mounted} \cup MCCommonsFault
MCBoth == {Both}

=============================================================================
