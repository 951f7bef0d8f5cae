--------------------------- MODULE MCThreadNotes ---------------------------
(* Instances of ThreadNotes for TLC. *)
EXTENDS ThreadNotes, TLC

CONSTANTS r1, r2, r3, w1, w2, k1, k2, p1, p2

Symmetric == Permutations(Workers) \cup Permutations(Keys) \cup Permutations(Processes)

Notes == {<<"note", "text">>}

\* Two handlers of one thread against a forge that fails, and a window that slides.
Outage == [faults |-> {"forge", "lost"}, failures |-> 1, roots |-> {r1}, births |-> 1,
           deliveries |-> 3, ticks |-> 0, slides |-> TRUE,
           chat |-> FALSE, messages |-> Notes, drafts |-> {}, maxLive |-> 1]

\* Two threads of which the registry keeps one, and a TTL that runs out.
Crowded == [faults |-> {}, failures |-> 0, roots |-> {r1, r2}, births |-> 2,
            deliveries |-> 2, ticks |-> 1, slides |-> FALSE,
            chat |-> FALSE, messages |-> Notes, drafts |-> {}, maxLive |-> 1]

\* A root that is made anew while two others wait to be evicted.
Reborn == [Crowded EXCEPT !.roots = {r1, r2, r3}, !.births = 4, !.messages = {<<>>}, !.maxLive = 2]

\* A process that dies at any point.
Crashes == [faults |-> {"crash"}, failures |-> 1, roots |-> {r2}, births |-> 2,
            deliveries |-> 3, ticks |-> 0, slides |-> FALSE,
            chat |-> FALSE, messages |-> Notes, drafts |-> {}, maxLive |-> 1]

\* A disk that fails: an append that is refused, or torn by a crash, then a crash.
Disk == [faults |-> {"append", "torn", "crash"}, failures |-> 2, roots |-> {r2}, births |-> 2,
         deliveries |-> 2, ticks |-> 0, slides |-> FALSE,
            chat |-> FALSE, messages |-> Notes, drafts |-> {}, maxLive |-> 1]

\* The Lease moves between two replicas.
Moves == [faults |-> {"failover"}, failures |-> 1, roots |-> {r1}, births |-> 1,
          deliveries |-> 2, ticks |-> 0, slides |-> FALSE,
            chat |-> FALSE, messages |-> Notes, drafts |-> {}, maxLive |-> 1]

\* Questions to the model, whose calls overlap.
Chatty == [faults |-> {}, failures |-> 0, roots |-> {r1}, births |-> 1, deliveries |-> 3,
           ticks |-> 0, slides |-> FALSE, chat |-> TRUE, messages |-> {<<"text">>}, drafts |-> {FALSE}, maxLive |-> 1]

\* Commands in prose, and a note the model drafts.
Prose == [faults |-> {}, failures |-> 0, roots |-> {r1}, births |-> 1, deliveries |-> 2,
          ticks |-> 0, slides |-> FALSE, chat |-> TRUE, drafts |-> {TRUE}, maxLive |-> 1,
          messages |-> {<<"text">>, <<"note", "text", "silence", "text">>, <<"silence", "text">>,
                        <<"text", "note">>, <<>>}]

Usual == {Chatty, Prose, Outage, Crowded, Reborn, Crashes, Disk, Moves}
Move == {Moves}
Requeue == {Reborn}
=============================================================================
