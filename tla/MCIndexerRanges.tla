-------------------------- MODULE MCIndexerRanges --------------------------
(* Small instances of IndexerRanges. *)
EXTENDS IndexerRanges, TLC

(* Two ranges of two blocks: the chain grows past one range that is whole, *)
(* one that lies ahead and one that is cut; instances crash and locks      *)
(* expire.  One range, whole or cut: the events that multiply jobs.  One   *)
(* range ahead of the safe head: the cycles that give it back rob others.  *)
MCSharing ==
    [events : {{"grow"}, {"crash"}}, head : {2}, total : {2}]
    \cup [events : {{"expire", "crash"}, {"evict"}}, head : {4}, total : {2}]
    \cup [events : {{"restart"}, {"stop", "expire"}, {"fetch", "expire"}, {"evict", "stall"}},
          head : {1, 2}, total : {1}]
    \cup [events : {{"grow", "expire"}}, head : {0}, total : {1}]

(* All blocks confirmed; locks may expire or not. *)
MCCatchUp == [events : {{"expire"}}, head : {4}, total : {2}]

(* One range, cut in its middle. *)
MCTail == [events : {{}}, head : {1}, total : {1}]

(* Instances are interchangeable; the liveness run does not use this. *)
MCSymmetry == Permutations(Instances)

=============================================================================
