---------------------------- MODULE MCCacheNode ----------------------------
(***************************************************************************)
(* A small instance of CacheNode: a forum with one subforum, a payload of  *)
(* each, which the peer sends as either, two lookups of a forum and one of *)
(* a payload.                                                              *)
(***************************************************************************)
EXTENDS CacheNode, TLC

CONSTANTS l1, l2, l3

\* Resources and forums are numbers too, apart from the hashes.
MCRes == (1 :> 11) @@ (2 :> 12)
MCKey == [l \in Lookup |-> IF l = l3 THEN 2 ELSE 11]
Reads(ls, n, r, s) ==
    [role |-> "reader", discover |-> FALSE, looks |-> ls, lives |-> n, replies |-> r,
     saves |-> IF s THEN 0 ELSE 1, stops |-> s]
Syncs(d, n, r, s) ==
    [role |-> "cache", discover |-> d, looks |-> {}, lives |-> n, replies |-> r,
     saves |-> 0, stops |-> s]
MCPlan == {Reads({l1, l2}, 1, 2, FALSE), Reads({l1, l3}, 2, 1, FALSE),
           Reads({l1, l2}, 1, 1, TRUE),
           Syncs(FALSE, 1, 0, TRUE), Syncs(TRUE, 2, 0, FALSE), Syncs(TRUE, 1, 1, FALSE)}
MCSeeds == <<11>>
MCChildren == (11 :> <<12>>) @@ (12 :> <<>>)
=============================================================================
