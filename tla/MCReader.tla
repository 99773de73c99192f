------------------------------ MODULE MCReader ------------------------------
(***************************************************************************)
(* A small site: a category with one forum, and a forum at the root; one   *)
(* thread each, one of two pages that have no title.                       *)
(***************************************************************************)
EXTENDS Reader, TLC

CONSTANTS cat, fa, fb, t1, t2

MCParent == (cat :> NoNode) @@ (fa :> cat) @@ (fb :> NoNode)
MCThreadsOf == (cat :> {}) @@ (fa :> {t1}) @@ (fb :> {t2})
MCMaxPage == (t1 :> 2) @@ (t2 :> 1)

EmptyCache == [forums |-> {}, pages |-> {}, titled |-> {}]
UsedCache == [forums |-> {cat, fa, fb}, pages |-> {<<t1, 1>>, <<t1, 2>>}, titled |-> {t1}]
MCCaches == {EmptyCache, UsedCache}
=============================================================================
