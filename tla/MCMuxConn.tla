---------------------------- MODULE MCMuxConn ----------------------------
(***************************************************************************)
(* Small instances of MuxConn: m3 needs two fragments, the others one.     *)
(***************************************************************************)
EXTENDS MuxConn, TLC

CONSTANTS m1, m2, m3

MCFrags == [m \in Messages |-> IF m = m3 THEN 2 ELSE 1]
MCSymmetry == Permutations({m1, m2})
=============================================================================
