---------------------------- MODULE MCFederation ----------------------------
(***************************************************************************)
(* Small instances of Federation: which nodes relay, and what may disturb  *)
(* them, each thing once.                                                  *)
(***************************************************************************)
EXTENDS Federation, TLC

NoOne == {}
OnlyServer == {Server}

\* The epochs are only compared: they may be exchanged.
EpochSymmetry == Permutations(Epochs)

MCReboot == {<<Client, "connect">>, <<Server, "restart">>, <<Client, "loss">>}
MCStray == {<<Client, "connect">>, <<Server, "stray">>}
MCConnect == {<<Client, "connect">>}
=============================================================================
