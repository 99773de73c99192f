------------------------------- MODULE MCIpc --------------------------------
(***************************************************************************)
(* A small instance of Ipc: two requests with ids that come round, and     *)
(* pushes that overrun a socket and channels with room for one.            *)
(***************************************************************************)
EXTENDS Ipc
=============================================================================
