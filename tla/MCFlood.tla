------------------------------ MODULE MCFlood ------------------------------
(***************************************************************************)
(* Small instances of Flood: daemons that are all peers of each other;     *)
(* Alice's client is at node a, Bob's at b.                                *)
(***************************************************************************)
EXTENDS Flood

CONSTANTS a, b, c

Env(type, sender, target, ts, home) ==
    [type |-> type, sender |-> sender, target |-> target, ts |-> ts, home |-> home]

MCLinks == [n \in Nodes |-> Nodes \ {n}]

Post == Env("post", "alice", None, 1, a)
Ack == Env("ack", "bob", Post, 3, b)

OldProfile == Env("profile", "alice", None, 1, a)
NewProfile == Env("profile", "alice", None, 2, a)
OwnDelete == Env("delete", "alice", NewProfile, 3, a)
ForeignDelete == Env("delete", "bob", NewProfile, 3, b)

Guestbook == Env("guestbook", "bob", "alice", 1, b)
OwnerDelete == Env("delete", "alice", Guestbook, 2, a)

MCStore == {OldProfile, NewProfile, OwnDelete, ForeignDelete, Guestbook, OwnerDelete}
MCAck == {Post, Ack}

MCFaults == {<<b, "crash">>, <<b, "tmp">>}
MCLoss == {<<b, "loss">>}
=============================================================================
