------------------------------- MODULE MCChat -------------------------------
(***************************************************************************)
(* A small instance of Chat: one default channel and one more to join, a   *)
(* group and a direct conversation; one message comes to the channel and   *)
(* two to the group, so that a transcript of one is trimmed of readable    *)
(* and of unreadable ones, and the user sends one.                         *)
(***************************************************************************)
EXTENDS Chat

CONSTANTS general, extra, grp, dm, r1, r3, r4, o1

MCDefaults == <<general>>
MCConv == [m \in Remote |-> IF m = r1 THEN general ELSE grp]
MCData == {[channels |-> IF used THEN <<general>> ELSE <<>>, chat |-> [c \in Channel |-> <<>>],
            groups |-> IF used THEN {grp} ELSE {}, rows |-> [x \in Group |-> <<>>],
            contacts |-> FALSE] : used \in BOOLEAN}
=============================================================================
