----------------------------- MODULE MCGandrTui -----------------------------
(***************************************************************************)
(* A small instance of GandrTui: one correspondent who sends one message   *)
(* of each kind, one channel joined and one more to join, and a sealed     *)
(* message left from an earlier run.                                       *)
(***************************************************************************)
EXTENDS GandrTui, TLC

Envelope(id, kind, from, about) == [id |-> id, kind |-> kind, from |-> from, about |-> about]
Left == Envelope("s0", "sealed", "p", "")
Sealed == Envelope("s1", "sealed", "p", "")

MCEnv == {Sealed, Envelope("m1", "chat", "p", "a"), Envelope("t1", "thread", "p", ""),
          Envelope("x1", "delete", "p", "t1")}
         \cup {Envelope(k, k, "p", "") : k \in {"post", "reply", "profile", "guestbook", "status"}}
MCOwn == {Envelope("o1", "chat", "me", "a")}
         \cup {Envelope("o2", k, "me", "") : k \in {"post", "reply", "thread", "guestbook"}}

MCStartDb == {[channels |-> IF left = "none" THEN <<>> ELSE <<"a">>,
               sealed |-> (Left :> left) @@ (Sealed :> "none"),
               nick |-> [p \in {"p", "me"} |-> "none"], blocked |-> {}, profiles |-> {},
               accepted |-> left # "none"] : left \in {"none", "unread", "read"}}

\* Everything for a short time, then each part for longer.
Of(kinds) == {e \in MCEnv : e.kind \in kinds}
MCPlan ==
    {[env |-> MCEnv, tabs |-> Tab, lines |-> TRUE, stops |-> TRUE, events |-> 2],
     [env |-> Of({"chat"}), tabs |-> {"feed", "messages"}, lines |-> TRUE, stops |-> FALSE, events |-> 3],
     [env |-> Of({"chat", "sealed"}), tabs |-> {"feed", "messages"}, lines |-> FALSE, stops |-> FALSE, events |-> 4],
     [env |-> Of({"sealed"}), tabs |-> {}, lines |-> FALSE, stops |-> TRUE, events |-> 3],
     [env |-> {}, tabs |-> {}, lines |-> FALSE, stops |-> TRUE, events |-> 4],
     [env |-> Of({"post", "profile"}), tabs |-> {"feed", "network"}, lines |-> FALSE, stops |-> FALSE, events |-> 4],
     [env |-> Of({"thread", "delete"}), tabs |-> {"forum"}, lines |-> FALSE, stops |-> FALSE, events |-> 5],
     [env |-> Of({"status", "guestbook", "reply"}), tabs |-> {"people", "settings"}, lines |-> FALSE, stops |-> FALSE, events |-> 4]}
=============================================================================
