-------------------------- MODULE EffectivelyOnce --------------------------
(***************************************************************************)
(* What network.Conn promises its callers (network.go, "Conn is a          *)
(* reliable, message-oriented connection"): delivery is at-least-once with *)
(* deduplication, unordered, and a Send that returns success has reached   *)
(* the peer.  The deduplication is a window: a message may be delivered    *)
(* again only after at least Window others.                                *)
(***************************************************************************)
EXTENDS Integers, Sequences

CONSTANTS
    Messages,   \* message ids, one per call of Send
    Window      \* how many deliveries the receiver remembers, a positive number

VARIABLES
    result,     \* what each Send has returned so far
    delivered   \* every message handed to the peer, oldest first

vars == <<result, delivered>>

Results == {"idle", "sending", "ok", "error"}

Init == /\ result = [m \in Messages |-> "idle"]
        /\ delivered = <<>>

\* m is among the last Window deliveries.
Remembered(m) ==
    \E i \in 1..Len(delivered) : i > Len(delivered) - Window /\ delivered[i] = m

\* The caller submits m.
Submit(m) == /\ result[m] = "idle"
             /\ result' = [result EXCEPT ![m] = "sending"]
             /\ UNCHANGED delivered

\* The peer's receive queue gets a message that was submitted once, whether
\* or not its Send is still waiting.
Deliver(m) == /\ result[m] # "idle"
              /\ ~Remembered(m)
              /\ delivered' = Append(delivered, m)
              /\ UNCHANGED result

\* Send returns; success means that the message did arrive.
Return(m, r) == /\ result[m] = "sending"
                /\ r = "ok" => \E i \in 1..Len(delivered) : delivered[i] = m
                /\ result' = [result EXCEPT ![m] = r]
                /\ UNCHANGED delivered

Next == \E m \in Messages :
            \/ Submit(m)
            \/ Deliver(m)
            \/ \E r \in {"ok", "error"} : Return(m, r)

Spec == Init /\ [][Next]_vars
=============================================================================
