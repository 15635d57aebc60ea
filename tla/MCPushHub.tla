------------------------------ MODULE MCPushHub ------------------------------
(***************************************************************************)
(* A small instance of module PushHub: two clients, the order book and    *)
(* the ticker stream, channels of one place.                              *)
(***************************************************************************)
EXTENDS PushHub

\* A client that asks for nothing.
Silent(c) ==
    /\ c \notin failed /\ channels[c] = {}
    /\ \A g \in {"reader", "writer"} : proc[c][g] = Resting(g)

\* It takes three messages to block a client's loop, so many only for a
\* client alone, and only changes if it ends; two while both clients live;
\* one while one of them ends.
\* Client 2 joins only when client 1 is at work.
Explored ==
    /\ Silent(1) => Silent(2)
    /\ sent > 1 => Silent(2) \/ failed = {}
    /\ sent > 2 => Silent(2) /\ (failed = {} \/ lastTicker = 0)
=============================================================================
