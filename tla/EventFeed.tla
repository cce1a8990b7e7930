------------------------------ MODULE EventFeed ------------------------------
(***************************************************************************)
(* What the server promises a connected client about the critical events:  *)
(* it gets them in the order of their publication and each of them once,   *)
(* and it may only miss events that Window newer ones have followed.       *)
(* Events are numbered in the order of their publication.                  *)
(***************************************************************************)
EXTENDS Naturals

CONSTANTS Client,
          MaxEvent,     \* bound on the events ever published
          Window        \* the newest events are never missed

VARIABLES published,    \* number of events published so far
          since,        \* ... when the client connected
          got           \* the events the client got on this connection

vars == <<published, since, got>>

Init ==
    /\ published = 0
    /\ since = [c \in Client |-> 0]
    /\ got = [c \in Client |-> {}]

Publish ==
    /\ published < MaxEvent
    /\ published' = published + 1
    /\ UNCHANGED <<since, got>>

Join(c) ==
    /\ since' = [since EXCEPT ![c] = published]
    /\ got' = [got EXCEPT ![c] = {}]
    /\ UNCHANGED published

Leave(c) ==
    /\ since' = [since EXCEPT ![c] = 0]
    /\ got' = [got EXCEPT ![c] = {}]
    /\ UNCHANGED published

Deliver(c, e) ==
    /\ \A x \in got[c] : x < e
    /\ \A x \in (since[c] + 1)..(e - 1) : x \in got[c] \/ x + Window <= published
    /\ got' = [got EXCEPT ![c] = @ \cup {e}]
    /\ UNCHANGED <<published, since>>

Next ==
    \/ Publish
    \/ \E c \in Client : Join(c) \/ Leave(c)
    \/ \E c \in Client, e \in 1..published : Deliver(c, e)

Spec == Init /\ [][Next]_vars

=============================================================================
