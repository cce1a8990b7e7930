----------------------------- MODULE RateLimiter ------------------------------
(***************************************************************************)
(* The sliding-window limiter _RateLimiter of                              *)
(* src/service/api/websocket.py, which admits the session-control messages *)
(* and the registrations of push tokens.  A call of allow does not yield.  *)
(* Of its list of times only the members matter, not their order.  The     *)
(* clock is time.monotonic.                                                *)
(***************************************************************************)
EXTENDS Naturals, FiniteSets

CONSTANTS Key,              \* peers
          MaxRequests,      \* requests admitted in a window
          RateWindow,       \* its length: 60 s
          SweepInterval,    \* _SWEEP_INTERVAL: 300 s
          MaxTime           \* bound on the clock

ASSUME LimiterAssumption ==
    /\ MaxRequests \in Nat \ {0}
    /\ RateWindow \in Nat \ {0}
    /\ SweepInterval \in Nat
    /\ MaxTime \in Nat

VARIABLES
    now,            \* the clock
    requests,       \* _requests: admitted requests that may still count; {} if no entry
    lastSweep,      \* _last_sweep
    admitted,       \* history: all requests admitted since the server started
    served          \* history: their number, to tell them apart

limiter == <<now, requests, lastSweep, admitted, served>>

Request == [id : Nat, at : Nat]

LimiterTypeOK ==
    /\ now \in Nat
    /\ requests \in [Key -> SUBSET Request]
    /\ lastSweep \in Nat
    /\ admitted \in [Key -> SUBSET Request]
    /\ served \in Nat

Fresh(r) == now - r.at < RateWindow

SweepDue == now - lastSweep > SweepInterval

\* Seeded fault of Swept: a key goes with its first expired entry.
SweptEarly ==
    [k \in Key |-> IF SweepDue /\ \E r \in requests[k] : ~Fresh(r) THEN {} ELSE requests[k]]

\* _sweep, when it is due: the keys without a fresh entry are removed.
Swept ==
    [k \in Key |-> IF SweepDue /\ ~\E r \in requests[k] : Fresh(r) THEN {} ELSE requests[k]]

Recent(k) == {r \in Swept[k] : Fresh(r)}

Swipe == lastSweep' = IF SweepDue THEN now ELSE lastSweep

\* allow returns True
Admit(k) ==
    /\ Cardinality(Recent(k)) < MaxRequests
    /\ LET r == [id |-> served, at |-> now] IN
          /\ requests' = [Swept EXCEPT ![k] = Recent(k) \cup {r}]
          /\ admitted' = [admitted EXCEPT ![k] = @ \cup {r}]
    /\ Swipe
    /\ served' = served + 1
    /\ UNCHANGED now

\* allow returns False
Refuse(k) ==
    /\ Cardinality(Recent(k)) >= MaxRequests
    /\ requests' = [Swept EXCEPT ![k] = Recent(k)]
    /\ Swipe
    /\ UNCHANGED <<now, admitted, served>>

Tick ==
    /\ now < MaxTime
    /\ now' = now + 1
    /\ UNCHANGED <<requests, lastSweep, admitted, served>>

\* A new server has a new limiter.
Reset ==
    /\ requests' = [k \in Key |-> {}]
    /\ lastSweep' = 0
    /\ admitted' = [k \in Key |-> {}]
    /\ UNCHANGED <<now, served>>

LimiterInit ==
    /\ now = 0
    /\ requests = [k \in Key |-> {}]
    /\ lastSweep = 0
    /\ admitted = [k \in Key |-> {}]
    /\ served = 0

LimiterNext ==
    \/ \E k \in Key : Admit(k) \/ Refuse(k)
    \/ Tick
    \/ Reset

LimiterSpec == LimiterInit /\ [][LimiterNext]_limiter

-----------------------------------------------------------------------------
(* Properties. *)

\* The requests of k admitted in the window that begins at t.
Window(k, t) == {r \in admitted[k] : t <= r.at /\ r.at < t + RateWindow}

\* No window, wherever it begins, holds more admitted requests of one peer
\* than the limit.
WindowBound == \A k \in Key : \A t \in 0..now : Cardinality(Window(k, t)) <= MaxRequests

\* A request is refused only if the limit has been admitted within the
\* window that ends with it, whatever was swept and pruned before.
RefusedAtLimit ==
    [][\A k \in Key :
          Refuse(k) => Cardinality({r \in admitted[k] : Fresh(r)}) >= MaxRequests]_limiter

=============================================================================
