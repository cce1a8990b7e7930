---------------------------- MODULE BroadcastProofs ---------------------------
(***************************************************************************)
(* Proofs about Broadcast, for any clients, bounds and queue capacities.   *)
(* The safety properties of the events follow from one inductive           *)
(* invariant, IInv: the store's queue is the contiguous end of the         *)
(* sequence of events, and each client's queue holds earlier ones, so      *)
(* spaced that what a full queue drops is older than the window.           *)
(***************************************************************************)
EXTENDS Broadcast, TLAPS

-----------------------------------------------------------------------------
(* Queues. *)

LEMMA PutRoom ==
    ASSUME NEW S, NEW q \in Seq(S), NEW m \in S, NEW cap \in Nat \ {0}, Len(q) < cap
    PROVE  /\ Put(q, m, cap) \in Seq(S)
           /\ Len(Put(q, m, cap)) = Len(q) + 1
           /\ \A i \in 1..Len(q) : Put(q, m, cap)[i] = q[i]
           /\ Put(q, m, cap)[Len(q) + 1] = m
<1>1. Put(q, m, cap) = Append(q, m)
  BY DEF Put
<1> QED BY <1>1

LEMMA PutFull ==
    ASSUME NEW S, NEW q \in Seq(S), NEW m \in S, NEW cap \in Nat \ {0}, Len(q) <= cap,
           ~(Len(q) < cap)
    PROVE  /\ Put(q, m, cap) = Append(Tail(q), m)
           /\ Put(q, m, cap) \in Seq(S)
           /\ Len(Put(q, m, cap)) = cap
<1>1. Put(q, m, cap) = Append(Tail(q), m)
  BY DEF Put
<1>2. Tail(q) \in Seq(S) /\ Len(Tail(q)) = cap - 1
  OBVIOUS
<1> HIDE DEF Put
<1> QED BY <1>1, <1>2

\* A queue never exceeds its capacity.
LEMMA PutBounded ==
    ASSUME NEW S, NEW q \in Seq(S), NEW m \in S, NEW cap \in Nat \ {0}, Len(q) <= cap
    PROVE  /\ Put(q, m, cap) \in Seq(S)
           /\ Len(Put(q, m, cap)) <= cap
           /\ Len(Put(q, m, cap)) > 0
<1>1. CASE Len(q) < cap
  BY <1>1, PutRoom
<1>2. CASE ~(Len(q) < cap)
  <2>1. Put(q, m, cap) \in Seq(S) /\ Len(Put(q, m, cap)) = cap
    BY <1>2, PutFull
  <2>2. cap <= cap /\ cap > 0
    OBVIOUS
  <2> QED BY <2>1, <2>2
<1> QED BY <1>1, <1>2

LEMMA TailOf ==
    ASSUME NEW S, NEW q \in Seq(S), q # <<>>
    PROVE  /\ Head(q) \in S
           /\ Head(q) = q[1]
           /\ Len(q) > 0
           /\ Tail(q) \in Seq(S)
           /\ Len(Tail(q)) = Len(q) - 1
           /\ \A i \in 1..(Len(q) - 1) : Tail(q)[i] = q[i + 1]
OBVIOUS

\* The reading queue of a client: it holds the latest reading or none.
LEMMA OneTail ==
    ASSUME NEW S, NEW q \in Seq(S), q # <<>>, Len(q) <= 1
    PROVE  Len(Tail(q)) = 0 /\ Head(q) = q[1] /\ 1 \in 1..Len(q)
<1>1. Len(q) \in Nat /\ Len(q) > 0
  BY TailOf
<1>2. \A n \in Nat : n > 0 /\ n <= 1 => n = 1
  OBVIOUS
<1>3. Len(q) = 1
  BY <1>1, <1>2
<1> QED BY <1>3, TailOf

LEMMA OnePut ==
    ASSUME NEW S, NEW q \in Seq(S), Len(q) <= 1, NEW m
    PROVE  Put(q, m, 1) = <<m>>
<1>1. CASE Len(q) < 1
  <2>1. q = <<>>
    BY <1>1
  <2> QED BY <1>1, <2>1 DEF Put
<1>2. CASE ~(Len(q) < 1)
  <2>1. Put(q, m, 1) = Append(Tail(q), m)
    BY <1>2 DEF Put
  <2>2. Len(q) = 1
    BY <1>2
  <2>3. Tail(q) \in Seq(S) /\ Len(Tail(q)) = 0
    BY <2>2
  <2>4. Tail(q) = <<>>
    BY <2>3
  <2>5. Put(q, m, 1) = Append(<<>>, m)
    BY <2>1, <2>4
  <2> QED BY <2>5
<1> QED BY <1>1, <1>2

LEMMA EmptyQueue ==
    ASSUME NEW S
    PROVE  <<>> \in Seq(S) /\ Len(<<>>) = 0
OBVIOUS

\* The store's queue holds the last messages published, up to the n-th.
Contiguous(q, n) == Len(q) <= n /\ \A i \in 1..Len(q) : q[i] = n - Len(q) + i

LEMMA ContiguousPut ==
    ASSUME NEW S, NEW q \in Seq(S), NEW n \in Nat, n + 1 \in S, NEW cap \in Nat \ {0},
           Len(q) <= cap, Contiguous(q, n)
    PROVE  /\ Contiguous(Put(q, n + 1, cap), n + 1)
           /\ \/ n + 1 - Len(Put(q, n + 1, cap)) = n - Len(q)
              \/ /\ n + 1 - Len(Put(q, n + 1, cap)) = n - Len(q) + 1
                 /\ n - Len(q) + cap = n
<1> DEFINE r == Put(q, n + 1, cap)
<1>0. /\ Len(q) \in Nat /\ Len(q) <= n /\ cap \in Nat /\ cap >= 1 /\ n + 1 \in S
      /\ \A i \in 1..Len(q) : q[i] = n - Len(q) + i
  BY DEF Contiguous
<1>1. CASE Len(q) < cap
  <2>1. /\ Len(r) = Len(q) + 1
        /\ \A i \in 1..Len(q) : r[i] = q[i]
        /\ r[Len(q) + 1] = n + 1
    BY <1>0, <1>1, PutRoom
  <2> HIDE DEF r
  <2>2. \A i \in 1..Len(r) : r[i] = (n + 1) - Len(r) + i
    BY <1>0, <2>1
  <2>3. Len(r) <= n + 1 /\ n + 1 - Len(r) = n - Len(q)
    BY <1>0, <2>1
  <2> QED BY <2>2, <2>3 DEF Contiguous, r
<1>2. CASE ~(Len(q) < cap)
  <2>1. /\ Len(r) = cap
        /\ \A i \in 1..(cap - 1) : r[i] = q[i + 1]
        /\ r[cap] = n + 1
    <3>1. r = Append(Tail(q), n + 1)
      BY <1>2 DEF Put
    <3>2. /\ Tail(q) \in Seq(S)
          /\ Len(Tail(q)) = cap - 1
          /\ \A i \in 1..(cap - 1) : Tail(q)[i] = q[i + 1]
      BY <1>0, <1>2, TailOf
    <3> HIDE DEF r
    <3> QED BY <1>0, <3>1, <3>2
  <2> HIDE DEF r
  <2>0. Len(q) = cap
    BY <1>0, <1>2
  <2>2. \A i \in 1..Len(r) : r[i] = (n + 1) - Len(r) + i
    <3> SUFFICES ASSUME NEW i \in 1..cap PROVE r[i] = (n + 1) - cap + i
      BY <2>1
    <3>1. CASE i = cap
      BY <1>0, <2>1, <3>1
    <3>2. CASE i # cap
      <4>1. i \in 1..(cap - 1) /\ i + 1 \in 1..Len(q)
        BY <1>0, <1>2, <3>2
      <4>2. r[i] = q[i + 1] /\ q[i + 1] = n - Len(q) + (i + 1)
        BY <1>0, <2>1, <4>1
      <4> QED BY <4>2, <1>0, <2>0
    <3> QED BY <3>1, <3>2
  <2>3. Len(r) <= n + 1 /\ n + 1 - Len(r) = n - Len(q) + 1 /\ n - Len(q) + cap = n
    BY <1>0, <2>0, <2>1
  <2> QED BY <2>2, <2>3 DEF Contiguous, r
<1> QED BY <1>0, <1>1, <1>2

LEMMA ContiguousTail ==
    ASSUME NEW S, NEW q \in Seq(S), NEW n \in Nat, q # <<>>, Contiguous(q, n)
    PROVE  /\ Contiguous(Tail(q), n)
           /\ Head(q) = n - Len(q) + 1
           /\ n - Len(Tail(q)) = n - Len(q) + 1
<1>0. /\ Len(q) \in Nat /\ Len(q) > 0 /\ Len(q) <= n
      /\ \A i \in 1..Len(q) : q[i] = n - Len(q) + i
  BY TailOf DEF Contiguous
<1> DEFINE r == Tail(q)
<1>1. Head(q) = q[1] /\ Len(r) = Len(q) - 1 /\ \A i \in 1..(Len(q) - 1) : r[i] = q[i + 1]
  BY TailOf
<1> HIDE DEF r
<1>2. \A i \in 1..Len(r) : r[i] = n - Len(r) + i
  <2> SUFFICES ASSUME NEW i \in 1..(Len(q) - 1) PROVE r[i] = n - (Len(q) - 1) + i
    BY <1>1
  <2>1. i + 1 \in 1..Len(q)
    BY <1>0
  <2>2. r[i] = q[i + 1] /\ q[i + 1] = n - Len(q) + (i + 1)
    BY <1>0, <1>1, <2>1
  <2> QED BY <2>2, <1>0
<1>3. Head(q) = n - Len(q) + 1 /\ Len(r) <= n /\ n - Len(r) = n - Len(q) + 1
  BY <1>0, <1>1
<1> QED BY <1>2, <1>3 DEF Contiguous, r

\* A client's queue holds messages up to the p-th, no two of them nearer to
\* each other than their places.
Spaced(q, p) ==
    /\ \A i \in 1..Len(q) : q[i] \in 1..p
    /\ \A i, j \in 1..Len(q) : i <= j => q[j] - q[i] >= j - i

LEMMA SpacedPut ==
    ASSUME NEW S, NEW q \in Seq(S), NEW p \in Nat, p + 1 \in S, NEW cap \in Nat \ {0},
           Len(q) <= cap, Spaced(q, p)
    PROVE  /\ Spaced(Put(q, p + 1, cap), p + 1)
           /\ \E i \in 1..Len(Put(q, p + 1, cap)) : Put(q, p + 1, cap)[i] = p + 1
           /\ \A i \in 1..Len(Put(q, p + 1, cap)) :
                  Put(q, p + 1, cap)[i] = p + 1 \/ \E j \in 1..Len(q) : Put(q, p + 1, cap)[i] = q[j]
           /\ \A j \in 1..Len(q) :
                  \/ \E i \in 1..Len(Put(q, p + 1, cap)) : Put(q, p + 1, cap)[i] = q[j]
                  \/ q[j] + cap <= p + 1
<1> DEFINE r == Put(q, p + 1, cap)
<1>0. /\ Len(q) \in Nat /\ cap \in Nat /\ cap >= 1 /\ p + 1 \in S
      /\ \A i \in 1..Len(q) : q[i] \in 1..p
      /\ \A i, j \in 1..Len(q) : i <= j => q[j] - q[i] >= j - i
  BY DEF Spaced
<1> SUFFICES /\ \A i \in 1..Len(r) : r[i] \in 1..(p + 1)
             /\ \A i, j \in 1..Len(r) : i <= j => r[j] - r[i] >= j - i
             /\ \E i \in 1..Len(r) : r[i] = p + 1
             /\ \A i \in 1..Len(r) : r[i] = p + 1 \/ \E j \in 1..Len(q) : r[i] = q[j]
             /\ \A j \in 1..Len(q) : (\E i \in 1..Len(r) : r[i] = q[j]) \/ q[j] + cap <= p + 1
  BY DEF Spaced
<1>1. CASE Len(q) < cap
  <2>1. /\ Len(r) = Len(q) + 1
        /\ \A i \in 1..Len(q) : r[i] = q[i]
        /\ r[Len(q) + 1] = p + 1
    BY <1>0, <1>1, PutRoom
  <2> HIDE DEF r
  <2>2. \A i \in 1..Len(r) : r[i] \in 1..(p + 1)
    BY <1>0, <2>1
  <2>3. ASSUME NEW i \in 1..Len(r), NEW j \in 1..Len(r), i <= j PROVE r[j] - r[i] >= j - i
    <3>1. CASE j \in 1..Len(q)
      <4>1. i \in 1..Len(q)
        BY <1>0, <2>1, <2>3, <3>1
      <4> QED BY <1>0, <2>1, <2>3, <3>1, <4>1
    <3>2. CASE j = Len(q) + 1 /\ i \in 1..Len(q)
      <4>1. Len(q) \in 1..Len(q) /\ i <= Len(q)
        BY <1>0, <3>2
      <4>2. q[Len(q)] - q[i] >= Len(q) - i /\ q[Len(q)] \in 1..p /\ q[i] \in 1..p
        BY <1>0, <3>2, <4>1
      <4>3. r[i] = q[i] /\ r[j] = p + 1
        BY <2>1, <3>2
      <4> QED BY <1>0, <3>2, <4>2, <4>3
    <3>3. CASE j = Len(q) + 1 /\ i = Len(q) + 1
      BY <1>0, <2>1, <3>3
    <3> QED BY <1>0, <2>1, <3>1, <3>2, <3>3
  <2>4. /\ \E i \in 1..Len(r) : r[i] = p + 1
        /\ \A i \in 1..Len(r) : r[i] = p + 1 \/ \E j \in 1..Len(q) : r[i] = q[j]
        /\ \A j \in 1..Len(q) : \E i \in 1..Len(r) : r[i] = q[j]
    BY <1>0, <2>1
  <2> QED BY <2>2, <2>3, <2>4
<1>2. CASE ~(Len(q) < cap)
  <2>1. /\ Len(r) = cap
        /\ \A i \in 1..(cap - 1) : r[i] = q[i + 1]
        /\ r[cap] = p + 1
    <3>1. r = Append(Tail(q), p + 1)
      BY <1>2 DEF Put
    <3>2. /\ Tail(q) \in Seq(S)
          /\ Len(Tail(q)) = cap - 1
          /\ \A i \in 1..(cap - 1) : Tail(q)[i] = q[i + 1]
      BY <1>0, <1>2, TailOf
    <3> HIDE DEF r
    <3> QED BY <1>0, <3>1, <3>2
  <2> HIDE DEF r
  <2>2. ASSUME NEW i \in 1..cap, i # cap
        PROVE  i \in 1..(cap - 1) /\ i + 1 \in 1..Len(q) /\ r[i] = q[i + 1] /\ r[i] \in 1..p
    BY <1>0, <1>2, <2>1, <2>2
  <2>3. \A i \in 1..Len(r) : r[i] \in 1..(p + 1)
    BY <1>0, <2>1, <2>2
  <2>4. ASSUME NEW i \in 1..Len(r), NEW j \in 1..Len(r), i <= j PROVE r[j] - r[i] >= j - i
    <3>1. CASE j # cap
      <4>1. i # cap /\ i \in 1..cap /\ j \in 1..cap
        BY <1>0, <2>1, <2>4, <3>1
      <4>2. q[j + 1] - q[i + 1] >= (j + 1) - (i + 1)
        BY <1>0, <2>2, <2>4, <3>1, <4>1
      <4> QED BY <2>2, <3>1, <4>1, <4>2
    <3>2. CASE j = cap /\ i # cap
      <4>1. cap \in 1..Len(q) /\ i + 1 \in 1..Len(q) /\ i + 1 <= cap /\ r[i] = q[i + 1]
        BY <1>0, <1>2, <2>1, <2>2, <3>2
      <4>2. q[cap] - q[i + 1] >= cap - (i + 1) /\ q[cap] \in 1..p /\ q[i + 1] \in 1..p
        BY <1>0, <4>1
      <4> QED BY <1>0, <2>1, <3>2, <4>1, <4>2
    <3>3. CASE j = cap /\ i = cap
      BY <1>0, <2>1, <3>3
    <3> QED BY <3>1, <3>2, <3>3
  <2>5. /\ \E i \in 1..Len(r) : r[i] = p + 1
        /\ \A i \in 1..Len(r) : r[i] = p + 1 \/ \E j \in 1..Len(q) : r[i] = q[j]
    BY <1>0, <2>1, <2>2
  <2>6. ASSUME NEW j \in 1..Len(q) PROVE (\E i \in 1..Len(r) : r[i] = q[j]) \/ q[j] + cap <= p + 1
    <3>1. CASE j = 1
      <4>1. cap \in 1..Len(q) /\ 1 \in 1..Len(q) /\ 1 <= cap
        BY <1>0, <1>2
      <4>2. q[cap] - q[1] >= cap - 1 /\ q[cap] \in 1..p /\ q[1] \in 1..p
        BY <1>0, <4>1
      <4> QED BY <1>0, <3>1, <4>2
    <3>2. CASE j # 1
      <4>1. j - 1 \in 1..cap /\ j - 1 # cap /\ j - 1 \in 1..Len(r) /\ (j - 1) + 1 = j
        BY <1>0, <1>2, <2>1, <3>2
      <4>2. r[j - 1] = q[j]
        BY <2>2, <4>1
      <4> QED BY <4>1, <4>2
    <3> QED BY <3>1, <3>2
  <2> QED BY <2>3, <2>4, <2>5, <2>6
<1> QED BY <1>0, <1>1, <1>2

LEMMA SpacedTail ==
    ASSUME NEW S, NEW q \in Seq(S), NEW p \in Nat, q # <<>>, Spaced(q, p)
    PROVE  /\ Spaced(Tail(q), p)
           /\ Head(q) \in 1..p
           /\ \A i \in 1..Len(Tail(q)) : Head(q) < Tail(q)[i]
           /\ \A i \in 1..Len(Tail(q)) : \E j \in 1..Len(q) : Tail(q)[i] = q[j]
           /\ \A j \in 1..Len(q) : q[j] = Head(q) \/ \E i \in 1..Len(Tail(q)) : q[j] = Tail(q)[i]
<1> DEFINE r == Tail(q)
<1>0. /\ Len(q) \in Nat /\ Len(q) > 0
      /\ \A i \in 1..Len(q) : q[i] \in 1..p
      /\ \A i, j \in 1..Len(q) : i <= j => q[j] - q[i] >= j - i
  BY TailOf DEF Spaced
<1>1. Head(q) = q[1] /\ Len(r) = Len(q) - 1 /\ \A i \in 1..(Len(q) - 1) : r[i] = q[i + 1]
  BY TailOf
<1> SUFFICES /\ \A i \in 1..Len(r) : r[i] \in 1..p
             /\ \A i, j \in 1..Len(r) : i <= j => r[j] - r[i] >= j - i
             /\ q[1] \in 1..p
             /\ \A i \in 1..Len(r) : q[1] < r[i]
             /\ \A i \in 1..Len(r) : \E j \in 1..Len(q) : r[i] = q[j]
             /\ \A j \in 1..Len(q) : q[j] = q[1] \/ \E i \in 1..Len(r) : q[j] = r[i]
  BY <1>1 DEF Spaced
<1> HIDE DEF r
<1>2. ASSUME NEW i \in 1..Len(r)
      PROVE  i + 1 \in 1..Len(q) /\ r[i] = q[i + 1] /\ r[i] \in 1..p /\ q[1] < r[i]
  <2>1. i + 1 \in 1..Len(q) /\ 1 \in 1..Len(q) /\ r[i] = q[i + 1] /\ i \in Nat /\ i >= 1
    BY <1>0, <1>1
  <2>2. q[i + 1] - q[1] >= (i + 1) - 1 /\ q[i + 1] \in 1..p /\ q[1] \in 1..p
    BY <1>0, <2>1
  <2> QED BY <2>1, <2>2
<1>3. ASSUME NEW i \in 1..Len(r), NEW j \in 1..Len(r), i <= j PROVE r[j] - r[i] >= j - i
  <2>1. i + 1 \in 1..Len(q) /\ j + 1 \in 1..Len(q) /\ i + 1 <= j + 1 /\ r[i] = q[i + 1] /\ r[j] = q[j + 1]
    BY <1>2, <1>3
  <2>2. q[j + 1] - q[i + 1] >= (j + 1) - (i + 1)
    BY <1>0, <2>1
  <2> QED BY <2>1, <2>2
<1>4. q[1] \in 1..p
  BY <1>0
<1>5. ASSUME NEW j \in 1..Len(q), j # 1 PROVE \E i \in 1..Len(r) : q[j] = r[i]
  <2>1. j - 1 \in 1..Len(r) /\ (j - 1) + 1 = j
    BY <1>0, <1>1, <1>5
  <2>2. r[j - 1] = q[j]
    BY <1>2, <2>1
  <2> QED BY <2>1, <2>2
<1> QED BY <1>2, <1>3, <1>4, <1>5

-----------------------------------------------------------------------------
(* The parts of the inductive invariant. *)

\* The events and the readings that have left the store's queues.
Past == published - Len(eventQueue)
PastReading == measured - Len(readingQueue)

StoreInv == Contiguous(eventQueue, published) /\ Contiguous(readingQueue, measured)

Kept(c, e) ==
    \/ e \in got[c]
    \/ sender[c] = "event" /\ hand[c] = e
    \/ \E i \in 1..Len(events[c]) : events[c][i] = e

\* What a client has got is older than what it is being sent, and that is
\* older than what is in its queue.
EventInv(c) ==
    /\ conn[c] = "open" => c \in hub
    /\ conn[c] = "away" => got[c] = {}
    /\ Spaced(events[c], Past)
    /\ sender[c] = "event" =>
          /\ hand[c] \in 1..Past
          /\ \A i \in 1..Len(events[c]) : hand[c] < events[c][i]
    /\ \A x \in got[c] :
          /\ x <= Past
          /\ sender[c] = "event" => x < hand[c]
          /\ \A i \in 1..Len(events[c]) : x < events[c][i]

RecentInv(c) ==
    conn[c] = "open" /\ sender[c] # "done" =>
        \A e \in (since[c] + 1)..Past : Kept(c, e) \/ e + Window <= published

ReadingInv(c) ==
    /\ shown[c] <= PastReading
    /\ sender[c] = "reading" => hand[c] \in (shown[c] + 1)..PastReading
    /\ \A i \in 1..Len(readings[c]) :
          /\ readings[c][i] <= PastReading
          /\ shown[c] < readings[c][i]
          /\ sender[c] = "reading" => hand[c] < readings[c][i]

ClientInv(c) == EventInv(c) /\ RecentInv(c) /\ ReadingInv(c)

IInv == TypeOK /\ StoreInv /\ \A c \in Client : ClientInv(c)

-----------------------------------------------------------------------------
(* Types. *)

\* The variables of one client's connection are functions on Client.
ClientTypeOK ==
    /\ hub \subseteq Client
    /\ conn \in [Client -> {"away", "open", "closed"}]
    /\ sender \in [Client -> {"ready", "event", "reading", "done"}]
    /\ hand \in [Client -> Nat]
    /\ events \in [Client -> Seq(Event)]
    /\ \A c \in Client : Len(events[c]) <= ClientCap
    /\ readings \in [Client -> Seq(Reading)]
    /\ \A c \in Client : Len(readings[c]) <= 1
    /\ since \in [Client -> 0..MaxEvent]
    /\ got \in [Client -> SUBSET Event]
    /\ shown \in [Client -> 0..MaxReading]

StoreTypeOK ==
    /\ published \in 0..MaxEvent
    /\ eventQueue \in Seq(Event)
    /\ Len(eventQueue) <= StoreCap
    /\ measured \in 0..MaxReading
    /\ readingQueue \in Seq(Reading)
    /\ Len(readingQueue) <= StoreCap

LEMMA TypeParts == TypeOK <=> StoreTypeOK /\ ClientTypeOK
BY DEF TypeOK, StoreTypeOK, ClientTypeOK

LEMMA TypeInit == Init => TypeOK
<1> SUFFICES ASSUME Init PROVE TypeOK
  OBVIOUS
<1>1. StoreTypeOK
  BY BroadcastAssumption, EmptyQueue DEF Init, StoreTypeOK, Event, Reading
<1>2. ClientTypeOK
  BY BroadcastAssumption, EmptyQueue DEF Init, ClientTypeOK, Event, Reading
<1> QED BY <1>1, <1>2, TypeParts

\* What a client is sent is an event; its publication number is bounded.
LEMMA TypeStep == TypeOK /\ StoreInv /\ (\A c \in Client : ClientInv(c)) /\ [Next]_vars => TypeOK'
<1> SUFFICES ASSUME StoreTypeOK, ClientTypeOK, StoreInv, \A c \in Client : ClientInv(c), [Next]_vars
             PROVE  StoreTypeOK' /\ ClientTypeOK'
  BY TypeParts DEF TypeOK, StoreTypeOK, ClientTypeOK
<1> USE BroadcastAssumption
<1>1. CASE PublishEvent
  <2>1. published + 1 \in Event /\ published' \in 0..MaxEvent
    BY <1>1 DEF PublishEvent, StoreTypeOK, Event
  <2>2. StoreTypeOK'
    BY <1>1, <2>1, PutBounded DEF PublishEvent, StoreTypeOK
  <2> QED BY <1>1, <2>2 DEF PublishEvent, ClientTypeOK, client, history
<1>2. CASE PublishReading
  <2>1. measured + 1 \in Reading /\ measured' \in 0..MaxReading
    BY <1>2 DEF PublishReading, StoreTypeOK, Reading
  <2>2. StoreTypeOK'
    BY <1>2, <2>1, PutBounded DEF PublishReading, StoreTypeOK
  <2> QED BY <1>2, <2>2 DEF PublishReading, ClientTypeOK, client, history
<1>3. CASE BroadcastEvent
  <2>1. /\ Head(eventQueue) \in Event
        /\ Tail(eventQueue) \in Seq(Event)
        /\ Len(Tail(eventQueue)) <= StoreCap
    BY <1>3, TailOf DEF BroadcastEvent, StoreTypeOK
  <2>2. StoreTypeOK'
    BY <1>3, <2>1 DEF BroadcastEvent, StoreTypeOK
  <2>3. ASSUME NEW c \in Client
        PROVE  /\ Put(events[c], Head(eventQueue), ClientCap) \in Seq(Event)
               /\ Len(Put(events[c], Head(eventQueue), ClientCap)) <= ClientCap
    BY <2>1, PutBounded DEF ClientTypeOK
  <2>4. events' \in [Client -> Seq(Event)] /\ \A c \in Client : Len(events'[c]) <= ClientCap
    BY <1>3, <2>3 DEF BroadcastEvent, ClientTypeOK
  <2>5. hub' \subseteq Client
    BY <1>3 DEF BroadcastEvent, Listening, ClientTypeOK
  <2> QED BY <1>3, <2>2, <2>4, <2>5 DEF BroadcastEvent, ClientTypeOK, history
<1>4. CASE BroadcastReading
  <2>1. /\ Head(readingQueue) \in Reading
        /\ Tail(readingQueue) \in Seq(Reading)
        /\ Len(Tail(readingQueue)) <= StoreCap
    BY <1>4, TailOf DEF BroadcastReading, StoreTypeOK
  <2>2. StoreTypeOK'
    BY <1>4, <2>1 DEF BroadcastReading, StoreTypeOK
  <2>3. ASSUME NEW c \in Client
        PROVE  /\ Put(readings[c], Head(readingQueue), 1) \in Seq(Reading)
               /\ Len(Put(readings[c], Head(readingQueue), 1)) <= 1
    BY <2>1, PutBounded DEF ClientTypeOK
  <2>4. readings' \in [Client -> Seq(Reading)] /\ \A c \in Client : Len(readings'[c]) <= 1
    BY <1>4, <2>3 DEF BroadcastReading, ClientTypeOK
  <2>5. hub' \subseteq Client
    BY <1>4 DEF BroadcastReading, Listening, ClientTypeOK
  <2> QED BY <1>4, <2>2, <2>4, <2>5 DEF BroadcastReading, ClientTypeOK, history
<1>5. ASSUME NEW c \in Client, Connect(c) PROVE StoreTypeOK' /\ ClientTypeOK'
  BY <1>5 DEF Connect, StoreTypeOK, ClientTypeOK, store
<1>6. ASSUME NEW c \in Client, Close(c) PROVE StoreTypeOK' /\ ClientTypeOK'
  BY <1>6 DEF Close, StoreTypeOK, ClientTypeOK, store, history
<1>7. ASSUME NEW c \in Client, Remove(c) PROVE StoreTypeOK' /\ ClientTypeOK'
  BY <1>7, EmptyQueue DEF Remove, Discard, StoreTypeOK, ClientTypeOK, store
<1>8. ASSUME NEW c \in Client, CloseSender(c) PROVE StoreTypeOK' /\ ClientTypeOK'
  BY <1>8 DEF CloseSender, StoreTypeOK, ClientTypeOK, store, history
<1>9. ASSUME NEW c \in Client, TakeEvent(c) PROVE StoreTypeOK' /\ ClientTypeOK'
  <2>1. /\ Head(events[c]) \in Nat
        /\ Tail(events[c]) \in Seq(Event)
        /\ Len(Tail(events[c])) <= ClientCap
    BY <1>9, TailOf DEF TakeEvent, ClientTypeOK, Event
  <2> QED BY <1>9, <2>1 DEF TakeEvent, Begin, StoreTypeOK, ClientTypeOK, store, history
<1>10. ASSUME NEW c \in Client, TakeReading(c) PROVE StoreTypeOK' /\ ClientTypeOK'
  <2>1. /\ Head(readings[c]) \in Nat
        /\ Tail(readings[c]) \in Seq(Reading)
        /\ Len(Tail(readings[c])) <= 1
    BY <1>10, TailOf DEF TakeReading, ClientTypeOK, Reading
  <2> QED BY <1>10, <2>1 DEF TakeReading, Begin, StoreTypeOK, ClientTypeOK, store, history
<1>11. ASSUME NEW c \in Client, SendEvent(c) PROVE StoreTypeOK' /\ ClientTypeOK'
  <2>1. hand[c] \in Event
    BY <1>11 DEF SendEvent, ClientInv, EventInv, StoreInv, Past, Event, StoreTypeOK
  <2> QED BY <1>11, <2>1 DEF SendEvent, StoreTypeOK, ClientTypeOK, store
<1>12. ASSUME NEW c \in Client, SendReading(c) PROVE StoreTypeOK' /\ ClientTypeOK'
  <2>1. hand[c] \in 0..MaxReading
    BY <1>12 DEF SendReading, ClientInv, ReadingInv, StoreInv, PastReading, StoreTypeOK, ClientTypeOK
  <2> QED BY <1>12, <2>1 DEF SendReading, StoreTypeOK, ClientTypeOK, store
<1>13. ASSUME NEW c \in Client, SendFails(c) PROVE StoreTypeOK' /\ ClientTypeOK'
  BY <1>13 DEF SendFails, StoreTypeOK, ClientTypeOK, store, history
<1>14. CASE UNCHANGED vars
  BY <1>14 DEF vars, store, client, history, StoreTypeOK, ClientTypeOK
<1> QED BY <1>1, <1>2, <1>3, <1>4, <1>5, <1>6, <1>7, <1>8, <1>9, <1>10, <1>11, <1>12,
           <1>13, <1>14 DEF Next, Take, Send

-----------------------------------------------------------------------------
(* The inductive invariant. *)

LEMMA InvInit == Init => IInv
<1> SUFFICES ASSUME Init PROVE IInv
  OBVIOUS
<1>1. TypeOK
  BY TypeInit
<1>2. Past = 0 /\ PastReading = 0 /\ StoreInv
  <2>1. Len(eventQueue) = 0 /\ Len(readingQueue) = 0 /\ published = 0 /\ measured = 0
    BY DEF Init
  <2> QED BY <2>1 DEF StoreInv, Contiguous, Past, PastReading
<1>3. ASSUME NEW c \in Client PROVE ClientInv(c)
  <2>1. EventInv(c)
    BY <1>2 DEF Init, EventInv, Spaced
  <2>2. RecentInv(c) /\ ReadingInv(c)
    BY <1>2 DEF Init, RecentInv, ReadingInv
  <2> QED BY <2>1, <2>2 DEF ClientInv
<1> QED BY <1>1, <1>2, <1>3 DEF IInv

LEMMA PastNat ==
    ASSUME TypeOK, StoreInv
    PROVE  /\ published \in Nat /\ Past \in Nat /\ Past <= published
           /\ measured \in Nat /\ PastReading \in Nat /\ PastReading <= measured
BY BroadcastAssumption DEF TypeOK, StoreInv, Contiguous, Past, PastReading

LEMMA WindowBounds == Window \in Nat /\ Window <= StoreCap /\ Window <= ClientCap
BY BroadcastAssumption DEF Window

\* What is known of a client's variables.
LEMMA ClientTypes ==
    ASSUME TypeOK, NEW c \in Client
    PROVE  /\ hand[c] \in Nat /\ since[c] \in Nat /\ shown[c] \in Nat
           /\ got[c] \subseteq Nat
           /\ events[c] \in Seq(Event) /\ Len(events[c]) <= ClientCap
           /\ readings[c] \in Seq(Reading) /\ Len(readings[c]) <= 1
           /\ \A i \in 1..Len(events[c]) : events[c][i] \in Nat
           /\ \A i \in 1..Len(readings[c]) : readings[c][i] \in Nat
<1>1. events[c] \in Seq(Event) /\ readings[c] \in Seq(Reading) /\ Event \subseteq Nat /\ Reading \subseteq Nat
  BY DEF TypeOK, Event, Reading
<1>2. /\ \A i \in 1..Len(events[c]) : events[c][i] \in Event
      /\ \A i \in 1..Len(readings[c]) : readings[c][i] \in Reading
  BY <1>1
<1>3. hand[c] \in Nat /\ since[c] \in Nat /\ shown[c] \in Nat
  <2>1. hand[c] \in Nat /\ since[c] \in 0..MaxEvent /\ shown[c] \in 0..MaxReading
    BY DEF TypeOK
  <2> QED BY <2>1
<1>5. got[c] \subseteq Nat
  BY <1>1 DEF TypeOK
<1>4. Len(events[c]) <= ClientCap /\ Len(readings[c]) <= 1
  BY DEF TypeOK
<1> QED BY <1>1, <1>2, <1>3, <1>4, <1>5

\* Of a step that leaves a client's own variables alone, it only matters
\* that the store moves on and that the client stays in the hub.
LEMMA EventSame ==
    ASSUME TypeOK, StoreInv, NEW c \in Client, EventInv(c),
           c \in hub => c \in hub', conn'[c] = conn[c],
           sender'[c] = sender[c], hand'[c] = hand[c],
           events'[c] = events[c], got'[c] = got[c],
           Past' \in Nat, Past <= Past'
    PROVE  EventInv(c)'
<1>1. Past \in Nat
  BY PastNat
<1>2. Spaced(events[c], Past')
  BY <1>1 DEF EventInv, Spaced
<1>3. sender[c] = "event" => hand[c] \in 1..Past'
  BY <1>1 DEF EventInv
<1>4. \A x \in got[c] : x <= Past'
  BY <1>1, ClientTypes DEF EventInv
<1>5. /\ conn'[c] = "open" => c \in hub'
      /\ conn'[c] = "away" => got'[c] = {}
      /\ Spaced(events'[c], Past')
  BY <1>2 DEF EventInv
<1>6. sender'[c] = "event" =>
        /\ hand'[c] \in 1..Past'
        /\ \A i \in 1..Len(events'[c]) : hand'[c] < events'[c][i]
  BY <1>3 DEF EventInv
<1>7. \A x \in got'[c] :
        /\ x <= Past'
        /\ sender'[c] = "event" => x < hand'[c]
        /\ \A i \in 1..Len(events'[c]) : x < events'[c][i]
  BY <1>4 DEF EventInv
<1> QED BY <1>5, <1>6, <1>7 DEF EventInv

LEMMA RecentSame ==
    ASSUME NEW c \in Client, RecentInv(c),
           conn'[c] = "open" /\ sender'[c] # "done" => conn[c] = "open" /\ sender[c] # "done",
           since'[c] = since[c], published' = published, Past' = Past,
           \A e : Kept(c, e) => Kept(c, e)'
    PROVE  RecentInv(c)'
BY DEF RecentInv

LEMMA ReadingSame ==
    ASSUME TypeOK, StoreInv, NEW c \in Client, ReadingInv(c),
           sender'[c] = "reading" => sender[c] = "reading" /\ hand'[c] = hand[c],
           readings'[c] = readings[c], shown'[c] = shown[c],
           PastReading' \in Nat, PastReading <= PastReading'
    PROVE  ReadingInv(c)'
<1>1. PastReading \in Nat
  BY PastNat
<1>2. /\ shown[c] \in Nat
      /\ \A i \in 1..Len(readings[c]) : readings[c][i] \in Nat
  BY ClientTypes
<1> QED BY <1>1, <1>2 DEF ReadingInv

\* A full queue of the store drops an event that StoreCap events follow.
LEMMA PublishEventKeeps ==
    ASSUME IInv, PublishEvent PROVE StoreInv' /\ \A c \in Client : ClientInv(c)'
<1>0. /\ TypeOK /\ StoreInv /\ \A c \in Client : ClientInv(c)
      /\ published \in Nat /\ Past \in Nat /\ PastReading \in Nat /\ Past <= published
      /\ published' = published + 1
      /\ eventQueue' = Put(eventQueue, published + 1, StoreCap)
      /\ measured' = measured /\ readingQueue' = readingQueue
      /\ hub' = hub /\ conn' = conn /\ sender' = sender /\ hand' = hand /\ events' = events
      /\ readings' = readings /\ since' = since /\ got' = got /\ shown' = shown
  BY PastNat DEF IInv, PublishEvent, client, history
<1>1. /\ StoreInv'
      /\ \/ Past' = Past
         \/ Past' = Past + 1 /\ Past + StoreCap = published
  <2>1. /\ eventQueue \in Seq(Event) /\ Len(eventQueue) <= StoreCap /\ published + 1 \in Event
        /\ StoreCap \in Nat \ {0} /\ Contiguous(eventQueue, published)
    BY <1>0, BroadcastAssumption DEF TypeOK, PublishEvent, Event, StoreInv
  <2>0. published \in Nat
    BY <1>0
  <2> DEFINE q == Put(eventQueue, published + 1, StoreCap)
  <2>2. /\ Contiguous(q, published + 1)
        /\ \/ published + 1 - Len(q) = published - Len(eventQueue)
           \/ /\ published + 1 - Len(q) = published - Len(eventQueue) + 1
              /\ published - Len(eventQueue) + StoreCap = published
    BY <2>0, <2>1, ContiguousPut
  <2> HIDE DEF q
  <2>3. eventQueue' = q
    BY <1>0 DEF q
  <2> QED BY <1>0, <2>2, <2>3 DEF StoreInv, Past
<1>2. Past' \in Nat /\ Past <= Past'
  BY <1>0, <1>1
<1>3. PastReading' = PastReading
  BY <1>0 DEF PastReading
<1>4. ASSUME NEW c \in Client PROVE RecentInv(c)'
  <2> SUFFICES ASSUME conn[c] = "open", sender[c] # "done", NEW e \in (since[c] + 1)..Past'
               PROVE  Kept(c, e) \/ e + Window <= published'
    BY <1>0 DEF RecentInv, Kept
  <2>1. e \in Nat /\ since[c] \in Nat
    BY <1>0, <1>2, ClientTypes
  <2>2. CASE e <= Past
    <3>1. Kept(c, e) \/ e + Window <= published
      BY <1>0, <2>1, <2>2 DEF ClientInv, RecentInv
    <3> QED BY <1>0, <2>1, <3>1, WindowBounds
  <2>3. CASE ~(e <= Past)
    <3>1. e = Past + 1 /\ Past + StoreCap = published
      BY <1>0, <1>1, <2>1, <2>3
    <3> QED BY <1>0, <3>1, WindowBounds, BroadcastAssumption
  <2> QED BY <2>2, <2>3
<1>5. ASSUME NEW c \in Client PROVE EventInv(c)' /\ ReadingInv(c)'
  BY <1>0, <1>2, <1>3, EventSame, ReadingSame DEF ClientInv
<1> QED BY <1>1, <1>4, <1>5 DEF ClientInv

LEMMA PublishReadingKeeps ==
    ASSUME IInv, PublishReading PROVE StoreInv' /\ \A c \in Client : ClientInv(c)'
<1>0. /\ TypeOK /\ StoreInv /\ \A c \in Client : ClientInv(c)
      /\ measured \in Nat /\ Past \in Nat /\ PastReading \in Nat
      /\ measured' = measured + 1
      /\ readingQueue' = Put(readingQueue, measured + 1, StoreCap)
      /\ published' = published /\ eventQueue' = eventQueue
      /\ hub' = hub /\ conn' = conn /\ sender' = sender /\ hand' = hand /\ events' = events
      /\ readings' = readings /\ since' = since /\ got' = got /\ shown' = shown
  BY PastNat DEF IInv, PublishReading, client, history
<1>1. /\ StoreInv'
      /\ PastReading' = PastReading \/ PastReading' = PastReading + 1
  <2>1. /\ readingQueue \in Seq(Reading) /\ Len(readingQueue) <= StoreCap /\ measured + 1 \in Reading
        /\ StoreCap \in Nat \ {0} /\ Contiguous(readingQueue, measured)
    BY <1>0, BroadcastAssumption DEF TypeOK, PublishReading, Reading, StoreInv
  <2>2. /\ Contiguous(readingQueue', measured + 1)
        /\ \/ measured + 1 - Len(readingQueue') = measured - Len(readingQueue)
           \/ measured + 1 - Len(readingQueue') = measured - Len(readingQueue) + 1
    BY <1>0, <2>1, ContiguousPut
  <2> QED BY <1>0, <2>2 DEF StoreInv, PastReading
<1>2. PastReading' \in Nat /\ PastReading <= PastReading'
  BY <1>0, <1>1
<1>3. Past' = Past
  BY <1>0 DEF Past
<1>4. ASSUME NEW c \in Client PROVE EventInv(c)' /\ RecentInv(c)' /\ ReadingInv(c)'
  <2>1. \A e : Kept(c, e) => Kept(c, e)'
    BY <1>0 DEF Kept
  <2>2. EventInv(c)' /\ ReadingInv(c)'
    BY <1>0, <1>2, <1>3, EventSame, ReadingSame DEF ClientInv
  <2>3. RecentInv(c)'
    BY <1>0, <1>3, <2>1, RecentSame DEF ClientInv
  <2> QED BY <2>2, <2>3
<1> QED BY <1>1, <1>4 DEF ClientInv

\* A client that is not in the hub is not open; for the others the event is
\* newer than all they have, and a full queue drops one that ClientCap
\* events follow.
LEMMA BroadcastEventKeeps ==
    ASSUME IInv, BroadcastEvent PROVE StoreInv' /\ \A c \in Client : ClientInv(c)'
<1>0. /\ TypeOK /\ StoreInv /\ \A c \in Client : ClientInv(c)
      /\ published \in Nat /\ Past \in Nat /\ PastReading \in Nat /\ Past <= published
      /\ eventQueue' = Tail(eventQueue) /\ hub' = Listening
      /\ events' = [c \in Client |-> IF c \in Listening
                                     THEN Put(events[c], Head(eventQueue), ClientCap)
                                     ELSE events[c]]
      /\ published' = published /\ measured' = measured /\ readingQueue' = readingQueue
      /\ conn' = conn /\ sender' = sender /\ hand' = hand
      /\ readings' = readings /\ since' = since /\ got' = got /\ shown' = shown
  BY PastNat DEF IInv, BroadcastEvent, history
<1>1. /\ StoreInv'
      /\ Past' = Past + 1
      /\ Head(eventQueue) = Past + 1
      /\ Head(eventQueue) \in Event
      /\ Past + 1 <= published
  <2>1. /\ eventQueue \in Seq(Event) /\ eventQueue # <<>> /\ Contiguous(eventQueue, published)
    BY <1>0 DEF TypeOK, BroadcastEvent, StoreInv
  <2>2. /\ Contiguous(eventQueue', published)
        /\ Head(eventQueue) = published - Len(eventQueue) + 1
        /\ published - Len(eventQueue') = published - Len(eventQueue) + 1
    BY <1>0, <2>1, ContiguousTail
  <2>3. Head(eventQueue) \in Event /\ Len(eventQueue) \in Nat /\ Len(eventQueue) > 0
    BY <2>1, TailOf
  <2>4. StoreInv'
    BY <1>0, <2>2 DEF StoreInv
  <2>5. Past' = published - Len(eventQueue') /\ Past = published - Len(eventQueue)
    BY <1>0 DEF Past
  <2>6. Past' = Past + 1 /\ Head(eventQueue) = Past + 1
    BY <2>2, <2>5
  <2>7. Past + 1 <= published
    BY <1>0, <2>3, <2>5
  <2> QED BY <2>3, <2>4, <2>6, <2>7
<1>2. PastReading' = PastReading
  BY <1>0 DEF PastReading
<1>3. ASSUME NEW c \in Client, c \notin Listening PROVE EventInv(c)' /\ RecentInv(c)'
  <2>1. conn[c] # "open" /\ events'[c] = events[c]
    BY <1>0, <1>3 DEF Listening, ClientInv, EventInv
  <2>2. EventInv(c)
    BY <1>0 DEF ClientInv
  <2>4. /\ conn'[c] = "away" => got'[c] = {}
        /\ Spaced(events'[c], Past')
        /\ sender'[c] = "event" => hand'[c] \in 1..Past'
    BY <1>0, <1>1, <2>1, <2>2 DEF EventInv, Spaced
  <2>5. \A x \in got'[c] : x <= Past'
    BY <1>0, <1>1, <2>2, ClientTypes DEF EventInv
  <2>6. EventInv(c)'
    BY <1>0, <2>1, <2>2, <2>4, <2>5 DEF EventInv
  <2> QED BY <1>0, <2>1, <2>6 DEF RecentInv
<1>4. ASSUME NEW c \in Client, c \in Listening PROVE EventInv(c)' /\ RecentInv(c)'
  <2> DEFINE q == events[c]
             r == events'[c]
  <2>0. /\ EventInv(c) /\ RecentInv(c) /\ Spaced(q, Past)
        /\ q \in Seq(Event) /\ Len(q) <= ClientCap /\ Past + 1 \in Event
        /\ ClientCap \in Nat \ {0}
        /\ r = Put(q, Past + 1, ClientCap)
    BY <1>0, <1>1, <1>4, BroadcastAssumption DEF ClientInv, EventInv, TypeOK
  <2> HIDE DEF r, q
  <2>1. /\ Spaced(r, Past + 1)
        /\ \A i \in 1..Len(r) : r[i] = Past + 1 \/ \E j \in 1..Len(q) : r[i] = q[j]
        /\ \A j \in 1..Len(q) : (\E i \in 1..Len(r) : r[i] = q[j]) \/ q[j] + ClientCap <= Past + 1
        /\ \E i \in 1..Len(r) : r[i] = Past + 1
    <3>1. /\ Past \in Nat /\ q \in Seq(Event) /\ Past + 1 \in Event /\ ClientCap \in Nat \ {0}
          /\ Len(q) <= ClientCap /\ Spaced(q, Past)
      BY <1>0, <2>0
    <3> DEFINE t == Put(q, Past + 1, ClientCap)
    <3>2. /\ Spaced(t, Past + 1)
          /\ \A i \in 1..Len(t) : t[i] = Past + 1 \/ \E j \in 1..Len(q) : t[i] = q[j]
          /\ \A j \in 1..Len(q) : (\E i \in 1..Len(t) : t[i] = q[j]) \/ q[j] + ClientCap <= Past + 1
          /\ \E i \in 1..Len(t) : t[i] = Past + 1
      BY <3>1, SpacedPut
    <3> HIDE DEF t
    <3>3. r = t
      BY <2>0 DEF t
    <3> QED BY <3>2, <3>3
  <2>2. ASSUME NEW x \in Nat, x <= Past, \A j \in 1..Len(q) : x < q[j]
        PROVE  \A i \in 1..Len(r) : x < r[i]
    BY <1>0, <2>1, <2>2
  <2>3. sender[c] = "event" => hand[c] \in 1..(Past + 1) /\ \A i \in 1..Len(r) : hand[c] < r[i]
    BY <1>0, <2>0, <2>2 DEF EventInv, q
  <2>4. ASSUME NEW x \in got[c]
        PROVE  /\ x <= Past + 1
               /\ sender[c] = "event" => x < hand[c]
               /\ \A i \in 1..Len(r) : x < r[i]
    <3>1. x \in Nat /\ x <= Past /\ (sender[c] = "event" => x < hand[c]) /\ \A j \in 1..Len(q) : x < q[j]
      BY <1>0, <2>0, ClientTypes DEF EventInv, q
    <3> QED BY <1>0, <2>2, <3>1
  <2>5. EventInv(c)'
    <3>1. conn'[c] = "open" /\ c \in hub'
      BY <1>0, <1>4 DEF Listening
    <3> QED BY <1>0, <1>1, <2>1, <2>3, <2>4, <3>1 DEF EventInv, r
  <2>6. ASSUME conn[c] = "open", sender[c] # "done", NEW e \in (since[c] + 1)..(Past + 1)
        PROVE  \/ e \in got[c]
               \/ sender[c] = "event" /\ hand[c] = e
               \/ \E i \in 1..Len(r) : r[i] = e
               \/ e + Window <= published
    <3>1. e \in Nat /\ since[c] \in Nat
      BY <1>0, ClientTypes
    <3>2. CASE e = Past + 1
      BY <2>1, <3>2
    <3>3. CASE e # Past + 1
      <4>1. e \in (since[c] + 1)..Past
        BY <1>0, <3>1, <3>3
      <4>2. Kept(c, e) \/ e + Window <= published
        BY <2>0, <2>6, <4>1 DEF RecentInv
      <4>3. ASSUME NEW j \in 1..Len(q), q[j] = e
            PROVE  (\E i \in 1..Len(r) : r[i] = e) \/ e + Window <= published
        <5>1. (\E i \in 1..Len(r) : r[i] = e) \/ e + ClientCap <= Past + 1
          BY <2>1, <4>3
        <5> QED BY <5>1, <3>1, <1>0, <1>1, WindowBounds, BroadcastAssumption
      <4> QED BY <4>2, <4>3 DEF Kept, q
    <3> QED BY <3>2, <3>3
  <2>7. RecentInv(c)'
    BY <1>0, <1>1, <2>6 DEF RecentInv, Kept, r
  <2> QED BY <2>5, <2>7
<1>5. ASSUME NEW c \in Client PROVE ReadingInv(c)'
  BY <1>0, <1>2, ReadingSame DEF ClientInv
<1> QED BY <1>1, <1>3, <1>4, <1>5 DEF ClientInv

LEMMA BroadcastReadingKeeps ==
    ASSUME IInv, BroadcastReading PROVE StoreInv' /\ \A c \in Client : ClientInv(c)'
<1>0. /\ TypeOK /\ StoreInv /\ \A c \in Client : ClientInv(c)
      /\ measured \in Nat /\ Past \in Nat /\ PastReading \in Nat /\ PastReading <= measured
      /\ readingQueue' = Tail(readingQueue) /\ hub' = Listening
      /\ readings' = [c \in Client |-> IF c \in Listening
                                       THEN Put(readings[c], Head(readingQueue), 1)
                                       ELSE readings[c]]
      /\ published' = published /\ measured' = measured /\ eventQueue' = eventQueue
      /\ conn' = conn /\ sender' = sender /\ hand' = hand /\ events' = events
      /\ since' = since /\ got' = got /\ shown' = shown
  BY PastNat DEF IInv, BroadcastReading, history
<1>1. /\ StoreInv'
      /\ PastReading' = PastReading + 1
      /\ Head(readingQueue) = PastReading + 1
      /\ Head(readingQueue) \in Reading
  <2>1. /\ readingQueue \in Seq(Reading) /\ readingQueue # <<>> /\ Contiguous(readingQueue, measured)
    BY <1>0 DEF TypeOK, BroadcastReading, StoreInv
  <2>2. /\ Contiguous(readingQueue', measured)
        /\ Head(readingQueue) = measured - Len(readingQueue) + 1
        /\ measured - Len(readingQueue') = measured - Len(readingQueue) + 1
    BY <1>0, <2>1, ContiguousTail
  <2>3. Head(readingQueue) \in Reading
    BY <2>1, TailOf
  <2>4. StoreInv'
    BY <1>0, <2>2 DEF StoreInv
  <2>5. PastReading' = measured - Len(readingQueue') /\ PastReading = measured - Len(readingQueue)
    BY <1>0 DEF PastReading
  <2> QED BY <2>2, <2>3, <2>4, <2>5
<1>2. Past' = Past
  BY <1>0 DEF Past
<1>3. ASSUME NEW c \in Client PROVE EventInv(c)' /\ RecentInv(c)'
  <2>1. \A e : Kept(c, e) => Kept(c, e)'
    BY <1>0 DEF Kept
  <2>2. RecentInv(c)'
    BY <1>0, <1>2, <2>1, RecentSame DEF ClientInv
  <2>3. EventInv(c)'
    BY <1>0, <1>2 DEF ClientInv, EventInv, Listening
  <2> QED BY <2>2, <2>3
<1>4. ASSUME NEW c \in Client, c \notin Listening PROVE ReadingInv(c)'
  <2>1. readings'[c] = readings[c]
    BY <1>0, <1>4
  <2> QED BY <1>0, <1>1, <2>1, ReadingSame DEF ClientInv
<1>5. ASSUME NEW c \in Client, c \in Listening PROVE ReadingInv(c)'
  <2>1. readings[c] \in Seq(Reading) /\ Len(readings[c]) <= 1 /\ PastReading + 1 \in Reading
    BY <1>0, <1>1, ClientTypes
  <2>2. readings'[c] = <<PastReading + 1>>
    <3>1. readings'[c] = Put(readings[c], PastReading + 1, 1)
      BY <1>0, <1>1, <1>5
    <3> QED BY <2>1, <3>1, OnePut
  <2>3. /\ Len(readings'[c]) = 1
        /\ \A i \in 1..Len(readings'[c]) : readings'[c][i] = PastReading + 1
    BY <2>2
  <2>4. shown[c] \in Nat /\ shown[c] <= PastReading
        /\ (sender[c] = "reading" => hand[c] \in (shown[c] + 1)..PastReading)
    BY <1>0, ClientTypes DEF ClientInv, ReadingInv
  <2>5. shown'[c] <= PastReading' /\ (sender'[c] = "reading" => hand'[c] \in (shown'[c] + 1)..PastReading')
    BY <1>0, <1>1, <2>4
  <2>6. \A i \in 1..Len(readings'[c]) :
            /\ readings'[c][i] <= PastReading'
            /\ shown'[c] < readings'[c][i]
            /\ sender'[c] = "reading" => hand'[c] < readings'[c][i]
    BY <1>0, <1>1, <2>3, <2>4
  <2> QED BY <2>5, <2>6 DEF ReadingInv
<1> QED BY <1>1, <1>3, <1>4, <1>5 DEF ClientInv

\* The steps of one client leave the store and the other clients alone.
LEMMA OthersKept ==
    ASSUME IInv, NEW c \in Client, UNCHANGED store,
           \A d \in Client \ {c} :
               /\ d \in hub => d \in hub'
               /\ conn'[d] = conn[d] /\ sender'[d] = sender[d] /\ hand'[d] = hand[d]
               /\ events'[d] = events[d] /\ readings'[d] = readings[d]
               /\ since'[d] = since[d] /\ got'[d] = got[d] /\ shown'[d] = shown[d],
           ClientInv(c)'
    PROVE  StoreInv' /\ \A d \in Client : ClientInv(d)'
<1>1. StoreInv' /\ Past' = Past /\ PastReading' = PastReading /\ published' = published
  BY DEF IInv, StoreInv, Past, PastReading, store
<1>2. TypeOK /\ StoreInv /\ Past \in Nat /\ PastReading \in Nat
  BY PastNat DEF IInv
<1>3. ASSUME NEW d \in Client \ {c} PROVE EventInv(d)' /\ RecentInv(d)' /\ ReadingInv(d)'
  <2>1. \A e : Kept(d, e) => Kept(d, e)'
    BY DEF Kept
  <2>2. EventInv(d) /\ RecentInv(d) /\ ReadingInv(d)
    BY DEF IInv, ClientInv
  <2>3. EventInv(d)' /\ ReadingInv(d)'
    BY <1>1, <1>2, <2>2, EventSame, ReadingSame
  <2>4. RecentInv(d)'
    BY <1>1, <2>1, <2>2, RecentSame
  <2> QED BY <2>3, <2>4
<1> QED BY <1>1, <1>3 DEF ClientInv

LEMMA StoreSame ==
    ASSUME IInv, UNCHANGED store
    PROVE  /\ Past' = Past /\ PastReading' = PastReading /\ published' = published
           /\ Past \in Nat /\ PastReading \in Nat /\ Past <= published /\ published \in Nat
           /\ TypeOK
BY PastNat DEF IInv, Past, PastReading, store

\* A message that the sender takes from the head of its queue is older than
\* what stays in it.
LEMMA TakeEventKeeps ==
    ASSUME IInv, NEW c \in Client, TakeEvent(c) PROVE ClientInv(c)'
<1>0. /\ Past' = Past /\ PastReading' = PastReading /\ published' = published
      /\ Past \in Nat /\ PastReading \in Nat /\ TypeOK
      /\ sender[c] = "ready" /\ events[c] # <<>>
      /\ hub' = hub /\ conn' = conn /\ readings' = readings /\ since' = since /\ got' = got
      /\ shown' = shown /\ events'[c] = Tail(events[c])
      /\ \/ conn[c] = "open" /\ sender'[c] = "event" /\ hand'[c] = Head(events[c])
         \/ conn[c] # "open" /\ sender'[c] = "done"
      /\ EventInv(c) /\ RecentInv(c) /\ ReadingInv(c)
  BY StoreSame DEF TakeEvent, Begin, history, IInv, TypeOK, ClientInv
<1> DEFINE q == events[c]
           r == Tail(events[c])
<1>1. /\ Spaced(r, Past)
      /\ Head(q) \in 1..Past
      /\ \A i \in 1..Len(r) : Head(q) < r[i]
      /\ \A i \in 1..Len(r) : \E j \in 1..Len(q) : r[i] = q[j]
      /\ \A j \in 1..Len(q) : q[j] = Head(q) \/ \E i \in 1..Len(r) : q[j] = r[i]
      /\ \E j \in 1..Len(q) : q[j] = Head(q)
  <2>1. q \in Seq(Event) /\ q # <<>> /\ Spaced(q, Past)
    BY <1>0, ClientTypes DEF EventInv
  <2>2. \E j \in 1..Len(q) : q[j] = Head(q)
    BY <2>1, TailOf
  <2> QED BY <1>0, <2>1, <2>2, SpacedTail
<1> HIDE DEF q, r
<1>2. ASSUME NEW x \in got[c]
      PROVE  x <= Past /\ x < Head(q) /\ \A i \in 1..Len(r) : x < r[i]
  BY <1>0, <1>1 DEF EventInv, q
<1>3. EventInv(c)'
  BY <1>0, <1>1, <1>2 DEF EventInv, q, r
<1>4. RecentInv(c)'
  <2> SUFFICES ASSUME conn[c] = "open", sender'[c] = "event", hand'[c] = Head(q),
                      NEW e \in (since[c] + 1)..Past
               PROVE  Kept(c, e)' \/ e + Window <= published
    BY <1>0 DEF RecentInv, q
  <2>1. Kept(c, e) \/ e + Window <= published
    BY <1>0 DEF RecentInv
  <2>2. ASSUME NEW j \in 1..Len(q), q[j] = e PROVE Kept(c, e)'
    BY <1>0, <1>1, <2>2 DEF Kept, r
  <2> QED BY <1>0, <2>1, <2>2 DEF Kept, q
<1>5. ReadingInv(c)'
  BY <1>0 DEF ReadingInv
<1> QED BY <1>3, <1>4, <1>5 DEF ClientInv

LEMMA TakeReadingKeeps ==
    ASSUME IInv, NEW c \in Client, TakeReading(c) PROVE ClientInv(c)'
<1>0. /\ Past' = Past /\ PastReading' = PastReading /\ published' = published
      /\ Past \in Nat /\ PastReading \in Nat /\ TypeOK
      /\ sender[c] = "ready" /\ readings[c] # <<>>
      /\ hub' = hub /\ conn' = conn /\ events' = events /\ since' = since /\ got' = got
      /\ shown' = shown /\ readings'[c] = Tail(readings[c])
      /\ \/ conn[c] = "open" /\ sender'[c] = "reading" /\ hand'[c] = Head(readings[c])
         \/ conn[c] # "open" /\ sender'[c] = "done"
      /\ EventInv(c) /\ RecentInv(c) /\ ReadingInv(c)
  BY StoreSame DEF TakeReading, Begin, history, IInv, TypeOK, ClientInv
<1>1. /\ Len(Tail(readings[c])) = 0
      /\ Head(readings[c]) = readings[c][1]
      /\ 1 \in 1..Len(readings[c])
      /\ readings[c][1] \in Nat
  <2>1. readings[c] \in Seq(Reading) /\ Len(readings[c]) <= 1
        /\ \A i \in 1..Len(readings[c]) : readings[c][i] \in Nat
    BY <1>0, ClientTypes
  <2>2. Len(Tail(readings[c])) = 0 /\ Head(readings[c]) = readings[c][1] /\ 1 \in 1..Len(readings[c])
    BY <1>0, <2>1, OneTail
  <2> QED BY <2>1, <2>2
<1>2. EventInv(c)' /\ RecentInv(c)'
  BY <1>0 DEF EventInv, RecentInv, Kept
<1>3. shown[c] \in Nat /\ readings[c][1] <= PastReading /\ shown[c] < readings[c][1] /\ shown[c] <= PastReading
  BY <1>0, <1>1, ClientTypes DEF ReadingInv
<1>4. ReadingInv(c)'
  BY <1>0, <1>1, <1>3 DEF ReadingInv
<1> QED BY <1>2, <1>4 DEF ClientInv

\* What is delivered is newer than all the client has got before.
LEMMA SendEventKeeps ==
    ASSUME IInv, NEW c \in Client, SendEvent(c) PROVE ClientInv(c)'
<1>0. /\ Past' = Past /\ PastReading' = PastReading /\ published' = published
      /\ Past \in Nat /\ PastReading \in Nat /\ TypeOK
      /\ sender[c] = "event" /\ sender'[c] = "ready" /\ conn[c] = "open"
      /\ hub' = hub /\ conn' = conn /\ events' = events /\ readings' = readings
      /\ since' = since /\ got'[c] = got[c] \cup {hand[c]} /\ shown' = shown
      /\ EventInv(c) /\ RecentInv(c) /\ ReadingInv(c)
  BY StoreSame DEF SendEvent, IInv, TypeOK, ClientInv
<1>1. EventInv(c)'
  BY <1>0 DEF EventInv
<1>2. RecentInv(c)'
  BY <1>0 DEF RecentInv, Kept
<1>3. ReadingInv(c)'
  BY <1>0 DEF ReadingInv
<1> QED BY <1>1, <1>2, <1>3 DEF ClientInv

LEMMA SendReadingKeeps ==
    ASSUME IInv, NEW c \in Client, SendReading(c) PROVE ClientInv(c)'
<1>0. /\ Past' = Past /\ PastReading' = PastReading /\ published' = published
      /\ Past \in Nat /\ PastReading \in Nat /\ TypeOK
      /\ sender[c] = "reading" /\ sender'[c] = "ready" /\ conn[c] = "open"
      /\ hub' = hub /\ conn' = conn /\ events' = events /\ readings' = readings
      /\ since' = since /\ got' = got /\ shown'[c] = hand[c]
      /\ EventInv(c) /\ RecentInv(c) /\ ReadingInv(c)
  BY StoreSame DEF SendReading, IInv, TypeOK, ClientInv
<1>1. EventInv(c)' /\ RecentInv(c)'
  BY <1>0 DEF EventInv, RecentInv, Kept
<1>2. ReadingInv(c)'
  BY <1>0 DEF ReadingInv
<1> QED BY <1>1, <1>2 DEF ClientInv

\* The steps that only end a connection or its sender.
LEMMA EndsKeep ==
    ASSUME IInv, NEW c \in Client, Close(c) \/ CloseSender(c) \/ SendFails(c) PROVE ClientInv(c)'
<1>0. /\ Past' = Past /\ PastReading' = PastReading /\ published' = published
      /\ Past \in Nat /\ PastReading \in Nat /\ TypeOK
      /\ hub' = hub /\ events' = events /\ readings' = readings
      /\ since' = since /\ got' = got /\ shown' = shown
      /\ EventInv(c) /\ RecentInv(c) /\ ReadingInv(c)
      /\ \/ conn'[c] = "closed" /\ sender' = sender /\ hand' = hand
         \/ conn' = conn /\ sender'[c] = "done"
  BY StoreSame DEF Close, CloseSender, SendFails, history, IInv, TypeOK, ClientInv
<1>1. EventInv(c)'
  BY <1>0 DEF EventInv
<1>2. RecentInv(c)'
  BY <1>0 DEF RecentInv, Kept
<1>3. ReadingInv(c)'
  BY <1>0 DEF ReadingInv
<1> QED BY <1>1, <1>2, <1>3 DEF ClientInv

LEMMA ConnectKeeps ==
    ASSUME IInv, NEW c \in Client, Connect(c) PROVE ClientInv(c)'
<1>0. /\ Past' = Past /\ PastReading' = PastReading /\ published' = published
      /\ Past \in Nat /\ PastReading \in Nat /\ Past <= published /\ published \in Nat /\ TypeOK
      /\ hub' = hub \cup {c} /\ conn'[c] = "open" /\ sender'[c] = "ready"
      /\ events' = events /\ readings' = readings
      /\ since'[c] = published /\ got' = got /\ shown' = shown
      /\ EventInv(c) /\ RecentInv(c) /\ ReadingInv(c)
  BY StoreSame DEF Connect, IInv, TypeOK, ClientInv
<1>1. EventInv(c)'
  BY <1>0 DEF EventInv
<1>2. RecentInv(c)'
  BY <1>0 DEF RecentInv
<1>3. ReadingInv(c)'
  BY <1>0 DEF ReadingInv
<1> QED BY <1>1, <1>2, <1>3 DEF ClientInv

LEMMA RemoveKeeps ==
    ASSUME IInv, NEW c \in Client, Remove(c) PROVE ClientInv(c)'
<1>0. /\ PastReading' = PastReading /\ PastReading \in Nat /\ Past' = Past /\ Past \in Nat
      /\ conn'[c] = "away" /\ sender'[c] = "done" /\ got'[c] = {} /\ shown'[c] = 0
      /\ events'[c] = <<>> /\ readings'[c] = <<>>
  BY StoreSame DEF Remove, Discard, IInv, TypeOK
<1>1. Len(events'[c]) = 0 /\ Len(readings'[c]) = 0
  BY <1>0
<1>2. EventInv(c)'
  BY <1>0, <1>1 DEF EventInv, Spaced
<1>3. RecentInv(c)' /\ ReadingInv(c)'
  BY <1>0, <1>1 DEF RecentInv, ReadingInv
<1> QED BY <1>2, <1>3 DEF ClientInv

LEMMA InvStep == IInv /\ [Next]_vars => IInv'
<1> SUFFICES ASSUME IInv, [Next]_vars PROVE IInv'
  OBVIOUS
<1>0. TypeOK'
  BY TypeStep DEF IInv
<1> SUFFICES StoreInv' /\ \A d \in Client : ClientInv(d)'
  BY <1>0 DEF IInv
<1>t. /\ conn \in [Client -> {"away", "open", "closed"}]
      /\ sender \in [Client -> {"ready", "event", "reading", "done"}]
      /\ hand \in [Client -> Nat] /\ events \in [Client -> Seq(Event)]
      /\ readings \in [Client -> Seq(Reading)] /\ since \in [Client -> 0..MaxEvent]
      /\ got \in [Client -> SUBSET Event] /\ shown \in [Client -> 0..MaxReading]
  BY DEF IInv, TypeOK
<1>1. ASSUME NEW c \in Client, Connect(c) PROVE StoreInv' /\ \A d \in Client : ClientInv(d)'
  BY <1>1, <1>t, ConnectKeeps, OthersKept DEF Connect
<1>2. ASSUME NEW c \in Client, Remove(c) PROVE StoreInv' /\ \A d \in Client : ClientInv(d)'
  BY <1>2, <1>t, RemoveKeeps, OthersKept DEF Remove, Discard
<1>3. ASSUME NEW c \in Client, Close(c) PROVE StoreInv' /\ \A d \in Client : ClientInv(d)'
  BY <1>3, <1>t, EndsKeep, OthersKept DEF Close, history
<1>4. ASSUME NEW c \in Client, CloseSender(c) PROVE StoreInv' /\ \A d \in Client : ClientInv(d)'
  BY <1>4, <1>t, EndsKeep, OthersKept DEF CloseSender, history
<1>5. ASSUME NEW c \in Client, SendFails(c) PROVE StoreInv' /\ \A d \in Client : ClientInv(d)'
  BY <1>5, <1>t, EndsKeep, OthersKept DEF SendFails, history
<1>6. ASSUME NEW c \in Client, TakeEvent(c) PROVE StoreInv' /\ \A d \in Client : ClientInv(d)'
  BY <1>6, <1>t, TakeEventKeeps, OthersKept DEF TakeEvent, Begin, history
<1>7. ASSUME NEW c \in Client, TakeReading(c) PROVE StoreInv' /\ \A d \in Client : ClientInv(d)'
  BY <1>7, <1>t, TakeReadingKeeps, OthersKept DEF TakeReading, Begin, history
<1>8. ASSUME NEW c \in Client, SendEvent(c) PROVE StoreInv' /\ \A d \in Client : ClientInv(d)'
  BY <1>8, <1>t, SendEventKeeps, OthersKept DEF SendEvent
<1>9. ASSUME NEW c \in Client, SendReading(c) PROVE StoreInv' /\ \A d \in Client : ClientInv(d)'
  BY <1>9, <1>t, SendReadingKeeps, OthersKept DEF SendReading
<1>10. CASE UNCHANGED vars
  <2>1. /\ hub' = hub /\ conn' = conn /\ sender' = sender /\ hand' = hand /\ events' = events
        /\ readings' = readings /\ since' = since /\ got' = got /\ shown' = shown
        /\ published' = published /\ measured' = measured
        /\ eventQueue' = eventQueue /\ readingQueue' = readingQueue
    BY <1>10 DEF vars, store, client, history
  <2>2. Past' = Past /\ PastReading' = PastReading /\ StoreInv'
    BY <2>1 DEF Past, PastReading, IInv, StoreInv
  <2>3. ASSUME NEW d \in Client PROVE ClientInv(d)'
    BY <2>1, <2>2 DEF IInv, ClientInv, EventInv, RecentInv, ReadingInv, Kept
  <2> QED BY <2>2, <2>3
<1> QED BY <1>1, <1>2, <1>3, <1>4, <1>5, <1>6, <1>7, <1>8, <1>9, <1>10, PublishEventKeeps,
           PublishReadingKeeps, BroadcastEventKeeps, BroadcastReadingKeeps DEF Next, Take, Send

THEOREM Invariance == Spec => []IInv
<1>1. Init => IInv
  BY InvInit
<1>2. IInv /\ [Next]_vars => IInv'
  BY InvStep
<1> QED BY <1>1, <1>2, PTL DEF Spec

-----------------------------------------------------------------------------
(* The properties of the runs. *)

\* Every queue stays within its capacity, and all variables within their
\* types, in every reachable state.
THEOREM TypeInvariant == Spec => []TypeOK
<1>1. IInv => TypeOK
  BY DEF IInv
<1> QED BY <1>1, Invariance, PTL

LEMMA QueueNat ==
    ASSUME TypeOK, StoreInv
    PROVE  /\ Len(eventQueue) \in Nat
           /\ \A i \in 1..Len(eventQueue) : eventQueue[i] = Past + i
           /\ Past \in Nat /\ published = Past + Len(eventQueue)
<1>1. eventQueue \in Seq(Event) /\ Past \in Nat /\ published \in Nat
  BY PastNat DEF TypeOK
<1>2. Len(eventQueue) \in Nat
  BY <1>1
<1>3. Past = published - Len(eventQueue)
  BY DEF Past
<1>4. \A i \in 1..Len(eventQueue) : eventQueue[i] = Past + i
  BY <1>3 DEF StoreInv, Contiguous
<1> QED BY <1>1, <1>2, <1>3, <1>4

\* No client gets events out of the order of publication, or one twice:
\* whatever is on its way to it is newer than what it has got, and a queue
\* nearer to it holds older events.
THEOREM Ordered == Spec => []InOrder
<1>1. IInv => InOrder
  <2> SUFFICES ASSUME IInv PROVE InOrder
    OBVIOUS
  <2>1. /\ Len(eventQueue) \in Nat /\ Past \in Nat
        /\ \A i \in 1..Len(eventQueue) : eventQueue[i] = Past + i
    BY QueueNat DEF IInv
  <2>2. Increasing(eventQueue)
    BY <2>1 DEF Increasing
  <2>3. \A y \in Elements(eventQueue) : y \in Nat /\ Past < y
    BY <2>1 DEF Elements
  <2>4. ASSUME NEW c \in Client
        PROVE  /\ Increasing(events[c])
               /\ \A x \in got[c], y \in InHand(c) \cup Elements(events[c]) \cup Elements(eventQueue) : x < y
               /\ \A x \in InHand(c), y \in Elements(events[c]) \cup Elements(eventQueue) : x < y
               /\ \A x \in Elements(events[c]), y \in Elements(eventQueue) : x < y
    <3>1. /\ EventInv(c) /\ hand[c] \in Nat /\ got[c] \subseteq Nat
          /\ \A i \in 1..Len(events[c]) : events[c][i] \in Nat
      BY ClientTypes DEF IInv, ClientInv
    <3>2. Increasing(events[c])
      BY <3>1 DEF Increasing, EventInv, Spaced
    <3>3. \A y \in Elements(events[c]) : y \in Nat /\ y <= Past
      BY <2>1, <3>1 DEF EventInv, Spaced, Elements
    <3>4. \A y \in InHand(c) : y \in Nat /\ y <= Past /\ \A z \in Elements(events[c]) : y < z
      BY <2>1, <3>1 DEF EventInv, InHand, Elements
    <3>5. ASSUME NEW x \in got[c]
          PROVE  /\ x \in Nat /\ x <= Past
                 /\ \A y \in InHand(c) : x < y
                 /\ \A y \in Elements(events[c]) : x < y
      BY <3>1 DEF EventInv, InHand, Elements
    <3>6. \A x, y \in Nat : x <= Past /\ Past < y => x < y
      BY <2>1
    <3> QED BY <2>3, <3>2, <3>3, <3>4, <3>5, <3>6
  <2> QED BY <2>2, <2>4 DEF InOrder
<1> QED BY <1>1, Invariance, PTL

\* A client whose sender lives misses none of the newest events, whatever
\* its own pace and that of the others.
THEOREM RecentlyKept == Spec => []RecentKept
<1>1. IInv => RecentKept
  <2> SUFFICES ASSUME IInv, NEW c \in Client, conn[c] = "open", sender[c] # "done",
                      NEW e \in (since[c] + 1)..published, e + Window > published
               PROVE  e \in got[c] \cup InHand(c) \cup Elements(events[c]) \cup Elements(eventQueue)
    BY DEF RecentKept
  <2>1. /\ Len(eventQueue) \in Nat /\ Past \in Nat /\ published = Past + Len(eventQueue)
        /\ \A i \in 1..Len(eventQueue) : eventQueue[i] = Past + i
        /\ since[c] \in Nat /\ e \in Nat /\ published \in Nat /\ Window \in Nat
    BY QueueNat, ClientTypes, WindowBounds DEF IInv
  <2>2. CASE e <= Past
    <3>1. Kept(c, e)
      BY <2>1, <2>2 DEF IInv, ClientInv, RecentInv
    <3> QED BY <3>1 DEF Kept, InHand, Elements
  <2>3. CASE ~(e <= Past)
    <3>1. e - Past \in 1..Len(eventQueue) /\ eventQueue[e - Past] = e
      BY <2>1, <2>3
    <3> QED BY <3>1 DEF Elements
  <2> QED BY <2>2, <2>3
<1> QED BY <1>1, Invariance, PTL

\* A reading never replaces a newer one on a client's screen.
THEOREM ReadingsOnlyForward == Spec => ReadingsForward
<1>1. IInv /\ [Next]_vars => [\A c \in Client : SendReading(c) => hand[c] > shown[c]]_vars
  <2> SUFFICES ASSUME IInv, NEW c \in Client, SendReading(c) PROVE hand[c] > shown[c]
    OBVIOUS
  <2>1. sender[c] = "reading" /\ shown[c] \in Nat /\ PastReading \in Nat /\ ReadingInv(c)
    BY ClientTypes, PastNat DEF SendReading, IInv, ClientInv
  <2> QED BY <2>1 DEF ReadingInv
<1> QED BY <1>1, Invariance, PTL DEF Spec, ReadingsForward

-----------------------------------------------------------------------------
(* The refinement. *)

LEMMA FeedInit == Init => Feed!Init
BY DEF Init, Feed!Init

\* A delivery is one the feed allows: newer than all that was got, and what
\* was missed in between is older than the window.
LEMMA FeedDelivers ==
    ASSUME IInv, NEW c \in Client, SendEvent(c)
    PROVE  hand[c] \in 1..published /\ Feed!Deliver(c, hand[c])
<1>1. /\ EventInv(c) /\ RecentInv(c) /\ conn[c] = "open" /\ sender[c] = "event"
      /\ Past \in Nat /\ Past <= published /\ published \in Nat /\ hand[c] \in 1..Past
      /\ since[c] \in Nat
  BY PastNat, ClientTypes DEF IInv, ClientInv, SendEvent, EventInv
<1>2. \A x \in got[c] : x < hand[c]
  BY <1>1 DEF EventInv
<1>3. ASSUME NEW x \in (since[c] + 1)..(hand[c] - 1) PROVE x \in got[c] \/ x + Window <= published
  <2>1. x \in (since[c] + 1)..Past /\ x < hand[c] /\ x \in Nat
    BY <1>1
  <2>2. Kept(c, x) \/ x + Window <= published
    BY <1>1, <2>1 DEF RecentInv
  <2>3. ASSUME NEW i \in 1..Len(events[c]), events[c][i] = x PROVE FALSE
    BY <1>1, <2>1, <2>3 DEF EventInv
  <2> QED BY <1>1, <2>1, <2>2, <2>3 DEF Kept
<1>4. got' = [got EXCEPT ![c] = @ \cup {hand[c]}] /\ UNCHANGED <<published, since>>
  BY DEF SendEvent, store
<1> QED BY <1>1, <1>2, <1>3, <1>4 DEF Feed!Deliver

LEMMA FeedStep == IInv /\ [Next]_vars => [Feed!Next]_(Feed!vars)
<1> SUFFICES ASSUME IInv, [Next]_vars PROVE Feed!Next \/ UNCHANGED <<published, since, got>>
  BY DEF Feed!vars
<1>1. CASE PublishEvent
  BY <1>1 DEF PublishEvent, history, Feed!Next, Feed!Publish
<1>2. ASSUME NEW c \in Client, Connect(c) PROVE Feed!Next
  <2>1. got[c] = {} /\ got \in [Client -> SUBSET Event]
    BY <1>2 DEF Connect, IInv, TypeOK, ClientInv, EventInv
  <2>2. got' = [got EXCEPT ![c] = {}]
    BY <1>2, <2>1 DEF Connect
  <2> QED BY <1>2, <2>2 DEF Connect, store, Feed!Next, Feed!Join
<1>3. ASSUME NEW c \in Client, Remove(c) PROVE Feed!Next
  BY <1>3 DEF Remove, Discard, store, Feed!Next, Feed!Leave
<1>4. ASSUME NEW c \in Client, SendEvent(c) PROVE Feed!Next
  BY <1>4, FeedDelivers DEF Feed!Next
<1>5. ASSUME NEW c \in Client,
             Close(c) \/ CloseSender(c) \/ SendFails(c) \/ TakeEvent(c) \/ TakeReading(c) \/ SendReading(c)
      PROVE  UNCHANGED <<published, since, got>>
  BY <1>5 DEF Close, CloseSender, SendFails, TakeEvent, TakeReading, SendReading, store, history
<1>6. CASE PublishReading \/ BroadcastEvent \/ BroadcastReading
  BY <1>6 DEF PublishReading, BroadcastEvent, BroadcastReading, history
<1>7. CASE UNCHANGED vars
  BY <1>7 DEF vars, store, history
<1> QED BY <1>1, <1>2, <1>3, <1>4, <1>5, <1>6, <1>7 DEF Next, Take, Send

\* The queues, broadcasters and senders together deliver what the feed
\* promises to every connected client.
THEOREM ImplementsFeed == Spec => FeedSpec
<1>1. Init => Feed!Init
  BY FeedInit
<1>2. IInv /\ [Next]_vars => [Feed!Next]_(Feed!vars)
  BY FeedStep
<1> QED BY <1>1, <1>2, Invariance, PTL DEF Spec, FeedSpec, Feed!Spec
=============================================================================
