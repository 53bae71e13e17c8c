-------------------------- MODULE ReactiveLruProofs --------------------------
(***************************************************************************)
(* The handshake between Set and the janitor, and the linked tape, for any  *)
(* number of clients, keys and nodes.                                       *)
(*                                                                          *)
(* The argument for the tape: there is an arrangement of the nodes, a       *)
(* permutation of 1 .. allocated, that the pointers spell out (Order) and   *)
(* whose first activeCount nodes are the live sessions (Live).  Moving a    *)
(* node to the head, rotating the tail and growing turn one arrangement     *)
(* into another.  NodeAt, which follows the pointers, is that arrangement.  *)
(***************************************************************************)
EXTENDS ReactiveLru, Sequences, FiniteSetTheorems, WellFoundedInduction, TLAPS

\* The part of the types the handshake depends on.
CountType == /\ activeCount \in Int
             /\ pc \in [Clients -> {"idle", "get", "set", "wakeup"}]
             /\ wasEmpty \in [Clients -> BOOLEAN]
             /\ wakeupChan \in {0, 1}

HandshakeInv == CountType /\ NoLostWakeup

LEMMA InitHandshake == Init => HandshakeInv
  BY DEF Init, HandshakeInv, CountType, NoLostWakeup

LEMMA NextHandshake == HandshakeInv /\ [Next]_vars => HandshakeInv'
  <1> SUFFICES ASSUME HandshakeInv, [Next]_vars PROVE HandshakeInv'
    OBVIOUS
  <1> USE DEF HandshakeInv, CountType, NoLostWakeup, cache, janitor, clients, Goto
  <1>1. CASE UNCHANGED vars
    BY <1>1 DEF vars
  <1>2. ASSUME NEW p \in Clients, NEW op \in {"get", "set"}, NEW k \in Keys,
               Call(p, op, k)
        PROVE  HandshakeInv'
    BY <1>2 DEF Call
  <1>3. ASSUME NEW p \in Clients, Get(p) PROVE HandshakeInv'
    BY <1>3 DEF Get, Touch
  <1>4. ASSUME NEW p \in Clients, SetExisting(p) PROVE HandshakeInv'
    BY <1>4 DEF SetExisting, Touch
  <1>5. ASSUME NEW p \in Clients, SetReuse(p) PROVE HandshakeInv'
    <2>1. /\ pc[p] = "set" /\ pc' = [pc EXCEPT ![p] = "wakeup"]
          /\ wasEmpty' = [wasEmpty EXCEPT ![p] = (activeCount = 0)]
          /\ activeCount' = activeCount + 1
          /\ UNCHANGED <<wakeupChan, jpc>>
      BY <1>5 DEF SetReuse, Occupy
    <2>2. CountType'
      BY <2>1
    <2>3. CASE activeCount = 0
      BY <2>1, <2>2, <2>3
    <2>4. CASE activeCount # 0
      BY <2>1, <2>2, <2>4
    <2> QED
      BY <2>3, <2>4
  <1>6. ASSUME NEW p \in Clients, SetGrow(p) PROVE HandshakeInv'
    <2>1. /\ pc[p] = "set" /\ pc' = [pc EXCEPT ![p] = "wakeup"]
          /\ wasEmpty' = [wasEmpty EXCEPT ![p] = (activeCount = 0)]
          /\ activeCount' = activeCount + 1 /\ activeCount > 0
          /\ UNCHANGED <<wakeupChan, jpc>>
      BY <1>6, CapacityAssumption DEF SetGrow, Occupy
    <2> QED
      BY <2>1
  <1>7. ASSUME NEW p \in Clients, TriggerWakeup(p) PROVE HandshakeInv'
    BY <1>7 DEF TriggerWakeup, Signal
  <1>8. CASE JanitorIdle
    BY <1>8 DEF JanitorIdle
  <1>9. CASE JanitorWoken \/ JanitorSleep \/ JanitorTimer \/ JanitorExit
    BY <1>9 DEF JanitorWoken, JanitorSleep, JanitorTimer, JanitorExit
  <1>10. CASE JanitorExpire
    BY <1>10 DEF JanitorExpire
  <1>11. CASE Cancel \/ Tick
    BY <1>11 DEF Cancel, Tick
  <1> QED
    BY <1>1, <1>2, <1>3, <1>4, <1>5, <1>6, <1>7, <1>8, <1>9, <1>10, <1>11
       DEF Next, ClientRun, JanitorRun

(***************************************************************************)
(* The janitor's wake-up is never lost, although Set sends it after         *)
(* releasing the mutex and drops it when the channel is full.               *)
(***************************************************************************)
THEOREM NoLostWakeupTheorem == Spec => []NoLostWakeup
  <1>1. HandshakeInv => NoLostWakeup
    BY DEF HandshakeInv
  <1> QED
    BY <1>1, InitHandshake, NextHandshake, PTL DEF Spec

-----------------------------------------------------------------------------
\* What the pointers of tape t on the nodes 1 .. n spell out.
Order(o, t, n) ==
    /\ o \in [1 .. n -> 1 .. n]
    /\ \A i, j \in 1 .. n : o[i] = o[j] => i = j
    /\ \A x \in 1 .. n : \E i \in 1 .. n : o[i] = x
    /\ t.head = o[1] /\ t.tail = o[n]
    /\ \A i \in 1 .. n : t.next[o[i]] = IF i < n THEN o[i + 1] ELSE Nil
    /\ \A i \in 1 .. n : t.prev[o[i]] = IF 1 < i THEN o[i - 1] ELSE Nil

\* The arrangement after its j-th node was moved to the head, and after a node
\* was put before it.
Moved(o, j, n) ==
    [i \in 1 .. n |-> IF i = 1 THEN o[j] ELSE IF i <= j THEN o[i - 1] ELSE o[i]]
Pushed(o, n) == [i \in 1 .. n + 1 |-> IF i = 1 THEN n + 1 ELSE o[i - 1]]

LEMMA LinkType ==
  ASSUME NEW f, NEW x, NEW v, f \in [Nodes -> NodeOrNil], x \in NodeOrNil, v \in NodeOrNil
  PROVE  /\ Link(f, x, v) \in [Nodes -> NodeOrNil]
         /\ \A y \in Nodes : Link(f, x, v)[y] = IF y = x THEN v ELSE f[y]
  BY DEF Link, Nodes, NodeOrNil, Nil

\* The pointers after PushHead ...
LEMMA PushPointers ==
  ASSUME NEW t \in Tape, NEW n \in Nodes
  PROVE  LET m == PushHead(t, n)
         IN  /\ m \in Tape /\ m.head = n /\ m.tail = t.tail
             /\ \A y \in Nodes : m.next[y] = IF y = n THEN t.head ELSE t.next[y]
             /\ \A y \in Nodes : m.prev[y] = IF y = t.head THEN n
                                             ELSE IF y = n THEN Nil ELSE t.prev[y]
<1> DEFINE nx == [t.next EXCEPT ![n] = t.head]
           blank == [t.prev EXCEPT ![n] = Nil]
           pv == Link(blank, t.head, n)
           m == PushHead(t, n)
<1>1. t.head \in NodeOrNil /\ t.tail \in NodeOrNil /\ n \in NodeOrNil /\ Nil \in NodeOrNil
      /\ t.next \in [Nodes -> NodeOrNil] /\ t.prev \in [Nodes -> NodeOrNil]
  BY DEF Tape, NodeOrNil
<1>2. blank \in [Nodes -> NodeOrNil] /\ \A y \in Nodes : blank[y] = IF y = n THEN Nil ELSE t.prev[y]
  BY <1>1
<1>3. pv \in [Nodes -> NodeOrNil]
      /\ \A y \in Nodes : pv[y] = IF y = t.head THEN n ELSE IF y = n THEN Nil ELSE t.prev[y]
  <2> HIDE DEF blank
  <2>1. /\ Link(blank, t.head, n) \in [Nodes -> NodeOrNil]
        /\ \A y \in Nodes : Link(blank, t.head, n)[y] = IF y = t.head THEN n ELSE blank[y]
    <3> DEFINE hd == t.head
    <3>1. blank \in [Nodes -> NodeOrNil] /\ hd \in NodeOrNil /\ n \in NodeOrNil
      BY <1>1, <1>2
    <3> HIDE DEF hd
    <3>2. /\ Link(blank, hd, n) \in [Nodes -> NodeOrNil]
          /\ \A y \in Nodes : Link(blank, hd, n)[y] = IF y = hd THEN n ELSE blank[y]
      BY <3>1, LinkType
    <3> QED BY <3>2 DEF hd
  <2> QED BY <1>2, <2>1
<1>4. nx \in [Nodes -> NodeOrNil]
      /\ \A y \in Nodes : nx[y] = IF y = n THEN t.head ELSE t.next[y]
  BY <1>1
<1>5. m = [t EXCEPT !.head = n, !.next = nx, !.prev = pv]
  BY DEF PushHead
<1> HIDE DEF nx, pv
<1>6. m \in Tape /\ m.head = n /\ m.tail = t.tail /\ m.next = nx /\ m.prev = pv
  <2> HIDE DEF m
  <2> QED BY <1>1, <1>3, <1>4, <1>5 DEF Tape
<1> HIDE DEF m
<1> QED BY <1>3, <1>4, <1>6 DEF m

\* ... and after moveToHead of a node that is not the head.
LEMMA MovePointers ==
  ASSUME NEW t \in Tape, NEW n \in Nodes, n # t.head
  PROVE  LET m == MoveToHead(t, n)
             p == t.prev[n]
             q == t.next[n]
         IN  /\ m \in Tape /\ m.head = n /\ m.tail = IF n = t.tail THEN p ELSE t.tail
             /\ \A y \in Nodes : m.next[y] = IF y = n THEN t.head
                                             ELSE IF y = p THEN q ELSE t.next[y]
             /\ \A y \in Nodes : m.prev[y] = IF y = t.head THEN n ELSE IF y = n THEN Nil
                                             ELSE IF y = q THEN p ELSE t.prev[y]
<1> DEFINE p == t.prev[n]
           q == t.next[n]
           tl == IF n = t.tail THEN p ELSE t.tail
           nx == Link(t.next, p, q)
           pv == Link(t.prev, q, p)
           u == [t EXCEPT !.next = nx, !.prev = pv, !.tail = tl]
           m == MoveToHead(t, n)
<1>1. t.head \in NodeOrNil /\ t.tail \in NodeOrNil /\ p \in NodeOrNil /\ q \in NodeOrNil
      /\ t.next \in [Nodes -> NodeOrNil] /\ t.prev \in [Nodes -> NodeOrNil]
  BY DEF Tape
<1>2. m = PushHead(u, n)
  BY DEF MoveToHead
<1>3. /\ nx \in [Nodes -> NodeOrNil] /\ pv \in [Nodes -> NodeOrNil]
      /\ \A y \in Nodes : nx[y] = IF y = p THEN q ELSE t.next[y]
      /\ \A y \in Nodes : pv[y] = IF y = q THEN p ELSE t.prev[y]
  <2> HIDE DEF p, q
  <2> QED BY <1>1, LinkType
<1>4. u \in Tape /\ u.head = t.head /\ u.tail = tl /\ u.next = nx /\ u.prev = pv
  <2> HIDE DEF nx, pv, p
  <2> QED BY <1>1, <1>3 DEF Tape
<1> HIDE DEF u, nx, pv
<1>5. /\ m \in Tape /\ m.head = n /\ m.tail = u.tail
      /\ \A y \in Nodes : m.next[y] = IF y = n THEN u.head ELSE u.next[y]
      /\ \A y \in Nodes : m.prev[y] = IF y = u.head THEN n
                                      ELSE IF y = n THEN Nil ELSE u.prev[y]
  BY <1>2, <1>4, PushPointers
<1> HIDE DEF m, p, q
<1> QED BY <1>3, <1>4, <1>5 DEF m, p, q

\* Reusing the node at the tail is moving it to the head.
LEMMA RotateIsMove ==
  ASSUME NEW t, t \in Tape, t.tail \in Nodes, t.tail # t.head,
         t.next[t.tail] = Nil, t.prev[t.tail] \in Nodes
  PROVE  RotateTail(t) = MoveToHead(t, t.tail)
<1> DEFINE n == t.tail
           p == t.prev[n]
           a == [t EXCEPT !.tail = IF p # Nil THEN p ELSE @, !.next = Link(@, p, Nil)]
           b == [t EXCEPT !.next = Link(@, t.prev[n], t.next[n]),
                          !.prev = Link(@, t.next[n], t.prev[n]),
                          !.tail = IF n = @ THEN t.prev[n] ELSE @]
<1>1. p # Nil
  BY DEF Nodes, Nil
<1>2. Link(t.prev, t.next[n], t.prev[n]) = t.prev
  BY DEF Link
<1>3. a = [t EXCEPT !.tail = p, !.next = Link(t.next, p, Nil)]
  BY <1>1
<1>4. b = [t EXCEPT !.next = Link(t.next, p, Nil), !.prev = t.prev, !.tail = p]
  BY <1>2
<1>5. a = b
  <2> DEFINE l == Link(t.next, p, Nil)
  <2> HIDE DEF l, p, a, b
  <2> QED BY <1>3, <1>4 DEF Tape, l
<1> QED BY <1>5 DEF RotateTail, MoveToHead

LEMMA PushOrder ==
  ASSUME NEW t, t \in Tape, NEW n \in Nodes, n + 1 \in Nodes, NEW o, Order(o, t, n)
  PROVE  /\ PushHead(t, n + 1) \in Tape
         /\ Order(Pushed(o, n), PushHead(t, n + 1), n + 1)
<1> DEFINE m == PushHead(t, n + 1)
           r == Pushed(o, n)
<1>n. n \in Nat /\ n >= 1 /\ 1 .. n + 1 \subseteq Nodes /\ 1 .. n \subseteq Nodes
  BY CapacityAssumption DEF Nodes
<1>1. /\ m \in Tape /\ m.head = n + 1 /\ m.tail = t.tail
      /\ \A y \in Nodes : m.next[y] = IF y = n + 1 THEN t.head ELSE t.next[y]
      /\ \A y \in Nodes : m.prev[y] = IF y = t.head THEN n + 1
                                      ELSE IF y = n + 1 THEN Nil ELSE t.prev[y]
  BY PushPointers
<1>2. r = [i \in 1 .. n + 1 |-> IF i = 1 THEN n + 1 ELSE o[i - 1]]
  BY DEF Pushed
<1>3. \A i \in 1 .. n : o[i] \in 1 .. n
  BY DEF Order
<1>4. \A i, j \in 1 .. n : o[i] = o[j] => i = j
  BY DEF Order
<1>5. \A x \in 1 .. n : \E i \in 1 .. n : o[i] = x
  BY DEF Order
<1>6. /\ t.head = o[1] /\ t.tail = o[n]
      /\ \A i \in 1 .. n : t.next[o[i]] = IF i < n THEN o[i + 1] ELSE Nil
      /\ \A i \in 1 .. n : t.prev[o[i]] = IF 1 < i THEN o[i - 1] ELSE Nil
  BY DEF Order
<1> HIDE DEF m, r
<1>7. r[1] = n + 1 /\ \A i \in 1 .. n : r[i + 1] = o[i]
  BY <1>n, <1>2
<1>i. \A k \in 1 .. n + 1 : k = 1 \/ \E i \in 1 .. n : k = i + 1
  <2> SUFFICES ASSUME NEW k \in 1 .. n + 1, k # 1 PROVE k - 1 \in 1 .. n /\ k = (k - 1) + 1
    OBVIOUS
  <2> QED BY <1>n
<1>k. 1 .. n \subseteq 1 .. n + 1 /\ n + 1 \in 1 .. n + 1 /\ n + 1 \notin 1 .. n
  BY <1>n
<1>8. ASSUME NEW k \in 1 .. n + 1 PROVE r[k] \in 1 .. n + 1
  <2>1. CASE k = 1
    BY <1>k, <1>7, <2>1
  <2>2. ASSUME NEW i \in 1 .. n, k = i + 1 PROVE r[k] \in 1 .. n + 1
    BY <1>3, <1>k, <1>7, <2>2
  <2> QED BY <1>i, <2>1, <2>2
<1>9. r \in [1 .. n + 1 -> 1 .. n + 1]
  BY <1>2, <1>8
<1>10. \A i, j \in 1 .. n + 1 : r[i] = r[j] => i = j
  <2>1. \A i \in 1 .. n : r[i + 1] # n + 1
    BY <1>k, <1>3, <1>7, Zenon
  <2> QED BY <1>4, <1>7, <1>i, <2>1
<1>11. ASSUME NEW x \in 1 .. n + 1 PROVE \E i \in 1 .. n + 1 : r[i] = x
  <2>1. CASE x = n + 1
    BY <1>n, <1>7, <2>1
  <2>2. CASE x \in 1 .. n
    <3>1. PICK i \in 1 .. n : o[i] = x
      BY <1>5, <2>2
    <3> QED BY <1>n, <1>7, <3>1
  <2> QED BY <1>n, <2>1, <2>2
<1>12. m.head = r[1] /\ m.tail = r[n + 1]
  BY <1>n, <1>1, <1>6, <1>7
<1>13. ASSUME NEW i \in 1 .. n + 1
       PROVE  /\ m.next[r[i]] = IF i < n + 1 THEN r[i + 1] ELSE Nil
              /\ m.prev[r[i]] = IF 1 < i THEN r[i - 1] ELSE Nil
  <2>1. CASE i = 1
    <3>1. n + 1 # t.head /\ r[2] = t.head
      BY <1>n, <1>3, <1>6, <1>7
    <3>2. m.next[n + 1] = t.head /\ m.prev[n + 1] = Nil
      BY <1>1, <3>1
    <3> QED BY <1>n, <1>7, <2>1, <3>1, <3>2
  <2>2. CASE i # 1
    <3>1. PICK j \in 1 .. n : i = j + 1
      BY <1>i, <2>2
    <3>2. r[i] = o[j] /\ o[j] \in 1 .. n
      BY <1>3, <1>7, <3>1
    <3>3. o[j] # n + 1 /\ o[j] \in Nodes
      BY <1>n, <3>2
    <3>4. m.next[o[j]] = IF j < n THEN o[j + 1] ELSE Nil
      BY <1>1, <1>6, <3>3
    <3>5. j < n => r[i + 1] = o[j + 1]
      BY <1>n, <1>7, <3>1
    <3>6. m.next[r[i]] = IF i < n + 1 THEN r[i + 1] ELSE Nil
      BY <1>n, <3>1, <3>2, <3>4, <3>5
    <3>7. CASE j = 1
      BY <1>n, <1>1, <1>6, <1>7, <3>1, <3>2, <3>3, <3>6, <3>7
    <3>8. CASE j > 1
      <4>1. o[j] # t.head
        BY <1>n, <1>4, <1>6, <3>8
      <4>2. m.prev[o[j]] = o[j - 1]
        BY <1>1, <1>6, <3>3, <3>8, <4>1
      <4>3. r[i - 1] = o[j - 1]
        <5>1. j - 1 \in 1 .. n /\ (j - 1) + 1 = i - 1
          BY <1>n, <3>1, <3>8
        <5> QED BY <1>7, <5>1
      <4> QED BY <3>1, <3>2, <3>6, <3>8, <4>2, <4>3
    <3> QED BY <3>7, <3>8
  <2> QED BY <2>1, <2>2
<1>14. Order(r, m, n + 1)
  BY <1>9, <1>10, <1>11, <1>12, <1>13 DEF Order
<1> QED BY <1>1, <1>14 DEF m, r

\* Which node the k-th of the moved arrangement was.
LEMMA MovedAt ==
  ASSUME NEW n \in Nat, NEW o, NEW j \in 2 .. n, NEW k \in 1 .. n
  PROVE  \E i \in 1 .. n : /\ Moved(o, j, n)[k] = o[i]
                           /\ k = 1 => i = j
                           /\ k > j => i = k
                           /\ k # 1 /\ k <= j => k = i + 1
<1>1. CASE k = 1
  BY <1>1 DEF Moved
<1>2. CASE k > j
  BY <1>2 DEF Moved
<1>3. CASE k # 1 /\ k <= j
  <2>1. k - 1 \in 1 .. n /\ k = (k - 1) + 1 /\ ~(k > j)
    BY <1>3
  <2>2. Moved(o, j, n)[k] = o[k - 1]
    BY <1>3 DEF Moved
  <2> QED BY <1>3, <2>1, <2>2
<1> QED BY <1>1, <1>2, <1>3

LEMMA MoveOrder ==
  ASSUME NEW t, t \in Tape, NEW n \in Nodes, NEW o, Order(o, t, n), NEW j \in 2 .. n
  PROVE  /\ MoveToHead(t, o[j]) \in Tape
         /\ Order(Moved(o, j, n), MoveToHead(t, o[j]), n)
<1> DEFINE x == o[j]
           m == MoveToHead(t, x)
           r == Moved(o, j, n)
           p == o[j - 1]
           q == IF j < n THEN o[j + 1] ELSE Nil
<1>n. n \in Nat /\ j \in Nat /\ 2 <= j /\ j <= n /\ 1 .. n \subseteq Nodes
      /\ 1 \in 1 .. n /\ 2 \in 1 .. n /\ j \in 1 .. n /\ j - 1 \in 1 .. n /\ n \in 1 .. n
  BY CapacityAssumption DEF Nodes
<1>z. \A y \in 1 .. n : y # Nil
  BY DEF Nil
<1>2. r = [i \in 1 .. n |-> IF i = 1 THEN o[j] ELSE IF i <= j THEN o[i - 1] ELSE o[i]]
  BY DEF Moved
<1>3. \A i \in 1 .. n : o[i] \in 1 .. n
  BY DEF Order
<1>4. \A i, k \in 1 .. n : o[i] = o[k] => i = k
  BY DEF Order
<1>5. \A y \in 1 .. n : \E i \in 1 .. n : o[i] = y
  BY DEF Order
<1>6. /\ t.head = o[1] /\ t.tail = o[n]
      /\ \A i \in 1 .. n : t.next[o[i]] = IF i < n THEN o[i + 1] ELSE Nil
      /\ \A i \in 1 .. n : t.prev[o[i]] = IF 1 < i THEN o[i - 1] ELSE Nil
  BY DEF Order
<1>7. x \in Nodes /\ x # t.head /\ t.prev[x] = p /\ t.next[x] = q
  BY <1>n, <1>3, <1>4, <1>6
<1>1. /\ m \in Tape /\ m.head = x /\ m.tail = IF x = t.tail THEN p ELSE t.tail
      /\ \A y \in Nodes : m.next[y] = IF y = x THEN o[1]
                                      ELSE IF y = p THEN q ELSE t.next[y]
      /\ \A y \in Nodes : m.prev[y] = IF y = o[1] THEN x ELSE IF y = x THEN Nil
                                      ELSE IF y = q THEN p ELSE t.prev[y]
  <2> HIDE DEF x, p, q
  <2> QED BY <1>6, <1>7, MovePointers
<1> HIDE DEF m, r
<1>8. /\ r[1] = x
      /\ \A i \in 1 .. n : (i < j => i + 1 \in 1 .. n /\ r[i + 1] = o[i]) /\ (i > j => r[i] = o[i])
  BY <1>n, <1>2
<1>i. \A k \in 1 .. n : \/ k = 1
                        \/ \E i \in 1 .. n : i < j /\ k = i + 1
                        \/ k > j
  <2> SUFFICES ASSUME NEW k \in 1 .. n, k # 1, ~(k > j)
               PROVE  k - 1 \in 1 .. n /\ k - 1 < j /\ k = (k - 1) + 1
    OBVIOUS
  <2> QED BY <1>n
<1>9. \A k \in 1 .. n :
         \E i \in 1 .. n : r[k] = o[i] /\ (k = 1 => i = j) /\ (k > j => i = k)
                           /\ (k # 1 /\ k <= j => k = i + 1)
  <2> SUFFICES ASSUME NEW k \in 1 .. n
               PROVE  \E i \in 1 .. n : /\ r[k] = o[i] /\ (k = 1 => i = j)
                                        /\ (k > j => i = k) /\ (k # 1 /\ k <= j => k = i + 1)
    OBVIOUS
  <2>1. \E i \in 1 .. n : /\ Moved(o, j, n)[k] = o[i] /\ (k = 1 => i = j)
                          /\ (k > j => i = k) /\ (k # 1 /\ k <= j => k = i + 1)
    BY <1>n, MovedAt
  <2> QED BY <2>1 DEF r
<1>10. r \in [1 .. n -> 1 .. n]
  BY <1>2, <1>3, <1>9
<1>11. ASSUME NEW k \in 1 .. n, NEW l \in 1 .. n, r[k] = r[l] PROVE k = l
  <2>1. PICK a \in 1 .. n : r[k] = o[a] /\ (k = 1 => a = j) /\ (k > j => a = k)
                            /\ (k # 1 /\ k <= j => k = a + 1)
    BY <1>9
  <2>2. PICK b \in 1 .. n : r[l] = o[b] /\ (l = 1 => b = j) /\ (l > j => b = l)
                            /\ (l # 1 /\ l <= j => l = b + 1)
    BY <1>9
  <2>3. a = b
    BY <1>4, <1>11, <2>1, <2>2
  <2> QED BY <1>n, <2>1, <2>2, <2>3
<1>12. ASSUME NEW y \in 1 .. n PROVE \E i \in 1 .. n : r[i] = y
  <2>1. PICK i \in 1 .. n : o[i] = y
    BY <1>5
  <2> QED BY <1>n, <1>8, <2>1
<1>13. m.head = r[1] /\ m.tail = r[n]
  <2>1. CASE j = n
    <3>1. r[(n - 1) + 1] = o[n - 1]
      BY <1>n, <1>8, <2>1
    <3> QED BY <1>n, <1>1, <1>6, <1>8, <2>1, <3>1
  <2>2. CASE j # n
    <3>1. x # t.tail
      BY <1>n, <1>4, <1>6, <2>2
    <3> QED BY <1>n, <1>1, <1>6, <1>8, <2>2, <3>1
  <2> QED BY <2>1, <2>2
<1>14. ASSUME NEW i \in 1 .. n
       PROVE  /\ m.next[r[i]] = IF i < n THEN r[i + 1] ELSE Nil
              /\ m.prev[r[i]] = IF 1 < i THEN r[i - 1] ELSE Nil
  <2>1. CASE i = 1
    <3>1. r[1 + 1] = o[1] /\ x # o[1]
      BY <1>n, <1>4, <1>8
    <3>2. m.next[x] = o[1] /\ m.prev[x] = Nil
      BY <1>1, <1>7, <3>1
    <3> QED BY <1>n, <1>8, <2>1, <3>1, <3>2
  <2>2. ASSUME NEW k \in 1 .. n, k < j, i = k + 1
        PROVE  /\ m.next[r[i]] = IF i < n THEN r[i + 1] ELSE Nil
               /\ m.prev[r[i]] = IF 1 < i THEN r[i - 1] ELSE Nil
    <3>1. r[i] = o[k] /\ o[k] \in 1 .. n /\ o[k] \in Nodes /\ o[k] # x
      BY <1>n, <1>3, <1>4, <1>8, <2>2
    <3>2. m.next[r[i]] = IF i < n THEN r[i + 1] ELSE Nil
      <4>1. CASE k = j - 1
        <5>1. m.next[o[k]] = q
          BY <1>1, <3>1, <4>1
        <5>2. j < n => r[i + 1] = o[j + 1]
          BY <1>n, <1>8, <2>2, <4>1
        <5> QED BY <1>n, <2>2, <3>1, <4>1, <5>1, <5>2
      <4>2. CASE k # j - 1
        <5>1. o[k] # p
          BY <1>n, <1>4, <4>2
        <5>2. m.next[o[k]] = o[k + 1]
          BY <1>n, <1>1, <1>6, <2>2, <3>1, <5>1
        <5>3. r[i + 1] = o[k + 1] /\ i < n
          BY <1>n, <1>8, <2>2, <4>2
        <5> QED BY <3>1, <5>2, <5>3
      <4> QED BY <4>1, <4>2
    <3>3. m.prev[r[i]] = r[i - 1] /\ 1 < i
      <4>1. CASE k = 1
        BY <1>n, <1>1, <1>8, <2>2, <3>1, <4>1
      <4>2. CASE k # 1
        <5>1. o[k] # o[1] /\ o[k] # q
          <6>1. o[k] # o[1]
            BY <1>n, <1>4, <4>2
          <6>2. j < n => o[k] # o[j + 1]
            <7>1. j < n => j + 1 \in 1 .. n /\ k # j + 1
              BY <1>n, <2>2
            <7> QED BY <1>4, <7>1
          <6> QED BY <1>z, <3>1, <6>1, <6>2
        <5>2. m.prev[o[k]] = o[k - 1]
          BY <1>n, <1>1, <1>6, <3>1, <4>2, <5>1
        <5>3. k - 1 \in 1 .. n /\ k - 1 < j /\ (k - 1) + 1 = k /\ i - 1 = k
          BY <1>n, <2>2, <4>2
        <5>4. r[(k - 1) + 1] = o[k - 1]
          BY <1>8, <5>3
        <5> QED BY <1>n, <2>2, <3>1, <5>2, <5>3, <5>4
      <4> QED BY <4>1, <4>2
    <3> QED BY <3>2, <3>3
  <2>3. CASE i > j
    <3>1. r[i] = o[i] /\ o[i] \in Nodes /\ o[i] \in 1 .. n /\ o[i] # x /\ o[i] # p /\ o[i] # o[1]
      BY <1>n, <1>3, <1>4, <1>8, <2>3
    <3>2. i < n => r[i + 1] = o[i + 1]
      BY <1>n, <1>8, <2>3
    <3>3. m.next[o[i]] = IF i < n THEN o[i + 1] ELSE Nil
      BY <1>1, <1>6, <3>1
    <3>4. CASE i = j + 1
      <4>1. r[(j - 1) + 1] = o[j - 1]
        BY <1>n, <1>8
      <4>2. m.prev[o[i]] = p
        BY <1>n, <1>1, <3>1, <3>4
      <4> QED BY <1>n, <3>1, <3>2, <3>3, <3>4, <4>1, <4>2
    <3>5. CASE i # j + 1
      <4>1. r[i - 1] = o[i - 1]
        BY <1>n, <1>8, <2>3, <3>5
      <4>2. o[i] # q
        <5>1. j < n => o[i] # o[j + 1]
          BY <1>n, <1>4, <3>5
        <5> QED BY <1>z, <3>1, <5>1
      <4>3. m.prev[o[i]] = o[i - 1]
        BY <1>n, <1>1, <1>6, <2>3, <3>1, <4>2
      <4> QED BY <1>n, <2>3, <3>1, <3>2, <3>3, <4>1, <4>3
    <3> QED BY <3>4, <3>5
  <2> QED BY <1>i, <2>1, <2>2, <2>3
<1>15. Order(r, m, n)
  BY <1>10, <1>11, <1>12, <1>13, <1>14 DEF Order
<1> QED BY <1>1, <1>15 DEF m, r

\* Every non-empty set of natural numbers has a least element: induction over
\* positions is the search for the least one that fails.
LEMMA LeastNat ==
  ASSUME NEW T, T \subseteq Nat, T # {}
  PROVE  \E x \in T : \A y \in T : x <= y
<1> DEFINE R == OpToRel(<, Nat)
<1>1. IsWellFoundedOn(R, Nat)
  BY NatLessThanWellFounded, Zenon
<1>2. \E x \in T : \A y \in T : ~(<<y, x>> \in R)
  <2> HIDE DEF R
  <2> QED BY <1>1, WFMin, Zenon
<1>3. R = {ss \in Nat \X Nat : ss[1] < ss[2]}
  BY Zenon DEF OpToRel
<1> HIDE DEF R
<1>4. PICK x \in T : \A y \in T : ~(<<y, x>> \in R)
  BY <1>2
<1>5. ASSUME NEW y \in T PROVE x <= y
  <2>1. ~(<<y, x>> \in R) /\ y \in Nat /\ x \in Nat
    BY <1>4
  <2>2. ~(y < x)
    BY <1>3, <2>1
  <2> QED BY <2>1, <2>2
<1> QED BY <1>5

\* Reusing the node at the tail moves the last one to the head.
LEMMA RotateOrder ==
  ASSUME NEW t, t \in Tape, NEW n \in Nodes, 2 <= n, NEW o, Order(o, t, n)
  PROVE  /\ RotateTail(t) \in Tape
         /\ Order(Moved(o, n, n), RotateTail(t), n)
<1>n. n \in Nat /\ 1 .. n \subseteq Nodes
  BY CapacityAssumption DEF Nodes
<1>i. n \in 1 .. n /\ n \in 2 .. n /\ n - 1 \in 1 .. n /\ n # 1 /\ 1 < n /\ 1 \in 1 .. n
  BY <1>n
<1>1. /\ t.tail = o[n] /\ t.head = o[1]
      /\ \A i \in 1 .. n : t.next[o[i]] = IF i < n THEN o[i + 1] ELSE Nil
      /\ \A i \in 1 .. n : t.prev[o[i]] = IF 1 < i THEN o[i - 1] ELSE Nil
  BY DEF Order
<1>2. t.next[o[n]] = Nil /\ t.prev[o[n]] = o[n - 1]
  BY <1>i, <1>n, <1>1
<1>3. o[1] # o[n] /\ o[n - 1] \in 1 .. n /\ o[n] \in 1 .. n
  BY <1>i DEF Order
<1>4. RotateTail(t) = MoveToHead(t, o[n])
  BY <1>n, <1>1, <1>2, <1>3, RotateIsMove
<1> QED BY <1>4, <1>i, MoveOrder

\* Following next from the head visits the arrangement.
LEMMA NodeAtOrder ==
  ASSUME NEW o, allocated \in Nodes, Order(o, tape, allocated)
  PROVE  NodeAt = o
<1> DEFINE n == allocated
           Def(g) == [i \in 1 .. n |-> IF i = 1 THEN tape.head
                                       ELSE IF g[i - 1] = Nil THEN Nil ELSE tape.next[g[i - 1]]]
<1>n. n \in Nat /\ n >= 1
  BY DEF Nodes
<1>1. ASSUME NEW i \in 1 .. n, i # 1
      PROVE  o[i - 1] # Nil /\ tape.next[o[i - 1]] = o[i]
  <2>1. i - 1 \in 1 .. n /\ i - 1 < n /\ (i - 1) + 1 = i
    BY <1>n, <1>1
  <2>2. \A k \in 1 .. n : o[k] \in 1 .. n
    BY DEF Order
  <2>3. \A k \in 1 .. n : tape.next[o[k]] = IF k < n THEN o[k + 1] ELSE Nil
    BY DEF Order
  <2> QED BY <2>1, <2>2, <2>3 DEF Nil
<1>2. o[1] = tape.head /\ o \in [1 .. n -> 1 .. n]
  BY DEF Order
<1>3. o = Def(o)
  BY <1>1, <1>2
<1>4. NodeAt = CHOOSE g : g = Def(g)
  BY DEF NodeAt
<1>5. NodeAt = Def(NodeAt)
  <2> HIDE DEF Def
  <2> QED BY <1>3, <1>4
<1> SUFFICES ASSUME NEW k \in 1 .. n, NodeAt[k] # o[k] PROVE FALSE
  BY <1>2, <1>5
<1> DEFINE T == {i \in 1 .. n : NodeAt[i] # o[i]}
<1>6. T \subseteq Nat /\ T # {}
  OBVIOUS
<1>7. PICK l \in T : \A y \in T : l <= y
  <2> HIDE DEF T
  <2> QED BY <1>6, LeastNat
<1>8. NodeAt[l] = IF l = 1 THEN tape.head
                  ELSE IF NodeAt[l - 1] = Nil THEN Nil ELSE tape.next[NodeAt[l - 1]]
  BY <1>5
<1>9. l # 1
  BY <1>2, <1>8
<1>10. l - 1 \in 1 .. n /\ l - 1 \notin T
  BY <1>n, <1>7, <1>9
<1>11. NodeAt[l - 1] = o[l - 1]
  BY <1>10
<1> QED BY <1>1, <1>8, <1>9, <1>11

LEMMA OrderedTape ==
  ASSUME NEW o, allocated \in Nodes, Order(o, tape, allocated)
  PROVE  TapeWellFormed
<1>n. allocated \in Nat /\ 1 \in 1 .. allocated /\ allocated \in 1 .. allocated
  BY DEF Nodes
<1>1. \A i \in 1 .. allocated : NodeAt[i] = o[i]
  BY NodeAtOrder
<1>2. {NodeAt[i] : i \in 1 .. allocated} = 1 .. allocated
  <2>1. \A i \in 1 .. allocated : o[i] \in 1 .. allocated
    BY DEF Order
  <2>2. \A x \in 1 .. allocated : \E i \in 1 .. allocated : o[i] = x
    BY DEF Order
  <2> QED BY <1>1, <2>1, <2>2
<1>3. /\ tape.head = o[1] /\ tape.tail = o[allocated]
      /\ \A i \in 1 .. allocated : tape.next[o[i]] = IF i < allocated THEN o[i + 1] ELSE Nil
      /\ \A i \in 1 .. allocated : tape.prev[o[i]] = IF 1 < i THEN o[i - 1] ELSE Nil
  BY DEF Order
<1>4. ASSUME NEW i \in 2 .. allocated PROVE tape.prev[NodeAt[i]] = NodeAt[i - 1]
  <2>1. i \in 1 .. allocated /\ i - 1 \in 1 .. allocated /\ 1 < i
    BY <1>n
  <2> QED BY <1>1, <1>3, <2>1
<1> QED BY <1>n, <1>1, <1>2, <1>3, <1>4 DEF TapeWellFormed

-----------------------------------------------------------------------------
Indexed == {k \in Keys : items[k] # Nil}

\* The first activeCount nodes of arrangement o are the sessions of the index.
Live(o) ==
    /\ activeCount <= allocated
    /\ \A i \in 1 .. allocated :
          IF i <= activeCount
            THEN nodeKey[o[i]] \in Keys /\ items[nodeKey[o[i]]] = o[i]
            ELSE nodeKey[o[i]] = NoKey
    /\ \A i, j \in 1 .. activeCount : i <= j => heartbeat[o[i]] >= heartbeat[o[j]]
    /\ \A k \in Keys : items[k] # Nil =>
          items[k] \in 1 .. allocated /\ nodeKey[items[k]] = k
    /\ activeCount > 0 => \E i \in 1 .. activeCount : activeTail = o[i]
    /\ IsFiniteSet(Indexed) /\ Cardinality(Indexed) = activeCount

HeartbeatsPast == \A n \in Nodes : heartbeat[n] <= clock
CallsHaveKeys  == \A p \in Clients : pc[p] \in {"get", "set"} => arg[p] \in Keys

TapeInv ==
    /\ TypeOK /\ HeartbeatsPast /\ CallsHaveKeys
    /\ \E o : Order(o, tape, allocated) /\ (mu = "free" => Live(o))

LEMMA InitTape == Init => TapeInv
<1> SUFFICES ASSUME Init PROVE TapeInv
  OBVIOUS
<1>n. Capacity \in Nat /\ 2 <= Capacity /\ Capacity <= MaxNodes /\ MaxNodes \in Nat
      /\ 1 .. Capacity \subseteq Nodes
  BY CapacityAssumption DEF Nodes
<1>1. tape \in Tape
  <2>1. /\ tape.next = [n \in Nodes |-> IF n < Capacity THEN n + 1 ELSE Nil]
        /\ tape.prev = [n \in Nodes |-> IF n <= Capacity THEN n - 1 ELSE Nil]
        /\ tape.head = 1 /\ tape.tail = Capacity
    BY DEF Init
  <2>2. tape.next \in [Nodes -> NodeOrNil] /\ tape.prev \in [Nodes -> NodeOrNil]
    BY <1>n, <2>1 DEF Nodes, NodeOrNil, Nil
  <2>3. tape.head \in NodeOrNil /\ tape.tail \in NodeOrNil
    BY <1>n, <2>1 DEF Nodes, NodeOrNil
  <2>4. tape = [head |-> tape.head, tail |-> tape.tail, next |-> tape.next, prev |-> tape.prev]
    BY DEF Init
  <2> QED BY <2>2, <2>3, <2>4 DEF Tape
<1>2. TypeOK
  <2>1. /\ items \in [Keys -> NodeOrNil] /\ nodeKey \in [Nodes -> Keys \cup {NoKey}]
        /\ heartbeat \in [Nodes -> Nat] /\ activeTail \in NodeOrNil
    BY DEF Init, NodeOrNil
  <2>2. /\ pc \in [Clients -> {"idle", "get", "set", "wakeup"}]
        /\ arg \in [Clients -> Keys \cup {NoKey}]
        /\ wasEmpty \in [Clients -> BOOLEAN]
    BY DEF Init
  <2>3. mu \in {"free", "janitor"} /\ jpc \in {"top", "await", "sleep", "getLen", "exit"}
    BY DEF Init
  <2>4. /\ allocated \in Capacity .. MaxNodes /\ activeCount \in Nat /\ wakeupChan \in 0 .. 1
        /\ clock \in Nat /\ sleepUntil \in Nat
    BY <1>n DEF Init
  <2>5. cancelled \in BOOLEAN
    BY DEF Init
  <2> QED BY <1>1, <2>1, <2>2, <2>3, <2>4, <2>5, Zenon DEF TypeOK
<1>3. HeartbeatsPast /\ CallsHaveKeys
  BY DEF Init, HeartbeatsPast, CallsHaveKeys
<1> DEFINE o == [i \in 1 .. Capacity |-> i]
<1>4. Order(o, tape, allocated)
  <2>1. /\ tape.head = 1 /\ tape.tail = Capacity /\ allocated = Capacity
        /\ \A n \in Nodes : tape.next[n] = IF n < Capacity THEN n + 1 ELSE Nil
        /\ \A n \in Nodes : tape.prev[n] = IF n <= Capacity THEN n - 1 ELSE Nil
    BY DEF Init
  <2>2. o \in [1 .. Capacity -> 1 .. Capacity] /\ \A i \in 1 .. Capacity : o[i] = i
    OBVIOUS
  <2> HIDE DEF o
  <2>3. \A i \in 1 .. Capacity : tape.prev[o[i]] = IF 1 < i THEN o[i - 1] ELSE Nil
    BY <1>n, <2>1, <2>2 DEF Nil
  <2>4. \A i \in 1 .. Capacity : tape.next[o[i]] = IF i < Capacity THEN o[i + 1] ELSE Nil
    BY <1>n, <2>1, <2>2
  <2>5. \A i, j \in 1 .. Capacity : o[i] = o[j] => i = j
    BY <2>2
  <2>6. \A x \in 1 .. Capacity : \E i \in 1 .. Capacity : o[i] = x
    BY <2>2
  <2>7. tape.head = o[1] /\ tape.tail = o[Capacity]
    BY <1>n, <2>1, <2>2
  <2>8. Order(o, tape, Capacity)
    BY <2>2, <2>3, <2>4, <2>5, <2>6, <2>7, Zenon DEF Order
  <2> QED BY <2>1, <2>8
<1>5. Live(o)
  <2>1. Indexed = {}
    BY DEF Init, Indexed
  <2>2. IsFiniteSet(Indexed) /\ Cardinality(Indexed) = 0
    BY <2>1, FS_EmptySet
  <2> QED BY <1>n, <2>2 DEF Init, Live
<1> QED BY <1>2, <1>3, <1>4, <1>5 DEF TapeInv

\* Get and Set of a session in the index rearrange the live nodes.
LEMMA TouchTape ==
  ASSUME TapeInv, mu = "free", NEW k \in Keys, items[k] # Nil, Touch(items[k]),
         clock' = clock
  PROVE  /\ tape' \in Tape /\ heartbeat' \in [Nodes -> Nat] /\ HeartbeatsPast'
         /\ \E o : Order(o, tape', allocated') /\ Live(o)'
<1>1. PICK o : Order(o, tape, allocated) /\ Live(o)
  BY DEF TapeInv
<1> DEFINE nd == items[k]
<1>2. /\ tape \in Tape /\ heartbeat \in [Nodes -> Nat] /\ clock \in Nat /\ activeCount \in Nat
      /\ nodeKey \in [Nodes -> Keys \cup {NoKey}] /\ items \in [Keys -> NodeOrNil]
  BY DEF TapeInv, TypeOK
<1>n. allocated \in Nodes /\ allocated \in Nat /\ 1 .. allocated \subseteq Nodes
  BY CapacityAssumption DEF TapeInv, TypeOK, Nodes
<1>3. nd \in 1 .. allocated /\ nodeKey[nd] = k /\ nd \in Nodes
  BY <1>1, <1>n DEF Live
<1>4. /\ heartbeat' = [heartbeat EXCEPT ![nd] = clock] /\ tape' = MoveToHead(tape, nd)
      /\ UNCHANGED <<items, nodeKey, allocated, activeCount, activeTail>>
  BY DEF Touch
<1>5. PICK j \in 1 .. allocated : o[j] = nd
  BY <1>1, <1>3 DEF Order
<1>6. j <= activeCount
  BY <1>1, <1>2, <1>3, <1>5, KeysAssumption DEF Live
<1>7. /\ heartbeat' \in [Nodes -> Nat]
      /\ \A n \in Nodes : heartbeat'[n] = IF n = nd THEN clock ELSE heartbeat[n]
  BY <1>2, <1>3, <1>4
<1>8. HeartbeatsPast'
  BY <1>2, <1>7 DEF TapeInv, HeartbeatsPast
<1>9. /\ \A i \in 1 .. allocated : o[i] \in Nodes
      /\ \A a, b \in 1 .. allocated : o[a] = o[b] => a = b
  BY <1>1, <1>n DEF Order
<1>10. Indexed' = Indexed
  BY <1>4 DEF Indexed
<1>11. CASE j = 1
  <2>1. tape' = tape
    BY <1>1, <1>4, <1>5, <1>11 DEF MoveToHead, Order
  <2>2. \A a, b \in 1 .. activeCount : a <= b => heartbeat'[o[a]] >= heartbeat'[o[b]]
    <3> SUFFICES ASSUME NEW a \in 1 .. activeCount, NEW b \in 1 .. activeCount, a <= b
                 PROVE  heartbeat'[o[a]] >= heartbeat'[o[b]]
      OBVIOUS
    <3>1. a \in 1 .. allocated /\ b \in 1 .. allocated
      BY <1>1, <1>2, <1>n DEF Live
    <3>2. o[a] \in Nodes /\ o[b] \in Nodes /\ (o[b] = nd => b = 1) /\ (o[b] = nd => o[a] = nd)
      BY <1>5, <1>9, <1>11, <3>1
    <3>3. heartbeat[o[a]] >= heartbeat[o[b]]
      BY <1>1 DEF Live
    <3>4. heartbeat[o[b]] <= clock /\ heartbeat[o[b]] \in Nat /\ heartbeat[o[a]] \in Nat
      BY <1>2, <3>2 DEF TapeInv, HeartbeatsPast
    <3> QED BY <1>2, <1>7, <3>2, <3>3, <3>4
  <2>3. Live(o)'
    BY <1>1, <1>4, <1>10, <2>2 DEF Live
  <2> QED BY <1>1, <1>2, <1>4, <1>7, <1>8, <2>1, <2>3
<1>12. CASE j # 1
  <2>j. j \in 2 .. allocated
    BY <1>n, <1>12
  <2>1. PICK r : r = Moved(o, j, allocated)
    OBVIOUS
  <2>2. tape' \in Tape /\ Order(r, tape', allocated')
    BY <1>1, <1>2, <1>4, <1>5, <1>n, <2>1, <2>j, MoveOrder
  <2>3. \A l \in 1 .. allocated :
          \E i \in 1 .. allocated : /\ r[l] = o[i] /\ (l = 1 => i = j) /\ (l > j => i = l)
                                    /\ (l # 1 /\ l <= j => l = i + 1)
    BY <1>n, <2>1, <2>j, MovedAt
  <2>4. ASSUME NEW l \in 1 .. allocated
        PROVE  IF l <= activeCount
                 THEN nodeKey[r[l]] \in Keys /\ items[nodeKey[r[l]]] = r[l]
                 ELSE nodeKey[r[l]] = NoKey
    <3>1. PICK i \in 1 .. allocated :
            /\ r[l] = o[i] /\ (l = 1 => i = j) /\ (l > j => i = l)
            /\ (l # 1 /\ l <= j => l = i + 1)
      BY <2>3
    <3>2. i <= activeCount <=> l <= activeCount
      BY <1>2, <1>6, <1>n, <2>j, <3>1
    <3> QED BY <1>1, <3>1, <3>2 DEF Live
  <2>5. ASSUME NEW a \in 1 .. activeCount, NEW b \in 1 .. activeCount, a <= b
        PROVE  heartbeat'[r[a]] >= heartbeat'[r[b]]
    <3>1. a \in 1 .. allocated /\ b \in 1 .. allocated
      BY <1>1, <1>2, <1>n DEF Live
    <3>2. PICK c \in 1 .. allocated :
            /\ r[a] = o[c] /\ (a = 1 => c = j) /\ (a > j => c = a)
            /\ (a # 1 /\ a <= j => a = c + 1)
      BY <2>3, <3>1
    <3>3. PICK d \in 1 .. allocated :
            /\ r[b] = o[d] /\ (b = 1 => d = j) /\ (b > j => d = b)
            /\ (b # 1 /\ b <= j => b = d + 1)
      BY <2>3, <3>1
    <3>4. /\ o[c] \in Nodes /\ o[d] \in Nodes
          /\ heartbeat[o[c]] \in Nat /\ heartbeat[o[d]] \in Nat /\ heartbeat[o[d]] <= clock
      BY <1>2, <1>9 DEF TapeInv, HeartbeatsPast
    <3>5. CASE a = 1
      BY <1>2, <1>5, <1>7, <3>2, <3>3, <3>4, <3>5
    <3>6. CASE a # 1
      <4>1. c # j /\ d # j /\ c <= d /\ c \in 1 .. activeCount /\ d \in 1 .. activeCount
        BY <1>2, <1>n, <2>j, <2>5, <3>1, <3>2, <3>3, <3>6
      <4>2. o[c] # nd /\ o[d] # nd
        BY <1>5, <1>9, <4>1
      <4>3. heartbeat[o[c]] >= heartbeat[o[d]]
        BY <1>1, <4>1 DEF Live
      <4> QED BY <1>7, <3>2, <3>3, <3>4, <4>2, <4>3
    <3> QED BY <3>5, <3>6
  <2>6. activeCount > 0 => \E i \in 1 .. activeCount : activeTail = r[i]
    <3> SUFFICES ASSUME activeCount > 0 PROVE \E i \in 1 .. activeCount : activeTail = r[i]
      OBVIOUS
    <3>1. PICK i \in 1 .. activeCount : activeTail = o[i]
      BY <1>1 DEF Live
    <3>2. i \in 1 .. allocated
      BY <1>1, <1>2, <1>n DEF Live
    <3>3. PICK l \in 1 .. allocated : r[l] = o[i]
      <4>1. o[i] \in 1 .. allocated
        BY <1>1, <3>2 DEF Order
      <4> QED BY <1>4, <2>2, <4>1 DEF Order
    <3>4. nodeKey[r[l]] # NoKey
      BY <1>1, <3>1, <3>2, <3>3, KeysAssumption DEF Live
    <3> QED BY <1>2, <1>n, <2>4, <3>1, <3>3, <3>4
  <2>7. Live(r)'
    BY <1>1, <1>4, <1>10, <2>4, <2>5, <2>6 DEF Live
  <2> QED BY <1>7, <1>8, <2>2, <2>7
<1> QED BY <1>11, <1>12

\* A new session of key k takes node x, which no session holds, and turns
\* arrangement o into r, of m nodes, by going in front of the others.
Takes(o, r, k, x, m) ==
    /\ Order(o, tape, allocated) /\ Live(o)
    /\ k \in Keys /\ items[k] = Nil
    /\ m \in Nodes /\ allocated' = m
    /\ allocated <= m /\ m <= allocated + 1 /\ activeCount < m
    /\ x \in Nodes /\ x \in 1 .. m
    /\ \A i \in 1 .. m - 1 : o[i] # x
    /\ \A y \in Keys : items[y] # x
    /\ r[1] = x /\ \A i \in 1 .. m - 1 : r[i + 1] = o[i]
    /\ Occupy(x, k) /\ items' = [items EXCEPT ![k] = x] /\ clock' = clock
    /\ activeTail' = IF activeCount = 0 THEN x ELSE activeTail

LEMMA OccupyLive ==
  ASSUME TapeInv, NEW o, NEW r, NEW k, NEW x, NEW m, Takes(o, r, k, x, m)
  PROVE  Live(r)' /\ HeartbeatsPast' /\ heartbeat' \in [Nodes -> Nat]
         /\ nodeKey' \in [Nodes -> Keys \cup {NoKey}] /\ items' \in [Keys -> NodeOrNil]
         /\ activeCount' \in Nat
<1>0. /\ Order(o, tape, allocated) /\ Live(o)
      /\ k \in Keys /\ items[k] = Nil
      /\ m \in Nodes /\ allocated' = m
      /\ allocated <= m /\ m <= allocated + 1 /\ activeCount < m
      /\ x \in Nodes /\ x \in 1 .. m
      /\ \A i \in 1 .. m - 1 : o[i] # x
      /\ \A y \in Keys : items[y] # x
      /\ r[1] = x /\ \A i \in 1 .. m - 1 : r[i + 1] = o[i]
      /\ Occupy(x, k) /\ items' = [items EXCEPT ![k] = x] /\ clock' = clock
      /\ activeTail' = IF activeCount = 0 THEN x ELSE activeTail
  BY DEF Takes
<1> USE <1>0
<1>1. /\ heartbeat \in [Nodes -> Nat] /\ clock \in Nat /\ activeCount \in Nat
      /\ nodeKey \in [Nodes -> Keys \cup {NoKey}] /\ items \in [Keys -> NodeOrNil]
  BY DEF TapeInv, TypeOK
<1>n. /\ allocated \in Nat /\ 1 .. allocated \subseteq Nodes
      /\ m \in Nat /\ m >= 1 /\ 1 .. m \subseteq Nodes
      /\ activeCount <= m - 1 /\ x # Nil
  <2>1. allocated \in Capacity .. MaxNodes
    BY DEF TapeInv, TypeOK
  <2>2. allocated \in Nat /\ 1 .. allocated \subseteq Nodes
    BY <2>1, CapacityAssumption DEF Nodes
  <2>3. m \in Nat /\ m >= 1 /\ 1 .. m \subseteq Nodes
    BY CapacityAssumption DEF Nodes
  <2>4. activeCount <= m - 1
    BY <1>1, <2>3
  <2> QED BY <2>2, <2>3, <2>4 DEF Nodes, Nil
<1>2. /\ nodeKey' = [nodeKey EXCEPT ![x] = k] /\ heartbeat' = [heartbeat EXCEPT ![x] = clock]
      /\ activeCount' = activeCount + 1
  BY DEF Occupy
<1>3. /\ heartbeat' \in [Nodes -> Nat] /\ nodeKey' \in [Nodes -> Keys \cup {NoKey}]
      /\ items' \in [Keys -> NodeOrNil] /\ activeCount' \in Nat
  BY <1>1, <1>2 DEF NodeOrNil
<1>4. /\ \A n \in Nodes : heartbeat'[n] = IF n = x THEN clock ELSE heartbeat[n]
      /\ \A n \in Nodes : nodeKey'[n] = IF n = x THEN k ELSE nodeKey[n]
      /\ \A y \in Keys : items'[y] = IF y = k THEN x ELSE items[y]
  BY <1>1, <1>2
<1>5. HeartbeatsPast'
  BY <1>1, <1>4 DEF TapeInv, HeartbeatsPast
<1>6. \A i \in 1 .. m - 1 : i \in 1 .. allocated /\ o[i] \in Nodes /\ o[i] # x
  <2>1. \A i \in 1 .. m - 1 : i \in 1 .. allocated
    BY <1>n
  <2>2. \A i \in 1 .. allocated : o[i] \in 1 .. allocated
    BY DEF Order
  <2> QED BY <1>n, <2>1, <2>2
<1>i. \A l \in 1 .. m : l = 1 \/ (l - 1 \in 1 .. m - 1 /\ r[l] = o[l - 1])
  <2> SUFFICES ASSUME NEW l \in 1 .. m, l # 1 PROVE l - 1 \in 1 .. m - 1 /\ r[l] = o[l - 1]
    OBVIOUS
  <2>1. l - 1 \in 1 .. m - 1 /\ (l - 1) + 1 = l
    BY <1>n
  <2> QED BY <2>1
<1>7. ASSUME NEW l \in 1 .. m
      PROVE  IF l <= activeCount'
               THEN nodeKey'[r[l]] \in Keys /\ items'[nodeKey'[r[l]]] = r[l]
               ELSE nodeKey'[r[l]] = NoKey
  <2>1. CASE l = 1
    BY <1>1, <1>2, <1>4, <2>1
  <2>2. CASE l # 1
    <3> DEFINE i == l - 1
    <3>1. i \in 1 .. m - 1 /\ r[l] = o[i]
      BY <1>i, <2>2
    <3>2. i \in 1 .. allocated /\ o[i] \in Nodes /\ o[i] # x
      BY <1>6, <3>1
    <3>3. nodeKey'[r[l]] = nodeKey[o[i]]
      BY <1>4, <3>1, <3>2
    <3>4. IF i <= activeCount THEN nodeKey[o[i]] \in Keys /\ items[nodeKey[o[i]]] = o[i]
                              ELSE nodeKey[o[i]] = NoKey
      BY <3>2 DEF Live
    <3>5. i <= activeCount <=> l <= activeCount'
      BY <1>1, <1>2, <1>n
    <3>6. CASE i <= activeCount
      <4>1. nodeKey[o[i]] # k
        BY <1>n, <3>2, <3>4, <3>6 DEF Nodes, Nil
      <4> QED BY <1>4, <3>1, <3>3, <3>4, <3>5, <3>6, <4>1
    <3>7. CASE ~(i <= activeCount)
      BY <3>3, <3>4, <3>5, <3>7
    <3> QED BY <3>6, <3>7
  <2> QED BY <2>1, <2>2
<1>8. ASSUME NEW a \in 1 .. activeCount', NEW b \in 1 .. activeCount', a <= b
      PROVE  heartbeat'[r[a]] >= heartbeat'[r[b]]
  <2>0. a \in 1 .. m /\ b \in 1 .. m
    BY <1>1, <1>2, <1>n
  <2>1. ASSUME NEW l \in 1 .. m, l # 1
        PROVE  r[l] = o[l - 1] /\ r[l] \in Nodes /\ r[l] # x /\ l - 1 \in 1 .. m - 1
    BY <1>6, <1>i, <2>1
  <2>2. CASE a = 1
    <3>1. r[b] \in Nodes
      BY <2>0, <2>1
    <3>2. heartbeat'[r[b]] <= clock
      BY <1>5, <3>1 DEF HeartbeatsPast
    <3> QED BY <1>1, <1>3, <1>4, <2>2, <3>1, <3>2
  <2>3. CASE a # 1
    <3>1. b # 1 /\ a - 1 \in 1 .. activeCount /\ b - 1 \in 1 .. activeCount /\ a - 1 <= b - 1
      BY <1>1, <1>2, <1>8, <2>3
    <3>2. heartbeat[o[a - 1]] >= heartbeat[o[b - 1]]
      BY <3>1 DEF Live
    <3>3. /\ r[a] = o[a - 1] /\ r[a] \in Nodes /\ r[a] # x
          /\ r[b] = o[b - 1] /\ r[b] \in Nodes /\ r[b] # x
      BY <2>0, <2>1, <2>3, <3>1
    <3>4. heartbeat'[r[a]] = heartbeat[o[a - 1]] /\ heartbeat'[r[b]] = heartbeat[o[b - 1]]
      BY <1>4, <3>3
    <3> QED BY <3>2, <3>4
  <2> QED BY <2>2, <2>3
<1>9. ASSUME NEW y \in Keys, items'[y] # Nil
      PROVE  items'[y] \in 1 .. m /\ nodeKey'[items'[y]] = y
  <2>1. CASE y = k
    BY <1>4, <2>1
  <2>2. CASE y # k
    <3>1. items'[y] = items[y] /\ items[y] # x
      BY <1>4, <2>2
    <3>2. items[y] \in 1 .. allocated /\ nodeKey[items[y]] = y
      BY <1>9, <3>1 DEF Live
    <3> QED BY <1>4, <1>n, <3>1, <3>2
  <2> QED BY <2>1, <2>2
<1>10. \E i \in 1 .. activeCount' : activeTail' = r[i]
  <2>1. CASE activeCount = 0
    BY <1>2, <2>1
  <2>2. CASE activeCount # 0
    <3>1. PICK i \in 1 .. activeCount : activeTail = o[i]
      BY <1>1, <2>2 DEF Live
    <3>2. i \in 1 .. m - 1 /\ i + 1 \in 1 .. activeCount'
      BY <1>1, <1>2, <1>n
    <3> QED BY <2>2, <3>1, <3>2
  <2> QED BY <2>1, <2>2
<1>11. IsFiniteSet(Indexed') /\ Cardinality(Indexed') = activeCount'
  <2>1. Indexed' = Indexed \cup {k} /\ k \notin Indexed
    BY <1>4, <1>n DEF Indexed
  <2>2. IsFiniteSet(Indexed) /\ Cardinality(Indexed) = activeCount
    BY DEF Live
  <2> QED BY <1>2, <2>1, <2>2, FS_AddElement
<1>12. activeCount' <= m
  BY <1>1, <1>2, <1>n
<1>13. Live(r)'
  BY <1>7, <1>8, <1>9, <1>10, <1>11, <1>12 DEF Live
<1> QED BY <1>3, <1>5, <1>13

LEMMA SetReuseTape ==
  ASSUME TapeInv, NEW p \in Clients, SetReuse(p) PROVE TapeInv'
<1> DEFINE k == arg[p]
           x == tape.tail
<1>1. PICK o : Order(o, tape, allocated) /\ Live(o)
  BY DEF TapeInv, SetReuse
<1>2. TypeOK /\ HeartbeatsPast /\ CallsHaveKeys
  BY DEF TapeInv
<1>3. k \in Keys /\ items[k] = Nil
  BY <1>2 DEF SetReuse, CallsHaveKeys
<1>n. /\ allocated \in Nat /\ allocated \in Nodes /\ 2 <= allocated
      /\ activeCount \in Nat /\ activeCount < allocated
      /\ 1 .. allocated \subseteq Nodes
  <2>1. allocated \in Capacity .. MaxNodes /\ activeCount \in Nat /\ activeCount < Capacity
    BY <1>2 DEF TypeOK, SetReuse
  <2> QED BY <2>1, CapacityAssumption DEF Nodes
<1>i. allocated \in 1 .. allocated /\ allocated \in 2 .. allocated /\ allocated - 1 \in 1 .. allocated
      /\ allocated # 1 /\ 1 < allocated /\ 1 \in 1 .. allocated
  BY <1>n
<1>4. x = o[allocated] /\ x \in 1 .. allocated /\ x \in Nodes
  BY <1>1, <1>i, <1>n DEF Order
<1>5. nodeKey[x] = NoKey
  BY <1>1, <1>4, <1>i, <1>n DEF Live
<1>6. /\ items' = [items EXCEPT ![k] = x]
      /\ Occupy(x, k) /\ tape' = RotateTail(tape) /\ clock' = clock /\ allocated' = allocated
      /\ activeTail' = IF activeCount = 0 THEN x ELSE activeTail
      /\ wasEmpty' = [wasEmpty EXCEPT ![p] = activeCount = 0]
      /\ pc' = [pc EXCEPT ![p] = "wakeup"] /\ UNCHANGED <<mu, wakeupChan, cancelled, janitor, arg>>
  <2>1. items \in [Keys -> NodeOrNil]
    BY <1>2 DEF TypeOK
  <2>2. items' = [y \in Keys |-> IF y = k THEN x ELSE IF y = nodeKey[x] THEN Nil ELSE items[y]]
    BY DEF SetReuse
  <2>3. items' = [items EXCEPT ![k] = x]
    <3> HIDE DEF k, x
    <3> QED BY <1>5, <2>1, <2>2, KeysAssumption
  <2> QED BY <2>3 DEF SetReuse, Goto
<1>8. PICK r : r = Moved(o, allocated, allocated)
  OBVIOUS
<1>9. tape' \in Tape /\ Order(r, tape', allocated')
  BY <1>1, <1>2, <1>6, <1>8, <1>n, RotateOrder DEF TypeOK
<1>10. r[1] = x
  BY <1>4, <1>8, <1>i DEF Moved
<1>11. \A i \in 1 .. allocated - 1 : r[i + 1] = o[i] /\ o[i] # x
  <2> SUFFICES ASSUME NEW i \in 1 .. allocated - 1 PROVE r[i + 1] = o[i] /\ o[i] # x
    OBVIOUS
  <2>1. i \in 1 .. allocated /\ i + 1 \in 1 .. allocated /\ i # allocated /\ i + 1 # 1
        /\ i + 1 <= allocated /\ (i + 1) - 1 = i
    BY <1>n
  <2>2. r[i + 1] = o[(i + 1) - 1]
    BY <1>8, <2>1 DEF Moved
  <2> QED BY <1>1, <1>4, <1>i, <2>1, <2>2 DEF Order
<1>12. \A y \in Keys : items[y] # x
  BY <1>1, <1>4, <1>5, KeysAssumption DEF Live, Nodes, Nil
<1>13. /\ Live(r)' /\ HeartbeatsPast' /\ heartbeat' \in [Nodes -> Nat]
       /\ nodeKey' \in [Nodes -> Keys \cup {NoKey}] /\ items' \in [Keys -> NodeOrNil]
       /\ activeCount' \in Nat
  <2>1. PICK m : m = allocated
    OBVIOUS
  <2> HIDE DEF k, x
  <2>2. /\ m \in Nodes /\ allocated' = m /\ allocated <= m /\ m <= allocated + 1
        /\ activeCount < m /\ x \in Nodes /\ x \in 1 .. m
    BY <1>4, <1>6, <1>n, <2>1
  <2>3. (\A i \in 1 .. m - 1 : o[i] # x) /\ (\A i \in 1 .. m - 1 : r[i + 1] = o[i])
    BY <1>11, <2>1
  <2>4. /\ Occupy(x, k) /\ items' = [items EXCEPT ![k] = x] /\ clock' = clock
        /\ activeTail' = IF activeCount = 0 THEN x ELSE activeTail
    BY <1>6
  <2>5. Takes(o, r, k, x, m)
    BY <1>1, <1>3, <1>10, <1>12, <2>2, <2>3, <2>4 DEF Takes
  <2> QED BY <2>5, OccupyLive
<1>14. CallsHaveKeys'
  BY <1>2, <1>6 DEF CallsHaveKeys, TypeOK
<1>15. activeTail' \in NodeOrNil
  BY <1>2, <1>4, <1>6 DEF TypeOK, NodeOrNil
<1>16. /\ wasEmpty' \in [Clients -> BOOLEAN]
       /\ pc' \in [Clients -> {"idle", "get", "set", "wakeup"}]
  BY <1>2, <1>6 DEF TypeOK
<1>17. TypeOK'
  BY <1>2, <1>6, <1>9, <1>13, <1>15, <1>16 DEF TypeOK, janitor
<1> QED BY <1>9, <1>13, <1>14, <1>17 DEF TapeInv

LEMMA SetGrowTape ==
  ASSUME TapeInv, NEW p \in Clients, SetGrow(p) PROVE TapeInv'
<1> DEFINE k == arg[p]
           x == allocated + 1
<1>1. PICK o : Order(o, tape, allocated) /\ Live(o)
  BY DEF TapeInv, SetGrow
<1>2. TypeOK /\ HeartbeatsPast /\ CallsHaveKeys
  BY DEF TapeInv
<1>3. k \in Keys /\ items[k] = Nil
  BY <1>2 DEF SetGrow, CallsHaveKeys
<1>n. /\ allocated \in Nat /\ allocated \in Nodes /\ x \in Nodes /\ activeCount \in Nat
      /\ activeCount > 0 /\ activeCount < x /\ allocated <= x /\ x <= allocated + 1
      /\ x \in 1 .. x /\ x - 1 = allocated /\ x \in Capacity .. MaxNodes
  <2>1. /\ allocated \in Capacity .. MaxNodes /\ activeCount \in Nat /\ activeCount >= Capacity
        /\ allocated < MaxNodes
    BY <1>2 DEF TypeOK, SetGrow
  <2>2. activeCount <= allocated
    BY <1>1 DEF Live
  <2> QED BY <2>1, <2>2, CapacityAssumption DEF Nodes
<1>6. /\ items' = [items EXCEPT ![k] = x]
      /\ Occupy(x, k) /\ tape' = PushHead(tape, x) /\ clock' = clock /\ allocated' = x
      /\ activeTail' = IF activeCount = 0 THEN x ELSE activeTail
      /\ wasEmpty' = [wasEmpty EXCEPT ![p] = activeCount = 0]
      /\ pc' = [pc EXCEPT ![p] = "wakeup"]
      /\ UNCHANGED <<mu, activeTail, wakeupChan, cancelled, janitor, arg>>
  BY <1>n DEF SetGrow, Goto
<1>8. PICK r : r = Pushed(o, allocated)
  OBVIOUS
<1>9. tape' \in Tape /\ Order(r, tape', allocated')
  BY <1>1, <1>2, <1>6, <1>8, <1>n, PushOrder DEF TypeOK
<1>10. r[1] = x
  BY <1>8, <1>n DEF Pushed
<1>11. \A i \in 1 .. x - 1 : r[i + 1] = o[i] /\ o[i] # x
  <2> SUFFICES ASSUME NEW i \in 1 .. allocated PROVE r[i + 1] = o[i] /\ o[i] # x
    BY <1>n
  <2>1. i + 1 \in 1 .. allocated + 1 /\ i + 1 # 1 /\ (i + 1) - 1 = i
    BY <1>n
  <2>2. r[i + 1] = o[(i + 1) - 1]
    BY <1>8, <2>1 DEF Pushed
  <2>3. o[i] \in 1 .. allocated
    BY <1>1 DEF Order
  <2> QED BY <1>n, <2>1, <2>2, <2>3
<1>12. \A y \in Keys : items[y] # x
  BY <1>1, <1>n DEF Live, Nil
<1>13. /\ Live(r)' /\ HeartbeatsPast' /\ heartbeat' \in [Nodes -> Nat]
       /\ nodeKey' \in [Nodes -> Keys \cup {NoKey}] /\ items' \in [Keys -> NodeOrNil]
       /\ activeCount' \in Nat
  <2>1. PICK m : m = x
    OBVIOUS
  <2>2. /\ m \in Nodes /\ allocated' = m /\ allocated <= m /\ m <= allocated + 1
        /\ activeCount < m /\ x \in Nodes /\ x \in 1 .. m
    BY <1>6, <1>n, <2>1
  <2> HIDE DEF k, x
  <2>3. (\A i \in 1 .. m - 1 : o[i] # x) /\ (\A i \in 1 .. m - 1 : r[i + 1] = o[i])
    BY <1>11, <2>1
  <2>4. /\ Occupy(x, k) /\ items' = [items EXCEPT ![k] = x] /\ clock' = clock
        /\ activeTail' = IF activeCount = 0 THEN x ELSE activeTail
    BY <1>6
  <2>5. Takes(o, r, k, x, m)
    BY <1>1, <1>3, <1>10, <1>12, <2>2, <2>3, <2>4 DEF Takes
  <2> QED BY <2>5, OccupyLive
<1>14. CallsHaveKeys'
  BY <1>2, <1>6 DEF CallsHaveKeys, TypeOK
<1>16. /\ wasEmpty' \in [Clients -> BOOLEAN]
       /\ pc' \in [Clients -> {"idle", "get", "set", "wakeup"}]
  BY <1>2, <1>6 DEF TypeOK
<1>17. TypeOK'
  BY <1>2, <1>6, <1>9, <1>13, <1>16, <1>n DEF TypeOK, janitor
<1> QED BY <1>9, <1>13, <1>14, <1>17 DEF TapeInv

LEMMA NextTape == TapeInv /\ [Next]_vars => TapeInv'
<1> SUFFICES ASSUME TapeInv, [Next]_vars PROVE TapeInv'
  OBVIOUS
<1>1. PICK o : Order(o, tape, allocated) /\ (mu = "free" => Live(o))
  BY DEF TapeInv
<1>2. TypeOK /\ HeartbeatsPast /\ CallsHaveKeys
  BY DEF TapeInv
<1>3. ASSUME UNCHANGED cache PROVE Order(o, tape', allocated') /\ (Live(o) => Live(o)')
  BY <1>1, <1>3 DEF cache, Live, Indexed
\* The steps that leave the cache and the mutex alone.
<1>4. ASSUME UNCHANGED <<cache, mu>>, TypeOK', HeartbeatsPast', CallsHaveKeys'
      PROVE  TapeInv'
  BY <1>1, <1>3, <1>4 DEF TapeInv
\* Get or Set of a session in the index.
<1>5. ASSUME NEW p \in Clients, mu = "free", arg[p] \in Keys, items[arg[p]] # Nil,
             Touch(items[arg[p]]), Goto(p, "idle"),
             UNCHANGED <<mu, wakeupChan, clock, cancelled, janitor, arg, wasEmpty>>
      PROVE  TapeInv'
  <2>1. /\ tape' \in Tape /\ heartbeat' \in [Nodes -> Nat] /\ HeartbeatsPast'
        /\ \E r : Order(r, tape', allocated') /\ Live(r)'
    BY <1>5, TouchTape
  <2>2. pc' \in [Clients -> {"idle", "get", "set", "wakeup"}] /\ CallsHaveKeys'
    BY <1>2, <1>5 DEF Goto, TypeOK, CallsHaveKeys
  <2>3. TypeOK'
    BY <1>2, <1>5, <2>1, <2>2 DEF TypeOK, Touch, janitor
  <2> QED BY <2>1, <2>2, <2>3 DEF TapeInv
<1>6. ASSUME NEW p \in Clients, NEW op \in {"get", "set"}, NEW k \in Keys, Call(p, op, k)
      PROVE  TapeInv'
  <2>1. TypeOK' /\ HeartbeatsPast' /\ CallsHaveKeys'
    BY <1>2, <1>6 DEF Call, Goto, TypeOK, HeartbeatsPast, CallsHaveKeys, cache, janitor
  <2> QED BY <1>4, <1>6, <2>1 DEF Call
<1>7. ASSUME NEW p \in Clients, Get(p) PROVE TapeInv'
  <2>1. arg[p] \in Keys
    BY <1>2, <1>7 DEF Get, CallsHaveKeys
  <2>2. CASE items[arg[p]] # Nil
    BY <1>5, <1>7, <2>1, <2>2 DEF Get
  <2>3. CASE items[arg[p]] = Nil
    <3>1. TypeOK' /\ HeartbeatsPast' /\ CallsHaveKeys'
      BY <1>2, <1>7, <2>3
         DEF Get, Goto, TypeOK, HeartbeatsPast, CallsHaveKeys, cache, janitor
    <3> QED BY <1>4, <1>7, <2>3, <3>1 DEF Get
  <2> QED BY <2>2, <2>3
<1>8. ASSUME NEW p \in Clients, SetExisting(p) PROVE TapeInv'
  <2>1. arg[p] \in Keys
    BY <1>2, <1>8 DEF SetExisting, CallsHaveKeys
  <2> QED BY <1>5, <1>8, <2>1 DEF SetExisting
<1>9. ASSUME NEW p \in Clients, TriggerWakeup(p) PROVE TapeInv'
  <2>1. TypeOK' /\ HeartbeatsPast' /\ CallsHaveKeys'
    BY <1>2, <1>9 DEF TriggerWakeup, Signal, Goto, TypeOK, HeartbeatsPast, CallsHaveKeys,
                      cache, janitor
  <2> QED BY <1>4, <1>9, <2>1 DEF TriggerWakeup
<1>10. CASE JanitorIdle
  <2>1. Live(o) /\ activeCount = 0
    <3>1. Live(o) /\ (activeCount = 0 \/ activeTail = Nil)
      BY <1>1, <1>10 DEF JanitorIdle, Nothing
    <3>2. activeCount \in Nat /\ allocated \in Nat /\ activeCount <= allocated
      BY <1>2, <3>1, CapacityAssumption DEF TypeOK, Live
    <3>3. ASSUME activeCount > 0 PROVE FALSE
      <4>1. PICK i \in 1 .. activeCount : activeTail = o[i]
        BY <3>1, <3>3 DEF Live
      <4>2. i \in 1 .. allocated
        BY <3>2
      <4>3. o[i] \in 1 .. allocated
        BY <1>1, <4>2 DEF Order
      <4> QED BY <3>1, <3>3, <4>1, <4>3 DEF Nil
    <3> QED BY <3>1, <3>2, <3>3
  <2>2. Live(o)' /\ Order(o, tape', allocated')
    <3>1. Indexed' = Indexed
      BY <1>10 DEF JanitorIdle, Indexed
    <3> QED BY <1>1, <1>10, <2>1, <3>1 DEF JanitorIdle, Live
  <2>3. TypeOK' /\ HeartbeatsPast' /\ CallsHaveKeys'
    BY <1>2, <1>10 DEF JanitorIdle, TypeOK, HeartbeatsPast, CallsHaveKeys, NodeOrNil, clients
  <2> QED BY <2>2, <2>3 DEF TapeInv
<1>11. CASE JanitorExpire
  <2>1. activeCount' \in Nat /\ items' \in [Keys -> NodeOrNil]
    <3>1. /\ activeCount \in Nat /\ activeCount # 0 /\ activeCount' = activeCount - 1
          /\ items \in [Keys -> NodeOrNil]
          /\ items' = [items EXCEPT ![nodeKey[activeTail]] = Nil]
      BY <1>2, <1>11 DEF JanitorExpire, Nothing, TypeOK
    <3>2. activeCount' \in Nat
      BY <3>1
    <3>3. Nil \in NodeOrNil
      BY DEF NodeOrNil
    <3>4. items' \in [Keys -> NodeOrNil]
      BY <3>1, <3>3
    <3> QED BY <3>2, <3>4
  <2>2. TypeOK' /\ HeartbeatsPast' /\ CallsHaveKeys'
    BY <1>2, <1>11, <2>1 DEF JanitorExpire, TypeOK, HeartbeatsPast, CallsHaveKeys, clients
  <2> QED BY <1>1, <1>11, <2>2 DEF JanitorExpire, TapeInv
<1>12. CASE JanitorWoken \/ JanitorSleep \/ JanitorTimer \/ JanitorExit \/ Cancel \/ Tick
  <2>1. CASE JanitorSleep
    <3>1. activeTail \in Nodes
      BY <1>2, <2>1 DEF JanitorSleep, Nothing, TypeOK, NodeOrNil
    <3>2. sleepUntil' \in Nat
      BY <1>2, <2>1, <3>1, TimeAssumption DEF JanitorSleep, TypeOK
    <3>3. TypeOK' /\ HeartbeatsPast' /\ CallsHaveKeys'
      BY <1>2, <2>1, <3>2
         DEF JanitorSleep, TypeOK, HeartbeatsPast, CallsHaveKeys, cache, clients
    <3> QED BY <1>4, <2>1, <3>3 DEF JanitorSleep
  <2>2. CASE Tick
    <3>1. TypeOK' /\ CallsHaveKeys'
      BY <1>2, <2>2 DEF Tick, TypeOK, CallsHaveKeys, cache, janitor, clients
    <3>2. HeartbeatsPast'
      BY <1>2, <2>2 DEF Tick, TypeOK, HeartbeatsPast, cache
    <3> QED BY <1>4, <2>2, <3>1, <3>2 DEF Tick
  <2>3. CASE JanitorWoken \/ JanitorTimer \/ JanitorExit \/ Cancel
    <3>1. TypeOK' /\ HeartbeatsPast' /\ CallsHaveKeys'
      <4> USE <1>2 DEF TypeOK, HeartbeatsPast, CallsHaveKeys, cache, janitor, clients
      <4>1. CASE JanitorWoken
        BY <4>1 DEF JanitorWoken
      <4>2. CASE JanitorTimer
        BY <4>2 DEF JanitorTimer
      <4>3. CASE JanitorExit
        BY <4>3 DEF JanitorExit
      <4>4. CASE Cancel
        BY <4>4 DEF Cancel
      <4> QED BY <2>3, <4>1, <4>2, <4>3, <4>4
    <3> QED BY <1>4, <2>3, <3>1 DEF JanitorWoken, JanitorTimer, JanitorExit, Cancel
  <2> QED BY <1>12, <2>1, <2>2, <2>3
<1>13. CASE UNCHANGED vars
  <2>1. TypeOK' /\ HeartbeatsPast' /\ CallsHaveKeys'
    BY <1>2, <1>13 DEF vars, TypeOK, HeartbeatsPast, CallsHaveKeys, cache, janitor, clients
  <2> QED BY <1>4, <1>13, <2>1 DEF vars
<1> QED
  BY <1>6, <1>7, <1>8, <1>9, <1>10, <1>11, <1>12, <1>13, SetReuseTape, SetGrowTape
     DEF Next, ClientRun, JanitorRun

LEMMA TapeInvariant == Spec => []TapeInv
  BY InitTape, NextTape, PTL DEF Spec

THEOREM TypeCorrect == Spec => []TypeOK
  <1>1. TapeInv => TypeOK
    BY DEF TapeInv
  <1> QED BY <1>1, TapeInvariant, PTL

(***************************************************************************)
(* The pointer surgery of Set and moveToHead neither drops a node of the    *)
(* tape nor closes a cycle, however many nodes are allocated.               *)
(***************************************************************************)
THEOREM TapeWellFormedTheorem == Spec => []TapeWellFormed
  <1>1. TapeInv => TapeWellFormed
    <2> SUFFICES ASSUME TapeInv PROVE TapeWellFormed
      OBVIOUS
    <2>1. allocated \in Nodes
      BY CapacityAssumption DEF TapeInv, TypeOK, Nodes
    <2>2. PICK o : Order(o, tape, allocated)
      BY DEF TapeInv
    <2> QED BY <2>1, <2>2, OrderedTape
  <1> QED BY <1>1, TapeInvariant, PTL

(***************************************************************************)
(* While the mutex is free, the live sessions are the first nodes of the    *)
(* tape, most recent first: Set never takes the node of a live session.     *)
(***************************************************************************)
THEOREM LiveSessionsFirstTheorem == Spec => []LiveSessionsFirst
  <1>1. TapeInv => LiveSessionsFirst
    <2> SUFFICES ASSUME TapeInv, mu = "free"
                 PROVE  /\ \A i \in 1 .. allocated :
                             IF i <= activeCount
                               THEN /\ nodeKey[NodeAt[i]] \in Keys
                                    /\ items[nodeKey[NodeAt[i]]] = NodeAt[i]
                               ELSE nodeKey[NodeAt[i]] = NoKey
                        /\ \A i \in 2 .. activeCount :
                             heartbeat[NodeAt[i - 1]] >= heartbeat[NodeAt[i]]
                        /\ activeCount = Cardinality({k \in Keys : items[k] # Nil})
      BY DEF LiveSessionsFirst
    <2>1. allocated \in Nodes /\ allocated \in Nat /\ activeCount \in Nat
      BY CapacityAssumption DEF TapeInv, TypeOK, Nodes
    <2>2. PICK o : Order(o, tape, allocated) /\ Live(o)
      BY DEF TapeInv
    <2>3. \A i \in 1 .. allocated : NodeAt[i] = o[i]
      BY <2>1, <2>2, NodeAtOrder
    <2>4. ASSUME NEW i \in 2 .. activeCount
          PROVE  heartbeat[NodeAt[i - 1]] >= heartbeat[NodeAt[i]]
      <3>1. activeCount <= allocated
        BY <2>2 DEF Live
      <3>2. /\ i \in 1 .. allocated /\ i - 1 \in 1 .. allocated
            /\ i \in 1 .. activeCount /\ i - 1 \in 1 .. activeCount /\ i - 1 <= i
        BY <2>1, <3>1
      <3>3. heartbeat[o[i - 1]] >= heartbeat[o[i]]
        BY <2>2, <3>2 DEF Live
      <3> QED BY <2>3, <3>2, <3>3
    <2> QED BY <2>2, <2>3, <2>4 DEF Live, Indexed
  <1> QED BY <1>1, TapeInvariant, PTL

(***************************************************************************)
(* No step but the janitor's expiry of an idle session takes a session from *)
(* the index: the node a Set reuses is blank.                               *)
(***************************************************************************)
THEOREM OnlyIdleSessionsLeaveTheorem == Spec => OnlyIdleSessionsLeave
<1> DEFINE Leave == \A k \in Keys : (items[k] # Nil /\ items'[k] = Nil) =>
                      clock - heartbeat[items[k]] >= IdleTimeout
<1>1. TapeInv /\ [Next]_vars => [Leave]_vars
  <2> SUFFICES ASSUME TapeInv, Next, NEW k \in Keys, items[k] # Nil, items'[k] = Nil
               PROVE  clock - heartbeat[items[k]] >= IdleTimeout
    OBVIOUS
  <2>1. items \in [Keys -> NodeOrNil]
    BY DEF TapeInv, TypeOK
  <2>2. ASSUME items' = items PROVE FALSE
    BY <2>2
  <2>3. ASSUME NEW p \in Clients, SetReuse(p) PROVE FALSE
    <3>1. PICK o : Order(o, tape, allocated) /\ Live(o)
      BY <2>3 DEF TapeInv, SetReuse
    <3>2. allocated \in 1 .. allocated /\ ~(allocated <= activeCount)
      BY <2>3, CapacityAssumption DEF TapeInv, TypeOK, SetReuse
    <3>3. tape.tail = o[allocated] /\ tape.tail \in 1 .. allocated
      BY <3>1, <3>2 DEF Order
    <3>4. nodeKey[tape.tail] = NoKey
      BY <3>1, <3>2, <3>3 DEF Live
    <3>5. items'[k] = IF k = arg[p] THEN tape.tail
                      ELSE IF k = nodeKey[tape.tail] THEN Nil ELSE items[k]
      BY <2>3 DEF SetReuse
    <3> QED BY <3>3, <3>4, <3>5, KeysAssumption DEF Nil
  <2>4. ASSUME NEW p \in Clients, SetGrow(p) PROVE FALSE
    <3>1. allocated + 1 # Nil
      BY CapacityAssumption DEF TapeInv, TypeOK, Nil
    <3> QED BY <2>1, <2>4, <3>1 DEF SetGrow
  <2>5. CASE JanitorExpire
    <3>1. PICK o : Order(o, tape, allocated) /\ Live(o)
      BY <2>5 DEF TapeInv, JanitorExpire
    <3>2. activeCount \in Nat /\ activeCount > 0 /\ activeCount <= allocated /\ allocated \in Nat
      BY <2>5, <3>1, CapacityAssumption DEF TapeInv, TypeOK, JanitorExpire, Nothing, Live
    <3>3. PICK i \in 1 .. activeCount : activeTail = o[i]
      BY <3>1, <3>2 DEF Live
    <3>4. items[nodeKey[activeTail]] = activeTail
      BY <3>1, <3>2, <3>3 DEF Live
    <3>5. k = nodeKey[activeTail]
      BY <2>1, <2>5 DEF JanitorExpire
    <3> QED BY <2>5, <3>4, <3>5 DEF JanitorExpire, Expired
  <2>6. ASSUME NEW p \in Clients, Get(p) \/ SetExisting(p) \/ TriggerWakeup(p) PROVE items' = items
    BY <2>6 DEF Get, SetExisting, TriggerWakeup, Touch, cache
  <2>7. ASSUME NEW p \in Clients, NEW op \in {"get", "set"}, NEW x \in Keys, Call(p, op, x)
        PROVE  items' = items
    BY <2>7 DEF Call, cache
  <2>8. CASE JanitorIdle \/ JanitorWoken \/ JanitorSleep \/ JanitorTimer \/ JanitorExit
             \/ Cancel \/ Tick
    BY <2>2, <2>8 DEF JanitorIdle, JanitorWoken, JanitorSleep, JanitorTimer, JanitorExit,
                      Cancel, Tick, cache
  <2> QED
    BY <2>2, <2>3, <2>4, <2>5, <2>6, <2>7, <2>8 DEF Next, ClientRun, JanitorRun
<1> QED BY <1>1, TapeInvariant, PTL DEF Spec, OnlyIdleSessionsLeave

-----------------------------------------------------------------------------
(***************************************************************************)
(* The cache as a list.  While the tape spells arrangement o, the first     *)
(* Listed nodes of o spell the list.                                        *)
(***************************************************************************)
ListEntry(x) == [key |-> nodeKey[x], at |-> heartbeat[x]]
Recents == [i \in 1 .. Listed |-> ListEntry(NodeAt[i])]
Gone == IF mu = "free" THEN NoKey ELSE nodeKey[activeTail]

Spelled == \A o : Order(o, tape, allocated) => NodeAt = o

LEMMA TapeSpelled == TapeInv => Spelled
<1> SUFFICES ASSUME TapeInv PROVE Spelled
  OBVIOUS
<1>1. allocated \in Nodes
  BY CapacityAssumption DEF TapeInv, TypeOK, Nodes
<1> QED BY <1>1, NodeAtOrder DEF Spelled

LEMMA FunctionIsSeq ==
  ASSUME NEW S, NEW n \in Nat, NEW f \in [1 .. n -> S]
  PROVE  f \in Seq(S) /\ Len(f) = n
  OBVIOUS

\* A list with one more entry in front.
LEMMA PushedList ==
  ASSUME NEW S, NEW n \in Nat, NEW f \in [1 .. n -> S], NEW g \in [1 .. n + 1 -> S],
         NEW x \in S, g[1] = x, \A i \in 1 .. n : g[i + 1] = f[i]
  PROVE  g = <<x>> \o f
<1>1. f \in Seq(S) /\ Len(f) = n /\ g \in Seq(S) /\ Len(g) = n + 1
  BY FunctionIsSeq
<1>2. <<x>> \o f \in Seq(S) /\ Len(<<x>> \o f) = n + 1
  BY <1>1
<1>3. ASSUME NEW i \in 1 .. n + 1 PROVE g[i] = (<<x>> \o f)[i]
  <2>1. CASE i = 1
    BY <1>1, <2>1
  <2>2. CASE i # 1
    <3>1. i - 1 \in 1 .. n /\ (i - 1) + 1 = i
      BY <2>2
    <3>2. g[i] = f[i - 1]
      BY <3>1
    <3>3. (<<x>> \o f)[i] = f[i - 1]
      BY <1>1, <2>2, <3>1
    <3> QED BY <3>2, <3>3
  <2> QED BY <2>1, <2>2
<1> QED BY <1>1, <1>2, <1>3

LEMMA InitRecency == Init => Recency!Init
<1> SUFFICES ASSUME Init PROVE Recency!Init
  OBVIOUS
<1>1. Listed = 0 /\ Gone = NoKey /\ clock = 0
  BY DEF Init, Listed, Gone
<1>2. Recents = << >>
  BY <1>1 DEF Recents
<1> QED BY <1>1, <1>2 DEF Recency!Init, Recents, Gone, ListEntry

\* The list of live sessions, while callers can change it.
LEMMA FreeList ==
  ASSUME TapeInv, mu = "free", NEW o, Order(o, tape, allocated)
  PROVE  /\ Listed = activeCount /\ activeCount \in Nat /\ activeCount <= allocated
         /\ allocated \in Nodes /\ allocated \in Nat
         /\ Live(o) /\ NodeAt = o /\ Gone = NoKey
         /\ Recents = [i \in 1 .. activeCount |-> ListEntry(o[i])]
         /\ \A i \in 1 .. allocated : o[i] \in Nodes
         /\ Recents \in [1 .. activeCount -> [key : Keys \cup {NoKey}, at : Nat]]
         /\ Len(Recents) = activeCount
<1>1. NodeAt = o
  BY TapeSpelled DEF Spelled
<1>2. /\ allocated \in Nodes /\ allocated \in Nat /\ activeCount \in Nat
      /\ 1 .. allocated \subseteq Nodes
  BY CapacityAssumption DEF TapeInv, TypeOK, Nodes
<1>3. Live(o)
  <2>1. PICK r : Order(r, tape, allocated) /\ Live(r)
    BY DEF TapeInv
  <2>2. r = o
    BY <1>1, <2>1, TapeSpelled DEF Spelled
  <2> QED BY <2>1, <2>2
<1>4. Listed = activeCount /\ Gone = NoKey
  BY DEF Listed, Gone
<1>5. Recents = [i \in 1 .. activeCount |-> ListEntry(o[i])]
  BY <1>1, <1>4 DEF Recents
<1>6. \A i \in 1 .. allocated : o[i] \in Nodes
  BY <1>2 DEF Order
<1>7. activeCount <= allocated
  BY <1>3 DEF Live
<1>8. Recents \in [1 .. activeCount -> [key : Keys \cup {NoKey}, at : Nat]]
  <2>1. ASSUME NEW i \in 1 .. activeCount
        PROVE  ListEntry(o[i]) \in [key : Keys \cup {NoKey}, at : Nat]
    <3>1. o[i] \in Nodes
      BY <1>2, <1>6, <1>7
    <3> QED BY <3>1 DEF ListEntry, TapeInv, TypeOK
  <2> QED BY <1>5, <2>1
<1>9. Len(Recents) = activeCount
  BY <1>2, <1>8, FunctionIsSeq
<1> QED BY <1>1, <1>2, <1>3, <1>4, <1>5, <1>6, <1>7, <1>8, <1>9

\* The list after a step that spells arrangement r.
LEMMA NextList ==
  ASSUME Spelled', mu' = "free", NEW r, Order(r, tape', allocated')
  PROVE  Recents' = [i \in 1 .. activeCount' |->
                       [key |-> nodeKey'[r[i]], at |-> heartbeat'[r[i]]]]
<1>1. NodeAt' = r
  BY DEF Spelled
<1> QED BY <1>1 DEF Recents, Listed, ListEntry

LEMMA TouchRecency ==
  ASSUME TapeInv, Spelled', mu = "free", mu' = mu, clock' = clock,
         NEW k \in Keys, items[k] # Nil, Touch(items[k])
  PROVE  Recency!Next
<1>1. PICK o : Order(o, tape, allocated)
  BY DEF TapeInv
<1>f. /\ activeCount \in Nat /\ activeCount <= allocated
      /\ allocated \in Nodes /\ allocated \in Nat
      /\ Live(o) /\ Gone = NoKey
      /\ Recents = [i \in 1 .. activeCount |-> ListEntry(o[i])]
      /\ Len(Recents) = activeCount
  BY <1>1, FreeList
<1>2. PICK x : x = items[k]
  OBVIOUS
<1>3. x \in 1 .. allocated /\ nodeKey[x] = k /\ x \in Nodes
  BY <1>2, <1>f, CapacityAssumption DEF Live, Nodes, TapeInv, TypeOK
<1>4. PICK j \in 1 .. allocated : o[j] = x
  BY <1>1, <1>3 DEF Order
<1>5. j <= activeCount
  BY <1>3, <1>4, <1>f, KeysAssumption DEF Live
<1>6. /\ tape' = MoveToHead(tape, x) /\ heartbeat' = [heartbeat EXCEPT ![x] = clock]
      /\ UNCHANGED <<nodeKey, allocated, activeCount, activeTail>>
  BY <1>2 DEF Touch
<1>7. /\ heartbeat'[x] = clock
      /\ \A y \in Nodes : y # x => heartbeat'[y] = heartbeat[y]
  BY <1>3, <1>6 DEF TapeInv, TypeOK
<1>8. /\ \A i \in 1 .. allocated : o[i] \in Nodes
      /\ \A i \in 1 .. allocated : o[i] = x => i = j
  BY <1>1, <1>4, <1>f, FreeList DEF Order
<1> DEFINE R == [l \in 1 .. activeCount |-> IF l = 1 THEN Recency!Used(Recents[j].key)
                                            ELSE IF l <= j THEN Recents[l - 1]
                                            ELSE Recents[l]]
<1>9. Recents[j].key = k /\ Recency!Used(k) = [key |-> k, at |-> clock]
  BY <1>3, <1>4, <1>5, <1>f DEF ListEntry, Recency!Used
<1>10. Recents' = R
  <2>1. PICK r : /\ Order(r, tape', allocated') /\ r[1] = x
                 /\ \A l \in 2 .. activeCount : r[l] = o[IF l <= j THEN l - 1 ELSE l]
    <3>1. CASE j = 1
      <4>1. tape' = tape
        BY <1>1, <1>4, <1>6, <3>1 DEF MoveToHead, Order
      <4> QED BY <1>1, <1>4, <1>6, <3>1, <4>1
    <3>2. CASE j # 1
      <4>1. j \in 2 .. allocated
        BY <1>f, <3>2
      <4>2. Order(Moved(o, j, allocated), tape', allocated')
        BY <1>1, <1>4, <1>6, <1>f, <4>1, MoveOrder DEF TapeInv, TypeOK
      <4>3. /\ Moved(o, j, allocated)[1] = x
            /\ \A l \in 2 .. activeCount :
                 Moved(o, j, allocated)[l] = o[IF l <= j THEN l - 1 ELSE l]
        BY <1>4, <1>f DEF Moved
      <4> QED BY <4>2, <4>3
    <3> QED BY <3>1, <3>2
  <2>2. Recents' = [i \in 1 .. activeCount |->
                      [key |-> nodeKey[r[i]], at |-> heartbeat'[r[i]]]]
    BY <1>6, <2>1, NextList
  <2>3. ASSUME NEW l \in 1 .. activeCount
        PROVE  [key |-> nodeKey[r[l]], at |-> heartbeat'[r[l]]] = R[l]
    <3>1. CASE l = 1
      BY <1>3, <1>7, <1>9, <2>1, <3>1
    <3>2. CASE l # 1
      <4>1. PICK i \in 1 .. activeCount : i = IF l <= j THEN l - 1 ELSE l
        BY <1>f, <3>2
      <4>2. l \in 2 .. activeCount /\ i # j /\ i \in 1 .. allocated
        BY <1>f, <3>2, <4>1
      <4>3. r[l] = o[i] /\ o[i] \in Nodes /\ o[i] # x
        BY <1>8, <2>1, <4>1, <4>2
      <4>4. R[l] = ListEntry(o[i])
        BY <1>f, <3>2, <4>1
      <4> QED BY <1>7, <4>3, <4>4 DEF ListEntry
    <3> QED BY <3>1, <3>2
  <2> HIDE DEF R
  <2>4. R = [l \in 1 .. activeCount |-> R[l]]
    BY DEF R
  <2> QED BY <2>2, <2>3, <2>4
<1>11. j \in 1 .. Len(Recents) /\ Gone' = Gone
  BY <1>5, <1>6, <1>f DEF Gone
<1>12. Recency!Use(j)
  BY <1>10, <1>11, <1>f DEF Recency!Use, Recency!Live, Recents, Gone, ListEntry
<1> QED BY <1>11, <1>12 DEF Recency!Next, Recents, ListEntry

\* A new session goes in front, be its node reused or new.
LEMMA AddRecency ==
  ASSUME TapeInv, TapeInv', Spelled', mu = "free", mu' = mu, clock' = clock,
         NEW k \in Keys, items[k] = Nil, NEW o, Order(o, tape, allocated),
         NEW r, Order(r, tape', allocated'), NEW x \in Nodes, r[1] = x, Occupy(x, k),
         \A i \in 1 .. activeCount : r[i + 1] = o[i] /\ o[i] # x
  PROVE  Recency!Next
<1>f. /\ activeCount \in Nat /\ activeCount <= allocated
      /\ allocated \in Nodes /\ allocated \in Nat
      /\ Live(o) /\ Gone = NoKey
      /\ Recents = [i \in 1 .. activeCount |-> ListEntry(o[i])]
      /\ \A i \in 1 .. allocated : o[i] \in Nodes
      /\ Recents \in [1 .. activeCount -> [key : Keys \cup {NoKey}, at : Nat]]
      /\ Len(Recents) = activeCount
  BY FreeList
<1>1. /\ nodeKey'[x] = k /\ heartbeat'[x] = clock /\ activeCount' = activeCount + 1
      /\ \A y \in Nodes : y # x => nodeKey'[y] = nodeKey[y] /\ heartbeat'[y] = heartbeat[y]
  BY DEF Occupy, TapeInv, TypeOK
<1>2. Recents' = [i \in 1 .. activeCount + 1 |->
                    [key |-> nodeKey'[r[i]], at |-> heartbeat'[r[i]]]]
  BY <1>1, NextList
<1>3. PICK e : e = [key |-> k, at |-> clock]
  OBVIOUS
<1>4. Recents'[1] = e /\ e \in [key : Keys \cup {NoKey}, at : Nat]
  BY <1>1, <1>2, <1>3, <1>f DEF TapeInv, TypeOK
<1>5. ASSUME NEW i \in 1 .. activeCount PROVE Recents'[i + 1] = Recents[i]
  <2>1. i + 1 \in 1 .. activeCount + 1 /\ i \in 1 .. allocated
    BY <1>f
  <2>2. r[i + 1] = o[i] /\ o[i] # x /\ o[i] \in Nodes
    BY <1>f, <2>1
  <2> QED BY <1>1, <1>2, <1>f, <2>1, <2>2 DEF ListEntry
<1>6. Recents' \in [1 .. activeCount + 1 -> [key : Keys \cup {NoKey}, at : Nat]]
  <2>1. ASSUME NEW i \in 1 .. activeCount + 1
        PROVE  Recents'[i] \in [key : Keys \cup {NoKey}, at : Nat]
    <3>1. CASE i = 1
      BY <1>4, <3>1
    <3>2. CASE i # 1
      <4>1. i - 1 \in 1 .. activeCount /\ (i - 1) + 1 = i
        BY <1>f, <3>2
      <4>2. Recents'[i] = Recents[i - 1]
        BY <1>5, <4>1
      <4> QED BY <1>f, <4>1, <4>2
    <3> QED BY <3>1, <3>2
  <2> QED BY <1>2, <2>1
<1>7. Recents' = <<e>> \o Recents
  <2>1. PICK f, g : f = Recents /\ g = Recents'
    OBVIOUS
  <2> QED BY <1>4, <1>5, <1>6, <1>f, <2>1, PushedList
<1>8. \A i \in 1 .. Len(Recents) : Recents[i].key # k
  <2> SUFFICES ASSUME NEW i \in 1 .. activeCount PROVE ListEntry(o[i]).key # k
    BY <1>f
  <2>1. i \in 1 .. allocated /\ items[nodeKey[o[i]]] = o[i] /\ o[i] \in Nodes
    BY <1>f DEF Live
  <2> QED BY <2>1 DEF ListEntry, Nodes, Nil
<1>9. Gone' = Gone
  BY DEF Gone
<1>10. Recency!Add(k)
  BY <1>3, <1>7, <1>8, <1>9, <1>f
     DEF Recency!Add, Recency!Used, Recents, Gone, ListEntry
<1> QED BY <1>10 DEF Recency!Next

LEMMA StepRecency ==
  ASSUME TapeInv, TapeInv', Spelled', [Next]_vars
  PROVE  [Recency!Next]_(Recency!list)
<1>1. PICK o : Order(o, tape, allocated)
  BY DEF TapeInv
<1>2. ASSUME NEW p \in Clients, Get(p) \/ SetExisting(p), items[arg[p]] # Nil
      PROVE  Recency!Next
  <2>1. /\ mu = "free" /\ mu' = mu /\ clock' = clock
        /\ Touch(items[arg[p]]) /\ arg[p] \in Keys
    BY <1>2 DEF Get, SetExisting, TapeInv, CallsHaveKeys
  <2> QED BY <1>2, <2>1, TouchRecency
<1>3. ASSUME NEW p \in Clients, SetReuse(p) PROVE Recency!Next
  <2> DEFINE x == tape.tail
  <2>1. /\ mu = "free" /\ mu' = mu /\ clock' = clock /\ allocated' = allocated
        /\ arg[p] \in Keys /\ items[arg[p]] = Nil /\ Occupy(x, arg[p])
        /\ tape' = RotateTail(tape) /\ activeCount < Capacity
    BY <1>3 DEF SetReuse, TapeInv, CallsHaveKeys
  <2>n. /\ allocated \in Nodes /\ allocated \in Nat /\ 2 <= allocated
        /\ activeCount \in Nat /\ activeCount < allocated /\ tape \in Tape
        /\ 1 .. allocated \subseteq Nodes
    BY <2>1, CapacityAssumption DEF TapeInv, TypeOK, Nodes
  <2>2. PICK r : r = Moved(o, allocated, allocated)
    OBVIOUS
  <2>3. Order(r, tape', allocated')
    BY <1>1, <2>1, <2>2, <2>n, RotateOrder
  <2>4. x = o[allocated] /\ x \in Nodes /\ r[1] = x
    <3>1. 1 \in 1 .. allocated /\ allocated \in 1 .. allocated
      BY <2>n
    <3>2. x = o[allocated] /\ o[allocated] \in 1 .. allocated
      BY <1>1, <3>1 DEF Order
    <3>3. r[1] = o[allocated]
      BY <2>2, <3>1 DEF Moved
    <3> QED BY <2>n, <3>2, <3>3
  <2>5. ASSUME NEW i \in 1 .. activeCount PROVE r[i + 1] = o[i] /\ o[i] # x
    <3>1. i \in 1 .. allocated /\ i # allocated /\ allocated \in 1 .. allocated
          /\ i + 1 \in 1 .. allocated /\ i + 1 # 1 /\ i + 1 <= allocated /\ (i + 1) - 1 = i
      BY <2>n
    <3>2. r[i + 1] = o[(i + 1) - 1]
      BY <2>2, <3>1 DEF Moved
    <3> QED BY <1>1, <2>4, <3>1, <3>2 DEF Order
  <2> HIDE DEF x
  <2> QED BY <1>1, <2>1, <2>3, <2>4, <2>5, AddRecency
<1>4. ASSUME NEW p \in Clients, SetGrow(p) PROVE Recency!Next
  <2> DEFINE x == allocated + 1
  <2>1. /\ mu = "free" /\ mu' = mu /\ clock' = clock /\ allocated' = x
        /\ arg[p] \in Keys /\ items[arg[p]] = Nil /\ Occupy(x, arg[p])
        /\ tape' = PushHead(tape, x) /\ allocated < MaxNodes
    BY <1>4 DEF SetGrow, TapeInv, CallsHaveKeys
  <2>n. /\ allocated \in Nodes /\ allocated \in Nat /\ x \in Nodes
        /\ activeCount \in Nat /\ activeCount <= allocated /\ tape \in Tape
    BY <1>1, <2>1, FreeList, CapacityAssumption DEF TapeInv, TypeOK, Nodes
  <2>2. PICK r : r = Pushed(o, allocated)
    OBVIOUS
  <2>3. Order(r, tape', allocated')
    BY <1>1, <2>1, <2>2, <2>n, PushOrder
  <2>4. r[1] = x
    BY <2>2, <2>n DEF Pushed
  <2>5. ASSUME NEW i \in 1 .. activeCount PROVE r[i + 1] = o[i] /\ o[i] # x
    <3>1. i \in 1 .. allocated /\ i + 1 \in 1 .. allocated + 1 /\ i + 1 # 1 /\ (i + 1) - 1 = i
      BY <2>n
    <3>2. r[i + 1] = o[(i + 1) - 1]
      BY <2>2, <3>1 DEF Pushed
    <3>3. o[i] \in 1 .. allocated
      BY <1>1, <3>1 DEF Order
    <3> QED BY <2>n, <3>1, <3>2, <3>3
  <2> HIDE DEF x
  <2> QED BY <1>1, <2>1, <2>3, <2>4, <2>5, <2>n, AddRecency
<1>5. CASE JanitorExpire
  <2>1. /\ mu = "free" /\ mu' = "janitor" /\ clock' = clock
        /\ activeCount' = activeCount - 1 /\ activeCount # 0
        /\ UNCHANGED <<tape, nodeKey, heartbeat, allocated, activeTail>>
        /\ clock - heartbeat[activeTail] >= IdleTimeout
    BY <1>5 DEF JanitorExpire, Nothing, Expired
  <2>2. /\ activeCount \in Nat /\ activeCount <= allocated /\ allocated \in Nat
        /\ Live(o) /\ NodeAt = o /\ Gone = NoKey
        /\ Recents = [i \in 1 .. activeCount |-> ListEntry(o[i])]
        /\ Len(Recents) = activeCount
    BY <1>1, <2>1, FreeList
  <2>3. PICK i \in 1 .. activeCount : activeTail = o[i]
    BY <2>1, <2>2 DEF Live
  <2>4. Recents[i] = [key |-> nodeKey[activeTail], at |-> heartbeat[activeTail]]
    BY <2>2, <2>3 DEF ListEntry
  <2>5. Recents' = Recents
    <3>1. NodeAt' = o
      BY <1>1, <2>1 DEF Spelled
    <3>2. Listed' = activeCount
      BY <2>1, <2>2 DEF Listed
    <3> QED BY <2>1, <2>2, <3>1, <3>2 DEF Recents, ListEntry
  <2>6. Gone' = nodeKey[activeTail]
    BY <2>1 DEF Gone
  <2>7. Recency!Expire(i)
    BY <2>1, <2>2, <2>3, <2>4, <2>5, <2>6
       DEF Recency!Expire, Recency!Live, Recents, Gone, ListEntry
  <2> QED BY <2>2, <2>3, <2>7 DEF Recency!Next, Recents, ListEntry
\* The other steps leave the list alone.
<1>6. ASSUME UNCHANGED <<tape, nodeKey, heartbeat, allocated, activeCount, mu>>,
             activeTail' = activeTail \/ mu = "free"
      PROVE  Recents' = Recents /\ Gone' = Gone
  <2>1. NodeAt' = o /\ NodeAt = o
    BY <1>1, <1>6, TapeSpelled DEF Spelled
  <2> QED BY <1>6, <2>1 DEF Recents, Gone, Listed, ListEntry
<1>7. CASE JanitorIdle
  <2>1. mu = "free" /\ Nothing
    BY <1>7 DEF JanitorIdle
  <2>2. /\ activeCount \in Nat /\ activeCount <= allocated /\ allocated \in Nat /\ Live(o)
    BY <1>1, <2>1, FreeList
  <2>3. ASSUME activeCount # 0 PROVE FALSE
    <3>1. PICK i \in 1 .. activeCount : activeTail = o[i]
      BY <2>2, <2>3 DEF Live
    <3>2. o[i] \in 1 .. allocated
      BY <1>1, <2>2, <3>1 DEF Order
    <3> QED BY <2>1, <2>3, <3>1, <3>2 DEF Nothing, Nil
  <2>4. UNCHANGED <<tape, nodeKey, heartbeat, allocated, activeCount, mu, clock>>
    BY <1>7, <2>3 DEF JanitorIdle
  <2> QED BY <1>6, <2>1, <2>4 DEF Recency!list, Recents, Gone, ListEntry
<1>8. CASE Tick
  <2>1. UNCHANGED <<cache, mu>> /\ clock' = clock + 1
    BY <1>8 DEF Tick
  <2>2. Recents' = Recents /\ Gone' = Gone
    BY <1>6, <2>1 DEF cache
  <2>3. Recency!Tick
    BY <2>1, <2>2 DEF Recency!Tick, Recents, Gone, ListEntry
  <2> QED BY <2>3 DEF Recency!Next
<1>9. ASSUME UNCHANGED <<cache, mu, clock>> PROVE UNCHANGED Recency!list
  <2>1. Recents' = Recents /\ Gone' = Gone
    BY <1>6, <1>9 DEF cache
  <2> QED BY <1>9, <2>1 DEF Recency!list, Recents, Gone, ListEntry
<1>10. ASSUME NEW p \in Clients, Get(p) \/ SetExisting(p), items[arg[p]] = Nil
       PROVE  UNCHANGED <<cache, mu, clock>>
  BY <1>10 DEF Get, SetExisting
<1>11. ASSUME NEW p \in Clients, NEW op \in {"get", "set"}, NEW k \in Keys, Call(p, op, k)
       PROVE  UNCHANGED <<cache, mu, clock>>
  BY <1>11 DEF Call
<1>12. ASSUME NEW p \in Clients, TriggerWakeup(p) PROVE UNCHANGED <<cache, mu, clock>>
  BY <1>12 DEF TriggerWakeup
<1>13. CASE JanitorWoken \/ JanitorSleep \/ JanitorTimer \/ JanitorExit \/ Cancel
  <2>1. UNCHANGED <<cache, mu, clock>>
    BY <1>13 DEF JanitorWoken, JanitorSleep, JanitorTimer, JanitorExit, Cancel
  <2> QED BY <1>9, <2>1
<1>14. CASE UNCHANGED vars
  BY <1>9, <1>14 DEF vars
<1> QED
  BY <1>2, <1>3, <1>4, <1>5, <1>7, <1>8, <1>9, <1>10, <1>11, <1>12, <1>13, <1>14
     DEF Next, ClientRun, JanitorRun

(***************************************************************************)
(* The linked nodes and their pointers implement a list of sessions, the    *)
(* one used last in front, from which a session leaves only when it has     *)
(* been idle for the timeout: for any number of callers, keys and nodes.    *)
(***************************************************************************)
THEOREM RecencyRefinement == Spec => RecencySpec
<1>1. TapeInv /\ TapeInv' /\ Spelled' /\ [Next]_vars => [Recency!Next]_(Recency!list)
  BY StepRecency
<1> QED
  BY <1>1, InitRecency, TapeInvariant, TapeSpelled, PTL
     DEF Spec, RecencySpec, Recency!Spec
=============================================================================
