-------------------------- MODULE MessageBusProofs --------------------------
(***************************************************************************)
(* Proofs about MessageBus, for any pushes, packs, capacity and consumers.  *)
(*                                                                          *)
(* Every step does one of four things to the topic: it accepts a record,    *)
(* drops one, reads one or leaves it alone (StepCases).  RecordsAccounted   *)
(* is then inductive: the record a handler offers is the one its next       *)
(* points at, and nothing at or behind next is anywhere yet.                *)
(***************************************************************************)
EXTENDS MessageBus, SequenceTheorems, TLAPS

LEMMA RecordFacts ==
  ASSUME NEW p \in Pushes, NEW i \in 1 .. Size[p]
  PROVE  /\ <<p, i>> \in CallDetailRecord
         /\ BulkCdrPack(p)[i] = <<p, i>>
  BY SizeAssumption DEF CallDetailRecord, BulkCdrPack

LEMMA RecordIsPlace ==
  ASSUME NEW r \in CallDetailRecord
  PROVE  r[1] \in Pushes /\ r[2] \in 1 .. Size[r[1]] /\ r = <<r[1], r[2]>>
  BY DEF CallDetailRecord

LEMMA PackEmpty ==
  ASSUME NEW p \in Pushes
  PROVE  BulkCdrPack(p) = <<>> <=> Size[p] = 0
<1>1. Size[p] \in Nat
  BY SizeAssumption
<1>2. DOMAIN BulkCdrPack(p) = 1 .. Size[p]
  BY DEF BulkCdrPack
<1>3. ASSUME Size[p] = 0 PROVE BulkCdrPack(p) = <<>>
  BY <1>3 DEF BulkCdrPack
<1>4. ASSUME BulkCdrPack(p) = <<>> PROVE Size[p] = 0
  <2>1. DOMAIN <<>> = {}
    OBVIOUS
  <2>2. 1 .. Size[p] = {}
    BY <1>2, <1>4, <2>1
  <2> QED BY <1>1, <2>2
<1> QED BY <1>3, <1>4

\* Moving the head of one sequence to the end of the one before it.
LEMMA MoveHead ==
  ASSUME NEW S, NEW t \in Seq(S), NEW q \in Seq(S), q # <<>>
  PROVE  Append(t, Head(q)) \o Tail(q) = t \o q
<1>1. Head(q) \in S /\ Tail(q) \in Seq(S) /\ Len(Tail(q)) = Len(q) - 1
      /\ \A i \in 1 .. Len(q) - 1 : Tail(q)[i] = q[i + 1]
  BY HeadTailProperties
<1>2. Len(q) \in Nat \ {0} /\ Len(t) \in Nat /\ Head(q) = q[1]
  BY EmptySeq, LenProperties
<1>3. Append(t, Head(q)) \in Seq(S) /\ Len(Append(t, Head(q))) = Len(t) + 1
      /\ \A i \in 1 .. Len(t) : Append(t, Head(q))[i] = t[i]
      /\ Append(t, Head(q))[Len(t) + 1] = q[1]
  BY <1>1, <1>2, AppendProperties
<1> DEFINE a == Append(t, Head(q)) \o Tail(q)
           b == t \o q
<1>4. a \in Seq(S) /\ b \in Seq(S)
  BY <1>1, <1>3, ConcatProperties
<1>5. Len(a) = Len(t) + Len(q) /\ Len(b) = Len(t) + Len(q)
  BY <1>1, <1>2, <1>3, ConcatProperties
<1>6. ASSUME NEW i \in 1 .. Len(t) + Len(q) PROVE a[i] = b[i]
  <2>1. b[i] = IF i <= Len(t) THEN t[i] ELSE q[i - Len(t)]
    BY ConcatProperties
  <2>2. a[i] = IF i <= Len(t) + 1 THEN Append(t, Head(q))[i]
                                   ELSE Tail(q)[i - (Len(t) + 1)]
    BY <1>1, <1>2, <1>3, ConcatProperties
  <2>3. CASE i <= Len(t)
    BY <1>2, <1>3, <2>1, <2>2, <2>3
  <2>4. CASE i = Len(t) + 1
    BY <1>2, <1>3, <2>1, <2>2, <2>4
  <2>5. CASE i > Len(t) + 1
    <3>1. i - (Len(t) + 1) \in 1 .. Len(q) - 1
      BY <1>2, <2>5
    <3>2. a[i] = q[(i - (Len(t) + 1)) + 1]
      BY <1>1, <1>2, <2>2, <2>5, <3>1
    <3>3. (i - (Len(t) + 1)) + 1 = i - Len(t)
      BY <1>2
    <3> QED BY <1>2, <2>1, <2>5, <3>2, <3>3
  <2> QED BY <1>2, <2>3, <2>4, <2>5
<1> HIDE DEF a, b
<1>7. a = b
  BY <1>4, <1>5, <1>6, SeqEqual
<1> QED BY <1>7 DEF a, b

LEMMA AppendLast ==
  ASSUME NEW S, NEW t \in Seq(S), NEW q \in Seq(S), NEW e \in S
  PROVE  t \o Append(q, e) = Append(t \o q, e)
<1>1. t \o q \in Seq(S) /\ <<e>> \in Seq(S)
  BY ConcatProperties
<1>2. (t \o q) \o <<e>> = t \o (q \o <<e>>)
  BY <1>1, ConcatAssociative
<1> QED BY <1>1, <1>2, AppendIsConcat

-----------------------------------------------------------------------------
\* The places of a push: nothing is published before it arrives, and an
\* acknowledgement ends it.
Places ==
    \A p \in Pushes :
        /\ next[p] \in 1 .. Size[p] + 1
        /\ ack[p] = "committed" => push[p] = "done" /\ next[p] = Size[p] + 1
        /\ ack[p] = "invalid" => Size[p] = 0

IInv == TypeOK /\ Places /\ RecordsAccounted

\* The four things a step can do.
Accepts == \E p \in Pushes :
    /\ push[p] = "publish" /\ next[p] <= Size[p]
    /\ Len(topic) < Capacity
    /\ topic' = Append(topic, <<p, next[p]>>)
    /\ next' = [next EXCEPT ![p] = @ + 1]
    /\ UNCHANGED <<push, ack, taken, dropped>>
Drops == \E p \in Pushes :
    /\ push[p] = "publish" /\ next[p] <= Size[p]
    /\ dropped' = dropped \cup {<<p, next[p]>>}
    /\ next' = [next EXCEPT ![p] = @ + 1]
    /\ UNCHANGED <<push, ack, taken, topic>>
Reads ==
    /\ topic # <<>>
    /\ taken' = Append(taken, Head(topic))
    /\ topic' = Tail(topic)
    /\ UNCHANGED <<push, ack, next, dropped>>
Leaves == UNCHANGED <<topic, taken, dropped, next>>

LEMMA StepCases ==
  ASSUME TypeOK, Places, [Next]_vars
  PROVE  Accepts \/ Drops \/ Reads \/ Leaves
<1>1. ASSUME NEW p \in Pushes, Push(p) \/ PushExpires(p) PROVE Leaves
  BY <1>1 DEF Push, PushExpires, Leaves
<1>2. ASSUME NEW p \in Pushes, PushLost(p) \/ Refuse(p) \/ Arrive(p) \/ Acknowledge(p)
      PROVE  Leaves
  BY <1>2 DEF PushLost, Refuse, Arrive, Acknowledge, Leaves
<1>3. ASSUME NEW p \in Pushes, Publish(p) PROVE Accepts \/ Drops
  <2>0. next[p] \in 1 .. Size[p]
    BY <1>3, SizeAssumption DEF Publish, Places
  <2>1. BulkCdrPack(p)[next[p]] = <<p, next[p]>>
    BY <2>0, RecordFacts
  <2> QED BY <1>3, <2>1 DEF Publish, Offered, Accepts, Drops
<1>4. ASSUME NEW k \in Consumers, Consume(k) \/ ReturnBatch(k) PROVE Leaves
  BY <1>4 DEF Consume, ReturnBatch, Leaves
<1>5. ASSUME NEW k \in Consumers, Receive(k) PROVE Reads
  BY <1>5 DEF Receive, Reads
<1>6. CASE UNCHANGED vars
  BY <1>6 DEF vars, Leaves
<1> QED BY <1>1, <1>2, <1>3, <1>4, <1>5, <1>6 DEF Next, Handle

LEMMA TypeStep ==
  ASSUME TypeOK, Places, [Next]_vars
  PROVE  TypeOK'
<1> DEFINE R == CallDetailRecord
<1>1. push' \in [Pushes -> {"idle", "sent", "publish", "done"}]
  BY DEF Next, Handle, vars, TypeOK, Push, PushExpires, PushLost, Refuse, Arrive, Publish,
         Acknowledge, Consume, Receive, ReturnBatch
<1>4. ack' \in [Pushes -> CdrAck]
  BY DEF Next, Handle, vars, TypeOK, Push, PushExpires, PushLost, Refuse, Arrive, Publish,
         Acknowledge, Consume, Receive, ReturnBatch, CdrAck, Learn
<1>5. consumer' \in [Consumers -> {"idle", "collect", "done"}]
  BY DEF Next, Handle, vars, TypeOK, Push, PushExpires, PushLost, Refuse, Arrive, Publish,
         Acknowledge, Consume, Receive, ReturnBatch
<1>6. next' \in [Pushes -> Nat]
  BY DEF Next, Handle, vars, TypeOK, Push, PushExpires, PushLost, Refuse, Arrive, Publish,
         Acknowledge, Consume, Receive, ReturnBatch
<1>2. topic' \in Seq(R) /\ taken' \in Seq(R) /\ dropped' \in SUBSET R
      /\ Len(topic') <= Capacity
  <2>1. CASE Accepts
    <3>1. PICK p \in Pushes : /\ next[p] <= Size[p]
                              /\ Len(topic) < Capacity
                              /\ topic' = Append(topic, <<p, next[p]>>)
                              /\ UNCHANGED <<taken, dropped>>
      BY <2>1 DEF Accepts
    <3>2. <<p, next[p]>> \in R
      BY <3>1, RecordFacts, SizeAssumption DEF Places
    <3>3. topic' \in Seq(R) /\ Len(topic') = Len(topic) + 1
      BY <3>1, <3>2, AppendProperties DEF TypeOK
    <3> QED BY <3>1, <3>3, LenProperties, TopicAssumption DEF TypeOK
  <2>2. CASE Drops
    BY <2>2, RecordFacts, SizeAssumption DEF Drops, TypeOK, Places
  <2>3. CASE Reads
    <3>1. Head(topic) \in R /\ Tail(topic) \in Seq(R) /\ Len(Tail(topic)) = Len(topic) - 1
      BY <2>3, HeadTailProperties DEF Reads, TypeOK
    <3>2. taken' \in Seq(R)
      BY <2>3, <3>1, AppendProperties DEF Reads, TypeOK
    <3> QED BY <2>3, <3>1, <3>2, LenProperties, TopicAssumption DEF Reads, TypeOK
  <2>4. CASE Leaves
    BY <2>4 DEF Leaves, TypeOK
  <2> QED BY <2>1, <2>2, <2>3, <2>4, StepCases
<1>3. batch' \in [Consumers -> Seq(R)]
  <2>1. ASSUME NEW k \in Consumers, Receive(k) PROVE batch' \in [Consumers -> Seq(R)]
    <3>1. Head(topic) \in R
      BY <2>1, HeadTailProperties DEF Receive, TypeOK
    <3>2. Append(batch[k], Head(topic)) \in Seq(R)
      BY <3>1, AppendProperties DEF TypeOK
    <3> QED BY <2>1, <3>2 DEF Receive, TypeOK
  <2> QED BY <2>1 DEF Next, Handle, vars, TypeOK, Push, PushExpires, PushLost, Refuse,
         Arrive, Publish, Acknowledge, Consume, ReturnBatch
<1> QED BY <1>1, <1>2, <1>3, <1>4, <1>5, <1>6 DEF TypeOK

LEMMA PlacesStep ==
  ASSUME TypeOK, Places, [Next]_vars
  PROVE  Places'
<1> USE SizeAssumption DEF Places, TypeOK, CdrAck
<1>1. ASSUME NEW p \in Pushes, Push(p) PROVE Places'
  BY <1>1 DEF Push
<1>2. ASSUME NEW p \in Pushes, PushLost(p) \/ PushExpires(p) PROVE Places'
  BY <1>2 DEF PushLost, PushExpires, Learn
<1>3. ASSUME NEW p \in Pushes, Refuse(p) PROVE Places'
  BY <1>3, PackEmpty DEF Refuse, Learn
<1>4. ASSUME NEW p \in Pushes, Arrive(p) PROVE Places'
  BY <1>4 DEF Arrive
<1>5. ASSUME NEW p \in Pushes, Publish(p) PROVE Places'
  BY <1>5 DEF Publish
<1>6. ASSUME NEW p \in Pushes, Acknowledge(p) PROVE Places'
  BY <1>6 DEF Acknowledge, Learn
<1>7. ASSUME NEW k \in Consumers, Consume(k) \/ Receive(k) \/ ReturnBatch(k) PROVE Places'
  BY <1>7 DEF Consume, Receive, ReturnBatch
<1>8. CASE UNCHANGED vars
  BY <1>8 DEF vars
<1> QED BY <1>1, <1>2, <1>3, <1>4, <1>5, <1>6, <1>7, <1>8 DEF Next, Handle

-----------------------------------------------------------------------------
LEMMA AcceptedSeq ==
  ASSUME TypeOK
  PROVE  /\ Accepted \in Seq(CallDetailRecord)
         /\ Len(Accepted) = Len(taken) + Len(topic)
  BY ConcatProperties DEF TypeOK, Accepted

LEMMA ElementsAppend ==
  ASSUME NEW S, NEW q \in Seq(S), NEW e \in S
  PROVE  Elements(Append(q, e)) = Elements(q) \cup {e}
<1>1. DOMAIN q = 1 .. Len(q) /\ Len(q) \in Nat
  BY LenProperties
<1>2. Append(q, e) \in Seq(S) /\ Len(Append(q, e)) = Len(q) + 1
      /\ \A i \in 1 .. Len(q) : Append(q, e)[i] = q[i]
      /\ Append(q, e)[Len(q) + 1] = e
  BY AppendProperties
<1>3. DOMAIN Append(q, e) = 1 .. Len(q) + 1
  BY <1>2, LenProperties
<1> QED BY <1>1, <1>2, <1>3 DEF Elements

\* The step to the next record of push p reaches that one record more.
LEMMA OneMore ==
  ASSUME TypeOK, Places, NEW p \in Pushes, next[p] <= Size[p],
         next' = [next EXCEPT ![p] = @ + 1]
  PROVE  /\ <<p, next[p]>> \in CallDetailRecord
         /\ {r \in CallDetailRecord : r[2] < next'[r[1]]} =
               {r \in CallDetailRecord : r[2] < next[r[1]]} \cup {<<p, next[p]>>}
<1>1. next[p] \in 1 .. Size[p] /\ Size[p] \in Nat
  BY SizeAssumption DEF Places
<1>2. <<p, next[p]>> \in CallDetailRecord
  BY <1>1, RecordFacts
<1>3. ASSUME NEW r \in CallDetailRecord
      PROVE  r[2] < next'[r[1]] <=> r[2] < next[r[1]] \/ r = <<p, next[p]>>
  <2>1. r[1] \in Pushes /\ r[2] \in 1 .. Size[r[1]] /\ r = <<r[1], r[2]>>
    BY RecordIsPlace
  <2>2. r[2] \in Nat /\ next[r[1]] \in Nat
    BY <2>1, SizeAssumption DEF TypeOK
  <2>3. CASE r[1] = p
    <3>1. next'[r[1]] = next[p] + 1
      BY <2>3 DEF TypeOK
    <3>2. r = <<p, next[p]>> <=> r[2] = next[p]
      BY <2>1, <2>3
    <3> QED BY <2>2, <2>3, <3>1, <3>2
  <2>4. CASE r[1] # p
    <3>1. next'[r[1]] = next[r[1]]
      BY <2>1, <2>4 DEF TypeOK
    <3>2. r # <<p, next[p]>>
      BY <2>4
    <3> QED BY <3>1, <3>2
  <2> QED BY <2>3, <2>4
<1> QED BY <1>2, <1>3

LEMMA AccountedStep ==
  ASSUME IInv, [Next]_vars
  PROVE  RecordsAccounted'
<1> DEFINE R == CallDetailRecord
<1> USE DEF IInv
<1>0. Accepted \in Seq(R) /\ DOMAIN Accepted = 1 .. Len(Accepted) /\ Len(Accepted) \in Nat
  BY AcceptedSeq, LenProperties
<1>1. CASE Accepts
  <2>1. PICK p \in Pushes : /\ next[p] <= Size[p]
                            /\ topic' = Append(topic, <<p, next[p]>>)
                            /\ next' = [next EXCEPT ![p] = @ + 1]
                            /\ UNCHANGED <<taken, dropped>>
    BY <1>1 DEF Accepts
  <2> DEFINE r == <<p, next[p]>>
  <2>2. r \in R /\ {q \in R : q[2] < next'[q[1]]} = {q \in R : q[2] < next[q[1]]} \cup {r}
    BY <2>1, OneMore
  <2>3. r \notin Elements(Accepted) \cup dropped
    <3>1. ~(r[2] < next[r[1]])
      BY DEF TypeOK
    <3> QED BY <3>1 DEF RecordsAccounted
  <2>4. Accepted' = Append(Accepted, r)
    BY <2>1, <2>2, AppendLast DEF TypeOK, Accepted
  <2>5. Elements(Accepted)' = Elements(Accepted) \cup {r}
    BY <1>0, <2>2, <2>4, ElementsAppend DEF Elements
  <2>6. Accepted' \in Seq(R) /\ Len(Accepted') = Len(Accepted) + 1
        /\ (\A i \in 1 .. Len(Accepted) : Accepted'[i] = Accepted[i])
        /\ Accepted'[Len(Accepted) + 1] = r
    BY <1>0, <2>2, <2>4, AppendProperties
  <2>7. DOMAIN Accepted' = 1 .. Len(Accepted) + 1
    BY <2>6, LenProperties
  <2>8. \A i \in 1 .. Len(Accepted) : Accepted[i] # r
    BY <1>0, <2>3 DEF Elements
  <2> HIDE DEF r
  <2>9. \A i, j \in DOMAIN Accepted' : Accepted'[i] = Accepted'[j] => i = j
    <3> SUFFICES ASSUME NEW i \in DOMAIN Accepted', NEW j \in DOMAIN Accepted',
                        Accepted'[i] = Accepted'[j]
                 PROVE  i = j
      OBVIOUS
    <3>1. \A k \in 1 .. Len(Accepted) + 1 : k \in 1 .. Len(Accepted) \/ k = Len(Accepted) + 1
      BY <1>0
    <3>2. CASE i \in 1 .. Len(Accepted) /\ j \in 1 .. Len(Accepted)
      BY <1>0, <2>6, <3>2 DEF RecordsAccounted
    <3>3. CASE i = Len(Accepted) + 1 /\ j \in 1 .. Len(Accepted)
      BY <2>6, <2>8, <3>3
    <3>4. CASE j = Len(Accepted) + 1 /\ i \in 1 .. Len(Accepted)
      BY <2>6, <2>8, <3>4
    <3> QED BY <2>7, <3>1, <3>2, <3>3, <3>4
  <2> QED BY <2>1, <2>2, <2>3, <2>5, <2>9 DEF RecordsAccounted
<1>2. CASE Drops
  <2>1. PICK p \in Pushes : /\ next[p] <= Size[p]
                            /\ dropped' = dropped \cup {<<p, next[p]>>}
                            /\ next' = [next EXCEPT ![p] = @ + 1]
                            /\ UNCHANGED <<taken, topic>>
    BY <1>2 DEF Drops
  <2> DEFINE r == <<p, next[p]>>
  <2>2. r \in R /\ {q \in R : q[2] < next'[q[1]]} = {q \in R : q[2] < next[q[1]]} \cup {r}
    BY <2>1, OneMore
  <2>3. r \notin Elements(Accepted)
    <3>1. ~(r[2] < next[r[1]])
      BY DEF TypeOK
    <3> QED BY <3>1 DEF RecordsAccounted
  <2>4. Accepted' = Accepted
    BY <2>1 DEF Accepted
  <2> QED BY <2>1, <2>2, <2>3, <2>4 DEF RecordsAccounted, Elements
<1>3. CASE Reads
  <2>1. Accepted' = Accepted
    BY <1>3, MoveHead DEF Reads, Accepted, TypeOK
  <2> QED BY <1>3, <2>1 DEF Reads, RecordsAccounted, Elements
<1>4. CASE Leaves
  BY <1>4 DEF Leaves, RecordsAccounted, Elements, Accepted
<1> QED BY <1>1, <1>2, <1>3, <1>4, StepCases

LEMMA InitIInv == Init => IInv
<1> SUFFICES ASSUME Init PROVE IInv
  OBVIOUS
<1>1. TypeOK
  BY EmptySeq, TopicAssumption DEF Init, TypeOK, CdrAck
<1>2. Places
  <2> SUFFICES ASSUME NEW p \in Pushes
               PROVE  next[p] \in 1 .. Size[p] + 1 /\ ack[p] = "none"
    BY DEF Places
  <2>1. next[p] = 1 /\ ack[p] = "none" /\ Size[p] \in Nat
    BY SizeAssumption DEF Init
  <2> QED BY <2>1
<1>3. Accepted = <<>> /\ Elements(Accepted) = {}
  BY ConcatEmptySeq DEF Init, Accepted, Elements
<1>4. \A r \in CallDetailRecord : ~(r[2] < next[r[1]])
  BY RecordIsPlace, SizeAssumption DEF Init
<1> QED BY <1>1, <1>2, <1>3, <1>4 DEF IInv, RecordsAccounted, Init

\* IInv is an invariant.
THEOREM Invariance == Spec => []IInv
<1>1. IInv /\ [Next]_vars => IInv'
  BY TypeStep, PlacesStep, AccountedStep DEF IInv
<1> QED BY InitIInv, <1>1, PTL DEF Spec

(***************************************************************************)
(* However many pushes and consumers race for the topic, every record a     *)
(* handler has got to is accepted once or dropped, and nothing else is in   *)
(* the topic or has been read.                                              *)
(***************************************************************************)
THEOREM Accounting == Spec => [](TypeOK /\ RecordsAccounted)
  BY Invariance, PTL DEF IInv

(***************************************************************************)
(* A committed pack has been gone through to its end; a refused one has     *)
(* left nothing behind.                                                     *)
(***************************************************************************)
THEOREM AcksCover == Spec => []AckCoversPack
<1>1. IInv => AckCoversPack
  <2> SUFFICES ASSUME IInv, NEW p \in Pushes, ack[p] = "invalid",
                      NEW r \in Elements(Accepted) \cup dropped
               PROVE  r[1] # p
    BY DEF IInv, Places, AckCoversPack
  <2>1. r \in CallDetailRecord
    BY DEF IInv, RecordsAccounted
  <2> QED BY <2>1, RecordIsPlace DEF IInv, Places
<1> QED BY <1>1, Invariance, PTL

-----------------------------------------------------------------------------
\* The topic keeps the records of a pack in their order.
InOrder ==
    \A i, j \in DOMAIN Accepted :
        Accepted[i][1] = Accepted[j][1] /\ i < j => Accepted[i][2] < Accepted[j][2]

ShareInv == InOrder /\ BatchesShareOut

LEMMA InOrderStep ==
  ASSUME IInv, InOrder, [Next]_vars
  PROVE  InOrder'
<1> DEFINE R == CallDetailRecord
<1> USE DEF IInv
<1>0. Accepted \in Seq(R) /\ DOMAIN Accepted = 1 .. Len(Accepted) /\ Len(Accepted) \in Nat
  BY AcceptedSeq, LenProperties
<1>1. CASE Accepts
  <2>1. PICK p \in Pushes : /\ next[p] <= Size[p]
                            /\ topic' = Append(topic, <<p, next[p]>>)
                            /\ next' = [next EXCEPT ![p] = @ + 1]
                            /\ UNCHANGED <<taken, dropped>>
    BY <1>1 DEF Accepts
  <2>2. <<p, next[p]>> \in R
    BY <2>1, OneMore
  <2>3. Accepted' = Append(Accepted, <<p, next[p]>>)
    BY <2>1, <2>2, AppendLast DEF TypeOK, Accepted
  <2>4. Accepted' \in Seq(R) /\ Len(Accepted') = Len(Accepted) + 1
        /\ (\A i \in 1 .. Len(Accepted) : Accepted'[i] = Accepted[i])
        /\ Accepted'[Len(Accepted) + 1] = <<p, next[p]>>
    BY <1>0, <2>2, <2>3, AppendProperties
  <2>5. DOMAIN Accepted' = 1 .. Len(Accepted) + 1
    BY <2>4, LenProperties
  <2>6. \A i \in 1 .. Len(Accepted) : Accepted[i][2] < next[Accepted[i][1]]
    <3>1. \A i \in 1 .. Len(Accepted) : Accepted[i] \in Elements(Accepted)
      BY <1>0 DEF Elements
    <3> QED BY <3>1 DEF RecordsAccounted
  <2>7. ASSUME NEW i \in DOMAIN Accepted', NEW j \in DOMAIN Accepted',
               Accepted'[i][1] = Accepted'[j][1], i < j
        PROVE  Accepted'[i][2] < Accepted'[j][2]
    <3>1. i \in 1 .. Len(Accepted) /\ Accepted'[i] = Accepted[i]
      BY <1>0, <2>4, <2>5, <2>7
    <3>2. CASE j \in 1 .. Len(Accepted)
      BY <1>0, <2>4, <2>7, <3>1, <3>2 DEF InOrder
    <3>3. CASE j = Len(Accepted) + 1
      <4>1. Accepted'[j][1] = p /\ Accepted'[j][2] = next[p]
        BY <2>4, <3>3
      <4> QED BY <2>6, <2>7, <3>1, <4>1
    <3> QED BY <1>0, <2>5, <3>2, <3>3
  <2> QED BY <2>7 DEF InOrder
<1>2. CASE Drops \/ Leaves
  <2>1. Accepted' = Accepted
    BY <1>2 DEF Drops, Leaves, Accepted
  <2> QED BY <2>1 DEF InOrder
<1>3. CASE Reads
  <2>1. Accepted' = Accepted
    BY <1>3, MoveHead DEF Reads, Accepted, TypeOK
  <2> QED BY <2>1 DEF InOrder
<1> QED BY <1>1, <1>2, <1>3, StepCases

\* The record at the head of the topic comes after every record read.
LEMMA HeadIsNext ==
  ASSUME IInv, InOrder, topic # <<>>, NEW r \in Elements(taken)
  PROVE  r # Head(topic) /\ (r[1] = Head(topic)[1] => r[2] < Head(topic)[2])
<1>1. taken \in Seq(CallDetailRecord) /\ topic \in Seq(CallDetailRecord)
  BY DEF IInv, TypeOK
<1>2. Len(taken) \in Nat /\ Len(topic) \in Nat \ {0} /\ DOMAIN taken = 1 .. Len(taken)
      /\ Head(topic) = topic[1]
  BY <1>1, EmptySeq, LenProperties, HeadTailProperties
<1>3. DOMAIN Accepted = 1 .. Len(taken) + Len(topic)
  BY AcceptedSeq, LenProperties DEF IInv
<1>4. PICK i \in 1 .. Len(taken) : r = taken[i]
  BY <1>2 DEF Elements
<1>5. Accepted[i] = r
  BY <1>1, <1>2, <1>4, ConcatProperties DEF Accepted
<1>6. Accepted[Len(taken) + 1] = Head(topic)
  <2>1. Len(taken) + 1 \in 1 .. Len(taken) + Len(topic)
    BY <1>2
  <2>2. Accepted[Len(taken) + 1] = topic[(Len(taken) + 1) - Len(taken)]
    BY <1>1, <1>2, <2>1, ConcatProperties DEF Accepted
  <2> QED BY <1>2, <2>2
<1>7. i \in DOMAIN Accepted /\ Len(taken) + 1 \in DOMAIN Accepted /\ i < Len(taken) + 1
  BY <1>2, <1>3
<1> QED BY <1>5, <1>6, <1>7 DEF InOrder, IInv, RecordsAccounted

LEMMA ShareStep ==
  ASSUME IInv, ShareInv, [Next]_vars
  PROVE  BatchesShareOut'
<1>0. TypeOK
  BY DEF IInv
<1>1. ASSUME NEW k \in Consumers, Receive(k) PROVE BatchesShareOut'
  <2> DEFINE h == Head(topic)
             b == batch[k]
  <2>1. /\ topic # <<>> /\ batch' = [batch EXCEPT ![k] = Append(b, h)]
        /\ taken' = Append(taken, h)
    BY <1>1 DEF Receive
  <2>2. h \in CallDetailRecord
    BY <1>0, <2>1, HeadTailProperties DEF TypeOK
  <2>3. b \in Seq(CallDetailRecord) /\ batch \in [Consumers -> Seq(CallDetailRecord)]
        /\ taken \in Seq(CallDetailRecord)
    BY <1>0 DEF TypeOK
  <2>4. \A r \in Elements(taken) : r # h /\ (r[1] = h[1] => r[2] < h[2])
    BY <2>1, HeadIsNext DEF ShareInv
  <2>5. \A m \in Consumers : \A i \in DOMAIN batch[m] : batch[m][i] \in Elements(taken)
    <3>1. \A m \in Consumers : \A i \in DOMAIN batch[m] : batch[m][i] \in Elements(batch[m])
      BY DEF Elements
    <3>2. Elements(taken) = UNION {Elements(batch[m]) : m \in Consumers}
      BY DEF ShareInv, BatchesShareOut
    <3> QED BY <3>1, <3>2
  <2>6. /\ Append(b, h) \in Seq(CallDetailRecord) /\ Len(Append(b, h)) = Len(b) + 1
        /\ (\A i \in 1 .. Len(b) : Append(b, h)[i] = b[i])
        /\ Append(b, h)[Len(b) + 1] = h
        /\ Len(b) \in Nat /\ DOMAIN b = 1 .. Len(b)
    BY <2>2, <2>3, AppendProperties, LenProperties
  <2>7. DOMAIN Append(b, h) = 1 .. Len(b) + 1
    BY <2>6, LenProperties
  <2>8. Elements(Append(b, h)) = Elements(b) \cup {h}
        /\ Elements(Append(taken, h)) = Elements(taken) \cup {h}
    BY <2>2, <2>3, ElementsAppend
  <2> HIDE DEF h, b
  <2>9. batch'[k] = Append(b, h) /\ \A m \in Consumers \ {k} : batch'[m] = batch[m]
    BY <2>1, <2>3
  <2>10. \A m \in Consumers :
           Elements(batch'[m]) = IF m = k THEN Elements(batch[m]) \cup {h}
                                          ELSE Elements(batch[m])
    BY <2>8, <2>9 DEF b
  <2>11. Elements(taken') = UNION {Elements(batch'[m]) : m \in Consumers}
    <3>1. Elements(taken) = UNION {Elements(batch[m]) : m \in Consumers}
      BY DEF ShareInv, BatchesShareOut
    <3>2. Elements(taken') = Elements(taken) \cup {h}
      BY <2>1, <2>8
    <3>3. \A r : r \in UNION {Elements(batch'[m]) : m \in Consumers}
                   <=> r = h \/ r \in UNION {Elements(batch[m]) : m \in Consumers}
      <4>1. \A r : r \in UNION {Elements(batch'[m]) : m \in Consumers}
                     <=> \E m \in Consumers : r \in Elements(batch'[m])
        OBVIOUS
      <4>2. \A r : r \in UNION {Elements(batch[m]) : m \in Consumers}
                     <=> \E m \in Consumers : r \in Elements(batch[m])
        OBVIOUS
      <4> QED BY <2>10, <4>1, <4>2
    <3> QED BY <3>1, <3>2, <3>3
  <2>12. ASSUME NEW m \in Consumers, NEW n \in Consumers,
                Elements(batch'[m]) \cap Elements(batch'[n]) # {}
         PROVE  m = n
    <3>1. \A l \in Consumers : h \notin Elements(batch[l])
      <4>1. \A l \in Consumers : Elements(batch[l]) \subseteq Elements(taken)
        BY DEF ShareInv, BatchesShareOut
      <4> QED BY <2>4, <4>1
    <3>2. Elements(batch[m]) \cap Elements(batch[n]) # {} \/ m = n
      BY <2>10, <2>12, <3>1
    <3> QED BY <3>2 DEF ShareInv, BatchesShareOut
  <2>13. ASSUME NEW m \in Consumers, NEW i \in DOMAIN batch'[m], NEW j \in DOMAIN batch'[m],
                batch'[m][i][1] = batch'[m][j][1], i < j
         PROVE  batch'[m][i][2] < batch'[m][j][2]
    <3>1. CASE m # k
      BY <2>9, <2>13, <3>1 DEF ShareInv, BatchesShareOut
    <3>2. CASE m = k
      <4>1. i \in 1 .. Len(b) /\ batch'[m][i] = b[i]
        BY <2>6, <2>7, <2>9, <2>13, <3>2
      <4>2. CASE j \in 1 .. Len(b)
        <5>1. batch'[m][i] = batch[k][i] /\ batch'[m][j] = batch[k][j]
              /\ i \in DOMAIN batch[k] /\ j \in DOMAIN batch[k]
          BY <2>6, <2>9, <3>2, <4>1, <4>2 DEF b
        <5>2. \A l, n \in Consumers : \A x \in DOMAIN batch[l], y \in DOMAIN batch[n] :
                batch[l][x][1] = batch[n][y][1] /\ l = n /\ x < y =>
                  batch[l][x][2] < batch[n][y][2]
          BY DEF ShareInv, BatchesShareOut
        <5> QED BY <2>13, <5>1, <5>2
      <4>3. CASE j = Len(b) + 1
        <5>1. batch'[m][j] = h
          BY <2>6, <2>9, <3>2, <4>3
        <5>2. b[i] \in Elements(taken)
          BY <2>5, <2>6, <4>1 DEF b
        <5> QED BY <2>4, <2>13, <4>1, <5>1, <5>2
      <4> QED BY <2>6, <2>7, <2>9, <3>2, <4>2, <4>3
    <3> QED BY <3>1, <3>2
  <2> QED BY <2>11, <2>12, <2>13 DEF BatchesShareOut, Elements
<1>2. ASSUME UNCHANGED <<batch, taken>> PROVE BatchesShareOut'
  <2>1. batch' = batch /\ taken' = taken
    BY <1>2
  <2>2. Elements(taken') = Elements(taken)
    BY <2>1 DEF Elements
  <2>3. \A k \in Consumers : Elements(batch'[k]) = Elements(batch[k])
    BY <2>1 DEF Elements
  <2>4. UNION {Elements(batch'[k]) : k \in Consumers} = UNION {Elements(batch[k]) : k \in Consumers}
    BY <2>3
  <2>5. BatchesShareOut
    BY DEF ShareInv
  <2> HIDE DEF Elements
  <2> QED BY <2>1, <2>2, <2>3, <2>4, <2>5 DEF BatchesShareOut
<1>3. ASSUME NEW p \in Pushes, Push(p) \/ PushExpires(p) \/ Handle(p)
      PROVE  UNCHANGED <<batch, taken>>
  BY <1>3 DEF Push, PushExpires, Handle, PushLost, Refuse, Arrive, Publish, Acknowledge
<1>4. ASSUME NEW k \in Consumers, Consume(k) \/ ReturnBatch(k) PROVE UNCHANGED <<batch, taken>>
  BY <1>4 DEF Consume, ReturnBatch
<1> QED BY <1>1, <1>2, <1>3, <1>4 DEF Next, vars

(***************************************************************************)
(* However many ConsumeBatch calls run at once, every record read is in the *)
(* batch of exactly one of them, behind the earlier records of its pack.    *)
(***************************************************************************)
THEOREM BatchesShareOutTheorem == Spec => []BatchesShareOut
<1>1. Init => ShareInv
  <2> SUFFICES ASSUME Init PROVE ShareInv
    OBVIOUS
  <2>1. Accepted = <<>> /\ taken = <<>> /\ \A k \in Consumers : batch[k] = <<>>
    BY ConcatEmptySeq DEF Init, Accepted
  <2>2. DOMAIN <<>> = {} /\ Elements(<<>>) = {}
    BY DEF Elements
  <2> QED BY <2>1, <2>2 DEF ShareInv, InOrder, BatchesShareOut
<1>2. IInv /\ ShareInv /\ [Next]_vars => ShareInv'
  BY InOrderStep, ShareStep DEF ShareInv
<1>3. ShareInv => BatchesShareOut
  BY DEF ShareInv
<1> QED BY <1>1, <1>2, <1>3, Invariance, PTL DEF Spec

-----------------------------------------------------------------------------
(***************************************************************************)
(* The topic, its handlers and its consumers implement the log of CdrLog:   *)
(* records are appended while there is room and read once, in order.        *)
(***************************************************************************)
THEOREM ImplementsLog == Spec => LogSpec
<1>1. Init => Log!Init
  BY ConcatEmptySeq DEF Init, Log!Init, Accepted
<1>2. IInv /\ [Next]_vars => [Log!Next]_<<Accepted, Len(taken)>>
  <2> SUFFICES ASSUME IInv, [Next]_vars PROVE [Log!Next]_<<Accepted, Len(taken)>>
    OBVIOUS
  <2> USE DEF IInv
  <2>0. Len(taken) \in Nat /\ Len(topic) \in Nat /\ Len(Accepted) = Len(taken) + Len(topic)
    BY AcceptedSeq, LenProperties DEF TypeOK
  <2>1. CASE Accepts
    <3>1. PICK p \in Pushes : /\ next[p] <= Size[p]
                              /\ Len(topic) < Capacity
                              /\ topic' = Append(topic, <<p, next[p]>>)
                              /\ next' = [next EXCEPT ![p] = @ + 1]
                              /\ UNCHANGED taken
      BY <2>1 DEF Accepts
    <3>2. <<p, next[p]>> \in CallDetailRecord
      BY <3>1, OneMore
    <3>3. Accepted' = Append(Accepted, <<p, next[p]>>)
      BY <3>1, <3>2, AppendLast DEF TypeOK, Accepted
    <3>4. Log!Accept(<<p, next[p]>>)
      BY <2>0, <3>1, <3>3, TopicAssumption DEF Log!Accept
    <3> QED BY <3>2, <3>4 DEF Log!Next
  <2>2. CASE Drops
    BY <2>2 DEF Drops, Accepted
  <2>3. CASE Reads
    <3>1. Accepted' = Accepted
      BY <2>3, MoveHead DEF Reads, Accepted, TypeOK
    <3>2. Len(taken') = Len(taken) + 1
      BY <2>3, HeadTailProperties, AppendProperties DEF Reads, TypeOK
    <3>3. Len(topic) > 0
      BY <2>3, EmptySeq DEF Reads, TypeOK
    <3> QED BY <2>0, <3>1, <3>2, <3>3 DEF Log!Next, Log!Read
  <2>4. CASE Leaves
    BY <2>4 DEF Leaves, Accepted
  <2> QED BY <2>1, <2>2, <2>3, <2>4, StepCases
<1> QED BY <1>1, <1>2, Invariance, PTL DEF Spec, LogSpec, Log!Spec
=============================================================================
