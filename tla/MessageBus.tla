----------------------------- MODULE MessageBus -----------------------------
(***************************************************************************)
(* The CDR topic (services/message-bus) and its clients: pcef-core pushes a *)
(* pack of records per call of StreamCdrLogs, with a deadline, from a       *)
(* goroutine nobody waits for; ConsumeBatch takes records out again.        *)
(*                                                                          *)
(* The topic is a Go channel with a buffer, and both ends use it without    *)
(* blocking, so the grain is one send or receive.  The handler does not     *)
(* look at its context: it goes on when the client has given up.            *)
(* ConsumeBatch has no caller in the repository; consumers are external.    *)
(*                                                                          *)
(* A definition named XMutant is X with a plausible bug in it.              *)
(***************************************************************************)
EXTENDS Integers, Sequences

CONSTANTS Pushes,     \* calls of StreamCdrLogs
          Size,       \* [Pushes -> Nat], records in the pack of each
          Capacity,   \* queue_capacity, the buffer of the topic
          Consumers,  \* calls of ConsumeBatch
          BatchSize   \* [Consumers -> Nat]

ASSUME SizeAssumption == Size \in [Pushes -> Nat]
ASSUME TopicAssumption == Capacity \in Nat
ASSUME BatchAssumption == BatchSize \in [Consumers -> Nat]

\* A CallDetailRecord is known by the pack it comes in and its place there.
CallDetailRecord == UNION {{p} \X (1 .. Size[p]) : p \in Pushes}

\* The BulkCdrPack of a push.
BulkCdrPack(p) == [i \in 1 .. Size[p] |-> <<p, i>>]

\* What the client of a push has learnt: nothing yet, IsCommitted, or an error.
CdrAck == {"none", "committed", "invalid", "error"}

VARIABLES
    topic,     \* the channel: Seq(CallDetailRecord)
    push,      \* [Pushes -> place]: where each call is
    next,      \* [Pushes -> Nat]: the record its handler publishes next
    ack,       \* [Pushes -> CdrAck]
    consumer,  \* [Consumers -> place]
    batch,     \* [Consumers -> Seq(CallDetailRecord)]: what it has collected
    taken,     \* history: the records received from the topic, in order
    dropped    \* history: the records that found the topic full

vars == <<topic, push, next, ack, consumer, batch, taken, dropped>>

TypeOK ==
    /\ topic    \in Seq(CallDetailRecord)
    /\ push     \in [Pushes -> {"idle", "sent", "publish", "done"}]
    /\ next     \in [Pushes -> Nat]
    /\ ack      \in [Pushes -> CdrAck]
    /\ consumer \in [Consumers -> {"idle", "collect", "done"}]
    /\ batch    \in [Consumers -> Seq(CallDetailRecord)]
    /\ taken    \in Seq(CallDetailRecord)
    /\ dropped  \in SUBSET CallDetailRecord
    /\ Len(topic) <= Capacity

Init ==
    /\ topic = <<>>
    /\ push = [p \in Pushes |-> "idle"]
    /\ next = [p \in Pushes |-> 1]
    /\ ack = [p \in Pushes |-> "none"]
    /\ consumer = [k \in Consumers |-> "idle"]
    /\ batch = [k \in Consumers |-> <<>>]
    /\ taken = <<>>
    /\ dropped = {}

-----------------------------------------------------------------------------
\* The client hears of its call, unless it has given up.
Learn(p, what) ==
    ack' = [ack EXCEPT ![p] = IF @ = "none" THEN what ELSE @]

\* pushCdrLog: a goroutine sends its pack.
Push(p) ==
    /\ push[p] = "idle"
    /\ push' = [push EXCEPT ![p] = "sent"]
    /\ UNCHANGED <<topic, next, ack, consumer, batch, taken, dropped>>

\* The request does not reach the bus.
PushLost(p) ==
    /\ push[p] = "sent"
    /\ push' = [push EXCEPT ![p] = "done"]
    /\ Learn(p, "error")
    /\ UNCHANGED <<topic, next, consumer, batch, taken, dropped>>

\* The deadline of two seconds passes; the request is not taken back.
PushExpires(p) ==
    /\ push[p] \in {"sent", "publish"}
    /\ ack[p] = "none"
    /\ Learn(p, "error")
    /\ UNCHANGED <<topic, push, next, consumer, batch, taken, dropped>>

\* StreamCdrLogs refuses an empty pack ...
Refuse(p) ==
    /\ push[p] = "sent"
    /\ BulkCdrPack(p) = <<>>
    /\ push' = [push EXCEPT ![p] = "done"]
    /\ Learn(p, "invalid")
    /\ UNCHANGED <<topic, next, consumer, batch, taken, dropped>>

\* ... and goes through the records of any other, one by one.
Arrive(p) ==
    /\ push[p] = "sent"
    /\ BulkCdrPack(p) # <<>>
    /\ push' = [push EXCEPT ![p] = "publish"]
    /\ UNCHANGED <<topic, next, ack, consumer, batch, taken, dropped>>

OfferedRingMutant(r) ==   \* the oldest record makes room
    /\ topic' = Append(IF Len(topic) < Capacity THEN topic ELSE Tail(topic), r)
    /\ UNCHANGED dropped
\* The select of Publish: into the topic if it has room, else dropped.
Offered(r) ==
    \/ /\ Len(topic) < Capacity
       /\ topic' = Append(topic, r)
       /\ UNCHANGED dropped
    \/ /\ Len(topic) >= Capacity
       /\ dropped' = dropped \cup {r}
       /\ UNCHANGED topic

PublishMutant(p) ==   \* a blocking send
    /\ push[p] = "publish"
    /\ next[p] <= Size[p]
    /\ Len(topic) < Capacity
    /\ topic' = Append(topic, BulkCdrPack(p)[next[p]])
    /\ next' = [next EXCEPT ![p] = @ + 1]
    /\ UNCHANGED <<push, ack, consumer, batch, taken, dropped>>

Publish(p) ==
    /\ push[p] = "publish"
    /\ next[p] <= Size[p]
    /\ Offered(BulkCdrPack(p)[next[p]])
    /\ next' = [next EXCEPT ![p] = @ + 1]
    /\ UNCHANGED <<push, ack, consumer, batch, taken>>

AcknowledgeMutant(p) ==   \* after the first record
    /\ push[p] = "publish"
    /\ next[p] > 1
    /\ push' = [push EXCEPT ![p] = "done"]
    /\ Learn(p, "committed")
    /\ UNCHANGED <<topic, next, consumer, batch, taken, dropped>>

\* The errors of Publish are ignored: the pack is acknowledged as committed.
Acknowledge(p) ==
    /\ push[p] = "publish"
    /\ next[p] > Size[p]
    /\ push' = [push EXCEPT ![p] = "done"]
    /\ Learn(p, "committed")
    /\ UNCHANGED <<topic, next, consumer, batch, taken, dropped>>

-----------------------------------------------------------------------------
\* ConsumeBatch: receive up to BatchSize records ...
Consume(k) ==
    /\ consumer[k] = "idle"
    /\ consumer' = [consumer EXCEPT ![k] = "collect"]
    /\ UNCHANGED <<topic, push, next, ack, batch, taken, dropped>>

ReceiveMutant(k) ==   \* the newest record first
    /\ consumer[k] = "collect"
    /\ Len(batch[k]) < BatchSize[k]
    /\ topic # <<>>
    /\ batch' = [batch EXCEPT ![k] = Append(@, topic[Len(topic)])]
    /\ taken' = Append(taken, topic[Len(topic)])
    /\ topic' = SubSeq(topic, 1, Len(topic) - 1)
    /\ UNCHANGED <<push, next, ack, consumer, dropped>>

Receive(k) ==
    /\ consumer[k] = "collect"
    /\ Len(batch[k]) < BatchSize[k]
    /\ topic # <<>>
    /\ batch' = [batch EXCEPT ![k] = Append(@, Head(topic))]
    /\ taken' = Append(taken, Head(topic))
    /\ topic' = Tail(topic)
    /\ UNCHANGED <<push, next, ack, consumer, dropped>>

\* ... and return when there are that many or the topic is empty.
ReturnBatch(k) ==
    /\ consumer[k] = "collect"
    /\ Len(batch[k]) = BatchSize[k] \/ topic = <<>>
    /\ consumer' = [consumer EXCEPT ![k] = "done"]
    /\ UNCHANGED <<topic, push, next, ack, batch, taken, dropped>>

-----------------------------------------------------------------------------
\* The steps of a push once it has been sent, except giving up.
Handle(p) ==
    \/ PushLost(p) \/ Refuse(p) \/ Arrive(p) \/ Publish(p) \/ Acknowledge(p)

Next ==
    \/ \E p \in Pushes : Push(p) \/ PushExpires(p) \/ Handle(p)
    \/ \E k \in Consumers : Consume(k) \/ Receive(k) \/ ReturnBatch(k)

Spec == Init /\ [][Next]_vars

\* Requests arrive or are lost, and handlers run.  Consumers may never come.
FairSpec == Spec /\ \A p \in Pushes : WF_vars(Handle(p))

-----------------------------------------------------------------------------
\* The records accepted so far, and the elements of a sequence.
Accepted == taken \o topic
Elements(s) == {s[i] : i \in DOMAIN s}

(***************************************************************************)
(* Every record a handler has got to is in exactly one place: once in the   *)
(* topic, once among the records read, or dropped; no other record is       *)
(* anywhere, whatever pushes, deadlines and consumers race.                 *)
(***************************************************************************)
RecordsAccounted ==
    /\ \A i, j \in DOMAIN Accepted : Accepted[i] = Accepted[j] => i = j
    /\ Elements(Accepted) \cap dropped = {}
    /\ Elements(Accepted) \cup dropped =
          {r \in CallDetailRecord : r[2] < next[r[1]]}

(***************************************************************************)
(* What an acknowledgement is worth: a committed pack has been gone through *)
(* to its last record, and a refused one has left nothing behind.  It does  *)
(* not say that a record was kept: with the topic full all are dropped.     *)
(***************************************************************************)
AckCoversPack ==
    \A p \in Pushes :
        /\ ack[p] = "committed" => next[p] = Size[p] + 1
        /\ ack[p] = "invalid" => \A r \in Elements(Accepted) \cup dropped : r[1] # p

(***************************************************************************)
(* Concurrent ConsumeBatch calls share the records out: each record read is *)
(* in one batch, and a batch keeps the records of a pack in their order.    *)
(***************************************************************************)
BatchesShareOut ==
    /\ Elements(taken) = UNION {Elements(batch[k]) : k \in Consumers}
    /\ \A k, m \in Consumers : \A i \in DOMAIN batch[k], j \in DOMAIN batch[m] :
          batch[k][i][1] = batch[m][j][1] /\ k = m /\ i < j =>
              batch[k][i][2] < batch[m][j][2]
    /\ \A k, m \in Consumers :
          Elements(batch[k]) \cap Elements(batch[m]) # {} => k = m

(***************************************************************************)
(* A push never waits for room in the topic (ofcs-srs.md: writing a CDR     *)
(* does not block): it ends even if nobody ever consumes.                   *)
(***************************************************************************)
EveryPushEnds == \A p \in Pushes : push[p] = "sent" ~> push[p] = "done"

\* The bus implements the log.
Log == INSTANCE CdrLog WITH
         Records <- CallDetailRecord, log <- Accepted, read <- Len(taken)
LogSpec == Log!Spec
=============================================================================
