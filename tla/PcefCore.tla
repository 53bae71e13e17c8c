------------------------------ MODULE PcefCore ------------------------------
(***************************************************************************)
(* The enforcement core (services/pcef-core): the traffic streams of        *)
(* ProcessTrafficStream, each taking one frame at a time through the rate   *)
(* limiter, the session cache, the OCS and the dispatch table, and          *)
(* ProvisionPccRules, which registers sessions.                             *)
(*                                                                          *)
(* The parts a frame passes through have modules of their own and appear    *)
(* here by what they do to it:                                              *)
(*   - the limiter (TokenBucket) admits or denies;                          *)
(*   - a cache shard (ReactiveLru) maps addresses to session objects; once  *)
(*     its janitor has expired a session its mutex is never free again;     *)
(*   - the OCS (OcsRating) answers an UPDATE as its ledger allows: 4012 for *)
(*     an unknown subscriber or an empty balance, otherwise a grant of at   *)
(*     most the bytes used.  Which reserved bytes the UPDATE commits does   *)
(*     not influence its answer and is left out here;                       *)
(*   - the size of a frame is looked up as in Dispatch.                     *)
(*                                                                          *)
(* A session object is shared by all streams that looked its address up,    *)
(* and its CurrentBandwidth is read and written without a lock.             *)
(*                                                                          *)
(* A definition named XMutant is X with a plausible bug in it.              *)
(***************************************************************************)
EXTENDS Dispatch, UnitSums

CONSTANTS Streams,      \* open traffic streams
          Ips,          \* source addresses
          Imsis,        \* subscriber ids
          NoImsi,       \* no subscriber
          Bootstrap,    \* the sessions set at start: <<[ip, imsi], ...>>
          Shards, Shard,  \* [Ips -> Shards], getShardIndex
          Accounts,     \* the subscribers the OCS knows
          InitialBalance,  \* [Accounts -> Nat]
          Frames,       \* frames that may arrive, a subset of RawPacketFrame
          Wrap,         \* 2^64, what uint64 adds to a negative int64
          Dpi,          \* [hosts with a signature -> flag]
          MaxFrames,    \* bound on frames per stream
          MaxSessions   \* bound on session objects

\* The frames of the user plane; what matters of a host is its signature.  A
\* size is an int64 that the client declares.
RawPacketFrame == [ip : Ips, host : {f.host : f \in Frames}, size : Int]

\* UsedBytes of the UPDATE: uint64(size).
UsedBytes(f) == IF f.size < 0 THEN f.size + Wrap ELSE f.size

\* What a frame carries.
Bytes(f) == IF f.size < 0 THEN 0 ELSE f.size

StateActive == "active"
Streaming   == "streaming"
Social      == "social"
PackSmall   == "small"
PackHeavy   == "heavy"

ASSUME BootstrapAssumption ==
    /\ Bootstrap \in Seq([ip : Ips, imsi : Imsis])
    /\ Len(Bootstrap) <= MaxSessions
    /\ \A i, j \in 1 .. Len(Bootstrap) :
          Bootstrap[i].ip = Bootstrap[j].ip => i = j
ASSUME ShardAssumption == Shard \in [Ips -> Shards]
ASSUME BalanceAssumption ==
    Accounts \subseteq Imsis /\ InitialBalance \in [Accounts -> Nat]
ASSUME FramesAssumption == Frames # {} /\ Frames \subseteq RawPacketFrame
ASSUME SizeAssumption == \E f \in Frames : \A g \in Frames : g.size <= f.size
ASSUME WrapAssumption ==
    Wrap \in Nat /\ \A f \in Frames : -Wrap <= 2 * f.size /\ 2 * f.size < Wrap
ASSUME BoundsAssumption == MaxFrames \in Nat /\ MaxSessions \in Nat

(***************************************************************************)
(* bootstrapDispatcher.  Sizes are in the unit in which a small frame is at *)
(* most 1; bandwidths are in Mbit/s.                                        *)
(***************************************************************************)
RangeBounds == AddRange(AddRange(<<>>, 1, PackSmall), 9, PackHeavy)

Rules ==
    [m \in {{StateActive, Streaming, PackHeavy}, {StateActive, Social, PackSmall},
            {StateActive, Social, PackHeavy}} |->
        IF Streaming \in m THEN 50 ELSE IF PackSmall \in m THEN 100 ELSE 10]

\* The composite mask of a frame; every registered session is active, and a
\* host without a signature counts as social.
Traffic(f) == IF f.host \in DOMAIN Dpi THEN Dpi[f.host] ELSE Social
Mask(f) == {StateActive, Traffic(f), EvaluateRange(RangeBounds, f.size, "none")}

FullBandwidth == 100   \* of a new session
ThrottledBandwidth == 0   \* 64 Kbit/s

SessionIds == 1 .. MaxSessions

VARIABLES
    index,      \* [Ips -> 0 .. MaxSessions]  the cache: session object or 0
    owner,      \* [SessionIds -> Imsis \cup {NoImsi}]  SubscriberSession.IMSI
    bandwidth,  \* [SessionIds -> Nat]  SubscriberSession.CurrentBandwidth
    allocated,  \* session objects made
    locked,     \* the shards whose janitor holds the mutex for good
    balance,    \* [Accounts -> Nat]  the OCS balances
    pc, frame, sess, verdict,  \* the streams
    metrics,    \* OtelMetrics: packets blocked by the limiter, bytes processed
    received, answered, unanswered,  \* history: frames per stream
    delivered   \* history: bytes of each subscriber answered ALLOW

cache   == <<index, owner, bandwidth, allocated, locked>>
stream  == <<frame, sess, verdict>>
history == <<received, answered, unanswered, delivered>>
vars    == <<cache, balance, pc, stream, metrics, history>>

Verdicts == [action : {"none", "XDP_DROP", "THROTTLE", "ALLOW"}, bandwidth : Nat]
NoVerdict == [action |-> "none", bandwidth |-> 0]

Labels == {"recv", "limit", "lookup", "charge", "execute", "answer", "send",
           "closed"}

TypeOK ==
    /\ index     \in [Ips -> 0 .. MaxSessions]
    /\ owner     \in [SessionIds -> Imsis \cup {NoImsi}]
    /\ bandwidth \in [SessionIds -> {10, 50, 100}]
    /\ allocated \in 0 .. MaxSessions
    /\ locked    \in SUBSET Shards
    /\ balance   \in [Accounts -> Nat]
    /\ pc        \in [Streams -> Labels]
    /\ frame     \in [Streams -> Frames]
    /\ sess      \in [Streams -> 0 .. MaxSessions]
    /\ verdict   \in [Streams -> Verdicts]
    /\ metrics   \in [blocked : Nat, processed : Int]
    /\ received  \in [Streams -> 0 .. MaxFrames]
    /\ answered  \in [Streams -> 0 .. MaxFrames]
    /\ unanswered \in [Streams -> 0 .. MaxFrames]
    /\ delivered \in [Imsis -> Nat]

AnyFrame == CHOOSE f \in Frames : TRUE   \* of a stream that has none

\* main registers the first sessions before it serves.
Init ==
    LET first == 1 .. Len(Bootstrap)
        At0(ip) == {i \in first : Bootstrap[i].ip = ip}
    IN  /\ index = [ip \in Ips |-> IF At0(ip) = {} THEN 0
                                   ELSE CHOOSE i \in At0(ip) : TRUE]
        /\ owner = [i \in SessionIds |-> IF i \in first THEN Bootstrap[i].imsi
                                         ELSE NoImsi]
        /\ bandwidth = [i \in SessionIds |-> FullBandwidth]
        /\ allocated = Len(Bootstrap)
        /\ locked = {}
        /\ balance = InitialBalance
        /\ pc = [s \in Streams |-> "recv"]
        /\ frame = [s \in Streams |-> AnyFrame]
        /\ sess = [s \in Streams |-> 0]
        /\ verdict = [s \in Streams |-> NoVerdict]
        /\ metrics = [blocked |-> 0, processed |-> 0]
        /\ received = [s \in Streams |-> 0]
        /\ answered = [s \in Streams |-> 0]
        /\ unanswered = [s \in Streams |-> 0]
        /\ delivered = [i \in Imsis |-> 0]

-----------------------------------------------------------------------------
At(s, label) == pc[s] = label
Goto(s, label) == pc' = [pc EXCEPT ![s] = label]

\* A stream is done with its frame: the variables of the iteration are gone.
Done(s, label) ==
    /\ Goto(s, label)
    /\ frame' = [frame EXCEPT ![s] = AnyFrame]
    /\ sess' = [sess EXCEPT ![s] = 0]
    /\ verdict' = [verdict EXCEPT ![s] = NoVerdict]

\* ProcessPacket returns a verdict to the stream, which then sends it.
Decide(s, action, b) ==
    /\ Goto(s, "send")
    /\ verdict' = [verdict EXCEPT ![s] = [action |-> action, bandwidth |-> b]]

Recv(s, f) ==
    /\ At(s, "recv")
    /\ received[s] < MaxFrames
    /\ frame' = [frame EXCEPT ![s] = f]
    /\ received' = [received EXCEPT ![s] = @ + 1]
    /\ Goto(s, "limit")
    /\ UNCHANGED <<cache, balance, sess, verdict, metrics, answered, unanswered, delivered>>

\* The client is done (EOF), gone (an error of Recv) or its context cancelled.
Close(s) ==
    /\ At(s, "recv")
    /\ Goto(s, "closed")
    /\ UNCHANGED <<cache, balance, stream, metrics, history>>

Admit(s) ==
    /\ At(s, "limit")
    /\ Goto(s, "lookup")
    /\ UNCHANGED <<cache, balance, stream, metrics, history>>

\* A denied frame is dropped and counted; an error of this Send is ignored.
Blocked == metrics' = [metrics EXCEPT !.blocked = @ + 1]
DenyMutant(s) ==   \* forgets to go on with the next frame
    /\ At(s, "limit")
    /\ Blocked
    /\ Goto(s, "lookup")
    /\ UNCHANGED <<cache, balance, stream, history>>
Deny(s) ==
    /\ At(s, "limit")
    /\ Blocked
    /\ Done(s, "recv")
    /\ UNCHANGED <<cache, balance, history>>

\* The mutex of the shard of an address can be taken.
ShardFreeMutant(ip) == locked = {}
ShardFree(ip) == Shard[ip] \notin locked

\* lru.Get in the shard of the address.
Lookup(s) ==
    LET ip == frame[s].ip
    IN  /\ At(s, "lookup")
        /\ ShardFree(ip)
        /\ IF index[ip] = 0
             THEN Decide(s, "XDP_DROP", 0) /\ UNCHANGED sess
             ELSE /\ sess' = [sess EXCEPT ![s] = index[ip]]
                  /\ Goto(s, "charge")
                  /\ UNCHANGED verdict
        /\ UNCHANGED <<cache, balance, frame, metrics, history>>

\* The OCS has credit for subscriber i.
HasCreditMutant(i) == i \in Accounts
HasCredit(i) == i \in Accounts /\ balance[i] > 0

\* What the OCS grants for n used bytes.
Granted(i, n) == IF balance[i] < n THEN balance[i] ELSE n

\* The UPDATE is granted and its answer arrives ...
Charge(s) ==
    LET i == owner[sess[s]]
    IN  /\ At(s, "charge")
        /\ HasCredit(i)
        /\ balance' = [balance EXCEPT ![i] = @ - Granted(i, UsedBytes(frame[s]))]
        /\ Goto(s, "execute")
        /\ UNCHANGED <<cache, stream, metrics, history>>

\* ... or it is refused with 4012 ...
ChargeRefused(s) ==
    /\ At(s, "charge")
    /\ ~HasCredit(owner[sess[s]])
    /\ Decide(s, "THROTTLE", ThrottledBandwidth)
    /\ UNCHANGED <<cache, balance, frame, sess, metrics, history>>

\* ... or the RPC fails, before or after the OCS has granted it.
ChargeFails(s) ==
    LET i == owner[sess[s]]
    IN  /\ At(s, "charge")
        /\ \/ UNCHANGED balance
           \/ /\ HasCredit(i)
              /\ balance' = [balance EXCEPT ![i] = @ - Granted(i, UsedBytes(frame[s]))]
        /\ Decide(s, "THROTTLE", ThrottledBandwidth)
        /\ UNCHANGED <<cache, frame, sess, metrics, history>>

\* dispatchEngine.Execute: the rule of the mask writes the session's bandwidth.
Execute(s) ==
    /\ At(s, "execute")
    /\ Mask(frame[s]) \in DOMAIN Rules
    /\ bandwidth' = [bandwidth EXCEPT ![sess[s]] = Rules[Mask(frame[s])]]
    /\ Goto(s, "answer")
    /\ UNCHANGED <<index, owner, allocated, locked, balance, stream, metrics, history>>

\* No rule: ProcessPacket returns an error, which the stream logs; it goes on
\* with the next frame.
ExecuteUnhandled(s) ==
    /\ At(s, "execute")
    /\ Mask(frame[s]) \notin DOMAIN Rules
    /\ unanswered' = [unanswered EXCEPT ![s] = @ + 1]
    /\ Done(s, "recv")
    /\ UNCHANGED <<cache, balance, metrics, received, answered, delivered>>

\* The verdict takes the bandwidth from the shared session.  (The CDR of the
\* frame is pushed by a goroutine that nothing here waits for.)
AnswerMutant(s) ==   \* of the session the address has by now
    LET i == owner[sess[s]]
        n == index[frame[s].ip]
    IN  /\ At(s, "answer")
        /\ Decide(s, "ALLOW", bandwidth[IF n = 0 THEN sess[s] ELSE n])
        /\ delivered' = [delivered EXCEPT ![i] = @ + Bytes(frame[s])]
        /\ UNCHANGED <<cache, balance, frame, sess, metrics, received, answered, unanswered>>
Answer(s) ==
    LET i == owner[sess[s]]
    IN  /\ At(s, "answer")
        /\ Decide(s, "ALLOW", bandwidth[sess[s]])
        /\ delivered' = [delivered EXCEPT ![i] = @ + Bytes(frame[s])]
        /\ UNCHANGED <<cache, balance, frame, sess, metrics, received, answered, unanswered>>

\* The size of the frame is counted, whatever the verdict.
Send(s) ==
    /\ At(s, "send")
    /\ metrics' = [metrics EXCEPT !.processed = @ + frame[s].size]
    /\ answered' = [answered EXCEPT ![s] = @ + 1]
    /\ Done(s, "recv")
    /\ UNCHANGED <<cache, balance, received, unanswered, delivered>>

SendFails(s) ==
    /\ At(s, "send")
    /\ unanswered' = [unanswered EXCEPT ![s] = @ + 1]
    /\ Done(s, "closed")
    /\ UNCHANGED <<cache, balance, metrics, received, answered, delivered>>

\* ProvisionPccRules: a new session object replaces the one in the cache.
Register(ip, imsi) ==
    LET n == allocated + 1
    IN  /\ ShardFree(ip)
        /\ allocated < MaxSessions
        /\ allocated' = n
        /\ index' = [index EXCEPT ![ip] = n]
        /\ owner' = [owner EXCEPT ![n] = imsi]
        /\ bandwidth' = [bandwidth EXCEPT ![n] = FullBandwidth]
        /\ UNCHANGED <<locked, balance, pc, stream, metrics, history>>

\* A session of the shard expires (ReactiveLru, JanitorExpire): the janitor takes
\* it out of the index and then waits for its own mutex.  A stream that has
\* looked the session up keeps the object.
Expire(sh) ==
    /\ sh \notin locked
    /\ \E ip \in Ips : /\ Shard[ip] = sh
                       /\ index[ip] # 0
                       /\ index' = [index EXCEPT ![ip] = 0]
    /\ locked' = locked \cup {sh}
    /\ UNCHANGED <<owner, bandwidth, allocated, balance, pc, stream, metrics, history>>

-----------------------------------------------------------------------------
\* One step of a stream on the frame it has received.
Serve(s) ==
    \/ Admit(s) \/ Deny(s) \/ Lookup(s)
    \/ Charge(s) \/ ChargeRefused(s) \/ ChargeFails(s)
    \/ Execute(s) \/ ExecuteUnhandled(s) \/ Answer(s) \/ Send(s) \/ SendFails(s)

Next ==
    \/ \E s \in Streams : Serve(s) \/ Close(s) \/ \E f \in Frames : Recv(s, f)
    \/ \E ip \in Ips, imsi \in Imsis : Register(ip, imsi)
    \/ \E sh \in Shards : Expire(sh)

Spec == Init /\ [][Next]_vars

\* The scheduler runs every stream; RPCs to the OCS return or fail.
Fairness == \A s \in Streams : WF_vars(Serve(s))
FairSpec == Spec /\ Fairness

-----------------------------------------------------------------------------
\* What the largest frame carries.
MaxSize == CHOOSE n \in {Bytes(f) : f \in Frames} : \A f \in Frames : Bytes(f) <= n

(***************************************************************************)
(* Credit limits service: what a subscriber was allowed exceeds the credit  *)
(* taken for it by less than one frame, however many streams, addresses and *)
(* sessions it uses at once.  The OCS grants the rest of a balance to a     *)
(* frame that is larger, and the PCEF lets that frame pass.  A frame that   *)
(* declares a negative size carries nothing and costs the whole balance.    *)
(***************************************************************************)
OverdraftBound ==
    /\ \A i \in Accounts :
          \/ delivered[i] <= InitialBalance[i] - balance[i]
          \/ balance[i] = 0 /\ delivered[i] < InitialBalance[i] + MaxSize
    /\ \A i \in Imsis \ Accounts : delivered[i] = 0

\* The frames a stream is busy with.
InHand == {s \in Streams : pc[s] \notin {"recv", "closed"}}

(***************************************************************************)
(* Every frame is accounted for once: the limiter has blocked and counted   *)
(* it, or it has its verdict, or it is in hand, or it had no rule or its    *)
(* stream broke (unanswered).  No frame is answered twice or forgotten.     *)
(***************************************************************************)
FramesAccounted ==
    UnitSum(received) =
        metrics.blocked + UnitSum(answered) + UnitSum(unanswered) + Cardinality(InHand)

\* The bandwidths that the rules give to frames of an address.
RuledBandwidths(ip) ==
    {Rules[Mask(f)] : f \in {g \in Frames : g.ip = ip /\ Mask(g) \in DOMAIN Rules}}

(***************************************************************************)
(* An ALLOW carries the bandwidth of a rule for frames of its address, even *)
(* when the session was replaced after it was looked up.  It need not be    *)
(* the rule of the very frame: another stream of the session may write      *)
(* CurrentBandwidth between Execute and its read.                           *)
(***************************************************************************)
VerdictOfARule ==
    \A s \in Streams : (At(s, "send") /\ verdict[s].action = "ALLOW") =>
        verdict[s].bandwidth \in RuledBandwidths(frame[s].ip)

(***************************************************************************)
(* A stuck shard stops only frames that hash to it: any other frame a       *)
(* stream has received is dealt with.                                       *)
(***************************************************************************)
ShardIsolation ==
    \A s \in Streams :
        ~At(s, "recv") ~> \/ pc[s] \in {"recv", "closed"}
                          \/ At(s, "lookup") /\ Shard[frame[s].ip] \in locked
=============================================================================
