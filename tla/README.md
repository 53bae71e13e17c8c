# A TLA+ verification of the PCEF shaper system

The repository emulates the policy and charging plane of a mobile operator:
traffic frames stream into an enforcement core (PCEF), which limits their rate,
finds the subscriber's session, asks the online charging system (OCS) for credit,
and answers with a verdict; policy, offline charging and analytics services stand
around it. This project models all ten services, the packages they share and how they
find and stop each other, checks the models with TLC on small instances, and proves the
central facts with TLAPS for every instance.

`PROJECT.json` lists components, runs, mutants, findings, hazards, theorems, and for
every definition the source lines it models.

## 1. Inventory

| Component | State | Operations | What makes it correct |
|---|---|---|---|
| `services/ocs-rating` | per subscriber `TotalBalanceBytes`, `ReservedBytes` (atomic `uint64`); `sync.Map` of sessions | `Reserve` (INITIAL), `CommitAndReserve` (UPDATE), `Release` (TERMINATE) behind one RPC | credit is conserved to the byte; no byte is granted twice; a closed session leaves nothing behind; every request is answered |
| `internal/pkg/ratelimit` | per address `TokensScaled`, `LastRefillNano` (atomic `int64`) in a `sync.Map` | `Allow` | at most burst + rate x time admitted; no denial while the burst lasts; no token spent twice |
| `internal/pkg/lru` | index, doubly linked tape of nodes, `activeCount`, `activeTail`, wake-up channel, one mutex | `Get`, `Set`, the janitor goroutine | the tape stays a list with the live sessions in front; only idle sessions leave; the janitor is woken; calls return |
| `internal/pkg/dispatch` | sorted range table, map of masks to actions | `AddRangeConfig`, `RegisterAction`, `EvaluateRange`, `Execute` | bisection finds the right range |
| `services/pcef-core` | 32 cache shards, sessions with `CurrentBandwidth`, open streams | `ProcessTrafficStream`/`ProcessPacket`, `ProvisionPccRules`/`RegisterSubscriber`, CDR push | one verdict per frame, by its own rule; traffic bounded by credit; shards independent |
| `services/message-bus` | bounded channel of CDRs | `Publish` (drops when full), `ConsumeBatch` (no caller) | every record handled is in one place; an acknowledgement covers the pack; no push waits |
| `services/ofcs-collector` | ticker, stop channel | `StartPipeline`, `Stop` | one batch per tick, each sent once |
| `services/olap-analytics` | segment file under a mutex | `InsertBatch` | batches are not mixed; a committed batch was written to its end; the mutex is given back |
| `services/spr-storage` | sharded map of profiles | `Find`, `Store` | a fetch returns the last stored profile |
| `services/pcrf-engine` | none between requests | `CompileRules` | the session it provisions follows a current profile |
| `services/access-gateway` | none between requests | `HandleRadiusPacket` | an acknowledged session is in force |
| `services/af-gateway` | timers | `SendAAQuery` | granted media sessions end |
| `services/ue-emulator` | workers, stop channel, `WaitGroup` | `StartLoadTest`, `StopLoadTest` | stopping ends every worker |
| `internal/pkg/shutdown` | signal channel, timeout | `ListenSignals` | the process ends; who is drained interrupts nobody |
| `internal/chassis`, the services' `config` and `main` | settings from defaults, file, environment | `LoadConfig`, dialling and registration | every setting comes from its last layer; who reaches whom follows |
| interceptors, telemetry | two counters | unary interceptor, `Add` | every frame is counted once |
| logger, `pb` | - | I/O, generated code | - |

**Interaction.** The load generator opens one bidirectional gRPC stream per device to
pcef-core. Each stream is a goroutine that handles one frame at a time: limiter, cache
shard (chosen by a hash of the address), synchronous Gy call to the OCS, rule table,
verdict. All streams share the limiter, the shards and the session objects. Gx requests
(access-gateway, pcrf-engine) register sessions concurrently with the streams. A janitor
goroutine per shard expires sessions. After an ALLOW a detached goroutine pushes a CDR to
the message bus, with a deadline of two seconds. The collector sends batches of its own to
the OLAP store once per tick. Every process ends by a signal: `GracefulStop` runs against a
timeout while its handlers may be waiting for other services.

**What is hard here.** Everything in the charging server and the limiter is lock-free: the
only atomicity is that of one load, add or compare-and-swap, and each operation consists of
several. The cache does pointer surgery under a mutex but signals outside it. Session
objects are shared without a lock. An RPC may fail after it took effect, and its handler
goes on when the client has given up. The only thing that outlives a process is the segment
file of the OLAP store.

## 2. Modules

| Module | Models | Grain |
|---|---|---|
| `OcsRating` | the Gy handler and the three operations of the OCS | one atomic memory or map access per action |
| `CreditLedger` | abstract: an account with available, held and spent bytes, and the steps Grant, Commit, Settle | one ledger entry per step |
| `CreditService` | abstract: a Gy server that decides one request at a time | one request's arrival, decision or answer per step |
| `TokenBucket` | `Allow` | one atomic access per action |
| `ReactiveLru` | the cache and its janitor | one critical section per action; the send on the wake-up channel is separate, as it is in the code |
| `RecencyList` | abstract: the live sessions in the order of their last use | one use, addition or expiry per step |
| `Dispatch` | range table and bisection as operators | - |
| `DispatchEngine` | configuration of the engine | one call per action |
| `PcefCore` (extends `Dispatch`) | streams, provisioning, expiry of shards, metrics | the parts of a frame's path between which other goroutines are visible |
| `MessageBus` | the pushes of pcef-core, `StreamCdrLogs`, `Publish`, `ConsumeBatch` | one send or receive on the channel per action |
| `CdrLog` | abstract: a bounded log, appended at the end and read once in order | one record per step |
| `OlapStore` | the collector's worker and the store with its segment file | one line written per action |
| `PolicyControl` | spr-storage, pcrf-engine, access-gateway, af-gateway, and the registration in pcef-core | one message or critical section per action |
| `ServiceConfig` | the chassis, ten `LoadConfig`s, ten `main`s and the contracts, as operators | - |
| `Cluster` (extends `ServiceConfig`) | processes that start, call each other and are shut down | one phase of a process or a call per action |
| `MC*` | instances for TLC | |
| `UnitSums` (extended by `OcsRating` and `PcefCore`) | sums over calls and streams, as the number of units | - |
| `OcsRatingProofs`, `TokenBucketProofs`, `ReactiveLruProofs`, `PcefCoreProofs`, `MessageBusProofs`, `OlapStoreProofs`, `PolicyControlProofs`, `ClusterProofs` | theorems | |

Definitions called `XMutant` are `X` with a plausible bug. They are not part of any
specification; the list `mutants` of `PROJECT.json` says which property notices which.

### OcsRating

A member of `Calls` is one RPC; `Offer[c]` is what its client may send and `After[c]` the
calls whose answers that client waits for first. `pc[c]` is the place of the goroutine, `seen[c]`
the last atomic load, `amount[c]` the local `granted` or `CurrentQuota`. `balances` is
never written after the bootstrap, so its lookup is part of `Dispatch`. The history
variables `charged`, `inflight` and `settling` make conservation expressible: bytes debited
for good, bytes between the CAS on the balance and the add to the reserve, and quota that is
refunded and charged but still counted in the reserve.

Counters are natural numbers. That a `uint64` cannot wrap below zero is `TypeOK`, which is
proved; wrapping above 2^64 would take more credit than the bootstrap hands out by a factor
of 2^27 and is left out.

`LedgerSpec` is `CreditLedger!Spec` under the mapping avail <- total, held <- reserved +
inflight - settling, spent <- charged.

`ServiceSpec` is `CreditService!Spec`, in which a request arrives, is decided and is
answered, and the decision looks only at the balance and at the answers clients have. A call
counts as decided from the CAS on the balance (`Grant`), from the refund (`Repay`), or from the
load that finds no credit or no session (`Refuse`). This is linearizability, and it holds for
every client. The service says when a request may be refused: a charge only for an
empty balance (a smaller rest is granted, as ocs-srs.md describes it), a TERMINATE only
when nobody was told of an open session. It keeps no reserve and does not limit how often a
quantum is repaid, because the code does not; the ledger does both, for orderly clients.

### TokenBucket

Time is a counter of ticks; the rate is a fraction of scaled tokens per tick, and the refill
is rounded down as the conversion to `int64` does. The rounding of `float64` itself is left
out. `now` is read once per call before the loop, as in the code. Creation of a bucket is
the pair `Load`, `LoadOrStore`. The history variable `raced` holds the keys on which two
calls have overlapped: the bound on admissions holds for the others
(`SerialAdmissionBound`). A late call can also move the refill stamp back.

The clock of the model only moves forward. This is an assumption: `Allow` reads wall time
(`time.Now().UnixNano()`), which an administrator or NTP may set back. `Allow` would then count
no time as elapsed and its second CAS would move the refill stamp back although no two calls
overlap, so that the interval is credited again; the bound of `SerialAdmissionBound` holds
between such steps only.

### ReactiveLru

Nodes are numbers; `tape` holds head, tail, next and prev, and `MoveToHead`, `RotateTail`
and `PushHead` are the code's assignments. A critical section is one action guarded by
`mu = "free"`. The janitor calls `GetLen`, which takes the read lock, while it holds the
write lock; Go's `RWMutex` is not reentrant, so after `JanitorExpire` the mutex stays
with the janitor and no further step of it exists. The code behind that call
(`removeNodePhysical`, moving `activeTail`, `onEvict`) is unreachable and has no action.
Capacity is at least 2 (pcef-core uses 5000).

`RecencySpec` is `RecencyList!Spec` with recent <- keys and heartbeats of the first `Listed`
nodes of the tape. `Listed` is `activeCount`; `JanitorExpire` has lowered it while the session
that expired is still linked, so with the mutex in the janitor's hands one more node counts.

### PcefCore

The limiter, the cache and the OCS are replaced by what the other modules show of them: the
limiter admits or denies; a shard maps an address to a session object and, once a session
has expired, never answers again; an UPDATE is refused when the subscriber is unknown or its
balance is empty, and otherwise debits at most the bytes it reports (`UsedBytes`, the size of the
frame converted to `uint64`: a negative size becomes a huge one, takes the whole balance, and
counts as a small frame in the range table). A session that expires leaves the index
(`Expire`); streams that had looked it up go on with the object. `ChargeFails` is the RPC
that fails before or after the OCS granted it. `Execute` and `Answer` are separate, because
the session object is shared: another stream may run its rule in between. Frame sizes are
in units of the first range bound. `metrics` are the two counters of the handler;
`unanswered` counts frames that end without a verdict: no rule, or a stream that broke.

### MessageBus and CdrLog

A member of `Pushes` is one call of `StreamCdrLogs`. Its client (`ack`) and its handler
(`push`, `next`) are separate: the deadline ends the one and not the other. A record is
identified by its pack and its place there. `Offered` is the `select` with `default` of
`Publish`; its error is ignored, so a full topic is acknowledged as committed, which
`AckCoversPack` says explicitly. `LogSpec` is `CdrLog!Spec` with log <- taken \o topic and
read <- Len(taken). Consumers are external: no code calls `ConsumeBatch`.

### OlapStore

The handler's place is kept per batch, because the worker may see an error and send the next
batch while the store is still busy with the last. `Restart` ends the store's process at any
step and keeps the file. `GracefulStop` of the collector does not wait for the worker, so
`Exit` finds it anywhere.

### PolicyControl

A member of `Calls` is one Gx call, made to the PCRF or, by access-gateway, to pcef-core
(`Direct`): `main` of access-gateway dials `pcef_core_addr`. The fetch from the SPR, the push
to pcef-core and the registration there are separate steps, and any of the RPCs may fail while
the other side goes on. `stored[i]` keeps all profiles a subscriber has had, the last being
in force, so that a property can speak of those current during a call. `Store` has no caller
in the repository. `Expire` is the janitor's step of `ReactiveLru`: it deletes the session of an
address, which may be an acknowledged one, and the shard is stuck from then on. Which session
has been idle long enough is left open, so any may go. The media session of af-gateway is its timer; nobody else is told.

### ServiceConfig and Cluster

`ServiceConfig` computes, from the files and the environment a process sees, what it listens
on, which contracts it registers and where its clients connect. `MCCluster` holds the
settings of the two deployments of the repository: `make run-local`, and the image of the
Dockerfile with the ConfigMap of `k8s/`. `Cluster` takes the resulting connections and adds
processes and calls: `Within[c]` is the handler a call is made in, `After[c]` the calls
before it. A handler may lose its client (`left`) or wait in a stuck cache shard (`hung`).

## 3. Runs

Bounds were chosen as the smallest at which every action is taken and every race the
properties are about can happen; every passing run explores its instance completely.

| Run | Instance | Shows |
|---|---|---|
| `ocs_sessions` | 2 concurrent clients of 2 requests each: UPDATEs and late TERMINATEs as pcef-core sends them on one subscriber (balance 3), INITIAL then TERMINATE with any usage on the other (balance 4) | `CreditConserved`, `BooksSettle`, `LedgerSpec`, `EveryRequestAnswered` |
| `ocs_gy` | 3 racing calls of any kind on 2 shared sessions, with unknown subscribers and malformed requests | `TypeOK`, `CreditNeverLost`, `NoOversell`, `ServiceSpec` |
| `bucket` | 3 calls at any times on one bucket of 2 tokens, 2 clock ticks, 3/4 token per tick | `TokensConserved`, `NoFalseDenial`, `SerialAdmissionBound`, `EveryCallDecided` |
| `lru` | capacity 2, 3 keys (so the cache grows), 2 clients, timeout 2, 3 ticks; symmetric in clients and keys | `TapeWellFormed`, `LiveSessionsFirst`, `NoLostWakeup`, `RecencySpec` |
| `pcef_core` | first the engine of `DispatchEngine` is configured, with up to 4 ranges over 3 bounds and any registry, and values around every bound are evaluated; once it is configured as `bootstrapDispatcher` does it, 2 streams of 2 frames, 2 addresses in 2 shards, 2 session objects, balance 3; on one address two heavy frames with different rules, on the other one of negative size without a rule (613 001 states) | `RangesFound` against the reference `RangeOf`, `OverdraftBound`, `FramesAccounted`, `VerdictOfARule`, `ShardIsolation` |
| `bus` | packs of 2, 1 and 0 records, a topic of 2, consumers of up to 2 and 1 records (29 200 states) | `RecordsAccounted`, `AckCoversPack`, `BatchesShareOut`, `LogSpec`, `EveryPushEnds` |
| `olap` | 3 batches of 2 lines by one collector, whose calls may break so that several are at the store at once (145 362 states) | `BatchesContiguous`, `CommittedIsWhole`, `BatchesSettle` |
| `policy` | an Accounting-Start and two Gx calls on one address, for a VIP, an unknown or no subscriber; the VIP may be suspended; one media session (326 586 states) | `SessionFromCurrentProfile`, `AckedIsInForce`, `EveryCallSettles` |
| `cluster` | both deployments; ue-emulator, pcef-core, ocs-rating and message-bus with a stream, a charge within it and a CDR push after that (55 556 states) | `DrainedIsIdle`, `NoOrphans`, `SignalledExits`, `CallsSettle` |

Three calls are enough for the lock-free parts because the lost-update, ABA and
interrupted-between-two-CASes patterns involve two calls and a third that has changed the
value; the theorems remove the bound where they apply. The packs of `bus` exceed the topic,
so records are dropped; the frames of `pcef_core` exceed the balance and the session objects
suffice for one replacement in mid-frame; three batches suffice for two at the store and one
after a restart; the instance of `cluster` has the longest chain of calls there is. In `ocs_sessions` the two kinds of
traffic use different subscribers on purpose: an UPDATE commits bytes out of the
subscriber's common reserve, whichever session they were reserved for, so on one subscriber
they do not keep their books apart.

Runs that find a violation, each a disagreement between the code and what the repository
says of it (details and quotes under `findings`):

| Run | What happens |
|---|---|
| `ocs_retry` | two TERMINATEs of one session both refund it |
| `lru_stuck` | the first expiry deadlocks the janitor on its own mutex, and the shard with it |
| `policy_suspended` | the session of a suspended subscriber is registered with the full bandwidth instead of 0 downlink |

**Facts met while modelling**, which the properties are worded around:

- An UPDATE before the TERMINATE of a session unbalances the books of the OCS, with one request
  at a time: after INITIAL 3, UPDATE 1, TERMINATE the 2 bytes the UPDATE left of the first
  quantum stay in the reserve for ever (service.go:51); after INITIAL of the whole balance,
  UPDATE of all of it (refused with 4012) and TERMINATE the same bytes are charged and refunded
  (service.go:103). With `Offer` set to these requests and `After` to this order TLC finds
  `BooksSettle` and `CreditConserved` violated. pcef-core sends no INITIAL and
  never uses a session id twice, so its traffic does none of this, but it never releases a
  quantum either.
- A call of `Allow` between the two CASes of another credits the same interval again
  (limiter.go:92): racing streams of one client get more than burst + rate x time.
- The rule table has no entry for a small frame of a streaming host: it is charged and never
  answered (pcef-core service.go:146). `FramesAccounted` counts it as unanswered.
- A verdict may carry the bandwidth of the rule of another frame of the same session
  (service.go:156). `VerdictOfARule` is what remains true.
- `ProcessedBytes`, described as the bytes let through, counts dropped and throttled frames too.
- A suspended subscriber gets the rule `QUOTA_EXHAUSTED` (pcrf-engine service.go:36), for which
  pcef-core registers a BASE session with 100 Mbit/s: only `VIP_UNLIMITED` is looked at. This
  contradicts pcrf-srs.md:18-19 (0 downlink) and is the finding of `policy_suspended`.
  `SessionFromCurrentProfile` only says when a session may be VIP or BASE; it also allows a
  suspension between the fetch and the push, which nothing in the code sees.
- A frame of negative size takes the whole balance of its subscriber (service.go:135). ue-emulator
  sends none.
- access-gateway's `DYNAMIC_BOOTSTRAP` turns the session of a VIP into a BASE one.
- **Who reaches whom is not what the documents say.** Started by `make run-local`, spr-storage
  does not find its file and listens on :50050, while the PCRF dials :9042: the PCRF never
  reaches the SPR, although pcrf-specification.md:20 has it fetch the profile there and
  launch.md:5 promises all 10 nodes end to end. In the k8s image the file is at another path
  than every `main` but that of spr-storage expects, so all services listen on :50050 and no
  client is connected, although launch.md:58-70 and Makefile:38 call this the deployed system.
  Both are constants of a deployment that no step changes, so they are no property of a run:
  `ServiceConfig` computes the connections, and `MCCluster` has TLC evaluate them as the
  assumptions `LocalWiring` and `K8sWiring`, which state the code's side of the disagreement.

**Deadlock** is off where the system may rest: all calls of an instance answered, all frames
handled, all processes ended, or, in `ReactiveLru`, a stuck shard (which `EveryCallReturns`
reports instead).

**Fairness.** Weak fairness of every goroutine that has been started, which is what the Go
scheduler gives a runnable goroutine. A critical section is one action, so the mutex of
`ReactiveLru` is free in every state until the janitor keeps it, and a waiting client is
enabled all that time (`sync.RWMutex` serves waiters in turn). In `PcefCore` the assumption includes that RPCs to the
OCS return or fail (gRPC reports a broken connection; `ctx` of the stream bounds the call).
Nothing is assumed of clients: they may stop sending at any time. Time may stop too.
In `MessageBus` a request that was sent arrives or is lost, and handlers run; consumers may
never come. In `OlapStore` the steps of `InsertBatch` are fair together per batch; a batch
that waits for the mutex is served as `sync.Mutex` serves waiters, and each batch takes it
once. In `PolicyControl` handlers run, but no call is assumed to fail. In
`Cluster` the timeout of the shutdown passes and `main` goes on, and handlers that can return
do; streams are never assumed to end.

## 4. Proofs

All theorems are checked by TLAPS with the SMT and Zenon backends, for every value of the
constants that satisfies the modules' assumptions. The types of `PcefCore`, `MessageBus`,
`PolicyControl` and `Cluster` are parts of these theorems and not invariants of the runs.

**OcsRatingProofs.** Sums over calls are the common difficulty: conservation speaks of all
quanta together. `UnitSums` writes a sum as the number of units (call, index), so that a step
that changes one call's share changes the sum by that share (`UnitsGrow`, `UnitsShrink`,
`UnitsLess`), and finiteness comes out as part of the invariants; `Calls` may be infinite.

- **`TypeCorrect`**, `Spec => []TypeOK`. `TypeOK` is not inductive: that a call at a given
  place has a subscriber with an account must be known. `TypeInv` adds this (`Routed`).
  `LeastLemma` and `SwapLemma` carry the point: a debit is clamped to the value loaded and
  swapped only for that value, so no counter goes below zero.
- **`CreditNeverLostTheorem`**, for arbitrary requests. `NetStep` shows, action by action,
  that Books - settling of an account never decreases; only `CasRelease` can increase it, and
  does not when the reserve covers the quota it clears (`Covers`).
- **`NoOversellTheorem`**, for arbitrary requests. A quantum counts as granted from its CAS
  on (`Pledged`), although the client learns of it later; `SoldInv` is an equation between
  what is pledged, what is left and what terminations have repaid, and `PathInv` ties the
  place of a call to the type of its request and to its answer.
- **`ServiceRefinement`**, `Spec => ServiceSpec`, for arbitrary requests. `AnswerInv` adds to
  `PathInv` and `SessionInv` (below; neither needs a hypothesis) that an answer is given at the
  end only and tells what was granted, and that a reservation at its CAS has seen credit.
  `OutcomeStep` says that a step decides nothing for other calls, and `QuantaOpened` that the
  quanta clients were told of are those of the calls that opened the session; so `Stored` and
  `Found` justify a repayment, and `Kept` a refusal. `StepService` has one case per decision.
- **`CreditConservedTheorem`**, **`BooksSettleTheorem`** and **`LedgerRefinement`**, under
  `OrderlyTerminations`: a TERMINATE that names the session of another request is sent by the
  subscriber that opened it with an INITIAL, after the answer, once, and that subscriber sends
  no UPDATE. Traffic in which no TERMINATE names another request's session satisfies it
  trivially; pcef-core makes a new id for every request and so is of this kind. The
  hypothesis is about the workload only, and `MCOcsRating` has TLC check (`OrderlyWorkload`)
  that `SessionsOffer` meets it and the workloads of the other runs do not. `ocs_retry` shows what a
  second TERMINATE does, section 3 what an UPDATE before it does. The invariants:
  - `SessionInv`: a request is one its client could send, in its turn (`Origin`); a stored
    session holds what an answered call was granted (`Stored`), a TERMINATE past its lookup
    has found that (`Found`), and only a TERMINATE removes a session (`Kept`). With the
    hypothesis, such a TERMINATE has one partner and no rival (`PairFound`).
  - `TransitInv`: `inflight` and `settling`, history variables that are only added to and
    subtracted from, are the sums of what calls at certain places carry; so they are natural.
  - `ReserveInv`: the reserve of an account is what its unsettled sessions hold plus what
    terminations are about to clear. Hence the last CAS of `Release` finds enough to clear
    (`ReserveCovers`), `Net` never changes, and an idle server without sessions holds nothing
    (`NothingHeld`). For an account with UPDATEs this equation is false, since an UPDATE commits
    bytes of whichever session; there the invariant says that nothing is ever settled.
  - `StepLedger` then maps `CasTotal` to Grant, `CasReserved` to Commit, `Refund` to Settle
    and every other step to a stutter.

**TokenBucketProofs.** `TypeCorrect`, `TokensConservedTheorem`, `NoFalseDenialTheorem`: `Inv`
adds that a call beyond `LoadOrStore` has a bucket (`BucketStored`), that a bucket not yet
stored is full (`Untouched`), that a call about to swap can afford its token (`Affordable`),
and that a call about to deny has a reason that stays true (`Justified`: tokens spent never
decrease). **`SerialAdmissionBoundTheorem`** and **`RefillStampMonotoneTheorem`** need
`SerialInv`: while no two calls for a key have overlapped, the one in progress has read the
stamp as it still is (`Serial`), and the credit given so far is at most the refill of the
whole time up to the stamp, or up to the one the call between its two CASes is about to write
(`Paced`). What makes it inductive is arithmetic: refills rounded down separately add up to no
more than the refill of the sum (`RefillAdds`, from `DivSuper`). That the stamp only moves forward is proved and
has no run of its own: an interval credited twice shows in `SerialAdmissionBound`.

**ReactiveLruProofs.** `NoLostWakeupTheorem`: inductive together with the types of five
variables. **`TypeCorrect`**, **`TapeWellFormedTheorem`**, **`LiveSessionsFirstTheorem`** and
**`OnlyIdleSessionsLeaveTheorem`** rest on `TapeInv`: some arrangement of the nodes is what
the pointers spell out in both directions (`Order`), and the sessions of the index are its
first `activeCount` nodes with heartbeats in descending order (`Live`). `PushOrder` and `MoveOrder` say which
arrangement the pointer surgery of `PushHead` and `MoveToHead` yields. The invariants
themselves are stated with the recursive function `NodeAt`, which follows the next pointers;
`NodeAtOrder` identifies it with the arrangement. That is an induction over positions, done as
the search for the least position at which the two differ (`LeastNat`, from the
well-foundedness of the naturals), because the library's induction theorems are out of reach.
**`RecencyRefinement`** uses the same arrangements: `Moved` read through the first
`activeCount` positions is `Use` (`TouchRecency`), reuse and growth put a node before the
others (`AddRecency`), and since `NodeAt` is the arrangement after the step, too (`Spelled`),
the list of the model is the one of the specification. `OnlyIdleSessionsLeave` has no run
of its own: it is the guard of the one step of `RecencyList` by which a session leaves.

**PcefCoreProofs.**

- **`VerdictsRuled`**, `Spec => [](TypeOK /\ VerdictOfARule)`. Neither is inductive.
  `Home` says that a session object belongs to one address for good, however often the address
  gets a new one, so all streams that write or read its bandwidth carry frames of that
  address; `Ruled` carries a rule's bandwidth from `Execute` to the verdict; `Counts` bounds the
  frame counters that `TypeOK` mentions.
- **`OverdraftBounded`**. The bytes a stream carries between
  its charge and its answer already count as delivered (`Due`), so the bound is settled at the
  charge. A charge takes the whole frame, or the rest of the balance for a larger one; after that
  the balance is 0 and no charge succeeds again, so the excess is less than one frame. A frame of
  negative size delivers nothing, whatever it takes (`FrameType`: what a frame carries is 0 or
  what it reports).
- **`FramesAccountedTheorem`**: `FramesInv` adds that the sums are finite; each step takes a
  frame up or lets it go (`TakesUp`, `LetsGo`) and adds one unit to one sum (`OneMore`).
- **`RangesFoundTheorem`**, about `DispatchEngine` with any configuration, not only the one of `PcefCore`,
  for bounds and values that are integers. `Bisection`
  says that the search ends where the entries not below the value begin: it computes the function
  `Clamp` on every interval, since a shortest interval on which it did not would be split into
  shorter ones (`LeastNat`). `EngineInv` says that the table is the configuration in some order
  that keeps ranges of equal bounds as they were added (`Order`), and `Inserts` that
  `AddRangeConfig` puts a range behind all that are not greater. The model's table
  is that of the code up to 12 ranges, for which `sort.Slice` is an insertion sort; beyond that Go does
  not promise the order of equal bounds.

**MessageBusProofs.** `Accounting` (`TypeOK` and `RecordsAccounted`), `AcksCover` and
`ImplementsLog`. `StepCases` shows that a step accepts, drops or reads one record or leaves
the topic alone; the record offered is the one `next` points at, and nothing at or behind
`next` is anywhere yet. `MoveHead` and `AppendLast` are the facts on sequences the
refinement rests on. **`BatchesShareOutTheorem`** adds that the topic has the records of a pack in
their order (`InOrder`), which a consumer that appends what it receives inherits.

**OlapStoreProofs.** **`TypeCorrect`**, **`BatchesContiguousTheorem`**, **`CommittedIsWholeTheorem`**.
A handler with an open file holds the mutex and its lines reach to the end of the file
(`Progress`, `AtTheEnd`), so the line it writes extends its own block; lines written and lines
lost add up to the lines it has gone through (`Counted`).

**PolicyControlProofs.** `ProfilesRule`, `Spec => [](TypeOK /\ SessionFromCurrentProfile)`. From the
fetch on the rules of a call are those of the profile it read (`Grounded` in `CallInv`), and
`SessionInv` ties a session to the call it came from, whose rules no longer change.
**`AckedIsInForceTheorem`** follows from `AckInv`: a call counts as earlier than another only
when it is over for good, handler included, so it cannot register any more, and has read no
later profile than was in force when the other began (`CallsGoOn`: no step takes any of this
back). The one way an acknowledged session ends without a later call is `Expire`; the invariant
then says that the shard is stuck, so that no session can take its place.

**ClusterProofs.** `OrderlyShutdown`: `DrainedIsIdle`, `CutOnlyByTimeout` and `NoOrphans` are
inductive only together with the types, for any deployments and calls; `NoOrphansTheorem` states
the last by itself. From the assumptions: a client has one connection, and a call is made by the
process that serves its handler.

Assumptions are the `ASSUME`s of the modules: types of the constants, frames not
empty and one of them the largest (needed by `OverdraftBounded` only),
sizes that fit an int64 (`WrapAssumption`), capacity at least 2 for the cache, `OrderlyTerminations` only where it is named.

**Only model-checked.** Liveness (`EveryRequestAnswered`, `EveryCallDecided`, `ShardIsolation`,
`EveryPushEnds`, `BatchesSettle`, `EveryCallSettles`, `SignalledExits`,
`CallsSettle`), which is outside this prover; and the connections of the two deployments
(`LocalWiring`, `K8sWiring`), which TLC evaluates.

## 5. Not modelled

- `logger` and the export of metrics: pure I/O.
- Serialization in `pb/gen` (generated); `pb/*.go` is a second copy that nothing imports.
- `float64` rounding in the limiter, and `uint64` counters above 2^64.
- A wall clock that is set back under the limiter (section 2, TokenBucket).
- The code behind the janitor's `GetLen`, which is never reached.
- The pauses and random choices of ue-emulator: its frames may come at any time.
- The text of records and log lines. The `udp` handlers of the services are empty files.

## 6. What could follow

A composition of `PcefCore` with `OcsRating` itself in place of its summary of the OCS. The
product of the two is large for TLC, and less is missing than it seems: `Charge` and
`ChargeRefused` of `PcefCore` are `Grant` and `Refuse` of `CreditService` for an UPDATE, with
the size of the frame as the bytes asked for, and `ServiceRefinement` proves that the server
decides every request by one such step between call and answer.
