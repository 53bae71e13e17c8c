----------------------------- MODULE ReactiveLru -----------------------------
(***************************************************************************)
(* The session cache of pcef-core (internal/pkg/lru): one shard, the stream *)
(* handlers that call Get and Set on it, and its janitor goroutine.         *)
(*                                                                          *)
(* The cache is an index from keys to nodes and a doubly linked tape of     *)
(* nodes, most recently used first.  The first Capacity nodes are allocated *)
(* once; a Set takes the node at the tail while fewer than Capacity         *)
(* sessions live, and allocates one more node otherwise.                    *)
(*                                                                          *)
(* Get and Set change the cache inside one critical section of c.mu, so     *)
(* each is one action that needs the mutex free; Set signals the janitor    *)
(* after unlocking, which is an action of its own.  The janitor keeps the   *)
(* mutex over more than one action only when it evicts: it then calls       *)
(* GetLen, which asks for a read lock of the same mutex.  sync.RWMutex is   *)
(* not reentrant, so that call never returns and the rest of the eviction   *)
(* (reactive_cache.go:187-201, removeNodePhysical and the eviction          *)
(* callback) is unreachable; there is no action for it.                     *)
(*                                                                          *)
(* A definition named XMutant is X with a plausible bug in it; it is not    *)
(* part of the specification, and shows that some property notices the bug. *)
(***************************************************************************)
EXTENDS Integers, FiniteSets

CONSTANTS Clients,      \* goroutines that use the cache
          Keys,         \* session keys (IP addresses)
          NoKey,        \* the empty key of a node that never held a session
          Capacity,     \* nodes allocated at the start
          MaxNodes,     \* bound on nodes; |Keys| of them can be in use
          IdleTimeout,  \* of a session, in ticks
          MaxClock      \* bound on time

Nil == 0
Nodes == 1 .. MaxNodes
NodeOrNil == Nodes \cup {Nil}

ASSUME KeysAssumption == NoKey \notin Keys
ASSUME CapacityAssumption ==
    Capacity \in Nat /\ MaxNodes \in Nat /\ 2 <= Capacity /\ Capacity <= MaxNodes
ASSUME TimeAssumption == IdleTimeout \in Nat \ {0} /\ MaxClock \in Nat

VARIABLES
    mu,           \* c.mu: "free", or "janitor" while the janitor keeps it
    items,        \* [Keys -> NodeOrNil]  the index
    tape,         \* the linked nodes: head, tail, next, prev
    nodeKey,      \* [Nodes -> Keys \cup {NoKey}]
    heartbeat,    \* [Nodes -> Nat]  lastHeartbeat
    allocated,    \* how many nodes exist
    activeCount,
    activeTail,   \* the node the janitor watches, or Nil
    wakeupChan,   \* signals in the channel, of capacity 1
    clock, cancelled,        \* time, and whether ctx is done
    jpc, sleepUntil,         \* the janitor
    pc, arg, wasEmpty        \* the clients: step, key, Set's isEmpty

cache   == <<items, tape, nodeKey, heartbeat, allocated, activeCount, activeTail>>
janitor == <<jpc, sleepUntil>>
clients == <<pc, arg, wasEmpty>>
vars    == <<mu, cache, wakeupChan, clock, cancelled, janitor, clients>>

Tape == [head : NodeOrNil, tail : NodeOrNil,
         next : [Nodes -> NodeOrNil], prev : [Nodes -> NodeOrNil]]

TypeOK ==
    /\ mu          \in {"free", "janitor"}
    /\ items       \in [Keys -> NodeOrNil]
    /\ tape        \in Tape
    /\ nodeKey     \in [Nodes -> Keys \cup {NoKey}]
    /\ heartbeat   \in [Nodes -> Nat]
    /\ allocated   \in Capacity .. MaxNodes
    /\ activeCount \in Nat
    /\ activeTail  \in NodeOrNil
    /\ wakeupChan  \in 0 .. 1
    /\ clock       \in Nat
    /\ cancelled   \in BOOLEAN
    /\ jpc         \in {"top", "await", "sleep", "getLen", "exit"}
    /\ sleepUntil  \in Nat
    /\ pc          \in [Clients -> {"idle", "get", "set", "wakeup"}]
    /\ arg         \in [Clients -> Keys \cup {NoKey}]
    /\ wasEmpty    \in [Clients -> BOOLEAN]

\* NewReactiveLruCache and the start of the janitor: nodes 1 .. Capacity, blank
\* and linked in order.
Init ==
    /\ mu = "free"
    /\ items = [k \in Keys |-> Nil]
    /\ tape = [head |-> 1, tail |-> Capacity,
               next |-> [n \in Nodes |-> IF n < Capacity THEN n + 1 ELSE Nil],
               prev |-> [n \in Nodes |-> IF n <= Capacity THEN n - 1 ELSE Nil]]
    /\ nodeKey = [n \in Nodes |-> NoKey]
    /\ heartbeat = [n \in Nodes |-> 0]
    /\ allocated = Capacity
    /\ activeCount = 0
    /\ activeTail = Nil
    /\ wakeupChan = 0
    /\ clock = 0
    /\ cancelled = FALSE
    /\ jpc = "top"
    /\ sleepUntil = 0
    /\ pc = [p \in Clients |-> "idle"]
    /\ arg = [p \in Clients |-> NoKey]
    /\ wasEmpty = [p \in Clients |-> FALSE]

-----------------------------------------------------------------------------
(***************************************************************************)
(* Pointer operations on the tape.                                          *)
(***************************************************************************)
\* f.field = v, where f may be nil.
Link(f, n, v) == IF n = Nil THEN f ELSE [f EXCEPT ![n] = v]

\* The last assignments of every operation: n becomes the head.
PushHead(t, n) ==
    [t EXCEPT !.head = n,
              !.next = [@ EXCEPT ![n] = t.head],
              !.prev = Link([@ EXCEPT ![n] = Nil], t.head, n)]

MoveToHeadMutant(t, n) ==
    IF n = t.head THEN t
    ELSE PushHead([t EXCEPT !.next = Link(@, t.prev[n], t.next[n]),
                            !.prev = Link(@, t.next[n], t.prev[n])], n)

MoveToHead(t, n) ==
    IF n = t.head THEN t
    ELSE PushHead([t EXCEPT
                     !.next = Link(@, t.prev[n], t.next[n]),
                     !.prev = Link(@, t.next[n], t.prev[n]),
                     !.tail = IF n = @ THEN t.prev[n] ELSE @], n)

\* Cut the node off the tail, if another one remains, and put it at the head.
RotateTailMutant(t) == t

RotateTail(t) ==
    LET n == t.tail
        p == t.prev[n]
    IN  PushHead([t EXCEPT !.tail = IF p # Nil THEN p ELSE @,
                           !.next = Link(@, p, Nil)], n)

-----------------------------------------------------------------------------
(***************************************************************************)
(* Clients.                                                                 *)
(***************************************************************************)
Goto(p, label) == pc' = [pc EXCEPT ![p] = label]

Call(p, op, k) ==
    /\ pc[p] = "idle"
    /\ Goto(p, op)
    /\ arg' = [arg EXCEPT ![p] = k]
    /\ UNCHANGED <<mu, cache, wakeupChan, clock, cancelled, janitor, wasEmpty>>

\* A hit of Get, or Set of a key that is in the index.
TouchMutant(n) ==
    /\ heartbeat' = [heartbeat EXCEPT ![n] = clock]
    /\ UNCHANGED <<tape, items, nodeKey, allocated, activeCount, activeTail>>

Touch(n) ==
    /\ heartbeat' = [heartbeat EXCEPT ![n] = clock]
    /\ tape' = MoveToHead(tape, n)
    /\ UNCHANGED <<items, nodeKey, allocated, activeCount, activeTail>>

Get(p) ==
    /\ pc[p] = "get" /\ mu = "free"
    /\ IF items[arg[p]] # Nil THEN Touch(items[arg[p]]) ELSE UNCHANGED cache
    /\ Goto(p, "idle")
    /\ UNCHANGED <<mu, wakeupChan, clock, cancelled, janitor, arg, wasEmpty>>

SetExisting(p) ==
    /\ pc[p] = "set" /\ mu = "free"
    /\ items[arg[p]] # Nil
    /\ Touch(items[arg[p]])
    /\ Goto(p, "idle")
    /\ UNCHANGED <<mu, wakeupChan, clock, cancelled, janitor, arg, wasEmpty>>

\* Node n receives the session of key k.
Occupy(n, k) ==
    /\ nodeKey' = [nodeKey EXCEPT ![n] = k]
    /\ heartbeat' = [heartbeat EXCEPT ![n] = clock]
    /\ activeCount' = activeCount + 1

\* Phase 1: the node at the tail is reused; a key it still carries leaves the
\* index.
SetReuse(p) ==
    LET k == arg[p]
        n == tape.tail
    IN  /\ pc[p] = "set" /\ mu = "free"
        /\ items[k] = Nil
        /\ activeCount < Capacity
        /\ items' = [x \in Keys |-> IF x = k THEN n
                                    ELSE IF x = nodeKey[n] THEN Nil ELSE items[x]]
        /\ Occupy(n, k)
        /\ tape' = RotateTail(tape)
        /\ activeTail' = IF activeCount = 0 THEN n ELSE activeTail
        /\ wasEmpty' = [wasEmpty EXCEPT ![p] = activeCount = 0]
        /\ Goto(p, "wakeup")
        /\ UNCHANGED <<mu, allocated, wakeupChan, clock, cancelled, janitor, arg>>

\* Phase 2: a new node.
SetGrow(p) ==
    LET k == arg[p]
        n == allocated + 1
    IN  /\ pc[p] = "set" /\ mu = "free"
        /\ items[k] = Nil
        /\ activeCount >= Capacity
        /\ allocated < MaxNodes
        /\ allocated' = n
        /\ items' = [items EXCEPT ![k] = n]
        /\ Occupy(n, k)
        /\ tape' = PushHead(tape, n)
        /\ wasEmpty' = [wasEmpty EXCEPT ![p] = activeCount = 0]
        /\ Goto(p, "wakeup")
        /\ UNCHANGED <<mu, activeTail, wakeupChan, clock, cancelled, janitor, arg>>

\* The channel after a non-blocking send by the Set that made the cache
\* non-empty.
SignalMutant(p) == wakeupChan
SignalUnboundedMutant(p) == wakeupChan + 1
Signal(p) == IF wasEmpty[p] THEN 1 ELSE wakeupChan

\* triggerWakeup, after the unlock.
TriggerWakeup(p) ==
    /\ pc[p] = "wakeup"
    /\ wakeupChan' = Signal(p)
    /\ Goto(p, "idle")
    /\ UNCHANGED <<mu, cache, clock, cancelled, janitor, arg, wasEmpty>>

-----------------------------------------------------------------------------
(***************************************************************************)
(* The janitor.                                                             *)
(***************************************************************************)
Nothing == activeCount = 0 \/ activeTail = Nil
Expired == clock - heartbeat[activeTail] >= IdleTimeout

\* No live session: reset, unlock, and wait on the channel.
JanitorIdle ==
    /\ jpc = "top" /\ mu = "free"
    /\ Nothing
    /\ activeTail' = Nil
    /\ activeCount' = 0
    /\ jpc' = "await"
    /\ UNCHANGED <<mu, items, tape, nodeKey, heartbeat, allocated, wakeupChan,
                   clock, cancelled, sleepUntil, clients>>

JanitorWoken ==
    /\ jpc = "await"
    /\ wakeupChan = 1
    /\ wakeupChan' = 0
    /\ jpc' = "top"
    /\ UNCHANGED <<mu, cache, clock, cancelled, sleepUntil, clients>>

\* The watched session is alive: unlock and sleep for the rest of its time.
JanitorSleep ==
    /\ jpc = "top" /\ mu = "free"
    /\ ~Nothing /\ ~Expired
    /\ sleepUntil' = heartbeat[activeTail] + IdleTimeout
    /\ jpc' = "sleep"
    /\ UNCHANGED <<mu, cache, wakeupChan, clock, cancelled, clients>>

JanitorTimer ==
    /\ jpc = "sleep"
    /\ clock >= sleepUntil
    /\ jpc' = "top"
    /\ UNCHANGED <<mu, cache, wakeupChan, clock, cancelled, sleepUntil, clients>>

\* The watched session has expired: it leaves the index, and the janitor, still
\* holding the write lock, goes into GetLen.
JanitorExpire ==
    /\ jpc = "top" /\ mu = "free"
    /\ ~Nothing /\ Expired
    /\ items' = [items EXCEPT ![nodeKey[activeTail]] = Nil]
    /\ activeCount' = activeCount - 1
    /\ mu' = "janitor"
    /\ jpc' = "getLen"
    /\ UNCHANGED <<tape, nodeKey, heartbeat, allocated, activeTail, wakeupChan,
                   clock, cancelled, sleepUntil, clients>>

\* ctx.Done in either of the two selects.
JanitorExit ==
    /\ jpc \in {"await", "sleep"}
    /\ cancelled
    /\ jpc' = "exit"
    /\ UNCHANGED <<mu, cache, wakeupChan, clock, cancelled, sleepUntil, clients>>

Cancel ==
    /\ ~cancelled
    /\ cancelled' = TRUE
    /\ UNCHANGED <<mu, cache, wakeupChan, clock, janitor, clients>>

Tick ==
    /\ clock < MaxClock
    /\ clock' = clock + 1
    /\ UNCHANGED <<mu, cache, wakeupChan, cancelled, janitor, clients>>

-----------------------------------------------------------------------------
ClientRun(p) ==
    Get(p) \/ SetExisting(p) \/ SetReuse(p) \/ SetGrow(p) \/ TriggerWakeup(p)

JanitorRun ==
    \/ JanitorIdle \/ JanitorWoken \/ JanitorSleep \/ JanitorTimer
    \/ JanitorExpire \/ JanitorExit

Next ==
    \/ \E p \in Clients : \/ \E op \in {"get", "set"}, k \in Keys : Call(p, op, k)
                          \/ ClientRun(p)
    \/ JanitorRun
    \/ Cancel
    \/ Tick

Spec == Init /\ [][Next]_vars

\* The scheduler runs every goroutine that can run, and the mutex is handed
\* over fairly; no assumption is made on when clients call or time passes.
FairSpec ==
    Spec /\ WF_vars(JanitorRun) /\ \A p \in Clients : WF_vars(ClientRun(p))

-----------------------------------------------------------------------------
\* The i-th node of the tape, counted from the head.
NodeAt[i \in 1 .. allocated] ==
    IF i = 1 THEN tape.head
    ELSE IF NodeAt[i - 1] = Nil THEN Nil ELSE tape.next[NodeAt[i - 1]]

(***************************************************************************)
(* The tape is one doubly linked list of all allocated nodes: following     *)
(* next from the head reaches every node once and ends at the tail, and     *)
(* prev is its inverse.  The pointer surgery of Set and moveToHead neither  *)
(* drops a node nor closes a cycle.                                         *)
(***************************************************************************)
TapeWellFormed ==
    /\ {NodeAt[i] : i \in 1 .. allocated} = 1 .. allocated
    /\ NodeAt[allocated] = tape.tail
    /\ tape.next[tape.tail] = Nil /\ tape.prev[tape.head] = Nil
    /\ \A i \in 2 .. allocated : tape.prev[NodeAt[i]] = NodeAt[i - 1]

(***************************************************************************)
(* Whenever the mutex is free, the first activeCount nodes of the tape are  *)
(* the sessions in the index, each under its own key, the most recent       *)
(* heartbeat first; the nodes behind them are blank.  So Set, which reuses  *)
(* the node at the tail, never takes the node of a live session.            *)
(***************************************************************************)
LiveSessionsFirst ==
    mu = "free" =>
        /\ \A i \in 1 .. allocated :
              IF i <= activeCount
                THEN /\ nodeKey[NodeAt[i]] \in Keys
                     /\ items[nodeKey[NodeAt[i]]] = NodeAt[i]
                ELSE nodeKey[NodeAt[i]] = NoKey
        /\ \A i \in 2 .. activeCount :
              heartbeat[NodeAt[i - 1]] >= heartbeat[NodeAt[i]]
        /\ activeCount = Cardinality({k \in Keys : items[k] # Nil})

(***************************************************************************)
(* The tape implements a list of the live sessions, most recently used      *)
(* first: whatever the callers do, moving a node to the head keeps the      *)
(* others in their order, and reuse of the tail and growth put the new      *)
(* session in front of all.  A session that expires still counts as long as *)
(* the janitor holds the mutex, which is for ever.                          *)
(***************************************************************************)
Listed == IF mu = "free" THEN activeCount ELSE activeCount + 1

Recency == INSTANCE RecencyList WITH
             recent  <- [i \in 1 .. Listed |->
                            [key |-> nodeKey[NodeAt[i]], at |-> heartbeat[NodeAt[i]]]],
             expired <- IF mu = "free" THEN NoKey ELSE nodeKey[activeTail],
             now     <- clock

RecencySpec == Recency!Spec

(***************************************************************************)
(* A session leaves the index only when its own idle time has run out: no   *)
(* Get or Set of another session, and no growth, ever removes it.           *)
(***************************************************************************)
OnlyIdleSessionsLeave ==
    [][\A k \in Keys : (items[k] # Nil /\ items'[k] = Nil) =>
           clock - heartbeat[items[k]] >= IdleTimeout]_vars

(***************************************************************************)
(* No wake-up is lost: while a session is live and the janitor waits on its *)
(* channel, a signal is in the channel or a Set is about to send one, even  *)
(* though Set signals only after it has unlocked.                           *)
(***************************************************************************)
NoLostWakeup ==
    (jpc = "await" /\ activeCount > 0) =>
        \/ wakeupChan = 1
        \/ \E p \in Clients : pc[p] = "wakeup" /\ wasEmpty[p]

(***************************************************************************)
(* Every Get and Set returns.  The janitor that expires a session never     *)
(* lets go of the mutex, so this does not hold.                             *)
(***************************************************************************)
EveryCallReturns == \A p \in Clients : pc[p] # "idle" ~> pc[p] = "idle"
=============================================================================
