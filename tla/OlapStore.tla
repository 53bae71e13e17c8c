------------------------------ MODULE OlapStore ------------------------------
(***************************************************************************)
(* The batching worker (services/ofcs-collector) and the store it writes to *)
(* (services/olap-analytics).  A ticker makes the worker send a batch of    *)
(* records per tick; the store appends each batch to a segment file under a *)
(* mutex.  The worker makes the records up: it never reads the topic.       *)
(*                                                                          *)
(* The client of a batch may see an error while the store goes on with it,  *)
(* so the state of the handler is kept per batch.  The store's process may  *)
(* end and start again; the file stays.                                     *)
(*                                                                          *)
(* A definition named XMutant is X with a plausible bug in it.              *)
(***************************************************************************)
EXTENDS Integers, Sequences, FiniteSets

CONSTANTS Collectors,  \* collector processes
          Lines,       \* records per batch (30)
          MaxBatches,  \* bound on the batches a collector sends
          Free         \* the mutex is held by no batch

ASSUME LinesAssumption == Lines \in Nat /\ MaxBatches \in Nat

Batch == Collectors \X (1 .. MaxBatches)
ASSUME FreeAssumption == Free \notin Batch

VARIABLES
    tick,     \* [Collectors -> BOOLEAN]: ticker.C holds a tick
    stop,     \* [Collectors -> BOOLEAN]: stopChan is closed
    worker,   \* [Collectors -> place]
    sent,     \* [Collectors -> Nat]: batches sent so far
    answer,   \* [Batch -> what the worker has learnt]
    handler,  \* [Batch -> place of the store's handler]
    line,     \* [Batch -> Nat]: lines the handler has tried to write
    mu,       \* who holds the store's mutex
    file,     \* data.bin: for each line the batch it comes from
    lost      \* history: [Batch -> Nat], lines whose Write failed

collectorVars == <<tick, stop, worker, sent>>
storeVars     == <<handler, line, mu, file, lost>>
vars      == <<collectorVars, answer, storeVars>>

TypeOK ==
    /\ tick    \in [Collectors -> BOOLEAN]
    /\ stop    \in [Collectors -> BOOLEAN]
    /\ worker  \in [Collectors -> {"select", "wait", "stopped", "gone"}]
    /\ sent    \in [Collectors -> 0 .. MaxBatches]
    /\ answer  \in [Batch -> {"none", "committed", "error"}]
    /\ handler \in [Batch -> {"none", "sent", "lock", "open", "write", "done",
                              "failed", "cut"}]
    /\ line    \in [Batch -> 0 .. Lines]
    /\ mu      \in Batch \cup {Free}
    /\ file    \in Seq(Batch)
    /\ lost    \in [Batch -> 0 .. Lines]

Init ==
    /\ tick = [k \in Collectors |-> FALSE]
    /\ stop = [k \in Collectors |-> FALSE]
    /\ worker = [k \in Collectors |-> "select"]
    /\ sent = [k \in Collectors |-> 0]
    /\ answer = [b \in Batch |-> "none"]
    /\ handler = [b \in Batch |-> "none"]
    /\ line = [b \in Batch |-> 0]
    /\ mu = Free
    /\ file = <<>>
    /\ lost = [b \in Batch |-> 0]

-----------------------------------------------------------------------------
\* The ticker drops a tick if the last one has not been taken.
Tick(k) ==
    /\ worker[k] # "gone"
    /\ tick' = [tick EXCEPT ![k] = TRUE]
    /\ UNCHANGED <<stop, worker, sent, answer, storeVars>>

\* The select of the worker: send a batch on a tick ...
SendBatch(k) ==
    /\ worker[k] = "select"
    /\ tick[k]
    /\ sent[k] < MaxBatches
    /\ tick' = [tick EXCEPT ![k] = FALSE]
    /\ sent' = [sent EXCEPT ![k] = @ + 1]
    /\ worker' = [worker EXCEPT ![k] = "wait"]
    /\ handler' = [handler EXCEPT ![<<k, sent[k] + 1>>] = "sent"]
    /\ UNCHANGED <<stop, answer, line, mu, file, lost>>

\* ... or end; if both are ready Go picks either.
WorkerStops(k) ==
    /\ worker[k] = "select"
    /\ stop[k]
    /\ worker' = [worker EXCEPT ![k] = "stopped"]
    /\ UNCHANGED <<tick, stop, sent, answer, storeVars>>

\* A signal: GracefulStop closes stopChan and does not wait for the worker.
Stop(k) ==
    /\ ~stop[k]
    /\ stop' = [stop EXCEPT ![k] = TRUE]
    /\ UNCHANGED <<tick, worker, sent, answer, storeVars>>

\* main returns, wherever the worker is.
Exit(k) ==
    /\ stop[k]
    /\ worker[k] # "gone"
    /\ worker' = [worker EXCEPT ![k] = "gone"]
    /\ UNCHANGED <<tick, stop, sent, answer, storeVars>>

\* The worker waits for the answer to batch b.
Waiting(b) == worker[b[1]] = "wait" /\ sent[b[1]] = b[2]

Hear(b, what) ==
    /\ Waiting(b)
    /\ answer' = [answer EXCEPT ![b] = what]
    /\ worker' = [worker EXCEPT ![b[1]] = "select"]
    /\ UNCHANGED <<tick, stop, sent, storeVars>>

\* The answer arrives: IsCommitted, or Internal if the file could not be opened.
AnswerMutant(b) ==
    \/ handler[b] \in {"write", "done"} /\ Hear(b, "committed")
    \/ handler[b] = "failed" /\ Hear(b, "error")
Answer(b) ==
    \/ handler[b] = "done" /\ Hear(b, "committed")
    \/ handler[b] = "failed" /\ Hear(b, "error")

\* The connection breaks; the request may be on its way or being handled.
RpcFails(b) == Hear(b, "error")

-----------------------------------------------------------------------------
Handler(b, from, to) ==
    /\ handler[b] = from
    /\ handler' = [handler EXCEPT ![b] = to]

\* StreamCdrLogs of the store: the records are copied, then InsertBatch.
Arrives(b) ==
    /\ Handler(b, "sent", "lock")
    /\ UNCHANGED <<collectorVars, answer, line, mu, file, lost>>

LockMutant(b) == Handler(b, "lock", "open") /\ mu' = b
                 /\ UNCHANGED <<collectorVars, answer, line, file, lost>>
Lock(b) ==
    /\ Handler(b, "lock", "open")
    /\ mu = Free
    /\ mu' = b
    /\ UNCHANGED <<collectorVars, answer, line, file, lost>>

OpenFileMutant(b) ==   \* no deferred Unlock on the early return
    \/ /\ Handler(b, "open", "failed")
       /\ UNCHANGED <<collectorVars, answer, line, mu, file, lost>>
    \/ /\ Handler(b, "open", "write")
       /\ UNCHANGED <<collectorVars, answer, line, mu, file, lost>>
OpenFile(b) ==
    \/ /\ Handler(b, "open", "failed")
       /\ mu' = Free
       /\ UNCHANGED <<collectorVars, answer, line, file, lost>>
    \/ /\ Handler(b, "open", "write")
       /\ UNCHANGED <<collectorVars, answer, line, mu, file, lost>>

WriteLineMutant(b) ==   \* i <= len(records)
    /\ handler[b] = "write"
    /\ line' = [line EXCEPT ![b] = @ + 1]
    /\ file' = Append(file, b)
    /\ UNCHANGED <<collectorVars, answer, handler, mu, lost>>
\* Write appends a line or fails; its error is ignored.
WriteLine(b) ==
    /\ handler[b] = "write"
    /\ line[b] < Lines
    /\ line' = [line EXCEPT ![b] = @ + 1]
    /\ \/ file' = Append(file, b) /\ UNCHANGED lost
       \/ lost' = [lost EXCEPT ![b] = @ + 1] /\ UNCHANGED file
    /\ UNCHANGED <<collectorVars, answer, handler, mu>>

Commit(b) ==
    /\ Handler(b, "write", "done")
    /\ line[b] = Lines
    /\ mu' = Free
    /\ UNCHANGED <<collectorVars, answer, line, file, lost>>

\* The store's process ends, with what it is doing, and starts again.
Restart ==
    /\ handler' = [b \in Batch |->
          IF handler[b] \in {"lock", "open", "write"} THEN "cut" ELSE handler[b]]
    /\ mu' = Free
    /\ UNCHANGED <<collectorVars, answer, line, file, lost>>

-----------------------------------------------------------------------------
Insert(b) == Lock(b) \/ OpenFile(b) \/ WriteLine(b) \/ Commit(b)

Next ==
    \/ \E k \in Collectors :
          Tick(k) \/ SendBatch(k) \/ WorkerStops(k) \/ Stop(k) \/ Exit(k)
    \/ \E b \in Batch : Answer(b) \/ RpcFails(b) \/ Arrives(b) \/ Insert(b)
    \/ Restart

Spec == Init /\ [][Next]_vars

\* Handlers run, and the mutex serves those that wait for it.
FairSpec == Spec /\ \A b \in Batch : WF_vars(Insert(b))

-----------------------------------------------------------------------------
LinesOf(b) == {i \in DOMAIN file : file[i] = b}

(***************************************************************************)
(* The lines of a batch are one block of the segment file: batches of       *)
(* several collectors, and of one whose last call broke, are not mixed,     *)
(* across restarts of the store too.                                        *)
(***************************************************************************)
BatchesContiguous ==
    \A i, j, m \in DOMAIN file :
        i < j /\ j < m /\ file[i] = file[m] => file[j] = file[i]

(***************************************************************************)
(* A batch acknowledged as committed has been written to its last line,     *)
(* except for lines whose Write failed, of which nobody hears; and no line  *)
(* of any batch is written twice, whatever fails.                           *)
(***************************************************************************)
CommittedIsWhole ==
    \A b \in Batch :
        LET n == Cardinality(LinesOf(b)) + lost[b]
        IN  n <= Lines /\ (answer[b] = "committed" => n = Lines)

(***************************************************************************)
(* No batch is left waiting for the mutex or holding it: when the file      *)
(* cannot be opened the handler lets the next one in.                       *)
(***************************************************************************)
BatchesSettle ==
    \A b \in Batch :
        handler[b] = "lock" ~> handler[b] \in {"done", "failed", "cut"}
=============================================================================
