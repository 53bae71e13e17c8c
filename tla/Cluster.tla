------------------------------ MODULE Cluster ------------------------------
(***************************************************************************)
(* The processes of a deployment while they start, call each other and are  *)
(* shut down (internal/pkg/shutdown and the mains), with the calls as gRPC  *)
(* carries them out.                                                        *)
(*                                                                          *)
(* A call is one RPC, known by where it comes from: a process calls through *)
(* one of its clients, in the handler of another call, which waits for it,  *)
(* or on its own (a worker of ue-emulator, a goroutine that pushes a CDR,   *)
(* an Accounting-Start).  The state of a call is that of its handler; its   *)
(* client may leave before.                                                 *)
(*                                                                          *)
(* A definition named XMutant is X with a plausible bug in it.              *)
(***************************************************************************)
EXTENDS ServiceConfig

CONSTANTS Sites,     \* [names -> deployments], see ServiceConfig
          Services,  \* the services that are looked at
          Calls,
          From,      \* [Calls -> [service, client]]
          Within,    \* [Calls -> SUBSET Calls]: the handler it is made in
          After      \* [Calls -> SUBSET Calls]: calls that must have succeeded

Cast == [d \in DOMAIN Sites |-> Processes(Sites[d])]
Peers == [d \in DOMAIN Sites |->
             [c \in Calls |-> IF From[c].service \in DOMAIN Sites[d]
                                THEN Reached(Sites[d], From[c].service, From[c].client)
                                ELSE {}]]

\* A client has one connection, and a call is made by the process that serves
\* the handler it is made in.
ASSUME PeersAssumption ==
    \A d \in DOMAIN Sites : \A c \in Calls :
        /\ Peers[d][c] \subseteq Services
        /\ \A s, t \in Peers[d][c] : s = t
ASSUME WithinAssumption ==
    /\ Within \in [Calls -> SUBSET Calls]
    /\ \A d \in DOMAIN Sites : \A c \in Calls :
          \A e \in Within[c] : Peers[d][e] \subseteq {From[c].service}

VARIABLES
    site,   \* the deployment that runs
    phase,  \* [Services -> phase of the process]
    rpc,    \* [Calls -> what has become of the call]
    left,   \* the calls whose client does not wait any longer
    hung    \* the calls whose handler waits in a stuck cache shard

vars == <<site, phase, rpc, left, hung>>

Caller(c) == From[c].service
Contract(c) == Cast[site][Caller(c)].clients[From[c].client].contract
IsStream(c) == Contract(c).kind = "stream"
Servers(c) == Peers[site][c]
Deployed(s) == s \in DOMAIN Sites[site]

\* stopping: GracefulStop runs; drained: it has returned; overdue: it has not
\* when the timeout passed.  exited and killed are what these two end in.
Phase == {"down", "serving", "stopping", "drained", "overdue", "exited", "killed"}

TypeOK ==
    /\ site  \in DOMAIN Sites
    /\ phase \in [Services -> Phase]
    /\ rpc   \in [Calls -> {"idle", "open", "ok", "failed", "cut"}]
    /\ left  \in SUBSET Calls
    /\ hung  \in SUBSET {c \in Calls : rpc[c] \in {"open", "cut"}}

Init ==
    /\ site \in DOMAIN Sites
    /\ phase = [s \in Services |-> "down"]
    /\ rpc = [c \in Calls |-> "idle"]
    /\ left = {}
    /\ hung = {}

-----------------------------------------------------------------------------
Move(s, from, to) ==
    /\ phase[s] = from
    /\ phase' = [phase EXCEPT ![s] = to]

Alive(s) == phase[s] \in {"serving", "stopping", "drained", "overdue"}
Open(c) == rpc[c] = "open"
ServedBy(s) == {c \in Calls : s \in Servers(c)}

\* main: dialling does not wait for the other side.
Start(s) ==
    /\ Deployed(s)
    /\ Move(s, "down", "serving")
    /\ UNCHANGED <<site, rpc, left, hung>>

\* Another program has the port: Fatal, or a crash where the error is ignored.
StartFails(s) ==
    /\ Deployed(s)
    /\ Cast[site][s].listen # {}
    /\ Move(s, "down", "killed")
    /\ UNCHANGED <<site, rpc, left, hung>>

\* ListenSignals gets SIGINT or SIGTERM and calls GracefulStop.
Signal(s) ==
    /\ Move(s, "serving", "stopping")
    /\ UNCHANGED <<site, rpc, left, hung>>

\* What GracefulStop waits for: the handlers of a gRPC server, and the workers
\* of ue-emulator.  (The adapter of ofcs-collector waits for nothing.)
QuietMutant(s) == TRUE
Quiet(s) ==
    /\ \A c \in ServedBy(s) : ~Open(c)
    /\ \A c \in Calls : Caller(c) = s /\ IsStream(c) =>
          rpc[c] # "idle" /\ (Open(c) => c \in left)

Drained(s) ==
    /\ Quiet(s)
    /\ Move(s, "stopping", "drained")
    /\ UNCHANGED <<site, rpc, left, hung>>

TimeOutMutant(s) ==
    Quiet(s) /\ Move(s, "stopping", "overdue") /\ UNCHANGED <<site, rpc, left, hung>>
TimeOut(s) ==
    /\ Move(s, "stopping", "overdue")
    /\ UNCHANGED <<site, rpc, left, hung>>

\* main returns, in pcef-core after the janitors have been cancelled and given
\* 100 ms; handlers of a process that is overdue may go on until then.
Exit(s) ==
    /\ \/ Move(s, "drained", "exited")
       \/ Move(s, "overdue", "killed")
    /\ rpc' = [c \in Calls |-> IF c \in ServedBy(s) /\ Open(c) THEN "cut" ELSE rpc[c]]
    /\ left' = left \cup {c \in Calls : Caller(c) = s}
    /\ UNCHANGED <<site, hung>>

-----------------------------------------------------------------------------
\* The caller gets round to the call.
Ready(c) ==
    /\ rpc[c] = "idle"
    /\ Alive(Caller(c))
    /\ \A d \in Within[c] : Open(d) /\ d \notin hung
    /\ \A d \in After[c] : rpc[d] = "ok"

\* Invoke or NewStream: a server that is there opens the call.  It refuses a
\* contract it has not registered, and new calls once it stops.
Invoke(c) ==
    /\ Ready(c)
    /\ \E s \in Servers(c) :
          phase[s] = "serving" /\ Contract(c) \in Cast[site][s].serves
    /\ rpc' = [rpc EXCEPT ![c] = "open"]
    /\ UNCHANGED <<site, phase, left, hung>>

InvokeFails(c) ==
    /\ Ready(c)
    /\ rpc' = [rpc EXCEPT ![c] = "failed"]
    /\ UNCHANGED <<site, phase, left, hung>>

\* The handler returns, through the interceptor, when the calls it has made have
\* been answered; that of a stream only when its client is done or gone.
ReturnMutant(c) ==   \* the calls it makes are goroutines
    /\ Open(c)
    /\ c \notin hung
    /\ IsStream(c) => c \in left
    /\ rpc' = [rpc EXCEPT ![c] = "ok"]
    /\ UNCHANGED <<site, phase, left, hung>>
ReturnHeldMutant(c) ==   \* only to a client that waits
    /\ Open(c)
    /\ c \notin hung \cup left
    /\ rpc' = [rpc EXCEPT ![c] = "ok"]
    /\ UNCHANGED <<site, phase, left, hung>>
Return(c) ==
    /\ Open(c)
    /\ c \notin hung
    /\ \A d \in Calls : c \in Within[d] => ~Open(d) \/ d \in left
    /\ IsStream(c) => c \in left
    /\ rpc' = [rpc EXCEPT ![c] = "ok"]
    /\ UNCHANGED <<site, phase, left, hung>>

\* A worker of ue-emulator sees stopChan closed and closes its stream ...
WorkerStops(c) ==
    /\ IsStream(c)
    /\ Open(c)
    /\ c \notin left
    /\ phase[Caller(c)] \in {"stopping", "overdue"}
    /\ left' = left \cup {c}
    /\ UNCHANGED <<site, phase, rpc, hung>>

\* ... and a connection may break, or the deadline of a call pass: the client has
\* an error, and the call made by a handler is over for it, but the handler of
\* the call goes on.
ClientLeaves(c) ==
    /\ Open(c)
    /\ c \notin left
    /\ left' = left \cup {c}
    /\ UNCHANGED <<site, phase, rpc, hung>>

\* pcef-core waits in lru.Get or lru.Set of a stuck shard (ReactiveLru).
Hang(c) ==
    /\ Open(c)
    /\ "pcef-core" \in Servers(c)
    /\ \A d \in Calls : c \in Within[d] => ~Open(d)
    /\ hung' = hung \cup {c}
    /\ UNCHANGED <<site, phase, rpc, left>>

-----------------------------------------------------------------------------
Shutdown(s) == Drained(s) \/ TimeOut(s) \/ Exit(s)

Next ==
    \/ \E s \in Services : Start(s) \/ StartFails(s) \/ Signal(s) \/ Shutdown(s)
    \/ \E c \in Calls : \/ Invoke(c) \/ InvokeFails(c) \/ Return(c)
                        \/ WorkerStops(c) \/ ClientLeaves(c) \/ Hang(c)

Spec == Init /\ [][Next]_vars

\* The timeout passes and main goes on; handlers run.
FairSpec ==
    /\ Spec
    /\ \A s \in Services : WF_vars(Shutdown(s))
    /\ \A c \in Calls : WF_vars(Return(c))

-----------------------------------------------------------------------------
(***************************************************************************)
(* A server that has been drained has no call left, and neither has it left *)
(* a call behind that a handler of its own was waiting for: what it asked   *)
(* of others for a frame has been answered.                                 *)
(***************************************************************************)
DrainedIsIdle ==
    \A s \in Services : phase[s] \in {"drained", "exited"} =>
        \A c \in ServedBy(s) :
            /\ ~Open(c)
            /\ \A d \in Calls : c \in Within[d] /\ Open(d) => d \in left

(***************************************************************************)
(* A handler is cut off only in a process whose timeout had passed: a       *)
(* shutdown that was drained in time interrupts nobody.                     *)
(***************************************************************************)
CutOnlyByTimeout ==
    \A c \in Calls : rpc[c] = "cut" => \E s \in Servers(c) : phase[s] = "killed"

(***************************************************************************)
(* A call goes on without the handler that waits for it only if that was    *)
(* cut off or has lost the connection: a charge is never in progress at the *)
(* OCS for a frame whose stream has ended in order.                         *)
(***************************************************************************)
NoOrphans ==
    \A c \in Calls : Open(c) /\ c \notin left =>
        \A d \in Within[c] : Open(d)

(***************************************************************************)
(* A signalled process ends, whatever its streams, its workers and a stuck  *)
(* cache shard do.                                                          *)
(***************************************************************************)
SignalledExits ==
    \A s \in Services : phase[s] = "stopping" ~> phase[s] \in {"exited", "killed"}

(***************************************************************************)
(* A unary call that has reached a handler is over some time, whatever its  *)
(* client does, unless it hangs in a stuck shard or waits for one that does.*)
(***************************************************************************)
CallsSettle ==
    \A c \in Calls : ~IsStream(c) =>
        (Open(c) ~> \/ ~Open(c)
                    \/ \E d \in hung : d = c \/ c \in Within[d])
=============================================================================
