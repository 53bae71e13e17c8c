--------------------------- MODULE ClusterProofs ---------------------------
(***************************************************************************)
(* Proofs about Cluster, for any deployments, calls and ways they depend on *)
(* each other.                                                              *)
(*                                                                          *)
(* DrainedIsIdle, CutOnlyByTimeout and NoOrphans are inductive together     *)
(* with the types: a drained server has no call because it refused all new  *)
(* ones from the signal on, which is why the one connection of a client     *)
(* matters (PeersAssumption).                                               *)
(***************************************************************************)
EXTENDS Cluster, TLAPS

IInv == TypeOK /\ DrainedIsIdle /\ CutOnlyByTimeout /\ NoOrphans

LEMMA InitIInv == Init => IInv
  BY DEF Init, IInv, TypeOK, Phase, DrainedIsIdle, CutOnlyByTimeout, NoOrphans,
         Open, ServedBy, Servers

\* The sites do not change, and neither does who calls and serves.
LEMMA Fixed ==
  ASSUME TypeOK, [Next]_vars
  PROVE  /\ site' = site
         /\ \A c \in Calls : Servers(c)' = Servers(c)
         /\ \A s : ServedBy(s)' = ServedBy(s)
<1>1. site' = site
  BY DEF Next, vars, Start, StartFails, Signal, Shutdown, Drained, TimeOut, Exit,
         Invoke, InvokeFails, Return, WorkerStops, ClientLeaves, Hang
<1> QED BY <1>1 DEF Servers, ServedBy

LEMMA TypeStep ==
  ASSUME TypeOK, [Next]_vars
  PROVE  TypeOK'
<1> USE DEF TypeOK, Phase
<1>1. ASSUME NEW s \in Services,
             Start(s) \/ StartFails(s) \/ Signal(s) \/ Drained(s) \/ TimeOut(s)
      PROVE  TypeOK'
  BY <1>1 DEF Start, StartFails, Signal, Drained, TimeOut, Move
<1>2. ASSUME NEW s \in Services, Exit(s) PROVE TypeOK'
  <2>1. phase' \in [Services -> Phase]
    BY <1>2 DEF Exit, Move
  <2>2. rpc' \in [Calls -> {"idle", "open", "ok", "failed", "cut"}]
    BY <1>2 DEF Exit
  <2>3. \A c \in Calls : rpc[c] \in {"open", "cut"} => rpc'[c] \in {"open", "cut"}
    BY <1>2 DEF Exit
  <2> QED BY <1>2, <2>1, <2>2, <2>3 DEF Exit
<1>3. ASSUME NEW c \in Calls, Invoke(c) \/ InvokeFails(c) \/ Return(c)
      PROVE  TypeOK'
  BY <1>3 DEF Invoke, InvokeFails, Ready, Return, Open
<1>4. ASSUME NEW c \in Calls, WorkerStops(c) \/ ClientLeaves(c) \/ Hang(c)
      PROVE  TypeOK'
  BY <1>4 DEF WorkerStops, ClientLeaves, Hang, Open
<1>5. CASE UNCHANGED vars
  BY <1>5 DEF vars
<1> QED BY <1>1, <1>2, <1>3, <1>4, <1>5 DEF Next, Shutdown

\* What a step can do to a call, to a client that waits and to a process.
LEMMA StepFacts ==
  ASSUME TypeOK, [Next]_vars
  PROVE  /\ left \subseteq left'
         /\ \A c \in Calls : ~Open(c) /\ Open(c)' =>
               /\ \E s \in Servers(c) : phase[s] = "serving" /\ phase'[s] = "serving"
               /\ \A d \in Within[c] : Open(d) /\ Open(d)'
         /\ \A c \in Calls : Open(c) /\ ~Open(c)' =>
               \/ \A d \in Calls : c \in Within[d] => ~Open(d)' \/ d \in left'
               \/ \E s \in Servers(c) : \A d \in Calls : Caller(d) = s => d \in left'
         /\ \A c \in Calls : rpc'[c] = "cut" =>
               \/ rpc[c] = "cut"
               \/ Open(c) /\ \E s \in Servers(c) :
                     \/ phase[s] = "overdue" /\ phase'[s] = "killed"
                     \/ phase[s] = "drained"
         /\ \A s \in Services :
               /\ phase'[s] \in {"drained", "exited"} =>
                     phase[s] \in {"drained", "exited"} \/ (Quiet(s) /\ rpc' = rpc)
               /\ phase[s] = "killed" => phase'[s] = "killed"
<1> DEFINE P == /\ left \subseteq left'
                /\ \A c \in Calls : ~Open(c) /\ Open(c)' =>
                      /\ \E s \in Servers(c) : phase[s] = "serving" /\ phase'[s] = "serving"
                      /\ \A d \in Within[c] : Open(d) /\ Open(d)'
                /\ \A c \in Calls : Open(c) /\ ~Open(c)' =>
                      \/ \A d \in Calls : c \in Within[d] => ~Open(d)' \/ d \in left'
                      \/ \E s \in Servers(c) : \A d \in Calls : Caller(d) = s => d \in left'
                /\ \A c \in Calls : rpc'[c] = "cut" =>
                      \/ rpc[c] = "cut"
                      \/ Open(c) /\ \E s \in Servers(c) :
                            \/ phase[s] = "overdue" /\ phase'[s] = "killed"
                            \/ phase[s] = "drained"
                /\ \A s \in Services :
                      /\ phase'[s] \in {"drained", "exited"} =>
                            phase[s] \in {"drained", "exited"} \/ (Quiet(s) /\ rpc' = rpc)
                      /\ phase[s] = "killed" => phase'[s] = "killed"
<1>1. ASSUME NEW s \in Services,
             Start(s) \/ StartFails(s) \/ Signal(s) \/ Drained(s) \/ TimeOut(s)
      PROVE  P
  BY <1>1 DEF Start, StartFails, Signal, Drained, TimeOut, Move, TypeOK, Phase, Open
<1>2. ASSUME NEW s \in Services, Exit(s) PROVE P
  BY <1>2 DEF Exit, Move, TypeOK, Phase, Open, ServedBy
<1>3. ASSUME NEW c \in Calls, Invoke(c) PROVE P
  BY <1>3, WithinAssumption DEF Invoke, Ready, TypeOK, Open
<1>4. ASSUME NEW c \in Calls, InvokeFails(c) PROVE P
  BY <1>4 DEF InvokeFails, Ready, TypeOK, Open
<1>5. ASSUME NEW c \in Calls, Return(c) PROVE P
  BY <1>5 DEF Return, TypeOK, Open
<1>6. ASSUME NEW c \in Calls, WorkerStops(c) \/ ClientLeaves(c) \/ Hang(c) PROVE P
  BY <1>6 DEF WorkerStops, ClientLeaves, Hang, Open
<1>7. CASE UNCHANGED vars
  BY <1>7 DEF vars, Open
<1> QED BY <1>1, <1>2, <1>3, <1>4, <1>5, <1>6, <1>7 DEF Next, Shutdown

LEMMA NextIInv ==
  ASSUME IInv, [Next]_vars
  PROVE  IInv'
<1> USE DEF IInv
<1>0. TypeOK /\ TypeOK'
  BY TypeStep
<1>1. NoOrphans'
  <2> SUFFICES ASSUME NEW c \in Calls, Open(c)', c \notin left', NEW d \in Within[c]
               PROVE  Open(d)'
    BY DEF NoOrphans
  <2>1. d \in Calls
    BY WithinAssumption
  <2>2. CASE ~Open(c)
    BY <2>1, <2>2, <1>0, StepFacts
  <2>3. CASE Open(c)
    <3>1. Open(d)
      BY <2>3, <1>0, StepFacts DEF NoOrphans
    <3>2. Servers(d) \subseteq {Caller(c)}
      BY <1>0, WithinAssumption DEF Servers, Caller, TypeOK
    <3> QED BY <2>1, <3>1, <3>2, <1>0, StepFacts
  <2> QED BY <2>2, <2>3
<1>2. DrainedIsIdle'
  <2> SUFFICES ASSUME NEW s \in Services, phase'[s] \in {"drained", "exited"},
                      NEW c \in ServedBy(s)'
               PROVE  ~Open(c)'
    BY <1>1 DEF DrainedIsIdle, NoOrphans
  <2>1. c \in Calls /\ s \in Servers(c) /\ c \in ServedBy(s)
    BY <1>0, Fixed DEF ServedBy
  <2>2. \A t \in Servers(c) : t = s
    BY <1>0, <2>1, PeersAssumption DEF Servers, TypeOK
  <2>3. ~Open(c)
    BY <1>0, <2>1, StepFacts DEF DrainedIsIdle, Quiet
  <2> QED BY <1>0, <2>1, <2>2, <2>3, StepFacts
<1>3. CutOnlyByTimeout'
  <2> SUFFICES ASSUME NEW c \in Calls, rpc'[c] = "cut"
               PROVE  \E s \in Servers(c) : phase'[s] = "killed"
    BY <1>0, Fixed DEF CutOnlyByTimeout
  <2>1. Servers(c) \subseteq Services
    BY <1>0, PeersAssumption DEF Servers, TypeOK
  <2>2. CASE rpc[c] = "cut"
    BY <1>0, <2>1, <2>2, StepFacts DEF CutOnlyByTimeout
  <2>3. CASE rpc[c] # "cut"
    <3>1. Open(c)
      BY <1>0, <2>3, StepFacts
    <3>2. \A s \in Servers(c) : phase[s] # "drained"
      BY <2>1, <3>1 DEF DrainedIsIdle, ServedBy
    <3> QED BY <1>0, <2>3, <3>2, StepFacts
  <2> QED BY <2>2, <2>3
<1> QED BY <1>0, <1>1, <1>2, <1>3

(***************************************************************************)
(* Shutdown is orderly: a drained server has no call left, handlers are cut *)
(* off only in a process that has run into its timeout, and no call goes on *)
(* behind the back of a handler that ended in order.                        *)
(***************************************************************************)
THEOREM OrderlyShutdown ==
  Spec => [](TypeOK /\ DrainedIsIdle /\ CutOnlyByTimeout /\ NoOrphans)
<1>1. IInv /\ [Next]_vars => IInv'
  BY NextIInv
<1> QED BY InitIInv, <1>1, PTL DEF Spec, IInv

(***************************************************************************)
(* A call that goes on, and that its client still waits for, was made in a  *)
(* handler that goes on: no charge outlives a stream that ends in order.    *)
(***************************************************************************)
THEOREM NoOrphansTheorem == Spec => []NoOrphans
  BY OrderlyShutdown, PTL
=============================================================================
