--------------------------- MODULE OlapStoreProofs ---------------------------
(***************************************************************************)
(* The segment file of the store, for any number of collectors, batches and *)
(* lines, and any number of restarts.                                       *)
(*                                                                          *)
(* The argument: the handler that writes holds the mutex, and the lines it  *)
(* has written so far are at the end of the file (AtTheEnd), so the next    *)
(* one goes behind them; every line a handler has tried to write is in the  *)
(* file or lost (Counted).                                                  *)
(***************************************************************************)
EXTENDS OlapStore, SequenceTheorems, FiniteSetTheorems, TLAPS

\* A batch that was not sent has no handler.
Unsent == \A b \in Batch : sent[b[1]] < b[2] => handler[b] = "none"

\* How far a handler has come.
Progress ==
    \A b \in Batch :
        /\ handler[b] \in {"none", "sent", "lock", "open"} => line[b] = 0
        /\ handler[b] \in {"open", "write"} => mu = b
        /\ handler[b] = "done" => line[b] = Lines
        /\ answer[b] = "committed" => handler[b] = "done"

Counted ==
    \A b \in Batch : /\ IsFiniteSet(LinesOf(b))
                     /\ Cardinality(LinesOf(b)) + lost[b] = line[b]

AtTheEnd ==
    \A b \in Batch : handler[b] = "write" =>
        \A i, j \in DOMAIN file : file[i] = b /\ i <= j => file[j] = b

IInv == TypeOK /\ Unsent /\ Progress /\ Counted /\ AtTheEnd /\ BatchesContiguous

LEMMA InitIInv == Init => IInv
<1> SUFFICES ASSUME Init PROVE IInv
  OBVIOUS
<1>1. TypeOK
  <2>1. /\ sent \in [Collectors -> 0 .. MaxBatches]
        /\ line \in [Batch -> 0 .. Lines] /\ lost \in [Batch -> 0 .. Lines]
    BY LinesAssumption DEF Init
  <2>2. /\ tick \in [Collectors -> BOOLEAN] /\ stop \in [Collectors -> BOOLEAN]
        /\ worker \in [Collectors -> {"select", "wait", "stopped", "gone"}]
        /\ answer \in [Batch -> {"none", "committed", "error"}]
        /\ handler \in [Batch -> {"none", "sent", "lock", "open", "write", "done",
                                  "failed", "cut"}]
        /\ mu \in Batch \cup {Free}
    BY DEF Init
  <2>3. file \in Seq(Batch)
    BY EmptySeq DEF Init
  <2> QED BY <2>1, <2>2, <2>3 DEF TypeOK
<1>2. \A b \in Batch : LinesOf(b) = {}
  BY EmptySeq DEF Init, LinesOf
<1>3. \A b \in Batch : IsFiniteSet(LinesOf(b)) /\ Cardinality(LinesOf(b)) = 0
  BY <1>2, FS_EmptySet
<1>4. file = <<>> /\ DOMAIN file = {}
  BY DEF Init
<1> QED BY <1>1, <1>3, <1>4
        DEF Init, IInv, Unsent, Progress, Counted, AtTheEnd, BatchesContiguous

\* The steps that neither send a batch, move a handler nor write.
LEMMA Apart ==
  ASSUME IInv, TypeOK', UNCHANGED <<sent, storeVars>>,
         \A b \in Batch : answer'[b] = "committed" => answer[b] = "committed" \/ handler[b] = "done"
  PROVE  IInv'
<1>1. UNCHANGED <<sent, handler, line, mu, file, lost>>
  BY DEF storeVars
<1>2. \A b \in Batch : LinesOf(b)' = LinesOf(b)
  BY <1>1 DEF LinesOf
<1>3. Unsent' /\ AtTheEnd' /\ BatchesContiguous'
  BY <1>1 DEF IInv, Unsent, AtTheEnd, BatchesContiguous
<1>4. Counted'
  BY <1>1, <1>2 DEF IInv, Counted
<1>5. Progress'
  BY <1>1 DEF IInv, Progress
<1> QED BY <1>3, <1>4, <1>5 DEF IInv

\* The steps of handlers that do not write.
LEMMA HandlersMove ==
  ASSUME IInv, TypeOK', Unsent', Progress', UNCHANGED <<line, file, lost>>,
         \A b \in Batch : handler'[b] = "write" => handler[b] = "write" \/ line[b] = 0
  PROVE  IInv'
<1>1. \A b \in Batch : LinesOf(b)' = LinesOf(b)
  BY DEF LinesOf
<1>2. Counted'
  BY <1>1 DEF IInv, Counted
<1>3. BatchesContiguous'
  BY DEF IInv, BatchesContiguous
<1>4. AtTheEnd'
  <2> SUFFICES ASSUME NEW b \in Batch, handler'[b] = "write",
                      NEW i \in DOMAIN file, NEW j \in DOMAIN file, file[i] = b, i <= j
               PROVE  file[j] = b
    BY DEF AtTheEnd
  <2>1. CASE handler[b] = "write"
    BY <2>1 DEF IInv, AtTheEnd
  <2>2. CASE line[b] = 0
    <3>1. IsFiniteSet(LinesOf(b)) /\ Cardinality(LinesOf(b)) + lost[b] = 0 /\ lost[b] \in Nat
      BY <2>2 DEF IInv, Counted, TypeOK
    <3>2. Cardinality(LinesOf(b)) \in Nat
      BY <3>1, FS_CardinalityType
    <3>3. Cardinality(LinesOf(b)) = 0
      BY <3>1, <3>2
    <3>4. LinesOf(b) = {}
      BY <3>1, <3>3, FS_EmptySet
    <3> QED BY <3>4 DEF LinesOf
  <2> QED BY <2>1, <2>2
<1> QED BY <1>2, <1>3, <1>4 DEF IInv

LEMMA WriteStep ==
  ASSUME IInv, NEW b \in Batch, WriteLine(b)
  PROVE  IInv'
<1>0. /\ file \in Seq(Batch) /\ line \in [Batch -> 0 .. Lines] /\ lost \in [Batch -> 0 .. Lines]
      /\ Lines \in Nat
  BY LinesAssumption DEF IInv, TypeOK
<1>1. /\ handler[b] = "write" /\ line[b] < Lines
      /\ line' = [line EXCEPT ![b] = @ + 1]
      /\ UNCHANGED <<tick, stop, worker, sent, answer, handler, mu>>
  BY DEF WriteLine, collectorVars
<1>2. IsFiniteSet(LinesOf(b)) /\ Cardinality(LinesOf(b)) + lost[b] = line[b]
      /\ Cardinality(LinesOf(b)) \in Nat /\ line[b] \in Nat /\ lost[b] \in Nat
  BY <1>0, FS_CardinalityType DEF IInv, Counted
<1>3. line' \in [Batch -> 0 .. Lines]
  BY <1>0, <1>1
<1>4. Unsent' /\ Progress'
  BY <1>0, <1>1 DEF IInv, Unsent, Progress
<1>5. CASE lost' = [lost EXCEPT ![b] = @ + 1] /\ UNCHANGED file
  <2>1. lost' \in [Batch -> 0 .. Lines]
    BY <1>0, <1>1, <1>2, <1>5
  <2>2. \A d \in Batch : LinesOf(d)' = LinesOf(d)
    BY <1>5 DEF LinesOf
  <2>3. Counted'
    BY <1>0, <1>1, <1>2, <1>5, <2>2 DEF IInv, Counted
  <2>4. AtTheEnd' /\ BatchesContiguous'
    BY <1>1, <1>5 DEF IInv, AtTheEnd, BatchesContiguous
  <2>5. TypeOK'
    BY <1>1, <1>3, <1>5, <2>1 DEF IInv, TypeOK
  <2> QED BY <1>4, <2>3, <2>4, <2>5 DEF IInv
<1>6. CASE file' = Append(file, b) /\ UNCHANGED lost
  <2> DEFINE n == Len(file) + 1
  <2>1. /\ file' \in Seq(Batch) /\ Len(file') = n /\ Len(file) \in Nat
        /\ DOMAIN file = 1 .. Len(file) /\ DOMAIN file' = 1 .. n
        /\ (\A i \in 1 .. Len(file) : file'[i] = file[i]) /\ file'[n] = b
    BY <1>0, <1>6, AppendProperties, LenProperties
  <2>2. \A i \in 1 .. n : i \in 1 .. Len(file) \/ i = n
    BY <2>1
  <2>3. n \in 1 .. n /\ 1 .. Len(file) \subseteq 1 .. n /\ n \notin 1 .. Len(file)
    BY <2>1
  <2> HIDE DEF n
  <2>4. LinesOf(b)' = LinesOf(b) \cup {n} /\ n \notin LinesOf(b)
    BY <2>1, <2>2, <2>3 DEF LinesOf
  <2>5. \A d \in Batch \ {b} : LinesOf(d)' = LinesOf(d)
    BY <2>1, <2>2, <2>3 DEF LinesOf
  <2>6. IsFiniteSet(LinesOf(b)') /\ Cardinality(LinesOf(b)') = Cardinality(LinesOf(b)) + 1
    BY <1>2, <2>4, FS_AddElement
  <2>7. Counted'
    <3>1. ASSUME NEW d \in Batch, d # b
          PROVE  IsFiniteSet(LinesOf(d)') /\ Cardinality(LinesOf(d)') + lost'[d] = line'[d]
      BY <1>0, <1>1, <1>6, <2>5, <3>1 DEF IInv, Counted
    <3>2. Cardinality(LinesOf(b)') + lost'[b] = line'[b]
      BY <1>0, <1>1, <1>2, <1>6, <2>6
    <3> QED BY <2>6, <3>1, <3>2 DEF Counted
  <2>8. \A i, j \in 1 .. Len(file) : file[i] = b /\ i <= j => file[j] = b
    BY <1>1, <2>1 DEF IInv, AtTheEnd
  <2>9. AtTheEnd'
    <3> SUFFICES ASSUME NEW d \in Batch, handler'[d] = "write",
                        NEW i \in DOMAIN file', NEW j \in DOMAIN file', file'[i] = d, i <= j
                 PROVE  file'[j] = d
      BY DEF AtTheEnd
    <3>1. d = b
      BY <1>1 DEF IInv, Progress
    <3>2. CASE j = n
      BY <2>1, <3>1, <3>2
    <3>3. CASE j \in 1 .. Len(file)
      <4>1. i \in 1 .. Len(file)
        BY <2>1, <2>2, <3>3 DEF n
      <4> QED BY <2>1, <2>8, <3>1, <3>3, <4>1
    <3> QED BY <2>1, <2>2, <3>2, <3>3
  <2>10. BatchesContiguous'
    <3> SUFFICES ASSUME NEW i \in DOMAIN file', NEW j \in DOMAIN file', NEW m \in DOMAIN file',
                        i < j, j < m, file'[i] = file'[m]
                 PROVE  file'[j] = file'[i]
      BY DEF BatchesContiguous
    <3>1. i \in 1 .. Len(file) /\ j \in 1 .. Len(file) /\ i <= j
      BY <2>1 DEF n
    <3>2. file'[i] = file[i] /\ file'[j] = file[j]
      BY <2>1, <3>1
    <3>3. CASE m = n
      BY <2>1, <2>8, <3>1, <3>2, <3>3
    <3>4. CASE m \in 1 .. Len(file)
      BY <2>1, <3>1, <3>2, <3>4 DEF IInv, BatchesContiguous
    <3> QED BY <2>1, <2>2, <3>3, <3>4
  <2>11. TypeOK'
    BY <1>1, <1>3, <1>6, <2>1 DEF IInv, TypeOK
  <2> QED BY <1>4, <2>7, <2>9, <2>10, <2>11 DEF IInv
<1> QED BY <1>5, <1>6 DEF WriteLine

LEMMA NextIInv == IInv /\ [Next]_vars => IInv'
<1> SUFFICES ASSUME IInv, [Next]_vars PROVE IInv'
  OBVIOUS
<1>0. TypeOK /\ Unsent /\ Progress /\ MaxBatches \in Nat /\ Lines \in Nat
  BY LinesAssumption DEF IInv
<1>b. \A b \in Batch : b[1] \in Collectors /\ b[2] \in 1 .. MaxBatches /\ b = <<b[1], b[2]>>
  BY DEF Batch
<1>1. ASSUME NEW k \in Collectors, Tick(k) \/ WorkerStops(k) \/ Stop(k) \/ Exit(k)
      PROVE  IInv'
  <2>1. UNCHANGED <<sent, answer, storeVars>>
    BY <1>1 DEF Tick, WorkerStops, Stop, Exit
  <2>2. /\ tick' \in [Collectors -> BOOLEAN] /\ stop' \in [Collectors -> BOOLEAN]
        /\ worker' \in [Collectors -> {"select", "wait", "stopped", "gone"}]
    BY <1>0, <1>1 DEF Tick, WorkerStops, Stop, Exit, TypeOK
  <2>3. TypeOK'
    BY <1>0, <2>1, <2>2 DEF TypeOK, storeVars
  <2> QED BY <2>1, <2>3, Apart
<1>2. ASSUME NEW k \in Collectors, SendBatch(k) PROVE IInv'
  <2> DEFINE b == <<k, sent[k] + 1>>
  <2>1. /\ sent[k] < MaxBatches /\ sent' = [sent EXCEPT ![k] = @ + 1]
        /\ handler' = [handler EXCEPT ![b] = "sent"]
        /\ tick' = [tick EXCEPT ![k] = FALSE] /\ worker' = [worker EXCEPT ![k] = "wait"]
        /\ UNCHANGED <<stop, answer, line, mu, file, lost>>
    BY <1>2 DEF SendBatch
  <2>2. sent[k] \in 0 .. MaxBatches /\ sent[k] + 1 \in 1 .. MaxBatches /\ sent[k] < sent[k] + 1
    BY <1>0, <2>1 DEF TypeOK
  <2>3. b \in Batch /\ b[1] = k /\ b[2] = sent[k] + 1
    BY <2>2 DEF Batch
  <2> HIDE DEF b
  <2>4. handler[b] = "none"
    BY <1>0, <2>2, <2>3 DEF Unsent
  <2>5. TypeOK'
    <3>1. sent' \in [Collectors -> 0 .. MaxBatches]
      BY <1>0, <2>1, <2>2 DEF TypeOK
    <3> QED BY <1>0, <2>1, <3>1 DEF TypeOK
  <2>6. Unsent'
    <3> SUFFICES ASSUME NEW d \in Batch, sent'[d[1]] < d[2] PROVE handler'[d] = "none"
      BY DEF Unsent
    <3>1. d # b /\ sent[d[1]] < d[2]
      BY <1>0, <1>b, <2>1, <2>2, <2>3 DEF TypeOK
    <3> QED BY <1>0, <2>1, <3>1 DEF Unsent, TypeOK
  <2>7. \A d \in Batch : handler'[d] = IF d = b THEN "sent" ELSE handler[d]
    BY <1>0, <2>1 DEF TypeOK
  <2>8. Progress'
    BY <1>0, <2>1, <2>4, <2>7 DEF Progress
  <2> QED BY <2>1, <2>5, <2>6, <2>7, <2>8, HandlersMove
<1>3. ASSUME NEW b \in Batch, Answer(b) \/ RpcFails(b) PROVE IInv'
  <2>1. PICK what \in {"committed", "error"} :
          /\ what = "committed" => handler[b] = "done"
          /\ answer' = [answer EXCEPT ![b] = what]
          /\ worker' = [worker EXCEPT ![b[1]] = "select"]
          /\ UNCHANGED <<tick, stop, sent, storeVars>>
    BY <1>3 DEF Answer, RpcFails, Hear
  <2>2. TypeOK'
    BY <1>0, <2>1 DEF TypeOK, storeVars
  <2>3. \A d \in Batch : answer'[d] = "committed" => answer[d] = "committed" \/ handler[d] = "done"
    BY <1>0, <2>1 DEF TypeOK
  <2> QED BY <2>1, <2>2, <2>3, Apart
<1>4. ASSUME NEW b \in Batch, NEW from \in {"sent", "lock", "open", "write"},
             NEW to \in {"lock", "open", "write", "failed", "done"},
             Handler(b, from, to), mu' \in Batch \cup {Free},
             UNCHANGED <<collectorVars, answer, line, file, lost>>,
             to \in {"lock", "open"} => from \in {"sent", "lock"},
             to \in {"open", "write"} => mu' = b,
             \A d \in Batch \ {b} : handler[d] \in {"open", "write"} => mu' = d,
             to = "write" => line[b] = 0,
             to = "done" => line[b] = Lines
      PROVE  IInv'
  <2>1. /\ handler[b] = from /\ handler' = [handler EXCEPT ![b] = to]
        /\ UNCHANGED <<tick, stop, worker, sent, answer, line, file, lost>>
    BY <1>4 DEF Handler, collectorVars
  <2>2. TypeOK'
    BY <1>0, <1>4, <2>1 DEF TypeOK
  <2>3. \A d \in Batch : handler'[d] = IF d = b THEN to ELSE handler[d]
    BY <1>0, <2>1 DEF TypeOK
  <2>4. Unsent'
    BY <1>0, <2>1, <2>3 DEF Unsent
  <2>5. Progress'
    BY <1>0, <1>4, <2>1, <2>3 DEF Progress
  <2> QED BY <1>4, <2>1, <2>2, <2>3, <2>4, <2>5, HandlersMove
<1>5. ASSUME NEW b \in Batch, Arrives(b) PROVE IInv'
  BY <1>0, <1>4, <1>5 DEF Arrives, Progress, TypeOK
<1>6. ASSUME NEW b \in Batch, Lock(b) PROVE IInv'
  BY <1>0, <1>4, <1>6, FreeAssumption DEF Lock, Progress
<1>7. ASSUME NEW b \in Batch, OpenFile(b) PROVE IInv'
  <2>1. handler[b] = "open" /\ mu = b /\ line[b] = 0
    BY <1>0, <1>7 DEF OpenFile, Handler, Progress
  <2>2. \A d \in Batch \ {b} : handler[d] \notin {"open", "write"}
    BY <1>0, <2>1 DEF Progress
  <2> QED BY <1>4, <1>7, <2>1, <2>2 DEF OpenFile
<1>8. ASSUME NEW b \in Batch, Commit(b) PROVE IInv'
  <2>1. handler[b] = "write" /\ mu = b
    BY <1>0, <1>8 DEF Commit, Handler, Progress
  <2>2. \A d \in Batch \ {b} : handler[d] \notin {"open", "write"}
    BY <1>0, <2>1 DEF Progress
  <2> QED BY <1>4, <1>8, <2>1, <2>2 DEF Commit
<1>9. CASE Restart
  <2>1. /\ mu' = Free /\ UNCHANGED <<tick, stop, worker, sent, answer, line, file, lost>>
        /\ handler' = [b \in Batch |->
             IF handler[b] \in {"lock", "open", "write"} THEN "cut" ELSE handler[b]]
    BY <1>9 DEF Restart, collectorVars
  <2>2. TypeOK'
    BY <1>0, <2>1 DEF TypeOK
  <2>3. Unsent' /\ Progress'
    BY <1>0, <2>1 DEF Unsent, Progress
  <2> QED BY <2>1, <2>2, <2>3, HandlersMove
<1>10. CASE UNCHANGED vars
  <2>1. UNCHANGED <<tick, stop, worker, sent, answer, storeVars>>
    BY <1>10 DEF vars, collectorVars
  <2>2. TypeOK'
    BY <1>0, <2>1 DEF TypeOK, storeVars
  <2> QED BY <2>1, <2>2, Apart
<1> QED
  BY <1>1, <1>2, <1>3, <1>5, <1>6, <1>7, <1>8, <1>9, <1>10, WriteStep DEF Next, Insert

LEMMA Invariance == Spec => []IInv
  BY InitIInv, NextIInv, PTL DEF Spec

THEOREM TypeCorrect == Spec => []TypeOK
<1>1. IInv => TypeOK
  BY DEF IInv
<1> QED BY <1>1, Invariance, PTL

(***************************************************************************)
(* However many collectors send batches, whatever calls break and whenever  *)
(* the store restarts, the lines of a batch are one block of the file.      *)
(***************************************************************************)
THEOREM BatchesContiguousTheorem == Spec => []BatchesContiguous
<1>1. IInv => BatchesContiguous
  BY DEF IInv
<1> QED BY <1>1, Invariance, PTL

(***************************************************************************)
(* A committed batch is in the file but for the lines whose Write failed,   *)
(* and no line of any batch is in it twice.                                 *)
(***************************************************************************)
THEOREM CommittedIsWholeTheorem == Spec => []CommittedIsWhole
<1>1. IInv => CommittedIsWhole
  <2> SUFFICES ASSUME IInv, NEW b \in Batch
               PROVE  LET n == Cardinality(LinesOf(b)) + lost[b]
                      IN  n <= Lines /\ (answer[b] = "committed" => n = Lines)
    BY DEF CommittedIsWhole
  <2>1. Cardinality(LinesOf(b)) + lost[b] = line[b] /\ line[b] \in 0 .. Lines
    BY DEF IInv, Counted, TypeOK
  <2>2. answer[b] = "committed" => line[b] = Lines
    BY DEF IInv, Progress
  <2> QED BY <2>1, <2>2, LinesAssumption
<1> QED BY <1>1, Invariance, PTL
=============================================================================
