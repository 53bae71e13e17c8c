--------------------------- MODULE PcefCoreProofs ---------------------------
(***************************************************************************)
(* Proofs about PcefCore, for any streams, addresses, frames and balances,  *)
(* and, at the end, about the dispatch engine it looks its frames up in.    *)
(*                                                                          *)
(* The argument for VerdictOfARule: a session object belongs to one address *)
(* for good (Home), however often the address gets a new one, so all        *)
(* streams that write or read its bandwidth carry frames of that address.   *)
(*                                                                          *)
(* The argument for OverdraftBound: what streams carry after their charge   *)
(* counts as delivered already (Due); only the charge that empties the      *)
(* balance may exceed it, and no charge follows that one.                   *)
(*                                                                          *)
(* The argument for RangesFound: the bisection ends where the entries not   *)
(* below the value begin (Bisection, by a least counterexample on the       *)
(* length of the interval), and the table is the configuration put in a     *)
(* stable order (Order), which every AddRangeConfig extends (Inserts).      *)
(***************************************************************************)
EXTENDS PcefCore, DispatchEngine, FiniteSetTheorems, SequenceTheorems, WellFoundedInduction,
        TLAPS

Busy(s) == pc[s] \notin {"recv", "closed"}
Holding(s) == pc[s] \in {"charge", "execute", "answer"}

Counted(s) ==
    answered[s] + unanswered[s] + (IF Busy(s) THEN 1 ELSE 0) <= received[s]
Counts == \A s \in Streams : Counted(s)

Home ==
    /\ \A ip \in Ips : index[ip] <= allocated
    /\ \A ip, jp \in Ips : index[ip] = index[jp] /\ index[ip] # 0 => ip = jp
    /\ \A s \in Streams : sess[s] <= allocated
    /\ \A s \in Streams : Holding(s) => sess[s] # 0
    /\ \A s \in Streams : pc[s] = "recv" => sess[s] = 0
    /\ \A s \in Streams, ip \in Ips :
          sess[s] # 0 /\ sess[s] = index[ip] => frame[s].ip = ip
    /\ \A s, t \in Streams :
          sess[s] # 0 /\ sess[s] = sess[t] => frame[s].ip = frame[t].ip

RuledOne(s) ==
    /\ pc[s] = "answer" => bandwidth[sess[s]] \in RuledBandwidths(frame[s].ip)
    /\ pc[s] = "send" /\ verdict[s].action = "ALLOW" =>
          verdict[s].bandwidth \in RuledBandwidths(frame[s].ip)
Ruled == \A s \in Streams : RuledOne(s)

IInv == TypeOK /\ Counts /\ Home /\ Ruled

LEMMA RulesType == \A m \in DOMAIN Rules : Rules[m] \in {10, 50, 100}
  BY DEF Rules

LEMMA GrantedType ==
  ASSUME NEW i \in Accounts, NEW n \in Nat, balance \in [Accounts -> Nat]
  PROVE  Granted(i, n) \in Nat /\ Granted(i, n) <= balance[i] /\ balance[i] - Granted(i, n) \in Nat
  BY DEF Granted

LEMMA FrameType ==
  ASSUME NEW f \in Frames
  PROVE  /\ f.ip \in Ips /\ f.size \in Int
         /\ UsedBytes(f) \in Nat /\ Bytes(f) \in Nat
         /\ Bytes(f) \in {0, UsedBytes(f)}
<1>1. f.ip \in Ips /\ f.size \in Int
  BY FramesAssumption DEF RawPacketFrame
<1>2. Wrap \in Nat /\ -Wrap <= 2 * f.size
  BY WrapAssumption
<1> QED BY <1>1, <1>2 DEF UsedBytes, Bytes

LEMMA AnyFrameType == AnyFrame \in Frames
  BY FramesAssumption DEF AnyFrame

LEMMA Update ==
  ASSUME NEW S, NEW T, NEW f \in [S -> T], NEW i, NEW v, i \in S => v \in T
  PROVE  [f EXCEPT ![i] = v] \in [S -> T]
  OBVIOUS

LEMMA Charged ==
  ASSUME NEW i, NEW n \in Nat, HasCredit(i), balance \in [Accounts -> Nat]
  PROVE  [balance EXCEPT ![i] = balance[i] - Granted(i, n)] \in [Accounts -> Nat]
<1>1. i \in Accounts
  BY DEF HasCredit
<1>2. balance[i] - Granted(i, n) \in Nat
  BY <1>1, GrantedType
<1> QED BY <1>2, Update

LEMMA Added ==
  ASSUME NEW i, NEW n \in Nat, delivered \in [Imsis -> Nat]
  PROVE  [delivered EXCEPT ![i] = delivered[i] + n] \in [Imsis -> Nat]
<1>1. i \in Imsis => delivered[i] + n \in Nat
  OBVIOUS
<1> QED BY <1>1, Update

\* A stream that is past its lookup has a session object.
LEMMA Held ==
  ASSUME TypeOK, Home, NEW s \in Streams, Holding(s)
  PROVE  sess[s] \in SessionIds /\ bandwidth[sess[s]] \in {10, 50, 100}
<1>1. sess[s] # 0 /\ sess[s] \in 0 .. MaxSessions
  BY DEF TypeOK, Home
<1>2. sess[s] \in SessionIds
  BY <1>1, BoundsAssumption DEF SessionIds
<1> QED BY <1>2 DEF TypeOK

LEMMA TypeStep ==
  ASSUME IInv, [Next]_vars
  PROVE  TypeOK'
<1> USE BoundsAssumption, AnyFrameType DEF IInv, TypeOK
<1> USE DEF cache, stream, history, Goto, At, Decide, Done, Labels, Verdicts, NoVerdict
<1>1. ASSUME NEW s \in Streams, NEW f \in Frames, Recv(s, f) PROVE TypeOK'
  BY <1>1 DEF Recv
<1>2. ASSUME NEW s \in Streams, Close(s) \/ Admit(s) PROVE TypeOK'
  BY <1>2 DEF Close, Admit
<1>3. ASSUME NEW s \in Streams, Deny(s) PROVE TypeOK'
  BY <1>3 DEF Deny, Blocked
<1>4. ASSUME NEW s \in Streams, Lookup(s) PROVE TypeOK'
  <2>1. frame[s].ip \in Ips
    BY FrameType
  <2>2. UNCHANGED <<cache, balance, frame, metrics, history>>
    BY <1>4 DEF Lookup
  <2>3. sess' \in [Streams -> 0 .. MaxSessions]
    BY <1>4, <2>1 DEF Lookup
  <2>4. verdict' \in [Streams -> Verdicts]
    BY <1>4 DEF Lookup
  <2>5. pc' \in [Streams -> Labels]
    <3>1. \/ pc' = [pc EXCEPT ![s] = "send"]
          \/ pc' = [pc EXCEPT ![s] = "charge"]
      BY <1>4 DEF Lookup
    <3> QED BY <3>1
  <2> QED BY <2>2, <2>3, <2>4, <2>5
<1>5. ASSUME NEW s \in Streams, Charge(s) PROVE TypeOK'
  <2>1. UsedBytes(frame[s]) \in Nat
    BY FrameType
  <2>2. balance' \in [Accounts -> Nat]
    BY <1>5, <2>1, Charged DEF Charge
  <2> QED BY <1>5, <2>2 DEF Charge
<1>6. ASSUME NEW s \in Streams, ChargeRefused(s) PROVE TypeOK'
  BY <1>6 DEF ChargeRefused, ThrottledBandwidth
<1>7. ASSUME NEW s \in Streams, ChargeFails(s) PROVE TypeOK'
  <2>1. UsedBytes(frame[s]) \in Nat
    BY FrameType
  <2>2. balance' \in [Accounts -> Nat]
    <3>1. CASE UNCHANGED balance
      BY <3>1
    <3>2. CASE ~UNCHANGED balance
      BY <1>7, <2>1, <3>2, Charged DEF ChargeFails
    <3> QED BY <3>1, <3>2
  <2> QED BY <1>7, <2>2 DEF ChargeFails, ThrottledBandwidth
<1>8. ASSUME NEW s \in Streams, Execute(s) PROVE TypeOK'
  BY <1>8, RulesType DEF Execute
<1>9. ASSUME NEW s \in Streams, ExecuteUnhandled(s) PROVE TypeOK'
  BY <1>9 DEF ExecuteUnhandled, Counts, Counted, Busy
<1>10. ASSUME NEW s \in Streams, Answer(s) PROVE TypeOK'
  <2>1. Bytes(frame[s]) \in Nat
    BY FrameType
  <2>2. delivered' \in [Imsis -> Nat]
    BY <1>10, <2>1, Added DEF Answer
  <2>3. bandwidth[sess[s]] \in Nat
    BY <1>10, Held DEF Answer, Holding
  <2>4. verdict' \in [Streams -> Verdicts]
    BY <1>10, <2>3 DEF Answer
  <2> QED BY <1>10, <2>2, <2>4 DEF Answer
<1>11. ASSUME NEW s \in Streams, Send(s) PROVE TypeOK'
  BY <1>11, FrameType DEF Send, Counts, Counted, Busy
<1>12. ASSUME NEW s \in Streams, SendFails(s) PROVE TypeOK'
  BY <1>12 DEF SendFails, Counts, Counted, Busy
<1>13. ASSUME NEW ip \in Ips, NEW imsi \in Imsis, Register(ip, imsi) PROVE TypeOK'
  BY <1>13 DEF Register, FullBandwidth, SessionIds
<1>14. ASSUME NEW sh \in Shards, Expire(sh) PROVE TypeOK'
  <2>1. index' \in [Ips -> 0 .. MaxSessions]
    BY <1>14 DEF Expire
  <2> QED BY <1>14, <2>1 DEF Expire
<1>15. CASE UNCHANGED vars
  BY <1>15 DEF vars
<1> QED BY <1>1, <1>2, <1>3, <1>4, <1>5, <1>6, <1>7, <1>8, <1>9, <1>10, <1>11, <1>12, <1>13,
           <1>14, <1>15 DEF Next, Serve

LEMMA CountsStep ==
  ASSUME IInv, [Next]_vars
  PROVE  Counts'
<1> USE DEF IInv, TypeOK, Counts, Counted, Busy, history, Goto, At, Decide, Done, Labels
<1> SUFFICES ASSUME NEW t \in Streams PROVE Counted(t)'
  OBVIOUS
<1>1. ASSUME NEW s \in Streams, NEW f \in Frames, Recv(s, f) PROVE Counted(t)'
  BY <1>1 DEF Recv
<1>2. ASSUME NEW s \in Streams, Close(s) \/ Admit(s) PROVE Counted(t)'
  BY <1>2 DEF Close, Admit
<1>3. ASSUME NEW s \in Streams, Deny(s) \/ Lookup(s) PROVE Counted(t)'
  BY <1>3 DEF Deny, Lookup
<1>4. ASSUME NEW s \in Streams, Charge(s) \/ ChargeRefused(s) \/ ChargeFails(s)
      PROVE  Counted(t)'
  BY <1>4 DEF Charge, ChargeRefused, ChargeFails
<1>5. ASSUME NEW s \in Streams, Execute(s) \/ ExecuteUnhandled(s) PROVE Counted(t)'
  BY <1>5 DEF Execute, ExecuteUnhandled
<1>6. ASSUME NEW s \in Streams, Answer(s) PROVE Counted(t)'
  BY <1>6 DEF Answer
<1>7. ASSUME NEW s \in Streams, Send(s) \/ SendFails(s) PROVE Counted(t)'
  BY <1>7 DEF Send, SendFails
<1>8. ASSUME NEW ip \in Ips, NEW imsi \in Imsis, Register(ip, imsi) PROVE Counted(t)'
  BY <1>8 DEF Register
<1>9. ASSUME NEW sh \in Shards, Expire(sh) PROVE Counted(t)'
  BY <1>9 DEF Expire
<1>10. CASE UNCHANGED vars
  BY <1>10 DEF vars
<1> QED BY <1>1, <1>2, <1>3, <1>4, <1>5, <1>6, <1>7, <1>8, <1>9, <1>10 DEF Next, Serve

\* A step that leaves the session objects and what streams hold of them.
LEMMA HomeKept ==
  ASSUME Home, UNCHANGED <<index, allocated, sess, frame>>,
         \A t \in Streams : (Holding(t)' => Holding(t)) /\ (pc'[t] = "recv" => pc[t] = "recv")
  PROVE  Home'
  BY DEF Home

\* A step in which a stream lets go of its frame.
LEMMA HomeDone ==
  ASSUME TypeOK, Home, NEW s \in Streams, NEW l \in {"recv", "closed"}, Done(s, l),
         UNCHANGED <<index, allocated>>
  PROVE  Home'
<1>1. \A t \in Streams : t # s => sess'[t] = sess[t] /\ frame'[t] = frame[t] /\ pc'[t] = pc[t]
  BY DEF Done, Goto, TypeOK
<1>2. sess'[s] = 0 /\ pc'[s] = l
  BY DEF Done, Goto, TypeOK
<1>3. allocated >= 0
  BY BoundsAssumption DEF TypeOK
<1> QED BY <1>1, <1>2, <1>3 DEF Home, Holding

LEMMA HomeStep ==
  ASSUME IInv, [Next]_vars
  PROVE  Home'
<1> USE DEF IInv
<1> USE DEF cache, stream, history, Goto, At, Decide
<1>1. ASSUME NEW s \in Streams, NEW f \in Frames, Recv(s, f) PROVE Home'
  <2>1. sess[s] = 0
    BY <1>1 DEF Recv, Home
  <2>2. \A t \in Streams : t # s => frame'[t] = frame[t] /\ pc'[t] = pc[t]
    BY <1>1 DEF Recv, TypeOK
  <2>3. pc'[s] = "limit" /\ UNCHANGED <<index, allocated, sess>>
    BY <1>1 DEF Recv, TypeOK
  <2> QED BY <2>1, <2>2, <2>3 DEF Home, Holding
<1>2. ASSUME NEW s \in Streams, Close(s) \/ Admit(s) PROVE Home'
  BY <1>2, HomeKept DEF Close, Admit, TypeOK, Holding
<1>3. ASSUME NEW s \in Streams, Deny(s) PROVE Home'
  BY <1>3, HomeDone DEF Deny
<1>4. ASSUME NEW s \in Streams, Lookup(s) PROVE Home'
  <2>1. CASE index[frame[s].ip] = 0
    BY <1>4, <2>1, HomeKept DEF Lookup, TypeOK, Holding
  <2>2. CASE index[frame[s].ip] # 0
    <3>1. frame[s].ip \in Ips
      BY FrameType DEF TypeOK
    <3>2. \A t \in Streams : t # s => sess'[t] = sess[t] /\ pc'[t] = pc[t]
      BY <1>4, <2>2 DEF Lookup, TypeOK
    <3>3. sess'[s] = index[frame[s].ip] /\ pc'[s] = "charge" /\ UNCHANGED <<index, allocated, frame>>
      BY <1>4, <2>2 DEF Lookup, TypeOK
    <3> QED BY <2>2, <3>1, <3>2, <3>3 DEF Home, Holding
  <2> QED BY <2>1, <2>2
<1>5. ASSUME NEW s \in Streams, Charge(s) \/ ChargeRefused(s) \/ ChargeFails(s)
      PROVE  Home'
  BY <1>5, HomeKept DEF Charge, ChargeRefused, ChargeFails, TypeOK, Holding
<1>6. ASSUME NEW s \in Streams, Execute(s) \/ Answer(s) PROVE Home'
  BY <1>6, HomeKept DEF Execute, Answer, TypeOK, Holding
<1>7. ASSUME NEW s \in Streams, ExecuteUnhandled(s) \/ Send(s) \/ SendFails(s) PROVE Home'
  BY <1>7, HomeDone DEF ExecuteUnhandled, Send, SendFails
<1>8. ASSUME NEW ip \in Ips, NEW imsi \in Imsis, Register(ip, imsi) PROVE Home'
  <2>1. /\ allocated' = allocated + 1 /\ allocated \in Nat
        /\ index'[ip] = allocated + 1
        /\ UNCHANGED <<pc, sess, frame>>
    BY <1>8, BoundsAssumption DEF Register, TypeOK
  <2>2. \A jp \in Ips : jp # ip => index'[jp] = index[jp]
    BY <1>8 DEF Register, TypeOK
  <2>3. /\ \A jp \in Ips : index[jp] \in Nat
        /\ \A s \in Streams : sess[s] \in Nat
    BY BoundsAssumption DEF TypeOK
  <2> QED BY <2>1, <2>2, <2>3 DEF Home, Holding
<1>9. ASSUME NEW sh \in Shards, Expire(sh) PROVE Home'
  <2>1. PICK ip \in Ips : index' = [index EXCEPT ![ip] = 0]
    BY <1>9 DEF Expire
  <2>2. index'[ip] = 0 /\ \A jp \in Ips : jp # ip => index'[jp] = index[jp]
    BY <2>1 DEF TypeOK
  <2>3. UNCHANGED <<allocated, pc, sess, frame>> /\ allocated >= 0
    BY <1>9, BoundsAssumption DEF Expire, TypeOK
  <2> QED BY <2>2, <2>3 DEF Home, Holding
<1>10. CASE UNCHANGED vars
  BY <1>10, HomeKept DEF vars, Holding
<1> QED BY <1>1, <1>2, <1>3, <1>4, <1>5, <1>6, <1>7, <1>8, <1>9, <1>10 DEF Next, Serve

\* The bandwidth that Execute writes is one of a rule for the frame's address.
LEMMA ExecuteRuled ==
  ASSUME NEW f \in Frames, Mask(f) \in DOMAIN Rules
  PROVE  Rules[Mask(f)] \in RuledBandwidths(f.ip)
  BY DEF RuledBandwidths

LEMMA RuledStep ==
  ASSUME IInv, [Next]_vars
  PROVE  Ruled'
<1> USE DEF IInv
<1> USE DEF cache, stream, history, Goto, At
<1> SUFFICES ASSUME NEW t \in Streams PROVE RuledOne(t)'
  BY DEF Ruled
<1>0. RuledOne(t)
  BY DEF Ruled
<1>1. ASSUME NEW s \in Streams, NEW f \in Frames, Recv(s, f) PROVE RuledOne(t)'
  BY <1>0, <1>1 DEF Recv, RuledOne, TypeOK
<1>2. ASSUME NEW s \in Streams, Close(s) \/ Admit(s) PROVE RuledOne(t)'
  BY <1>0, <1>2 DEF Close, Admit, RuledOne, TypeOK
<1>3. ASSUME NEW s \in Streams, Deny(s) PROVE RuledOne(t)'
  BY <1>0, <1>3 DEF Deny, Done, RuledOne, TypeOK
<1>4. ASSUME NEW s \in Streams, Lookup(s) PROVE RuledOne(t)'
  BY <1>0, <1>4 DEF Lookup, Decide, RuledOne, TypeOK
<1>5. ASSUME NEW s \in Streams, Charge(s) PROVE RuledOne(t)'
  BY <1>0, <1>5 DEF Charge, RuledOne, TypeOK
<1>6. ASSUME NEW s \in Streams, ChargeRefused(s) \/ ChargeFails(s) PROVE RuledOne(t)'
  BY <1>0, <1>6 DEF ChargeRefused, ChargeFails, Decide, RuledOne, TypeOK
<1>7. ASSUME NEW s \in Streams, Execute(s) PROVE RuledOne(t)'
  <2> DEFINE b == Rules[Mask(frame[s])]
  <2>1. b \in RuledBandwidths(frame[s].ip)
    BY <1>7, ExecuteRuled DEF Execute, TypeOK
  <2>2. sess[s] \in SessionIds /\ sess[s] # 0
    BY <1>7, Held DEF Execute, Holding, Home
  <2>3. UNCHANGED <<sess, frame, verdict>> /\ bandwidth' = [bandwidth EXCEPT ![sess[s]] = b]
    BY <1>7 DEF Execute
  <2>4. pc'[t] = "answer" => bandwidth'[sess[t]] \in RuledBandwidths(frame[t].ip)
    <3>1. CASE t = s
      BY <3>1, <2>1, <2>2, <2>3 DEF TypeOK
    <3>2. CASE t # s /\ pc'[t] = "answer"
      <4>1. pc[t] = "answer" /\ sess[t] \in SessionIds
        BY <1>7, <3>2, Held DEF Execute, Holding, TypeOK
      <4>2. CASE sess[t] = sess[s]
        <5>1. frame[t].ip = frame[s].ip
          BY <4>2, <2>2 DEF Home
        <5> QED BY <4>2, <5>1, <2>1, <2>2, <2>3 DEF TypeOK
      <4>3. CASE sess[t] # sess[s]
        BY <1>0, <4>1, <4>3, <2>3 DEF RuledOne, TypeOK
      <4> QED BY <4>2, <4>3
    <3> QED BY <3>1, <3>2
  <2>5. pc'[t] = "send" => pc[t] = "send"
    BY <1>7 DEF Execute, TypeOK
  <2> HIDE DEF b
  <2> QED BY <1>0, <2>3, <2>4, <2>5 DEF RuledOne
<1>8. ASSUME NEW s \in Streams, ExecuteUnhandled(s) PROVE RuledOne(t)'
  BY <1>0, <1>8 DEF ExecuteUnhandled, Done, RuledOne, TypeOK
<1>9. ASSUME NEW s \in Streams, Answer(s) PROVE RuledOne(t)'
  BY <1>0, <1>9 DEF Answer, Decide, RuledOne, TypeOK
<1>10. ASSUME NEW s \in Streams, Send(s) \/ SendFails(s) PROVE RuledOne(t)'
  BY <1>0, <1>10 DEF Send, SendFails, Done, RuledOne, TypeOK
<1>11. ASSUME NEW ip \in Ips, NEW imsi \in Imsis, Register(ip, imsi) PROVE RuledOne(t)'
  <2>1. UNCHANGED <<pc, sess, frame, verdict>>
    BY <1>11 DEF Register
  <2>2. sess[t] <= allocated /\ allocated \in Nat /\ sess[t] \in Nat
    BY BoundsAssumption DEF Home, TypeOK
  <2>3. Holding(t) => bandwidth'[sess[t]] = bandwidth[sess[t]]
    BY <1>11, <2>2, Held DEF Register, TypeOK
  <2> QED BY <1>0, <2>1, <2>3 DEF RuledOne, Holding
<1>12. ASSUME NEW sh \in Shards, Expire(sh) PROVE RuledOne(t)'
  BY <1>0, <1>12 DEF Expire, RuledOne
<1>13. CASE UNCHANGED vars
  BY <1>0, <1>13 DEF vars, RuledOne
<1> QED BY <1>1, <1>2, <1>3, <1>4, <1>5, <1>6, <1>7, <1>8, <1>9, <1>10, <1>11, <1>12, <1>13
        DEF Next, Serve

-----------------------------------------------------------------------------
LEMMA InitIInv ==
  ASSUME Init
  PROVE  IInv
<1> DEFINE first == 1 .. Len(Bootstrap)
           At0(ip) == {i \in first : Bootstrap[i].ip = ip}
<1>1. /\ Len(Bootstrap) \in Nat /\ Len(Bootstrap) <= MaxSessions /\ MaxSessions \in Nat
      /\ \A i \in first : Bootstrap[i] \in [ip : Ips, imsi : Imsis]
  <2> DEFINE Entry == [ip : Ips, imsi : Imsis]
  <2>1. Bootstrap \in Seq(Entry) /\ Len(Bootstrap) <= MaxSessions /\ MaxSessions \in Nat
    BY BootstrapAssumption, BoundsAssumption
  <2> HIDE DEF Entry
  <2>2. Len(Bootstrap) \in Nat /\ \A i \in first : Bootstrap[i] \in Entry
    BY <2>1
  <2> QED BY <2>1, <2>2 DEF Entry
<1>2. \A ip \in Ips : \/ At0(ip) = {} /\ index[ip] = 0
                     \/ index[ip] \in At0(ip)
  BY DEF Init
<1>3. index \in [Ips -> 0 .. MaxSessions] /\ \A ip \in Ips : index[ip] <= Len(Bootstrap)
  <2>1. \A ip \in Ips : index[ip] \in 0 .. MaxSessions /\ index[ip] <= Len(Bootstrap)
    BY <1>1, <1>2
  <2>2. index = [ip \in Ips |-> index[ip]]
    BY DEF Init
  <2> QED BY <2>1, <2>2
<1>4. owner \in [SessionIds -> Imsis \cup {NoImsi}]
  <2>1. \A i \in first : Bootstrap[i].imsi \in Imsis
    BY <1>1
  <2> QED BY <2>1 DEF Init
<1>5. TypeOK
  BY <1>1, <1>3, <1>4, BoundsAssumption, BalanceAssumption, AnyFrameType
     DEF Init, TypeOK, FullBandwidth, Verdicts, NoVerdict, Labels
<1>6. Counts
  BY DEF Init, Counts, Counted, Busy
<1>7. Home
  <2>1. \A ip, jp \in Ips : index[ip] = index[jp] /\ index[ip] # 0 => ip = jp
    BY <1>2
  <2> QED BY <1>1, <1>3, <2>1 DEF Init, Home, Holding
<1>8. Ruled
  BY DEF Init, Ruled, RuledOne, NoVerdict
<1> QED BY <1>5, <1>6, <1>7, <1>8 DEF IInv

(***************************************************************************)
(* In every behaviour of the enforcement core (ProcessPacket with           *)
(* ProvisionPccRules replacing sessions under it) the state has its type,   *)
(* so balances never go below zero, and every ALLOW carries the bandwidth   *)
(* of a rule for frames of its own address: streams that share a session    *)
(* object can change each other's bandwidth, never give away that of        *)
(* another address.                                                         *)
(***************************************************************************)
THEOREM VerdictsRuled == Spec => [](TypeOK /\ VerdictOfARule)
<1>1. Init => IInv
  BY InitIInv
<1>2. IInv /\ [Next]_vars => IInv'
  BY TypeStep, CountsStep, HomeStep, RuledStep DEF IInv
<1>3. IInv => TypeOK /\ VerdictOfARule
  BY DEF IInv, Ruled, RuledOne, VerdictOfARule, At
<1> QED BY <1>1, <1>2, <1>3, PTL DEF Spec

-----------------------------------------------------------------------------
\* OverdraftBound.  The bytes that stream s carries for subscriber i, charged and
\* not yet answered, are counted as a set, so that they can be added up.
ChargedFor(s, i) == pc[s] \in {"execute", "answer"} /\ owner[sess[s]] = i
Passing(i) ==
    {p \in Streams \X Nat : ChargedFor(p[1], i) /\ p[2] \in 1 .. Bytes(frame[p[1]])}
Due(i) == delivered[i] + Cardinality(Passing(i))

\* OverdraftBound for what is due in place of what is delivered.
Covered(i, due, credit) ==
    IF i \in Accounts
      THEN \/ due <= InitialBalance[i] - credit
           \/ credit = 0 /\ due < InitialBalance[i] + MaxSize
      ELSE due = 0
CreditInv ==
    \A i \in Imsis : IsFiniteSet(Passing(i)) /\ Covered(i, Due(i), balance[i])

LEMMA MaxSizeType == MaxSize \in Nat /\ \A f \in Frames : Bytes(f) <= MaxSize
<1> DEFINE S == {Bytes(f) : f \in Frames}
           Top(n) == \A f \in Frames : Bytes(f) <= n
<1>1. \E n \in S : Top(n)
  <2>1. PICK f \in Frames : \A g \in Frames : g.size <= f.size
    BY SizeAssumption
  <2>2. \A g \in Frames : g.size \in Int
    BY FrameType
  <2>3. Top(Bytes(f))
    BY <2>1, <2>2 DEF Bytes
  <2> QED BY <2>3
<1>2. MaxSize = CHOOSE n \in S : Top(n)
  BY DEF MaxSize
<1>3. MaxSize \in S /\ Top(MaxSize)
  <2> HIDE DEF S, Top
  <2> QED BY <1>1, <1>2
<1> QED BY <1>3, FrameType

FrameBytes(s, n) == {s} \X (1 .. n)

LEMMA FrameBytesCount ==
  ASSUME NEW s, NEW n \in Nat
  PROVE  IsFiniteSet(FrameBytes(s, n)) /\ Cardinality(FrameBytes(s, n)) = n
<1>1. IsFiniteSet({s}) /\ Cardinality({s}) = 1
  BY FS_Singleton
<1>2. IsFiniteSet(1 .. n) /\ Cardinality(1 .. n) = n
  BY FS_Interval
<1>3. /\ IsFiniteSet({s} \X (1 .. n))
      /\ Cardinality({s} \X (1 .. n)) = Cardinality({s}) * Cardinality(1 .. n)
  BY <1>1, <1>2, FS_Product, Zenon
<1>4. Cardinality({s}) * Cardinality(1 .. n) = n
  BY <1>1, <1>2
<1> QED BY <1>3, <1>4 DEF FrameBytes

LEMMA PassingSame ==
  ASSUME NEW i, \A t \in Streams : /\ ChargedFor(t, i)' <=> ChargedFor(t, i)
                                   /\ ChargedFor(t, i) => frame'[t] = frame[t]
  PROVE  Passing(i)' = Passing(i)
  BY DEF Passing

\* A stream takes up a frame that has been charged ...
LEMMA PassingMore ==
  ASSUME NEW i, NEW s \in Streams, NEW n \in Nat, IsFiniteSet(Passing(i)),
         ~ChargedFor(s, i), ChargedFor(s, i)', Bytes(frame'[s]) = n,
         \A t \in Streams \ {s} : /\ ChargedFor(t, i)' <=> ChargedFor(t, i)
                                  /\ frame'[t] = frame[t]
  PROVE  IsFiniteSet(Passing(i)') /\ Cardinality(Passing(i)') = Cardinality(Passing(i)) + n
<1> DEFINE P == Passing(i)
           U == FrameBytes(s, n)
           Q == Passing(i)'
<1>1. Q = P \cup U
  <2>1. P \subseteq Streams \X Nat /\ Q \subseteq Streams \X Nat /\ U \subseteq Streams \X Nat
    BY DEF Passing, FrameBytes
  <2>2. ASSUME NEW t \in Streams, NEW k \in Nat
        PROVE  <<t, k>> \in Q <=> <<t, k>> \in P \cup U
    <3>1. CASE t = s
      BY <3>1 DEF Passing, FrameBytes
    <3>2. CASE t # s
      BY <3>2 DEF Passing, FrameBytes
    <3> QED BY <3>1, <3>2
  <2> HIDE DEF P, Q, U
  <2> QED BY <2>1, <2>2
<1>2. P \cap U = {}
  BY DEF Passing, FrameBytes
<1>3. IsFiniteSet(U) /\ Cardinality(U) = n
  BY FrameBytesCount
<1>4. IsFiniteSet(P)
  OBVIOUS
<1> HIDE DEF P, Q, U
<1>5. /\ IsFiniteSet(P \cup U)
      /\ Cardinality(P \cup U) = Cardinality(P) + Cardinality(U) - Cardinality(P \cap U)
  BY <1>3, <1>4, FS_Union
<1>6. Cardinality(P) \in Nat /\ Cardinality(P \cap U) = 0
  BY <1>2, <1>4, FS_CardinalityType, FS_EmptySet
<1>7. IsFiniteSet(Q) /\ Cardinality(Q) = Cardinality(P) + n
  BY <1>1, <1>3, <1>5, <1>6
<1> QED BY <1>7 DEF P, Q

\* ... and lets go of it.
LEMMA PassingLess ==
  ASSUME NEW i, NEW s \in Streams, NEW n \in Nat, IsFiniteSet(Passing(i)),
         ChargedFor(s, i), ~ChargedFor(s, i)', Bytes(frame[s]) = n,
         \A t \in Streams \ {s} : /\ ChargedFor(t, i)' <=> ChargedFor(t, i)
                                  /\ frame'[t] = frame[t]
  PROVE  IsFiniteSet(Passing(i)') /\ Cardinality(Passing(i)') = Cardinality(Passing(i)) - n
<1> DEFINE P == Passing(i)
           U == FrameBytes(s, n)
           Q == Passing(i)'
<1>1. Q = P \ U
  <2>1. P \subseteq Streams \X Nat /\ Q \subseteq Streams \X Nat
    BY DEF Passing
  <2>2. ASSUME NEW t \in Streams, NEW k \in Nat
        PROVE  <<t, k>> \in Q <=> <<t, k>> \in P \ U
    <3>1. CASE t = s
      BY <3>1 DEF Passing, FrameBytes
    <3>2. CASE t # s
      BY <3>2 DEF Passing, FrameBytes
    <3> QED BY <3>1, <3>2
  <2> HIDE DEF P, Q, U
  <2> QED BY <2>1, <2>2
<1>2. P \cap U = U
  BY DEF Passing, FrameBytes
<1>3. Cardinality(U) = n
  BY FrameBytesCount
<1>4. IsFiniteSet(P)
  OBVIOUS
<1> HIDE DEF P, Q, U
<1>5. IsFiniteSet(P \ U) /\ Cardinality(P \ U) = Cardinality(P) - Cardinality(P \cap U)
  BY <1>4, FS_Difference
<1>6. IsFiniteSet(Q) /\ Cardinality(Q) = Cardinality(P) - n
  BY <1>1, <1>2, <1>3, <1>5
<1> QED BY <1>6 DEF P, Q

\* A bound survives when nothing more is due and the credit only shrinks.
LEMMA CoveredKept ==
  ASSUME NEW i, NEW d \in Nat, NEW e \in Nat, NEW b, NEW c,
         i \in Accounts => b \in Nat /\ c \in Nat /\ c <= b,
         e <= d, Covered(i, d, b)
  PROVE  Covered(i, e, c)
<1>1. CASE i \in Accounts
  <2>1. InitialBalance[i] \in Nat /\ MaxSize \in Nat
    BY <1>1, BalanceAssumption, MaxSizeType
  <2> QED BY <1>1, <2>1 DEF Covered
<1>2. CASE i \notin Accounts
  BY <1>2 DEF Covered
<1> QED BY <1>1, <1>2

LEMMA CreditStep ==
  ASSUME IInv, CreditInv, [Next]_vars
  PROVE  CreditInv'
<1> USE DEF IInv
<1> USE DEF cache, stream, history, Goto, At
<1> DEFINE Goal(i) == IsFiniteSet(Passing(i)') /\ Covered(i, Due(i)', balance'[i])
           Same(t, i) == /\ ChargedFor(t, i)' <=> ChargedFor(t, i)
                         /\ ChargedFor(t, i) => frame'[t] = frame[t]
<1> SUFFICES ASSUME NEW i \in Imsis PROVE Goal(i)
  BY DEF CreditInv
<1>1. IsFiniteSet(Passing(i)) /\ Covered(i, Due(i), balance[i])
  BY DEF CreditInv
<1>2. Cardinality(Passing(i)) \in Nat /\ delivered[i] \in Nat /\ Due(i) \in Nat
  BY <1>1, FS_CardinalityType DEF TypeOK, Due
<1>3. i \in Accounts => balance[i] \in Nat /\ balance'[i] \in Nat
  BY TypeStep DEF TypeOK
<1>4. ASSUME \A t \in Streams : Same(t, i), delivered' = delivered,
             i \in Accounts => balance'[i] <= balance[i]
      PROVE  Goal(i)
  <2>1. Passing(i)' = Passing(i)
    BY <1>4, PassingSame
  <2>2. Due(i)' = Due(i)
    BY <1>4, <2>1 DEF Due
  <2>3. Covered(i, Due(i), balance'[i])
    <3>1. Due(i) <= Due(i) /\ (i \in Accounts => balance[i] \in Nat /\ balance'[i] \in Nat
                                               /\ balance'[i] <= balance[i])
      BY <1>2, <1>3, <1>4
    <3> QED BY <1>1, <1>2, <3>1, CoveredKept
  <2> QED BY <1>1, <2>1, <2>2, <2>3
<1>5. i \in Accounts /\ balance' = balance => balance'[i] <= balance[i]
  BY <1>3
<1>6. ASSUME NEW s \in Streams, NEW f \in Frames, Recv(s, f) PROVE Goal(i)
  BY <1>4, <1>5, <1>6 DEF Recv, ChargedFor, TypeOK
<1>7. ASSUME NEW s \in Streams, Close(s) \/ Admit(s) PROVE Goal(i)
  BY <1>4, <1>5, <1>7 DEF Close, Admit, ChargedFor, TypeOK
<1>8. ASSUME NEW s \in Streams, Deny(s) PROVE Goal(i)
  BY <1>4, <1>5, <1>8 DEF Deny, Done, ChargedFor, TypeOK
<1>9. ASSUME NEW s \in Streams, Lookup(s) PROVE Goal(i)
  BY <1>4, <1>5, <1>9 DEF Lookup, Decide, ChargedFor, TypeOK
<1>10. ASSUME NEW s \in Streams, Charge(s) PROVE Goal(i)
  <2> DEFINE n == Bytes(frame[s])
             u == UsedBytes(frame[s])
  <2>1. n \in Nat /\ n <= MaxSize /\ MaxSize \in Nat /\ u \in Nat /\ n \in {0, u}
    BY FrameType, MaxSizeType DEF TypeOK
  <2>2. /\ pc[s] = "charge" /\ pc' = [pc EXCEPT ![s] = "execute"]
        /\ UNCHANGED <<owner, sess, frame, delivered>>
        /\ HasCredit(owner[sess[s]])
        /\ balance' = [balance EXCEPT ![owner[sess[s]]] = @ - Granted(owner[sess[s]], u)]
    BY <1>10 DEF Charge
  <2>3. \A t \in Streams \ {s} : pc'[t] = pc[t]
    BY <2>2 DEF TypeOK
  <2>4. CASE owner[sess[s]] # i
    <3>1. \A t \in Streams : Same(t, i)
      BY <2>2, <2>3, <2>4 DEF ChargedFor, TypeOK
    <3>2. i \in Accounts => balance'[i] = balance[i]
      BY <2>2, <2>4 DEF TypeOK
    <3> QED BY <1>3, <1>4, <2>2, <3>1, <3>2
  <2>5. CASE owner[sess[s]] = i
    <3>1. i \in Accounts /\ balance[i] > 0 /\ balance'[i] = balance[i] - Granted(i, u)
      BY <2>2, <2>5 DEF HasCredit, TypeOK
    <3>2. /\ ~ChargedFor(s, i) /\ ChargedFor(s, i)' /\ Bytes(frame'[s]) = n
          /\ \A t \in Streams \ {s} : /\ ChargedFor(t, i)' <=> ChargedFor(t, i)
                                      /\ frame'[t] = frame[t]
      BY <2>2, <2>3, <2>5 DEF ChargedFor, TypeOK
    <3>3. IsFiniteSet(Passing(i)') /\ Cardinality(Passing(i)') = Cardinality(Passing(i)) + n
      <4> HIDE DEF n
      <4> QED BY <1>1, <2>1, <3>2, PassingMore
    <3>4. Due(i)' = Due(i) + n
      BY <1>2, <2>1, <2>2, <3>3 DEF Due
    <3>5. InitialBalance[i] \in Nat /\ Due(i) <= InitialBalance[i] - balance[i]
      BY <1>1, <3>1, BalanceAssumption DEF Covered
    <3>6. \/ balance'[i] = balance[i] - n
          \/ balance'[i] = 0 /\ balance[i] < n
          \/ n = 0 /\ balance'[i] <= balance[i]
      <4> HIDE DEF n, u
      <4> QED BY <1>3, <2>1, <3>1 DEF Granted
    <3>7. Covered(i, Due(i)', balance'[i])
      <4> HIDE DEF n
      <4> QED BY <1>2, <1>3, <2>1, <3>1, <3>4, <3>5, <3>6 DEF Covered
    <3> QED BY <3>3, <3>7
  <2> QED BY <2>4, <2>5
<1>11. ASSUME NEW s \in Streams, ChargeRefused(s) PROVE Goal(i)
  BY <1>4, <1>5, <1>11 DEF ChargeRefused, Decide, ChargedFor, TypeOK
<1>12. ASSUME NEW s \in Streams, ChargeFails(s) PROVE Goal(i)
  <2>1. \A t \in Streams : Same(t, i)
    BY <1>12 DEF ChargeFails, Decide, ChargedFor, TypeOK
  <2>2. i \in Accounts => balance'[i] <= balance[i]
    <3>1. UsedBytes(frame[s]) \in Nat
      BY FrameType DEF TypeOK
    <3>2. i \in Accounts => Granted(i, UsedBytes(frame[s])) \in Nat
      BY <3>1, GrantedType DEF TypeOK
    <3> QED BY <1>3, <1>12, <3>2 DEF ChargeFails, TypeOK
  <2> QED BY <1>4, <1>12, <2>1, <2>2 DEF ChargeFails
<1>13. ASSUME NEW s \in Streams, Execute(s) PROVE Goal(i)
  BY <1>4, <1>5, <1>13 DEF Execute, ChargedFor, TypeOK
<1>14. ASSUME NEW s \in Streams, ExecuteUnhandled(s) \/ Answer(s) PROVE Goal(i)
  <2> DEFINE n == Bytes(frame[s])
             more == IF Answer(s) /\ owner[sess[s]] = i THEN n ELSE 0
  <2>1. n \in Nat
    BY FrameType DEF TypeOK
  <2>2. /\ pc[s] \in {"execute", "answer"} /\ pc'[s] \in {"recv", "send"}
        /\ \A t \in Streams \ {s} : pc'[t] = pc[t] /\ frame'[t] = frame[t] /\ sess'[t] = sess[t]
        /\ UNCHANGED <<owner, balance>>
    BY <1>14 DEF ExecuteUnhandled, Answer, Decide, Done, TypeOK
  <2>3. delivered'[i] = delivered[i] + more
    BY <1>14, <1>2, <2>1 DEF ExecuteUnhandled, Answer, TypeOK
  <2>4. CASE owner[sess[s]] # i
    <3>1. \A t \in Streams : Same(t, i)
      BY <2>2, <2>4 DEF ChargedFor
    <3>2. Passing(i)' = Passing(i)
      BY <3>1, PassingSame
    <3>3. Due(i)' = Due(i)
      BY <1>2, <2>3, <2>4, <3>2 DEF Due
    <3> QED BY <1>1, <2>2, <3>2, <3>3
  <2>5. CASE owner[sess[s]] = i
    <3>1. /\ ChargedFor(s, i) /\ ~ChargedFor(s, i)'
          /\ \A t \in Streams \ {s} : /\ ChargedFor(t, i)' <=> ChargedFor(t, i)
                                      /\ frame'[t] = frame[t]
      BY <2>2, <2>5 DEF ChargedFor
    <3>2. IsFiniteSet(Passing(i)') /\ Cardinality(Passing(i)') = Cardinality(Passing(i)) - n
      BY <1>1, <2>1, <3>1, PassingLess
    <3>3. Cardinality(Passing(i)') \in Nat
      BY <3>2, FS_CardinalityType
    <3>4. more \in Nat /\ more <= n
      BY <2>1
    <3> HIDE DEF n, more
    <3>5. Due(i)' \in Nat /\ Due(i)' <= Due(i)
      BY <1>2, <2>1, <2>3, <3>2, <3>3, <3>4 DEF Due
    <3>6. Covered(i, Due(i)', balance'[i])
      BY <1>1, <1>2, <1>3, <1>5, <2>2, <3>5, CoveredKept
    <3> QED BY <3>2, <3>6
  <2> QED BY <2>4, <2>5
<1>15. ASSUME NEW s \in Streams, Send(s) \/ SendFails(s) PROVE Goal(i)
  BY <1>4, <1>5, <1>15 DEF Send, SendFails, Done, ChargedFor, TypeOK
<1>16. ASSUME NEW ip \in Ips, NEW imsi \in Imsis, Register(ip, imsi) PROVE Goal(i)
  <2>1. UNCHANGED <<pc, sess, frame, delivered, balance>>
    BY <1>16 DEF Register
  <2>2. allocated \in Nat /\ \A t \in Streams : sess[t] <= allocated /\ sess[t] \in Nat
    BY BoundsAssumption DEF Home, TypeOK
  <2>3. \A t \in Streams : Holding(t) => owner'[sess[t]] = owner[sess[t]]
    BY <1>16, <2>2, Held DEF Register, TypeOK
  <2>4. \A t \in Streams : Same(t, i)
    BY <2>1, <2>3 DEF ChargedFor, Holding
  <2> QED BY <1>4, <1>5, <2>1, <2>4
<1>17. ASSUME NEW sh \in Shards, Expire(sh) PROVE Goal(i)
  BY <1>4, <1>5, <1>17 DEF Expire, ChargedFor
<1>18. CASE UNCHANGED vars
  BY <1>4, <1>5, <1>18 DEF vars, ChargedFor
<1> QED BY <1>6, <1>7, <1>8, <1>9, <1>10, <1>11, <1>12, <1>13, <1>14, <1>15, <1>16, <1>17, <1>18
        DEF Next, Serve

LEMMA InitCredit == Init => CreditInv
<1> SUFFICES ASSUME Init, NEW i \in Imsis
             PROVE  IsFiniteSet(Passing(i)) /\ Covered(i, Due(i), balance[i])
  BY DEF CreditInv
<1>1. Passing(i) = {}
  BY DEF Init, Passing, ChargedFor
<1>2. Due(i) = 0
  BY <1>1, FS_EmptySet DEF Init, Due
<1>3. Covered(i, 0, balance[i])
  BY BalanceAssumption DEF Covered, Init
<1> QED BY <1>1, <1>2, <1>3, FS_EmptySet

(***************************************************************************)
(* Credit limits service, for any number of streams, sessions, addresses    *)
(* and frames: however the charges of ProcessPacket interleave, fail after  *)
(* they took effect or find their session replaced, a subscriber is allowed *)
(* less than one frame more than the OCS has taken for it, and one without  *)
(* an account nothing.                                                      *)
(***************************************************************************)
THEOREM OverdraftBounded == Spec => []OverdraftBound
<1>1. Init => IInv /\ CreditInv
  BY InitIInv, InitCredit
<1>2. IInv /\ CreditInv /\ [Next]_vars => (IInv /\ CreditInv)'
  BY TypeStep, CountsStep, HomeStep, RuledStep, CreditStep DEF IInv
<1>3. IInv /\ CreditInv => OverdraftBound
  <2> SUFFICES ASSUME IInv, CreditInv PROVE OverdraftBound
    OBVIOUS
  <2>1. ASSUME NEW i \in Imsis
        PROVE  delivered[i] \in Nat /\ Due(i) \in Nat /\ delivered[i] <= Due(i)
               /\ Covered(i, Due(i), balance[i])
    <3>1. IsFiniteSet(Passing(i)) /\ Covered(i, Due(i), balance[i])
      BY DEF CreditInv
    <3>2. Cardinality(Passing(i)) \in Nat /\ delivered[i] \in Nat
      BY <3>1, FS_CardinalityType DEF IInv, TypeOK
    <3> QED BY <3>1, <3>2 DEF Due
  <2>2. ASSUME NEW i \in Imsis PROVE Covered(i, delivered[i], balance[i])
    <3>1. i \in Accounts => balance[i] \in Nat /\ balance[i] <= balance[i]
      BY DEF IInv, TypeOK
    <3> QED BY <2>1, <3>1, CoveredKept
  <2> QED BY <2>2, BalanceAssumption DEF Covered, OverdraftBound
<1> QED BY <1>1, <1>2, <1>3, PTL DEF Spec
-----------------------------------------------------------------------------
\* FramesAccounted.  Every action moves one frame from one place to the next;
\* the places hold finitely many frames, for any set of streams.
FramesInv ==
    /\ IsFiniteSet(Units(received)) /\ IsFiniteSet(Units(answered))
    /\ IsFiniteSet(Units(unanswered)) /\ IsFiniteSet(InHand)
    /\ FramesAccounted

LEMMA OneMore ==
  ASSUME NEW f \in [Streams -> Nat], NEW s \in Streams, IsFiniteSet(Units(f))
  PROVE  /\ IsFiniteSet(Units([f EXCEPT ![s] = @ + 1]))
         /\ UnitSum([f EXCEPT ![s] = @ + 1]) = UnitSum(f) + 1
<1> DEFINE g == [f EXCEPT ![s] = @ + 1]
           u == <<s, f[s] + 1>>
<1>1. Units(g) = Units(f) \cup {u}
  <2>1. ASSUME NEW t \in Streams, NEW k \in Nat
        PROVE  <<t, k>> \in Units(g) <=> <<t, k>> \in Units(f) \cup {u}
    <3>1. CASE t = s
      BY <3>1 DEF Units
    <3>2. CASE t # s
      BY <3>2 DEF Units
    <3> QED BY <3>1, <3>2
  <2>2. Units(f) \subseteq Streams \X Nat /\ Units(g) \subseteq Streams \X Nat
        /\ u \in Streams \X Nat
    BY DEF Units
  <2> HIDE DEF g, u
  <2> QED BY <2>1, <2>2
<1>2. u \notin Units(f)
  BY DEF Units
<1> HIDE DEF g, u
<1>3. IsFiniteSet(Units(f) \cup {u})
      /\ Cardinality(Units(f) \cup {u}) = Cardinality(Units(f)) + 1
  BY <1>2, FS_AddElement
<1>4. IsFiniteSet(Units(g)) /\ UnitSum(g) = UnitSum(f) + 1
  BY <1>1, <1>3 DEF UnitSum
<1> QED BY <1>4 DEF g

\* A stream takes a frame in hand, or is done with it.
LEMMA TakesUp ==
  ASSUME NEW s \in Streams, IsFiniteSet(InHand), s \notin InHand, s \in InHand',
         \A t \in Streams \ {s} : pc'[t] = pc[t]
  PROVE  IsFiniteSet(InHand') /\ Cardinality(InHand') = Cardinality(InHand) + 1
<1>1. InHand' = InHand \cup {s}
  BY DEF InHand
<1> QED BY <1>1, FS_AddElement

LEMMA LetsGo ==
  ASSUME NEW s \in Streams, IsFiniteSet(InHand), s \in InHand, s \notin InHand',
         \A t \in Streams \ {s} : pc'[t] = pc[t]
  PROVE  IsFiniteSet(InHand') /\ Cardinality(InHand') = Cardinality(InHand) - 1
<1>1. InHand' = InHand \ {s}
  BY DEF InHand
<1> QED BY <1>1, FS_RemoveElement

LEMMA InitFrames == Init => FramesInv
<1> SUFFICES ASSUME Init PROVE FramesInv
  OBVIOUS
<1>1. /\ Units(received) = {} /\ Units(answered) = {} /\ Units(unanswered) = {}
      /\ InHand = {} /\ metrics.blocked = 0
  BY DEF Init, Units, InHand
<1>2. IsFiniteSet({}) /\ Cardinality({}) = 0
  BY FS_EmptySet
<1> QED BY <1>1, <1>2 DEF FramesInv, FramesAccounted, UnitSum

LEMMA FramesStep ==
  ASSUME TypeOK, FramesInv, [Next]_vars
  PROVE  FramesInv'
<1> USE DEF cache, stream, history, Goto, At, Decide, Done
<1> DEFINE N == Cardinality(InHand)
<1>1. /\ IsFiniteSet(Units(received)) /\ IsFiniteSet(Units(answered))
      /\ IsFiniteSet(Units(unanswered)) /\ IsFiniteSet(InHand)
      /\ UnitSum(received) \in Nat /\ UnitSum(answered) \in Nat
      /\ UnitSum(unanswered) \in Nat /\ N \in Nat /\ metrics.blocked \in Nat
      /\ UnitSum(received) =
            metrics.blocked + UnitSum(answered) + UnitSum(unanswered) + N
  BY FS_CardinalityType DEF TypeOK, FramesInv, FramesAccounted, UnitSum
<1>2. /\ received \in [Streams -> Nat] /\ answered \in [Streams -> Nat]
      /\ unanswered \in [Streams -> Nat] /\ pc \in [Streams -> Labels]
  BY BoundsAssumption DEF TypeOK
<1>3. ASSUME InHand' = InHand, UNCHANGED <<received, answered, unanswered, metrics>>
      PROVE  FramesInv'
  BY <1>3 DEF FramesInv, FramesAccounted, Units, UnitSum
<1>4. ASSUME NEW s \in Streams, NEW f \in Frames, Recv(s, f) PROVE FramesInv'
  <2>1. /\ received' = [received EXCEPT ![s] = @ + 1]
        /\ UNCHANGED <<answered, unanswered, metrics>>
        /\ s \notin InHand /\ s \in InHand' /\ \A t \in Streams \ {s} : pc'[t] = pc[t]
    BY <1>2, <1>4 DEF Recv, InHand
  <2>2. IsFiniteSet(InHand') /\ Cardinality(InHand') = N + 1
    BY <1>1, <2>1, TakesUp
  <2>3. IsFiniteSet(Units(received')) /\ UnitSum(received') = UnitSum(received) + 1
    BY <1>1, <1>2, <2>1, OneMore
  <2> HIDE DEF N
  <2> QED BY <1>1, <2>1, <2>2, <2>3 DEF FramesInv, FramesAccounted
<1>5. ASSUME NEW s \in Streams, Deny(s) PROVE FramesInv'
  <2>1. /\ metrics'.blocked = metrics.blocked + 1
        /\ UNCHANGED <<received, answered, unanswered>>
        /\ s \in InHand /\ s \notin InHand' /\ \A t \in Streams \ {s} : pc'[t] = pc[t]
    BY <1>2, <1>5 DEF Deny, Blocked, InHand, TypeOK
  <2>2. IsFiniteSet(InHand') /\ Cardinality(InHand') = N - 1
    BY <1>1, <2>1, LetsGo
  <2> HIDE DEF N
  <2> QED BY <1>1, <2>1, <2>2 DEF FramesInv, FramesAccounted
<1>6. ASSUME NEW s \in Streams, ExecuteUnhandled(s) \/ SendFails(s) PROVE FramesInv'
  <2>1. /\ unanswered' = [unanswered EXCEPT ![s] = @ + 1]
        /\ UNCHANGED <<received, answered, metrics>>
        /\ s \in InHand /\ s \notin InHand' /\ \A t \in Streams \ {s} : pc'[t] = pc[t]
    BY <1>2, <1>6 DEF ExecuteUnhandled, SendFails, InHand
  <2>2. IsFiniteSet(InHand') /\ Cardinality(InHand') = N - 1
    BY <1>1, <2>1, LetsGo
  <2>3. IsFiniteSet(Units(unanswered')) /\ UnitSum(unanswered') = UnitSum(unanswered) + 1
    BY <1>1, <1>2, <2>1, OneMore
  <2> HIDE DEF N
  <2> QED BY <1>1, <2>1, <2>2, <2>3 DEF FramesInv, FramesAccounted
<1>7. ASSUME NEW s \in Streams, Send(s) PROVE FramesInv'
  <2>1. /\ answered' = [answered EXCEPT ![s] = @ + 1]
        /\ UNCHANGED <<received, unanswered>> /\ metrics'.blocked = metrics.blocked
        /\ s \in InHand /\ s \notin InHand' /\ \A t \in Streams \ {s} : pc'[t] = pc[t]
    BY <1>2, <1>7 DEF Send, InHand, TypeOK
  <2>2. IsFiniteSet(InHand') /\ Cardinality(InHand') = N - 1
    BY <1>1, <2>1, LetsGo
  <2>3. IsFiniteSet(Units(answered')) /\ UnitSum(answered') = UnitSum(answered) + 1
    BY <1>1, <1>2, <2>1, OneMore
  <2> HIDE DEF N
  <2> QED BY <1>1, <2>1, <2>2, <2>3 DEF FramesInv, FramesAccounted
<1>8. ASSUME NEW s \in Streams, Close(s) \/ Admit(s) \/ Lookup(s) PROVE FramesInv'
  BY <1>2, <1>3, <1>8 DEF Close, Admit, Lookup, InHand
<1>9. ASSUME NEW s \in Streams, Charge(s) \/ ChargeRefused(s) \/ ChargeFails(s)
      PROVE  FramesInv'
  BY <1>2, <1>3, <1>9 DEF Charge, ChargeRefused, ChargeFails, InHand
<1>10. ASSUME NEW s \in Streams, Execute(s) \/ Answer(s) PROVE FramesInv'
  BY <1>2, <1>3, <1>10 DEF Execute, Answer, InHand
<1>11. ASSUME NEW ip \in Ips, NEW imsi \in Imsis, Register(ip, imsi) PROVE FramesInv'
  BY <1>3, <1>11 DEF Register, InHand
<1>12. ASSUME NEW sh \in Shards, Expire(sh) PROVE FramesInv'
  BY <1>3, <1>12 DEF Expire, InHand
<1>13. CASE UNCHANGED vars
  BY <1>3, <1>13 DEF vars, InHand
<1> QED BY <1>4, <1>5, <1>6, <1>7, <1>8, <1>9, <1>10, <1>11, <1>12, <1>13 DEF Next, Serve

(***************************************************************************)
(* No frame is answered twice or forgotten, however many streams run: every *)
(* frame ProcessTrafficStream has received is blocked and counted by the    *)
(* limiter, answered, unanswered for want of a rule or a working stream, or *)
(* still in hand.                                                           *)
(***************************************************************************)
THEOREM FramesAccountedTheorem == Spec => []FramesAccounted
<1>1. Init => IInv /\ FramesInv
  BY InitIInv, InitFrames
<1>2. IInv /\ FramesInv /\ [Next]_vars => (IInv /\ FramesInv)'
  <2>1. IInv => TypeOK
    BY DEF IInv
  <2> QED BY <2>1, TypeStep, CountsStep, HomeStep, RuledStep, FramesStep DEF IInv
<1>3. FramesInv => FramesAccounted
  BY DEF FramesInv
<1> QED BY <1>1, <1>2, <1>3, PTL DEF Spec

-----------------------------------------------------------------------------
(***************************************************************************)
(* The dispatch engine.                                                     *)
(***************************************************************************)
\* A set of naturals that is not empty has a least member.
LEMMA LeastNat ==
  ASSUME NEW T, T \subseteq Nat, T # {}
  PROVE  \E x \in T : \A y \in T : x <= y
<1> DEFINE R == OpToRel(<, Nat)
<1>1. IsWellFoundedOn(R, Nat)
  BY NatLessThanWellFounded, Zenon
<1>2. \E x \in T : \A y \in T : ~(<<y, x>> \in R)
  <2> HIDE DEF R
  <2> QED BY <1>1, WFMin, Zenon
<1>3. R = {ss \in Nat \X Nat : ss[1] < ss[2]}
  BY Zenon DEF OpToRel
<1> HIDE DEF R
<1>4. PICK x \in T : \A y \in T : ~(<<y, x>> \in R)
  BY <1>2
<1>5. ASSUME NEW y \in T PROVE x <= y
  <2>1. ~(<<y, x>> \in R) /\ y \in Nat /\ x \in Nat
    BY <1>4
  <2>2. ~(y < x)
    BY <1>3, <2>1
  <2> QED BY <2>1, <2>2
<1> QED BY <1>5

\* The table is sorted.
Sorted(t) == \A i, j \in DOMAIN t : i < j => t[i].upperBound <= t[j].upperBound

\* k entries of t lie below v, and they are the first.
Below(t, v, k) ==
    /\ k \in 0 .. Len(t)
    /\ \A i \in 1 .. k : t[i].upperBound < v
    /\ \A i \in k + 1 .. Len(t) : t[i].upperBound >= v

\* In a sorted table the entries below a value come first.
LEMMA BelowExists ==
  ASSUME NEW R, \A r \in R : r.upperBound \in Int, NEW t \in Seq(R), Sorted(t), NEW v \in Int
  PROVE  \E k : Below(t, v, k)
<1>0. Len(t) \in Nat /\ \A i \in 1 .. Len(t) : t[i].upperBound \in Int
  <2>1. \A i \in 1 .. Len(t) : t[i] \in R
    OBVIOUS
  <2> QED BY <2>1
<1> DEFINE T == {k \in 0 .. Len(t) : k < Len(t) => t[k + 1].upperBound >= v}
<1>1. T \subseteq Nat /\ Len(t) \in T
  BY <1>0
<1>2. PICK k \in T : \A y \in T : k <= y
  <2> HIDE DEF T
  <2> QED BY <1>1, LeastNat
<1>3. ASSUME NEW i \in 1 .. k PROVE t[i].upperBound < v
  <2>1. i - 1 \in 0 .. Len(t) /\ i - 1 < Len(t) /\ i - 1 < k /\ (i - 1) + 1 = i /\ i \in 1 .. Len(t)
    BY <1>0, <1>2
  <2>2. i - 1 \notin T
    BY <1>1, <1>2, <2>1
  <2> QED BY <1>0, <2>1, <2>2
<1>4. ASSUME NEW i \in k + 1 .. Len(t) PROVE t[i].upperBound >= v
  <2>1. k + 1 \in 1 .. Len(t) /\ i \in 1 .. Len(t) /\ k < Len(t) /\ DOMAIN t = 1 .. Len(t)
    BY <1>0, <1>2
  <2>2. t[k + 1].upperBound >= v
    BY <1>2, <2>1
  <2>3. k + 1 = i \/ t[k + 1].upperBound <= t[i].upperBound
    BY <2>1 DEF Sorted
  <2> QED BY <1>0, <2>1, <2>2, <2>3
<1> QED BY <1>2, <1>3, <1>4 DEF Below

\* The bisection of a sorted table ends at the first entry not below the value.
LEMMA Bisection ==
  ASSUME NEW R, \A r \in R : r.upperBound \in Int, NEW t \in Seq(R), NEW v \in Int,
         NEW k, Below(t, v, k)
  PROVE  Search(t, v) = k
<1> DEFINE n == Len(t)
           D == (0 .. n) \X (0 .. n)
           Body(f, i, j) ==
             LET h == (i + j) \div 2
             IN  IF i >= j THEN i
                 ELSE IF t[h + 1].upperBound >= v THEN f[<<i, h>>] ELSE f[<<h + 1, j>>]
           Step(f) == [w \in D |-> Body(f, w[1], w[2])]
           Clamp(i, j) == IF k <= i \/ i >= j THEN i ELSE IF k >= j THEN j ELSE k
           g == [w \in D |-> Clamp(w[1], w[2])]
           s == CHOOSE f : f = Step(f)
<1>0. n \in Nat /\ k \in 0 .. n
  BY DEF Below
<1>1. Search(t, v) = s[<<0, n>>]
  BY DEF Search
<1>2. ASSUME NEW i \in 0 .. n, NEW j \in 0 .. n, i < j
      PROVE  LET h == (i + j) \div 2
             IN  /\ h \in 0 .. n /\ i <= h /\ h < j /\ h + 1 \in 0 .. n /\ h - i < j - i
                 /\ h + 1 \in 1 .. n
                 /\ t[h + 1].upperBound \in Int
                 /\ t[h + 1].upperBound >= v <=> k <= h
  <2> DEFINE h == (i + j) \div 2
  <2>1. i + j \in Nat /\ 2 * h <= i + j /\ i + j < 2 * h + 2 /\ h \in Int
    BY <1>0
  <2> HIDE DEF h
  <2>2. /\ h \in 0 .. n /\ i <= h /\ h < j /\ h + 1 \in 0 .. n /\ h - i < j - i
        /\ h + 1 \in 1 .. n
    BY <1>0, <1>2, <2>1
  <2>3. t[h + 1] \in R
    BY <2>2
  <2>4. t[h + 1].upperBound \in Int
    BY <2>3
  <2>5. k <= h => h + 1 \in k + 1 .. n
    BY <1>0, <2>2
  <2>6. ~(k <= h) => h + 1 \in 1 .. k
    BY <1>0, <2>2
  <2>7. t[h + 1].upperBound >= v <=> k <= h
    BY <2>4, <2>5, <2>6 DEF Below
  <2> QED BY <2>2, <2>4, <2>7 DEF h
<1>3. ASSUME NEW i \in 0 .. n, NEW j \in 0 .. n PROVE Clamp(i, j) = Body(g, i, j)
  <2> DEFINE h == (i + j) \div 2
  <2>1. CASE i >= j
    BY <2>1
  <2>2. CASE i < j
    <3>1. /\ h \in 0 .. n /\ i <= h /\ h < j /\ h + 1 \in 0 .. n
          /\ t[h + 1].upperBound >= v <=> k <= h
      BY <1>2, <2>2
    <3>2. g[<<i, h>>] = Clamp(i, h) /\ g[<<h + 1, j>>] = Clamp(h + 1, j)
      BY <3>1
    <3> HIDE DEF h, g
    <3>3. k <= h => Clamp(i, j) = Clamp(i, h)
      BY <1>0, <2>2, <3>1
    <3>4. ~(k <= h) => Clamp(i, j) = Clamp(h + 1, j)
      BY <1>0, <2>2, <3>1
    <3>5. ~(i >= j)
      BY <2>2
    <3> HIDE DEF Clamp
    <3>6. Clamp(i, j) = IF t[h + 1].upperBound >= v THEN g[<<i, h>>] ELSE g[<<h + 1, j>>]
      BY <3>1, <3>2, <3>3, <3>4
    <3> QED BY <3>5, <3>6 DEF h
  <2> QED BY <1>0, <2>1, <2>2
<1>4. g = Step(g)
  <2>1. \A w \in D : Clamp(w[1], w[2]) = Body(g, w[1], w[2])
    BY <1>3
  <2> QED BY <2>1
<1>5. s = Step(s)
  <2> HIDE DEF Step, g
  <2> QED BY <1>4
<1>6. \A i, j \in 0 .. n : s[<<i, j>>] = Body(s, i, j)
  <2> HIDE DEF s
  <2> SUFFICES ASSUME NEW i \in 0 .. n, NEW j \in 0 .. n PROVE s[<<i, j>>] = Body(s, i, j)
    OBVIOUS
  <2>1. s[<<i, j>>] = Step(s)[<<i, j>>]
    BY <1>5
  <2> QED BY <2>1
<1> HIDE DEF s
<1> DEFINE T == {d \in 0 .. n : \E i, j \in 0 .. n : /\ i < j /\ j - i = d
                                                      /\ s[<<i, j>>] # Clamp(i, j)}
<1>7. T = {}
  <2> SUFFICES ASSUME T # {} PROVE FALSE
    OBVIOUS
  <2>1. PICK d \in T : \A e \in T : d <= e
    <3>1. T \subseteq Nat
      OBVIOUS
    <3> HIDE DEF T
    <3> QED BY <3>1, LeastNat
  <2>2. PICK i \in 0 .. n, j \in 0 .. n : i < j /\ j - i = d /\ s[<<i, j>>] # Clamp(i, j)
    OBVIOUS
  <2>3. ASSUME NEW a \in 0 .. n, NEW b \in 0 .. n, a <= b, b - a < d
        PROVE  s[<<a, b>>] = Clamp(a, b)
    <3>1. CASE a < b
      <4>1. b - a \in 0 .. n /\ d \in Nat /\ ~(d <= b - a)
        BY <1>0, <2>1, <2>3, <3>1
      <4>2. b - a \notin T
        <5> HIDE DEF T
        <5> QED BY <2>1, <4>1
      <4> HIDE DEF Clamp
      <4> QED BY <3>1, <4>1, <4>2
    <3>2. CASE a = b
      <4>1. s[<<a, b>>] = Body(s, a, b)
        BY <1>6
      <4> QED BY <3>2, <4>1
    <3> QED BY <2>3, <3>1, <3>2
  <2> DEFINE h == (i + j) \div 2
  <2>4. /\ h \in 0 .. n /\ i <= h /\ h < j /\ h + 1 \in 0 .. n /\ h - i < j - i
        /\ t[h + 1].upperBound >= v <=> k <= h
    BY <1>2, <2>2
  <2>5. s[<<i, h>>] = g[<<i, h>>]
    BY <2>2, <2>3, <2>4
  <2>6. s[<<h + 1, j>>] = g[<<h + 1, j>>]
    BY <1>0, <2>2, <2>3, <2>4
  <2>7. Body(s, i, j) = Body(g, i, j)
    BY <2>5, <2>6
  <2>8. s[<<i, j>>] = Body(s, i, j) /\ Clamp(i, j) = Body(g, i, j)
    BY <1>3, <1>6
  <2> HIDE DEF Body, Clamp
  <2> QED BY <2>2, <2>7, <2>8
<1>8. CASE n = 0
  BY <1>0, <1>1, <1>6, <1>8
<1>9. CASE n > 0
  <2>1. s[<<0, n>>] = Clamp(0, n)
    <3>1. n \in 0 .. n /\ 0 \in 0 .. n /\ 0 < n /\ n - 0 = n
      BY <1>0, <1>9
    <3>2. n \notin T
      <4> HIDE DEF T
      <4> QED BY <1>7
    <3> HIDE DEF Clamp, n
    <3> QED BY <3>1, <3>2
  <2> QED BY <1>0, <1>1, <1>9, <2>1
<1> QED BY <1>0, <1>8, <1>9

-----------------------------------------------------------------------------
\* AddRangeConfig puts the new entry behind the k entries that are not greater.
LEMMA Inserts ==
  ASSUME NEW R, \A r \in R : r.upperBound \in Int, NEW t \in Seq(R),
         NEW b \in Int, NEW f, [upperBound |-> b, flag |-> f] \in R, NEW k, Below(t, b + 1, k)
  PROVE  LET r == AddRange(t, b, f)
         IN  /\ r \in Seq(R) /\ Len(r) = Len(t) + 1
             /\ \A i \in 1 .. Len(t) + 1 :
                   r[i] = IF i <= k THEN t[i]
                          ELSE IF i = k + 1 THEN [upperBound |-> b, flag |-> f] ELSE t[i - 1]
<1> DEFINE n == Len(t)
           new == [upperBound |-> b, flag |-> f]
           Fits(i) == /\ i > 0 => t[i].upperBound <= b
                    /\ \A j \in i + 1 .. n : t[j].upperBound > b
           place == CHOOSE i \in 0 .. n : Fits(i)
<1>0. n \in Nat /\ k \in 0 .. n /\ b \in Int /\ new \in R
  BY DEF Below
<1>1. \A i \in 1 .. n : t[i] \in R /\ t[i].upperBound \in Int
  <2>1. \A i \in 1 .. n : t[i] \in R
    OBVIOUS
  <2> QED BY <2>1
<1>2. Fits(k)
  <2>1. ASSUME k > 0 PROVE t[k].upperBound <= b
    <3>1. k \in 1 .. k /\ k \in 1 .. n
      BY <1>0, <2>1
    <3>2. t[k].upperBound < b + 1
      BY <3>1 DEF Below
    <3> QED BY <1>0, <1>1, <3>1, <3>2
  <2>2. ASSUME NEW j \in k + 1 .. n PROVE t[j].upperBound > b
    <3>1. t[j].upperBound >= b + 1 /\ j \in 1 .. n
      BY <1>0 DEF Below
    <3> QED BY <1>0, <1>1, <3>1
  <2> QED BY <2>1, <2>2
<1>3. ASSUME NEW i \in 0 .. n, Fits(i) PROVE i = k
  <2>1. CASE i < k
    <3>1. k \in i + 1 .. n /\ k > 0 /\ k \in 1 .. n
      BY <1>0, <2>1
    <3> QED BY <1>0, <1>1, <1>2, <1>3, <3>1
  <2>2. CASE i > k
    <3>1. i \in k + 1 .. n /\ i > 0 /\ i \in 1 .. n
      BY <1>0, <2>2
    <3> QED BY <1>0, <1>1, <1>2, <1>3, <3>1
  <2> QED BY <1>0, <2>1, <2>2
<1>4. place = k
  <2> HIDE DEF Fits
  <2> QED BY <1>0, <1>2, <1>3
<1>5. AddRange(t, b, f) = SubSeq(t, 1, k) \o <<new>> \o SubSeq(t, k + 1, n)
  <2>1. AddRange(t, b, f) = SubSeq(t, 1, place) \o <<new>> \o SubSeq(t, place + 1, n)
    BY DEF AddRange
  <2> QED BY <1>4, <2>1
<1> DEFINE u == SubSeq(t, 1, k)
           w == SubSeq(t, k + 1, n)
<1>6. /\ u \in Seq(R) /\ Len(u) = k /\ \A i \in 1 .. k : u[i] = t[i]
  BY <1>0, <1>1
<1>7. /\ w \in Seq(R) /\ Len(w) = n - k /\ \A i \in 1 .. n - k : w[i] = t[k + i]
  BY <1>0, <1>1
<1> HIDE DEF u, w, new, n
<1> DEFINE r == u \o <<new>> \o w
<1>8. r \in Seq(R) /\ Len(r) = n + 1
  <2>1. <<new>> \in Seq(R) /\ Len(<<new>>) = 1
    BY <1>0
  <2> DEFINE h == u \o <<new>>
  <2>2. h \in Seq(R) /\ Len(h) = k + 1
    BY <1>6, <2>1, ConcatProperties
  <2>3. r = h \o w
    OBVIOUS
  <2> HIDE DEF h, r
  <2>4. w \in Seq(R)
    BY <1>7
  <2>5. h \o w \in Seq(R) /\ Len(h \o w) = Len(h) + Len(w)
    BY <2>2, <2>4, ConcatProperties
  <2> QED BY <1>0, <1>7, <2>2, <2>3, <2>5
<1>9. \A i \in 1 .. n + 1 : r[i] = IF i <= k THEN u[i] ELSE IF i = k + 1 THEN new
                                                        ELSE w[i - (k + 1)]
  <2> DEFINE h == u \o <<new>>
  <2>1. /\ h \in Seq(R) /\ Len(h) = k + 1 /\ h[k + 1] = new
        /\ \A i \in 1 .. k : h[i] = u[i]
    BY <1>0, <1>6
  <2>2. r = h \o w
    OBVIOUS
  <2> HIDE DEF h, r
  <2>3. \A i \in 1 .. n + 1 : r[i] = IF i <= k + 1 THEN h[i] ELSE w[i - (k + 1)]
    <3>1. Len(w) = n - k /\ w \in Seq(R) /\ n - k \in Nat
      BY <1>0, <1>7
    <3> SUFFICES ASSUME NEW i \in 1 .. n + 1
                 PROVE  r[i] = IF i <= k + 1 THEN h[i] ELSE w[i - (k + 1)]
      OBVIOUS
    <3>2. i \in 1 .. Len(h) + Len(w)
      BY <1>0, <2>1, <3>1
    <3>3. (h \o w)[i] = IF i <= Len(h) THEN h[i] ELSE w[i - Len(h)]
      BY <2>1, <3>1, <3>2, ConcatProperties
    <3> QED BY <2>1, <2>2, <3>3
  <2> QED BY <1>0, <2>1, <2>3
<1>10. ASSUME NEW i \in 1 .. n + 1
       PROVE  r[i] = IF i <= k THEN t[i] ELSE IF i = k + 1 THEN new ELSE t[i - 1]
  <2> HIDE DEF r
  <2>1. CASE i <= k
    BY <1>0, <1>6, <1>9, <2>1
  <2>2. CASE i = k + 1
    BY <1>0, <1>9, <2>2
  <2>3. CASE i > k + 1
    <3>1. i - (k + 1) \in 1 .. n - k /\ k + (i - (k + 1)) = i - 1
      BY <1>0, <2>3
    <3> QED BY <1>0, <1>7, <1>9, <2>3, <3>1
  <2> QED BY <1>0, <2>1, <2>2, <2>3
<1> QED BY <1>5, <1>8, <1>10 DEF u, w, new, n

-----------------------------------------------------------------------------
\* p[i] is the turn at which the i-th range of the table was added: every range
\* is in the table, and of equal bounds the first added comes first.
Order(p) ==
    /\ \A j \in DOMAIN added : \E i \in DOMAIN added : p[i] = j
    /\ \A i \in DOMAIN added : rangeBounds[i] = added[p[i]]
    /\ \A i, j \in DOMAIN added :
          i < j /\ rangeBounds[i].upperBound = rangeBounds[j].upperBound => p[i] < p[j]

EngineInv ==
    /\ EngineTypeOK
    /\ Len(rangeBounds) = Len(added)
    /\ \E p \in [DOMAIN added -> DOMAIN added] : Order(p)

LEMMA InitEngineInv == EngineInit => EngineInv
<1> SUFFICES ASSUME EngineInit PROVE EngineInv
  OBVIOUS
<1>1. rangeBounds = <<>> /\ added = <<>> /\ registry = [m \in Masks |-> NoAction]
  BY DEF EngineInit
<1>2. DOMAIN added = {} /\ DOMAIN rangeBounds = {} /\ Len(rangeBounds) = Len(added)
  BY <1>1, EmptySeq
<1>3. EngineTypeOK
  BY <1>1, <1>2, EmptySeq DEF EngineTypeOK
<1>4. [i \in DOMAIN added |-> i] \in [DOMAIN added -> DOMAIN added]
  OBVIOUS
<1>5. Order([i \in DOMAIN added |-> i])
  BY <1>2 DEF Order
<1> QED BY <1>2, <1>3, <1>4, <1>5 DEF EngineInv

\* The entries of the table have integral bounds.
LEMMA RangeBoundsIntegral == \A r \in RangeConfig : r.upperBound \in Int
BY IntegersAssumption DEF RangeConfig

LEMMA AddRangeStep ==
  ASSUME EngineInv, NEW b \in Bounds, NEW f \in Flags,
         AddRangeConfig(b, f)
  PROVE  EngineInv'
<1> DEFINE new == [upperBound |-> b, flag |-> f]
           n == Len(added)
<1>1. /\ rangeBounds' = AddRange(rangeBounds, b, f) /\ added' = Append(added, new)
      /\ UNCHANGED registry
  BY DEF AddRangeConfig
<1>2. /\ rangeBounds \in Seq(RangeConfig) /\ added \in Seq(RangeConfig)
      /\ Len(rangeBounds) = n /\ n \in Nat /\ DOMAIN added = 1 .. n /\ DOMAIN rangeBounds = 1 .. n
  BY LenProperties DEF EngineInv, EngineTypeOK
<1>3. new \in RangeConfig /\ b \in Int
  BY IntegersAssumption DEF RangeConfig
<1>4. Sorted(rangeBounds)
  BY DEF EngineInv, EngineTypeOK, Sorted
<1>5. PICK k : Below(rangeBounds, b + 1, k)
  <2>1. b + 1 \in Int /\ \A r \in RangeConfig : r.upperBound \in Int
    BY <1>3, RangeBoundsIntegral
  <2> QED BY <1>2, <1>4, <2>1, BelowExists
<1>6. k \in 0 .. n
  BY <1>2, <1>5 DEF Below
<1>7. /\ rangeBounds' \in Seq(RangeConfig) /\ Len(rangeBounds') = n + 1
      /\ \A i \in 1 .. n + 1 :
            rangeBounds'[i] = IF i <= k THEN rangeBounds[i]
                              ELSE IF i = k + 1 THEN new ELSE rangeBounds[i - 1]
  BY <1>1, <1>2, <1>3, <1>5, RangeBoundsIntegral, Inserts
<1>8. /\ added' \in Seq(RangeConfig) /\ Len(added') = n + 1 /\ added'[n + 1] = new
      /\ \A i \in 1 .. n : added'[i] = added[i]
      /\ DOMAIN added' = 1 .. n + 1 /\ DOMAIN rangeBounds' = 1 .. n + 1
  BY <1>1, <1>2, <1>3, <1>7, AppendProperties, LenProperties
<1>9. \A i \in 1 .. n : rangeBounds[i].upperBound \in Int
  BY <1>2, RangeBoundsIntegral
<1>10. \A i \in 1 .. k : rangeBounds[i].upperBound <= b
  BY <1>3, <1>5, <1>6, <1>9 DEF Below
<1>11. \A i \in k + 1 .. n : rangeBounds[i].upperBound > b
  BY <1>2, <1>3, <1>5, <1>6, <1>9 DEF Below
<1>12. new.upperBound = b
  OBVIOUS
<1> HIDE DEF n, new
<1>13. EngineTypeOK'
  <2> SUFFICES ASSUME NEW i \in 1 .. n + 1, NEW j \in 1 .. n + 1, i < j
               PROVE  rangeBounds'[i].upperBound <= rangeBounds'[j].upperBound
    BY <1>1, <1>7, <1>8 DEF EngineInv, EngineTypeOK
  <2>1. \A l, m \in 1 .. n : l < m => rangeBounds[l].upperBound <= rangeBounds[m].upperBound
    BY <1>2, <1>4 DEF Sorted
  <2>2. CASE j <= k
    <3>1. i \in 1 .. n /\ j \in 1 .. n /\ i <= k
      BY <1>2, <1>6, <2>2
    <3> QED BY <1>7, <2>1, <2>2, <3>1
  <2>3. CASE j = k + 1
    BY <1>2, <1>6, <1>7, <1>10, <1>12, <2>3
  <2>4. CASE j > k + 1
    <3>1. /\ j - 1 \in 1 .. n /\ j - 1 \in k + 1 .. n
          /\ rangeBounds'[j] = rangeBounds[j - 1] /\ rangeBounds[j - 1].upperBound > b
      BY <1>2, <1>6, <1>7, <1>11, <2>4
    <3>2. CASE i <= k
      BY <1>2, <1>3, <1>6, <1>7, <1>9, <1>10, <3>1, <3>2
    <3>3. CASE i = k + 1
      BY <1>2, <1>3, <1>6, <1>7, <1>9, <1>12, <3>1, <3>3
    <3>4. CASE i > k + 1
      BY <1>2, <1>6, <1>7, <2>1, <3>1, <3>4
    <3> QED BY <1>6, <3>2, <3>3, <3>4
  <2> QED BY <1>6, <2>2, <2>3, <2>4
<1>14. PICK p \in [1 .. n -> 1 .. n] : Order(p)
  BY <1>2 DEF EngineInv
<1>q. PICK q : q = [i \in 1 .. n + 1 |-> IF i <= k THEN p[i] ELSE IF i = k + 1 THEN n + 1
                                                              ELSE p[i - 1]]
  OBVIOUS
<1>15. ASSUME NEW i \in 1 .. n + 1
       PROVE  /\ i <= k => i \in 1 .. n /\ q[i] = p[i] /\ rangeBounds'[i] = rangeBounds[i]
              /\ i = k + 1 => q[i] = n + 1 /\ rangeBounds'[i] = new
              /\ i > k + 1 => /\ i - 1 \in 1 .. n /\ q[i] = p[i - 1]
                              /\ rangeBounds'[i] = rangeBounds[i - 1]
  <2>1. i <= k => i \in 1 .. n
    BY <1>2, <1>6
  <2>2. i > k + 1 => i - 1 \in 1 .. n
    BY <1>2, <1>6
  <2>3. ~(i <= k /\ i = k + 1) /\ ~(i <= k /\ i > k + 1) /\ ~(i = k + 1 /\ i > k + 1)
    BY <1>6
  <2> QED BY <1>q, <1>7, <2>1, <2>2, <2>3
<1>16. \A i \in 1 .. n + 1 : i <= k \/ i = k + 1 \/ i > k + 1
  BY <1>6
<1>17. q \in [1 .. n + 1 -> 1 .. n + 1]
  <2> SUFFICES ASSUME NEW i \in 1 .. n + 1 PROVE q[i] \in 1 .. n + 1
    BY <1>q
  <2>1. \A l \in 1 .. n : p[l] \in 1 .. n + 1
    BY <1>2
  <2>2. n + 1 \in 1 .. n + 1
    BY <1>2
  <2> QED BY <1>15, <1>16, <2>1, <2>2
<1>18. \A j \in 1 .. n + 1 : \E i \in 1 .. n + 1 : q[i] = j
  <2> SUFFICES ASSUME NEW j \in 1 .. n + 1 PROVE \E i \in 1 .. n + 1 : q[i] = j
    OBVIOUS
  <2>1. CASE j = n + 1
    <3>1. k + 1 \in 1 .. n + 1
      BY <1>2, <1>6
    <3> QED BY <1>15, <2>1, <3>1
  <2>2. CASE j # n + 1
    <3>1. j \in 1 .. n
      BY <1>2, <2>2
    <3>2. PICK l \in 1 .. n : p[l] = j
      BY <1>2, <1>14, <3>1 DEF Order
    <3>3. CASE l <= k
      <4>1. l \in 1 .. n + 1
        BY <1>2
      <4> QED BY <1>15, <3>2, <3>3, <4>1
    <3>4. CASE l > k
      <4>1. l + 1 \in 1 .. n + 1 /\ l + 1 > k + 1 /\ (l + 1) - 1 = l
        BY <1>2, <1>6, <3>4
      <4> QED BY <1>15, <3>2, <4>1
    <3> QED BY <1>6, <3>3, <3>4
  <2> QED BY <2>1, <2>2
<1>19. \A i \in 1 .. n + 1 : rangeBounds'[i] = added'[q[i]]
  <2>1. \A l \in 1 .. n : rangeBounds[l] = added[p[l]] /\ p[l] \in 1 .. n
    BY <1>2, <1>14 DEF Order
  <2>2. \A l \in 1 .. n : rangeBounds[l] = added'[p[l]]
    BY <1>8, <2>1
  <2> QED BY <1>8, <1>15, <1>16, <2>2
<1>20. ASSUME NEW i \in 1 .. n + 1, NEW j \in 1 .. n + 1, i < j,
              rangeBounds'[i].upperBound = rangeBounds'[j].upperBound
       PROVE  q[i] < q[j]
  <2>1. \A l, m \in 1 .. n :
           l < m /\ rangeBounds[l].upperBound = rangeBounds[m].upperBound => p[l] < p[m]
    BY <1>2, <1>14 DEF Order
  <2>2. CASE j <= k
    <3>1. i <= k
      BY <1>6, <1>20, <2>2
    <3> QED BY <1>15, <1>20, <2>1, <2>2, <3>1
  <2>3. CASE j = k + 1
    <3>1. i <= k
      BY <1>6, <1>20, <2>3
    <3>2. q[i] \in 1 .. n /\ q[j] = n + 1
      BY <1>15, <2>3, <3>1
    <3> QED BY <1>2, <3>2
  <2>4. CASE j > k + 1
    <3>1. /\ j - 1 \in 1 .. n /\ j - 1 \in k + 1 .. n
          /\ rangeBounds'[j] = rangeBounds[j - 1] /\ q[j] = p[j - 1]
      BY <1>2, <1>6, <1>15, <2>4
    <3>2. CASE i <= k
      <4>1. i \in 1 .. n /\ i < j - 1 /\ rangeBounds'[i] = rangeBounds[i] /\ q[i] = p[i]
        BY <1>6, <1>15, <2>4, <3>2
      <4> QED BY <1>20, <2>1, <3>1, <4>1
    <3>3. CASE i = k + 1
      <4>1. rangeBounds'[i].upperBound = b /\ rangeBounds'[j].upperBound > b
        BY <1>11, <1>12, <1>15, <3>1, <3>3
      <4> QED BY <1>3, <1>20, <4>1
    <3>4. CASE i > k + 1
      <4>1. /\ i - 1 \in 1 .. n /\ i - 1 < j - 1
            /\ rangeBounds'[i] = rangeBounds[i - 1] /\ q[i] = p[i - 1]
        BY <1>15, <1>20, <3>4
      <4> QED BY <1>20, <2>1, <3>1, <4>1
    <3> QED BY <1>16, <3>2, <3>3, <3>4
  <2> QED BY <1>16, <2>2, <2>3, <2>4
<1>21. Order(q)'
  BY <1>8, <1>18, <1>19, <1>20 DEF Order
<1> QED BY <1>7, <1>8, <1>13, <1>17, <1>21 DEF EngineInv

LEMMA NextEngineInv == EngineInv /\ [EngineNext]_engineVars => EngineInv'
<1> SUFFICES ASSUME EngineInv, [EngineNext]_engineVars PROVE EngineInv'
  OBVIOUS
<1>1. ASSUME UNCHANGED <<rangeBounds, added>>, registry' \in [Masks -> Actions \cup {NoAction}]
      PROVE  EngineInv'
  <2>1. rangeBounds' = rangeBounds /\ added' = added
    BY <1>1
  <2>2. EngineTypeOK' /\ Len(rangeBounds') = Len(added')
    BY <1>1, <2>1 DEF EngineInv, EngineTypeOK
  <2>3. PICK p \in [DOMAIN added -> DOMAIN added] : Order(p)
    BY DEF EngineInv
  <2>4. Order(p)'
    BY <2>1, <2>3 DEF Order
  <2> QED BY <2>1, <2>2, <2>3, <2>4 DEF EngineInv
<1>2. ASSUME NEW m \in Masks, NEW a \in Actions, RegisterAction(m, a)
      PROVE  EngineInv'
  BY <1>1, <1>2 DEF RegisterAction, EngineInv, EngineTypeOK
<1>3. CASE UNCHANGED engineVars
  BY <1>1, <1>3 DEF engineVars, EngineInv, EngineTypeOK
<1> QED BY <1>2, <1>3, AddRangeStep DEF EngineNext

-----------------------------------------------------------------------------
\* The bisection finds what the reference says.
LEMMA Finds ==
  ASSUME EngineInv, NEW v \in Int, added # <<>>
  PROVE  EvaluateRange(rangeBounds, v, NoFlag) = RangeOf(v)
<1> DEFINE n == Len(added)
           above == {i \in 1 .. n : added[i].upperBound >= v}
           tightest == {i \in above : \A j \in above : added[i].upperBound <= added[j].upperBound}
           widest == {i \in 1 .. n : \A j \in 1 .. n : added[i].upperBound >= added[j].upperBound}
           first == CHOOSE i \in tightest : \A j \in tightest : i <= j
           last == CHOOSE i \in widest : \A j \in widest : i >= j
<1>1. /\ rangeBounds \in Seq(RangeConfig) /\ added \in Seq(RangeConfig)
      /\ Len(rangeBounds) = n /\ n \in Nat /\ n > 0
      /\ DOMAIN added = 1 .. n /\ DOMAIN rangeBounds = 1 .. n
  <2>1. /\ rangeBounds \in Seq(RangeConfig) /\ added \in Seq(RangeConfig)
        /\ Len(rangeBounds) = n
    BY DEF EngineInv, EngineTypeOK
  <2>2. n \in Nat /\ DOMAIN added = 1 .. n /\ DOMAIN rangeBounds = 1 .. n
    BY <2>1, LenProperties
  <2>3. n # 0
    BY <2>1, EmptySeq
  <2> QED BY <2>1, <2>2, <2>3
<1>2. RangeOf(v) = IF above # {} THEN added[first].flag ELSE added[last].flag
  BY <1>1 DEF RangeOf
<1>3. /\ \A i \in 1 .. n : rangeBounds[i].upperBound \in Int
      /\ \A i \in 1 .. n : added[i].upperBound \in Int
  BY <1>1, RangeBoundsIntegral
<1>4. \A i, j \in 1 .. n : i < j => rangeBounds[i].upperBound <= rangeBounds[j].upperBound
  BY <1>1 DEF EngineInv, EngineTypeOK
<1>5. PICK k : Below(rangeBounds, v, k)
  <2>1. Sorted(rangeBounds) /\ \A r \in RangeConfig : r.upperBound \in Int
    BY <1>1, <1>4, RangeBoundsIntegral DEF Sorted
  <2> QED BY <1>1, <2>1, BelowExists
<1>6. Search(rangeBounds, v) = k
  <2>1. \A r \in RangeConfig : r.upperBound \in Int
    BY RangeBoundsIntegral
  <2> QED BY <1>1, <1>5, <2>1, Bisection
<1>7. /\ k \in 0 .. n
      /\ \A i \in 1 .. k : rangeBounds[i].upperBound < v
      /\ \A i \in k + 1 .. n : rangeBounds[i].upperBound >= v
  BY <1>1, <1>5 DEF Below
<1>8. EvaluateRange(rangeBounds, v, NoFlag) = rangeBounds[(IF k >= n THEN n - 1 ELSE k) + 1].flag
  BY <1>1, <1>6 DEF EvaluateRange
<1>9. PICK p \in [1 .. n -> 1 .. n] : Order(p)
  BY <1>1 DEF EngineInv
<1>10. /\ \A j \in 1 .. n : \E i \in 1 .. n : p[i] = j
       /\ \A i \in 1 .. n : rangeBounds[i] = added[p[i]]
       /\ \A i, j \in 1 .. n :
             i < j /\ rangeBounds[i].upperBound = rangeBounds[j].upperBound => p[i] < p[j]
       /\ \A i \in 1 .. n : p[i] \in 1 .. n
  BY <1>1, <1>9 DEF Order
<1> HIDE DEF n, first, last
<1>11. CASE k < n
  <2>1. k + 1 \in 1 .. n /\ EvaluateRange(rangeBounds, v, NoFlag) = rangeBounds[k + 1].flag
    BY <1>1, <1>7, <1>8, <1>11
  <2>2. p[k + 1] \in above /\ added[p[k + 1]].upperBound = rangeBounds[k + 1].upperBound
    <3>1. k + 1 \in k + 1 .. n
      BY <2>1, <1>7
    <3> QED BY <1>7, <1>10, <2>1, <3>1
  <2>3. ASSUME NEW j \in above
        PROVE  \E m \in 1 .. n : /\ p[m] = j /\ added[j].upperBound = rangeBounds[m].upperBound
                                 /\ m = k + 1 \/ k + 1 < m
    <3>1. PICK m \in 1 .. n : p[m] = j
      BY <1>10
    <3>2. rangeBounds[m] = added[j] /\ rangeBounds[m].upperBound >= v
      BY <1>10, <3>1
    <3>3. ~(m \in 1 .. k)
      BY <1>3, <1>7, <3>1, <3>2
    <3>4. m = k + 1 \/ k + 1 < m
      BY <1>7, <3>1, <3>3
    <3> QED BY <3>1, <3>2, <3>4
  <2>4. p[k + 1] \in tightest
    <3>1. ASSUME NEW j \in above PROVE added[p[k + 1]].upperBound <= added[j].upperBound
      BY <1>3, <1>4, <2>1, <2>2, <2>3
    <3> QED BY <2>2, <3>1
  <2>5. ASSUME NEW j \in tightest PROVE p[k + 1] <= j
    <3>1. j \in above /\ added[j].upperBound <= added[p[k + 1]].upperBound
      BY <2>2
    <3>2. added[p[k + 1]].upperBound <= added[j].upperBound
      BY <2>4, <3>1
    <3>3. added[j].upperBound = added[p[k + 1]].upperBound
      BY <1>3, <2>2, <3>1, <3>2
    <3>4. PICK m \in 1 .. n : /\ p[m] = j /\ added[j].upperBound = rangeBounds[m].upperBound
                              /\ m = k + 1 \/ k + 1 < m
      BY <2>3, <3>1
    <3>5. rangeBounds[m].upperBound = rangeBounds[k + 1].upperBound
      BY <2>2, <3>3, <3>4
    <3>6. m = k + 1 \/ p[k + 1] < p[m]
      BY <1>10, <2>1, <3>4, <3>5
    <3>7. p[k + 1] \in Int /\ p[m] \in Int
      BY <1>10, <2>1
    <3> HIDE DEF tightest
    <3> QED BY <3>4, <3>6, <3>7
  <2>6. first = p[k + 1]
    <3>1. \A j \in tightest : j \in Int
      OBVIOUS
    <3> HIDE DEF tightest
    <3>2. \A i, j \in tightest : i <= j /\ j <= i => i = j
      BY <3>1
    <3> QED BY <2>4, <2>5, <3>2 DEF first
  <2> HIDE DEF above
  <2> QED BY <1>2, <1>10, <2>1, <2>2, <2>6
<1>12. CASE k = n
  <2>1. n \in 1 .. n /\ EvaluateRange(rangeBounds, v, NoFlag) = rangeBounds[n].flag
    BY <1>1, <1>8, <1>12
  <2>2. above = {}
    <3> SUFFICES ASSUME NEW j \in above PROVE FALSE
      OBVIOUS
    <3>1. PICK m \in 1 .. n : p[m] = j
      BY <1>10
    <3>2. rangeBounds[m] = added[j] /\ added[j].upperBound >= v /\ rangeBounds[m].upperBound < v
      BY <1>7, <1>10, <1>12, <3>1
    <3> QED BY <1>3, <3>1, <3>2
  <2>3. p[n] \in widest /\ \A j \in widest : p[n] >= j
    <3>1. \A m \in 1 .. n : m = n \/ m < n
      BY <1>1
    <3>2. \A m \in 1 .. n : rangeBounds[m].upperBound <= rangeBounds[n].upperBound
      BY <1>3, <1>4, <2>1, <3>1
    <3>3. p[n] \in 1 .. n /\ rangeBounds[n] = added[p[n]]
      BY <1>10, <2>1
    <3>4. ASSUME NEW j \in 1 .. n PROVE added[p[n]].upperBound >= added[j].upperBound
      <4>1. PICK m \in 1 .. n : p[m] = j /\ rangeBounds[m] = added[j]
        BY <1>10
      <4> QED BY <1>3, <3>2, <3>3, <4>1
    <3>5. ASSUME NEW j \in widest PROVE p[n] >= j
      <4>1. PICK m \in 1 .. n : p[m] = j /\ rangeBounds[m] = added[j]
        BY <1>10
      <4>2. added[j].upperBound >= added[p[n]].upperBound
        BY <3>3
      <4>3. rangeBounds[m].upperBound = rangeBounds[n].upperBound
        BY <1>3, <3>2, <3>3, <4>1, <4>2
      <4>4. m = n \/ p[m] < p[n]
        BY <1>10, <2>1, <3>1, <4>3
      <4> QED BY <3>3, <4>1, <4>4
    <3> QED BY <3>3, <3>4, <3>5
  <2>4. last = p[n]
    <3>1. \A j \in widest : j \in Int
      OBVIOUS
    <3> HIDE DEF widest
    <3>2. \A i, j \in widest : i >= j /\ j >= i => i = j
      BY <3>1
    <3> QED BY <2>3, <3>2 DEF last
  <2> HIDE DEF above
  <2> QED BY <1>2, <1>10, <2>1, <2>2, <2>4
<1> QED BY <1>1, <1>7, <1>11, <1>12

(***************************************************************************)
(* Whatever ranges AddRangeConfig is given, in whatever order and with      *)
(* whatever bounds twice, EvaluateRange finds the range of every value.     *)
(***************************************************************************)
THEOREM RangesFoundTheorem == EngineSpec => []RangesFound
<1>1. EngineInv => RangesFound
  <2> SUFFICES ASSUME EngineInv, NEW v \in Values
               PROVE  EvaluateRange(rangeBounds, v, NoFlag) =
                        IF added = <<>> THEN NoFlag ELSE RangeOf(v)
    BY DEF RangesFound, EngineInv
  <2>1. CASE added = <<>>
    <3>1. Len(rangeBounds) = 0
      BY <2>1, EmptySeq DEF EngineInv
    <3> QED BY <2>1, <3>1 DEF EvaluateRange
  <2>2. CASE added # <<>>
    <3>1. v \in Int
      BY IntegersAssumption
    <3> QED BY <2>2, <3>1, Finds
  <2> QED BY <2>1, <2>2
<1> QED BY <1>1, InitEngineInv, NextEngineInv, PTL DEF EngineSpec
=============================================================================
