------------------------ MODULE PolicyControlProofs ------------------------
(***************************************************************************)
(* Proofs about PolicyControl, for any subscribers, calls, profiles and     *)
(* changes of profiles.                                                     *)
(*                                                                          *)
(* The argument: from the fetch on, the rules of a call of the PCRF are     *)
(* those of the profile it read (Grounded), profiles stay where they were   *)
(* stored, and the rules do not change once pcef-core has them.             *)
(***************************************************************************)
EXTENDS PolicyControl, SequenceTheorems, TLAPS

\* The rules of the call come from a profile that was current when it began or
\* later.
Grounded(c) ==
    LET i == req[c].imsi
    IN  /\ i \in Imsis
        /\ read[c] \in 1 .. Len(stored[i])
        /\ began[c] <= read[c]
        /\ rules[c] = RulesOf(stored[i][read[c]])

CallInv ==
    \A c \in Calls :
        /\ pc[c] \in {"idle", "fetch", "push"} => handler[c] = "none"
        /\ pc[c] = "fetch" =>
              /\ c \notin Direct
              /\ req[c].imsi \in Imsis
              /\ began[c] <= Len(stored[req[c].imsi])
        /\ c \notin Direct /\ (pc[c] \in {"push", "await"} \/ handler[c] # "none") =>
              Grounded(c)

SessionInv ==
    \A ip \in Ips : \A s \in session[ip] :
        s.from # Boot => /\ s.from \in Calls
                         /\ handler[s.from] = "done"
                         /\ s.imsi = req[s.from].imsi
                         /\ s.tariff = Tariff(rules[s.from])

IInv == TypeOK /\ CallInv /\ SessionInv

LEMMA RulesType ==
  ASSUME NEW p \in SubscriberProfile
  PROVE  RulesOf(p) \in Seq(RuleName)
<1>1. RulesOf(p) \in {<<>>, <<"QUOTA_EXHAUSTED">>, <<"VIP_UNLIMITED">>, <<"BASE_TARIFF">>}
  BY DEF RulesOf, rulesMap, SubscriberProfile
<1>2. \A x \in RuleName : <<x>> \in Seq(RuleName)
  OBVIOUS
<1> QED BY <1>1, <1>2, EmptySeq DEF RuleName

\* What pcef-core makes of the rules of a profile.
LEMMA TariffOfProfile ==
  ASSUME NEW p \in SubscriberProfile
  PROVE  \/ Tariff(RulesOf(p)) = "VIP"  /\ p.tariff = "VIP" /\ ~p.suspended
         \/ Tariff(RulesOf(p)) = "BASE" /\ (p.tariff # "VIP" \/ p.suspended)
  BY DEF RulesOf, rulesMap, SubscriberProfile, Tariff

LEMMA InitIInv == Init => IInv
<1> SUFFICES ASSUME Init PROVE IInv
  OBVIOUS
<1>1. TypeOK
  <2>1. stored \in [Imsis -> Seq(SubscriberProfile)]
    BY DefaultsAssumption DEF Init
  <2>2. session \in [Ips -> SUBSET SubscriberSession]
        /\ \A ip \in Ips : \A s, t \in session[ip] : s = t
    BY BootstrapAssumption DEF Init
  <2> QED BY <2>1, <2>2 DEF Init, TypeOK
<1>2. CallInv
  BY DEF Init, CallInv
<1>3. SessionInv
  BY BootstrapAssumption DEF Init, SessionInv
<1> QED BY <1>1, <1>2, <1>3 DEF IInv

LEMMA OneReplaced ==
  ASSUME NEW X, NEW Y, NEW f \in [X -> SUBSET Y], NEW k, NEW e \in Y
  PROVE  [f EXCEPT ![k] = {e}] \in [X -> SUBSET Y]
  OBVIOUS

LEMMA TypeStep ==
  ASSUME IInv, [Next]_vars
  PROVE  TypeOK'
<1> USE DEF IInv, TypeOK
<1>1. ASSUME NEW c \in Calls, HandleRadiusPacket(c) PROVE TypeOK'
  <2>1. <<"DYNAMIC_BOOTSTRAP">> \in Seq(RuleName)
    BY DEF RuleName
  <2>2. began' \in [Calls -> Nat] /\ earlier' \in [Calls -> SUBSET Calls]
    BY <1>1, LenProperties DEF HandleRadiusPacket, Begin
  <2> QED BY <1>1, <2>1, <2>2 DEF HandleRadiusPacket, Goto
<1>2. ASSUME NEW c \in Calls, ProvisionPccRules(c) PROVE TypeOK'
  <2>2. began' \in [Calls -> Nat] /\ earlier' \in [Calls -> SUBSET Calls]
    BY <1>2, LenProperties DEF ProvisionPccRules, Begin
  <2> QED BY <1>2, <2>2 DEF ProvisionPccRules, Goto, Return
<1>3. ASSUME NEW c \in Calls, FetchProfile(c) PROVE TypeOK'
  <2> DEFINE n == Len(stored[req[c].imsi])
  <2>1. req[c].imsi \in Imsis
    BY <1>3 DEF FetchProfile, At, CallInv
  <2>2. n \in Nat /\ stored[req[c].imsi][n] \in SubscriberProfile
    BY <1>3, <2>1, LenProperties, ElementOfSeq DEF FetchProfile
  <2>3. RulesOf(stored[req[c].imsi][n]) \in Seq(RuleName)
    BY <2>2, RulesType
  <2> QED BY <1>3, <2>2, <2>3 DEF FetchProfile, Goto
<1>4. ASSUME NEW c \in Calls, FetchNotFound(c) \/ CallFails(c) \/ PccRulesAck(c) PROVE TypeOK'
  <2>1. /\ \E w \in {"2001", "Internal", "error"} : Return(c, w)
        /\ UNCHANGED <<stored, session, stuck, req, rules, handler, history, media>>
    BY <1>4 DEF FetchNotFound, CallFails, PccRulesAck
  <2> QED BY <2>1 DEF Return, Goto, history
<1>5. ASSUME NEW c \in Calls, PushRules(c) PROVE TypeOK'
  BY <1>5 DEF PushRules, Goto, history
<1>6. ASSUME NEW c \in Calls, RegisterSubscriber(c) PROVE TypeOK'
  <2> DEFINE new == [imsi |-> req[c].imsi, tariff |-> Tariff(rules[c]),
                     bandwidth |-> FullBandwidth, from |-> c]
  <2>1. new \in SubscriberSession
    BY DEF SubscriberSession, PccRulesProvision, Tariff
  <2>5. session' = [session EXCEPT ![req[c].ip] = {new}]
    BY <1>6 DEF RegisterSubscriber
  <2> HIDE DEF new
  <2>2. session' \in [Ips -> SUBSET SubscriberSession]
    BY <2>1, <2>5, OneReplaced
  <2>3. \A ip \in Ips : \A s, t \in session'[ip] : s = t
    BY <2>5
  <2>4. handler' \in [Calls -> {"none", "register", "done"}]
    BY <1>6 DEF RegisterSubscriber
  <2> QED BY <1>6, <2>2, <2>3, <2>4 DEF RegisterSubscriber, history
<1>7. ASSUME NEW i \in Imsis, NEW p \in SubscriberProfile, Store(i, p) PROVE TypeOK'
  <2>1. Append(stored[i], p) \in Seq(SubscriberProfile)
    BY AppendProperties
  <2> QED BY <1>7, <2>1 DEF Store, history
<1>8. ASSUME NEW sh \in Shards, Expire(sh) PROVE TypeOK'
  <2>1. PICK ip \in Ips : session' = [session EXCEPT ![ip] = {}]
    BY <1>8 DEF Expire
  <2>2. session' \in [Ips -> SUBSET SubscriberSession]
        /\ \A jp \in Ips : \A s, t \in session'[jp] : s = t
    BY <2>1
  <2> QED BY <1>8, <2>2 DEF Expire, history
<1>9. ASSUME NEW m \in Media, SendAAQuery(m) \/ Revoke(m) PROVE TypeOK'
  BY <1>9 DEF SendAAQuery, Revoke, policy, history
<1>10. CASE UNCHANGED vars
  BY <1>10 DEF vars, history
<1> QED BY <1>1, <1>2, <1>3, <1>4, <1>5, <1>6, <1>7, <1>8, <1>9, <1>10 DEF Next, Serve

\* Profiles stay where they were stored, and so do grounds.
LEMMA GroundedStep ==
  ASSUME TypeOK, NEW c \in Calls, Grounded(c),
         UNCHANGED <<req, read, began, rules>>,
         \/ UNCHANGED stored
         \/ \E i \in Imsis, p \in SubscriberProfile : stored' = [stored EXCEPT ![i] = Append(@, p)]
  PROVE  Grounded(c)'
<1>1. CASE UNCHANGED stored
  BY <1>1 DEF Grounded
<1>2. CASE \E i \in Imsis, p \in SubscriberProfile : stored' = [stored EXCEPT ![i] = Append(@, p)]
  <2>1. PICK i \in Imsis, p \in SubscriberProfile : stored' = [stored EXCEPT ![i] = Append(@, p)]
    BY <1>2
  <2> DEFINE k == req[c].imsi
  <2>2. k \in Imsis /\ read[c] \in 1 .. Len(stored[k])
    BY DEF Grounded
  <2>3. stored[k] \in Seq(SubscriberProfile) /\ Len(stored[k]) \in Nat
    BY <2>2, LenProperties DEF TypeOK
  <2>4. Len(stored'[k]) >= Len(stored[k]) /\ stored'[k][read[c]] = stored[k][read[c]]
    <3>1. CASE k = i
      <4>1. stored'[k] = Append(stored[k], p)
        BY <2>1, <2>2, <3>1 DEF TypeOK
      <4> QED BY <4>1, <2>2, <2>3, AppendProperties
    <3>2. CASE k # i
      <4>1. stored'[k] = stored[k]
        BY <2>1, <2>2, <3>2 DEF TypeOK
      <4> QED BY <4>1, <2>3
    <3> QED BY <3>1, <3>2
  <2>5. Len(stored'[k]) \in Nat
    <3>1. stored' \in [Imsis -> Seq(SubscriberProfile)]
      BY <2>1, AppendProperties DEF TypeOK
    <3> QED BY <2>2, <3>1, LenProperties
  <2> QED BY <2>2, <2>3, <2>4, <2>5 DEF Grounded
<1> QED BY <1>1, <1>2

\* The grounds of a call whose rules and history a step leaves alone.
LEMMA GroundedSame ==
  ASSUME NEW c \in Calls, Grounded(c), UNCHANGED <<stored, req>>,
         read'[c] = read[c], began'[c] = began[c], rules'[c] = rules[c]
  PROVE  Grounded(c)'
  BY DEF Grounded

LEMMA CallStep ==
  ASSUME IInv, [Next]_vars
  PROVE  CallInv'
<1> USE DEF IInv
<1>1. ASSUME NEW c \in Calls, HandleRadiusPacket(c) PROVE CallInv'
  <2> SUFFICES ASSUME NEW d \in Calls PROVE
        /\ pc'[d] \in {"idle", "fetch", "push"} => handler'[d] = "none"
        /\ pc'[d] = "fetch" =>
              d \notin Direct /\ req'[d].imsi \in Imsis /\ began'[d] <= Len(stored'[req'[d].imsi])
        /\ d \notin Direct /\ (pc'[d] \in {"push", "await"} \/ handler'[d] # "none") =>
              Grounded(d)'
    BY DEF CallInv
  <2>1. CASE d = c
    BY <1>1, <2>1 DEF HandleRadiusPacket, Begin, At, Goto, CallInv, TypeOK
  <2>2. CASE d # c
    BY <1>1, <2>2, GroundedSame DEF HandleRadiusPacket, Begin, Goto, CallInv, TypeOK
  <2> QED BY <2>1, <2>2
<1>2. ASSUME NEW c \in Calls, ProvisionPccRules(c) PROVE CallInv'
  <2> SUFFICES ASSUME NEW d \in Calls PROVE
        /\ pc'[d] \in {"idle", "fetch", "push"} => handler'[d] = "none"
        /\ pc'[d] = "fetch" =>
              d \notin Direct /\ req'[d].imsi \in Imsis /\ began'[d] <= Len(stored'[req'[d].imsi])
        /\ d \notin Direct /\ (pc'[d] \in {"push", "await"} \/ handler'[d] # "none") =>
              Grounded(d)'
    BY DEF CallInv
  <2>1. CASE d = c
    <3>1. handler'[d] = "none" /\ pc'[d] \in {"fetch", "done"} /\ d \notin Direct
      BY <1>2, <2>1 DEF ProvisionPccRules, Begin, At, Goto, Return, CallInv, TypeOK
    <3>2. ASSUME pc'[d] = "fetch" PROVE req[c].imsi \in Imsis
      BY <1>2, <2>1, <3>2 DEF ProvisionPccRules, Return, Goto, TypeOK, PccRulesProvision
    <3>3. ASSUME pc'[d] = "fetch" PROVE began'[d] <= Len(stored'[req'[d].imsi])
      <4>1. stored[req[c].imsi] \in Seq(SubscriberProfile)
        BY <3>2, <3>3 DEF TypeOK
      <4>2. Len(stored[req[c].imsi]) \in Nat
        BY <4>1, LenProperties
      <4>3. began'[d] = Len(stored[req[c].imsi])
        BY <1>2, <2>1, <3>2, <3>3 DEF ProvisionPccRules, Begin, TypeOK
      <4> QED BY <1>2, <2>1, <4>2, <4>3 DEF ProvisionPccRules
    <3> QED BY <1>2, <2>1, <3>1, <3>2, <3>3 DEF ProvisionPccRules
  <2>2. CASE d # c
    BY <1>2, <2>2, GroundedSame DEF ProvisionPccRules, Begin, Goto, Return, CallInv, TypeOK
  <2> QED BY <2>1, <2>2
<1>3. ASSUME NEW c \in Calls, FetchProfile(c) PROVE CallInv'
  <2> SUFFICES ASSUME NEW d \in Calls PROVE
        /\ pc'[d] \in {"idle", "fetch", "push"} => handler'[d] = "none"
        /\ pc'[d] = "fetch" =>
              d \notin Direct /\ req'[d].imsi \in Imsis /\ began'[d] <= Len(stored'[req'[d].imsi])
        /\ d \notin Direct /\ (pc'[d] \in {"push", "await"} \/ handler'[d] # "none") =>
              Grounded(d)'
    BY DEF CallInv
  <2>1. CASE d = c
    <3> DEFINE i == req[c].imsi
    <3>1. i \in Imsis /\ began[c] <= Len(stored[i]) /\ handler[c] = "none"
      BY <1>3 DEF FetchProfile, At, CallInv
    <3>2. Len(stored[i]) \in Nat /\ Len(stored[i]) > 0
      BY <1>3, <3>1, LenProperties DEF FetchProfile, TypeOK
    <3>3. Len(stored[i]) \in 1 .. Len(stored[i])
      BY <3>2
    <3>4. read'[c] = Len(stored[i]) /\ rules'[c] = RulesOf(stored[i][Len(stored[i])])
          /\ pc'[c] = "push" /\ UNCHANGED <<stored, req, began, handler>>
      BY <1>3 DEF FetchProfile, Goto, TypeOK
    <3>5. Grounded(c)'
      BY <3>1, <3>3, <3>4 DEF Grounded
    <3> QED BY <2>1, <3>1, <3>4, <3>5
  <2>2. CASE d # c
    BY <1>3, <2>2, GroundedSame DEF FetchProfile, Goto, CallInv, TypeOK
  <2> QED BY <2>1, <2>2
<1>4. ASSUME NEW c \in Calls, FetchNotFound(c) \/ CallFails(c) \/ PccRulesAck(c) PROVE CallInv'
  <2>1. /\ pc' = [pc EXCEPT ![c] = "done"]
        /\ UNCHANGED <<stored, req, rules, handler, began, read>>
    BY <1>4 DEF FetchNotFound, CallFails, PccRulesAck, Return, Goto, history
  <2>2. \A d \in Calls : Grounded(d) => Grounded(d)'
    BY <2>1, GroundedSame
  <2> QED BY <2>1, <2>2 DEF CallInv, TypeOK
<1>5. ASSUME NEW c \in Calls, PushRules(c) PROVE CallInv'
  <2> SUFFICES ASSUME NEW d \in Calls PROVE
        /\ pc'[d] \in {"idle", "fetch", "push"} => handler'[d] = "none"
        /\ pc'[d] = "fetch" =>
              d \notin Direct /\ req'[d].imsi \in Imsis /\ began'[d] <= Len(stored'[req'[d].imsi])
        /\ d \notin Direct /\ (pc'[d] \in {"push", "await"} \/ handler'[d] # "none") =>
              Grounded(d)'
    BY DEF CallInv
  <2>1. Grounded(d) => Grounded(d)'
    BY <1>5, GroundedSame DEF PushRules, history
  <2>2. pc[c] = "push" /\ pc' = [pc EXCEPT ![c] = "await"]
        /\ handler' = [handler EXCEPT ![c] = "register"]
        /\ UNCHANGED <<stored, req, began>>
    BY <1>5 DEF PushRules, At, Goto, history
  <2>3. CASE d = c
    BY <2>1, <2>2, <2>3 DEF CallInv, TypeOK
  <2>4. CASE d # c
    BY <2>1, <2>2, <2>4 DEF CallInv, TypeOK
  <2> QED BY <2>3, <2>4
<1>6. ASSUME NEW c \in Calls, RegisterSubscriber(c) PROVE CallInv'
  <2> SUFFICES ASSUME NEW d \in Calls PROVE
        /\ pc'[d] \in {"idle", "fetch", "push"} => handler'[d] = "none"
        /\ pc'[d] = "fetch" =>
              d \notin Direct /\ req'[d].imsi \in Imsis /\ began'[d] <= Len(stored'[req'[d].imsi])
        /\ d \notin Direct /\ (pc'[d] \in {"push", "await"} \/ handler'[d] # "none") =>
              Grounded(d)'
    BY DEF CallInv
  <2>1. Grounded(d) => Grounded(d)'
    BY <1>6, GroundedSame DEF RegisterSubscriber, history
  <2>2. handler[c] = "register" /\ handler' = [handler EXCEPT ![c] = "done"]
        /\ UNCHANGED <<stored, req, began, pc>>
    BY <1>6 DEF RegisterSubscriber, history
  <2>3. CASE d = c
    BY <2>1, <2>2, <2>3 DEF CallInv, TypeOK
  <2>4. CASE d # c
    BY <2>1, <2>2, <2>4 DEF CallInv, TypeOK
  <2> QED BY <2>3, <2>4
<1>7. ASSUME NEW i \in Imsis, NEW p \in SubscriberProfile, Store(i, p) PROVE CallInv'
  <2>1. stored' = [stored EXCEPT ![i] = Append(@, p)]
        /\ UNCHANGED <<req, pc, rules, handler, read, began>>
    BY <1>7 DEF Store, history
  <2>2. \A d \in Calls : Grounded(d) => Grounded(d)'
    BY <2>1, GroundedStep
  <2>3. \A k \in Imsis : Len(stored[k]) \in Nat /\ Len(stored'[k]) \in Nat
                         /\ Len(stored[k]) <= Len(stored'[k])
    BY <2>1, AppendProperties, LenProperties DEF TypeOK
  <2> QED BY <2>1, <2>2, <2>3 DEF CallInv, TypeOK
<1>8. ASSUME NEW sh \in Shards, Expire(sh) PROVE CallInv'
  BY <1>8 DEF Expire, history, CallInv, Grounded
<1>9. ASSUME NEW m \in Media, SendAAQuery(m) \/ Revoke(m) PROVE CallInv'
  BY <1>9 DEF SendAAQuery, Revoke, policy, history, CallInv, Grounded
<1>10. CASE UNCHANGED vars
  BY <1>10 DEF vars, history, CallInv, Grounded
<1> QED BY <1>1, <1>2, <1>3, <1>4, <1>5, <1>6, <1>7, <1>8, <1>9, <1>10 DEF Next, Serve

LEMMA SessionStep ==
  ASSUME IInv, [Next]_vars
  PROVE  SessionInv'
<1> USE DEF IInv
<1>1. ASSUME NEW d \in Calls, handler[d] = "done"
      PROVE  handler'[d] = "done" /\ req'[d] = req[d] /\ rules'[d] = rules[d]
  <2>1. ~At(d, "idle") /\ ~At(d, "fetch") /\ ~At(d, "push")
    BY <1>1 DEF CallInv, At
  <2>2. req' = req
    BY DEF Next, Serve, vars, HandleRadiusPacket, ProvisionPccRules, FetchProfile,
           FetchNotFound, CallFails, PccRulesAck, PushRules, RegisterSubscriber, Store,
           Expire, SendAAQuery, Revoke, policy
  <2>3. rules'[d] = rules[d]
    BY <2>1 DEF Next, Serve, vars, HandleRadiusPacket, Begin, ProvisionPccRules, FetchProfile,
           FetchNotFound, CallFails, PccRulesAck, PushRules, RegisterSubscriber, Store,
           Expire, SendAAQuery, Revoke, policy, TypeOK
  <2>4. handler'[d] = "done"
    BY <1>1, <2>1 DEF Next, Serve, vars, HandleRadiusPacket, ProvisionPccRules, FetchProfile,
           FetchNotFound, CallFails, PccRulesAck, PushRules, RegisterSubscriber, Store,
           Expire, SendAAQuery, Revoke, policy, TypeOK
  <2> QED BY <2>2, <2>3, <2>4
<1>2. CASE UNCHANGED session
  BY <1>1, <1>2 DEF SessionInv
<1>3. ASSUME NEW c \in Calls, RegisterSubscriber(c) PROVE SessionInv'
  <2>1. handler'[c] = "done" /\ UNCHANGED <<req, rules>>
    BY <1>3 DEF RegisterSubscriber, TypeOK
  <2>2. ASSUME NEW ip \in Ips, NEW s \in session'[ip]
        PROVE  \/ s \in session[ip]
               \/ s = [imsi |-> req[c].imsi, tariff |-> Tariff(rules[c]),
                       bandwidth |-> FullBandwidth, from |-> c]
    BY <1>3, <2>2 DEF RegisterSubscriber, TypeOK
  <2> QED BY <1>1, <2>1, <2>2 DEF SessionInv
<1>4. ASSUME NEW sh \in Shards, Expire(sh) PROVE SessionInv'
  <2>1. \A ip \in Ips : session'[ip] \subseteq session[ip]
    BY <1>4 DEF Expire, TypeOK
  <2> QED BY <1>1, <2>1 DEF SessionInv
<1> QED BY <1>2, <1>3, <1>4 DEF Next, Serve, vars, HandleRadiusPacket, ProvisionPccRules,
           FetchProfile, FetchNotFound, CallFails, PccRulesAck, PushRules, Store,
           SendAAQuery, Revoke, policy

\* The invariant implies the property.
LEMMA GroundedSessions == IInv => SessionFromCurrentProfile
<1> SUFFICES ASSUME IInv, NEW ip \in Ips, NEW s \in session[ip],
                    s.from \notin Direct \cup {Boot}
             PROVE  /\ s.imsi \in Imsis
                    /\ \E p \in CurrentSince(s.from, s.imsi) :
                          \/ s.tariff = "VIP"  /\ p.tariff = "VIP" /\ ~p.suspended
                          \/ s.tariff = "BASE" /\ (p.tariff # "VIP" \/ p.suspended)
  BY DEF SessionFromCurrentProfile
<1> DEFINE c == s.from
           i == s.imsi
           p == stored[i][read[c]]
<1>1. c \in Calls /\ handler[c] = "done" /\ i = req[c].imsi /\ s.tariff = Tariff(rules[c])
  BY DEF IInv, SessionInv
<1>2. Grounded(c)
  BY <1>1 DEF IInv, CallInv
<1>3. i \in Imsis /\ read[c] \in 1 .. Len(stored[i]) /\ began[c] <= read[c]
      /\ rules[c] = RulesOf(p)
  BY <1>1, <1>2 DEF Grounded
<1>4. stored[i] \in Seq(SubscriberProfile)
  BY <1>3 DEF IInv, TypeOK
<1>5. DOMAIN stored[i] = 1 .. Len(stored[i]) /\ p \in SubscriberProfile
  BY <1>3, <1>4, LenProperties, ElementOfSeq
<1>6. p \in CurrentSince(c, i)
  <2>1. read[c] \in DOMAIN stored[i] /\ read[c] >= began[c]
    BY <1>1, <1>3, <1>5 DEF IInv, TypeOK
  <2> QED BY <2>1 DEF CurrentSince
<1>7. \/ s.tariff = "VIP"  /\ p.tariff = "VIP" /\ ~p.suspended
      \/ s.tariff = "BASE" /\ (p.tariff # "VIP" \/ p.suspended)
  BY <1>1, <1>3, <1>5, TariffOfProfile
<1> QED BY <1>3, <1>6, <1>7

(***************************************************************************)
(* A session the PCRF has provisioned has the tariff of a profile that was  *)
(* current during its call, whatever calls overlap, fail or are given up    *)
(* and whatever profiles are stored meanwhile.                              *)
(***************************************************************************)
THEOREM ProfilesRule == Spec => [](TypeOK /\ SessionFromCurrentProfile)
<1>1. IInv /\ [Next]_vars => IInv'
  BY TypeStep, CallStep, SessionStep DEF IInv
<1>2. IInv => TypeOK /\ SessionFromCurrentProfile
  BY GroundedSessions DEF IInv
<1> QED BY InitIInv, <1>1, <1>2, PTL DEF Spec

-----------------------------------------------------------------------------
(***************************************************************************)
(* Acknowledged provisionings.  A call is among the earlier ones of another *)
(* only when it is over for good, so that it cannot register any more; and  *)
(* a call that begins when it is over reads no older profile.  When a       *)
(* session has expired its shard is stuck and the address gets no other.    *)
(***************************************************************************)
AckInv ==
    /\ \A d \in Calls : \A c \in earlier[d] : Settled(c)
    /\ \A c \in Calls : handler[c] = "done" =>
          \/ Expired(req[c].ip)
          \/ \E s \in session[req[c].ip] : s.from \in Calls \ earlier[c]
    /\ \A c \in Calls : result[c] = "2001" => handler[c] = "done"
    /\ \A c \in Calls : req[c].imsi \in Imsis => read[c] <= Len(stored[req[c].imsi])
    /\ \A d \in Calls : \A c \in earlier[d] :
          req[c].imsi = req[d].imsi /\ req[d].imsi \in Imsis => read[c] <= began[d]

\* What no step does to a call: take it back.
LEMMA CallsGoOn ==
  ASSUME IInv, [Next]_vars, NEW c \in Calls
  PROVE  /\ req' = req
         /\ handler[c] = "done" => handler'[c] = "done"
         /\ Settled(c) => Settled(c)' /\ read'[c] = read[c]
         /\ pc[c] # "idle" => began'[c] = began[c] /\ earlier'[c] = earlier[c]
<1> USE DEF IInv, TypeOK, Settled, At
<1>1. ASSUME NEW d \in Calls, HandleRadiusPacket(d) \/ ProvisionPccRules(d) PROVE
        /\ req' = req
        /\ handler[c] = "done" => handler'[c] = "done"
        /\ Settled(c) => Settled(c)' /\ read'[c] = read[c]
        /\ pc[c] # "idle" => began'[c] = began[c] /\ earlier'[c] = earlier[c]
  BY <1>1 DEF HandleRadiusPacket, ProvisionPccRules, Begin, Return, Goto
<1>2. ASSUME NEW d \in Calls, Serve(d) PROVE
        /\ req' = req
        /\ handler[c] = "done" => handler'[c] = "done"
        /\ Settled(c) => Settled(c)' /\ read'[c] = read[c]
        /\ pc[c] # "idle" => began'[c] = began[c] /\ earlier'[c] = earlier[c]
  BY <1>2 DEF Serve, FetchProfile, FetchNotFound, CallFails, PushRules, PccRulesAck, Return,
              Goto, history, CallInv
<1>3. ASSUME NEW d \in Calls, RegisterSubscriber(d) PROVE
        /\ req' = req
        /\ handler[c] = "done" => handler'[c] = "done"
        /\ Settled(c) => Settled(c)' /\ read'[c] = read[c]
        /\ pc[c] # "idle" => began'[c] = began[c] /\ earlier'[c] = earlier[c]
  BY <1>3 DEF RegisterSubscriber, history
<1>4. ASSUME UNCHANGED <<req, handler, pc, read, began, earlier>> PROVE
        /\ req' = req
        /\ handler[c] = "done" => handler'[c] = "done"
        /\ Settled(c) => Settled(c)' /\ read'[c] = read[c]
        /\ pc[c] # "idle" => began'[c] = began[c] /\ earlier'[c] = earlier[c]
  BY <1>4
<1>5. ASSUME NEW i \in Imsis, NEW p \in SubscriberProfile, Store(i, p)
      PROVE  UNCHANGED <<req, handler, pc, read, began, earlier>>
  BY <1>5 DEF Store, history
<1>6. ASSUME NEW sh \in Shards, Expire(sh)
      PROVE  UNCHANGED <<req, handler, pc, read, began, earlier>>
  BY <1>6 DEF Expire, history
<1>7. ASSUME NEW m \in Media, SendAAQuery(m) \/ Revoke(m)
      PROVE  UNCHANGED <<req, handler, pc, read, began, earlier>>
  BY <1>7 DEF SendAAQuery, Revoke, policy, history
<1>8. UNCHANGED vars => UNCHANGED <<req, handler, pc, read, began, earlier>>
  BY DEF vars, history
<1> QED BY <1>1, <1>2, <1>3, <1>4, <1>5, <1>6, <1>7, <1>8 DEF Next

\* What a call finds when it begins.
LEMMA BeginFacts ==
  ASSUME IInv, NEW c \in Calls, Begin(c)
  PROVE  /\ earlier'[c] = {d \in Calls : Settled(d) /\ req[d].ip = req[c].ip}
         /\ req[c].imsi \in Imsis => began'[c] = Len(stored[req[c].imsi])
         /\ \A d \in Calls \ {c} : earlier'[d] = earlier[d] /\ began'[d] = began[d]
  BY DEF Begin, IInv, TypeOK

LEMMA OnlyBegin ==
  ASSUME IInv, [Next]_vars, NEW d \in Calls
  PROVE  Begin(d) \/ (earlier'[d] = earlier[d] /\ began'[d] = began[d])
<1>1. ASSUME NEW c \in Calls, HandleRadiusPacket(c) \/ ProvisionPccRules(c)
      PROVE  Begin(d) \/ (earlier'[d] = earlier[d] /\ began'[d] = began[d])
  <2>1. Begin(c)
    BY <1>1 DEF HandleRadiusPacket, ProvisionPccRules
  <2> QED BY <2>1, BeginFacts
<1>2. ASSUME NEW c \in Calls, Serve(c) \/ RegisterSubscriber(c)
      PROVE  earlier' = earlier /\ began' = began
  BY <1>2 DEF Serve, FetchProfile, FetchNotFound, CallFails, PushRules, PccRulesAck,
              RegisterSubscriber, history
<1>3. ASSUME NEW i \in Imsis, NEW p \in SubscriberProfile, Store(i, p)
      PROVE  earlier' = earlier /\ began' = began
  BY <1>3 DEF Store, history
<1>4. ASSUME NEW sh \in Shards, Expire(sh) PROVE earlier' = earlier /\ began' = began
  BY <1>4 DEF Expire, history
<1>5. ASSUME NEW m \in Media, SendAAQuery(m) \/ Revoke(m)
      PROVE  earlier' = earlier /\ began' = began
  BY <1>5 DEF SendAAQuery, Revoke, policy, history
<1>6. UNCHANGED vars => earlier' = earlier /\ began' = began
  BY DEF vars, history
<1> QED BY <1>1, <1>2, <1>3, <1>4, <1>5, <1>6 DEF Next

\* Only PccRulesAck answers 2001.
LEMMA OnlyAck ==
  ASSUME IInv, [Next]_vars, NEW c \in Calls, result'[c] = "2001"
  PROVE  result[c] = "2001" \/ handler[c] = "done"
<1> USE DEF IInv, TypeOK, Return
<1>1. ASSUME NEW d \in Calls, PccRulesAck(d) PROVE result[c] = "2001" \/ handler[c] = "done"
  BY <1>1 DEF PccRulesAck
<1>2. ASSUME NEW d \in Calls, FetchNotFound(d) \/ CallFails(d) PROVE result[c] = "2001"
  BY <1>2 DEF FetchNotFound, CallFails
<1>3. ASSUME NEW d \in Calls, ProvisionPccRules(d) PROVE result[c] = "2001"
  BY <1>3 DEF ProvisionPccRules
<1>4. ASSUME NEW d \in Calls, \/ HandleRadiusPacket(d) \/ FetchProfile(d) \/ PushRules(d)
                              \/ RegisterSubscriber(d)
      PROVE  result' = result
  BY <1>4 DEF HandleRadiusPacket, FetchProfile, PushRules, RegisterSubscriber
<1>5. ASSUME NEW i \in Imsis, NEW p \in SubscriberProfile, Store(i, p) PROVE result' = result
  BY <1>5 DEF Store
<1>6. ASSUME NEW sh \in Shards, Expire(sh) PROVE result' = result
  BY <1>6 DEF Expire
<1>7. ASSUME NEW m \in Media, SendAAQuery(m) \/ Revoke(m) PROVE result' = result
  BY <1>7 DEF SendAAQuery, Revoke, policy
<1>8. UNCHANGED vars => result' = result
  BY DEF vars
<1> QED BY <1>1, <1>2, <1>3, <1>4, <1>5, <1>6, <1>7, <1>8 DEF Next, Serve

\* Profiles are only added.
LEMMA StoredGrows ==
  ASSUME IInv, [Next]_vars, NEW i \in Imsis
  PROVE  Len(stored[i]) \in Nat /\ Len(stored'[i]) \in Nat /\ Len(stored[i]) <= Len(stored'[i])
<1>0. stored \in [Imsis -> Seq(SubscriberProfile)] /\ Len(stored[i]) \in Nat
  BY LenProperties DEF IInv, TypeOK
<1>1. ASSUME NEW k \in Imsis, NEW p \in SubscriberProfile, Store(k, p)
      PROVE  Len(stored'[i]) \in Nat /\ Len(stored[i]) <= Len(stored'[i])
  <2>1. stored' = [stored EXCEPT ![k] = Append(@, p)]
    BY <1>1 DEF Store
  <2>2. CASE i = k
    <3>1. stored'[i] = Append(stored[i], p)
      BY <1>0, <2>1, <2>2
    <3> QED BY <1>0, <3>1, AppendProperties
  <2>3. CASE i # k
    BY <1>0, <2>1, <2>3
  <2> QED BY <2>2, <2>3
<1>2. CASE UNCHANGED stored
  BY <1>0, <1>2
<1> QED BY <1>0, <1>1, <1>2 DEF Next, Serve, vars, HandleRadiusPacket, ProvisionPccRules,
           FetchProfile, FetchNotFound, CallFails, PccRulesAck, PushRules, RegisterSubscriber,
           Expire, SendAAQuery, Revoke, policy

LEMMA AckStep ==
  ASSUME IInv, AckInv, [Next]_vars
  PROVE  AckInv'
<1>0. TypeOK /\ CallInv /\ TypeOK'
  BY TypeStep DEF IInv
\* A call that begins finds the earlier ones settled; they stay so.
<1>1. ASSUME NEW d \in Calls, NEW c \in earlier'[d] PROVE Settled(c)'
  <2>0. c \in Calls
    BY <1>0, <1>1 DEF TypeOK
  <2>1. CASE c \in earlier[d]
    BY <2>0, <2>1, CallsGoOn DEF AckInv
  <2>2. CASE c \notin earlier[d]
    <3>1. Begin(d)
      BY <1>1, <2>2, OnlyBegin
    <3>2. Settled(c)
      BY <1>1, <3>1, BeginFacts
    <3> QED BY <2>0, <3>2, CallsGoOn
  <2> QED BY <2>1, <2>2
<1>2. ASSUME NEW c \in Calls, handler'[c] = "done"
      PROVE  Expired(req[c].ip)' \/ \E s \in session'[req'[c].ip] : s.from \in Calls \ earlier'[c]
  <2> DEFINE ip == req[c].ip
             Kept == \/ session'[ip] = {} /\ Shard[ip] \in stuck'
                     \/ \E s \in session'[ip] : s.from \in Calls \ earlier'[c]
  <2>0. req' = req /\ ip \in Ips
    BY <1>0, CallsGoOn DEF TypeOK, PccRulesProvision
  <2>1. SUFFICES Kept
    BY <2>0 DEF Expired
  <2>2. ASSUME handler[c] = "done", session'[ip] = session[ip], stuck \subseteq stuck'
        PROVE  Kept
    <3>1. earlier'[c] = earlier[c]
      BY <1>0, <2>2, CallsGoOn DEF CallInv
    <3> QED BY <2>2, <3>1 DEF AckInv, Expired
  <2>3. ASSUME NEW d \in Calls, RegisterSubscriber(d) PROVE Kept
    <3> DEFINE new == [imsi |-> req[d].imsi, tariff |-> Tariff(rules[d]),
                       bandwidth |-> FullBandwidth, from |-> d]
    <3>1. /\ handler[d] = "register" /\ earlier' = earlier /\ stuck' = stuck
          /\ handler' = [handler EXCEPT ![d] = "done"]
          /\ session' = [session EXCEPT ![req[d].ip] = {new}]
      BY <2>3 DEF RegisterSubscriber, history
    <3>2. d \notin earlier[c]
      BY <3>1 DEF AckInv, Settled
    <3>3. CASE req[d].ip = ip
      <4>1. new \in session'[ip] /\ new.from = d
        BY <1>0, <2>0, <3>1, <3>3 DEF TypeOK
      <4> QED BY <3>1, <3>2, <4>1
    <3>4. CASE req[d].ip # ip
      <4>1. session'[ip] = session[ip] /\ handler[c] = "done"
        BY <1>0, <1>2, <2>0, <3>1, <3>4 DEF TypeOK
      <4> QED BY <2>2, <3>1, <4>1
    <3> QED BY <3>3, <3>4
  <2>4. ASSUME NEW sh \in Shards, Expire(sh) PROVE Kept
    <3>1. PICK jp \in Ips : /\ Shard[jp] = sh
                            /\ session' = [session EXCEPT ![jp] = {}]
      BY <2>4 DEF Expire
    <3>2. stuck' = stuck \cup {sh} /\ handler' = handler
      BY <2>4 DEF Expire
    <3>3. CASE jp = ip
      BY <1>0, <2>0, <3>1, <3>2, <3>3 DEF TypeOK, Expired
    <3>4. CASE jp # ip
      <4>1. session'[ip] = session[ip]
        BY <1>0, <2>0, <3>1, <3>4 DEF TypeOK
      <4> QED BY <1>2, <2>2, <3>2, <4>1
    <3> QED BY <3>3, <3>4
  <2>5. ASSUME NEW d \in Calls, PushRules(d)
        PROVE  session' = session /\ stuck' = stuck /\ handler[c] = "done"
    BY <1>0, <1>2, <2>5 DEF PushRules, TypeOK
  <2> QED BY <1>2, <2>2, <2>3, <2>4, <2>5 DEF Next, Serve, vars, HandleRadiusPacket,
         ProvisionPccRules, FetchProfile, FetchNotFound, CallFails, PccRulesAck, Store,
         SendAAQuery, Revoke, policy
<1>3. ASSUME NEW c \in Calls, result'[c] = "2001" PROVE handler'[c] = "done"
  BY <1>3, OnlyAck, CallsGoOn DEF AckInv
<1>4. ASSUME NEW c \in Calls, req'[c].imsi \in Imsis PROVE read'[c] <= Len(stored'[req'[c].imsi])
  <2> DEFINE i == req[c].imsi
  <2>1. req' = req /\ i \in Imsis
    BY <1>4, CallsGoOn
  <2>2. /\ Len(stored[i]) \in Nat /\ Len(stored'[i]) \in Nat
        /\ Len(stored[i]) <= Len(stored'[i])
    BY <2>1, StoredGrows
  <2>3. read[c] \in Nat /\ read[c] <= Len(stored[i])
    BY <1>0, <2>1 DEF TypeOK, AckInv
  <2>4. read'[c] \in {read[c], Len(stored[i])}
    BY <1>0 DEF Next, Serve, vars, HandleRadiusPacket, ProvisionPccRules, FetchProfile,
       FetchNotFound, CallFails, PccRulesAck, PushRules, RegisterSubscriber, Store, Expire,
       SendAAQuery, Revoke, policy, history, TypeOK
  <2> QED BY <2>1, <2>2, <2>3, <2>4
<1>5. ASSUME NEW d \in Calls, NEW c \in earlier'[d],
             req'[c].imsi = req'[d].imsi, req'[d].imsi \in Imsis
      PROVE  read'[c] <= began'[d]
  <2>0. c \in Calls /\ req' = req
    BY <1>0, <1>1, <1>5, CallsGoOn DEF TypeOK
  <2>1. CASE Begin(d)
    <3>1. Settled(c) /\ began'[d] = Len(stored[req[d].imsi])
      BY <1>5, <2>0, <2>1, BeginFacts
    <3>2. read'[c] = read[c]
      BY <2>0, <3>1, CallsGoOn
    <3> QED BY <1>5, <2>0, <3>1, <3>2 DEF AckInv
  <2>2. CASE ~Begin(d)
    <3>1. earlier'[d] = earlier[d] /\ began'[d] = began[d]
      BY <2>2, OnlyBegin
    <3>2. read'[c] = read[c]
      BY <1>5, <2>0, <3>1, CallsGoOn DEF AckInv
    <3> QED BY <1>5, <2>0, <3>1, <3>2 DEF AckInv
  <2> QED BY <2>1, <2>2
<1> QED BY <1>1, <1>2, <1>3, <1>4, <1>5 DEF AckInv

LEMMA InitAckInv == Init => AckInv
<1> SUFFICES ASSUME Init PROVE AckInv
  OBVIOUS
<1>1. \A c \in Calls : /\ earlier[c] = {} /\ handler[c] = "none" /\ result[c] = "none"
                       /\ read[c] = 0
  BY DEF Init
<1>2. \A i \in Imsis : Len(stored[i]) \in Nat
  BY InitIInv, LenProperties DEF IInv, TypeOK
<1> QED BY <1>1, <1>2 DEF AckInv

LEMMA AcksInForce == IInv /\ AckInv => AckedIsInForce
<1> SUFFICES ASSUME IInv, AckInv, NEW c \in Calls, result[c] = "2001"
             PROVE  \/ Expired(req[c].ip)
                    \/ \E s \in session[req[c].ip] :
                          /\ s.from \notin {Boot} \cup earlier[c]
                          /\ c \in earlier[s.from] =>
                                \/ {c, s.from} \cap Direct # {}
                                \/ s.imsi # req[c].imsi
                                \/ read[s.from] >= read[c]
  BY DEF AckedIsInForce
<1> SUFFICES ASSUME ~Expired(req[c].ip)
             PROVE  \E s \in session[req[c].ip] :
                      /\ s.from \notin {Boot} \cup earlier[c]
                      /\ c \in earlier[s.from] =>
                            \/ {c, s.from} \cap Direct # {}
                            \/ s.imsi # req[c].imsi
                            \/ read[s.from] >= read[c]
  OBVIOUS
<1>1. PICK s \in session[req[c].ip] : s.from \in Calls \ earlier[c]
  BY DEF AckInv
<1>2. req[c].ip \in Ips
  BY DEF IInv, TypeOK, PccRulesProvision
<1>3. s.from \in Calls /\ s.from # Boot
  BY <1>1, BootstrapAssumption
<1>4. handler[s.from] = "done" /\ s.imsi = req[s.from].imsi
  BY <1>2, <1>3 DEF IInv, SessionInv
<1>5. ASSUME c \in earlier[s.from], s.from \notin Direct, s.imsi = req[c].imsi
      PROVE  read[s.from] >= read[c]
  <2>1. Grounded(s.from)
    BY <1>3, <1>4, <1>5 DEF IInv, CallInv
  <2>2. req[s.from].imsi \in Imsis /\ began[s.from] <= read[s.from]
    BY <2>1 DEF Grounded
  <2>3. read[c] <= began[s.from]
    BY <1>3, <1>4, <1>5, <2>2 DEF AckInv
  <2>4. read[c] \in Nat /\ read[s.from] \in Nat /\ began[s.from] \in Nat
    BY <1>3 DEF IInv, TypeOK
  <2> QED BY <2>2, <2>3, <2>4
<1> QED BY <1>1, <1>3, <1>5

(***************************************************************************)
(* An acknowledged provisioning is in force until the janitor deletes it or *)
(* a call that overlaps with it or comes after it replaces it; one that     *)
(* comes after it, for the same subscriber, has read the profile it read or *)
(* a later one.  After the deletion nothing takes its place: the shard is   *)
(* stuck.                                                                   *)
(***************************************************************************)
THEOREM AckedIsInForceTheorem == Spec => []AckedIsInForce
<1>1. IInv /\ [Next]_vars => IInv'
  BY TypeStep, CallStep, SessionStep DEF IInv
<1>2. IInv /\ AckInv /\ [Next]_vars => AckInv'
  BY AckStep
<1> QED BY InitIInv, InitAckInv, <1>1, <1>2, AcksInForce, PTL DEF Spec
=============================================================================
