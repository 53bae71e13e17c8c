---------------------------- MODULE PolicyControl ----------------------------
(***************************************************************************)
(* Who may send what: the profiles of spr-storage, the rules pcrf-engine    *)
(* compiles from them, the sessions it and access-gateway provision in      *)
(* pcef-core over Gx, and the media sessions of af-gateway over Rx.         *)
(*                                                                          *)
(* A call is one ProvisionPccRules, at the PCRF by an external Gx client or *)
(* at pcef-core by access-gateway.  Whoever waits for it may give up, or    *)
(* lose the connection, while the handler of pcef-core goes on; so that     *)
(* handler has a place of its own, handler[c].                              *)
(*                                                                          *)
(* Profiles change by Store, which has no caller in the repository.         *)
(*                                                                          *)
(* A definition named XMutant is X with a plausible bug in it.              *)
(***************************************************************************)
EXTENDS Integers, Sequences

CONSTANTS Imsis,      \* subscriber ids
          NoImsi,     \* the empty id
          Ips,        \* addresses
          Shards, Shard,    \* [Ips -> Shards], of pcef-core's cache
          Defaults,   \* [a subset of Imsis -> Profile], bootstrapDefaultProfiles
          Bootstrap,  \* [a subset of Ips -> SubscriberSession], of pcef-core's main
          Boot,       \* the origin of these sessions
          Calls,      \* Gx calls
          Direct,     \* the calls of access-gateway, made to pcef-core
          Offer,      \* [Calls -> SUBSET PccRulesProvision]
          Media,      \* Rx requests
          Changes,    \* [Imsis -> SUBSET SubscriberProfile]: what Store may store
          MaxStores   \* bound on the profiles stored per subscriber

FullBandwidth == 100   \* Mbit/s

SubscriberProfile == [tariff : {"VIP", "BASE", "IOT"}, suspended : BOOLEAN]
PccRulesProvision == [imsi : Imsis \cup {NoImsi}, ip : Ips]
SubscriberSession == [imsi : Imsis \cup {NoImsi}, tariff : {"VIP", "BASE"},
                      bandwidth : {0, FullBandwidth}, from : Calls \cup {Boot}]

ASSUME SubscriberAssumption == NoImsi \notin Imsis
ASSUME ShardAssumption == Shard \in [Ips -> Shards]
ASSUME DefaultsAssumption ==
    DOMAIN Defaults \subseteq Imsis /\ \A i \in DOMAIN Defaults : Defaults[i] \in SubscriberProfile
ASSUME BootstrapAssumption ==
    /\ Boot \notin Calls
    /\ DOMAIN Bootstrap \subseteq Ips
    /\ \A ip \in DOMAIN Bootstrap :
          Bootstrap[ip] \in SubscriberSession /\ Bootstrap[ip].from = Boot
ASSUME CallsAssumption ==
    /\ Direct \subseteq Calls
    /\ Offer \in [Calls -> SUBSET PccRulesProvision]
ASSUME ChangesAssumption == Changes \in [Imsis -> SUBSET SubscriberProfile]

VARIABLES
    stored,   \* [Imsis -> Seq(SubscriberProfile)]: what was stored; the last is
              \* the profile of the subscriber, an empty one means not found
    session,  \* [Ips -> {} or {session}]: pcef-core's cache
    stuck,    \* the shards of the cache whose mutex is never free again
    req,      \* [Calls -> the request]
    pc,       \* [Calls -> place of the call]
    rules,    \* [Calls -> ActiveRuleNames]
    handler,  \* [Calls -> place of pcef-core's handler of the call]
    result,   \* [Calls -> what the caller learnt]
    began,    \* history: [Calls -> Nat], profiles stored when the call began
    read,     \* history: [Calls -> Nat], which of them the call fetched
    earlier,  \* history: [Calls -> SUBSET Calls], over on its address when it began
    media     \* [Media -> place of the Rx request and its timer]

history == <<began, read, earlier>>
vars    == <<stored, session, stuck, req, pc, rules, handler, result, history, media>>

RuleName == {"VIP_UNLIMITED", "BASE_TARIFF", "QUOTA_EXHAUSTED", "DYNAMIC_BOOTSTRAP"}

TypeOK ==
    /\ stored  \in [Imsis -> Seq(SubscriberProfile)]
    /\ session \in [Ips -> SUBSET SubscriberSession]
    /\ stuck   \in SUBSET Shards
    /\ req     \in [Calls -> PccRulesProvision]
    /\ pc      \in [Calls -> {"idle", "fetch", "push", "await", "done"}]
    /\ rules   \in [Calls -> Seq(RuleName)]
    /\ handler \in [Calls -> {"none", "register", "done"}]
    /\ result  \in [Calls -> {"none", "2001", "InvalidArgument", "Internal", "error"}]
    /\ began   \in [Calls -> Nat]
    /\ read    \in [Calls -> Nat]
    /\ earlier \in [Calls -> SUBSET Calls]
    /\ media   \in [Media -> {"idle", "granted", "revoked"}]
    /\ \A ip \in Ips : \A s, t \in session[ip] : s = t

Init ==
    /\ stored = [i \in Imsis |-> IF i \in DOMAIN Defaults THEN <<Defaults[i]>> ELSE <<>>]
    /\ session = [ip \in Ips |-> IF ip \in DOMAIN Bootstrap THEN {Bootstrap[ip]} ELSE {}]
    /\ stuck = {}
    /\ req \in [Calls -> PccRulesProvision]
    /\ \A c \in Calls : req[c] \in Offer[c]
    /\ pc = [c \in Calls |-> "idle"]
    /\ rules = [c \in Calls |-> <<>>]
    /\ handler = [c \in Calls |-> "none"]
    /\ result = [c \in Calls |-> "none"]
    /\ began = [c \in Calls |-> 0]
    /\ read = [c \in Calls |-> 0]
    /\ earlier = [c \in Calls |-> {}]
    /\ media = [m \in Media |-> "idle"]

-----------------------------------------------------------------------------
At(c, label) == pc[c] = label
Goto(c, label) == pc' = [pc EXCEPT ![c] = label]

Return(c, what) ==
    /\ Goto(c, "done")
    /\ result' = [result EXCEPT ![c] = what]

\* Neither the caller nor a handler has anything left to do for the call.
Settled(c) == At(c, "done") /\ handler[c] # "register"

Begin(c) ==
    /\ At(c, "idle")
    /\ began' = [began EXCEPT ![c] =
          IF req[c].imsi \in Imsis THEN Len(stored[req[c].imsi]) ELSE 0]
    /\ earlier' = [earlier EXCEPT ![c] =
          {d \in Calls : Settled(d) /\ req[d].ip = req[c].ip}]

\* HandleRadiusPacket: access-gateway sends its own rule name, to pcef-core.
\* (It does so for two subscribers, in turn; their calls have nothing in common.)
HandleRadiusPacket(c) ==
    /\ c \in Direct
    /\ Begin(c)
    /\ rules' = [rules EXCEPT ![c] = <<"DYNAMIC_BOOTSTRAP">>]
    /\ Goto(c, "push")
    /\ UNCHANGED <<stored, session, stuck, req, handler, result, read, media>>

\* ProvisionPccRules of the PCRF.
ProvisionPccRules(c) ==
    /\ c \notin Direct
    /\ Begin(c)
    /\ IF req[c].imsi = NoImsi THEN Return(c, "InvalidArgument")
                               ELSE Goto(c, "fetch") /\ UNCHANGED result
    /\ UNCHANGED <<stored, session, stuck, req, rules, handler, read, media>>

-----------------------------------------------------------------------------
\* NewPcrfService: the rules of a tariff.
rulesMap == [VIP |-> <<"VIP_UNLIMITED">>, BASE |-> <<"BASE_TARIFF">>]

\* CompileRules, given the profile.
RulesOfMutant(p) ==   \* the tariff before the suspension
    IF p.tariff \in DOMAIN rulesMap THEN rulesMap[p.tariff]
    ELSE IF p.suspended THEN <<"QUOTA_EXHAUSTED">> ELSE <<>>
RulesOf(p) ==
    IF p.suspended THEN <<"QUOTA_EXHAUSTED">>
    ELSE IF p.tariff \in DOMAIN rulesMap THEN rulesMap[p.tariff] ELSE <<>>

\* FetchProfile answers with what Find finds at that moment: there is one object
\* per subscriber, and Store puts another in its place ...
FetchProfile(c) ==
    LET n == Len(stored[req[c].imsi])
    IN  /\ At(c, "fetch")
        /\ n > 0
        /\ read' = [read EXCEPT ![c] = n]
        /\ rules' = [rules EXCEPT ![c] = RulesOf(stored[req[c].imsi][n])]
        /\ Goto(c, "push")
        /\ UNCHANGED <<stored, session, stuck, req, handler, result, began, earlier, media>>

\* ... or NotFound, which the PCRF reports as Internal ...
FetchNotFoundMutant(c) ==   \* waits for the profile to be stored
    /\ At(c, "fetch")
    /\ stored[req[c].imsi] = <<>>
    /\ UNCHANGED vars
FetchNotFound(c) ==
    /\ At(c, "fetch")
    /\ stored[req[c].imsi] = <<>>
    /\ Return(c, "Internal")
    /\ UNCHANGED <<stored, session, stuck, req, rules, handler, history, media>>

\* ... and any call between services may fail on its way.
CallFails(c) ==
    /\ pc[c] \in {"fetch", "push", "await"}
    /\ Return(c, IF c \in Direct THEN "error" ELSE "Internal")
    /\ UNCHANGED <<stored, session, stuck, req, rules, handler, history, media>>

\* The rules are pushed to pcef-core and arrive.
PushRules(c) ==
    /\ At(c, "push")
    /\ handler' = [handler EXCEPT ![c] = "register"]
    /\ Goto(c, "await")
    /\ UNCHANGED <<stored, session, stuck, req, rules, result, history, media>>

\* The tariff pcef-core takes from the rules.
Tariff(r) == IF r # <<>> /\ r[1] = "VIP_UNLIMITED" THEN "VIP" ELSE "BASE"

\* ProvisionPccRules of pcef-core: a new session replaces that of the address.
RegisterSubscriber(c) ==
    LET ip == req[c].ip
    IN  /\ handler[c] = "register"
        /\ Shard[ip] \notin stuck
        /\ handler' = [handler EXCEPT ![c] = "done"]
        /\ session' = [session EXCEPT ![ip] =
              {[imsi |-> req[c].imsi, tariff |-> Tariff(rules[c]),
                bandwidth |-> FullBandwidth, from |-> c]}]
        /\ UNCHANGED <<stored, stuck, req, pc, rules, result, history, media>>

\* Both services answer IsEnforced and 2001.
PccRulesAckMutant(c) ==   \* RegisterSubscriber in a goroutine of its own
    /\ At(c, "await")
    /\ Return(c, "2001")
    /\ UNCHANGED <<stored, session, stuck, req, rules, handler, history, media>>
PccRulesAck(c) ==
    /\ At(c, "await")
    /\ handler[c] = "done"
    /\ Return(c, "2001")
    /\ UNCHANGED <<stored, session, stuck, req, rules, handler, history, media>>

-----------------------------------------------------------------------------
\* Store: from now on Find returns another profile.
Store(i, p) ==
    /\ p \in Changes[i]
    /\ Len(stored[i]) < MaxStores
    /\ stored' = [stored EXCEPT ![i] = Append(@, p)]
    /\ UNCHANGED <<session, stuck, req, pc, rules, handler, result, history, media>>

\* A session of the shard expires (ReactiveLru, JanitorExpire): the janitor takes
\* it out of the index and then waits for its own mutex.  Which session is idle
\* for so long is left open.
Expire(sh) ==
    /\ sh \notin stuck
    /\ \E ip \in Ips : /\ Shard[ip] = sh
                       /\ session[ip] # {}
                       /\ session' = [session EXCEPT ![ip] = {}]
    /\ stuck' = stuck \cup {sh}
    /\ UNCHANGED <<stored, req, pc, rules, handler, result, history, media>>

-----------------------------------------------------------------------------
policy == <<stored, session, stuck, req, pc, rules, handler, result, history>>

\* SendAAQuery: AuthorizeMediaSession never fails, the timer is armed and the
\* answer is 2001.  Nobody else is told.
SendAAQuery(m) ==
    /\ media[m] = "idle"
    /\ media' = [media EXCEPT ![m] = "granted"]
    /\ UNCHANGED policy

\* The duration is over (at once if it was negative): the priority is revoked.
Revoke(m) ==
    /\ media[m] = "granted"
    /\ media' = [media EXCEPT ![m] = "revoked"]
    /\ UNCHANGED policy

-----------------------------------------------------------------------------
\* A step of a call that has begun.
Serve(c) ==
    \/ FetchProfile(c) \/ FetchNotFound(c) \/ CallFails(c)
    \/ PushRules(c) \/ PccRulesAck(c)

Next ==
    \/ \E c \in Calls : \/ HandleRadiusPacket(c) \/ ProvisionPccRules(c)
                        \/ Serve(c) \/ RegisterSubscriber(c)
    \/ \E i \in Imsis, p \in SubscriberProfile : Store(i, p)
    \/ \E sh \in Shards : Expire(sh)
    \/ \E m \in Media : SendAAQuery(m) \/ Revoke(m)

Spec == Init /\ [][Next]_vars

\* Handlers run.  That a call fails is never assumed.
FairSpec ==
    /\ Spec
    /\ \A c \in Calls : WF_vars(RegisterSubscriber(c)) /\
          WF_vars(FetchProfile(c) \/ FetchNotFound(c) \/ PushRules(c) \/ PccRulesAck(c))

-----------------------------------------------------------------------------
\* The profiles of subscriber i that were current at some time since the call
\* began.
CurrentSince(c, i) == {stored[i][n] : n \in {k \in DOMAIN stored[i] : k >= began[c]}}

(***************************************************************************)
(* A session the PCRF has provisioned is that of a subscriber with a        *)
(* profile.  It is VIP only if an active VIP profile was current during the *)
(* call, and BASE only if a profile was that is not VIP or is suspended.  A *)
(* suspension that comes between the fetch and the push is not seen, an     *)
(* older one always.  (That a suspended subscriber is then served at all is *)
(* SuspendedIsBlocked.)                                                     *)
(***************************************************************************)
SessionFromCurrentProfile ==
    \A ip \in Ips : \A s \in session[ip] :
        s.from \notin Direct \cup {Boot} =>
            /\ s.imsi \in Imsis
            /\ \E p \in CurrentSince(s.from, s.imsi) :
                  \/ s.tariff = "VIP"  /\ p.tariff = "VIP" /\ ~p.suspended
                  \/ s.tariff = "BASE" /\ (p.tariff # "VIP" \/ p.suspended)

(***************************************************************************)
(* The claim of pcrf-srs.md, line 19: the rule of a suspended profile has   *)
(* no downlink.  A session whose rules were compiled from one is registered *)
(* with a bandwidth of 0.                                                   *)
(***************************************************************************)
SuspendedIsBlocked ==
    \A ip \in Ips : \A s \in session[ip] :
        s.from \notin Direct \cup {Boot} /\ stored[s.imsi][read[s.from]].suspended =>
            s.bandwidth = 0

\* The session of the address has expired, and with it its shard is stuck.
Expired(ip) == session[ip] = {} /\ Shard[ip] \in stuck

(***************************************************************************)
(* An acknowledged provisioning is in force until it expires or a later one *)
(* replaces it: unless the address has expired, its session is not one from *)
(* before the call, and if it is of a call that began when this one was     *)
(* over it saw no older profile.  Only calls that overlap, one given up by  *)
(* its client included, undo each other.                                    *)
(***************************************************************************)
AckedIsInForce ==
    \A c \in Calls : result[c] = "2001" =>
        \/ Expired(req[c].ip)
        \/ \E s \in session[req[c].ip] :
              /\ s.from \notin {Boot} \cup earlier[c]
              /\ c \in earlier[s.from] =>
                    \/ {c, s.from} \cap Direct # {}
                    \/ s.imsi # req[c].imsi
                    \/ read[s.from] >= read[c]

(***************************************************************************)
(* A call is answered, unless pcef-core waits in a shard that is stuck.     *)
(* (Neither access-gateway nor the PCRF sets a deadline.)                   *)
(***************************************************************************)
EveryCallSettles ==
    \A c \in Calls :
        pc[c] \in {"fetch", "push", "await"} ~>
            At(c, "done") \/ Shard[req[c].ip] \in stuck
=============================================================================
