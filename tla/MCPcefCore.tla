----------------------------- MODULE MCPcefCore -----------------------------
(***************************************************************************)
(* An instance of PcefCore for TLC, with the engine of DispatchEngine as    *)
(* NewPcefCoreService leaves it: ranges and actions are configured first,   *)
(* here in any order and number, and frames are served once the table and   *)
(* the registry are those of bootstrapDispatcher.                           *)
(***************************************************************************)
EXTENDS PcefCore, DispatchEngine, TLC

CONSTANTS s1, s2,        \* streams
          ip1, ip2,      \* addresses
          imsi1, imsi2,  \* subscribers
          sh1, sh2,      \* shards
          youtube, other   \* hosts

OneSession == <<[ip |-> ip1, imsi |-> imsi1]>>
OwnShard   == ip1 :> sh1 @@ ip2 :> sh2
Balances   == imsi1 :> 3
Signatures == youtube :> Streaming

\* Heavy frames of one address that different rules apply to, and on the other
\* address a streaming frame that declares a negative size: it counts as small,
\* and there is no rule for it.
AllFrames ==
    {[ip |-> ip1, host |-> youtube, size |-> 2], [ip |-> ip1, host |-> other, size |-> 2],
     [ip |-> ip2, host |-> youtube, size |-> -1]}

\* The engine: on, below, between and beyond the bounds, and a negative value.
EngineValues == {-1, 0, 1, 2, 5, 6, 9, 10}
RuleMasks == DOMAIN Rules

-----------------------------------------------------------------------------
\* Nothing has happened to a stream or to the cache yet.
BeforeServing ==
    /\ locked = {}
    /\ allocated = Len(Bootstrap)
    /\ \A s \in Streams : At(s, "recv") /\ received[s] = 0

Configure == BeforeServing /\ EngineNext /\ UNCHANGED vars

Bootstrapped ==
    /\ added = <<[upperBound |-> 1, flag |-> PackSmall], [upperBound |-> 9, flag |-> PackHeavy]>>
    /\ rangeBounds = RangeBounds
    /\ registry = Rules

Enforce == Bootstrapped /\ Next /\ UNCHANGED engineVars

CoreInit == Init /\ EngineInit

CoreSpec ==
    /\ CoreInit
    /\ [][Configure \/ Enforce]_<<vars, engineVars>>
    /\ Fairness
=============================================================================
