--------------------------- MODULE MCPolicyControl ---------------------------
(***************************************************************************)
(* An instance of PolicyControl for TLC: access-gateway starts the session  *)
(* of an address, while two Gx clients have rules compiled for it and its   *)
(* subscriber is suspended.  The other address has a shard of its own.      *)
(***************************************************************************)
EXTENDS PolicyControl, TLC

CONSTANTS imsi1, imsi2, ip1, ip2, sh1, sh2,
          radius1,    \* an Accounting-Start at access-gateway
          gx1, gx2    \* calls at the PCRF

Profiles == imsi1 :> [tariff |-> "VIP", suspended |-> FALSE]
Stores   == imsi1 :> {[tariff |-> "VIP", suspended |-> TRUE]} @@ imsi2 :> {}
OwnShard == ip1 :> sh1 @@ ip2 :> sh2
First    == ip1 :> [imsi |-> imsi1, tariff |-> "VIP", bandwidth |-> FullBandwidth,
                    from |-> Boot]

\* gx2 may name no subscriber, or one without a profile.
Subscriber1 == [imsi |-> imsi1, ip |-> ip1]
Requests == radius1 :> {Subscriber1}
         @@ gx1 :> {Subscriber1}
         @@ gx2 :> {[imsi |-> i, ip |-> ip1] : i \in {imsi1, imsi2, NoImsi}}
=============================================================================
