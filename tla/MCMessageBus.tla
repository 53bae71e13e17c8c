---------------------------- MODULE MCMessageBus ----------------------------
(***************************************************************************)
(* An instance of MessageBus for TLC: a pack of several records, one as     *)
(* pcef-core sends it, an empty one, and two consumers.                     *)
(***************************************************************************)
EXTENDS MessageBus, TLC

CONSTANTS p1, p2, p3,  \* pushes
          k1, k2       \* consumers

Sizes   == p1 :> 2 @@ p2 :> 1 @@ p3 :> 0
Batches == k1 :> 2 @@ k2 :> 1
=============================================================================
