---------------------------- MODULE MCTokenBucket ----------------------------
(***************************************************************************)
(* Instances of TokenBucket for TLC.                                        *)
(***************************************************************************)
EXTENDS TokenBucket, TLC

CONSTANTS c1, c2, c3,   \* calls of Allow
          k1, k2        \* client addresses

SameClient == [c \in Calls |-> k1]
=============================================================================
