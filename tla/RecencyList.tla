---------------------------- MODULE RecencyList ----------------------------
(***************************************************************************)
(* What the session cache is meant to be: a list of the live sessions, the  *)
(* one used last in front.  A Get or Set of a live session moves it to the  *)
(* front and leaves the order of the others alone; a new session goes in    *)
(* front of all.  No session leaves but by expiry, when it has been idle    *)
(* for the timeout, and the first expiry is the last event of the list: the *)
(* code never gets over it.                                                 *)
(***************************************************************************)
EXTENDS Integers, Sequences

CONSTANTS Keys,        \* the session keys
          NoKey,       \* no session
          IdleTimeout  \* of a session, in ticks

VARIABLES recent,  \* Seq([key : Keys, at : Nat]), the live sessions with the
                   \* time of their last use, the one used last first
          expired, \* the session that expired, NoKey before that
          now

list == <<recent, expired, now>>

Init ==
    /\ recent  = << >>
    /\ expired = NoKey
    /\ now     = 0

Live(i) == i \in 1 .. Len(recent)
Used(k) == [key |-> k, at |-> now]

\* The i-th session is used.
Use(i) ==
    /\ expired = NoKey /\ Live(i)
    /\ recent' = [j \in 1 .. Len(recent) |-> IF j = 1 THEN Used(recent[i].key)
                                             ELSE IF j <= i THEN recent[j - 1]
                                             ELSE recent[j]]
    /\ UNCHANGED <<expired, now>>

Add(k) ==
    /\ expired = NoKey /\ \A i \in 1 .. Len(recent) : recent[i].key # k
    /\ recent' = <<Used(k)>> \o recent
    /\ UNCHANGED <<expired, now>>

Expire(i) ==
    /\ expired = NoKey /\ Live(i)
    /\ now - recent[i].at >= IdleTimeout
    /\ expired' = recent[i].key
    /\ UNCHANGED <<recent, now>>

Tick == now' = now + 1 /\ UNCHANGED <<recent, expired>>

Next ==
    \/ \E i \in 1 .. Len(recent) : Use(i) \/ Expire(i)
    \/ \E k \in Keys : Add(k)
    \/ Tick

Spec == Init /\ [][Next]_list
=============================================================================
