---------------------------- MODULE CreditLedger ----------------------------
(***************************************************************************)
(* What online charging promises, independently of how the OCS does it:    *)
(* every byte of an account is available, held for a session, or spent, and *)
(* moves between the three in single indivisible steps.                     *)
(*                                                                          *)
(*   avail - credit that can still be granted        (TotalBalanceBytes)    *)
(*   held  - credit granted and not yet settled      (ReservedBytes)        *)
(*   spent - credit charged for good                                        *)
(***************************************************************************)
EXTENDS Naturals

CONSTANTS Accounts,        \* the subscribers the ledger keeps books for
          InitialBalance   \* [Accounts -> Nat], the credit each starts with

VARIABLES avail, held, spent

ledger == <<avail, held, spent>>

Init ==
    /\ avail = InitialBalance
    /\ held  = [s \in Accounts |-> 0]
    /\ spent = [s \in Accounts |-> 0]

\* n bytes are frozen for a session of s; never more than s still has.
Grant(s, n) ==
    /\ n <= avail[s]
    /\ avail' = [avail EXCEPT ![s] = @ - n]
    /\ held'  = [held  EXCEPT ![s] = @ + n]
    /\ UNCHANGED spent

\* n held bytes are charged.
Commit(s, n) ==
    /\ n <= held[s]
    /\ held'  = [held  EXCEPT ![s] = @ - n]
    /\ spent' = [spent EXCEPT ![s] = @ + n]
    /\ UNCHANGED avail

\* A session of s that holds q bytes ends: u of them are charged and the rest
\* goes back to the balance.
Settle(s, q, u) ==
    /\ u <= q
    /\ q <= held[s]
    /\ avail' = [avail EXCEPT ![s] = @ + (q - u)]
    /\ held'  = [held  EXCEPT ![s] = @ - q]
    /\ spent' = [spent EXCEPT ![s] = @ + u]

Next ==
    \E s \in Accounts :
        \/ \E n \in 0 .. avail[s] : Grant(s, n)
        \/ \E n \in 0 .. held[s] : Commit(s, n)
        \/ \E q \in 0 .. held[s] : \E u \in 0 .. q : Settle(s, q, u)

Spec == Init /\ [][Next]_ledger
=============================================================================
