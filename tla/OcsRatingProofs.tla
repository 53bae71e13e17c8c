--------------------------- MODULE OcsRatingProofs ---------------------------
(***************************************************************************)
(* Theorems about OcsRating for every set of calls, every workload and      *)
(* every initial balance.                                                   *)
(***************************************************************************)
EXTENDS OcsRating, FiniteSetTheorems, TLAPS

\* A call between dispatch and return names an account and a session.
Routed ==
    \A c \in Calls : pc[c] \notin {"idle", "done"} =>
        req[c].sub \in Accounts /\ req[c].sess \in Sessions

\* The inductive invariant behind type correctness.
TypeInv == TypeOK /\ Routed

LEMMA LeastLemma ==
    ASSUME NEW a \in Nat, NEW b \in Nat
    PROVE  Least(a, b) \in Nat /\ Least(a, b) <= a /\ Least(a, b) <= b
  BY DEF Least

LEMMA PlusLemma ==
    ASSUME NEW S, NEW T, NEW f \in [S -> T], NEW s \in S, NEW n, f[s] + n \in T
    PROVE  /\ Plus(f, s, n) \in [S -> T]
           /\ Plus(f, s, n)[s] = f[s] + n
           /\ \A t \in S : t # s => Plus(f, s, n)[t] = f[t]
  BY DEF Plus

\* A successful CAS that stores n less subtracts n from the counter.
LEMMA SwapLemma ==
    ASSUME NEW f \in [Accounts -> Nat], NEW c, req[c].sub \in Accounts,
           NEW n \in Nat, CasSucceeds(f, c)
    PROVE  /\ Swap(f, c, n) = Plus(f, req[c].sub, -n)
           /\ seen[c] = f[req[c].sub]
  <1>1. seen[c] - n = f[req[c].sub] + (-n)
    BY DEF CasSucceeds
  <1> QED
    BY <1>1 DEF Swap, Plus, CasSucceeds

LEMMA InitTypeInv == Init => TypeInv
  <1> SUFFICES ASSUME Init PROVE TypeInv
    OBVIOUS
  <1> USE DEF Init
  <1>1. TypeOK
    BY BalanceAssumption DEF TypeOK, Labels, NoRequest, NoAnswer, Request
  <1>2. Routed
    BY DEF Routed
  <1> QED
    BY <1>1, <1>2 DEF TypeInv

LEMMA NextTypeInv == TypeInv /\ [Next]_vars => TypeInv'
  <1> SUFFICES ASSUME TypeInv, [Next]_vars PROVE TypeInv'
    OBVIOUS
  <1> USE DEF TypeInv, TypeOK, Routed, Labels, At, Goto, Return,
              counters, history
  <1>1. CASE UNCHANGED vars
    BY <1>1 DEF vars
  <1>2. ASSUME NEW c \in Calls, NEW r \in Offer[c], Dispatch(c, r)
        PROVE  TypeInv'
    <2>1. r \in Request
      BY OfferAssumption
    <2>2. ~Malformed(r) => r.sess \in Sessions
      BY <2>1 DEF Malformed, Request
    <2>3. r.type \in {INITIAL, UPDATE, TERMINATE} =>
             Entry(r.type) \in {"loadTotal", "loadReserved", "loadSession"}
      BY DEF Entry, INITIAL, UPDATE, TERMINATE
    <2> QED
      BY <1>2, <2>1, <2>2, <2>3 DEF Dispatch, Malformed, InvalidArgument,
             DIAMETER_CREDIT_LIMIT_REACHED
  <1>3. ASSUME NEW c \in Calls, Run(c) PROVE TypeInv'
    <2>1. CASE LoadReserved(c)
      BY <2>1 DEF LoadReserved
    <2>2. CASE CasReserved(c)
      <3> DEFINE s == req[c].sub
                 u == Least(req[c].used, seen[c])
      <3>1. s \in Accounts /\ req[c].used \in Nat
        BY <2>2 DEF CasReserved, Request
      <3>2. u \in Nat /\ u <= reserved[s]
        BY <2>2, <3>1, LeastLemma DEF CasReserved, CasSucceeds
      <3>3. reserved' \in [Accounts -> Nat] /\ charged' \in [Accounts -> Nat]
        <4> HIDE DEF u
        <4>1. reserved' = Plus(reserved, s, -u) /\ charged' = Plus(charged, s, u)
          BY <2>2, <3>1, <3>2, SwapLemma DEF CasReserved, u
        <4>2. reserved[s] + (-u) \in Nat /\ charged[s] + u \in Nat
          BY <3>1, <3>2
        <4> QED
          BY <3>1, <4>1, <4>2, PlusLemma
      <3> QED
        BY <2>2, <3>3 DEF CasReserved
    <2>3. CASE CasReservedFails(c)
      BY <2>3 DEF CasReservedFails
    <2>4. CASE LoadTotal(c)
      BY <2>4 DEF LoadTotal
    <2>5. CASE LoadTotalEmpty(c)
      BY <2>5 DEF LoadTotalEmpty, DIAMETER_CREDIT_LIMIT_REACHED
    <2>6. CASE CasTotal(c)
      <3> DEFINE s == req[c].sub
                 g == Least(req[c].used, seen[c])
      <3>1. s \in Accounts /\ req[c].used \in Nat
        BY <2>6 DEF CasTotal, Request
      <3>2. g \in Nat /\ g <= total[s]
        BY <2>6, <3>1, LeastLemma DEF CasTotal, CasSucceeds
      <3>3. /\ total' \in [Accounts -> Nat] /\ inflight' \in [Accounts -> Int]
            /\ amount' \in [Calls -> Nat]
        <4> HIDE DEF g
        <4>1. /\ total' = Plus(total, s, -g) /\ inflight' = Plus(inflight, s, g)
              /\ amount' = [amount EXCEPT ![c] = g]
          BY <2>6, <3>1, <3>2, SwapLemma DEF CasTotal, g
        <4>2. total[s] + (-g) \in Nat /\ inflight[s] + g \in Int
          BY <3>1, <3>2
        <4> QED
          BY <3>1, <3>2, <4>1, <4>2, PlusLemma
      <3> QED
        BY <2>6, <3>3 DEF CasTotal
    <2>7. CASE CasTotalFails(c)
      BY <2>7 DEF CasTotalFails
    <2>8. CASE AddReserved(c)
      <3>1. req[c].sub \in Accounts
        BY <2>8 DEF AddReserved
      <3>2. /\ reserved[req[c].sub] + amount[c] \in Nat
            /\ inflight[req[c].sub] + (-amount[c]) \in Int
        BY <3>1
      <3>3. reserved' \in [Accounts -> Nat] /\ inflight' \in [Accounts -> Int]
        BY <2>8, <3>1, <3>2, PlusLemma DEF AddReserved
      <3> QED
        BY <2>8, <3>3 DEF AddReserved
    <2>9. CASE StoreSession(c)
      BY <2>9 DEF StoreSession, DIAMETER_SUCCESS
    <2>10. CASE LoadSession(c)
      BY <2>10 DEF LoadSession
    <2>11. CASE LoadSessionMissing(c)
      BY <2>11 DEF LoadSessionMissing, DIAMETER_CREDIT_LIMIT_REACHED
    <2>12. CASE Refund(c)
      <3> DEFINE s == req[c].sub
                 u == Least(req[c].used, amount[c])
      <3>1. s \in Accounts /\ req[c].used \in Nat
        BY <2>12 DEF Refund, Request
      <3>2. u \in Nat /\ u <= amount[c]
        BY <3>1, LeastLemma
      <3>3. /\ total' \in [Accounts -> Nat] /\ charged' \in [Accounts -> Nat]
            /\ settling' \in [Accounts -> Int]
        <4> HIDE DEF u
        <4>1. /\ total' = Plus(total, s, amount[c] - u)
              /\ charged' = Plus(charged, s, u)
              /\ settling' = Plus(settling, s, amount[c])
          BY <2>12 DEF Refund, u
        <4>2. /\ total[s] + (amount[c] - u) \in Nat /\ charged[s] + u \in Nat
              /\ settling[s] + amount[c] \in Int
          BY <3>1, <3>2
        <4> QED
          BY <3>1, <4>1, <4>2, PlusLemma
      <3> QED
        BY <2>12, <3>3 DEF Refund
    <2>13. CASE LoadRelease(c)
      BY <2>13 DEF LoadRelease
    <2>14. CASE CasRelease(c)
      <3> DEFINE s == req[c].sub
                 d == Least(amount[c], seen[c])
      <3>1. s \in Accounts
        BY <2>14 DEF CasRelease
      <3>2. d \in Nat /\ d <= reserved[s]
        BY <2>14, <3>1, LeastLemma DEF CasRelease, CasSucceeds
      <3>3. reserved' \in [Accounts -> Nat] /\ settling' \in [Accounts -> Int]
        <4> HIDE DEF d
        <4>1. /\ reserved' = Plus(reserved, s, -d)
              /\ settling' = Plus(settling, s, -amount[c])
          BY <2>14, <3>1, <3>2, SwapLemma DEF CasRelease, d
        <4>2. reserved[s] + (-d) \in Nat /\ settling[s] + (-amount[c]) \in Int
          BY <3>1, <3>2
        <4> QED
          BY <3>1, <4>1, <4>2, PlusLemma
      <3> QED
        BY <2>14, <3>3 DEF CasRelease
    <2>15. CASE CasReleaseFails(c)
      BY <2>15 DEF CasReleaseFails
    <2>16. CASE DeleteSession(c)
      BY <2>16 DEF DeleteSession, DIAMETER_SUCCESS
    <2> QED
      BY <1>3, <2>1, <2>2, <2>3, <2>4, <2>5, <2>6, <2>7, <2>8, <2>9, <2>10,
         <2>11, <2>12, <2>13, <2>14, <2>15, <2>16 DEF Run
  <1> QED
    BY <1>1, <1>2, <1>3 DEF Next

LEMMA TypeInvariance == Spec => []TypeInv
  BY InitTypeInv, NextTypeInv, PTL DEF Spec

(***************************************************************************)
(* The counters of the OCS never leave their types: in particular no CAS    *)
(* loop takes more from a counter than it holds, so no uint64 wraps below   *)
(* zero in Reserve, CommitAndReserve or Release.                            *)
(***************************************************************************)
THEOREM TypeCorrect == Spec => []TypeOK
  BY TypeInvariance, PTL DEF TypeInv

-----------------------------------------------------------------------------
(***************************************************************************)
(* Accounting.  Net(s) is what the books of s add up to; only the last CAS  *)
(* of Release can change it, never downwards, and not at all when the       *)
(* reserve still covers the quota it clears.                                *)
(***************************************************************************)
Net(s) == Books(s) - settling[s]

\* The reserve of t covers what terminations are about to clear.
Covers(t) ==
    \A c \in Calls : At(c, "casRelease") /\ req[c].sub = t => amount[c] <= reserved[t]

LEMMA NetStep ==
    ASSUME TypeInv, TypeInv', [Next]_vars, NEW t \in Accounts
    PROVE  Net(t)' >= Net(t) /\ (Covers(t) => Net(t)' = Net(t))
  <1> DEFINE Same == UNCHANGED <<total[t], reserved[t], inflight[t],
                                 charged[t], settling[t]>>
             Goal == Net(t)' >= Net(t) /\ (Covers(t) => Net(t)' = Net(t))
  <1>1. /\ total[t] \in Nat /\ reserved[t] \in Nat /\ charged[t] \in Nat
        /\ inflight[t] \in Int /\ settling[t] \in Int
        /\ Net(t) \in Int
    BY DEF TypeInv, TypeOK, Net, Books
  <1>2. Same => Goal
    BY <1>1 DEF Net, Books
  <1>3. CASE UNCHANGED <<counters, history>>
    BY <1>2, <1>3 DEF counters, history
  <1>4. ASSUME NEW c \in Calls, Run(c) PROVE Goal
    <2> DEFINE s == req[c].sub
    <2> USE DEF TypeInv, TypeOK
    <2>0. s = t => req[c].used \in Nat /\ seen[c] \in Nat /\ amount[c] \in Nat
      BY DEF Request
    <2>1. CASE CasReserved(c)
      <3> DEFINE u == Least(req[c].used, seen[c])
      <3>1. CASE s = t
        <4>1. u \in Nat
          BY <2>0, <3>1, LeastLemma
        <4> HIDE DEF u
        <4>2. /\ reserved'[t] = reserved[t] + (-u) /\ charged'[t] = charged[t] + u
              /\ UNCHANGED <<total, inflight, settling>>
          BY <2>1, <3>1, <4>1, SwapLemma DEF CasReserved, Plus, u
        <4> QED
          BY <1>1, <4>1, <4>2 DEF Net, Books
      <3>2. CASE s # t
        BY <1>2, <2>1, <3>2 DEF CasReserved, Plus, Swap
      <3> QED
        BY <3>1, <3>2
    <2>2. CASE CasTotal(c)
      <3> DEFINE g == Least(req[c].used, seen[c])
      <3>1. CASE s = t
        <4>1. g \in Nat
          BY <2>0, <3>1, LeastLemma
        <4> HIDE DEF g
        <4>2. /\ total'[t] = total[t] + (-g) /\ inflight'[t] = inflight[t] + g
              /\ UNCHANGED <<reserved, charged, settling>>
          BY <2>2, <3>1, <4>1, SwapLemma DEF CasTotal, Plus, g
        <4> QED
          BY <1>1, <4>1, <4>2 DEF Net, Books
      <3>2. CASE s # t
        BY <1>2, <2>2, <3>2 DEF CasTotal, Plus, Swap
      <3> QED
        BY <3>1, <3>2
    <2>3. CASE AddReserved(c)
      <3>1. CASE s = t
        <4>1. /\ reserved'[t] = reserved[t] + amount[c]
              /\ inflight'[t] = inflight[t] + (-amount[c])
              /\ UNCHANGED <<total, charged, settling>>
          BY <2>3, <3>1 DEF AddReserved, Plus
        <4> QED
          BY <1>1, <2>0, <3>1, <4>1 DEF Net, Books
      <3>2. CASE s # t
        BY <1>2, <2>3, <3>2 DEF AddReserved, Plus
      <3> QED
        BY <3>1, <3>2
    <2>4. CASE Refund(c)
      <3> DEFINE u == Least(req[c].used, amount[c])
      <3>1. CASE s = t
        <4>1. u \in Nat
          BY <2>0, <3>1, LeastLemma
        <4> HIDE DEF u
        <4>2. /\ total'[t] = total[t] + (amount[c] - u)
              /\ charged'[t] = charged[t] + u
              /\ settling'[t] = settling[t] + amount[c]
              /\ UNCHANGED <<reserved, inflight>>
          BY <2>4, <3>1 DEF Refund, Plus, u
        <4> QED
          BY <1>1, <2>0, <3>1, <4>1, <4>2 DEF Net, Books
      <3>2. CASE s # t
        BY <1>2, <2>4, <3>2 DEF Refund, Plus
      <3> QED
        BY <3>1, <3>2
    <2>5. CASE CasRelease(c)
      <3> DEFINE d == Least(amount[c], seen[c])
      <3>1. CASE s = t
        <4>1. d \in Nat /\ d <= amount[c]
          BY <2>0, <3>1, LeastLemma
        <4> HIDE DEF d
        <4>2. /\ reserved'[t] = reserved[t] + (-d)
              /\ settling'[t] = settling[t] + (-amount[c])
              /\ UNCHANGED <<total, charged, inflight>>
          <5>1. reserved' = Plus(reserved, t, -d)
            BY <2>5, <3>1, <4>1, SwapLemma DEF CasRelease, d
          <5>2. /\ settling' = Plus(settling, t, -amount[c])
                /\ UNCHANGED <<total, charged, inflight>>
            BY <2>5, <3>1 DEF CasRelease
          <5> QED
            BY <5>1, <5>2 DEF Plus
        <4>3. Net(t)' >= Net(t)
          BY <1>1, <2>0, <3>1, <4>1, <4>2 DEF Net, Books
        <4>4. ASSUME amount[c] <= reserved[t] PROVE Net(t)' = Net(t)
          <5>1. d = amount[c]
            BY <2>5, <3>1, <4>4 DEF CasRelease, CasSucceeds, Least, d
          <5> QED
            BY <1>1, <2>0, <3>1, <4>2, <5>1 DEF Net, Books
        <4> QED
          BY <2>5, <3>1, <4>3, <4>4 DEF CasRelease, Covers
      <3>2. CASE s # t
        BY <1>2, <2>5, <3>2 DEF CasRelease, Plus, Swap
      <3> QED
        BY <3>1, <3>2
    <2> QED
      BY <1>3, <1>4, <2>1, <2>2, <2>3, <2>4, <2>5
         DEF Run, LoadReserved, CasReservedFails, LoadTotal, LoadTotalEmpty,
             CasTotalFails, StoreSession, LoadSession, LoadSessionMissing,
             LoadRelease, CasReleaseFails, DeleteSession
  <1>5. ASSUME NEW c \in Calls, NEW r \in Offer[c], Dispatch(c, r) PROVE Goal
    BY <1>3, <1>5 DEF Dispatch
  <1> QED
    BY <1>3, <1>4, <1>5 DEF Next, vars

LEMMA InitNet == Init => \A s \in Accounts : Net(s) = InitialBalance[s]
  BY BalanceAssumption DEF Init, Net, Books

(***************************************************************************)
(* No interleaving of Reserve, CommitAndReserve and Release, whatever the   *)
(* clients send, makes a byte of an account disappear.                      *)
(***************************************************************************)
THEOREM CreditNeverLostTheorem == Spec => []CreditNeverLost
  <1> DEFINE Inv == \A s \in Accounts : Net(s) >= InitialBalance[s]
  <1>1. Init => Inv
    BY InitNet, BalanceAssumption
  <1>2. TypeInv /\ TypeInv' /\ Inv /\ [Next]_vars => Inv'
    <2> SUFFICES ASSUME TypeInv, TypeInv', Inv, [Next]_vars, NEW s \in Accounts
                 PROVE  Net(s)' >= InitialBalance[s]
      OBVIOUS
    <2>1. Net(s) \in Int /\ Net(s)' \in Int /\ InitialBalance[s] \in Nat
      BY BalanceAssumption DEF TypeInv, TypeOK, Net, Books
    <2>2. Net(s)' >= Net(s)
      BY NetStep
    <2> QED
      BY <2>1, <2>2
  <1>3. TypeInv /\ Inv => CreditNeverLost
    BY BalanceAssumption DEF TypeInv, TypeOK, Net, Books, CreditNeverLost
  <1> QED
    BY <1>1, <1>2, <1>3, TypeInvariance, PTL DEF Spec
-----------------------------------------------------------------------------
(***************************************************************************)
(* Sums over calls.  A step is a step of one call, so that a sum changes by *)
(* what that call contributes.                                              *)
(***************************************************************************)
Bytes(c, n) == {c} \X (1 .. n)

LEMMA BytesCount ==
    ASSUME NEW c, NEW n \in Nat
    PROVE  IsFiniteSet(Bytes(c, n)) /\ Cardinality(Bytes(c, n)) = n
  <1>1. IsFiniteSet({c}) /\ Cardinality({c}) = 1
    BY FS_Singleton
  <1>2. IsFiniteSet(1 .. n) /\ Cardinality(1 .. n) = n
    BY FS_Interval
  <1>3. /\ IsFiniteSet({c} \X (1 .. n))
        /\ Cardinality({c} \X (1 .. n)) = Cardinality({c}) * Cardinality(1 .. n)
    BY <1>1, <1>2, FS_Product, Zenon
  <1>4. Cardinality({c}) * Cardinality(1 .. n) = n
    BY <1>1, <1>2
  <1> QED
    BY <1>3, <1>4 DEF Bytes

LEMMA AddBytes ==
    ASSUME NEW S, IsFiniteSet(S), NEW c, NEW n \in Nat, S \cap Bytes(c, n) = {}
    PROVE  /\ IsFiniteSet(S \cup Bytes(c, n))
           /\ Cardinality(S \cup Bytes(c, n)) = Cardinality(S) + n
  <1>1. IsFiniteSet(Bytes(c, n)) /\ Cardinality(Bytes(c, n)) = n
    BY BytesCount
  <1>2. /\ IsFiniteSet(S \cup Bytes(c, n))
        /\ Cardinality(S \cup Bytes(c, n)) =
              Cardinality(S) + Cardinality(Bytes(c, n)) - Cardinality(S \cap Bytes(c, n))
    BY <1>1, FS_Union
  <1>3. Cardinality(S) \in Nat /\ Cardinality(S \cap Bytes(c, n)) = 0
    BY FS_CardinalityType, FS_EmptySet
  <1> QED
    BY <1>1, <1>2, <1>3

LEMMA UnitsOf ==
    ASSUME NEW f \in [Calls -> Nat]
    PROVE  Units(f) = {p \in Calls \X Nat : p[2] \in 1 .. f[p[1]]}
  BY DEF Units

LEMMA UnitsGrow ==
    ASSUME NEW f \in [Calls -> Nat], NEW g \in [Calls -> Nat], NEW c \in Calls,
           f[c] = 0, \A d \in Calls \ {c} : g[d] = f[d], IsFiniteSet(Units(f))
    PROVE  IsFiniteSet(Units(g)) /\ UnitSum(g) = UnitSum(f) + g[c]
  <1>1. Units(g) = Units(f) \cup Bytes(c, g[c])
    <2>1. ASSUME NEW d \in Calls, NEW i \in Nat
          PROVE  <<d, i>> \in Units(g) <=> <<d, i>> \in Units(f) \cup Bytes(c, g[c])
      <3>1. CASE d = c
        BY <3>1, UnitsOf DEF Bytes
      <3>2. CASE d # c
        BY <3>2, UnitsOf DEF Bytes
      <3> QED
        BY <3>1, <3>2
    <2>2. /\ Units(g) \subseteq Calls \X Nat /\ Units(f) \subseteq Calls \X Nat
          /\ Bytes(c, g[c]) \subseteq Calls \X Nat
      BY UnitsOf DEF Bytes
    <2> QED
      BY <2>1, <2>2
  <1>2. Units(f) \cap Bytes(c, g[c]) = {}
    BY UnitsOf DEF Bytes
  <1>3. g[c] \in Nat
    OBVIOUS
  <1> QED
    BY <1>1, <1>2, <1>3, AddBytes DEF UnitSum

\* What a call no longer contributes leaves the sum.
LEMMA UnitsShrink ==
    ASSUME NEW f \in [Calls -> Nat], NEW g \in [Calls -> Nat], NEW c \in Calls,
           g[c] = 0, \A d \in Calls \ {c} : g[d] = f[d], IsFiniteSet(Units(f))
    PROVE  IsFiniteSet(Units(g)) /\ UnitSum(f) = UnitSum(g) + f[c]
  <1>1. Units(g) \subseteq Units(f)
    <2>1. \A d \in Calls : g[d] <= f[d]
      OBVIOUS
    <2> QED
      BY <2>1, UnitsOf
  <1>2. IsFiniteSet(Units(g))
    BY <1>1, FS_Subset
  <1> QED
    BY <1>2, UnitsGrow

\* The sum of a function that is nowhere larger is not larger.
LEMMA UnitsLess ==
    ASSUME NEW f \in [Calls -> Nat], NEW g \in [Calls -> Nat],
           \A c \in Calls : f[c] <= g[c], IsFiniteSet(Units(g))
    PROVE  UnitSum(f) \in Nat /\ UnitSum(g) \in Nat /\ UnitSum(f) <= UnitSum(g)
  <1>1. Units(f) \subseteq Units(g)
    BY UnitsOf
  <1>2. IsFiniteSet(Units(f)) /\ Cardinality(Units(f)) <= Cardinality(Units(g))
    BY <1>1, FS_Subset
  <1> QED
    BY <1>2, FS_CardinalityType DEF UnitSum

\* One addend is not larger than the sum.
LEMMA UnitsAddend ==
    ASSUME NEW f \in [Calls -> Nat], NEW c \in Calls, IsFiniteSet(Units(f))
    PROVE  f[c] <= UnitSum(f)
  <1> DEFINE g == [d \in Calls |-> IF d = c THEN 0 ELSE f[d]]
  <1>1. g \in [Calls -> Nat] /\ g[c] = 0 /\ \A d \in Calls \ {c} : g[d] = f[d]
    OBVIOUS
  <1>2. IsFiniteSet(Units(g)) /\ UnitSum(f) = UnitSum(g) + f[c]
    <2> HIDE DEF g
    <2> QED
      BY <1>1, UnitsShrink
  <1>3. UnitSum(g) \in Nat /\ f[c] \in Nat
    BY <1>2, FS_CardinalityType DEF UnitSum
  <1> QED
    BY <1>2, <1>3

\* The steps of one call, dispatch included.
CallStep(c) == Run(c) \/ \E r \in Offer[c] : Dispatch(c, r)

LEMMA OthersKept ==
    ASSUME TypeInv, NEW c \in Calls, CallStep(c), NEW d \in Calls \ {c}
    PROVE  UNCHANGED <<pc[d], req[d], seen[d], amount[d], answer[d]>>
  <1> USE DEF TypeInv, TypeOK, At, Goto, Return, counters, history
  <1>1. CASE \E r \in Offer[c] : Dispatch(c, r)
    BY <1>1 DEF Dispatch
  <1>2. CASE LoadReserved(c) \/ CasReserved(c) \/ CasReservedFails(c)
    BY <1>2 DEF LoadReserved, CasReserved, CasReservedFails
  <1>3. CASE LoadTotal(c) \/ LoadTotalEmpty(c) \/ CasTotal(c) \/ CasTotalFails(c)
    BY <1>3 DEF LoadTotal, LoadTotalEmpty, CasTotal, CasTotalFails
  <1>4. CASE AddReserved(c) \/ StoreSession(c)
    BY <1>4 DEF AddReserved, StoreSession
  <1>5. CASE LoadSession(c) \/ LoadSessionMissing(c) \/ Refund(c)
    BY <1>5 DEF LoadSession, LoadSessionMissing, Refund
  <1>6. CASE LoadRelease(c) \/ CasRelease(c) \/ CasReleaseFails(c) \/ DeleteSession(c)
    BY <1>6 DEF LoadRelease, CasRelease, CasReleaseFails, DeleteSession
  <1> QED
    BY <1>1, <1>2, <1>3, <1>4, <1>5, <1>6 DEF CallStep, Run

LEMMA RunKept ==
    ASSUME NEW c \in Calls, Run(c)
    PROVE  req' = req /\ pc[c] \notin {"idle", "done"}
  BY DEF Run, LoadReserved, CasReserved, CasReservedFails, LoadTotal, LoadTotalEmpty,
         CasTotal, CasTotalFails, AddReserved, StoreSession, LoadSession,
         LoadSessionMissing, Refund, LoadRelease, CasRelease, CasReleaseFails,
         DeleteSession, At

LEMMA DispatchKept ==
    ASSUME TypeInv, NEW c \in Calls, NEW r \in Offer[c], Dispatch(c, r)
    PROVE  /\ r \in Request /\ req'[c] = r
           /\ pc[c] = "idle" /\ \A d \in After[c] : pc[d] = "done"
           /\ UNCHANGED <<counters, sessions, seen, amount, history>>
           /\ \/ /\ pc'[c] = "done"
                 /\ answer'[c].granted = 0 /\ answer'[c].code # DIAMETER_SUCCESS
              \/ /\ answer'[c] = answer[c]
                 /\ \/ pc'[c] = "loadTotal" /\ r.type = INITIAL
                    \/ pc'[c] = "loadReserved" /\ r.type = UPDATE
                    \/ pc'[c] = "loadSession" /\ r.type = TERMINATE
  <1> USE DEF TypeInv, TypeOK, At, Goto, Return, InvalidArgument,
              DIAMETER_CREDIT_LIMIT_REACHED, DIAMETER_SUCCESS
  <1>1. /\ r \in Request /\ req'[c] = r
        /\ pc[c] = "idle" /\ \A d \in After[c] : pc[d] = "done"
        /\ UNCHANGED <<counters, sessions, seen, amount, history>>
    BY OfferAssumption DEF Dispatch
  <1>2. CASE Malformed(r) \/ r.sub \notin Accounts
    BY <1>1, <1>2 DEF Dispatch
  <1>3. CASE ~Malformed(r) /\ r.sub \in Accounts
    <2>1. \/ Entry(r.type) = "loadTotal" /\ r.type = INITIAL
          \/ Entry(r.type) = "loadReserved" /\ r.type = UPDATE
          \/ Entry(r.type) = "loadSession" /\ r.type = TERMINATE
      BY <1>3 DEF Malformed, Entry, INITIAL, UPDATE, TERMINATE
    <2> QED
      BY <1>1, <1>3, <2>1 DEF Dispatch
  <1> QED
    BY <1>2, <1>3

-----------------------------------------------------------------------------
(***************************************************************************)
(* What a call carries on its way: nothing granted before the answer, no    *)
(* amount before the CAS or the lookup that finds it, and a request of the  *)
(* type of its branch.                                                      *)
(***************************************************************************)
Granting  == {"loadReserved", "casReserved", "loadTotal", "casTotal",
              "addReserved", "storeSession"}
Releasing == {"refund", "loadRelease", "casRelease", "deleteSession"}

PathOf(c) ==
    /\ pc[c] # "done" => answer[c].granted = 0
    /\ pc[c] \in {"idle", "loadReserved", "casReserved", "loadTotal", "casTotal",
                  "loadSession"} => amount[c] = 0
    /\ pc[c] \in {"loadReserved", "casReserved"} => req[c].type = UPDATE
    /\ pc[c] \in Granting => req[c].type \in {INITIAL, UPDATE}
    /\ pc[c] \in Releasing \cup {"loadSession"} => req[c].type = TERMINATE
PathInv == \A c \in Calls : PathOf(c)

LEMMA InitPath == Init => PathInv
  BY DEF Init, PathInv, PathOf, NoAnswer, Granting, Releasing

LEMMA NextPath ==
    ASSUME TypeInv, PathInv, [Next]_vars
    PROVE  PathInv'
  <1> USE DEF TypeInv, TypeOK, Labels, At, Goto, Return, counters, history,
              PathOf, Granting, Releasing
  <1>1. CASE UNCHANGED vars
    BY <1>1 DEF vars, PathInv
  <1>2. ASSUME NEW c \in Calls, CallStep(c), PathOf(c)' PROVE PathInv'
    <2>1. \A d \in Calls \ {c} : PathOf(d)'
      BY <1>2, OthersKept DEF PathInv
    <2> QED
      BY <1>2, <2>1 DEF PathInv
  <1>3. ASSUME NEW c \in Calls, NEW r \in Offer[c], Dispatch(c, r) PROVE PathInv'
    <2>1. PathOf(c)
      BY DEF PathInv
    <2>2. PathOf(c)'
      BY <1>3, <2>1, DispatchKept
    <2> QED
      BY <1>2, <1>3, <2>2 DEF CallStep
  <1>4. ASSUME NEW c \in Calls, Run(c) PROVE PathInv'
    <2>0. PathOf(c)
      BY DEF PathInv
    <2>1. CASE LoadReserved(c) \/ CasReserved(c) \/ CasReservedFails(c)
      BY <1>2, <1>4, <2>0, <2>1 DEF LoadReserved, CasReserved, CasReservedFails, CallStep
    <2>2. CASE LoadTotal(c) \/ LoadTotalEmpty(c) \/ CasTotal(c) \/ CasTotalFails(c)
      BY <1>2, <1>4, <2>0, <2>2 DEF LoadTotal, LoadTotalEmpty, CasTotal, CasTotalFails, CallStep
    <2>3. CASE AddReserved(c) \/ StoreSession(c)
      BY <1>2, <1>4, <2>0, <2>3 DEF AddReserved, StoreSession, CallStep
    <2>4. CASE LoadSession(c) \/ LoadSessionMissing(c)
      BY <1>2, <1>4, <2>0, <2>4 DEF LoadSession, LoadSessionMissing, CallStep
    <2>5. CASE Refund(c) \/ LoadRelease(c)
      BY <1>2, <1>4, <2>0, <2>5 DEF Refund, LoadRelease, CallStep
    <2>6. CASE CasRelease(c) \/ CasReleaseFails(c) \/ DeleteSession(c)
      BY <1>2, <1>4, <2>0, <2>6 DEF CasRelease, CasReleaseFails, DeleteSession, CallStep
    <2> QED
      BY <1>4, <2>1, <2>2, <2>3, <2>4, <2>5, <2>6 DEF Run
  <1> QED
    BY <1>1, <1>3, <1>4 DEF Next

LEMMA PathInvariance == Spec => []PathInv
  <1>1. TypeInv /\ PathInv /\ [Next]_vars => PathInv'
    BY NextPath
  <1> QED
    BY <1>1, InitPath, TypeInvariance, PTL DEF Spec

-----------------------------------------------------------------------------
(***************************************************************************)
(* The two history counters are sums: inflight[s] of the quanta between the *)
(* CAS on the balance and the add to the reserve, settling[s] of the quotas *)
(* between refund and CAS.  So neither is ever negative, and each is zero   *)
(* when no call is there.                                                   *)
(***************************************************************************)
InflightOf(s) ==
    [c \in Calls |-> IF req[c].sub = s /\ pc[c] = "addReserved" THEN amount[c] ELSE 0]
SettlingOf(s) ==
    [c \in Calls |-> IF req[c].sub = s /\ pc[c] \in {"loadRelease", "casRelease"}
                       THEN amount[c] ELSE 0]

InTransit(s) ==
    /\ IsFiniteSet(Units(InflightOf(s))) /\ inflight[s] = UnitSum(InflightOf(s))
    /\ IsFiniteSet(Units(SettlingOf(s))) /\ settling[s] = UnitSum(SettlingOf(s))
TransitInv == \A s \in Accounts : InTransit(s)

LEMMA TransitType ==
    ASSUME amount \in [Calls -> Nat], NEW s
    PROVE  InflightOf(s) \in [Calls -> Nat] /\ SettlingOf(s) \in [Calls -> Nat]
  BY DEF InflightOf, SettlingOf

LEMMA TransitTypeNext ==
    ASSUME amount' \in [Calls -> Nat], NEW s
    PROVE  InflightOf(s)' \in [Calls -> Nat] /\ SettlingOf(s)' \in [Calls -> Nat]
  BY DEF InflightOf, SettlingOf

LEMMA InitTransit == Init => TransitInv
  <1> SUFFICES ASSUME Init, NEW s \in Accounts PROVE InTransit(s)
    BY DEF TransitInv
  <1>1. Units(InflightOf(s)) = {} /\ Units(SettlingOf(s)) = {}
    <2>1. \A c \in Calls : InflightOf(s)[c] = 0 /\ SettlingOf(s)[c] = 0
      BY DEF Init, InflightOf, SettlingOf
    <2>2. InflightOf(s) \in [Calls -> Nat] /\ SettlingOf(s) \in [Calls -> Nat]
      BY InitTypeInv, TransitType DEF TypeInv, TypeOK
    <2> QED
      BY <2>1, <2>2, UnitsOf
  <1>2. inflight[s] = 0 /\ settling[s] = 0
    BY DEF Init
  <1> QED
    BY <1>1, <1>2, FS_EmptySet DEF InTransit, UnitSum

LEMMA NextTransit ==
    ASSUME TypeInv, TypeInv', TransitInv, [Next]_vars
    PROVE  TransitInv'
  <1> USE DEF TypeInv, TypeOK, At, Goto, Return, counters, history
  <1> SUFFICES ASSUME NEW s \in Accounts PROVE InTransit(s)'
    BY DEF TransitInv
  <1> DEFINE F == InflightOf(s)
             G == SettlingOf(s)
  <1>1. /\ IsFiniteSet(Units(F)) /\ inflight[s] = UnitSum(F) /\ UnitSum(F) \in Nat
        /\ IsFiniteSet(Units(G)) /\ settling[s] = UnitSum(G) /\ UnitSum(G) \in Nat
    BY FS_CardinalityType DEF TransitInv, InTransit, UnitSum
  <1>2. /\ F \in [Calls -> Nat] /\ G \in [Calls -> Nat]
        /\ F' \in [Calls -> Nat] /\ G' \in [Calls -> Nat]
    BY TransitType, TransitTypeNext
  <1>3. ASSUME F' = F, G' = G, inflight'[s] = inflight[s], settling'[s] = settling[s]
        PROVE  InTransit(s)'
    BY <1>1, <1>3 DEF InTransit
  <1>4. ASSUME NEW c \in Calls, CallStep(c), NEW d \in Calls \ {c}
        PROVE  F'[d] = F[d] /\ G'[d] = G[d]
    BY <1>4, OthersKept DEF InflightOf, SettlingOf
  <1>5. ASSUME NEW c \in Calls, CallStep(c) PROVE
           /\ F'[c] = F[c] => F' = F
           /\ G'[c] = G[c] => G' = G
    <2>1. \A d \in Calls \ {c} : F'[d] = F[d] /\ G'[d] = G[d]
      BY <1>4, <1>5
    <2> HIDE DEF F, G
    <2> QED
      BY <1>2, <2>1
  <1>6. ASSUME NEW c \in Calls, CallStep(c), F'[c] = F[c], G'[c] = G[c],
               inflight'[s] = inflight[s], settling'[s] = settling[s]
        PROVE  InTransit(s)'
    BY <1>3, <1>5, <1>6
  <1>7. CASE UNCHANGED vars
    BY <1>3, <1>7 DEF vars, InflightOf, SettlingOf
  <1>8. ASSUME NEW c \in Calls, NEW r \in Offer[c], Dispatch(c, r) PROVE InTransit(s)'
    <2>1. F'[c] = F[c] /\ G'[c] = G[c]
      BY <1>8, DispatchKept DEF InflightOf, SettlingOf
    <2> QED
      BY <1>6, <1>8, <2>1, DispatchKept DEF CallStep
  <1>9. ASSUME NEW c \in Calls, CasTotal(c) PROVE InTransit(s)'
    <2>1. /\ pc[c] = "casTotal" /\ pc'[c] = "addReserved" /\ req' = req
          /\ inflight' = Plus(inflight, req[c].sub, amount'[c]) /\ settling' = settling
      BY <1>9 DEF CasTotal
    <2>2. F[c] = 0 /\ F'[c] = (IF req[c].sub = s THEN amount'[c] ELSE 0) /\ G'[c] = G[c]
      BY <2>1 DEF InflightOf, SettlingOf
    <2>3. CallStep(c)
      BY <1>9 DEF CallStep, Run
    <2>4. CASE req[c].sub = s
      <3>1. \A d \in Calls \ {c} : F'[d] = F[d]
        BY <1>4, <2>3
      <3>2. G' = G
        BY <1>5, <2>2, <2>3
      <3>3. inflight'[s] = inflight[s] + F'[c]
        BY <2>1, <2>2, <2>4 DEF Plus
      <3> HIDE DEF F, G
      <3>4. IsFiniteSet(Units(F')) /\ UnitSum(F') = UnitSum(F) + F'[c]
        BY <1>1, <1>2, <2>2, <3>1, UnitsGrow
      <3> QED
        BY <1>1, <2>1, <3>2, <3>3, <3>4 DEF InTransit, F, G
    <2>5. CASE req[c].sub # s
      BY <1>6, <2>1, <2>2, <2>3, <2>5 DEF Plus
    <2> QED
      BY <2>4, <2>5
  <1>10. ASSUME NEW c \in Calls, AddReserved(c) PROVE InTransit(s)'
    <2>1. /\ pc[c] = "addReserved" /\ pc'[c] = "storeSession" /\ req' = req
          /\ inflight' = Plus(inflight, req[c].sub, -amount[c]) /\ settling' = settling
      BY <1>10 DEF AddReserved
    <2>2. F'[c] = 0 /\ F[c] = (IF req[c].sub = s THEN amount[c] ELSE 0) /\ G'[c] = G[c]
      BY <2>1 DEF InflightOf, SettlingOf
    <2>3. CallStep(c)
      BY <1>10 DEF CallStep, Run
    <2>4. CASE req[c].sub = s
      <3>1. \A d \in Calls \ {c} : F'[d] = F[d]
        BY <1>4, <2>3
      <3>2. G' = G
        BY <1>5, <2>2, <2>3
      <3>3. inflight'[s] = inflight[s] - F[c]
        BY <2>1, <2>2, <2>4 DEF Plus
      <3> HIDE DEF F, G
      <3>4. IsFiniteSet(Units(F')) /\ UnitSum(F) = UnitSum(F') + F[c]
        BY <1>1, <1>2, <2>2, <3>1, UnitsShrink
      <3>5. UnitSum(F') \in Nat /\ F[c] \in Nat
        BY <1>2, <3>4, FS_CardinalityType DEF UnitSum
      <3>6. inflight'[s] = UnitSum(F')
        BY <1>1, <3>3, <3>4, <3>5
      <3> QED
        BY <1>1, <2>1, <3>2, <3>4, <3>6 DEF InTransit, F, G
    <2>5. CASE req[c].sub # s
      BY <1>6, <2>1, <2>2, <2>3, <2>5 DEF Plus
    <2> QED
      BY <2>4, <2>5
  <1>11. ASSUME NEW c \in Calls, Refund(c) PROVE InTransit(s)'
    <2>1. /\ pc[c] = "refund" /\ pc'[c] = "loadRelease" /\ req' = req /\ amount' = amount
          /\ settling' = Plus(settling, req[c].sub, amount[c]) /\ inflight' = inflight
      BY <1>11 DEF Refund
    <2>2. G[c] = 0 /\ G'[c] = (IF req[c].sub = s THEN amount[c] ELSE 0) /\ F'[c] = F[c]
      BY <2>1 DEF InflightOf, SettlingOf
    <2>3. CallStep(c)
      BY <1>11 DEF CallStep, Run
    <2>4. CASE req[c].sub = s
      <3>1. \A d \in Calls \ {c} : G'[d] = G[d]
        BY <1>4, <2>3
      <3>2. F' = F
        BY <1>5, <2>2, <2>3
      <3>3. settling'[s] = settling[s] + G'[c]
        BY <2>1, <2>2, <2>4 DEF Plus
      <3> HIDE DEF F, G
      <3>4. IsFiniteSet(Units(G')) /\ UnitSum(G') = UnitSum(G) + G'[c]
        BY <1>1, <1>2, <2>2, <3>1, UnitsGrow
      <3> QED
        BY <1>1, <2>1, <3>2, <3>3, <3>4 DEF InTransit, F, G
    <2>5. CASE req[c].sub # s
      BY <1>6, <2>1, <2>2, <2>3, <2>5 DEF Plus
    <2> QED
      BY <2>4, <2>5
  <1>12. ASSUME NEW c \in Calls, CasRelease(c) PROVE InTransit(s)'
    <2>1. /\ pc[c] = "casRelease" /\ pc'[c] = "deleteSession" /\ req' = req
          /\ settling' = Plus(settling, req[c].sub, -amount[c]) /\ inflight' = inflight
      BY <1>12 DEF CasRelease
    <2>2. G'[c] = 0 /\ G[c] = (IF req[c].sub = s THEN amount[c] ELSE 0) /\ F'[c] = F[c]
      BY <2>1 DEF InflightOf, SettlingOf
    <2>3. CallStep(c)
      BY <1>12 DEF CallStep, Run
    <2>4. CASE req[c].sub = s
      <3>1. \A d \in Calls \ {c} : G'[d] = G[d]
        BY <1>4, <2>3
      <3>2. F' = F
        BY <1>5, <2>2, <2>3
      <3>3. settling'[s] = settling[s] - G[c]
        BY <2>1, <2>2, <2>4 DEF Plus
      <3> HIDE DEF F, G
      <3>4. IsFiniteSet(Units(G')) /\ UnitSum(G) = UnitSum(G') + G[c]
        BY <1>1, <1>2, <2>2, <3>1, UnitsShrink
      <3>5. UnitSum(G') \in Nat /\ G[c] \in Nat
        BY <1>2, <3>4, FS_CardinalityType DEF UnitSum
      <3>6. settling'[s] = UnitSum(G')
        BY <1>1, <3>3, <3>4, <3>5
      <3> QED
        BY <1>1, <2>1, <3>2, <3>4, <3>6 DEF InTransit, F, G
    <2>5. CASE req[c].sub # s
      BY <1>6, <2>1, <2>2, <2>3, <2>5 DEF Plus
    <2> QED
      BY <2>4, <2>5
  <1>13. ASSUME NEW c \in Calls, Run(c), ~CasTotal(c), ~AddReserved(c),
                ~Refund(c), ~CasRelease(c)
         PROVE  InTransit(s)'
    <2>1. UNCHANGED <<req, inflight, settling>> /\ CallStep(c)
      BY <1>13 DEF CallStep, Run, LoadReserved, CasReserved, CasReservedFails, LoadTotal,
             LoadTotalEmpty, CasTotalFails, StoreSession, LoadSession,
             LoadSessionMissing, LoadRelease, CasReleaseFails, DeleteSession
    <2>2. F'[c] = F[c] /\ G'[c] = G[c]
      <3> USE DEF InflightOf, SettlingOf
      <3>1. CASE LoadReserved(c) \/ CasReserved(c) \/ CasReservedFails(c)
        BY <3>1 DEF LoadReserved, CasReserved, CasReservedFails
      <3>2. CASE LoadTotal(c) \/ LoadTotalEmpty(c) \/ CasTotalFails(c)
        BY <3>2 DEF LoadTotal, LoadTotalEmpty, CasTotalFails
      <3>3. CASE StoreSession(c) \/ LoadSession(c) \/ LoadSessionMissing(c)
        BY <3>3 DEF StoreSession, LoadSession, LoadSessionMissing
      <3>4. CASE LoadRelease(c) \/ CasReleaseFails(c) \/ DeleteSession(c)
        BY <3>4 DEF LoadRelease, CasReleaseFails, DeleteSession
      <3> QED
        BY <1>13, <3>1, <3>2, <3>3, <3>4 DEF Run
    <2> QED
      BY <1>6, <2>1, <2>2
  <1> QED
    BY <1>7, <1>8, <1>9, <1>10, <1>11, <1>12, <1>13 DEF Next

LEMMA TransitInvariance == Spec => []TransitInv
  <1>1. TypeInv /\ TypeInv' /\ TransitInv /\ [Next]_vars => TransitInv'
    BY NextTransit
  <1> QED
    BY <1>1, InitTransit, TypeInvariance, PTL DEF Spec

LEMMA TransitNat ==
    ASSUME TransitInv, NEW s \in Accounts
    PROVE  inflight[s] \in Nat /\ settling[s] \in Nat
  BY FS_CardinalityType DEF TransitInv, InTransit, UnitSum

-----------------------------------------------------------------------------
(***************************************************************************)
(* Overselling.  A grant counts from the CAS that takes it off the balance, *)
(* not only from the answer that carries it (Pledged); what is pledged and  *)
(* what is left then always make up the initial balance and the refunds,    *)
(* to the byte, also when two terminations refund the same session.         *)
(***************************************************************************)
Pledge(c) == IF pc[c] \in {"addReserved", "storeSession"} THEN amount[c]
                                                         ELSE answer[c].granted
Pledged(s) == [c \in Calls |-> IF req[c].sub = s THEN Pledge(c) ELSE 0]
Repaid(s)  == [c \in Calls |-> IF HasRefunded(c, s)
                                 THEN amount[c] - Least(req[c].used, amount[c])
                                 ELSE 0]

SoldInv ==
    \A s \in Accounts :
        /\ IsFiniteSet(Units(Pledged(s))) /\ IsFiniteSet(Units(Repaid(s)))
        /\ UnitSum(Pledged(s)) + total[s] = InitialBalance[s] + UnitSum(Repaid(s))

LEMMA SalesType ==
    ASSUME TypeInv, NEW s
    PROVE  Pledged(s) \in [Calls -> Nat] /\ Repaid(s) \in [Calls -> Nat]
  <1>1. ASSUME NEW c \in Calls
        PROVE  Pledge(c) \in Nat /\ amount[c] - Least(req[c].used, amount[c]) \in Nat
    <2>1. amount[c] \in Nat /\ answer[c].granted \in Nat /\ req[c].used \in Nat
      BY DEF TypeInv, TypeOK, Request
    <2>2. Least(req[c].used, amount[c]) \in Nat /\ Least(req[c].used, amount[c]) <= amount[c]
      BY <2>1, LeastLemma
    <2> QED
      BY <2>1, <2>2 DEF Pledge
  <1> QED
    BY <1>1 DEF Pledged, Repaid

LEMMA InitSold == Init => SoldInv
  <1> SUFFICES ASSUME Init PROVE SoldInv
    OBVIOUS
  <1>1. ASSUME NEW s \in Accounts
        PROVE  Units(Pledged(s)) = {} /\ Units(Repaid(s)) = {}
    <2>1. \A c \in Calls : Pledged(s)[c] = 0 /\ Repaid(s)[c] = 0
      BY DEF Init, Pledged, Pledge, NoAnswer, Repaid, HasRefunded
    <2> QED
      BY <2>1, InitTypeInv, SalesType, UnitsOf
  <1>2. ASSUME NEW s \in Accounts
        PROVE  /\ IsFiniteSet(Units(Pledged(s))) /\ IsFiniteSet(Units(Repaid(s)))
               /\ UnitSum(Pledged(s)) + total[s] =
                      InitialBalance[s] + UnitSum(Repaid(s))
    <2>1. UnitSum(Pledged(s)) = 0 /\ UnitSum(Repaid(s)) = 0
      BY <1>1, FS_EmptySet DEF UnitSum
    <2>2. total[s] = InitialBalance[s] /\ InitialBalance[s] \in Nat
      BY BalanceAssumption DEF Init
    <2> QED
      BY <1>1, <2>1, <2>2, FS_EmptySet
  <1> QED
    BY <1>2 DEF SoldInv

\* A step of one call leaves what the others have been promised and have given back.
LEMMA OthersSales ==
    ASSUME TypeInv, NEW c \in Calls, CallStep(c), NEW d \in Calls \ {c}, NEW s
    PROVE  Pledged(s)'[d] = Pledged(s)[d] /\ Repaid(s)'[d] = Repaid(s)[d]
  BY OthersKept DEF Pledged, Pledge, Repaid, HasRefunded

LEMMA NextSold ==
    ASSUME TypeInv, TypeInv', PathInv, SoldInv, [Next]_vars
    PROVE  SoldInv'
  <1> USE DEF TypeInv, TypeOK, At, Goto, Return, counters, history
  <1> SUFFICES ASSUME NEW s \in Accounts
               PROVE  /\ IsFiniteSet(Units(Pledged(s)')) /\ IsFiniteSet(Units(Repaid(s)'))
                      /\ UnitSum(Pledged(s)') + total'[s] =
                            InitialBalance[s] + UnitSum(Repaid(s)')
    BY DEF SoldInv, UnitSum, Units
  <1> DEFINE P == Pledged(s)
             R == Repaid(s)
             Goal == /\ IsFiniteSet(Units(P')) /\ IsFiniteSet(Units(R'))
                     /\ UnitSum(P') + total'[s] = InitialBalance[s] + UnitSum(R')
  <1>0. /\ IsFiniteSet(Units(P)) /\ IsFiniteSet(Units(R))
        /\ UnitSum(P) + total[s] = InitialBalance[s] + UnitSum(R)
        /\ UnitSum(P) \in Nat /\ UnitSum(R) \in Nat
        /\ InitialBalance[s] \in Nat /\ total[s] \in Nat
    BY FS_CardinalityType, BalanceAssumption DEF SoldInv, UnitSum
  <1>1. /\ P \in [Calls -> Nat] /\ R \in [Calls -> Nat]
        /\ P' \in [Calls -> Nat] /\ R' \in [Calls -> Nat]
    <2>1. P \in [Calls -> Nat] /\ R \in [Calls -> Nat]
      BY SalesType
    <2>2. (P \in [Calls -> Nat])' /\ (R \in [Calls -> Nat])'
      <3>1. ASSUME NEW c \in Calls
            PROVE  Pledge(c)' \in Nat /\ amount'[c] - Least(req'[c].used, amount'[c]) \in Nat
        <4>1. amount'[c] \in Nat /\ answer'[c].granted \in Nat /\ req'[c].used \in Nat
          BY DEF Request
        <4>2. Least(req'[c].used, amount'[c]) \in Nat /\ Least(req'[c].used, amount'[c]) <= amount'[c]
          BY <4>1, LeastLemma
        <4> QED
          BY <4>1, <4>2 DEF Pledge
      <3> QED
        BY <3>1 DEF Pledged, Repaid
    <2> QED
      BY <2>1, <2>2
  <1>2. ASSUME P' = P, R' = R, total'[s] = total[s] PROVE Goal
    BY <1>0, <1>2
  <1>3. CASE UNCHANGED vars
    BY <1>2, <1>3 DEF vars, Pledged, Pledge, Repaid, HasRefunded
  <1>4. ASSUME NEW c \in Calls, CallStep(c),
               P'[c] = P[c], R'[c] = R[c], total'[s] = total[s]
        PROVE  Goal
    <2>1. \A d \in Calls : P'[d] = P[d] /\ R'[d] = R[d]
      BY <1>4, OthersSales
    <2>2. P' = P /\ R' = R
      <3> HIDE DEF P, R
      <3> QED
        BY <1>1, <2>1
    <2> QED
      BY <1>2, <1>4, <2>2
  <1>5. ASSUME NEW c \in Calls, NEW r \in Offer[c], Dispatch(c, r) PROVE Goal
    <2>1. pc[c] = "idle" /\ amount[c] = 0 /\ answer[c].granted = 0
      BY <1>5 DEF Dispatch, PathInv, PathOf
    <2>2. /\ answer'[c].granted = 0 /\ amount'[c] = 0 /\ total' = total
          /\ pc'[c] \notin {"addReserved", "storeSession"}
      BY <1>5, <2>1, DispatchKept
    <2>3. Least(req'[c].used, 0) = 0
      BY DEF Least, Request
    <2>4. P[c] = 0 /\ P'[c] = 0 /\ R[c] = 0 /\ R'[c] = 0
      BY <2>1, <2>2, <2>3 DEF Pledged, Pledge, Repaid, HasRefunded
    <2> QED
      BY <1>4, <1>5, <2>2, <2>4 DEF CallStep
  <1>6. ASSUME NEW c \in Calls, CasTotal(c) PROVE Goal
    <2> DEFINE g == Least(req[c].used, seen[c])
    <2>1. g \in Nat
      BY LeastLemma DEF Request
    <2>2. /\ pc[c] = "casTotal" /\ pc'[c] = "addReserved" /\ req' = req
          /\ amount'[c] = g
          /\ total' = [total EXCEPT ![req[c].sub] = total[req[c].sub] - g]
      BY <1>6 DEF CasTotal, CasSucceeds, Swap
    <2> HIDE DEF g
    <2>3. answer[c].granted = 0
      BY <2>2 DEF PathInv, PathOf
    <2>4. P[c] = 0 /\ R[c] = 0 /\ R'[c] = 0
          /\ P'[c] = IF req[c].sub = s THEN g ELSE 0
      BY <2>2, <2>3 DEF Pledged, Pledge, Repaid, HasRefunded
    <2>5. total'[s] = IF req[c].sub = s THEN total[s] - g ELSE total[s]
      BY <2>2
    <2>6. CASE req[c].sub = s
      <3>1. \A d \in Calls \ {c} : P'[d] = P[d] /\ R'[d] = R[d]
        BY <1>6, OthersSales DEF CallStep, Run
      <3> HIDE DEF P, R
      <3>2. IsFiniteSet(Units(P')) /\ UnitSum(P') = UnitSum(P) + g
        <4>1. P[c] = 0 /\ P'[c] = g
          BY <2>4, <2>6
        <4>2. PICK f \in [Calls -> Nat], h \in [Calls -> Nat] : f = P /\ h = P'
          BY <1>1
        <4>3. f[c] = 0 /\ (\A d \in Calls \ {c} : h[d] = f[d]) /\ IsFiniteSet(Units(f))
          BY <1>0, <3>1, <4>1, <4>2
        <4>4. IsFiniteSet(Units(h)) /\ UnitSum(h) = UnitSum(f) + h[c]
          BY <4>3, UnitsGrow
        <4> QED
          BY <4>1, <4>2, <4>4
      <3>3. R' = R
        BY <1>1, <2>4, <3>1
      <3> QED
        BY <1>0, <2>1, <2>5, <2>6, <3>2, <3>3
    <2>7. CASE req[c].sub # s
      BY <1>4, <1>6, <2>4, <2>5, <2>7 DEF CallStep, Run
    <2> QED
      BY <2>6, <2>7
  <1>7. ASSUME NEW c \in Calls, Refund(c) PROVE Goal
    <2> DEFINE back == amount[c] - Least(req[c].used, amount[c])
    <2>1. back \in Nat
      <3>1. req[c].used \in Nat /\ amount[c] \in Nat
        BY DEF Request
      <3>2. /\ Least(req[c].used, amount[c]) \in Nat
            /\ Least(req[c].used, amount[c]) <= amount[c]
        BY <3>1, LeastLemma
      <3> QED
        BY <3>1, <3>2
    <2>2. /\ pc[c] = "refund" /\ pc'[c] = "loadRelease"
          /\ UNCHANGED <<req, amount, answer>>
          /\ total' = [total EXCEPT ![req[c].sub] = total[req[c].sub] + back]
      BY <1>7 DEF Refund, Plus
    <2>3. req[c].type = TERMINATE
      BY <2>2 DEF PathInv, PathOf, Releasing
    <2>4. P'[c] = P[c] /\ R[c] = 0 /\ R'[c] = IF req[c].sub = s THEN back ELSE 0
      BY <2>2, <2>3 DEF Pledged, Pledge, Repaid, HasRefunded
    <2> HIDE DEF back
    <2>5. total'[s] = IF req[c].sub = s THEN total[s] + back ELSE total[s]
      BY <2>2
    <2>6. CASE req[c].sub = s
      <3>1. \A d \in Calls \ {c} : P'[d] = P[d] /\ R'[d] = R[d]
        BY <1>7, OthersSales DEF CallStep, Run
      <3> HIDE DEF P, R
      <3>2. IsFiniteSet(Units(R')) /\ UnitSum(R') = UnitSum(R) + back
        <4>1. R[c] = 0 /\ R'[c] = back
          BY <2>4, <2>6
        <4>2. PICK f \in [Calls -> Nat], g \in [Calls -> Nat] : f = R /\ g = R'
          BY <1>1
        <4>3. f[c] = 0 /\ (\A d \in Calls \ {c} : g[d] = f[d]) /\ IsFiniteSet(Units(f))
          BY <1>0, <3>1, <4>1, <4>2
        <4>4. IsFiniteSet(Units(g)) /\ UnitSum(g) = UnitSum(f) + g[c]
          BY <4>3, UnitsGrow
        <4> QED
          BY <4>1, <4>2, <4>4
      <3>3. P' = P
        BY <1>1, <2>4, <3>1
      <3>4. IsFiniteSet(Units(P')) /\ UnitSum(P') = UnitSum(P)
        BY <1>0, <3>3
      <3>5. UnitSum(P) + (total[s] + back) = InitialBalance[s] + (UnitSum(R) + back)
        <4>1. PICK x, y, z, w, n \in Nat :
                 /\ x = UnitSum(P) /\ y = total[s] /\ z = InitialBalance[s]
                 /\ w = UnitSum(R) /\ n = back
          BY <1>0, <2>1
        <4>2. x + y = z + w
          BY <1>0, <4>1
        <4>3. x + (y + n) = z + (w + n)
          BY <4>2
        <4> QED
          BY <4>1, <4>3
      <3> QED
        BY <2>5, <2>6, <3>2, <3>4, <3>5
    <2>7. CASE req[c].sub # s
      BY <1>4, <1>7, <2>4, <2>5, <2>7 DEF CallStep, Run
    <2> QED
      BY <2>6, <2>7
  <1>8. ASSUME NEW c \in Calls, Run(c), ~CasTotal(c), ~Refund(c) PROVE Goal
    <2>1. total' = total /\ req' = req
      BY <1>8 DEF Run, LoadReserved, CasReserved, CasReservedFails, LoadTotal,
             LoadTotalEmpty, CasTotalFails, AddReserved, StoreSession, LoadSession,
             LoadSessionMissing, LoadRelease, CasRelease, CasReleaseFails, DeleteSession
    <2>2. P'[c] = P[c] /\ R'[c] = R[c]
      <3> USE DEF Pledged, Pledge, Repaid, HasRefunded, PathInv, PathOf, Granting, Releasing,
              INITIAL, UPDATE, TERMINATE
      <3>1. CASE LoadReserved(c) \/ CasReserved(c) \/ CasReservedFails(c)
        BY <3>1 DEF LoadReserved, CasReserved, CasReservedFails
      <3>2. CASE LoadTotal(c) \/ LoadTotalEmpty(c) \/ CasTotalFails(c)
        BY <3>2 DEF LoadTotal, LoadTotalEmpty, CasTotalFails
      <3>3. CASE AddReserved(c) \/ StoreSession(c)
        BY <3>3 DEF AddReserved, StoreSession
      <3>4. CASE LoadSession(c)
        BY <3>4 DEF LoadSession
      <3>5. CASE LoadSessionMissing(c)
        <4>1. amount[c] = 0 /\ amount' = amount
          BY <3>5 DEF LoadSessionMissing
        <4>2. Least(req[c].used, 0) = 0
          BY DEF Least, Request
        <4> QED
          BY <3>5, <4>1, <4>2 DEF LoadSessionMissing
      <3>6. CASE LoadRelease(c) \/ CasRelease(c) \/ CasReleaseFails(c)
        BY <3>6 DEF LoadRelease, CasRelease, CasReleaseFails
      <3>7. CASE DeleteSession(c)
        BY <3>7 DEF DeleteSession
      <3> QED
        BY <1>8, <3>1, <3>2, <3>3, <3>4, <3>5, <3>6, <3>7 DEF Run
    <2> QED
      BY <1>4, <1>8, <2>1, <2>2 DEF CallStep
  <1> QED
    BY <1>3, <1>5, <1>6, <1>7, <1>8 DEF Next

(***************************************************************************)
(* No two reservations are ever granted the same bytes: for any clients,    *)
(* any number of concurrent calls and any balance, what the answers of      *)
(* RequestCreditControl grant and what is left stay within the initial      *)
(* balance and what the terminations gave back.                             *)
(***************************************************************************)
THEOREM NoOversellTheorem == Spec => []NoOversell
  <1>1. TypeInv /\ TypeInv' /\ PathInv /\ SoldInv /\ [Next]_vars => SoldInv'
    BY NextSold
  <1>2. TypeInv /\ PathInv /\ SoldInv => NoOversell
    <2> SUFFICES ASSUME TypeInv, PathInv, SoldInv, NEW s \in Accounts
                 PROVE  GrantedTo(s) + total[s] <= InitialBalance[s] + Refunded(s)
      BY DEF NoOversell
    <2> DEFINE G == [c \in Calls |-> IF req[c].sub = s THEN answer[c].granted ELSE 0]
    <2>1. G \in [Calls -> Nat] /\ Pledged(s) \in [Calls -> Nat]
      BY SalesType DEF TypeInv, TypeOK
    <2>2. \A c \in Calls : G[c] <= Pledged(s)[c]
      BY DEF Pledged, Pledge, PathInv, PathOf, TypeInv, TypeOK
    <2>3. UnitSum(G) \in Nat /\ UnitSum(Pledged(s)) \in Nat /\ UnitSum(G) <= UnitSum(Pledged(s))
      <3> HIDE DEF G
      <3> QED
        BY <2>1, <2>2, UnitsLess DEF SoldInv
    <2>4. GrantedTo(s) = UnitSum(G) /\ Refunded(s) = UnitSum(Repaid(s))
      BY DEF GrantedTo, Refunded, Repaid
    <2>5. UnitSum(Repaid(s)) \in Nat /\ total[s] \in Nat /\ InitialBalance[s] \in Nat
      BY FS_CardinalityType, BalanceAssumption DEF SoldInv, UnitSum, TypeInv, TypeOK
    <2> QED
      BY <2>3, <2>4, <2>5 DEF SoldInv
  <1> QED
    BY <1>1, <1>2, InitSold, TypeInvariance, PathInvariance, PTL DEF Spec

-----------------------------------------------------------------------------
(***************************************************************************)
(* Orderly clients.  A TERMINATE that finds its session finds the quantum   *)
(* that the INITIAL before it was granted, and is the only call that        *)
(* settles it; so the reserve of an account is what its unsettled sessions  *)
(* hold and what terminations are about to clear (ReserveInv), and every    *)
(* release takes exactly its quota off the reserve.                         *)
(***************************************************************************)
\* A call that has opened a session, and been answered.
Opened(d) ==
    /\ pc[d] = "done" /\ req[d].type # TERMINATE
    /\ answer[d].code = DIAMETER_SUCCESS

\* Call c is the TERMINATE of d's session; it has deleted the session; a
\* TERMINATE has given the refund of d's session.
Terminates(c, d) ==
    c # d /\ pc[c] # "idle" /\ req[c].type = TERMINATE /\ req[c].sess = req[d].sess
Closed(c)  == pc[c] = "done" /\ answer[c].code = DIAMETER_SUCCESS
Settles(c) == Closed(c) \/ pc[c] \in {"loadRelease", "casRelease", "deleteSession"}
Settled(d) == \E c \in Calls : Terminates(c, d) /\ Settles(c)

\* A dispatched call carries a request its client could send, in its turn.
Origin ==
    \A c \in Calls : pc[c] # "idle" =>
        req[c] \in Offer[c] /\ \A d \in After[c] : pc[d] = "done"

\* A stored session holds what an answered call was granted, and a TERMINATE past
\* its lookup has found that.
Stored ==
    \A x \in Sessions : sessions[x] # NoSession =>
        \E d \in Calls : Opened(d) /\ req[d].sess = x /\ amount[d] = sessions[x]
Found ==
    \A c \in Calls : pc[c] \in Releasing =>
        \E d \in Calls : Opened(d) /\ req[d].sess = req[c].sess /\ amount[d] = amount[c]

\* Only a TERMINATE removes a session.
Kept ==
    \A d \in Calls : Opened(d) =>
        /\ req[d].sess \in Sessions
        /\ \/ sessions[req[d].sess] # NoSession
           \/ \E c \in Calls : Terminates(c, d) /\ Closed(c)

SessionInv == Origin /\ Stored /\ Found /\ Kept

\* The account has traffic that charges by UPDATE.
Updating(s) == \E e \in Calls : \E p \in Offer[e] : p.type = UPDATE /\ p.sub = s

\* The quanta in the reserve whose session has not been settled.
Reserving(d) == pc[d] = "storeSession" \/ Opened(d)
Unsettled(s) ==
    [d \in Calls |-> IF req[d].sub = s /\ Reserving(d) /\ ~Settled(d)
                       THEN amount[d] ELSE 0]
ReserveOf(s) ==
    IF Updating(s)
      THEN /\ settling[s] = 0
           /\ reserved[s] # 0 => \E d \in Calls : req[d].sub = s /\ Reserving(d)
      ELSE /\ IsFiniteSet(Units(Unsettled(s)))
           /\ reserved[s] = settling[s] + UnitSum(Unsettled(s))
ReserveInv == \A s \in Accounts : ReserveOf(s)

\* What the hypothesis says of a TERMINATE and the call whose session it names.
LEMMA Pair ==
    ASSUME OrderlyTerminations, TypeInv, Origin, NEW c \in Calls, NEW d \in Calls,
           Terminates(c, d), pc[d] # "idle"
    PROVE  /\ req[d].type = INITIAL /\ req[d].sub = req[c].sub /\ pc[d] = "done"
           /\ ~Updating(req[c].sub)
           /\ \A e \in Calls \ {c, d} : pc[e] # "idle" => req[e].sess # req[c].sess
  <1>1. req[c] \in Offer[c] /\ req[d] \in Offer[d] /\ c # d
        /\ req[c].type = TERMINATE /\ req[c].sess = req[d].sess
    BY DEF Origin, Terminates
  <1>2. /\ req[d].type = INITIAL /\ req[d].sub = req[c].sub /\ d \in After[c]
        /\ \A e \in Calls \ {c, d} : \A p \in Offer[e] : p.sess # req[c].sess
        /\ \A e \in Calls : \A p \in Offer[e] : p.type = UPDATE => p.sub # req[c].sub
    BY <1>1 DEF OrderlyTerminations
  <1> QED
    BY <1>1, <1>2 DEF Origin, Terminates, Updating

\* A TERMINATE past its lookup has its pair.
LEMMA PairFound ==
    ASSUME OrderlyTerminations, TypeInv, PathInv, SessionInv, NEW c \in Calls,
           pc[c] \in Releasing
    PROVE  \E d \in Calls :
              /\ Terminates(c, d) /\ Opened(d) /\ amount[d] = amount[c]
              /\ req[d].sub = req[c].sub /\ ~Updating(req[c].sub)
              /\ \A e \in Calls \ {c, d} : pc[e] # "idle" => req[e].sess # req[c].sess
  <1>1. PICK d \in Calls : Opened(d) /\ req[d].sess = req[c].sess /\ amount[d] = amount[c]
    BY DEF SessionInv, Found
  <1>2. Terminates(c, d)
    BY <1>1 DEF Opened, Releasing, Terminates, PathInv, PathOf
  <1>3. pc[d] # "idle"
    BY <1>1 DEF Opened
  <1> QED
    BY <1>1, <1>2, <1>3, Pair DEF SessionInv

\* An answered call stays as it is.
LEMMA DoneStays ==
    ASSUME TypeInv, [Next]_vars, NEW d \in Calls, pc[d] = "done"
    PROVE  UNCHANGED <<pc[d], req[d], amount[d], answer[d]>>
  <1>1. CASE UNCHANGED vars
    BY <1>1 DEF vars
  <1>2. ASSUME NEW c \in Calls, CallStep(c)
        PROVE  UNCHANGED <<pc[d], req[d], amount[d], answer[d]>>
    <2>1. c # d
      BY <1>2, RunKept, DispatchKept DEF CallStep
    <2> QED
      BY <1>2, <2>1, OthersKept
  <1> QED
    BY <1>1, <1>2 DEF Next, CallStep

LEMMA InitSession == Init => SessionInv
  BY DEF Init, SessionInv, Origin, Stored, Found, Kept, Opened, Releasing

LEMMA NextOrigin ==
    ASSUME TypeInv, Origin, [Next]_vars
    PROVE  Origin'
  <1> SUFFICES ASSUME NEW e \in Calls, pc'[e] # "idle"
               PROVE  req'[e] \in Offer[e] /\ \A d \in After[e] : pc'[d] = "done"
    BY DEF Origin
  <1>1. After[e] \subseteq Calls
    BY AfterAssumption
  <1>2. CASE pc[e] # "idle" /\ req'[e] = req[e]
    BY <1>1, <1>2, DoneStays DEF Origin
  <1>3. CASE \E r \in Offer[e] : Dispatch(e, r)
    BY <1>1, <1>3, DispatchKept, DoneStays
  <1>4. CASE UNCHANGED vars
    BY <1>2, <1>4 DEF vars
  <1>5. ASSUME NEW c \in Calls, CallStep(c), c # e
        PROVE  pc[e] # "idle" /\ req'[e] = req[e]
    BY <1>5, OthersKept
  <1>6. CASE Run(e)
    BY <1>2, <1>6, RunKept
  <1> QED
    BY <1>2, <1>3, <1>4, <1>5, <1>6 DEF Next, CallStep

\* The steps that leave the sessions alone.
LEMMA Plain ==
    ASSUME TypeInv, PathInv, NEW c \in Calls, CallStep(c),
           ~StoreSession(c), ~LoadSession(c), ~DeleteSession(c)
    PROVE  /\ sessions' = sessions /\ ~Opened(c)'
           /\ pc'[c] \in Releasing => /\ pc[c] \in Releasing
                                      /\ UNCHANGED <<req[c], amount[c]>>
  <1> USE DEF TypeInv, TypeOK, At, Goto, Return, counters, history, Releasing,
              Opened, DIAMETER_CREDIT_LIMIT_REACHED, DIAMETER_SUCCESS
  <1>1. CASE \E r \in Offer[c] : Dispatch(c, r)
    BY <1>1, DispatchKept
  <1>2. CASE LoadReserved(c) \/ CasReserved(c) \/ CasReservedFails(c)
    BY <1>2 DEF LoadReserved, CasReserved, CasReservedFails
  <1>3. CASE LoadTotal(c) \/ LoadTotalEmpty(c) \/ CasTotal(c) \/ CasTotalFails(c)
    BY <1>3 DEF LoadTotal, LoadTotalEmpty, CasTotal, CasTotalFails
  <1>4. CASE AddReserved(c) \/ LoadSessionMissing(c) \/ Refund(c)
    BY <1>4 DEF AddReserved, LoadSessionMissing, Refund
  <1>5. CASE LoadRelease(c) \/ CasRelease(c) \/ CasReleaseFails(c)
    BY <1>5 DEF LoadRelease, CasRelease, CasReleaseFails
  <1> QED
    BY <1>1, <1>2, <1>3, <1>4, <1>5 DEF CallStep, Run

\* Any step: the processes stutter, or one call takes a step.
LEMMA AnyStep == [Next]_vars <=> UNCHANGED vars \/ \E c \in Calls : CallStep(c)
  BY DEF Next, CallStep

LEMMA OpenedStays ==
    ASSUME TypeInv, [Next]_vars, NEW d \in Calls, Opened(d)
    PROVE  Opened(d)' /\ UNCHANGED <<pc[d], req[d], amount[d], answer[d]>>
  BY DoneStays DEF Opened

LEMMA NextStored ==
    ASSUME TypeInv, PathInv, Stored, [Next]_vars
    PROVE  Stored'
  <1> USE DEF TypeInv, TypeOK, At, Goto, Return
  <1> SUFFICES ASSUME NEW x \in Sessions, sessions'[x] # NoSession
               PROVE  \E d \in Calls : /\ Opened(d)' /\ req'[d].sess = x
                                       /\ amount'[d] = sessions'[x]
    BY DEF Stored
  <1>1. CASE sessions'[x] = sessions[x]
    <2>1. PICK d \in Calls : Opened(d) /\ req[d].sess = x /\ amount[d] = sessions[x]
      BY <1>1 DEF Stored
    <2> QED
      BY <1>1, <2>1, OpenedStays
  <1>2. ASSUME NEW c \in Calls, StoreSession(c), sessions'[x] # sessions[x]
        PROVE  \E d \in Calls : Opened(d)' /\ req'[d].sess = x /\ amount'[d] = sessions'[x]
    <2>1. x = req[c].sess /\ sessions'[x] = amount[c] /\ UNCHANGED <<req, amount>>
      BY <1>2 DEF StoreSession
    <2>2. Opened(c)'
      BY <1>2 DEF StoreSession, Opened, PathInv, PathOf, Granting, INITIAL, UPDATE,
             TERMINATE, DIAMETER_SUCCESS
    <2> QED
      BY <2>1, <2>2
  <1>3. ASSUME NEW c \in Calls, DeleteSession(c) PROVE sessions'[x] = sessions[x]
    BY <1>3 DEF DeleteSession
  <1>4. ASSUME NEW c \in Calls, LoadSession(c) PROVE sessions'[x] = sessions[x]
    BY <1>4 DEF LoadSession
  <1>5. CASE UNCHANGED vars
    BY <1>1, <1>5 DEF vars
  <1> QED
    BY <1>1, <1>2, <1>3, <1>4, <1>5, Plain, AnyStep

LEMMA NextFound ==
    ASSUME TypeInv, PathInv, SessionInv, [Next]_vars
    PROVE  Found'
  <1> USE DEF TypeInv, TypeOK, At, Goto, Return
  <1> DEFINE Goal(c) == \E d \in Calls : /\ Opened(d)' /\ req'[d].sess = req'[c].sess
                                         /\ amount'[d] = amount'[c]
  <1> SUFFICES ASSUME NEW c \in Calls, pc'[c] \in Releasing PROVE Goal(c)
    BY DEF Found
  <1>1. CASE pc[c] \in Releasing /\ UNCHANGED <<req[c], amount[c]>>
    <2>1. PICK d \in Calls : Opened(d) /\ req[d].sess = req[c].sess /\ amount[d] = amount[c]
      BY <1>1 DEF SessionInv, Found
    <2> QED
      BY <1>1, <2>1, OpenedStays
  <1>2. CASE UNCHANGED vars
    BY <1>1, <1>2 DEF vars
  <1>3. ASSUME NEW e \in Calls, CallStep(e), e # c PROVE Goal(c)
    BY <1>1, <1>3, OthersKept
  <1>4. CASE LoadSession(c)
    <2>1. /\ sessions[req[c].sess] # NoSession /\ amount'[c] = sessions[req[c].sess]
          /\ req' = req /\ req[c].sess \in Sessions
      BY <1>4 DEF LoadSession, Routed
    <2>2. PICK d \in Calls : Opened(d) /\ req[d].sess = req[c].sess
                             /\ amount[d] = sessions[req[c].sess]
      BY <2>1 DEF SessionInv, Stored
    <2> QED
      BY <2>1, <2>2, OpenedStays
  <1>5. CASE StoreSession(c) \/ DeleteSession(c)
    BY <1>5 DEF StoreSession, DeleteSession, Releasing
  <1>6. CASE CallStep(c)
    BY <1>1, <1>4, <1>5, <1>6, Plain
  <1> QED
    BY <1>2, <1>3, <1>6, AnyStep

LEMMA NextKept ==
    ASSUME TypeInv, PathInv, SessionInv, [Next]_vars
    PROVE  Kept'
  <1> USE DEF TypeInv, TypeOK, At, Goto, Return
  <1> DEFINE Goal(d) == /\ req'[d].sess \in Sessions
                        /\ \/ sessions'[req'[d].sess] # NoSession
                           \/ \E c \in Calls : Terminates(c, d)' /\ Closed(c)'
  <1> SUFFICES ASSUME NEW d \in Calls, Opened(d)' PROVE Goal(d)
    BY DEF Kept
  <1>1. CASE StoreSession(d)
    <2>1. req[d].sess \in Sessions /\ amount[d] \in Nat
      BY <1>1 DEF StoreSession, Routed
    <2> QED
      BY <1>1, <2>1, NoSessionAssumption DEF StoreSession
  <1>2. ASSUME Opened(d), req[d].sess \in Sessions,
               NEW c \in Calls, Terminates(c, d), Closed(c)
        PROVE  Goal(d)
    BY <1>2, OpenedStays, DoneStays DEF Closed, Terminates
  <1>3. ASSUME Opened(d), req[d].sess \in Sessions, sessions[req[d].sess] # NoSession
        PROVE  Goal(d)
    <2>1. UNCHANGED <<pc[d], req[d]>> /\ pc[d] = "done"
      BY <1>3, OpenedStays DEF Opened
    <2>2. CASE sessions' = sessions
      BY <1>3, <2>1, <2>2
    <2>3. ASSUME NEW c \in Calls, StoreSession(c) PROVE Goal(d)
      <3>1. amount[c] # NoSession /\ req[c].sess \in Sessions
        BY <2>3, NoSessionAssumption DEF StoreSession, Routed
      <3> QED
        BY <1>3, <2>1, <2>3, <3>1 DEF StoreSession
    <2>4. ASSUME NEW c \in Calls, DeleteSession(c) PROVE Goal(d)
      <3>1. CASE req[c].sess = req[d].sess
        <4>1. c # d /\ req' = req /\ pc'[c] = "done" /\ req[c].type = TERMINATE
              /\ answer'[c].code = DIAMETER_SUCCESS
          BY <2>1, <2>4 DEF DeleteSession, PathInv, PathOf, Releasing
        <4> QED
          BY <1>3, <3>1, <4>1 DEF Terminates, Closed
      <3>2. CASE req[c].sess # req[d].sess
        BY <1>3, <2>1, <2>4, <3>2 DEF DeleteSession
      <3> QED
        BY <3>1, <3>2
    <2>5. ASSUME NEW c \in Calls, LoadSession(c) PROVE sessions' = sessions
      BY <2>5 DEF LoadSession
    <2>6. UNCHANGED vars => sessions' = sessions
      BY DEF vars
    <2> QED
      BY <2>2, <2>3, <2>4, <2>5, <2>6, Plain, AnyStep
  <1>4. CASE Opened(d)
    BY <1>2, <1>3, <1>4 DEF SessionInv, Kept
  <1>5. CASE ~Opened(d) /\ ~StoreSession(d)
    <2>1. ~UNCHANGED vars
      BY <1>5 DEF vars, Opened
    <2>2. ASSUME NEW c \in Calls, CallStep(c), c # d PROVE FALSE
      BY <1>5, <2>2, OthersKept DEF Opened
    <2>3. ~LoadSession(d) /\ ~DeleteSession(d)
      BY DEF LoadSession, DeleteSession, Opened, PathInv, PathOf, Releasing
    <2>4. ~CallStep(d)
      BY <1>5, <2>3, Plain
    <2> QED
      BY <2>1, <2>2, <2>4, AnyStep
  <1> QED
    BY <1>1, <1>4, <1>5

LEMMA NextSession ==
    ASSUME TypeInv, PathInv, SessionInv, [Next]_vars
    PROVE  SessionInv'
  BY NextOrigin, NextStored, NextFound, NextKept DEF SessionInv

LEMMA SessionInvariance == Spec => []SessionInv
  <1>1. TypeInv /\ PathInv /\ SessionInv /\ [Next]_vars => SessionInv'
    BY NextSession
  <1> QED
    BY <1>1, InitSession, TypeInvariance, PathInvariance, PTL DEF Spec

-----------------------------------------------------------------------------
LEMMA UnsettledType ==
    ASSUME amount \in [Calls -> Nat], NEW s
    PROVE  Unsettled(s) \in [Calls -> Nat]
  BY DEF Unsettled

LEMMA UnsettledTypeNext ==
    ASSUME amount' \in [Calls -> Nat], NEW s
    PROVE  Unsettled(s)' \in [Calls -> Nat]
  BY DEF Unsettled

\* Only a refund settles a session.
LEMMA SettledKept ==
    ASSUME TypeInv, PathInv, NEW c \in Calls, CallStep(c), ~Refund(c),
           NEW d \in Calls, Run(c) \/ c # d
    PROVE  Settled(d)' <=> Settled(d)
  <1> USE DEF TypeInv, TypeOK, At, Goto, Return
  <1>1. req'[d] = req[d]
    BY OthersKept, RunKept
  <1>2. ASSUME NEW e \in Calls, e # c
        PROVE  (Terminates(e, d) /\ Settles(e))' <=> Terminates(e, d) /\ Settles(e)
    BY <1>1, <1>2, OthersKept DEF Terminates, Settles, Closed
  <1>3. (Terminates(c, d) /\ Settles(c))' <=> Terminates(c, d) /\ Settles(c)
    <2> USE DEF Terminates, Settles, Closed, PathInv, PathOf, Granting, Releasing,
                DIAMETER_CREDIT_LIMIT_REACHED, DIAMETER_SUCCESS
    <2>1. CASE \E r \in Offer[c] : Dispatch(c, r)
      BY <2>1, DispatchKept
    <2>2. CASE LoadReserved(c) \/ CasReserved(c) \/ CasReservedFails(c)
      BY <2>2 DEF LoadReserved, CasReserved, CasReservedFails
    <2>3. CASE LoadTotal(c) \/ LoadTotalEmpty(c) \/ CasTotal(c) \/ CasTotalFails(c)
      BY <2>3 DEF LoadTotal, LoadTotalEmpty, CasTotal, CasTotalFails
    <2>4. CASE AddReserved(c) \/ StoreSession(c)
      BY <2>4 DEF AddReserved, StoreSession, INITIAL, UPDATE, TERMINATE
    <2>5. CASE LoadSession(c) \/ LoadSessionMissing(c)
      BY <2>5 DEF LoadSession, LoadSessionMissing
    <2>6. CASE LoadRelease(c) \/ CasRelease(c) \/ CasReleaseFails(c) \/ DeleteSession(c)
      BY <1>1, <2>6 DEF LoadRelease, CasRelease, CasReleaseFails, DeleteSession
    <2> QED
      BY <2>1, <2>2, <2>3, <2>4, <2>5, <2>6 DEF CallStep, Run
  <1> QED
    BY <1>2, <1>3 DEF Settled

\* No quantum enters or leaves the reserve but by AddReserved.
LEMMA ReservingKept ==
    ASSUME TypeInv, PathInv, NEW c \in Calls, CallStep(c), ~AddReserved(c)
    PROVE  /\ Reserving(c)' <=> Reserving(c)
           /\ Reserving(c) => UNCHANGED <<req[c], amount[c]>>
  <1> USE DEF TypeInv, TypeOK, At, Goto, Return, Reserving, Opened, PathInv, PathOf, Granting,
              Releasing, DIAMETER_CREDIT_LIMIT_REACHED, DIAMETER_SUCCESS
  <1>1. CASE \E r \in Offer[c] : Dispatch(c, r)
    BY <1>1, DispatchKept
  <1>2. CASE LoadReserved(c) \/ CasReserved(c) \/ CasReservedFails(c)
    BY <1>2 DEF LoadReserved, CasReserved, CasReservedFails
  <1>3. CASE LoadTotal(c) \/ LoadTotalEmpty(c) \/ CasTotal(c) \/ CasTotalFails(c)
    BY <1>3 DEF LoadTotal, LoadTotalEmpty, CasTotal, CasTotalFails
  <1>4. CASE StoreSession(c)
    BY <1>4 DEF StoreSession, INITIAL, UPDATE, TERMINATE
  <1>5. CASE LoadSession(c) \/ LoadSessionMissing(c) \/ Refund(c)
    BY <1>5 DEF LoadSession, LoadSessionMissing, Refund
  <1>6. CASE LoadRelease(c) \/ CasRelease(c) \/ CasReleaseFails(c) \/ DeleteSession(c)
    BY <1>6 DEF LoadRelease, CasRelease, CasReleaseFails, DeleteSession
  <1> QED
    BY <1>1, <1>2, <1>3, <1>4, <1>5, <1>6 DEF CallStep, Run

LEMMA OthersUnsettled ==
    ASSUME TypeInv, PathInv, NEW c \in Calls, CallStep(c), ~Refund(c),
           NEW d \in Calls \ {c}, NEW s
    PROVE  Unsettled(s)'[d] = Unsettled(s)[d]
  <1>1. Settled(d)' <=> Settled(d)
    BY SettledKept
  <1>2. UNCHANGED <<pc[d], req[d], amount[d], answer[d]>>
    BY OthersKept
  <1> QED
    BY <1>1, <1>2 DEF Unsettled, Reserving, Opened

\* The step settles the quantum of d, which call c has looked up, and no other.
SettlesOf(c, d) ==
    \A s : /\ \A e \in Calls \ {d} : Unsettled(s)'[e] = Unsettled(s)[e]
           /\ req[c].sub = s => Unsettled(s)[d] = amount[c] /\ Unsettled(s)'[d] = 0
           /\ req[c].sub # s => Unsettled(s)' = Unsettled(s)

\* A termination at its refund: its session's quantum is unsettled until now.
LEMMA RefundSettles ==
    ASSUME OrderlyTerminations, TypeInv, PathInv, SessionInv, NEW c \in Calls, Refund(c)
    PROVE  /\ ~Updating(req[c].sub)
           /\ \E d \in Calls : SettlesOf(c, d)
  <1> USE DEF TypeInv, TypeOK, At, Goto, Return
  <1>1. /\ pc[c] = "refund" /\ pc'[c] = "loadRelease" /\ UNCHANGED <<req, amount, answer>>
        /\ \A e \in Calls \ {c} : pc'[e] = pc[e]
    BY DEF Refund
  <1>2. PICK d \in Calls :
              /\ Terminates(c, d) /\ Opened(d) /\ amount[d] = amount[c]
              /\ req[d].sub = req[c].sub /\ ~Updating(req[c].sub)
              /\ \A e \in Calls \ {c, d} : pc[e] # "idle" => req[e].sess # req[c].sess
    BY <1>1, PairFound DEF Releasing
  <1>3. ~Settled(d) /\ Settled(d)'
    <2>1. ASSUME NEW e \in Calls, Terminates(e, d), Settles(e) PROVE FALSE
      BY <1>1, <1>2, <2>1 DEF Terminates, Settles, Closed
    <2>2. Terminates(c, d)' /\ Settles(c)'
      BY <1>1, <1>2 DEF Terminates, Settles
    <2> QED
      BY <2>1, <2>2 DEF Settled
  <1>4. Opened(d)'
    BY <1>1, <1>2 DEF Opened
  <1>5. ASSUME NEW e \in Calls \ {d}
        PROVE  \/ ~Reserving(e) /\ ~Reserving(e)'
               \/ (Reserving(e)' <=> Reserving(e)) /\ (Settled(e)' <=> Settled(e))
    <2>1. CASE e = c
      BY <1>1, <2>1 DEF Reserving, Opened
    <2>2. CASE e # c /\ pc[e] = "idle"
      BY <1>1, <2>2 DEF Reserving, Opened
    <2>3. CASE e # c /\ pc[e] # "idle"
      <3>1. ~Terminates(c, e) /\ ~Terminates(c, e)'
        BY <1>1, <1>2, <2>3 DEF Terminates
      <3>2. \A b \in Calls \ {c} :
               (Terminates(b, e) /\ Settles(b))' <=> Terminates(b, e) /\ Settles(b)
        BY <1>1 DEF Terminates, Settles, Closed
      <3>3. Settled(e)' <=> Settled(e)
        BY <3>1, <3>2 DEF Settled
      <3> QED
        BY <1>1, <2>3, <3>3 DEF Reserving, Opened
    <2> QED
      BY <2>1, <2>2, <2>3
  <1>6. \A s : \A e \in Calls \ {d} : Unsettled(s)'[e] = Unsettled(s)[e]
    BY <1>1, <1>5 DEF Unsettled
  <1>7. ASSUME NEW s, req[c].sub = s
        PROVE  Unsettled(s)[d] = amount[c] /\ Unsettled(s)'[d] = 0
    BY <1>7, <1>1, <1>2, <1>3, <1>4 DEF Unsettled, Reserving
  <1>8. ASSUME NEW s, req[c].sub # s PROVE Unsettled(s)' = Unsettled(s)
    <2>1. Unsettled(s)[d] = 0 /\ Unsettled(s)'[d] = 0
      BY <1>1, <1>2, <1>8 DEF Unsettled
    <2>2. \A e \in Calls : Unsettled(s)'[e] = Unsettled(s)[e]
      BY <1>6, <2>1
    <2> QED
      BY <2>2 DEF Unsettled
  <1> QED
    BY <1>2, <1>6, <1>7, <1>8 DEF SettlesOf

\* A termination between refund and CAS: the reserve covers its quota.
LEMMA ReserveCovers ==
    ASSUME OrderlyTerminations, TypeInv, PathInv, SessionInv, TransitInv, ReserveInv,
           NEW c \in Calls, pc[c] \in {"loadRelease", "casRelease"}
    PROVE  ~Updating(req[c].sub) /\ amount[c] <= reserved[req[c].sub]
  <1> DEFINE s == req[c].sub
  <1>1. ~Updating(s)
    BY PairFound DEF Releasing
  <1>2. s \in Accounts
    BY DEF TypeInv, Routed
  <1>3. SettlingOf(s) \in [Calls -> Nat] /\ SettlingOf(s)[c] = amount[c]
    BY TransitType DEF TypeInv, TypeOK, SettlingOf
  <1>4. amount[c] <= settling[s]
    <2> HIDE DEF s
    <2> QED
      BY <1>2, <1>3, UnitsAddend DEF TransitInv, InTransit
  <1>5. /\ settling[s] \in Nat /\ UnitSum(Unsettled(s)) \in Nat /\ amount[c] \in Nat
        /\ reserved[s] = settling[s] + UnitSum(Unsettled(s))
    BY <1>1, <1>2, TransitNat, FS_CardinalityType
       DEF ReserveInv, ReserveOf, UnitSum, TypeInv, TypeOK
  <1> HIDE DEF s
  <1>6. amount[c] <= reserved[s]
    BY <1>4, <1>5
  <1> QED
    BY <1>1, <1>6 DEF s

LEMMA InitReserve == Init => ReserveInv
  <1> SUFFICES ASSUME Init, NEW s \in Accounts PROVE ReserveOf(s)
    BY DEF ReserveInv
  <1>1. Units(Unsettled(s)) = {}
    <2>1. \A c \in Calls : Unsettled(s)[c] = 0
      BY DEF Init, Unsettled, Reserving, Opened
    <2>2. Unsettled(s) \in [Calls -> Nat]
      BY InitTypeInv, UnsettledType DEF TypeInv, TypeOK
    <2> QED
      BY <2>1, <2>2, UnitsOf
  <1>2. reserved[s] = 0 /\ settling[s] = 0
    BY DEF Init
  <1> QED
    BY <1>1, <1>2, FS_EmptySet DEF ReserveOf, UnitSum

\* An account with UPDATEs: nothing is being settled, and the reserve is not left
\* without a session.
LEMMA NextUpdating ==
    ASSUME OrderlyTerminations, TypeInv, TypeInv', PathInv, SessionInv, TransitInv,
           ReserveInv, [Next]_vars, NEW s \in Accounts, Updating(s)
    PROVE  ReserveOf(s)'
  <1> USE DEF TypeInv, TypeOK, Routed, At, Goto, Return, counters, history
  <1>1. settling[s] = 0 /\ (reserved[s] # 0 => \E d \in Calls : req[d].sub = s /\ Reserving(d))
    BY DEF ReserveInv, ReserveOf
  <1>2. Updating(s)'
    BY DEF Updating
  <1>3. settling'[s] = 0
    <2>1. ASSUME NEW c \in Calls, Refund(c) PROVE settling'[s] = settling[s]
      <3>1. req[c].sub # s
        BY <2>1, RefundSettles
      <3> QED
        BY <2>1, <3>1 DEF Refund, Plus
    <2>2. ASSUME NEW c \in Calls, CasRelease(c) PROVE settling'[s] = settling[s]
      <3>1. req[c].sub # s
        BY <2>2, ReserveCovers DEF CasRelease
      <3> QED
        BY <2>2, <3>1 DEF CasRelease, Plus
    <2>3. ASSUME NEW c \in Calls, CallStep(c), ~Refund(c), ~CasRelease(c)
          PROVE  settling' = settling
      BY <2>3, DispatchKept DEF CallStep, Run, LoadReserved, CasReserved, CasReservedFails,
         LoadTotal, LoadTotalEmpty, CasTotal, CasTotalFails, AddReserved, StoreSession,
         LoadSession, LoadSessionMissing, LoadRelease, CasReleaseFails, DeleteSession
    <2>4. UNCHANGED vars => settling' = settling
      BY DEF vars
    <2> QED
      BY <1>1, <2>1, <2>2, <2>3, <2>4, AnyStep
  <1>4. ASSUME NEW d \in Calls, req[d].sub = s, Reserving(d)
        PROVE  req'[d].sub = s /\ Reserving(d)'
    <2>1. CASE UNCHANGED vars
      BY <1>4, <2>1 DEF vars, Reserving, Opened
    <2>2. ASSUME NEW c \in Calls, CallStep(c), c # d PROVE req'[d].sub = s /\ Reserving(d)'
      BY <1>4, <2>2, OthersKept DEF Reserving, Opened
    <2>3. CASE CallStep(d)
      <3>1. ~AddReserved(d)
        BY <1>4 DEF AddReserved, Reserving, Opened
      <3> QED
        BY <1>4, <2>3, <3>1, ReservingKept
    <2> QED
      BY <2>1, <2>2, <2>3, AnyStep
  <1>5. ASSUME reserved[s] = 0, reserved'[s] # 0
        PROVE  \E d \in Calls : req'[d].sub = s /\ Reserving(d)'
    <2>1. CASE UNCHANGED vars
      BY <1>5, <2>1 DEF vars
    <2>2. ASSUME NEW c \in Calls, AddReserved(c) PROVE req'[c].sub = s /\ Reserving(c)'
      <3>1. req[c].sub = s
        BY <1>5, <2>2 DEF AddReserved, Plus
      <3> QED
        BY <2>2, <3>1 DEF AddReserved, Reserving
    <2>3. ASSUME NEW c \in Calls, CasReserved(c) PROVE FALSE
      <3>1. CASE req[c].sub = s
        <4>1. seen[c] = 0 /\ req[c].used \in Nat
          BY <1>5, <2>3, <3>1 DEF CasReserved, CasSucceeds, Request
        <4>2. Least(req[c].used, 0) = 0
          BY <4>1 DEF Least
        <4> QED
          BY <1>5, <2>3, <3>1, <4>1, <4>2 DEF CasReserved, Swap
      <3>2. CASE req[c].sub # s
        BY <1>5, <2>3, <3>2 DEF CasReserved, Swap
      <3> QED
        BY <3>1, <3>2
    <2>4. ASSUME NEW c \in Calls, CasRelease(c) PROVE FALSE
      <3>1. req[c].sub # s
        BY <2>4, ReserveCovers DEF CasRelease
      <3> QED
        BY <1>5, <2>4, <3>1 DEF CasRelease, Swap
    <2>5. ASSUME NEW c \in Calls, CallStep(c), ~AddReserved(c), ~CasReserved(c), ~CasRelease(c)
          PROVE  reserved' = reserved
      BY <2>5, DispatchKept DEF CallStep, Run, LoadReserved, CasReservedFails,
         LoadTotal, LoadTotalEmpty, CasTotal, CasTotalFails, StoreSession, LoadSession,
         LoadSessionMissing, Refund, LoadRelease, CasReleaseFails, DeleteSession
    <2> QED
      BY <1>5, <2>1, <2>2, <2>3, <2>4, <2>5, AnyStep
  <1>6. reserved'[s] # 0 => \E d \in Calls : req'[d].sub = s /\ Reserving(d)'
    BY <1>1, <1>4, <1>5
  <1> QED
    BY <1>2, <1>3, <1>6 DEF ReserveOf

\* An account without: the reserve is the sum of the unsettled quanta and of what
\* terminations are about to clear.
LEMMA NextSettled ==
    ASSUME OrderlyTerminations, TypeInv, TypeInv', PathInv, SessionInv, TransitInv,
           ReserveInv, [Next]_vars, NEW s \in Accounts, ~Updating(s)
    PROVE  ReserveOf(s)'
  <1> USE DEF TypeInv, TypeOK, Routed, At, Goto, Return, counters, history
  <1> DEFINE U == Unsettled(s)
  <1>1. /\ IsFiniteSet(Units(U)) /\ UnitSum(U) \in Nat
        /\ reserved[s] = settling[s] + UnitSum(U)
        /\ reserved[s] \in Nat /\ settling[s] \in Nat
    BY TransitNat, FS_CardinalityType DEF ReserveInv, ReserveOf, UnitSum
  <1>2. U \in [Calls -> Nat] /\ U' \in [Calls -> Nat]
    BY UnsettledType, UnsettledTypeNext
  <1>3. ~Updating(s)'
    BY DEF Updating
  <1>4. ASSUME U' = U, reserved'[s] = reserved[s], settling'[s] = settling[s]
        PROVE  ReserveOf(s)'
    BY <1>1, <1>3, <1>4 DEF ReserveOf
  <1>5. ASSUME NEW c \in Calls, CallStep(c), ~Refund(c), U'[c] = U[c] PROVE U' = U
    <2>1. \A d \in Calls \ {c} : U'[d] = U[d]
      BY <1>5, OthersUnsettled
    <2> HIDE DEF U
    <2> QED
      BY <1>2, <1>5, <2>1
  <1>6. ASSUME NEW c \in Calls, CallStep(c), ~Refund(c), ~AddReserved(c) PROVE U' = U
    <2>1. U'[c] = U[c]
      <3>1. CASE Run(c)
        BY <1>6, <3>1, ReservingKept, SettledKept DEF Unsettled
      <3>2. CASE \E r \in Offer[c] : Dispatch(c, r)
        <4>1. ~Reserving(c)
          BY <3>2, DispatchKept DEF Reserving, Opened
        <4> QED
          BY <1>6, <4>1, ReservingKept DEF Unsettled
      <3> QED
        BY <1>6, <3>1, <3>2 DEF CallStep
    <2> QED
      BY <1>5, <1>6, <2>1
  <1>7. CASE UNCHANGED vars
    <2>1. U' = U
      BY <1>7 DEF vars, Unsettled, Reserving, Opened, Settled, Terminates, Settles, Closed
    <2> QED
      BY <1>4, <1>7, <2>1 DEF vars
  <1>8. ASSUME NEW c \in Calls, AddReserved(c) PROVE ReserveOf(s)'
    <2>1. /\ pc[c] = "addReserved" /\ pc'[c] = "storeSession" /\ UNCHANGED <<req, amount>>
          /\ reserved' = Plus(reserved, req[c].sub, amount[c]) /\ settling' = settling
      BY <1>8 DEF AddReserved
    <2>2. CallStep(c) /\ ~Refund(c)
      BY <1>8 DEF CallStep, Run, AddReserved, Refund
    <2>3. ~Settled(c)'
      <3>1. ~Settled(c)
        <4> SUFFICES ASSUME NEW e \in Calls, Terminates(e, c) PROVE FALSE
          BY DEF Settled
        <4>1. pc[c] = "done"
          BY <2>1, Pair DEF SessionInv
        <4> QED
          BY <2>1, <4>1
      <3> QED
        BY <1>8, <2>2, <3>1, SettledKept DEF Run
    <2>4. U[c] = 0 /\ U'[c] = IF req[c].sub = s THEN amount[c] ELSE 0
      BY <2>1, <2>3 DEF Unsettled, Reserving, Opened
    <2>5. CASE req[c].sub = s
      <3>1. \A d \in Calls \ {c} : U'[d] = U[d]
        BY <2>2, OthersUnsettled
      <3>2. reserved'[s] = reserved[s] + U'[c] /\ settling'[s] = settling[s]
        BY <2>1, <2>4, <2>5 DEF Plus
      <3> HIDE DEF U
      <3>3. IsFiniteSet(Units(U')) /\ UnitSum(U') = UnitSum(U) + U'[c]
        BY <1>1, <1>2, <2>4, <3>1, UnitsGrow
      <3>4. U'[c] \in Nat
        BY <1>2
      <3>5. reserved'[s] = settling'[s] + UnitSum(U')
        BY <1>1, <3>2, <3>3, <3>4
      <3> QED
        BY <1>3, <3>3, <3>5 DEF ReserveOf, U
    <2>6. CASE req[c].sub # s
      <3>1. U' = U
        BY <1>5, <2>2, <2>4, <2>6
      <3> QED
        BY <1>4, <2>1, <2>6, <3>1 DEF Plus
    <2> QED
      BY <2>5, <2>6
  <1>9. ASSUME NEW c \in Calls, Refund(c) PROVE ReserveOf(s)'
    <2>1. reserved' = reserved /\ settling' = Plus(settling, req[c].sub, amount[c])
      BY <1>9 DEF Refund
    <2>2. CASE req[c].sub = s
      <3>1. PICK d \in Calls : SettlesOf(c, d)
        BY <1>9, RefundSettles
      <3>2. /\ U[d] = amount[c] /\ U'[d] = 0
            /\ \A e \in Calls \ {d} : U'[e] = U[e]
        BY <2>2, <3>1 DEF SettlesOf
      <3>3. settling'[s] = settling[s] + U[d]
        BY <2>1, <2>2, <3>2 DEF Plus
      <3> HIDE DEF U
      <3>4. IsFiniteSet(Units(U')) /\ UnitSum(U) = UnitSum(U') + U[d]
        BY <1>1, <1>2, <3>2, UnitsShrink
      <3>5. UnitSum(U') \in Nat /\ U[d] \in Nat
        BY <1>2, <3>4, FS_CardinalityType DEF UnitSum
      <3>6. reserved'[s] = settling'[s] + UnitSum(U')
        BY <1>1, <2>1, <3>3, <3>4, <3>5
      <3> QED
        BY <1>3, <3>4, <3>6 DEF ReserveOf, U
    <2>3. CASE req[c].sub # s
      <3>1. U' = U
        BY <1>9, <2>3, RefundSettles DEF SettlesOf
      <3> QED
        BY <1>4, <2>1, <2>3, <3>1 DEF Plus
    <2> QED
      BY <2>2, <2>3
  <1>10. ASSUME NEW c \in Calls, CasRelease(c) PROVE ReserveOf(s)'
    <2>1. CallStep(c) /\ ~Refund(c) /\ ~AddReserved(c)
      BY <1>10 DEF CallStep, Run, CasRelease, Refund, AddReserved
    <2>2. U' = U
      BY <1>6, <2>1
    <2>3. CASE req[c].sub = s
      <3>1. amount[c] <= reserved[s] /\ amount[c] \in Nat
        BY <1>10, <2>3, ReserveCovers DEF CasRelease
      <3>2. reserved'[s] = reserved[s] - amount[c] /\ settling'[s] = settling[s] + (-amount[c])
        <4>1. seen[c] = reserved[s] /\ Least(amount[c], seen[c]) = amount[c]
          BY <1>10, <2>3, <3>1 DEF CasRelease, CasSucceeds, Least
        <4> QED
          BY <1>10, <2>3, <4>1 DEF CasRelease, Swap, Plus
      <3> HIDE DEF U
      <3>3. reserved'[s] = settling'[s] + UnitSum(U)
        BY <1>1, <3>1, <3>2
      <3> QED
        BY <1>1, <1>3, <2>2, <3>3 DEF ReserveOf, U
    <2>4. CASE req[c].sub # s
      BY <1>4, <1>10, <2>2, <2>4 DEF CasRelease, Swap, Plus
    <2> QED
      BY <2>3, <2>4
  <1>11. ASSUME NEW c \in Calls, CasReserved(c) PROVE ReserveOf(s)'
    <2>1. CallStep(c) /\ ~Refund(c) /\ ~AddReserved(c)
      BY <1>11 DEF CallStep, Run, CasReserved, Refund, AddReserved
    <2>2. req[c].sub # s
      <3>1. req[c].type = UPDATE /\ req[c] \in Offer[c]
        BY <1>11 DEF CasReserved, PathInv, PathOf, SessionInv, Origin
      <3> QED
        BY <3>1 DEF Updating
    <2> QED
      BY <1>4, <1>6, <1>11, <2>1, <2>2 DEF CasReserved, Swap
  <1>12. ASSUME NEW c \in Calls, CallStep(c), ~AddReserved(c), ~Refund(c), ~CasRelease(c),
                ~CasReserved(c)
         PROVE  ReserveOf(s)'
    <2>1. UNCHANGED <<reserved, settling>>
      BY <1>12, DispatchKept DEF CallStep, Run, LoadReserved, CasReservedFails,
         LoadTotal, LoadTotalEmpty, CasTotal, CasTotalFails, StoreSession, LoadSession,
         LoadSessionMissing, LoadRelease, CasReleaseFails, DeleteSession
    <2> QED
      BY <1>4, <1>6, <1>12, <2>1
  <1> QED
    BY <1>7, <1>8, <1>9, <1>10, <1>11, <1>12, AnyStep

LEMMA ReserveInvariance ==
    ASSUME OrderlyTerminations PROVE Spec => []ReserveInv
  <1>1. TypeInv /\ TypeInv' /\ PathInv /\ SessionInv /\ TransitInv /\ ReserveInv /\ [Next]_vars
            => ReserveInv'
    BY NextUpdating, NextSettled DEF ReserveInv
  <1> QED
    BY <1>1, InitReserve, TypeInvariance, PathInvariance, SessionInvariance,
       TransitInvariance, PTL DEF Spec

(***************************************************************************)
(* With orderly clients every release takes its whole quota off the         *)
(* reserve, so the books balance to the byte whenever anybody looks: the    *)
(* one CAS that can leave bytes over never does.                            *)
(***************************************************************************)
THEOREM CreditConservedTheorem ==
    ASSUME OrderlyTerminations PROVE Spec => []CreditConserved
  <1> DEFINE Inv == \A s \in Accounts : Net(s) = InitialBalance[s]
  <1>1. Init => Inv
    BY InitNet
  <1>2. TypeInv /\ TypeInv' /\ PathInv /\ SessionInv /\ TransitInv /\ ReserveInv /\ Inv
            /\ [Next]_vars => Inv'
    <2> SUFFICES ASSUME TypeInv, TypeInv', PathInv, SessionInv, TransitInv, ReserveInv, Inv,
                        [Next]_vars, NEW s \in Accounts
                 PROVE  Net(s)' = InitialBalance[s]
      OBVIOUS
    <2>1. Covers(s)
      BY ReserveCovers DEF Covers, At
    <2> QED
      BY <2>1, NetStep
  <1>3. TypeInv /\ Inv => CreditConserved
    BY BalanceAssumption DEF TypeInv, TypeOK, Net, Books, CreditConserved
  <1> QED
    BY <1>1, <1>2, <1>3, TypeInvariance, PathInvariance, SessionInvariance,
       TransitInvariance, ReserveInvariance, PTL DEF Spec

\* A function that is zero everywhere has no units.
LEMMA NoUnits ==
    ASSUME NEW f \in [Calls -> Nat], \A c \in Calls : f[c] = 0
    PROVE  UnitSum(f) = 0
  <1>1. Units(f) = {}
    BY UnitsOf
  <1> QED
    BY <1>1, FS_EmptySet DEF UnitSum

\* Idle, and without sessions: nothing is held.
LEMMA NothingHeld ==
    ASSUME OrderlyTerminations, TypeInv, SessionInv, TransitInv, ReserveInv,
           Quiescent, \A x \in Sessions : sessions[x] = NoSession, NEW s \in Accounts
    PROVE  inflight[s] = 0 /\ settling[s] = 0 /\ reserved[s] = 0
  <1>1. inflight[s] = 0 /\ settling[s] = 0
    <2>1. InflightOf(s) \in [Calls -> Nat] /\ SettlingOf(s) \in [Calls -> Nat]
      BY TransitType DEF TypeInv, TypeOK
    <2>2. \A c \in Calls : InflightOf(s)[c] = 0 /\ SettlingOf(s)[c] = 0
      BY DEF InflightOf, SettlingOf, Quiescent
    <2> QED
      BY <2>1, <2>2, NoUnits DEF TransitInv, InTransit
  <1>2. ASSUME NEW d \in Calls, Reserving(d)
        PROVE  Settled(d) /\ ~Updating(req[d].sub)
    <2>1. Opened(d)
      BY <1>2 DEF Reserving, Quiescent
    <2>2. sessions[req[d].sess] = NoSession
      BY <2>1 DEF SessionInv, Kept
    <2>3. PICK c \in Calls : Terminates(c, d) /\ Closed(c)
      BY <2>1, <2>2 DEF SessionInv, Kept
    <2>4. ~Updating(req[d].sub)
      BY <2>1, <2>3, Pair DEF SessionInv, Opened
    <2> QED
      BY <2>3, <2>4 DEF Settled, Settles
  <1>3. CASE Updating(s)
    BY <1>1, <1>2, <1>3 DEF ReserveInv, ReserveOf
  <1>4. CASE ~Updating(s)
    <2>1. Unsettled(s) \in [Calls -> Nat] /\ \A d \in Calls : Unsettled(s)[d] = 0
      BY <1>2, UnsettledType DEF Unsettled, TypeInv, TypeOK
    <2>2. UnitSum(Unsettled(s)) = 0
      BY <2>1, NoUnits
    <2> QED
      BY <1>1, <1>4, <2>2 DEF ReserveInv, ReserveOf
  <1> QED
    BY <1>1, <1>3, <1>4

(***************************************************************************)
(* With orderly clients, once the server is idle and every session has been *)
(* terminated, no byte is left frozen: the balance and the charges are what *)
(* the account started with.                                                *)
(***************************************************************************)
THEOREM BooksSettleTheorem ==
    ASSUME OrderlyTerminations PROVE Spec => []BooksSettle
  <1>1. TypeInv /\ SessionInv /\ TransitInv /\ ReserveInv /\ CreditConserved => BooksSettle
    <2> SUFFICES ASSUME TypeInv, SessionInv, TransitInv, ReserveInv, CreditConserved,
                        Quiescent, \A x \in Sessions : sessions[x] = NoSession,
                        NEW s \in Accounts
                 PROVE  reserved[s] = 0 /\ total[s] + charged[s] = InitialBalance[s]
      BY DEF BooksSettle
    <2>1. inflight[s] = 0 /\ settling[s] = 0 /\ reserved[s] = 0
      BY NothingHeld
    <2>2. Books(s) = InitialBalance[s] + settling[s]
      BY DEF CreditConserved
    <2> QED
      BY <2>1, <2>2, BalanceAssumption DEF Books, TypeInv, TypeOK
  <1> QED
    BY <1>1, TypeInvariance, SessionInvariance, TransitInvariance, ReserveInvariance,
       CreditConservedTheorem, PTL
-----------------------------------------------------------------------------
(***************************************************************************)
(* The refinement.  Held is the credit the ledger calls held.               *)
(***************************************************************************)
Held == [s \in Accounts |-> reserved[s] + inflight[s] - settling[s]]

LEMMA InitLedger == Init => Ledger!Init
  <1> SUFFICES ASSUME Init PROVE Ledger!Init
    OBVIOUS
  <1>1. Held = [s \in Accounts |-> 0]
    BY DEF Init, Held
  <1> QED
    BY <1>1 DEF Init, Held, Ledger!Init

LEMMA StepLedger ==
    ASSUME OrderlyTerminations, TypeInv, PathInv, SessionInv, TransitInv, ReserveInv,
           [Next]_vars
    PROVE  [Ledger!Next]_(Ledger!ledger)
  <1> USE DEF TypeInv, TypeOK, Routed, At
  <1>1. UNCHANGED <<counters, history>> => UNCHANGED Ledger!ledger
    BY DEF counters, history, Ledger!ledger
  <1>2. ASSUME NEW c \in Calls, CasReserved(c) PROVE Ledger!Next
    <2>1. PICK s \in Accounts : s = req[c].sub
      BY <1>2 DEF CasReserved
    <2>2. PICK u \in Nat : u = Least(req[c].used, seen[c]) /\ u <= reserved[s]
      BY <1>2, <2>1, LeastLemma DEF CasReserved, CasSucceeds, Request
    <2>3. inflight[s] \in Nat /\ settling[s] = 0
      <3>1. req[c].type = UPDATE /\ req[c] \in Offer[c]
        BY <1>2 DEF CasReserved, PathInv, PathOf, SessionInv, Origin
      <3> QED
        BY <2>1, <3>1, TransitNat DEF Updating, ReserveInv, ReserveOf
    <2>4. /\ reserved' = Plus(reserved, s, -u) /\ charged' = Plus(charged, s, u)
          /\ UNCHANGED <<total, inflight, settling>>
      BY <1>2, <2>1, <2>2, SwapLemma DEF CasReserved
    <2>5. u \in 0 .. Held[s]
      BY <2>2, <2>3 DEF Held
    <2>6. Held' = [Held EXCEPT ![s] = @ - u]
      <3>1. \A t \in Accounts : Held'[t] = IF t = s THEN Held[t] - u ELSE Held[t]
        BY <2>4 DEF Held, Plus
      <3> QED
        BY <3>1 DEF Held
    <2>7. charged' = [charged EXCEPT ![s] = @ + u]
      BY <2>4 DEF Plus
    <2>8. Ledger!Commit(s, u)
      BY <2>4, <2>5, <2>6, <2>7 DEF Ledger!Commit, Held
    <2> QED
      BY <2>5, <2>8 DEF Ledger!Next, Held
  <1>3. ASSUME NEW c \in Calls, CasTotal(c) PROVE Ledger!Next
    <2>1. PICK s \in Accounts : s = req[c].sub
      BY <1>3 DEF CasTotal
    <2>2. PICK g \in Nat : g = Least(req[c].used, seen[c]) /\ g <= total[s]
      BY <1>3, <2>1, LeastLemma DEF CasTotal, CasSucceeds, Request
    <2>3. /\ total' = Plus(total, s, -g) /\ inflight' = Plus(inflight, s, g)
          /\ UNCHANGED <<reserved, charged, settling>>
      BY <1>3, <2>1, <2>2, SwapLemma DEF CasTotal
    <2>4. g \in 0 .. total[s]
      BY <2>2
    <2>5. Held' = [Held EXCEPT ![s] = @ + g]
      <3>1. \A t \in Accounts : Held'[t] = IF t = s THEN Held[t] + g ELSE Held[t]
        BY <2>3 DEF Held, Plus
      <3> QED
        BY <3>1 DEF Held
    <2>6. total' = [total EXCEPT ![s] = @ - g]
      <3>1. total[s] + (-g) = total[s] - g
        OBVIOUS
      <3> QED
        BY <2>3, <3>1 DEF Plus
    <2>7. Ledger!Grant(s, g)
      BY <2>2, <2>3, <2>5, <2>6 DEF Ledger!Grant, Held
    <2> QED
      BY <2>4, <2>7 DEF Ledger!Next
  <1>4. ASSUME NEW c \in Calls, AddReserved(c) PROVE UNCHANGED Ledger!ledger
    <2>1. req[c].sub \in Accounts /\ amount[c] \in Nat
      BY <1>4 DEF AddReserved
    <2>2. Held' = Held
      BY <1>4, <2>1 DEF AddReserved, Held, Plus
    <2> QED
      BY <1>4, <2>2 DEF AddReserved, Ledger!ledger, Held
  <1>5. ASSUME NEW c \in Calls, Refund(c) PROVE Ledger!Next
    <2>1. PICK s \in Accounts : s = req[c].sub
      BY <1>5 DEF Refund
    <2>2. PICK q \in Nat, u \in Nat :
             q = amount[c] /\ u = Least(req[c].used, amount[c]) /\ u <= q
      BY <1>5, LeastLemma DEF Refund, Request
    <2>3. q <= Held[s]
      <3>1. PICK d \in Calls : SettlesOf(c, d)
        BY <1>5, RefundSettles
      <3>2. Unsettled(s)[d] = q /\ ~Updating(s)
        BY <1>5, <2>1, <2>2, <3>1, RefundSettles DEF SettlesOf
      <3>3. /\ IsFiniteSet(Units(Unsettled(s)))
            /\ reserved[s] = settling[s] + UnitSum(Unsettled(s))
        BY <3>2 DEF ReserveInv, ReserveOf
      <3>4. Unsettled(s) \in [Calls -> Nat]
        BY UnsettledType
      <3>5. q <= UnitSum(Unsettled(s)) /\ UnitSum(Unsettled(s)) \in Nat
        BY <3>2, <3>3, <3>4, UnitsAddend, FS_CardinalityType DEF UnitSum
      <3>6. inflight[s] \in Nat /\ settling[s] \in Nat
        BY TransitNat
      <3> QED
        BY <3>3, <3>5, <3>6 DEF Held
    <2>4. /\ total' = Plus(total, s, q - u) /\ charged' = Plus(charged, s, u)
          /\ settling' = Plus(settling, s, q) /\ UNCHANGED <<reserved, inflight>>
      BY <1>5, <2>1, <2>2 DEF Refund
    <2>5. Held' = [Held EXCEPT ![s] = @ - q]
      <3>1. \A t \in Accounts : Held'[t] = IF t = s THEN Held[t] - q ELSE Held[t]
        BY <2>4 DEF Held, Plus
      <3> QED
        BY <3>1 DEF Held
    <2>6. /\ total' = [total EXCEPT ![s] = @ + (q - u)]
          /\ charged' = [charged EXCEPT ![s] = @ + u]
      BY <2>4 DEF Plus
    <2>7. Ledger!Settle(s, q, u)
      BY <2>2, <2>3, <2>5, <2>6 DEF Ledger!Settle, Held
    <2>8. q \in 0 .. Held[s] /\ u \in 0 .. q
      BY <2>2, <2>3 DEF Held
    <2> QED
      BY <2>7, <2>8 DEF Ledger!Next, Held
  <1>6. ASSUME NEW c \in Calls, CasRelease(c) PROVE UNCHANGED Ledger!ledger
    <2>1. PICK s \in Accounts : s = req[c].sub
      BY <1>6 DEF CasRelease
    <2>2. PICK q \in Nat : q = amount[c] /\ q <= reserved[s]
      BY <1>6, <2>1, ReserveCovers DEF CasRelease
    <2>3. /\ reserved' = Plus(reserved, s, -q) /\ settling' = Plus(settling, s, -q)
          /\ UNCHANGED <<total, charged, inflight>>
      <3>1. Least(amount[c], seen[c]) = q
        BY <1>6, <2>1, <2>2 DEF CasRelease, CasSucceeds, Least
      <3> QED
        BY <1>6, <2>1, <2>2, <3>1, SwapLemma DEF CasRelease
    <2>4. Held' = Held
      BY <2>3 DEF Held, Plus
    <2> QED
      BY <2>3, <2>4 DEF Ledger!ledger, Held
  <1>7. ASSUME NEW c \in Calls, Run(c), ~CasReserved(c), ~CasTotal(c), ~AddReserved(c),
               ~Refund(c), ~CasRelease(c)
        PROVE  UNCHANGED <<counters, history>>
    BY <1>7 DEF Run, LoadReserved, CasReservedFails, LoadTotal, LoadTotalEmpty,
       CasTotalFails, StoreSession, LoadSession, LoadSessionMissing,
       LoadRelease, CasReleaseFails, DeleteSession
  <1>8. ASSUME NEW c \in Calls, NEW r \in Offer[c], Dispatch(c, r)
        PROVE  UNCHANGED <<counters, history>>
    BY <1>8 DEF Dispatch
  <1>9. UNCHANGED vars => UNCHANGED <<counters, history>>
    BY DEF vars
  <1> QED
    BY <1>1, <1>2, <1>3, <1>4, <1>5, <1>6, <1>7, <1>8, <1>9 DEF Next

(***************************************************************************)
(* For orderly clients the lock-free server implements the ledger: every    *)
(* interleaving of the atomic steps of its goroutines is a sequence of      *)
(* indivisible grants, commits and settlements.                             *)
(***************************************************************************)
THEOREM LedgerRefinement ==
    ASSUME OrderlyTerminations PROVE Spec => LedgerSpec
  <1>1. TypeInv /\ PathInv /\ SessionInv /\ TransitInv /\ ReserveInv /\ [Next]_vars
            => [Ledger!Next]_(Ledger!ledger)
    BY StepLedger
  <1> QED
    BY <1>1, InitLedger, TypeInvariance, PathInvariance, SessionInvariance,
       TransitInvariance, ReserveInvariance, PTL DEF Spec, LedgerSpec, Ledger!Spec
-----------------------------------------------------------------------------
(***************************************************************************)
(* Linearizability.  What a client is told was decided before: an answer    *)
(* is given at the end only, tells what was granted, and a reservation that *)
(* reaches its CAS has seen credit.                                         *)
(***************************************************************************)
AnswerOf(c) ==
    /\ pc[c] = "idle" => req[c] = NoRequest
    /\ pc[c] # "done" => answer[c] = NoAnswer
    /\ pc[c] = "casTotal" => seen[c] > 0
    /\ pc[c] = "done" => answer[c] # NoAnswer
    /\ Opened(c) => /\ answer[c].granted = amount[c]
                    /\ req[c].type \in {INITIAL, UPDATE}
AnswerInv == \A c \in Calls : AnswerOf(c)

LEMMA InitAnswer == Init => AnswerInv
  BY DEF Init, AnswerInv, AnswerOf, Opened

LEMMA NextAnswer ==
    ASSUME TypeInv, PathInv, AnswerInv, [Next]_vars
    PROVE  AnswerInv'
  <1> USE DEF TypeInv, TypeOK, At, Goto, Return, counters, history, AnswerOf, Opened,
              NoAnswer, DIAMETER_SUCCESS, DIAMETER_CREDIT_LIMIT_REACHED, InvalidArgument
  <1>1. CASE UNCHANGED vars
    BY <1>1 DEF vars, AnswerInv
  <1>2. ASSUME NEW c \in Calls, CallStep(c), AnswerOf(c)' PROVE AnswerInv'
    <2>1. \A d \in Calls \ {c} : AnswerOf(d)'
      BY <1>2, OthersKept DEF AnswerInv
    <2> QED
      BY <1>2, <2>1 DEF AnswerInv
  <1>3. ASSUME NEW c \in Calls, CallStep(c) PROVE AnswerOf(c)'
    <2>0. AnswerOf(c)
      BY DEF AnswerInv
    <2>1. CASE \E r \in Offer[c] : Dispatch(c, r)
      <3>1. PICK r \in Offer[c] : Dispatch(c, r)
        BY <2>1
      <3>2. CASE At(c, "done")'
        <4>1. answer'[c].code # 0 /\ answer'[c].granted = 0
              /\ answer'[c].code # DIAMETER_SUCCESS
          <5>1. Malformed(r) \/ r.sub \notin Accounts
            BY <3>1, <3>2, DispatchKept DEF Dispatch, Malformed, Entry
          <5> QED
            BY <3>1, <5>1 DEF Dispatch
        <4> QED
          BY <3>2, <4>1
      <3>3. CASE ~At(c, "done")'
        BY <2>0, <3>1, <3>3, DispatchKept
      <3> QED
        BY <3>2, <3>3
    <2>2. CASE LoadReserved(c) \/ CasReserved(c) \/ CasReservedFails(c)
      BY <2>0, <2>2 DEF LoadReserved, CasReserved, CasReservedFails
    <2>3. CASE LoadTotal(c)
      <3>1. req[c].sub \in Accounts
        BY <2>3 DEF LoadTotal, Routed
      <3> QED
        BY <2>0, <2>3, <3>1 DEF LoadTotal
    <2>4. CASE LoadTotalEmpty(c) \/ CasTotal(c) \/ CasTotalFails(c)
      BY <2>0, <2>4 DEF LoadTotalEmpty, CasTotal, CasTotalFails
    <2>5. CASE AddReserved(c) \/ StoreSession(c)
      BY <2>0, <2>5 DEF AddReserved, StoreSession, PathInv, PathOf, Granting
    <2>6. CASE LoadSession(c) \/ LoadSessionMissing(c) \/ Refund(c)
      BY <2>0, <2>6 DEF LoadSession, LoadSessionMissing, Refund
    <2>7. CASE LoadRelease(c) \/ CasRelease(c) \/ CasReleaseFails(c)
      BY <2>0, <2>7 DEF LoadRelease, CasRelease, CasReleaseFails
    <2>8. CASE DeleteSession(c)
      BY <2>0, <2>8 DEF DeleteSession, PathInv, PathOf, Releasing
    <2> QED
      BY <1>3, <2>1, <2>2, <2>3, <2>4, <2>5, <2>6, <2>7, <2>8 DEF CallStep, Run
  <1> QED
    BY <1>1, <1>2, <1>3, AnyStep

LEMMA AnswerInvariance == Spec => []AnswerInv
  <1>1. TypeInv /\ PathInv /\ AnswerInv /\ [Next]_vars => AnswerInv'
    BY NextAnswer
  <1> QED
    BY <1>1, InitAnswer, TypeInvariance, PathInvariance, PTL DEF Spec
\* What the service's variables stand for.
Outcomes == [c \in Calls |-> Outcome(c)]
Returned == {c \in Calls : At(c, "done")}

LEMMA InitService == Init => Service!Init
  <1> SUFFICES ASSUME Init PROVE Service!Init
    OBVIOUS
  <1>1. Outcomes = [c \in Calls |-> NoAnswer] /\ Returned = {}
    BY DEF Init, Outcomes, Outcome, Returned, At
  <1> QED
    BY <1>1 DEF Init, Outcomes, Returned, Service!Init

\* A step of a call decides nothing for the others, and answers none of them.
LEMMA OutcomeStep ==
    ASSUME TypeInv, NEW c \in Calls, CallStep(c)
    PROVE  /\ Outcomes' = [Outcomes EXCEPT ![c] = Outcome(c)']
           /\ Returned' = IF pc'[c] = "done" THEN Returned \cup {c} ELSE Returned
           /\ c \notin Returned
           /\ \A d \in Calls \ {c} : req'[d] = req[d]
  <1>1. \A d \in Calls \ {c} :
           UNCHANGED <<Outcome(d), pc[d], req[d]>>
    BY OthersKept DEF Outcome
  <1>2. pc[c] # "done"
    BY RunKept, DispatchKept DEF CallStep
  <1> QED
    BY <1>1, <1>2 DEF Outcomes, Returned, At

\* A call on its way is undecided until it reserves or refunds.
LEMMA Undecided ==
    ASSUME TypeInv, AnswerInv, NEW c \in Calls,
           pc[c] \in {"loadReserved", "casReserved", "loadTotal", "casTotal",
                      "loadSession", "refund"}
    PROVE  Outcome(c) = NoAnswer /\ req[c] # NoRequest /\ Service!Pending(c)
  <1>1. Outcome(c) = NoAnswer
    BY DEF Outcome, AnswerInv, AnswerOf
  <1>2. req[c] # NoRequest
    BY NoIdAssumption, AccountsAssumption DEF TypeInv, Routed, NoRequest
  <1> QED
    BY <1>1, <1>2 DEF Service!Pending

\* The quanta the service knows are those of the calls that opened the session.
LEMMA QuantaOpened ==
    ASSUME TypeInv, AnswerInv, NEW x, NEW q
    PROVE  q \in Service!Quanta(x)
              <=> \E d \in Calls : Opened(d) /\ req[d].sess = x /\ q = amount[d]
  <1>1. ASSUME NEW d \in Calls
        PROVE  Service!Succeeded(d) /\ Service!Charges(d) <=> Opened(d)
    BY DEF Service!Succeeded, Service!Charges, Opened, AnswerInv, AnswerOf,
           Outcome, At, INITIAL, UPDATE, TERMINATE
  <1>2. ASSUME NEW d \in Calls, Opened(d) PROVE Outcomes[d].granted = amount[d]
    BY <1>2 DEF Opened, Outcomes, Outcome, AnswerInv, AnswerOf
  <1> QED
    BY <1>1, <1>2 DEF Service!Quanta, Outcomes

LEMMA StepService ==
    ASSUME TypeInv, TypeInv', PathInv, SessionInv, AnswerInv, [Next]_vars
    PROVE  [Service!Next]_(Service!service)
  <1> USE DEF TypeInv, TypeOK, Routed, At, Goto, Return, counters, history
  <1>1. CASE UNCHANGED vars
    BY <1>1 DEF vars, Service!service, Outcome
  <1>2. ASSUME NEW c \in Calls, NEW r \in Offer[c], Dispatch(c, r) PROVE Service!Next
    <2>1. /\ CallStep(c) /\ pc[c] = "idle" /\ total' = total
          /\ req[c] = NoRequest /\ Outcome(c) = NoAnswer
      BY <1>2 DEF Dispatch, CallStep, AnswerInv, AnswerOf, Outcome
    <2>2. req' = [req EXCEPT ![c] = r]
      BY <1>2 DEF Dispatch
    <2>3. Service!Invalid(r) <=> Malformed(r)
      BY DEF Service!Invalid, Malformed
    <2>4. CASE Malformed(r) \/ r.sub \notin Accounts
      <3>1. /\ pc'[c] = "done"
            /\ Outcome(c)' = [granted |-> 0,
                  code |-> IF Malformed(r) THEN InvalidArgument
                                           ELSE DIAMETER_CREDIT_LIMIT_REACHED]
        BY <1>2, <2>4 DEF Dispatch, Outcome
      <3>2. /\ Outcomes' = [Outcomes EXCEPT ![c] = Outcome(c)']
            /\ Returned' = Returned \cup {c} /\ c \notin Returned
        BY <2>1, <3>1, OutcomeStep
      <3>3. Service!Receive(c, r)
        BY <2>1, <2>2, <2>3, <2>4, <3>1, <3>2
           DEF Service!Receive, Service!Decide, Service!Answer, Outcomes, Returned
      <3> QED
        BY <3>3 DEF Service!Next
    <2>5. CASE ~Malformed(r) /\ r.sub \in Accounts
      <3>1. pc'[c] \in {"loadTotal", "loadReserved", "loadSession"}
            /\ answer' = answer
        BY <1>2, <2>5 DEF Dispatch, Malformed, Entry
      <3>2. Outcome(c)' = Outcome(c) /\ pc'[c] # "done"
        BY <2>1, <3>1 DEF Outcome
      <3>3. Outcomes' = Outcomes /\ Returned' = Returned /\ c \notin Returned
        BY <2>1, <3>2, OutcomeStep DEF Outcomes
      <3>4. Service!Receive(c, r)
        BY <2>1, <2>2, <2>3, <2>5, <3>3 DEF Service!Receive, Outcomes, Returned
      <3> QED
        BY <3>4 DEF Service!Next
    <2> QED
      BY <2>4, <2>5
  <1>3. ASSUME NEW c \in Calls, CasTotal(c) PROVE Service!Next
    <2>1. CallStep(c) /\ pc[c] = "casTotal" /\ pc'[c] = "addReserved"
      BY <1>3 DEF CasTotal, CallStep, Run
    <2>2. PICK s \in Accounts : s = req[c].sub
      BY <2>1
    <2>3. PICK n \in Nat : n = Least(req[c].used, total[s]) /\ n = Least(req[c].used, seen[c])
      BY <1>3, <2>2, LeastLemma DEF CasTotal, CasSucceeds, Request
    <2>4. total[s] > 0 /\ req[c].type \in {INITIAL, UPDATE}
      BY <1>3, <2>1, <2>2 DEF CasTotal, CasSucceeds, AnswerInv, AnswerOf, PathInv, PathOf, Granting
    <2>5. total' = [total EXCEPT ![s] = @ - n] /\ req' = req /\ amount'[c] = n
      BY <1>3, <2>2, <2>3 DEF CasTotal, CasSucceeds, Swap
    <2>6. /\ Outcomes' = [Outcomes EXCEPT ![c] = [code |-> DIAMETER_SUCCESS, granted |-> n]]
          /\ Returned' = Returned
      BY <2>1, <2>5, OutcomeStep DEF Outcome
    <2>7. Service!Pending(c)
      BY <2>1, Undecided
    <2>8. Service!Grant(c)
      BY <2>2, <2>3, <2>4, <2>5, <2>6, <2>7
         DEF Service!Grant, Service!Charges, Service!Decide, Service!Lesser, Least,
             Outcomes, Returned
    <2> QED
      BY <2>8 DEF Service!Next
  <1>4. ASSUME NEW c \in Calls, LoadTotalEmpty(c) \/ LoadSessionMissing(c)
        PROVE  Service!Next
    <2>1. /\ CallStep(c) /\ pc[c] \in {"loadTotal", "loadSession"} /\ pc'[c] = "done"
          /\ answer'[c] = [code |-> DIAMETER_CREDIT_LIMIT_REACHED, granted |-> 0]
          /\ UNCHANGED <<total, req>>
      BY <1>4 DEF LoadTotalEmpty, LoadSessionMissing, CallStep, Run
    <2>2. /\ Outcomes' = [Outcomes EXCEPT ![c] =
                             [code |-> DIAMETER_CREDIT_LIMIT_REACHED, granted |-> 0]]
          /\ Returned' = Returned \cup {c}
      BY <2>1, OutcomeStep DEF Outcome
    <2>3. Service!Pending(c)
      BY <2>1, Undecided
    <2>4. CASE LoadTotalEmpty(c)
      <3>1. Service!Charges(c) /\ total[req[c].sub] = 0
        BY <2>4 DEF LoadTotalEmpty, Service!Charges, PathInv, PathOf, Granting
      <3>2. Service!Refuse(c)
        BY <2>1, <2>2, <2>3, <3>1
           DEF Service!Refuse, Service!Decide, Service!Answer, Outcomes, Returned
      <3> QED
        BY <3>2 DEF Service!Next
    <2>5. CASE LoadSessionMissing(c)
      <3>1. Service!Terminates(c) /\ sessions[req[c].sess] = NoSession
        BY <2>5 DEF LoadSessionMissing, Service!Terminates, PathInv, PathOf
      <3>2. CASE Service!Quanta(req[c].sess) # {}
        <4>1. PICK d \in Calls : Opened(d) /\ req[d].sess = req[c].sess
          BY <3>2, QuantaOpened
        <4>2. PICK e \in Calls : Terminates(e, d) /\ Closed(e)
          BY <3>1, <4>1 DEF SessionInv, Kept
        <4>3. Service!Closed(req[c].sess)
          BY <4>1, <4>2 DEF Terminates, Closed, Service!Closed, Service!Succeeded,
                            Service!Terminates, Outcome
        <4>4. Service!Refuse(c)
          BY <2>1, <2>2, <2>3, <3>1, <4>3
             DEF Service!Refuse, Service!Decide, Service!Answer, Outcomes, Returned
        <4> QED
          BY <4>4 DEF Service!Next
      <3>3. CASE Service!Quanta(req[c].sess) = {}
        <4>1. Service!Refuse(c)
          BY <2>1, <2>2, <2>3, <3>1, <3>3
             DEF Service!Refuse, Service!Decide, Service!Answer, Outcomes, Returned
        <4> QED
          BY <4>1 DEF Service!Next
      <3> QED
        BY <3>2, <3>3
    <2> QED
      BY <1>4, <2>4, <2>5
  <1>5. ASSUME NEW c \in Calls, Refund(c) PROVE Service!Next
    <2>1. /\ CallStep(c) /\ pc[c] = "refund" /\ pc'[c] = "loadRelease" /\ req' = req
      BY <1>5 DEF Refund, CallStep, Run
    <2>2. PICK q \in Nat : q = amount[c]
      OBVIOUS
    <2>3. q \in Service!Quanta(req[c].sess)
      BY <2>1, <2>2, QuantaOpened DEF SessionInv, Found, Releasing
    <2>4. total' = [total EXCEPT ![req[c].sub] = @ + (q - Service!Lesser(req[c].used, q))]
      BY <1>5, <2>2 DEF Refund, Plus, Least, Service!Lesser
    <2>5. /\ Outcomes' = [Outcomes EXCEPT ![c] = [code |-> DIAMETER_SUCCESS, granted |-> 0]]
          /\ Returned' = Returned
      BY <2>1, OutcomeStep DEF Outcome
    <2>6. Service!Pending(c) /\ Service!Terminates(c)
      BY <2>1, Undecided DEF Service!Terminates, PathInv, PathOf, Releasing
    <2>7. Service!Repay(c)
      BY <2>1, <2>3, <2>4, <2>5, <2>6
         DEF Service!Repay, Service!Decide, Outcomes, Returned
    <2> QED
      BY <2>7 DEF Service!Next
  <1>6. ASSUME NEW c \in Calls, StoreSession(c) \/ DeleteSession(c) PROVE Service!Next
    <2>1. /\ CallStep(c) /\ pc'[c] = "done" /\ UNCHANGED <<total, req>>
          /\ Outcome(c)' = Outcome(c) /\ Outcome(c) # NoAnswer
      BY <1>6 DEF StoreSession, DeleteSession, CallStep, Run, Outcome, NoAnswer,
                  DIAMETER_SUCCESS
    <2>2. Outcomes' = Outcomes /\ Returned' = Returned \cup {c} /\ c \notin Returned
      BY <2>1, OutcomeStep DEF Outcomes
    <2>3. Service!Reply(c)
      BY <2>1, <2>2 DEF Service!Reply, Service!Answer, Outcomes, Returned
    <2> QED
      BY <2>3 DEF Service!Next
  <1>7. ASSUME NEW c \in Calls, Run(c), ~CasTotal(c), ~LoadTotalEmpty(c),
               ~LoadSessionMissing(c), ~Refund(c), ~StoreSession(c), ~DeleteSession(c)
        PROVE  UNCHANGED Service!service
    <2>1. UNCHANGED <<total, req>> /\ Outcome(c)' = Outcome(c) /\ pc'[c] # "done"
      <3>1. CASE LoadReserved(c) \/ CasReserved(c) \/ CasReservedFails(c)
        BY <3>1 DEF LoadReserved, CasReserved, CasReservedFails, Outcome
      <3>2. CASE LoadTotal(c) \/ CasTotalFails(c)
        BY <3>2 DEF LoadTotal, CasTotalFails, Outcome
      <3>3. CASE AddReserved(c) \/ LoadSession(c)
        BY <3>3 DEF AddReserved, LoadSession, Outcome
      <3>4. CASE LoadRelease(c) \/ CasRelease(c) \/ CasReleaseFails(c)
        BY <3>4 DEF LoadRelease, CasRelease, CasReleaseFails, Outcome
      <3> QED
        BY <1>7, <3>1, <3>2, <3>3, <3>4 DEF Run
    <2>2. CallStep(c)
      BY <1>7 DEF CallStep
    <2>3. Outcomes' = Outcomes /\ Returned' = Returned
      BY <2>1, <2>2, OutcomeStep DEF Outcomes
    <2> QED
      BY <2>1, <2>3 DEF Service!service, Outcomes, Returned
  <1> QED
    BY <1>1, <1>2, <1>3, <1>4, <1>5, <1>6, <1>7 DEF Next

(***************************************************************************)
(* Whatever the clients send, concurrently and in any order, the OCS is     *)
(* linearizable: every request is decided in one atomic step between its    *)
(* arrival and its answer, as by a server that handles them one at a time.  *)
(***************************************************************************)
THEOREM ServiceRefinement == Spec => ServiceSpec
  <1>1. TypeInv /\ TypeInv' /\ PathInv /\ SessionInv /\ AnswerInv /\ [Next]_vars
            => [Service!Next]_(Service!service)
    BY StepService
  <1> QED
    BY <1>1, InitService, TypeInvariance, PathInvariance, SessionInvariance,
       AnswerInvariance, PTL DEF Spec, ServiceSpec, Service!Spec
=============================================================================
