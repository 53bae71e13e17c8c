-------------------------- MODULE TokenBucketProofs --------------------------
(***************************************************************************)
(* Theorems about the rate limiter for any number of racing calls, any      *)
(* capacity, rate and clock bound.                                          *)
(***************************************************************************)
EXTENDS TokenBucket, TLAPS

LEMMA RefillNat == ASSUME NEW e \in Int PROVE Refill(e) \in Nat
  <1>1. CASE e < 0
    BY <1>1 DEF Refill
  <1>2. CASE ~(e < 0)
    <2> DEFINE x == e * RateNum
    <2>1. x \in Nat
      BY <1>2, RateAssumption
    <2> HIDE DEF x
    <2>2. x \div RateDen \in Nat
      BY <2>1, RateAssumption
    <2> QED
      BY <1>2, <2>2 DEF Refill, x
  <1> QED
    BY <1>1, <1>2

LEMMA NewTokensRange ==
    ASSUME NEW old \in 0 .. Capacity, NEW e \in Int
    PROVE  /\ NewTokens(old, e) \in 0 .. Capacity
           /\ NewTokens(old, e) >= old
  <1>1. Refill(e) \in Nat
    BY RefillNat
  <1> QED
    BY <1>1, ScaleAssumption DEF NewTokens

-----------------------------------------------------------------------------
\* Past LoadOrStore a call works on a bucket that is in the map.
BucketStored ==
    \A c \in Calls : pc[c] \notin {"idle", "store"} => Key[c] \in clients

\* A bucket not made yet counts as full and untouched.
Untouched == \A k \in Keys \ clients : tokens[k] = Capacity

\* A call that tries to take a token has computed that there is one.
Affordable ==
    \A c \in Calls : At(c, "casTokens") =>
        NewTokens(oldTokens[c], Elapsed(c)) >= Scale

\* A call on its way to a denial has seen the burst used up.
Justified ==
    \A c \in Calls : (At(c, "block") \/ verdict[c] = "deny") =>
        taken[Key[c]] + Scale > Capacity

\* The inductive invariant.
Inv == /\ TypeOK /\ BucketStored /\ Untouched /\ Affordable
       /\ TokensConserved /\ Justified

LEMMA InitInv == Init => Inv
  <1> SUFFICES ASSUME Init PROVE Inv
    OBVIOUS
  <1> USE DEF Init
  <1>1. TypeOK
    BY ScaleAssumption DEF TypeOK, Labels
  <1>2. BucketStored /\ Untouched /\ Affordable /\ Justified
    BY DEF BucketStored, Untouched, Affordable, Justified, At
  <1>3. TokensConserved
    BY ScaleAssumption DEF TokensConserved
  <1> QED
    BY <1>1, <1>2, <1>3 DEF Inv

LEMMA NextInv == Inv /\ [Next]_vars => Inv'
  <1> SUFFICES ASSUME Inv, [Next]_vars PROVE Inv'
    OBVIOUS
  <1> USE KeyAssumption, ScaleAssumption
      DEF Inv, TypeOK, Labels, At, Goto, Return, Short, CasSucceeds, Stamp,
          shared, locals, history
  <1>1. CASE UNCHANGED vars
    BY <1>1 DEF vars, BucketStored, Untouched, Affordable, TokensConserved,
                Justified, Elapsed
  <1>2. CASE Tick
    BY <1>2 DEF Tick, BucketStored, Untouched, Affordable, TokensConserved,
                Justified, Elapsed
  <1>3. ASSUME NEW c \in Calls, Load(c) PROVE Inv'
    BY <1>3 DEF Load, BucketStored, Untouched, Affordable, TokensConserved,
                Justified, Elapsed
  <1>4. ASSUME NEW c \in Calls, LoadOrStore(c) PROVE Inv'
    <2>1. tokens' = tokens
      BY <1>4 DEF LoadOrStore, Untouched
    <2>2. TypeOK' /\ BucketStored' /\ Untouched'
      BY <1>4, <2>1 DEF LoadOrStore, BucketStored, Untouched
    <2>3. Affordable' /\ TokensConserved' /\ Justified'
      BY <1>4, <2>1 DEF LoadOrStore, Affordable, TokensConserved, Justified, Elapsed
    <2> QED
      BY <2>2, <2>3
  <1>5. ASSUME NEW c \in Calls, ReadClock(c) PROVE Inv'
    BY <1>5 DEF ReadClock, BucketStored, Untouched, Affordable, TokensConserved,
                Justified, Elapsed
  <1>6. ASSUME NEW c \in Calls, LoadRefill(c) PROVE Inv'
    BY <1>6 DEF LoadRefill, BucketStored, Untouched, Affordable, TokensConserved,
                Justified, Elapsed
  <1>7. ASSUME NEW c \in Calls, LoadTokens(c) PROVE Inv'
    <2> DEFINE n == NewTokens(tokens[Key[c]], Elapsed(c))
    <2>1. Key[c] \in Keys /\ Elapsed(c) \in Int
      BY DEF Elapsed
    <2>2. n \in 0 .. Capacity /\ n >= tokens[Key[c]]
      BY <2>1, NewTokensRange
    <2>3. /\ pc' = [pc EXCEPT ![c] = IF n < Scale THEN "block" ELSE "casTokens"]
          /\ oldTokens' = [oldTokens EXCEPT ![c] = tokens[Key[c]]]
          /\ UNCHANGED <<clock, shared, now, oldRefill, verdict, history>>
          /\ pc[c] = "loadTokens"
      BY <1>7 DEF LoadTokens
    <2>4. Affordable'
      BY <2>2, <2>3 DEF Affordable, Elapsed
    <2> HIDE DEF n
    <2>5. TypeOK' /\ BucketStored' /\ Untouched' /\ TokensConserved'
      BY <2>1, <2>3 DEF BucketStored, Untouched, TokensConserved
    <2>6. Justified'
      <3>1. n < Scale => taken[Key[c]] + Scale > Capacity
        BY <2>1, <2>2 DEF TokensConserved
      <3> QED
        BY <2>3, <3>1 DEF Justified
    <2> QED
      BY <2>4, <2>5, <2>6
  <1>8. ASSUME NEW c \in Calls, Block(c) PROVE Inv'
    BY <1>8 DEF Block, BucketStored, Untouched, Affordable, TokensConserved,
                Justified, Elapsed
  <1>9. ASSUME NEW c \in Calls, CasTokens(c) PROVE Inv'
    <2> DEFINE n == NewTokens(oldTokens[c], Elapsed(c))
    <2>1. Key[c] \in Keys /\ Key[c] \in clients /\ Elapsed(c) \in Int
      BY <1>9 DEF CasTokens, BucketStored, Elapsed
    <2>2. n \in 0 .. Capacity /\ n >= oldTokens[c] /\ n >= Scale
      BY <1>9, <2>1, NewTokensRange DEF CasTokens, Affordable
    <2> HIDE DEF n
    <2>3. /\ tokens[Key[c]] = oldTokens[c]
          /\ tokens' = [tokens EXCEPT ![Key[c]] = n - Scale]
          /\ taken' = [taken EXCEPT ![Key[c]] = @ + Scale]
          /\ credited' = [credited EXCEPT ![Key[c]] = @ + (n - oldTokens[c])]
          /\ pc' = [pc EXCEPT ![c] = "casRefill"] /\ pc[c] = "casTokens"
          /\ UNCHANGED <<clock, clients, lastRefill, blockedCnt, locals,
                         created, raced>>
      BY <1>9 DEF CasTokens, n
    <2>4. TypeOK' /\ BucketStored' /\ Untouched'
      BY <2>1, <2>2, <2>3 DEF BucketStored, Untouched
    <2>5. Affordable'
      BY <2>3 DEF Affordable, Elapsed
    <2>6. TokensConserved'
      BY <2>1, <2>2, <2>3 DEF TokensConserved
    <2>7. Justified'
      BY <2>1, <2>3 DEF Justified
    <2> QED
      BY <2>4, <2>5, <2>6, <2>7
  <1>10. ASSUME NEW c \in Calls, CasTokensFails(c) PROVE Inv'
    BY <1>10 DEF CasTokensFails, BucketStored, Untouched, Affordable,
                 TokensConserved, Justified, Elapsed
  <1>11. ASSUME NEW c \in Calls, CasRefill(c) PROVE Inv'
    BY <1>11 DEF CasRefill, BucketStored, Untouched, Affordable,
                 TokensConserved, Justified, Elapsed
  <1> QED
    BY <1>1, <1>2, <1>3, <1>4, <1>5, <1>6, <1>7, <1>8, <1>9, <1>10, <1>11
       DEF Next, Run

LEMMA Invariance == Spec => []Inv
  BY InitInv, NextInv, PTL DEF Spec

(***************************************************************************)
(* However many calls of Allow race, a bucket stays between empty and full. *)
(***************************************************************************)
THEOREM TypeCorrect == Spec => []TypeOK
  BY Invariance, PTL DEF Inv

(***************************************************************************)
(* No token is lost or handed out twice by the CAS loop, and racing         *)
(* creations of a client's bucket do not refill it.                         *)
(***************************************************************************)
THEOREM TokensConservedTheorem == Spec => []TokensConserved
  BY Invariance, PTL DEF Inv

(***************************************************************************)
(* Allow never denies a client that has not used up a full burst.           *)
(***************************************************************************)
THEOREM NoFalseDenialTheorem == Spec => []NoFalseDenial
  <1>1. Inv => NoFalseDenial
    BY DEF Inv, Justified, NoFalseDenial
  <1> QED
    BY <1>1, Invariance, PTL

-----------------------------------------------------------------------------
(***************************************************************************)
(* The limit.  Rounding down at every refill never yields more than         *)
(* rounding down once over the whole time.                                  *)
(***************************************************************************)
LEMMA DivBounds ==
  ASSUME NEW p \in Nat, NEW D \in Nat \ {0}
  PROVE  /\ p \div D \in Nat
         /\ (p \div D) * D <= p
         /\ p < (p \div D) * D + D
  OBVIOUS

LEMMA DivLeast ==
  ASSUME NEW p \in Nat, NEW D \in Nat \ {0}, NEW m \in Nat, m * D <= p
  PROVE  m <= p \div D
<1> DEFINE n == p \div D
<1>1. n \in Nat /\ p < n * D + D
  BY DivBounds
<1> HIDE DEF n
<1>2. CASE m > n
  <2>1. PICK k \in Nat : m = n + 1 + k
    <3>1. m - n - 1 \in Nat /\ m = n + 1 + (m - n - 1)
      BY <1>1, <1>2
    <3> QED BY <3>1
  <2>2. m * D = n * D + D + k * D
    BY <2>1, <1>1
  <2>3. k * D \in Nat /\ n * D \in Nat
    BY <1>1
  <2> QED BY <1>1, <2>2, <2>3
<1> QED BY <1>1, <1>2 DEF n

LEMMA DivSuper ==
  ASSUME NEW p \in Nat, NEW q \in Nat, NEW D \in Nat \ {0}
  PROVE  p \div D + q \div D <= (p + q) \div D
<1> DEFINE m == p \div D
           n == q \div D
<1>1. m \in Nat /\ n \in Nat /\ m * D <= p /\ n * D <= q
  BY DivBounds
<1> HIDE DEF m, n
<1>2. (m + n) * D = m * D + n * D
  BY <1>1
<1>3. (m + n) * D <= p + q /\ m + n \in Nat /\ p + q \in Nat
  BY <1>1, <1>2
<1>4. m + n <= (p + q) \div D
  BY <1>3, DivLeast
<1> QED BY <1>4 DEF m, n

LEMMA RefillAdds ==
  ASSUME NEW a \in Nat, NEW b \in Nat
  PROVE  Refill(a) + Refill(b) <= Refill(a + b)
<1>1. a * RateNum \in Nat /\ b * RateNum \in Nat
      /\ (a + b) * RateNum = a * RateNum + b * RateNum
  BY RateAssumption
<1>2. (a * RateNum) \div RateDen + (b * RateNum) \div RateDen
         <= (a * RateNum + b * RateNum) \div RateDen
  BY <1>1, RateAssumption, DivSuper
<1> QED BY <1>1, <1>2 DEF Refill

LEMMA RefillMonotone ==
  ASSUME NEW a \in Nat, NEW b \in Nat, a <= b
  PROVE  Refill(a) <= Refill(b)
<1>1. b - a \in Nat /\ a + (b - a) = b
  OBVIOUS
<1>2. Refill(a) + Refill(b - a) <= Refill(a + (b - a))
  BY <1>1, RefillAdds
<1>3. Refill(a) \in Nat /\ Refill(b - a) \in Nat /\ Refill(b) \in Nat
  BY <1>1, RefillNat
<1> QED BY <1>1, <1>2, <1>3

\* A call in progress on key k.
Active(c, k) == Key[c] = k /\ pc[c] \notin {"idle", "done"}

\* Times that have been read lie in the past.
Past ==
    /\ \A c \in Calls : now[c] <= clock
    /\ \A k \in Keys : lastRefill[k] <= clock
    /\ \A k \in Keys \ clients : credited[k] = 0

\* The only call in progress on a key found its stamp as it still is, not later
\* than the call's own reading of the clock.
Serial(k) ==
    /\ created[k] <= lastRefill[k]
    /\ \A c, d \in Calls : Active(c, k) /\ Active(d, k) => c = d
    /\ \A c \in Calls : Active(c, k) =>
          /\ pc[c] \notin {"store", "readClock"} => now[c] >= lastRefill[k]
          /\ pc[c] \in {"loadTokens", "casTokens", "casRefill"} =>
                oldRefill[c] = lastRefill[k]

\* Credit was given for no more than the time up to the stamp, or up to the
\* stamp that the call between the two CASes is about to write.
CreditedTo(k, t) == credited[k] <= Refill(t - created[k])
Paced(k) ==
    \/ CreditedTo(k, lastRefill[k])
    \/ \E c \in Calls : Active(c, k) /\ At(c, "casRefill") /\ CreditedTo(k, now[c])

SerialInv == Past /\ \A k \in Keys \ raced : Serial(k) /\ Paced(k)


LEMMA PastStep ==
  ASSUME Inv, Past, [Next]_vars
  PROVE  Past'
<1> USE KeyAssumption DEF Inv, TypeOK, Past, At, Goto, Return, shared, locals, history
<1>1. CASE UNCHANGED vars \/ Tick
  BY <1>1 DEF vars, Tick
<1>2. ASSUME NEW c \in Calls, Load(c) PROVE Past'
  BY <1>2 DEF Load
<1>3. ASSUME NEW c \in Calls, LoadOrStore(c) PROVE Past'
  BY <1>3 DEF LoadOrStore
<1>4. ASSUME NEW c \in Calls, ReadClock(c) PROVE Past'
  BY <1>4 DEF ReadClock
<1>5. ASSUME NEW c \in Calls, LoadRefill(c) \/ LoadTokens(c) \/ Block(c) \/ CasTokensFails(c)
      PROVE  Past'
  BY <1>5 DEF LoadRefill, LoadTokens, Block, CasTokensFails
<1>6. ASSUME NEW c \in Calls, CasTokens(c) PROVE Past'
  BY <1>6 DEF CasTokens, BucketStored
<1>7. ASSUME NEW c \in Calls, CasRefill(c) PROVE Past'
  BY <1>7 DEF CasRefill, Stamp
<1> QED BY <1>1, <1>2, <1>3, <1>4, <1>5, <1>6, <1>7 DEF Next, Run

\* A step that leaves the bucket of k and the calls on it alone.
LEMMA Elsewhere ==
  ASSUME NEW k \in Keys, Serial(k), Paced(k),
         \A c \in Calls : Key[c] = k =>
            pc'[c] = pc[c] /\ now'[c] = now[c] /\ oldRefill'[c] = oldRefill[c],
         lastRefill'[k] = lastRefill[k], created'[k] = created[k], credited'[k] = credited[k]
  PROVE  Serial(k)' /\ Paced(k)'
  BY DEF Serial, Paced, Active, CreditedTo, At

LEMMA SerialStep ==
  ASSUME Inv, SerialInv, [Next]_vars, NEW k \in Keys \ raced'
  PROVE  Serial(k)' /\ Paced(k)'
<1> USE KeyAssumption DEF Inv, TypeOK, Labels, At, Goto, Return, shared, locals, history
<1>0. k \in Keys \ raced
  BY DEF Next, Run, vars, Tick, Load, LoadOrStore, ReadClock, LoadRefill, LoadTokens, Block,
         CasTokens, CasTokensFails, CasRefill
<1>a. Serial(k) /\ Paced(k) /\ Past
  BY <1>0 DEF SerialInv
<1>1. CASE UNCHANGED vars \/ Tick
  BY <1>a, <1>1, Elsewhere DEF vars, Tick
<1>2. ASSUME NEW c \in Calls, Load(c) PROVE Serial(k)' /\ Paced(k)'
  <2>1. CASE Key[c] # k
    BY <1>a, <1>2, <2>1, Elsewhere DEF Load
  <2>2. CASE Key[c] = k
    <3>1. \A d \in Calls : ~Active(d, k)
      BY <1>2, <2>2 DEF Load, Overlaps, Active
    <3>2. CreditedTo(k, lastRefill[k])
      BY <1>a, <3>1 DEF Paced
    <3>3. UNCHANGED <<lastRefill, created, credited>>
      BY <1>2 DEF Load
    <3>4. pc'[c] \in {"store", "readClock"} /\ \A d \in Calls : d # c => pc'[d] = pc[d]
      BY <1>2 DEF Load
    <3>5. \A d \in Calls : Active(d, k)' => d = c
      BY <3>1, <3>4 DEF Active
    <3> QED BY <1>a, <3>2, <3>3, <3>4, <3>5 DEF Serial, Paced, CreditedTo
  <2> QED BY <2>1, <2>2
<1>3. ASSUME NEW c \in Calls, LoadOrStore(c) PROVE Serial(k)' /\ Paced(k)'
  <2>1. CASE Key[c] # k
    BY <1>a, <1>3, <2>1, Elsewhere DEF LoadOrStore
  <2>2. CASE Key[c] = k
    <3>1. \A d \in Calls : Active(d, k) => d = c
      BY <1>a, <1>3, <2>2 DEF Serial, Active, LoadOrStore
    <3>2. pc'[c] = "readClock" /\ (\A d \in Calls : d # c => pc'[d] = pc[d])
          /\ UNCHANGED <<credited, now, oldRefill>>
      BY <1>3 DEF LoadOrStore
    <3>3. \A d \in Calls : Active(d, k)' => d = c
      BY <3>1, <3>2 DEF Active
    <3>4. CreditedTo(k, lastRefill[k])
      BY <1>a, <1>3, <3>1 DEF Paced, LoadOrStore
    <3>5. /\ created'[k] <= lastRefill'[k]
          /\ CreditedTo(k, lastRefill[k])'
      <4>1. CASE k \in clients
        BY <1>a, <1>3, <2>2, <3>2, <3>4, <4>1 DEF LoadOrStore, CreditedTo, Serial
      <4>2. CASE k \notin clients
        <5>1. created'[k] = now[c] /\ lastRefill'[k] = now[c] /\ credited'[k] = 0
          BY <1>a, <1>3, <2>2, <3>2, <4>2 DEF LoadOrStore, Past
        <5>2. now[c] - now[c] = 0 /\ now[c] <= now[c]
          OBVIOUS
        <5>3. Refill(0) >= 0
          BY RefillNat
        <5> QED BY <5>1, <5>2, <5>3 DEF CreditedTo
      <4> QED BY <4>1, <4>2
    <3> QED BY <3>2, <3>3, <3>5 DEF Serial, Paced
  <2> QED BY <2>1, <2>2
<1>4. ASSUME NEW c \in Calls, ReadClock(c) PROVE Serial(k)' /\ Paced(k)'
  <2>1. CASE Key[c] # k
    BY <1>a, <1>4, <2>1, Elsewhere DEF ReadClock
  <2>2. CASE Key[c] = k
    <3>1. \A d \in Calls : Active(d, k) => d = c
      BY <1>a, <1>4, <2>2 DEF Serial, Active, ReadClock
    <3>2. /\ pc'[c] = "loadRefill" /\ (\A d \in Calls : d # c => pc'[d] = pc[d])
          /\ now'[c] = clock /\ UNCHANGED <<credited, created, lastRefill>>
      BY <1>4 DEF ReadClock
    <3>3. \A d \in Calls : Active(d, k)' => d = c
      BY <3>1, <3>2 DEF Active
    <3>4. CreditedTo(k, lastRefill[k])
      BY <1>a, <1>4, <3>1 DEF Paced, ReadClock
    <3> QED BY <1>a, <3>2, <3>3, <3>4 DEF Serial, Paced, CreditedTo, Past
  <2> QED BY <2>1, <2>2
<1>5. ASSUME NEW c \in Calls, LoadRefill(c) \/ LoadTokens(c) \/ Block(c) \/ CasTokensFails(c)
      PROVE  Serial(k)' /\ Paced(k)'
  <2>1. CASE Key[c] # k
    BY <1>a, <1>5, <2>1, Elsewhere DEF LoadRefill, LoadTokens, Block, CasTokensFails
  <2>2. CASE Key[c] = k
    <3>1. \A d \in Calls : Active(d, k) => d = c
      BY <1>a, <1>5, <2>2 DEF Serial, Active, LoadRefill, LoadTokens, Block, CasTokensFails
    <3>2. /\ pc'[c] \in {"loadTokens", "block", "casTokens", "loadRefill", "done"}
          /\ \A d \in Calls : d # c => pc'[d] = pc[d]
          /\ pc[c] \in {"loadRefill", "loadTokens", "block", "casTokens"}
          /\ UNCHANGED <<now, credited, created, lastRefill>>
      BY <1>5 DEF LoadRefill, LoadTokens, Block, CasTokensFails
    <3>3. \A d \in Calls : Active(d, k)' => d = c
      BY <3>1, <3>2 DEF Active
    <3>4. pc'[c] \in {"loadTokens", "casTokens"} => oldRefill'[c] = lastRefill[k]
      BY <1>a, <1>5, <2>2 DEF LoadRefill, LoadTokens, Block, CasTokensFails, Serial, Active
    <3>5. now[c] >= lastRefill[k]
      BY <1>a, <2>2, <3>2 DEF Serial, Active
    <3>6. CreditedTo(k, lastRefill[k])
      BY <1>a, <3>1, <3>2 DEF Paced
    <3> QED BY <1>a, <3>2, <3>3, <3>4, <3>5, <3>6 DEF Serial, Paced, CreditedTo
  <2> QED BY <2>1, <2>2
<1>6. ASSUME NEW c \in Calls, CasTokens(c) PROVE Serial(k)' /\ Paced(k)'
  <2>1. CASE Key[c] # k
    BY <1>a, <1>6, <2>1, Elsewhere DEF CasTokens
  <2>2. CASE Key[c] = k
    <3> DEFINE more == NewTokens(oldTokens[c], Elapsed(c)) - oldTokens[c]
    <3>1. \A d \in Calls : Active(d, k) => d = c
      BY <1>a, <1>6, <2>2 DEF Serial, Active, CasTokens
    <3>2. /\ pc[c] = "casTokens" /\ pc'[c] = "casRefill"
          /\ \A d \in Calls : d # c => pc'[d] = pc[d]
          /\ UNCHANGED <<now, oldRefill, created, lastRefill>>
      BY <1>6 DEF CasTokens
    <3>2a. credited'[k] = credited[k] + more
      BY <1>6, <2>2 DEF CasTokens
    <3>3. \A d \in Calls : Active(d, k)' => d = c
      BY <3>1, <3>2 DEF Active
    <3>4. /\ now[c] >= lastRefill[k] /\ oldRefill[c] = lastRefill[k]
          /\ created[k] <= lastRefill[k]
      BY <1>a, <2>2, <3>2 DEF Serial, Active
    <3>5. CreditedTo(k, lastRefill[k])
      BY <1>a, <3>1, <3>2 DEF Paced
    <3> DEFINE e == Elapsed(c)
               a == lastRefill[k] - created[k]
    <3>6. e \in Nat /\ a \in Nat /\ a + e = now[c] - created[k]
      BY <3>4 DEF Elapsed
    <3>7. more \in Nat /\ more <= Refill(e)
      <4>1. Refill(e) \in Nat
        BY <3>6, RefillNat
      <4>2. oldTokens[c] \in 0 .. Capacity /\ Capacity \in Nat
        BY ScaleAssumption
      <4> HIDE DEF e
      <4> QED BY <4>1, <4>2 DEF NewTokens, e
    <3>8. Refill(a) + Refill(e) <= Refill(a + e)
      BY <3>6, RefillAdds
    <3>9. Refill(a) \in Nat /\ Refill(e) \in Nat /\ Refill(a + e) \in Nat
      BY <3>6, RefillNat
    <3>10. credited[k] <= Refill(a) /\ credited[k] \in Nat
      BY <3>5 DEF CreditedTo
    <3> HIDE DEF more, e, a
    <3>11. credited'[k] <= Refill(a + e)
      BY <3>2a, <3>7, <3>8, <3>9, <3>10
    <3>12. CreditedTo(k, now[c])'
      BY <3>2, <3>6, <3>11 DEF CreditedTo
    <3>13. Active(c, k)' /\ pc'[c] = "casRefill"
      BY <2>2, <3>2 DEF Active
    <3> QED BY <3>2, <3>3, <3>4, <3>12, <3>13 DEF Serial, Paced
  <2> QED BY <2>1, <2>2
<1>7. ASSUME NEW c \in Calls, CasRefill(c) PROVE Serial(k)' /\ Paced(k)'
  <2>1. CASE Key[c] # k
    BY <1>a, <1>7, <2>1, Elsewhere DEF CasRefill
  <2>2. CASE Key[c] = k
    <3>1. \A d \in Calls : Active(d, k) => d = c
      BY <1>a, <1>7, <2>2 DEF Serial, Active, CasRefill
    <3>2. /\ pc[c] = "casRefill" /\ pc'[c] = "done"
          /\ \A d \in Calls : d # c => pc'[d] = pc[d]
          /\ UNCHANGED <<now, oldRefill, created, credited>>
      BY <1>7 DEF CasRefill
    <3>3. \A d \in Calls : ~Active(d, k)'
      BY <3>1, <3>2 DEF Active
    <3>4. /\ now[c] >= lastRefill[k] /\ oldRefill[c] = lastRefill[k]
          /\ created[k] <= lastRefill[k]
      BY <1>a, <2>2, <3>2 DEF Serial, Active
    <3>5. lastRefill'[k] = now[c]
      BY <1>7, <2>2, <3>4 DEF CasRefill, Stamp
    <3>6. CASE CreditedTo(k, now[c])
      BY <3>2, <3>3, <3>4, <3>5, <3>6 DEF Serial, Paced, CreditedTo
    <3>7. CASE CreditedTo(k, lastRefill[k])
      <4> DEFINE a == lastRefill[k] - created[k]
                 b == now[c] - created[k]
      <4>1. a \in Nat /\ b \in Nat /\ a <= b
        BY <3>4
      <4>2. Refill(a) <= Refill(b) /\ Refill(a) \in Nat /\ Refill(b) \in Nat
        BY <4>1, RefillMonotone, RefillNat
      <4>3. CreditedTo(k, now[c])
        <5>1. credited[k] \in Nat /\ credited[k] <= Refill(a)
          BY <3>7 DEF CreditedTo
        <5> HIDE DEF a, b
        <5>2. credited[k] <= Refill(b)
          BY <5>1, <4>2
        <5> QED BY <5>2 DEF b, CreditedTo
      <4> QED BY <3>6, <4>3
    <3>8. CreditedTo(k, now[c]) \/ CreditedTo(k, lastRefill[k])
      BY <1>a, <3>1 DEF Paced
    <3> QED BY <3>6, <3>7, <3>8
  <2> QED BY <2>1, <2>2
<1> QED BY <1>1, <1>2, <1>3, <1>4, <1>5, <1>6, <1>7 DEF Next, Run

LEMMA InitSerial == Init => SerialInv
<1> SUFFICES ASSUME Init PROVE SerialInv
  OBVIOUS
<1>1. Past
  BY DEF Init, Past
<1>2. ASSUME NEW k \in Keys PROVE Serial(k) /\ Paced(k)
  <2>1. Serial(k)
    BY KeyAssumption DEF Init, Serial, Active
  <2>2. Refill(0) >= 0
    BY RefillNat
  <2>3. CreditedTo(k, lastRefill[k])
    BY <2>2 DEF Init, CreditedTo
  <2> QED BY <2>1, <2>3 DEF Paced
<1> QED BY <1>1, <1>2 DEF SerialInv

\* Refill stamps and readings of the clock lie in the past, so what is credited
\* up to them is credited up to now.
LEMMA SerialWithin == Inv /\ SerialInv => SerialAdmissionBound
<1> SUFFICES ASSUME Inv, SerialInv, NEW k \in Keys \ raced PROVE Within(k)
  BY DEF SerialAdmissionBound
<1>1. Past /\ Serial(k) /\ Paced(k) /\ TypeOK /\ TokensConserved
  BY DEF SerialInv, Inv
<1>2. PICK t \in Nat : CreditedTo(k, t) /\ created[k] <= t /\ t <= clock
  <2>1. CASE CreditedTo(k, lastRefill[k])
    BY <1>1, <2>1 DEF Serial, Past, TypeOK
  <2>2. ASSUME NEW c \in Calls, Active(c, k), At(c, "casRefill"), CreditedTo(k, now[c])
        PROVE  \E t \in Nat : CreditedTo(k, t) /\ created[k] <= t /\ t <= clock
    BY <1>1, <2>2 DEF Serial, Past, TypeOK, At
  <2> QED BY <1>1, <2>1, <2>2 DEF Paced
<1> DEFINE a == t - created[k]
           b == clock - created[k]
<1>3. a \in Nat /\ b \in Nat /\ a <= b
  BY <1>1, <1>2 DEF TypeOK
<1>4. Refill(a) <= Refill(b) /\ Refill(a) \in Nat /\ Refill(b) \in Nat
  BY <1>3, RefillMonotone, RefillNat
<1>5. credited[k] <= Refill(a)
  BY <1>2 DEF CreditedTo
<1>6. /\ tokens[k] + taken[k] = Capacity + credited[k]
      /\ tokens[k] \in Nat /\ taken[k] \in Nat /\ credited[k] \in Nat /\ Capacity \in Nat
  BY <1>1, ScaleAssumption DEF TypeOK, TokensConserved
<1> HIDE DEF a, b
<1>7. taken[k] <= Capacity + Refill(b)
  BY <1>4, <1>5, <1>6
<1> QED BY <1>7 DEF b, Within

LEMMA SerialInvariance == Spec => [](Inv /\ SerialInv)
<1>1. Init => Inv /\ SerialInv
  BY InitInv, InitSerial
<1>2. Inv /\ SerialInv /\ [Next]_vars => (Inv /\ SerialInv)'
  BY NextInv, PastStep, SerialStep DEF SerialInv
<1> QED BY <1>1, <1>2, PTL DEF Spec

(***************************************************************************)
(* The limiter limits: as long as no two calls of Allow for a client have   *)
(* overlapped, the client is admitted a full burst and what the rate yields *)
(* since its bucket was made, at most, for any rate, capacity and times of  *)
(* its calls.  Rounding each refill down never favours the client.          *)
(***************************************************************************)
THEOREM SerialAdmissionBoundTheorem == Spec => []SerialAdmissionBound
  BY SerialInvariance, SerialWithin, PTL

(***************************************************************************)
(* Until two calls for a client overlap, CasRefill never moves the refill   *)
(* stamp of its bucket back.                                                *)
(***************************************************************************)
THEOREM RefillStampMonotoneTheorem == Spec => RefillStampMonotone
<1> DEFINE Forward == \A k \in clients \ raced' : lastRefill'[k] >= lastRefill[k]
<1>1. Inv /\ SerialInv /\ [Next]_vars => [Forward]_vars
  <2> SUFFICES ASSUME Inv, SerialInv, Next, NEW k \in clients \ raced'
               PROVE  lastRefill'[k] >= lastRefill[k]
    OBVIOUS
  <2> USE KeyAssumption DEF Inv, TypeOK, shared, locals, history
  <2>1. k \in Keys /\ lastRefill[k] \in Nat /\ lastRefill[k] >= lastRefill[k]
    OBVIOUS
  <2>2. ASSUME NEW c \in Calls, LoadOrStore(c) PROVE lastRefill'[k] = lastRefill[k]
    BY <2>2 DEF LoadOrStore
  <2>3. ASSUME NEW c \in Calls, CasRefill(c) PROVE lastRefill'[k] >= lastRefill[k]
    <3>1. CASE Key[c] # k
      BY <2>1, <2>3, <3>1 DEF CasRefill
    <3>2. CASE Key[c] = k
      <4>1. Serial(k) /\ pc[c] = "casRefill"
        BY <2>1, <2>3 DEF SerialInv, CasRefill, At
      <4>2. now[c] >= lastRefill[k] /\ oldRefill[c] = lastRefill[k]
        BY <3>2, <4>1 DEF Serial, Active
      <4> QED BY <2>1, <2>3, <3>2, <4>2 DEF CasRefill, Stamp
    <3> QED BY <3>1, <3>2
  <2> QED BY <2>1, <2>2, <2>3 DEF Next, Run, Tick, Load, ReadClock, LoadRefill, LoadTokens,
              Block, CasTokens, CasTokensFails
<1> QED BY <1>1, SerialInvariance, PTL DEF Spec, RefillStampMonotone
=============================================================================
