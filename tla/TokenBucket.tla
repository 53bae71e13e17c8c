----------------------------- MODULE TokenBucket -----------------------------
(***************************************************************************)
(* The lock-free rate limiter (internal/pkg/ratelimit): Allow, called by    *)
(* every traffic stream of pcef-core before it processes a frame.           *)
(*                                                                          *)
(* A bucket is two int64 words, TokensScaled and LastRefillNano, that Allow *)
(* reads and compares-and-swaps one at a time; each access is one action.   *)
(* A member of Calls is one call of Allow on the key Key[c].  The frames of *)
(* one stream come one after the other, those of different streams race:    *)
(* calls are made at any time.                                              *)
(*                                                                          *)
(* Tokens are in the code's scaled unit: Scale of them admit one frame.     *)
(* The rate is the fraction RateNum/RateDen of scaled tokens per tick.      *)
(*                                                                          *)
(* Assumption: the clock does not step back.  The code reads wall time      *)
(* (UnixNano); were it set back, elapsed would count as 0 and the second    *)
(* CAS would move the refill stamp back, without any race.                  *)
(*                                                                          *)
(* A definition named XMutant is X with a plausible bug in it; it is not    *)
(* part of the specification, and shows that some property notices the bug. *)
(***************************************************************************)
EXTENDS Integers

CONSTANTS Calls, Keys,
          Key,               \* [Calls -> Keys]
          Scale,             \* one token
          Capacity,          \* of a bucket, scaled
          RateNum, RateDen,  \* ratePerNs * scale
          MaxClock           \* bound on time, in ticks

ASSUME KeyAssumption == Key \in [Calls -> Keys]
ASSUME ScaleAssumption == Scale \in Nat \ {0} /\ Capacity \in Nat
ASSUME RateAssumption == RateNum \in Nat /\ RateDen \in Nat \ {0}
ASSUME ClockAssumption == MaxClock \in Nat

VARIABLES
    clock,       \* time.Now()
    clients,     \* the keys with a bucket in the sync.Map
    tokens,      \* [Keys -> 0 .. Capacity]  TokensScaled
    lastRefill,  \* [Keys -> Nat]            LastRefillNano
    blockedCnt,  \* denials counted
    pc,          \* where each call is
    now,         \* its reading of the clock
    oldRefill,   \* its last load of LastRefillNano
    oldTokens,   \* its last load of TokensScaled
    verdict,     \* what it returned
    created,     \* history: the time stamp each bucket was stored with
    taken,       \* history: scaled tokens spent on admitted frames
    credited,    \* history: scaled tokens refilled
    raced        \* history: the keys on which two calls have overlapped

shared  == <<clients, tokens, lastRefill, blockedCnt>>
locals  == <<now, oldRefill, oldTokens, verdict>>
history == <<created, taken, credited, raced>>
vars    == <<clock, shared, pc, locals, history>>

Labels == {"idle", "store", "readClock", "loadRefill", "loadTokens",
           "casTokens", "casRefill", "block", "done"}

\* In particular a bucket is never overdrawn and never holds more than its
\* capacity, whichever calls race on it.
TypeOK ==
    /\ clock      \in Nat
    /\ clients    \in SUBSET Keys
    /\ tokens     \in [Keys -> 0 .. Capacity]
    /\ lastRefill \in [Keys -> Nat]
    /\ blockedCnt \in Nat
    /\ pc         \in [Calls -> Labels]
    /\ now        \in [Calls -> Nat]
    /\ oldRefill  \in [Calls -> Nat]
    /\ oldTokens  \in [Calls -> 0 .. Capacity]
    /\ verdict    \in [Calls -> {"none", "allow", "deny"}]
    /\ created    \in [Keys -> Nat]
    /\ taken      \in [Keys -> Nat]
    /\ credited   \in [Keys -> Nat]
    /\ raced      \in SUBSET Keys

Init ==
    /\ clock      = 0
    /\ clients    = {}
    /\ tokens     = [k \in Keys |-> Capacity]
    /\ lastRefill = [k \in Keys |-> 0]
    /\ blockedCnt = 0
    /\ pc         = [c \in Calls |-> "idle"]
    /\ now        = [c \in Calls |-> 0]
    /\ oldRefill  = [c \in Calls |-> 0]
    /\ oldTokens  = [c \in Calls |-> 0]
    /\ verdict    = [c \in Calls |-> "none"]
    /\ created    = [k \in Keys |-> 0]
    /\ taken      = [k \in Keys |-> 0]
    /\ credited   = [k \in Keys |-> 0]
    /\ raced      = {}

-----------------------------------------------------------------------------
At(c, label) == pc[c] = label
Goto(c, label) == pc' = [pc EXCEPT ![c] = label]
Return(c, v) == Goto(c, "done") /\ verdict' = [verdict EXCEPT ![c] = v]

\* int64(float64(elapsedNs) * ratePerNs * scale) for the clamped elapsed time.
Refill(elapsed) == IF elapsed < 0 THEN 0 ELSE (elapsed * RateNum) \div RateDen

\* newTokens: what old tokens have become after the elapsed time.
NewTokensMutant(old, elapsed) == old + Refill(elapsed)
NewTokens(old, elapsed) ==
    LET n == old + Refill(elapsed)
    IN  IF n > Capacity THEN Capacity ELSE n

Elapsed(c) == now[c] - oldRefill[c]

\* Not a whole token.
ShortMutant(n) == n <= Scale
Short(n) == n < Scale

\* The compare of the CAS on TokensScaled.
CasSucceedsMutant(c) == TRUE
CasSucceeds(c) == tokens[Key[c]] = oldTokens[c]

\* Another call on the key of c is in progress.
Overlaps(c) ==
    \E d \in Calls : Key[d] = Key[c] /\ pc[d] \notin {"idle", "done"}

\* clients.Load(key); on a miss the call stamps a full bucket of its own.
Load(c) ==
    /\ At(c, "idle")
    /\ raced' = IF Overlaps(c) THEN raced \cup {Key[c]} ELSE raced
    /\ IF Key[c] \in clients
         THEN Goto(c, "readClock") /\ UNCHANGED now
         ELSE Goto(c, "store") /\ now' = [now EXCEPT ![c] = clock]
    /\ UNCHANGED <<clock, shared, oldRefill, oldTokens, verdict,
                   created, taken, credited>>

\* clients.LoadOrStore: the first of the racing calls installs its bucket, the
\* others use that one.
LoadOrStore(c) ==
    LET k == Key[c]
    IN  /\ At(c, "store")
        /\ Goto(c, "readClock")
        /\ \/ /\ k \notin clients
              /\ clients'    = clients \cup {k}
              /\ tokens'     = [tokens EXCEPT ![k] = Capacity]
              /\ lastRefill' = [lastRefill EXCEPT ![k] = now[c]]
              /\ created'    = [created EXCEPT ![k] = now[c]]
           \/ /\ k \in clients
              /\ UNCHANGED <<clients, tokens, lastRefill, created>>
        /\ UNCHANGED <<clock, blockedCnt, locals, taken, credited, raced>>

\* now is read once, before the CAS loop, and kept over its retries.
ReadClock(c) ==
    /\ At(c, "readClock")
    /\ now' = [now EXCEPT ![c] = clock]
    /\ Goto(c, "loadRefill")
    /\ UNCHANGED <<clock, shared, oldRefill, oldTokens, verdict, history>>

LoadRefill(c) ==
    /\ At(c, "loadRefill")
    /\ oldRefill' = [oldRefill EXCEPT ![c] = lastRefill[Key[c]]]
    /\ Goto(c, "loadTokens")
    /\ UNCHANGED <<clock, shared, now, oldTokens, verdict, history>>

\* The load, and the decision whether a whole token is there.
LoadTokens(c) ==
    /\ At(c, "loadTokens")
    /\ oldTokens' = [oldTokens EXCEPT ![c] = tokens[Key[c]]]
    /\ Goto(c, IF Short(NewTokens(tokens[Key[c]], Elapsed(c)))
                 THEN "block" ELSE "casTokens")
    /\ UNCHANGED <<clock, shared, now, oldRefill, verdict, history>>

Block(c) ==
    /\ At(c, "block")
    /\ blockedCnt' = blockedCnt + 1
    /\ Return(c, "deny")
    /\ UNCHANGED <<clock, clients, tokens, lastRefill, now, oldRefill,
                   oldTokens, history>>

CasTokens(c) ==
    LET k == Key[c]
        newTokens == NewTokens(oldTokens[c], Elapsed(c))
    IN  /\ At(c, "casTokens")
        /\ CasSucceeds(c)
        /\ tokens'   = [tokens EXCEPT ![k] = newTokens - Scale]
        /\ taken'    = [taken EXCEPT ![k] = @ + Scale]
        /\ credited' = [credited EXCEPT ![k] = @ + (newTokens - oldTokens[c])]
        /\ Goto(c, "casRefill")
        /\ UNCHANGED <<clock, clients, lastRefill, blockedCnt, locals,
                       created, raced>>

\* runtime.Gosched, then the next iteration.
CasTokensFailsMutant(c) ==
    /\ At(c, "casTokens")
    /\ ~CasSucceeds(c)
    /\ UNCHANGED vars

CasTokensFails(c) ==
    /\ At(c, "casTokens")
    /\ ~CasSucceeds(c)
    /\ Goto(c, "loadRefill")
    /\ UNCHANGED <<clock, shared, locals, history>>

\* What the CAS on LastRefillNano leaves there.
StampMutant(c) == lastRefill[Key[c]]
Stamp(c) ==
    IF lastRefill[Key[c]] = oldRefill[c] THEN now[c] ELSE lastRefill[Key[c]]

\* The result of this second CAS is not looked at.
CasRefill(c) ==
    /\ At(c, "casRefill")
    /\ lastRefill' = [lastRefill EXCEPT ![Key[c]] = Stamp(c)]
    /\ Return(c, "allow")
    /\ UNCHANGED <<clock, clients, tokens, blockedCnt, now, oldRefill,
                   oldTokens, history>>

\* Time goes on (assumed: it is never set back).
Tick ==
    /\ clock < MaxClock
    /\ clock' = clock + 1
    /\ UNCHANGED <<shared, pc, locals, history>>

\* One step of a call that has been made.
Run(c) ==
    \/ LoadOrStore(c) \/ ReadClock(c) \/ LoadRefill(c) \/ LoadTokens(c)
    \/ Block(c) \/ CasTokens(c) \/ CasTokensFails(c) \/ CasRefill(c)

Next == Tick \/ \E c \in Calls : Load(c) \/ Run(c)

Spec == Init /\ [][Next]_vars

\* The scheduler runs every goroutine (runtime.Gosched yields, it does not park).
FairSpec == Spec /\ \A c \in Calls : WF_vars(Run(c))

-----------------------------------------------------------------------------
(***************************************************************************)
(* No update of a bucket is lost: what it holds and what was spent on       *)
(* admitted frames is exactly what it started with and was refilled.  Two   *)
(* calls never leave with the same token, and a second creation of a bucket *)
(* does not refill it.                                                      *)
(***************************************************************************)
TokensConserved ==
    \A k \in Keys : tokens[k] + taken[k] = Capacity + credited[k]

(***************************************************************************)
(* A frame is denied only after the client really used up its burst: as     *)
(* many frames as the capacity holds tokens have been admitted before.      *)
(***************************************************************************)
NoFalseDenial ==
    \A c \in Calls : verdict[c] = "deny" => taken[Key[c]] + Scale > Capacity

\* A client was admitted at most a full burst plus what the rate yields in the
\* time since its bucket was made.
Within(k) == taken[k] <= Capacity + Refill(clock - created[k])

(***************************************************************************)
(* The purpose of the limiter, for as long as no two calls for the client   *)
(* have overlapped, as on a single stream, whatever the times of the calls. *)
(* Racing streams of one client can exceed it, because the two CASes of     *)
(* Allow are not one atomic update: a call between them credits the same    *)
(* interval again.                                                          *)
(***************************************************************************)
SerialAdmissionBound == \A k \in Keys \ raced : Within(k)

\* Every call of Allow comes to a verdict: the CAS loop cannot spin for ever.
EveryCallDecided ==
    \A c \in Calls : ~At(c, "idle") ~> At(c, "done")

(***************************************************************************)
(* Until two calls for a client overlap, the refill stamp of its bucket     *)
(* only moves forward, so no interval is credited twice.  (A call that read *)
(* the clock early and finishes late, after another one, moves it back.)    *)
(***************************************************************************)
RefillStampMonotone ==
    [][\A k \in clients \ raced' : lastRefill'[k] >= lastRefill[k]]_vars
=============================================================================
