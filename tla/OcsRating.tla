------------------------------ MODULE OcsRating ------------------------------
(***************************************************************************)
(* The online charging server (services/ocs-rating): the Gy handler         *)
(* RequestCreditControl and the three lock-free operations behind it,       *)
(* Reserve (INITIAL), CommitAndReserve (UPDATE) and Release (TERMINATE).    *)
(*                                                                          *)
(* gRPC runs every request in its own goroutine, and the operations         *)
(* synchronise through sync/atomic and sync.Map alone, so the grain of the  *)
(* model is one atomic load, compare-and-swap, add, or map access.          *)
(*                                                                          *)
(* A member of Calls is one RPC.  Offer[c] is what its client may send and  *)
(* After[c] the calls whose answers that client awaits first: with an empty *)
(* After all calls race.  Byte counters are natural numbers: the code only  *)
(* subtracts min(x, counter), so a uint64 cannot wrap below zero (TypeOK),  *)
(* and balances of some 2^37 bytes are far from wrapping above.             *)
(*                                                                          *)
(* A definition named XMutant is X with a plausible bug in it; it is not    *)
(* part of the specification, and shows that some property notices the bug. *)
(***************************************************************************)
EXTENDS UnitSums

CONSTANTS Calls,           \* the RPCs that may arrive
          Subscribers,     \* the subscriber ids clients may name
          Sessions,        \* the Gy session ids clients may name
          NoId,            \* the empty string in place of an id
          NoSession,       \* "no entry" in the map of sessions
          Accounts,        \* the subscribers with a balance (the bootstrap)
          InitialBalance,  \* [Accounts -> Nat], TotalBalanceBytes at bootstrap
          Offer,           \* [Calls -> SUBSET Request]
          After            \* [Calls -> SUBSET Calls]

INITIAL   == 1
UPDATE    == 2
TERMINATE == 3

DIAMETER_SUCCESS              == 2001
DIAMETER_CREDIT_LIMIT_REACHED == 4012
InvalidArgument               == 3     \* the gRPC status code

Request == [type : Nat, sub  : Subscribers \cup {NoId},
            sess : Sessions \cup {NoId}, used : Nat]

ASSUME NoIdAssumption == NoId \notin Subscribers \cup Sessions
ASSUME NoSessionAssumption == NoSession \notin Nat
ASSUME AccountsAssumption == Accounts \subseteq Subscribers
ASSUME BalanceAssumption == InitialBalance \in [Accounts -> Nat]
ASSUME OfferAssumption == Offer \in [Calls -> SUBSET Request]
ASSUME AfterAssumption == After \in [Calls -> SUBSET Calls]

VARIABLES
    total,     \* [Accounts -> Nat]  GyCreditState.TotalBalanceBytes
    reserved,  \* [Accounts -> Nat]  GyCreditState.ReservedBytes
    sessions,  \* [Sessions -> Nat \cup {NoSession}]  OcsSession.CurrentQuota
    pc,        \* where each call is
    req,       \* the request each call carries
    seen,      \* the counter value its last atomic load returned
    amount,    \* Reserve: granted; Release: session.CurrentQuota
    answer,    \* what it returned to its client
    charged,   \* history: bytes of the account debited for good
    inflight,  \* history: taken from total, not yet added to reserved
    settling   \* history: quota of a session already settled against total
               \* whose reserve is not yet cleared

counters == <<total, reserved>>
history  == <<charged, inflight, settling>>
vars     == <<counters, sessions, pc, req, seen, amount, answer, history>>

NoAnswer  == [code |-> 0, granted |-> 0]
NoRequest == [type |-> 0, sub |-> NoId, sess |-> NoId, used |-> 0]

Labels == {"idle", "loadReserved", "casReserved", "loadTotal", "casTotal",
           "addReserved", "storeSession", "loadSession", "refund",
           "loadRelease", "casRelease", "deleteSession", "done"}

TypeOK ==
    /\ total    \in [Accounts -> Nat]
    /\ reserved \in [Accounts -> Nat]
    /\ sessions \in [Sessions -> Nat \cup {NoSession}]
    /\ pc       \in [Calls -> Labels]
    /\ req      \in [Calls -> Request]
    /\ seen     \in [Calls -> Nat]
    /\ amount   \in [Calls -> Nat]
    /\ answer   \in [Calls -> [code : Nat, granted : Nat]]
    /\ charged  \in [Accounts -> Nat]
    /\ inflight \in [Accounts -> Int]
    /\ settling \in [Accounts -> Int]

Init ==
    /\ total    = InitialBalance
    /\ reserved = [s \in Accounts |-> 0]
    /\ sessions = [x \in Sessions |-> NoSession]
    /\ pc       = [c \in Calls |-> "idle"]
    /\ req      = [c \in Calls |-> NoRequest]
    /\ seen     = [c \in Calls |-> 0]
    /\ amount   = [c \in Calls |-> 0]
    /\ answer   = [c \in Calls |-> NoAnswer]
    /\ charged  = [s \in Accounts |-> 0]
    /\ inflight = [s \in Accounts |-> 0]
    /\ settling = [s \in Accounts |-> 0]

-----------------------------------------------------------------------------
\* min of two amounts of bytes, by which every debit is limited.
LeastMutant(a, b) == a
Least(a, b) == IF a <= b THEN a ELSE b

At(c, label) == pc[c] = label
Goto(c, label) == pc' = [pc EXCEPT ![c] = label]

\* The handler returns to the client.
Return(c, code, granted) ==
    /\ Goto(c, "done")
    /\ answer' = [answer EXCEPT ![c] = [code |-> code, granted |-> granted]]

\* Add n to the counter f of account s.
Plus(f, s, n) == [f EXCEPT ![s] = @ + n]

\* The compare and the swap of a CAS by call c on the counter f of its account:
\* the new value is computed from the value loaded.
CasSucceedsMutant(f, c) == TRUE
CasSucceeds(f, c) == f[req[c].sub] = seen[c]
Swap(f, c, n) == [f EXCEPT ![req[c].sub] = seen[c] - n]

(***************************************************************************)
(* RequestCreditControl up to the first access to shared mutable state.     *)
(* balances is never written after the bootstrap, so the lookup of the      *)
(* subscriber is part of the dispatch.                                      *)
(***************************************************************************)
Malformed(r) ==
    \/ NoId \in {r.sub, r.sess}
    \/ r.type \notin {INITIAL, UPDATE, TERMINATE}

Entry(type) ==
    CASE type = INITIAL   -> "loadTotal"
      [] type = UPDATE    -> "loadReserved"
      [] type = TERMINATE -> "loadSession"

Dispatch(c, r) ==
    /\ At(c, "idle")
    /\ \A d \in After[c] : At(d, "done")
    /\ req' = [req EXCEPT ![c] = r]
    /\ \/ /\ Malformed(r)
          /\ Return(c, InvalidArgument, 0)
       \/ /\ ~Malformed(r)
          /\ r.sub \notin Accounts
          /\ Return(c, DIAMETER_CREDIT_LIMIT_REACHED, 0)
       \/ /\ ~Malformed(r)
          /\ r.sub \in Accounts
          /\ Goto(c, Entry(r.type))
          /\ UNCHANGED answer
    /\ UNCHANGED <<counters, sessions, seen, amount, history>>

-----------------------------------------------------------------------------
(***************************************************************************)
(* CommitAndReserve: the used bytes leave the reserve in a CAS loop, then   *)
(* Reserve runs for the next quantum.  The handler passes UsedBytes as the  *)
(* requested amount too.                                                    *)
(***************************************************************************)
LoadReserved(c) ==
    /\ At(c, "loadReserved")
    /\ seen' = [seen EXCEPT ![c] = reserved[req[c].sub]]
    /\ Goto(c, "casReserved")
    /\ UNCHANGED <<counters, sessions, req, amount, answer, history>>

CasReserved(c) ==
    LET s == req[c].sub
        finalUsed == Least(req[c].used, seen[c])
    IN  /\ At(c, "casReserved")
        /\ CasSucceeds(reserved, c)
        /\ reserved' = Swap(reserved, c, finalUsed)
        /\ charged' = Plus(charged, s, finalUsed)
        /\ Goto(c, "loadTotal")
        /\ UNCHANGED <<total, sessions, req, seen, amount, answer,
                       inflight, settling>>

CasReservedFails(c) ==
    /\ At(c, "casReserved")
    /\ ~CasSucceeds(reserved, c)
    /\ Goto(c, "loadReserved")
    /\ UNCHANGED <<counters, sessions, req, seen, amount, answer, history>>

(***************************************************************************)
(* Reserve: move min(requested, total) from the balance to the reserve and  *)
(* record the session; an empty balance is the cut-off code.                *)
(***************************************************************************)
LoadTotal(c) ==
    /\ At(c, "loadTotal")
    /\ total[req[c].sub] # 0
    /\ seen' = [seen EXCEPT ![c] = total[req[c].sub]]
    /\ Goto(c, "casTotal")
    /\ UNCHANGED <<counters, sessions, req, amount, answer, history>>

LoadTotalEmptyMutant(c) ==
    /\ At(c, "loadTotal")
    /\ total[req[c].sub] < req[c].used
    /\ Return(c, DIAMETER_CREDIT_LIMIT_REACHED, 0)
    /\ UNCHANGED <<counters, sessions, req, seen, amount, history>>

LoadTotalEmpty(c) ==
    /\ At(c, "loadTotal")
    /\ total[req[c].sub] = 0
    /\ Return(c, DIAMETER_CREDIT_LIMIT_REACHED, 0)
    /\ UNCHANGED <<counters, sessions, req, seen, amount, history>>

CasTotal(c) ==
    LET s == req[c].sub
        granted == Least(req[c].used, seen[c])
    IN  /\ At(c, "casTotal")
        /\ CasSucceeds(total, c)
        /\ total' = Swap(total, c, granted)
        /\ inflight' = Plus(inflight, s, granted)
        /\ amount' = [amount EXCEPT ![c] = granted]
        /\ Goto(c, "addReserved")
        /\ UNCHANGED <<reserved, sessions, req, seen, answer, charged, settling>>

CasTotalFailsMutant(c) ==
    /\ At(c, "casTotal")
    /\ ~CasSucceeds(total, c)
    /\ UNCHANGED vars

CasTotalFails(c) ==
    /\ At(c, "casTotal")
    /\ ~CasSucceeds(total, c)
    /\ Goto(c, "loadTotal")
    /\ UNCHANGED <<counters, sessions, req, seen, amount, answer, history>>

AddReserved(c) ==
    LET s == req[c].sub
    IN  /\ At(c, "addReserved")
        /\ reserved' = Plus(reserved, s, amount[c])
        /\ inflight' = Plus(inflight, s, -amount[c])
        /\ Goto(c, "storeSession")
        /\ UNCHANGED <<total, sessions, req, seen, amount, answer,
                       charged, settling>>

StoreSessionMutant(c) ==
    /\ At(c, "storeSession")
    /\ sessions' = [sessions EXCEPT ![req[c].sess] = req[c].used]
    /\ Return(c, DIAMETER_SUCCESS, amount[c])
    /\ UNCHANGED <<counters, req, seen, amount, history>>

StoreSession(c) ==
    /\ At(c, "storeSession")
    /\ sessions' = [sessions EXCEPT ![req[c].sess] = amount[c]]
    /\ Return(c, DIAMETER_SUCCESS, amount[c])
    /\ UNCHANGED <<counters, req, seen, amount, history>>

-----------------------------------------------------------------------------
(***************************************************************************)
(* Release: look the session up, give its unused quota back to the balance, *)
(* clear its quota from the reserve in a CAS loop, delete the session.      *)
(***************************************************************************)
LoadSession(c) ==
    /\ At(c, "loadSession")
    /\ sessions[req[c].sess] # NoSession
    /\ amount' = [amount EXCEPT ![c] = sessions[req[c].sess]]
    /\ Goto(c, "refund")
    /\ UNCHANGED <<counters, sessions, req, seen, answer, history>>

\* No session under that id: the handler turns the error into the cut-off code.
LoadSessionMissing(c) ==
    /\ At(c, "loadSession")
    /\ sessions[req[c].sess] = NoSession
    /\ Return(c, DIAMETER_CREDIT_LIMIT_REACHED, 0)
    /\ UNCHANGED <<counters, sessions, req, seen, amount, history>>

Refund(c) ==
    LET s == req[c].sub
        spent == Least(req[c].used, amount[c])
    IN  /\ At(c, "refund")
        /\ total' = Plus(total, s, amount[c] - spent)
        /\ charged' = Plus(charged, s, spent)
        /\ settling' = Plus(settling, s, amount[c])
        /\ Goto(c, "loadRelease")
        /\ UNCHANGED <<reserved, sessions, req, seen, amount, answer, inflight>>

LoadRelease(c) ==
    /\ At(c, "loadRelease")
    /\ seen' = [seen EXCEPT ![c] = reserved[req[c].sub]]
    /\ Goto(c, "casRelease")
    /\ UNCHANGED <<counters, sessions, req, amount, answer, history>>

CasRelease(c) ==
    LET s == req[c].sub
        decrement == Least(amount[c], seen[c])
    IN  /\ At(c, "casRelease")
        /\ CasSucceeds(reserved, c)
        /\ reserved' = Swap(reserved, c, decrement)
        /\ settling' = Plus(settling, s, -amount[c])
        /\ Goto(c, "deleteSession")
        /\ UNCHANGED <<total, sessions, req, seen, amount, answer,
                       charged, inflight>>

CasReleaseFails(c) ==
    /\ At(c, "casRelease")
    /\ ~CasSucceeds(reserved, c)
    /\ Goto(c, "loadRelease")
    /\ UNCHANGED <<counters, sessions, req, seen, amount, answer, history>>

DeleteSession(c) ==
    /\ At(c, "deleteSession")
    /\ sessions' = [sessions EXCEPT ![req[c].sess] = NoSession]
    /\ Return(c, DIAMETER_SUCCESS, 0)
    /\ UNCHANGED <<counters, req, seen, amount, history>>

-----------------------------------------------------------------------------
\* One step of a call that has been dispatched.
Run(c) ==
    \/ LoadReserved(c) \/ CasReserved(c) \/ CasReservedFails(c)
    \/ LoadTotal(c) \/ LoadTotalEmpty(c) \/ CasTotal(c) \/ CasTotalFails(c)
    \/ AddReserved(c) \/ StoreSession(c)
    \/ LoadSession(c) \/ LoadSessionMissing(c) \/ Refund(c)
    \/ LoadRelease(c) \/ CasRelease(c) \/ CasReleaseFails(c)
    \/ DeleteSession(c)

Next == \E c \in Calls : Run(c) \/ \E r \in Offer[c] : Dispatch(c, r)

Spec == Init /\ [][Next]_vars

\* The Go scheduler runs every goroutine; clients may send nothing.
FairSpec == Spec /\ \A c \in Calls : WF_vars(Run(c))

-----------------------------------------------------------------------------
(***************************************************************************)
(* Orderly clients: a TERMINATE that names the session of another request   *)
(* is the only other request of that session, is sent by the subscriber     *)
(* that opened it with an INITIAL and after that was answered, and the      *)
(* subscriber sends no UPDATE.  Traffic in which no TERMINATE names the     *)
(* session of another request is orderly, too; pcef-core's is like this: it *)
(* makes a new session id for every request.                                *)
(***************************************************************************)
OrderlyTerminations ==
    \A c, d \in Calls : \A r \in Offer[c], q \in Offer[d] :
        c # d /\ r.type = TERMINATE /\ r.sess = q.sess =>
            /\ q.type = INITIAL /\ q.sub = r.sub /\ d \in After[c]
            /\ \A e \in Calls \ {c, d} : \A p \in Offer[e] : p.sess # r.sess
            /\ \A e \in Calls : \A p \in Offer[e] : p.type = UPDATE => p.sub # r.sub

\* No RPC is being served.
Quiescent == \A c \in Calls : pc[c] \in {"idle", "done"}

\* The bytes of account s wherever they are: in the balance, in the reserve,
\* on the way between the two, or charged.
Books(s) == total[s] + reserved[s] + inflight[s] + charged[s]

(***************************************************************************)
(* Whatever clients send, and however their requests interleave, no byte    *)
(* of an account disappears: the CAS loops of Reserve, CommitAndReserve and *)
(* Release never overwrite each other's updates.                            *)
(***************************************************************************)
CreditNeverLost ==
    \A s \in Accounts : Books(s) >= InitialBalance[s] + settling[s]

(***************************************************************************)
(* The books balance to the byte, at every point of every interleaving.     *)
(* This is what "accurate to 1 byte" (ocs-srs.md) asks of the server; it    *)
(* holds for the traffic the PCEF sends and for orderly sessions, not for   *)
(* every Gy client.                                                         *)
(***************************************************************************)
CreditConserved ==
    \A s \in Accounts : Books(s) = InitialBalance[s] + settling[s]

(***************************************************************************)
(* Seen from outside: the quanta granted to an account in all answers       *)
(* together never exceed its balance plus what terminations gave back.      *)
(* Two concurrent reservations must not both be granted the same bytes.     *)
(***************************************************************************)
GrantedTo(s) ==
    UnitSum([c \in Calls |-> IF req[c].sub = s THEN answer[c].granted ELSE 0])

\* The calls of account s whose refund has reached the balance.
HasRefunded(c, s) ==
    /\ req[c].sub = s
    /\ req[c].type = TERMINATE
    /\ pc[c] \in {"loadRelease", "casRelease", "deleteSession", "done"}
Refunded(s) ==
    UnitSum([c \in Calls |-> IF HasRefunded(c, s)
                                THEN amount[c] - Least(req[c].used, amount[c])
                                ELSE 0])
NoOversell ==
    \A s \in Accounts :
        GrantedTo(s) + total[s] <= InitialBalance[s] + Refunded(s)

(***************************************************************************)
(* Once every session has been terminated and no request is in progress,    *)
(* nothing is left in the reserve and balance plus charges are exactly the  *)
(* initial balance: a TERMINATE charges what was used and returns the rest. *)
(***************************************************************************)
BooksSettle ==
    (Quiescent /\ \A x \in Sessions : sessions[x] = NoSession) =>
        \A s \in Accounts :
            reserved[s] = 0 /\ total[s] + charged[s] = InitialBalance[s]

(***************************************************************************)
(* Every request the server accepts is answered: a CAS loop cannot retry    *)
(* for ever, because each failure is another call's success.                *)
(***************************************************************************)
EveryRequestAnswered ==
    \A c \in Calls : ~At(c, "idle") ~> At(c, "done")

(***************************************************************************)
(* The ledger this server is meant to be.  A termination settles when the   *)
(* refund reaches the balance.                                              *)
(***************************************************************************)
Ledger == INSTANCE CreditLedger WITH
            avail <- total,
            held  <- [s \in Accounts |-> reserved[s] + inflight[s] - settling[s]],
            spent <- charged

\* Every atomic step of the server is one ledger step or leaves the ledger
\* alone: interleaving the goroutines adds no behaviour the ledger lacks.
LedgerSpec == Ledger!Spec
(***************************************************************************)
(* The service its clients may take it for.  A call is decided by the CAS   *)
(* on the balance, by the refund, or by the load that finds no credit or no *)
(* session.                                                                 *)
(***************************************************************************)
Outcome(c) ==
    CASE pc[c] \in {"addReserved", "storeSession"} ->
            [code |-> DIAMETER_SUCCESS, granted |-> amount[c]]
      [] pc[c] \in {"loadRelease", "casRelease", "deleteSession"} ->
            [code |-> DIAMETER_SUCCESS, granted |-> 0]
      [] OTHER -> answer[c]

Service == INSTANCE CreditService WITH
             avail    <- total,
             request  <- req,
             outcome  <- [c \in Calls |-> Outcome(c)],
             answered <- {c \in Calls : At(c, "done")}

\* Whatever the clients send and however the goroutines interleave, the answers
\* are those of a service that decides one request at a time, each between its
\* arrival and its answer (linearizability): two requests never get the same
\* credit, none is refused while there is credit, and a client that was told of
\* its session can terminate it until somebody is told that it is closed.
ServiceSpec == Service!Spec
=============================================================================
