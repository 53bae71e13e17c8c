---------------------------- MODULE CreditService ----------------------------
(***************************************************************************)
(* What a Gy client may rely on: credit control as one sequential service.  *)
(* Every request is decided in one indivisible step between its arrival and *)
(* its answer, and the decision depends only on the balance and on the      *)
(* answers given so far.                                                    *)
(*                                                                          *)
(* The service promises nothing about how often a quantum is paid back: the *)
(* code does not (a TERMINATE sent twice may be paid twice).                *)
(***************************************************************************)
EXTENDS Naturals

CONSTANTS Calls, Accounts, InitialBalance, Offer,   \* as in OcsRating
          INITIAL, UPDATE, TERMINATE,               \* the request types
          DIAMETER_SUCCESS, DIAMETER_CREDIT_LIMIT_REACHED, InvalidArgument,
          NoId, NoRequest, NoAnswer

VARIABLES
    avail,     \* [Accounts -> Nat]  credit that can still be granted
    request,   \* what each call asks, NoRequest before it arrives
    outcome,   \* what the service has decided for it, NoAnswer before that
    answered   \* the calls whose client has the answer

service == <<avail, request, outcome, answered>>

Init ==
    /\ avail    = InitialBalance
    /\ request  = [c \in Calls |-> NoRequest]
    /\ outcome  = [c \in Calls |-> NoAnswer]
    /\ answered = {}

Charges(c)    == request[c].type \in {INITIAL, UPDATE}
Terminates(c) == request[c].type = TERMINATE
Succeeded(c)  == c \in answered /\ outcome[c].code = DIAMETER_SUCCESS

\* The quanta that clients were told session x was granted; whether a client
\* was told that it is closed.
Quanta(x) == {outcome[d].granted :
                d \in {e \in Calls : Succeeded(e) /\ Charges(e) /\ request[e].sess = x}}
Closed(x) == \E e \in Calls : Succeeded(e) /\ Terminates(e) /\ request[e].sess = x

Lesser(a, b) == IF a <= b THEN a ELSE b

Pending(c) == request[c] # NoRequest /\ outcome[c] = NoAnswer

Decide(c, code, granted) ==
    outcome' = [outcome EXCEPT ![c] = [code |-> code, granted |-> granted]]
Answer(c) == answered' = answered \cup {c}

Invalid(r) == NoId \in {r.sub, r.sess} \/ r.type \notin {INITIAL, UPDATE, TERMINATE}

\* A request arrives; one that is invalid, or of nobody's account, is answered.
Receive(c, r) ==
    /\ request[c] = NoRequest /\ c \notin answered
    /\ request' = [request EXCEPT ![c] = r]
    /\ \/ Invalid(r) /\ Decide(c, InvalidArgument, 0) /\ Answer(c)
       \/ /\ ~Invalid(r) /\ r.sub \notin Accounts
          /\ Decide(c, DIAMETER_CREDIT_LIMIT_REACHED, 0) /\ Answer(c)
       \/ ~Invalid(r) /\ r.sub \in Accounts /\ UNCHANGED <<outcome, answered>>
    /\ UNCHANGED avail

\* What was asked, or all there is.
Grant(c) ==
    LET s == request[c].sub
        n == Lesser(request[c].used, avail[s])
    IN  /\ Pending(c) /\ Charges(c)
        /\ avail[s] > 0
        /\ avail' = [avail EXCEPT ![s] = @ - n]
        /\ Decide(c, DIAMETER_SUCCESS, n)
        /\ UNCHANGED <<request, answered>>

\* What a session did not use of a quantum it was told of goes back.
Repay(c) ==
    /\ Pending(c) /\ Terminates(c)
    /\ \E q \in Quanta(request[c].sess) :
          avail' = [avail EXCEPT ![request[c].sub] = @ + (q - Lesser(request[c].used, q))]
    /\ Decide(c, DIAMETER_SUCCESS, 0)
    /\ UNCHANGED <<request, answered>>

\* A charge is refused for want of credit alone; a termination when no client
\* was told of an open session.
Refuse(c) ==
    /\ Pending(c)
    /\ \/ Charges(c) /\ avail[request[c].sub] = 0
       \/ Terminates(c) /\ (Quanta(request[c].sess) = {} \/ Closed(request[c].sess))
    /\ Decide(c, DIAMETER_CREDIT_LIMIT_REACHED, 0) /\ Answer(c)
    /\ UNCHANGED <<avail, request>>

Reply(c) ==
    /\ outcome[c] # NoAnswer /\ c \notin answered
    /\ Answer(c)
    /\ UNCHANGED <<avail, request, outcome>>

Next ==
    \E c \in Calls :
        \/ \E r \in Offer[c] : Receive(c, r)
        \/ Grant(c) \/ Repay(c) \/ Refuse(c) \/ Reply(c)

Spec == Init /\ [][Next]_service
=============================================================================
