----------------------------- MODULE MCOcsRating -----------------------------
(***************************************************************************)
(* Instances of OcsRating for TLC.  Each workload below is a pair of an     *)
(* Offer and an After; a configuration picks one.                           *)
(***************************************************************************)
EXTENDS OcsRating, TLC

CONSTANTS c1, c2, c3, c4,   \* the calls
          s1, s2,           \* subscribers with an account
          ghost,            \* a subscriber the OCS has no balance for
          x1, x2            \* Gy sessions

MCBalance == s1 :> 4 @@ s2 :> 3

Req(type, sub, sess, used) ==
    [type |-> type, sub |-> sub, sess |-> sess, used |-> used]

NoOrder == [c \in Calls |-> {}]

\* Any Gy client: all request types on shared sessions, an unknown
\* subscriber, an unsupported type and an empty session id.
GyOffer ==
    [c \in Calls |->
        {Req(t, s1, x1, n) : t \in {INITIAL, UPDATE, TERMINATE}, n \in {1, 3}}
        \cup {Req(INITIAL, s1, x2, 3), Req(TERMINATE, s1, x2, 0),
              Req(UPDATE, ghost, x1, 1), Req(4, s1, x1, 1),
              Req(INITIAL, s1, NoId, 1)}]

\* What pcef-core sends (services/pcef-core/internal/app/service.go): an UPDATE
\* per frame and a TERMINATE per evicted session, each under a session id made
\* from the time of the call.  A call's own name is such an id.
Pcef(c) == {Req(UPDATE, s2, c, n) : n \in 1 .. 2} \cup {Req(TERMINATE, s2, c, 0)}

\* Two clients, one request at a time each, with both kinds of traffic: the
\* PCEF's for one subscriber, and for the other sessions of an INITIAL and a
\* TERMINATE that reports any usage.
SessionsOffer ==
    c1 :> {Req(INITIAL, s1, x1, n) : n \in 1 .. 3} \cup Pcef(c1)
    @@ c2 :> {Req(TERMINATE, s1, x1, n) : n \in 0 .. 4} \cup Pcef(c2)
    @@ c3 :> {Req(INITIAL, s1, x2, n) : n \in 1 .. 3} \cup Pcef(c3)
    @@ c4 :> {Req(TERMINATE, s1, x2, n) : n \in 0 .. 4} \cup Pcef(c4)
SessionsAfter == c1 :> {} @@ c2 :> {c1} @@ c3 :> {} @@ c4 :> {c3}

\* One session whose TERMINATE is sent twice (a client's retry), the second
\* time without waiting for the first answer.
RetryOffer ==
    c1 :> {Req(INITIAL, s1, x1, 3)}
    @@ c2 :> {Req(TERMINATE, s1, x1, 1)} @@ c3 :> {Req(TERMINATE, s1, x1, 1)}
RetryAfter == c1 :> {} @@ c2 :> {c1} @@ c3 :> {c1}

\* The sessions workload satisfies the hypothesis of the theorems on orderly
\* clients; any Gy client, and a client that retries, need not.
ASSUME OrderlyWorkload == (Offer = SessionsOffer) <=> OrderlyTerminations
=============================================================================
