--------------------------- MODULE MCRelayService ---------------------------
(***************************************************************************)
(* A small instance of RelayService for TLC.                               *)
(***************************************************************************)
EXTENDS RelayService

CONSTANTS alpha, beta, letter, file, agent

Two == {alpha, beta}
Things == {letter, file, agent}
Sizes == [i \in Things |-> CASE i = letter -> 1 [] i = file -> 2 [] i = agent -> 0]
AlphaBehindBetaAhead == [p \in Two |-> IF p = alpha THEN -1 ELSE 1]

FirstTwice == [n \in 1..MaxRequests |-> IF n = 1 THEN 2 ELSE 1]

To(op, p, i, r, life) == [op |-> op, by |-> p, item |-> i, route |-> r, life |-> life]

CreateShortLived == To("create", alpha, agent, alpha, 1)
PullCreated == To("pull", alpha, letter, <<1, 1>>, 0)
PushLetter == To("push", alpha, letter, beta, 0)
PullContact(p) == To("pull", p, letter, p, 0)
RevokeContact == To("revoke", beta, letter, beta, 0)
PublishAgent(p) == To("publish", p, agent, p, 2)
PutFile(p) == To("put", p, file, p, 1)
OnFile(op) == To(op, beta, file, beta, 0)

AllCalls ==
  {CreateShortLived, PullCreated, PushLetter, RevokeContact, OnFile("get"), OnFile("delete")}
    \cup UNION {{PullContact(p), PublishAgent(p), PutFile(p)} : p \in Two}

\* The first request, which may arrive twice, and what it races with: alpha makes
\* short-lived routes and pulls from one, it writes to beta while beta retires the
\* route or while it is charged for a blob as well, beta pulls from the route it
\* retires, both publish the one agent's card, both upload the same bytes.
SomeRaces ==
  {CreateShortLived} \X {CreateShortLived, PullCreated}
    \cup {PushLetter} \X {PushLetter, RevokeContact, PutFile(alpha)}
    \cup {PullContact(beta)} \X {RevokeContact}
    \cup {PublishAgent(alpha)} \X {PublishAgent(beta), RevokeContact}
    \cup {PutFile(beta)} \X {PutFile(alpha), OnFile("get"), OnFile("delete")}
=============================================================================
