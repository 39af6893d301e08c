------------------------------ MODULE EventLog ------------------------------
(***************************************************************************)
(* The causal event log of one collective with fixed membership: how a     *)
(* gateway posts an event, at the grain of its SQLite commits, and which   *)
(* delivered events the other gateways admit.  The transport is abstract:  *)
(* once a copy is queued it may reach its recipient at any time, any       *)
(* number of times, in any order, or never.  Module Exchange refines it.   *)
(***************************************************************************)
EXTENDS EventOps

CONSTANTS
  Linked,      \* <<g, p>>: p is an active member and g has a route to it
  Audiences,   \* the recipient lists callers pass, as sets
  MaxPosts,    \* bound: events in all logs together
  MaxCrashes   \* bound: process deaths

ASSUME AudiencesAssumption == Audiences \subseteq SUBSET Gateways
ASSUME MaxPostsAssumption == MaxPosts \in Nat
ASSUME MaxCrashesAssumption == MaxCrashes \in Nat

VARIABLES
  log,       \* log[g]: the events table of g
  event,     \* event[e]: the signed content, fixed when e is posted
  queued,    \* <<e, p>>: the author of e committed an outbox row for p
  posting,   \* posting[g]: author_seq of the event being fanned out, 0 if none
  todo,      \* todo[g]: recipients the running post has yet to queue for
  returned,  \* history: events whose post call returned to its caller
  crashes    \* history: process deaths so far

vars == <<log, event, queued, posting, todo, returned, crashes>>

TypeOK ==
  /\ log \in [Gateways -> SUBSET EventId]
  /\ event \in [EventId -> Content]
  /\ queued \subseteq EventId \X Gateways
  /\ posting \in [Gateways -> 0..MaxSeq]
  /\ todo \in [Gateways -> SUBSET Gateways]
  /\ returned \subseteq EventId
  /\ crashes \in 0..MaxCrashes

\* The events some author has signed and committed.
Appended == {e \in EventId : e \in log[Author(e)]}

Unposted == [space |-> CHOOSE s \in Spaces : TRUE, parents |-> {}, audience |-> {}]

Init ==
  /\ log = [g \in Gateways |-> {}]
  /\ event = [e \in EventId |-> Unposted]
  /\ queued = {}
  /\ posting = [g \in Gateways |-> 0]
  /\ todo = [g \in Gateways |-> {}]
  /\ returned = {}
  /\ crashes = 0

\* Faulty variants of BeginPost: append_event moved behind the recipient loop,
\* and the heads read after append_event.
BeginPostUncommitted(g, s, R) ==
  LET e == <<g, NextSeq(log[g], g)>> IN
  /\ posting[g] = 0
  /\ AuthorSeq(e) <= MaxSeq
  /\ event' = [event EXCEPT ![e] = [space |-> s, parents |-> Heads(log[g], event, s),
                                    audience |-> R \ {g}]]
  /\ posting' = [posting EXCEPT ![g] = AuthorSeq(e)]
  /\ todo' = [todo EXCEPT ![g] = R \ {g}]
  /\ UNCHANGED <<log, queued, returned, crashes>>

BeginPostLateHeads(g, s, R) ==
  LET e == <<g, NextSeq(log[g], g)>> IN
  /\ posting[g] = 0
  /\ AuthorSeq(e) <= MaxSeq
  /\ log' = [log EXCEPT ![g] = @ \cup {e}]
  /\ event' = [event EXCEPT ![e] = [space |-> s, parents |-> Heads(log'[g], event, s),
                                    audience |-> R \ {g}]]
  /\ posting' = [posting EXCEPT ![g] = AuthorSeq(e)]
  /\ todo' = [todo EXCEPT ![g] = R \ {g}]
  /\ UNCHANGED <<queued, returned, crashes>>

\* _post_event with a fresh idempotency key: sign the next event on top of the
\* heads of the space and commit it (append_event), before any recipient is
\* looked at.
BeginPost(g, s, R) ==
  LET e == <<g, NextSeq(log[g], g)>> IN
  /\ posting[g] = 0
  /\ AuthorSeq(e) <= MaxSeq
  /\ Cardinality(Appended) < MaxPosts
  /\ event' = [event EXCEPT ![e] = [space |-> s, parents |-> Heads(log[g], event, s),
                                    audience |-> R \ {g}]]
  /\ log' = [log EXCEPT ![g] = @ \cup {e}]
  /\ posting' = [posting EXCEPT ![g] = AuthorSeq(e)]
  /\ todo' = [todo EXCEPT ![g] = R \ {g}]
  /\ UNCHANGED <<queued, returned, crashes>>

\* The recipient loop: one outbox row, committed on its own, per recipient.
QueueFor(g, p) ==
  /\ posting[g] # 0
  /\ p \in todo[g]
  /\ <<g, p>> \in Linked
  /\ queued' = queued \cup {<<<<g, posting[g]>>, p>>}
  /\ todo' = [todo EXCEPT ![g] = @ \ {p}]
  /\ UNCHANGED <<log, event, posting, returned, crashes>>

\* The recipient loop reaches a non-member or a member without a route and
\* raises ProtocolError: the event stays in the log, the rest is not queued.
RaiseFor(g, p) ==
  /\ posting[g] # 0
  /\ p \in todo[g]
  /\ <<g, p>> \notin Linked
  /\ posting' = [posting EXCEPT ![g] = 0]
  /\ todo' = [todo EXCEPT ![g] = {}]
  /\ UNCHANGED <<log, event, queued, returned, crashes>>

\* The loop is done; the caller gets the event.
Return(g) ==
  /\ posting[g] # 0
  /\ todo[g] = {}
  /\ returned' = returned \cup {<<g, posting[g]>>}
  /\ posting' = [posting EXCEPT ![g] = 0]
  /\ UNCHANGED <<log, event, queued, todo, crashes>>

\* _post_event with the key of an event already in the log: returned at once.
Retry(g, e) ==
  /\ posting[g] = 0
  /\ e \in log[g]
  /\ Author(e) = g
  /\ returned' = returned \cup {e}
  /\ UNCHANGED <<log, event, queued, posting, todo, crashes>>

\* The gateway process dies, inside a post or not, and is started again.
Crash(g) ==
  /\ crashes < MaxCrashes
  /\ posting' = [posting EXCEPT ![g] = 0]
  /\ todo' = [todo EXCEPT ![g] = {}]
  /\ crashes' = crashes + 1
  /\ UNCHANGED <<log, event, queued, returned>>

\* _accept_group_event on a copy that arrives: only an "accept" verdict
\* changes the store, by append_event.
Accept(g, e) ==
  /\ posting[g] = 0
  /\ <<e, g>> \in queued
  /\ Verdict(log[g], event, e) = "accept"
  /\ log' = [log EXCEPT ![g] = @ \cup {e}]
  /\ UNCHANGED <<event, queued, posting, todo, returned, crashes>>

Next ==
  \E g \in Gateways :
    \/ \E s \in Spaces, R \in Audiences : BeginPost(g, s, R)
    \/ \E p \in Gateways : QueueFor(g, p) \/ RaiseFor(g, p)
    \/ Return(g)
    \/ \E e \in EventId : Retry(g, e) \/ Accept(g, e)
    \/ Crash(g)

Spec == Init /\ [][Next]_vars
-----------------------------------------------------------------------------
\* Every log holds, of every author, a prefix of what that author posted, with
\* no hole: the sequence check of _accept_group_event against next_author_seq.
AuthorPrefix ==
  \A g, a \in Gateways : \E n \in 0..MaxSeq : SeqsBy(log[g], a) = 1..n

\* No gateway holds an event its author's own store does not hold: a crash
\* never leaves a copy travelling whose sequence number could be reused.
NothingUnsigned ==
  /\ \A g \in Gateways : log[g] \subseteq Appended
  /\ \A c \in queued : c[1] \in Appended

\* A gateway holds an event only with all its causal parents, whatever order
\* the copies arrived in (the missing-parent check of _accept_group_event).
CausallyClosed ==
  \A g \in Gateways : \A e \in log[g] : event[e].parents \subseteq log[g]

\* The assertion "event graph contains a causal cycle" of
\* _causally_ordered_events never fires: every set of events has one none of
\* whose parents is in it, so the topological sort always completes.
NoCausalCycle ==
  \A S \in SUBSET Appended : S # {} => \E e \in S : event[e].parents \cap S = {}

\* The rejection "author sequence conflict" is unreachable: a copy that may
\* still arrive is at worst early, and waiting (CausalError) is the right answer.
NoSequenceConflict ==
  \A c \in queued : Verdict(log[c[2]], event, c[1]) # "conflict"

\* A signed event never changes once posted, and logs only grow: what a gateway
\* has verified and shown to its agent is never taken back or rewritten.
LogsAreImmutable ==
  [][/\ \A g \in Gateways : log[g] \subseteq log'[g]
     /\ \A e \in Appended : event'[e] = event[e]]_vars

\* A post that returned to its caller has a durable outbox row for every
\* recipient it was given (README: transactional, retryable outboxes).
ReturnedMeansQueued ==
  \A e \in returned : \A p \in event[e].audience : <<e, p>> \in queued
=============================================================================
