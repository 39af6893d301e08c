------------------------------ MODULE Exchange ------------------------------
(***************************************************************************)
(* The delivery pipeline under the event log: every gateway's durable      *)
(* outbox and inbox, the relay's mailboxes, and a sync call cut at the     *)
(* points where a lost message or a dead process leaves different state. A *)
(* copy <<e, p>> is the one envelope that carries e to p. A gateway is     *)
(* single-threaded: post and sync calls of one gateway never overlap,      *)
(* those of different gateways interleave freely.                          *)
(***************************************************************************)
EXTENDS EventOps

CONSTANTS
  Linked,      \* <<g, p>>: p is an active member and g has a route to it
  Audiences,   \* the recipient lists callers pass, as sets
  FlushLimit,  \* outbox rows one flush looks at (limit, 100 by default)
  PullLimit,   \* envelopes one pull returns (limit, 100 by default)
  Lossy,       \* whether calls to the relay may fail, before or after their effect
  MaxPosts,    \* bound: events in all logs together
  MaxCrashes,  \* bound: process deaths
  MaxExpiries  \* bound: envelopes whose lifetime runs out

ASSUME AudiencesAssumption == Audiences \subseteq SUBSET Gateways
ASSUME BoundsAssumption == MaxPosts \in Nat /\ MaxCrashes \in Nat
ASSUME LimitsAssumption == FlushLimit \in Nat \ {0} /\ PullLimit \in Nat \ {0}
ASSUME LossyAssumption == Lossy \in BOOLEAN
ASSUME MaxExpiriesAssumption == MaxExpiries \in Nat

VARIABLES
  log,       \* log[g]: the events table of g
  event,     \* event[e]: the signed content, fixed when e is posted
  outbox,    \* outbox[c]: status of c's row in its author's outbox
  mailbox,   \* mailbox[c]: c at the relay
  inbox,     \* inbox[c]: status of c's row in its recipient's inbox
  expired,   \* copies past expires_at_ms
  at,        \* at[g]: where the gateway process is
  posting,   \* posting[g]: author_seq of the event being fanned out, 0 if none
  todo,      \* todo[g]: recipients the running post has yet to queue for
  left,      \* left[g]: peers whose inbound route the running sync has yet to pull
  batch,     \* batch[g]: pulled copies still to be examined
  acks,      \* acks[g]: copies of the pull to be acknowledged
  returned,  \* history: events whose post call returned to its caller
  crashes    \* history: process deaths so far

stores == <<log, event, outbox, inbox>>
process == <<at, posting, todo, left, batch, acks>>
vars == <<log, event, outbox, mailbox, inbox, expired, at, posting, todo, left,
          batch, acks, returned, crashes>>

Copies == {c \in EventId \X Gateways : Author(c[1]) # c[2]}

TypeOK ==
  /\ log \in [Gateways -> SUBSET EventId]
  /\ event \in [EventId -> Content]
  /\ outbox \in [Copies -> {"none", "pending", "sent"}]
  /\ mailbox \in [Copies -> {"absent", "held", "acked"}]
  /\ inbox \in [Copies -> {"none", "pending", "accepted", "rejected"}]
  /\ expired \subseteq Copies /\ Cardinality(expired) <= MaxExpiries
  /\ at \in [Gateways -> {"idle", "post", "routes", "examine"}]
  /\ posting \in [Gateways -> 0..MaxSeq]
  /\ todo \in [Gateways -> SUBSET Gateways]
  /\ left \in [Gateways -> SUBSET Gateways]
  /\ batch \in [Gateways -> SUBSET Copies]
  /\ acks \in [Gateways -> SUBSET Copies]
  /\ returned \subseteq EventId
  /\ crashes \in 0..MaxCrashes

Queued == {c \in Copies : outbox[c] # "none"}

EL == INSTANCE EventLog WITH queued <- Queued

Init ==
  /\ log = [g \in Gateways |-> {}]
  /\ event = [e \in EventId |-> EL!Unposted]
  /\ outbox = [c \in Copies |-> "none"]
  /\ mailbox = [c \in Copies |-> "absent"]
  /\ inbox = [c \in Copies |-> "none"]
  /\ expired = {}
  /\ at = [g \in Gateways |-> "idle"]
  /\ posting = [g \in Gateways |-> 0]
  /\ todo = [g \in Gateways |-> {}]
  /\ left = [g \in Gateways |-> {}]
  /\ batch = [g \in Gateways |-> {}]
  /\ acks = [g \in Gateways |-> {}]
  /\ returned = {}
  /\ crashes = 0
-----------------------------------------------------------------------------
(* Flushing the outbox, at the end of a post and at both ends of a sync.   *)

Pending(g) == {c \in Copies : Author(c[1]) = g /\ outbox[c] = "pending"}

\* C holds the oldest of B, up to a limit.  Copies of later events were queued
\* later; those of one event in the order their recipients had.
Oldest(C, B, limit) ==
  /\ C \subseteq B
  /\ Cardinality(C) = IF Cardinality(B) < limit THEN Cardinality(B) ELSE limit
  /\ \A c \in C, b \in B \ C : AuthorSeq(c[1]) <= AuthorSeq(b[1])

\* pending_outbox: the rows a flush looks at, deliverable or not.
Due(g) == {C \in SUBSET Pending(g) : Oldest(C, Pending(g), FlushLimit)}

\* Relay.push of copies that arrive: stored, unless the relay has the id already,
\* acknowledged or not.
Stored(arrived) ==
  [c \in Copies |-> IF c \in arrived /\ mailbox[c] = "absent" THEN "held" ELSE mailbox[c]]

\* Faulty variant of Flush: finish_outbox whatever became of the push.
FlushUnchecked(due, arrived, confirmed) ==
  /\ arrived \subseteq due \ expired
  /\ confirmed \subseteq arrived
  /\ Lossy \/ confirmed = due \ expired
  /\ mailbox' = Stored(arrived)
  /\ outbox' = [c \in Copies |-> IF c \in due THEN "sent" ELSE outbox[c]]

\* flush_outbox: each row that is due is pushed; it becomes sent when the answer
\* comes back, and stays pending when the request or the answer is lost.
\* The relay refuses an expired envelope, whose row stays pending for ever.
Flush(due, arrived, confirmed) ==
  /\ arrived \subseteq due \ expired
  /\ confirmed \subseteq arrived
  /\ Lossy \/ confirmed = due \ expired
  /\ mailbox' = Stored(arrived)
  /\ outbox' = [c \in Copies |-> IF c \in confirmed THEN "sent" ELSE outbox[c]]

-----------------------------------------------------------------------------
(* Posting.                                                                *)

\* _post_event with a fresh key: sign on top of the heads and append_event.
BeginPost(g, s, R) ==
  LET e == <<g, NextSeq(log[g], g)>> IN
  /\ at[g] = "idle"
  /\ AuthorSeq(e) <= MaxSeq
  /\ Cardinality(EL!Appended) < MaxPosts
  /\ event' = [event EXCEPT ![e] = [space |-> s, parents |-> Heads(log[g], event, s),
                                    audience |-> R \ {g}]]
  /\ log' = [log EXCEPT ![g] = @ \cup {e}]
  /\ at' = [at EXCEPT ![g] = "post"]
  /\ posting' = [posting EXCEPT ![g] = AuthorSeq(e)]
  /\ todo' = [todo EXCEPT ![g] = R \ {g}]
  /\ UNCHANGED <<outbox, mailbox, inbox, expired, left, batch, acks, returned, crashes>>

\* One turn of the recipient loop: queue_outbox.
QueueFor(g, p) ==
  /\ at[g] = "post"
  /\ p \in todo[g]
  /\ <<g, p>> \in Linked
  /\ outbox' = [outbox EXCEPT ![<<<<g, posting[g]>>, p>>] = "pending"]
  /\ todo' = [todo EXCEPT ![g] = @ \ {p}]
  /\ UNCHANGED <<log, event, mailbox, inbox, expired, at, posting, left, batch, acks,
                 returned, crashes>>

\* The recipient loop raises ProtocolError; the rest is neither queued nor flushed.
RaiseFor(g, p) ==
  /\ at[g] = "post"
  /\ p \in todo[g]
  /\ <<g, p>> \notin Linked
  /\ at' = [at EXCEPT ![g] = "idle"]
  /\ posting' = [posting EXCEPT ![g] = 0]
  /\ todo' = [todo EXCEPT ![g] = {}]
  /\ UNCHANGED <<stores, mailbox, expired, left, batch, acks, returned, crashes>>

\* The loop is done: flush_outbox, then return the event.
Return(g, due, arrived, confirmed) ==
  /\ at[g] = "post"
  /\ todo[g] = {}
  /\ Flush(due, arrived, confirmed)
  /\ at' = [at EXCEPT ![g] = "idle"]
  /\ returned' = returned \cup {<<g, posting[g]>>}
  /\ posting' = [posting EXCEPT ![g] = 0]
  /\ UNCHANGED <<log, event, inbox, expired, todo, left, batch, acks, crashes>>

\* _post_event with the key of an event already in the log: returned at once.
Retry(g, e) ==
  /\ at[g] = "idle"
  /\ e \in log[g]
  /\ Author(e) = g
  /\ returned' = returned \cup {e}
  /\ UNCHANGED <<stores, mailbox, expired, process, crashes>>
-----------------------------------------------------------------------------
(* Synchronising.                                                          *)

\* sync starts with a flush and takes the list of active local routes.
StartSync(g, due, arrived, confirmed) ==
  /\ at[g] = "idle"
  /\ Flush(due, arrived, confirmed)
  /\ at' = [at EXCEPT ![g] = "routes"]
  /\ left' = [left EXCEPT ![g] = {p \in Gateways : <<p, g>> \in Linked}]
  /\ UNCHANGED <<log, event, inbox, expired, posting, todo, batch, acks, returned, crashes>>

\* What is stored on the route g handed to p, not acknowledged and not expired.
Held(g, p) ==
  {c \in Copies \ expired : c[2] = g /\ Author(c[1]) = p /\ mailbox[c] = "held"}

\* Faulty variant of Pulled: ORDER BY created_at_ms DESC.
PulledNewestFirst(g, p, C) ==
  /\ C \subseteq Held(g, p)
  /\ Cardinality(C) = IF Cardinality(Held(g, p)) < PullLimit
                      THEN Cardinality(Held(g, p)) ELSE PullLimit
  /\ \A c \in C, b \in Held(g, p) \ C : AuthorSeq(c[1]) >= AuthorSeq(b[1])

\* Relay.pull: the oldest envelopes of the route, also those a former sync left
\* pending.  They are examined in any order, as the group envelopes of one pull
\* whose timestamps tie are.
Pulled(g, p, C) == Oldest(C, Held(g, p), PullLimit)

\* sync turns to the next route and pulls it.
PullRoute(g, p) ==
  /\ at[g] = "routes"
  /\ p \in left[g]
  /\ left' = [left EXCEPT ![g] = @ \ {p}]
  /\ \E C \in SUBSET Held(g, p) : Pulled(g, p, C) /\ batch' = [batch EXCEPT ![g] = C]
  /\ at' = [at EXCEPT ![g] = "examine"]
  /\ UNCHANGED <<stores, mailbox, expired, posting, todo, acks, returned, crashes>>

\* pull raises ConnectionError: the route is skipped.
SkipRoute(g, p) ==
  /\ Lossy
  /\ at[g] = "routes"
  /\ p \in left[g]
  /\ left' = [left EXCEPT ![g] = @ \ {p}]
  /\ UNCHANGED <<stores, mailbox, expired, at, posting, todo, batch, acks, returned, crashes>>

\* What one turn of the loop over pulled envelopes writes to the inbox.
InboxStatus(c, verdict) ==
  CASE inbox[c] = "accepted" \/ verdict \in {"duplicate", "accept"} -> "accepted"
    [] inbox[c] # "accepted" /\ verdict \in {"gap", "missing"}     -> "pending"
    [] inbox[c] # "accepted" /\ verdict = "conflict"               -> "rejected"

Admitted(g, c, verdict) ==
  IF inbox[c] # "accepted" /\ verdict = "accept" THEN log[g] \cup {c[1]} ELSE log[g]

\* Faulty variants of Examine: pending envelopes are acknowledged with the rest,
\* and an event whose parents are missing is admitted.
ExamineAckingAll(g, c) ==
  LET verdict == Verdict(log[g], event, c[1]) IN
  /\ at[g] = "examine"
  /\ c \in batch[g]
  /\ batch' = [batch EXCEPT ![g] = @ \ {c}]
  /\ log' = [log EXCEPT ![g] = Admitted(g, c, verdict)]
  /\ inbox' = [inbox EXCEPT ![c] = InboxStatus(c, verdict)]
  /\ acks' = [acks EXCEPT ![g] = @ \cup {c}]
  /\ UNCHANGED <<event, outbox, mailbox, expired, at, posting, todo, left, returned, crashes>>

ExamineAdmittingOrphans(g, c) ==
  /\ at[g] = "examine"
  /\ c \in batch[g]
  /\ batch' = [batch EXCEPT ![g] = @ \ {c}]
  /\ log' = [log EXCEPT ![g] = @ \cup {c[1]}]
  /\ inbox' = [inbox EXCEPT ![c] = "accepted"]
  /\ acks' = [acks EXCEPT ![g] = @ \cup {c}]
  /\ UNCHANGED <<event, outbox, mailbox, expired, at, posting, todo, left, returned, crashes>>

\* One envelope: known ones are only acknowledged again, others go through
\* _accept_group_event; then mark_inbox, and all but the pending ones are acked.
Examine(g, c) ==
  LET verdict == Verdict(log[g], event, c[1]) IN
  /\ at[g] = "examine"
  /\ c \in batch[g]
  /\ batch' = [batch EXCEPT ![g] = @ \ {c}]
  /\ log' = [log EXCEPT ![g] = Admitted(g, c, verdict)]
  /\ inbox' = [inbox EXCEPT ![c] = InboxStatus(c, verdict)]
  /\ acks' = [acks EXCEPT ![g] = IF InboxStatus(c, verdict) = "pending" THEN @ ELSE @ \cup {c}]
  /\ UNCHANGED <<event, outbox, mailbox, expired, at, posting, todo, left, returned, crashes>>

\* What a dead process forgets: everything but its database.
Forget(g) ==
  /\ at' = [at EXCEPT ![g] = "idle"]
  /\ posting' = [posting EXCEPT ![g] = 0]
  /\ todo' = [todo EXCEPT ![g] = {}]
  /\ left' = [left EXCEPT ![g] = {}]
  /\ batch' = [batch EXCEPT ![g] = {}]
  /\ acks' = [acks EXCEPT ![g] = {}]

\* Faulty variant of DieBeforeMark: mark_inbox is committed before append_event.
DieBeforeAppend(g, c) ==
  /\ at[g] = "examine"
  /\ c \in batch[g]
  /\ inbox[c] # "accepted"
  /\ Verdict(log[g], event, c[1]) = "accept"
  /\ inbox' = [inbox EXCEPT ![c] = "accepted"]
  /\ Forget(g)
  /\ UNCHANGED <<log, event, outbox, mailbox, expired, returned, crashes>>

\* The process dies between append_event and mark_inbox.  Not counted in
\* crashes: it happens at most once for an event and a gateway.
DieBeforeMark(g, c) ==
  /\ at[g] = "examine"
  /\ c \in batch[g]
  /\ inbox[c] # "accepted"
  /\ Verdict(log[g], event, c[1]) = "accept"
  /\ log' = [log EXCEPT ![g] = @ \cup {c[1]}]
  /\ Forget(g)
  /\ UNCHANGED <<event, outbox, mailbox, inbox, expired, returned, crashes>>

Acked(C) == [c \in Copies |-> IF c \in C THEN "acked" ELSE mailbox[c]]

\* acknowledge, answered: the sync goes on with the next route.  Nothing to
\* acknowledge, no call.
Acknowledge(g) ==
  /\ at[g] = "examine"
  /\ batch[g] = {}
  /\ mailbox' = Acked(acks[g])
  /\ acks' = [acks EXCEPT ![g] = {}]
  /\ at' = [at EXCEPT ![g] = "routes"]
  /\ UNCHANGED <<stores, expired, posting, todo, left, batch, returned, crashes>>

\* acknowledge raises ConnectionError, the request or the answer being lost.
\* Nothing catches it: sync ends, the other routes and the last flush are left out.
AcknowledgeRaises(g, applied) ==
  /\ Lossy
  /\ at[g] = "examine"
  /\ batch[g] = {}
  /\ acks[g] # {}
  /\ mailbox' = IF applied THEN Acked(acks[g]) ELSE mailbox
  /\ Forget(g)
  /\ UNCHANGED <<stores, expired, returned, crashes>>

\* All routes visited: flush again and return.
EndSync(g, due, arrived, confirmed) ==
  /\ at[g] = "routes"
  /\ left[g] = {}
  /\ Flush(due, arrived, confirmed)
  /\ at' = [at EXCEPT ![g] = "idle"]
  /\ UNCHANGED <<log, event, inbox, expired, posting, todo, left, batch, acks,
                 returned, crashes>>
-----------------------------------------------------------------------------
(* The environment.                                                        *)

\* The gateway process dies, wherever it is, and is started again.
Crash(g) ==
  /\ crashes < MaxCrashes
  /\ Forget(g)
  /\ crashes' = crashes + 1
  /\ UNCHANGED <<stores, mailbox, expired, returned>>

\* The lifetime of an envelope runs out.
Expire(c) ==
  /\ c \in Queued \ expired
  /\ Cardinality(expired) < MaxExpiries
  /\ expired' = expired \cup {c}
  /\ UNCHANGED <<stores, mailbox, process, returned, crashes>>

Flushes(g) ==
  \E due \in Due(g) : \E arrived \in SUBSET due : \E confirmed \in SUBSET arrived :
    \/ Return(g, due, arrived, confirmed)
    \/ StartSync(g, due, arrived, confirmed)
    \/ EndSync(g, due, arrived, confirmed)

Next ==
  \/ \E g \in Gateways :
       \/ \E s \in Spaces, R \in Audiences : BeginPost(g, s, R)
       \/ \E p \in Gateways : QueueFor(g, p) \/ RaiseFor(g, p)
                              \/ PullRoute(g, p) \/ SkipRoute(g, p)
       \/ \E e \in EventId : Retry(g, e)
       \/ Flushes(g)
       \/ \E c \in batch[g] : Examine(g, c) \/ DieBeforeMark(g, c)
       \/ Acknowledge(g)
       \/ \E applied \in BOOLEAN : AcknowledgeRaises(g, applied)
       \/ Crash(g)
  \/ \E c \in Copies : Expire(c)

Spec == Init /\ [][Next]_vars

\* A running call goes on to its end, and the agent runtime calls sync again
\* and again (weak fairness).  The network is not down for ever: a flush, a pull or
\* an acknowledgement that is tried for ever gets through for ever (strong
\* fairness).  Posts, repeated posts, crashes and expiries are free.
Fairness ==
  \A g \in Gateways :
    /\ WF_vars(\E p \in Gateways : QueueFor(g, p) \/ RaiseFor(g, p))
    /\ WF_vars(Flushes(g))
    /\ SF_vars(\E due \in Due(g) : StartSync(g, due, due \ expired, due \ expired))
    /\ \A p \in Gateways \ {g} : SF_vars(PullRoute(g, p))
    /\ WF_vars(\E c \in batch[g] : Examine(g, c) \/ DieBeforeMark(g, c))
    /\ WF_vars(Acknowledge(g) \/ AcknowledgeRaises(g, TRUE))
    /\ SF_vars(Acknowledge(g) /\ acks[g] # {})

FairSpec == Spec /\ Fairness
-----------------------------------------------------------------------------
\* A copy is never lost between the databases: once queued it is pending at
\* its author, held by the relay or in its recipient's log, whichever request,
\* answer or acknowledgement is lost and whoever dies (finish_outbox only after
\* push, acknowledge only after append_event).
NoCopyLost ==
  \A c \in Queued :
    /\ outbox[c] = "pending" \/ mailbox[c] # "absent"
    /\ mailbox[c] = "acked" => c[1] \in log[c[2]]

\* An inbox row "accepted", which lets sync acknowledge without looking inside,
\* is only written for an event that is in the log (append_event before mark_inbox).
AcceptedIsLogged ==
  \A c \in Copies : inbox[c] = "accepted" => c[1] \in log[c[2]]

\* sync never rejects, and so drops for good, a copy an author's outbox queued.
NothingRejected == \A c \in Copies : inbox[c] # "rejected"

\* What the pipeline does to the logs is what the abstract event log allows.
ImplementsEventLog == EL!Spec

\* What a gateway must hold to admit x, x too: the past of its author and the parents,
\* of each of them again.
Needed(x) ==
  LET Complete(D) == \A e \in D : /\ event[e].parents \subseteq D
                                  /\ \A f \in EL!Appended : Author(f) = Author(e) /\ AuthorSeq(f) < AuthorSeq(e)
                                                            => f \in D IN
  {e \in EL!Appended : \A D \in SUBSET EL!Appended : x \in D /\ Complete(D) => e \in D}

\* Something c's recipient needs to admit it will never come: its envelope expired or
\* the post that should have queued it broke off.
Damaged(c) ==
  \E e \in Needed(c[1]) :
    /\ Author(e) # c[2] /\ e \notin log[c[2]]
    /\ \/ <<e, c[2]>> \in expired
       \/ outbox[<<e, c[2]>>] = "none"
          /\ ~(<<Author(e), posting[Author(e)]>> = e /\ c[2] \in todo[Author(e)])

\* Delivery: every queued copy gets into its recipient's log, through lost
\* requests, lost answers, crashes and restarts, unless an event it needs can
\* never come.
Delivered ==
  \A c \in Copies : outbox[c] # "none" ~> c[1] \in log[c[2]] \/ Damaged(c)
=============================================================================
