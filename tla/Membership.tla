----------------------------- MODULE Membership -----------------------------
(***************************************************************************)
(* Joining, governed removal and epoch rotation in one collective: the     *)
(* members and the first key come with a sealed invitation, proposals and  *)
(* approvals travel as group events under the author's current epoch key,  *)
(* the new key travels as sealed control envelopes, and every gateway      *)
(* decides alone, from its own log, whether a removal is authorized.       *)
(* Queued envelopes are at the relay at once; what losing or delaying one  *)
(* does is the subject of Exchange.  A gateway that is away does not pull. *)
(***************************************************************************)
EXTENDS EventOps

CONSTANTS
  Founders,    \* gateways that may create the collective
  Leads,       \* gateways whose agents propose removals
  Targets,     \* members somebody proposes to remove
  Thresholds,  \* thresholds proposals carry
  MaxKeys,     \* bound: epoch keys generated
  MaxEvents,   \* bound: events in all logs together
  MaxCrashes   \* bound: calls cut short while a key is made or changed

ASSUME MembersAssumption ==
  /\ IsFiniteSet(Gateways)
  /\ Founders \subseteq Gateways /\ Leads \subseteq Gateways
  /\ Targets \subseteq Gateways /\ Targets # {}
ASSUME ThresholdsAssumption == Thresholds \subseteq Nat \ {0} /\ Thresholds # {}
ASSUME BoundsAssumption ==
  MaxKeys \in Nat /\ MaxEvents \in Nat /\ MaxCrashes \in Nat /\ MaxSeq > 0

VARIABLES
  log,      \* log[g]: the events table of g
  event,    \* event[e]: the signed content and the key it was encrypted under
  key,      \* key[g]: the collective row of g, its epoch and that epoch's key; or NoKey
  active,   \* active[g]: the members g holds active
  status,   \* status[g][p]: g's governance row for the proposal posted as p
  copies,   \* <<e, h>>: group envelope for h at the relay, not acknowledged
  invited,  \* gateways with a sealed invitation at the relay, not acknowledged
  updates,  \* sealed epoch updates at the relay, not acknowledged
  batch,    \* batch[g]: group envelopes of the route g is working through
  ubatch,   \* ubatch[g]: epoch updates of the route g is working through
  keys,     \* history: epoch keys generated so far
  crashes,  \* history: calls cut short so far
  gone      \* history: gateways that executed their own removal

vars ==
  <<log, event, key, active, status, copies, invited, updates, batch, ubatch, keys, crashes,
    gone>>

\* key[g] holds the columns epoch and epoch_key, which the store only ever writes
\* together; a serial number stands for the bytes of a generated key.
Serials == 0..MaxKeys
Keys == [epoch : 0..MaxKeys, serial : Serials]
NoKey == [epoch |-> 0, serial |-> 0]
FirstKey == [epoch |-> 1, serial |-> 1]

\* A proposal is named by the event that proposes it; about is that event.
GovernanceContent ==
  [space : Spaces, parents : SUBSET EventId, kind : {"proposed", "approved", "removed"},
   about : EventId, target : Targets, threshold : Thresholds, key : Serials]

Unposted ==
  [space |-> CHOOSE s \in Spaces : TRUE, parents |-> {}, kind |-> "removed",
   about |-> CHOOSE e \in EventId : TRUE, target |-> CHOOSE x \in Targets : TRUE,
   threshold |-> CHOOSE t \in Thresholds : TRUE, key |-> 0]

Update ==
  [to : Gateways, sender : Gateways, proposal : EventId, removed : Targets,
   old : 0..MaxKeys, new : Keys, remaining : SUBSET Gateways]

TypeOK ==
  /\ log \in [Gateways -> SUBSET EventId]
  /\ event \in [EventId -> GovernanceContent]
  /\ key \in [Gateways -> Keys]
  /\ active \in [Gateways -> SUBSET Gateways]
  /\ status \in [Gateways -> [EventId -> {"none", "open", "authorized", "executed"}]]
  /\ copies \subseteq EventId \X Gateways
  /\ invited \subseteq Gateways
  /\ updates \subseteq Update
  /\ batch \in [Gateways -> SUBSET (EventId \X Gateways)]
  /\ ubatch \in [Gateways -> SUBSET Update]
  /\ keys \in 0..MaxKeys
  /\ crashes \in 0..MaxCrashes
  /\ gone \subseteq Gateways

\* Nobody holds a row of the collective, nor of its members.
Init ==
  /\ log = [g \in Gateways |-> {}]
  /\ event = [e \in EventId |-> Unposted]
  /\ key = [g \in Gateways |-> NoKey]
  /\ active = [g \in Gateways |-> {}]
  /\ status = [g \in Gateways |-> [p \in EventId |-> "none"]]
  /\ copies = {}
  /\ invited = {}
  /\ updates = {}
  /\ batch = [g \in Gateways |-> {}]
  /\ ubatch = [g \in Gateways |-> {}]
  /\ keys = 0
  /\ crashes = 0
  /\ gone = {}

\* A gateway runs one call at a time: nothing else happens inside a sync.
Idle(g) == batch[g] = {} /\ ubatch[g] = {}

Joined(g) == active[g] # {}
-----------------------------------------------------------------------------
(* Creating the collective and joining it.  Everybody is a member from the *)
(* start: there is no call that adds one later.                            *)

\* add_collective at g: the row with the first key, and every member active.
Add(g) ==
  /\ key' = [key EXCEPT ![g] = FirstKey]
  /\ active' = [active EXCEPT ![g] = Gateways]

\* create_collective: the others are invited one by one, and a call cut short
\* (by a death, or a relay that grants no return route) has invited only some.
CreateCollective(g, R) ==
  /\ g \in Founders /\ keys = 0 /\ MaxKeys > 0
  /\ R \subseteq Gateways \ {g}
  /\ crashes' = IF R = Gateways \ {g} THEN crashes ELSE crashes + 1
  /\ crashes' <= MaxCrashes
  /\ Add(g)
  /\ invited' = R
  /\ keys' = keys + 1
  /\ UNCHANGED <<log, event, status, copies, updates, batch, ubatch, gone>>

\* Faulty variant of Fits: known collectives are not compared.
FitsUnchecked(g) == TRUE

\* _accept_invitation_content: the gateway does not know the collective, or knows
\* it with the epoch and the key of the invitation.
Fits(g) == key[g] \in {NoKey, FirstKey}

\* An invitation comes over the contact route, which the same sync may fail to
\* pull when it pulls others.  It is accepted or rejected for good.
AcceptInvitation(g) ==
  /\ Idle(g) /\ g \in invited /\ Fits(g)
  /\ Add(g)
  /\ invited' = invited \ {g}
  /\ UNCHANGED <<log, event, status, copies, updates, batch, ubatch, keys, crashes, gone>>

\* The process dies behind add_collective: the invitation comes again.
AcceptInvitationDies(g) ==
  /\ Idle(g) /\ g \in invited /\ Fits(g)
  /\ crashes < MaxCrashes
  /\ Add(g)
  /\ crashes' = crashes + 1
  /\ UNCHANGED <<log, event, status, copies, invited, updates, batch, ubatch, keys, gone>>

RejectInvitation(g) ==
  /\ Idle(g) /\ g \in invited /\ ~Fits(g)
  /\ invited' = invited \ {g}
  /\ UNCHANGED <<log, event, key, active, status, copies, updates, batch, ubatch, keys, crashes, gone>>
-----------------------------------------------------------------------------
(* Governance: what a gateway's log says about a proposal.                 *)

\* The distinct members of A whose approval is in L; proposing is approving.
Approvers(L, ev, A, p) ==
  {Author(p)} \cup
  {Author(e) : e \in {x \in L : ev[x].kind = "approved" /\ ev[x].about = p /\ Author(x) \in A}}

\* Faulty variant of Rebuilt: counts approval events, not approving members.
RebuiltCountingEvents(old, L, ev, A, p) ==
  IF p \notin L \/ old = "executed" THEN old
  ELSE IF 1 + Cardinality({x \in L : ev[x].kind = "approved" /\ ev[x].about = p})
            >= ev[p].threshold
       THEN "authorized" ELSE "open"

\* _rebuild_governance after an event about p: an executed proposal stays
\* executed, any other is counted afresh against the members active now.
Rebuilt(old, L, ev, A, p) ==
  IF p \notin L \/ old = "executed" THEN old
  ELSE IF Cardinality(Approvers(L, ev, A, p)) >= ev[p].threshold
       THEN "authorized" ELSE "open"

\* append_event with its projection: the log and the governance rows of g once
\* it holds e, whose content is c.
Append(g, e, ev) ==
  /\ log' = [log EXCEPT ![g] = @ \cup {e}]
  /\ status' = IF ev[e].kind = "removed" THEN status
               ELSE [status EXCEPT ![g][ev[e].about] =
                       Rebuilt(@, log[g] \cup {e}, ev, active[g], ev[e].about)]

NewEvent(g) == <<g, NextSeq(log[g], g)>>

CanPost(g) ==
  /\ AuthorSeq(NewEvent(g)) <= MaxSeq
  /\ Cardinality({e \in EventId : e \in log[Author(e)]}) < MaxEvents

\* The content _post_event signs, to be encrypted under k.
SignedContent(g, kind, p, x, t, k) ==
  LET s == CHOOSE s \in Spaces : TRUE IN
  [space |-> s, parents |-> Heads(log[g], event, s), kind |-> kind,
   about |-> p, target |-> x, threshold |-> t, key |-> k.serial]

CopiesFor(e, R) == {<<e, h>> : h \in R}

\* The recipients agents give: the other active members, with or without the
\* member the proposal is about (tests/test_governance.py does both).
Recipients(g, x) == {active[g] \ {g}, active[g] \ {g, x}}

\* propose_member_removal.
Propose(g, x, t, R) ==
  LET p == NewEvent(g)
      ev == [event EXCEPT ![p] = SignedContent(g, "proposed", p, x, t, key[g])] IN
  /\ g \in Leads /\ Idle(g) /\ CanPost(g)
  /\ x # g /\ x \in active[g]
  /\ t < Cardinality(active[g])
  /\ R \in Recipients(g, x)
  /\ event' = ev
  /\ Append(g, p, ev)
  /\ copies' = copies \cup CopiesFor(p, R)
  /\ UNCHANGED <<key, active, invited, updates, batch, ubatch, keys, crashes, gone>>

\* approve_proposal, for a proposal the gateway knows of: its own or another's,
\* whether it has approved before or not.
Approve(g, p, R) ==
  LET e == NewEvent(g)
      ev == [event EXCEPT ![e] =
               SignedContent(g, "approved", p, event[p].target, event[p].threshold, key[g])] IN
  /\ Idle(g) /\ CanPost(g)
  /\ status[g][p] # "none"
  /\ R \in Recipients(g, event[p].target)
  /\ event' = ev
  /\ Append(g, e, ev)
  /\ copies' = copies \cup CopiesFor(e, R)
  /\ UNCHANGED <<key, active, invited, updates, batch, ubatch, keys, crashes, gone>>
-----------------------------------------------------------------------------
(* Execution of an authorized removal, whole or cut short by a crash.      *)

\* Faulty variants of NewKey: the epoch advances, the key stays; and the epoch is
\* taken from the number of all keys, one too high.
NewKeyReused(g) == [epoch |-> key[g].epoch + 1, serial |-> key[g].serial]
NewKeyCounted(g) == [epoch |-> keys + 2, serial |-> keys + 1]

NewKey(g) == [epoch |-> key[g].epoch + 1, serial |-> keys + 1]

Remaining(g, p) == active[g] \ {event[p].target}

\* The epoch updates execute_member_removal seals, one for each member of S.
Sealed(g, p, S) ==
  {[to |-> h, sender |-> g, proposal |-> p, removed |-> event[p].target,
    old |-> key[g].epoch, new |-> NewKey(g), remaining |-> Remaining(g, p)] : h \in S}

\* Only the status is looked at: whoever holds the proposal authorized may execute
\* it, the member it removes as well.
MayExecute(g, p) ==
  /\ Idle(g)
  /\ status[g][p] = "authorized"
  /\ keys < MaxKeys
  /\ keys' = keys + 1

\* update_collective_epoch at g.
Rekey(g, x, k) ==
  /\ key' = [key EXCEPT ![g] = k]
  /\ active' = [active EXCEPT ![g] = @ \ {x}]

\* execute_member_removal: seal the new key for every remaining member, install
\* it, mark the proposal executed, post membership.removed under the new key.
Execute(g, p) ==
  LET x == event[p].target
      e == NewEvent(g)
      R == Remaining(g, p) \ {g} IN
  /\ MayExecute(g, p) /\ CanPost(g)
  /\ x \in active[g]
  /\ updates' = updates \cup Sealed(g, p, R)
  /\ Rekey(g, x, NewKey(g))
  /\ status' = [status EXCEPT ![g][p] = "executed"]
  /\ log' = [log EXCEPT ![g] = @ \cup {e}]
  /\ event' = [event EXCEPT ![e] = SignedContent(g, "removed", p, x, event[p].threshold, NewKey(g))]
  /\ copies' = copies \cup CopiesFor(e, R)
  /\ gone' = gone \cup ({g} \cap {x})
  /\ UNCHANGED <<invited, batch, ubatch, crashes>>

\* A second proposal to remove a member already removed: update_collective_epoch
\* raises ValueError ("removed member was not active"), with the updates queued.
ExecuteStale(g, p) ==
  /\ MayExecute(g, p)
  /\ event[p].target \notin active[g]
  /\ updates' = updates \cup Sealed(g, p, Remaining(g, p) \ {g})
  /\ UNCHANGED <<log, event, key, active, status, copies, invited, batch, ubatch, crashes, gone>>

\* The process dies while the updates are queued: those to S are.
ExecuteDiesSealing(g, p, S) ==
  /\ MayExecute(g, p)
  /\ crashes < MaxCrashes
  /\ S \subseteq Remaining(g, p) \ {g}
  /\ updates' = updates \cup Sealed(g, p, S)
  /\ crashes' = crashes + 1
  /\ UNCHANGED <<log, event, key, active, status, copies, invited, batch, ubatch, gone>>

\* It dies after update_collective_epoch, before or after mark_proposal_executed.
ExecuteDiesRekeyed(g, p, marked) ==
  /\ MayExecute(g, p)
  /\ crashes < MaxCrashes
  /\ event[p].target \in active[g]
  /\ updates' = updates \cup Sealed(g, p, Remaining(g, p) \ {g})
  /\ Rekey(g, event[p].target, NewKey(g))
  /\ status' = IF marked THEN [status EXCEPT ![g][p] = "executed"] ELSE status
  /\ crashes' = crashes + 1
  /\ gone' = gone \cup ({g} \cap {event[p].target})
  /\ UNCHANGED <<log, event, copies, invited, batch, ubatch>>
-----------------------------------------------------------------------------
(* Synchronising: one route at a time, its sealed envelopes first.         *)

\* sync pulls the route it gave to h.
PullRoute(g, h) ==
  /\ Idle(g)
  /\ batch' = [batch EXCEPT ![g] = {c \in copies : c[2] = g /\ Author(c[1]) = h}]
  /\ ubatch' = [ubatch EXCEPT ![g] = {u \in updates : u.to = g /\ u.sender = h}]
  /\ UNCHANGED <<log, event, key, active, status, copies, invited, updates, keys, crashes, gone>>

\* The conditions of _accept_epoch_update, and of update_collective_epoch after them.
Acceptable(g, u) ==
  /\ u.sender \in active[g]
  /\ status[g][u.proposal] = "authorized"
  /\ event[u.proposal].target = u.removed
  /\ key[g].epoch = u.old
  /\ u.new.epoch = u.old + 1
  /\ u.remaining = active[g] \ {u.removed}
  /\ g \in u.remaining
  /\ u.removed \in active[g]

\* Faulty variant of InstallUpdate: the key is installed, the member stays active.
InstallKeyOnly(g, u) ==
  /\ u \in ubatch[g] /\ Acceptable(g, u)
  /\ key' = [key EXCEPT ![g] = u.new]
  /\ status' = [status EXCEPT ![g][u.proposal] = "executed"]
  /\ ubatch' = [ubatch EXCEPT ![g] = @ \ {u}]
  /\ updates' = updates \ {u}
  /\ UNCHANGED <<log, event, active, copies, invited, batch, keys, crashes, gone>>

\* An epoch update is installed or rejected for good; either way acknowledged.
InstallUpdate(g, u) ==
  /\ u \in ubatch[g] /\ Acceptable(g, u)
  /\ Rekey(g, u.removed, u.new)
  /\ status' = [status EXCEPT ![g][u.proposal] = "executed"]
  /\ ubatch' = [ubatch EXCEPT ![g] = @ \ {u}]
  /\ updates' = updates \ {u}
  /\ UNCHANGED <<log, event, copies, invited, batch, keys, crashes, gone>>

\* The process dies between update_collective_epoch and mark_proposal_executed:
\* the update is not acknowledged and comes again.
InstallDiesUnmarked(g, u) ==
  /\ u \in ubatch[g] /\ Acceptable(g, u)
  /\ crashes < MaxCrashes
  /\ Rekey(g, u.removed, u.new)
  /\ batch' = [batch EXCEPT ![g] = {}]
  /\ ubatch' = [ubatch EXCEPT ![g] = {}]
  /\ crashes' = crashes + 1
  /\ UNCHANGED <<log, event, status, copies, invited, updates, keys, gone>>

RejectUpdate(g, u) ==
  /\ u \in ubatch[g] /\ ~Acceptable(g, u)
  /\ ubatch' = [ubatch EXCEPT ![g] = @ \ {u}]
  /\ updates' = updates \ {u}
  /\ UNCHANGED <<log, event, key, active, status, copies, invited, batch, keys, crashes, gone>>

\* A group envelope opens under the key g holds now, and only from an author
\* g holds active.
Opens(g, e) == event[e].key = key[g].serial /\ Author(e) \in active[g]

\* _accept_group_event, once the route's sealed envelopes are done: admit;
\* leave pending; or drop, as a duplicate or because it does not open.
AdmitCopy(g, c) ==
  /\ ubatch[g] = {} /\ c \in batch[g]
  /\ Opens(g, c[1]) /\ Verdict(log[g], event, c[1]) = "accept"
  /\ Append(g, c[1], event)
  /\ batch' = [batch EXCEPT ![g] = @ \ {c}]
  /\ copies' = copies \ {c}
  /\ UNCHANGED <<event, key, active, invited, updates, ubatch, keys, crashes, gone>>

HoldCopy(g, c) ==
  /\ ubatch[g] = {} /\ c \in batch[g]
  /\ Opens(g, c[1]) /\ Verdict(log[g], event, c[1]) \in {"gap", "missing"}
  /\ batch' = [batch EXCEPT ![g] = @ \ {c}]
  /\ UNCHANGED <<log, event, key, active, status, copies, invited, updates, ubatch, keys, crashes, gone>>

DropCopy(g, c) ==
  /\ ubatch[g] = {} /\ c \in batch[g]
  /\ ~Opens(g, c[1]) \/ Verdict(log[g], event, c[1]) \in {"duplicate", "conflict"}
  /\ batch' = [batch EXCEPT ![g] = @ \ {c}]
  /\ copies' = copies \ {c}
  /\ UNCHANGED <<log, event, key, active, status, invited, updates, ubatch, keys, crashes, gone>>

ExecuteStep(g, p) ==
  \/ Execute(g, p)
  \/ ExecuteStale(g, p)
  \/ \E S \in SUBSET Gateways : ExecuteDiesSealing(g, p, S)
  \/ \E marked \in BOOLEAN : ExecuteDiesRekeyed(g, p, marked)

Next ==
  \E g \in Gateways :
    \/ \E R \in SUBSET Gateways : CreateCollective(g, R)
    \/ AcceptInvitation(g) \/ AcceptInvitationDies(g) \/ RejectInvitation(g)
    \/ \E x \in Targets, t \in Thresholds : \E R \in Recipients(g, x) : Propose(g, x, t, R)
    \/ \E p \in log[g] : \E R \in Recipients(g, event[p].target) : Approve(g, p, R)
    \/ \E p \in log[g] : ExecuteStep(g, p)
    \/ \E h \in Gateways : PullRoute(g, h)
    \/ \E u \in ubatch[g] : InstallUpdate(g, u) \/ InstallDiesUnmarked(g, u) \/ RejectUpdate(g, u)
    \/ \E c \in batch[g] : AdmitCopy(g, c) \/ HoldCopy(g, c) \/ DropCopy(g, c)

Spec == Init /\ [][Next]_vars
-----------------------------------------------------------------------------
\* Gateways that hold the same epoch key agree on who the members are, whoever
\* executed and whatever was lost on the way: an update is installed only where
\* its sender's remaining members are the local ones.
KeyFixesMembership ==
  \A g, h \in Gateways : key[g].serial = key[h].serial => active[g] = active[h]

\* A member shares its current key with a gateway it holds removed only if that
\* one executed its own removal, which execute_member_removal lets it do: to any
\* other removed member everything encrypted from then on is closed.
RemovedAreLockedOut ==
  \A g, h \in Gateways :
    Joined(g) /\ h \notin active[g] /\ key[h].serial = key[g].serial => h \in gone

\* Whoever a member holds removed was the target of a proposal in its own log
\* that as many distinct gateways backed, in that log, as the proposal asked for.
RemovalsAreBacked ==
  \A g, x \in Gateways : Joined(g) /\ x \notin active[g] =>
    \E p \in log[g] :
      /\ event[p].kind = "proposed" /\ event[p].target = x
      /\ Cardinality(Approvers(log[g], event, Gateways, p)) >= event[p].threshold

\* One key per epoch: members that are in the same epoch can read each other
\* (tests/test_governance.py compares the epoch keys of alpha and beta).
OneKeyPerEpoch ==
  \A g, h \in Gateways : key[g].epoch = key[h].epoch => key[g].serial = key[h].serial

\* Nobody comes back and no epoch does, although the invitation may arrive again
\* when the gateway has moved on.
RemovalsAreFinal ==
  [][\A g \in Gateways : Joined(g) =>
       /\ active'[g] \subseteq active[g]
       /\ key'[g].epoch >= key[g].epoch]_vars

\* Every remaining member that has joined gets the new epoch: it has reached it or
\* the update that takes it further is waiting for it (IMPLEMENTATION_STATUS: a
\* sealed new epoch for remaining members).
NobodyStranded ==
  \A g \in Gateways : \A h \in active[g] : Joined(h) =>
    \/ key[h].epoch >= key[g].epoch
    \/ \E u \in updates : u.to = h /\ u.old >= key[h].epoch
=============================================================================
