# Protocol Plaza in TLA+

Specifications of the protocol that `src/protocol_plaza` implements: agents own
*gateways* (a SQLite file and a single-threaded process each), gateways talk only
through *routes* of a store-and-forward *relay*, and what a collective knows is the
causal log of signed events every gateway keeps for itself.

## 1. The system

| Component | State it keeps | Operations | Interacts with |
|---|---|---|---|
| Signed events (`models.py`) | immutable: author, `author_seq`, parents, body, digest | create, verify | everything below |
| Event log (`gateway.py` `_post_event`, `_accept_group_event`; `store.py` `append_event`, `heads`, `next_author_seq`) | `events`, `event_parents` per gateway | post, idempotent retry, admit, hold, reject | outbox, projections |
| Delivery (`flush_outbox`, `sync`; `relay.py` `push`, `pull`, `acknowledge`) | `outbox`, `inbox`; `envelopes` at the relay | queue, push, pull, mark, acknowledge, expire | log, routes |
| Membership and epochs (`create_collective`, `_accept_invitation_content`, `propose_member_removal`, `approve_proposal`, `execute_member_removal`, `_accept_epoch_update`) | `collectives` (epoch, key), `collective_members`, `governance_proposals` | create, join, propose, approve, execute, install an update | log, delivery |
| Relationships and routes (`remember`, `connect`, invitations, `rotate_relationship`, `_rotate_contact_route`) | `peers`, `peer_routes`, `local_routes`, the setting `contact_route`; `routes` at the relay | offer, invite, accept, update, rotate, retire | delivery |
| Work projections (`store.py` `_rebuild_*`) | `tasks`, `decisions`, `commitments`, `documents`, `document_fields`, `projection_conflicts` | rebuild an object from the log | log |
| Relay service (`relay.py`, `http_relay.py`) | `principals`, `service_nonces`, `usage_daily`, `routes`, `public_cards`, `blobs` | authenticate, charge, create, push, publish, store, revoke | all gateways, concurrent HTTP threads |
| Discovery manifest, agent API, cryptography, command line | little or none | - | the gateway |

What makes it hard:

* every gateway is sequential, but every store call commits by itself, so a dead
  process leaves any prefix of a handler's effects behind;
* calls of different gateways interleave freely at the relay, answers and
  acknowledgements can be lost, and whatever is pushed may be pushed again;
* nothing is agreed on: order, membership, epoch keys, routes and projections are
  decided by each gateway from what has reached it so far.

What makes each component correct:

* log: per author a prefix without holes, closed under parents, never rewritten,
  free of cycles; a sequence number is never used twice;
* delivery: a queued copy is never lost between two databases, is admitted once,
  and arrives if the network keeps coming back;
* membership: the same key means the same members, who is removed by others cannot read on
  or come back, and every removal is backed by as many distinct members as it asked for;
* routes: whatever address a peer or a card reader was given is served, routes are
  pairwise, and half-made relationships are completed;
* relay: a signed request takes effect once, nobody gets more than its quotas, what is
  stored was paid for, nobody takes over another's card or blob, and a revoked
  credential gains nothing;
* projections: a function of the events held, the same at every gateway that holds
  the same events about an object, with no event unaccounted for.

## 2. Modules

```
EventOps <- EventLog <- Exchange (implements EventLog)
   ^  ^
   |  +---- Membership          Routes, RelayService (self-contained)
   +------- Projection
MCx: an instance of x for TLC   xProofs: theorems about x
SetInduction <- ProjectionProofs, RelayServiceProofs;  EventLogProofs <- ExchangeProofs
```

Every specification is plain TLA+ with the constants it needs, one action per
handler, and a crash as an action that resets what only the process knows. Some
definitions are preceded by a *faulty variant* of themselves (`VerdictIgnoringGaps`,
`ReplacedRevokingFirst`, ...): a plausible mistake in that code, unused by the
specification, kept so that it can be shown that each property would notice it
(`mutants` in `PROJECT.json`).

**EventOps** - events and the questions the store answers about a log. An event is
named `<<author, author_seq>>`; the name stands for the digest, because an honest
author signs one event per number (that this holds through crashes is proved:
`NothingUnsigned`). `NextSeq` is `next_author_seq`, `Heads` the heads of one space,
`Verdict` the checks of `_accept_group_event` in their order: duplicate, gap, conflict,
missing parents, accept.

**EventLog** - the abstract specification of a log in one collective with fixed
members. `BeginPost` is `_post_event` up to `append_event`, `QueueFor` one turn of its
recipient loop, `RaiseFor` the exception for a recipient that is no active member or
has no route, `Return` the end, `Retry` the early return for a known idempotency
key, `Crash` the death of the process, `Accept` the admission of a copy. The transport
is any transport: a queued copy may arrive at any time, repeatedly, or never.

**Exchange** - the same with the real pipeline underneath: outbox rows, envelopes at
the relay, inbox rows, and a `sync` call cut into `StartSync` (its first flush),
`PullRoute`/`SkipRoute` per local route, `Examine` per envelope (append, mark; or hold),
`Acknowledge`/`AcknowledgeRaises`, `EndSync`. A flush looks at the oldest pending rows up
to `FlushLimit`, deliverable or not, a pull returns the oldest envelopes of a route up to
`PullLimit`. In every flush some requests arrive and some answers come back, independently. `DieBeforeMark` and `Crash` are deaths between
commits, `Expire` the end of an envelope's lifetime.

**Membership** - `CreateCollective` makes the first key and invites every other member or,
cut short, only some; `AcceptInvitation`, `AcceptInvitationDies` and `RejectInvitation` are
`_accept_invitation_content`. Then proposals and approvals as group events encrypted under the author's
current key, `Execute` and the versions of it that die after some updates are sealed
(`ExecuteDiesSealing`), after the key is changed (`ExecuteDiesRekeyed`), or raise because
another proposal removed the target before (`ExecuteStale`); `PullRoute` with the order of `sync`
(sealed updates before group envelopes), `InstallUpdate`, `InstallDiesUnmarked`,
`RejectUpdate`, and for group envelopes `AdmitCopy`, `HoldCopy`, `DropCopy` - the last
one when the envelope was made under a key the reader does not have, which `sync`
rejects for good. Who may execute is decided by the status of the proposal alone (`MayExecute`),
so the target may; `gone` remembers that it did. `Leads` bounds who proposes.

**Routes** - relay routes by owner and number. `Remember`, `Connect`, `Invite`,
`RotateRelationship` are the agent's calls; `Handle` is one sealed envelope of a pulled
batch with its handler (`Accept` for offers and invitations, `Reroute` for acceptances and
updates), `HandleRefused` the first contact whose return route the relay refuses to create
(`refused` remembers it), `HandleDies` a handler cut short; `RotateContact` is `_rotate_contact_route` with
the final flush, and `RotateCut` the same stopped after each of its commits.

**RelayService** - the relay behind HTTP. A gateway signs a request with the time of its own
clock (`Issue`); the network delivers it late, several times or never. A handler thread is cut
where it takes the relay's lock: `Receive` (credential and timestamp), `Prove` (the
transaction of `verify_service_proof`), `Clear` (what `publish_public_card`, `put_blob`,
`get_blob`, `pull` and `revoke_route` look at before their transaction), then one
transaction per operation: `CreateRoute`, `Charge`, `Push`, `Publish`, `Put`, `Delete`,
`PullOrRevoke`. Around them `RevokeCredential`, `Tick` and `Crash`, the death of the relay process with all
its handlers. `givenUp` is what becomes of it at the gateway: an answered 401 to a pull
deactivates the local route. A gateway pulls the routes in its own table only, which are the
answers to its `create_route` calls: that is the guard of `Issue`. Time passes anywhere: while a
request is on its way, where the gateway gives up waiting after `Patience` (`Awaited`), and while a
handler waits for the lock. A handler that waits between the timestamp check and the nonce
transaction for longer than nonces outlast the window (`Margin`) is remembered in `late`.

**Projection** - the four tables that later events change. The log order
(`_causally_ordered_events`: the least digest among the events whose parents are out)
is `NextOut`, `Replay` applies the first so many events of that order to one object, `Taken`
is which ones they are, `Rebuilt` the end of a `Replay`, and `_apply_projection` is
`Project`. Digests are arbitrary: an event gets any place among all digests when it is posted.
A call names any object that exists, held or not, because it posts before it looks for its row.

## 3. What is checked

| Run | Asks | Instance | Answer |
|---|---|---|---|
| `eventlog_safety` | are all logs closed sets of prefixes, and immutable? | 3 gateways, beta and gamma without a route to each other, 2 spaces, private asides, 3 posts, 1 crash | yes |
| `eventlog_retry` | does a post that returned have an outbox row for each recipient? | the same | **no** |
| `exchange_lossy` | is no copy lost, and does every copy arrive? | 2 gateways, 2 posts, lost requests and answers, 1 crash | yes |
| `exchange_causal` | do answers that overtake their questions wait, also when one expires? | 3 gateways, 3 links, 2 posts, 1 expiry | yes |
| `exchange_clogged` | does a copy arrive while rows nobody takes are in the way? | limits of 1, an envelope expires | **no** |
| `membership` | do keys fix the members, are removals backed and final? | 3 members, of whom 1 creates the collective, 2 propose the removal of the third and all may execute, 3 keys, 3 events, 1 call cut short | yes |
| `membership_one_key` | is there one key per epoch? | two executors, 4 events | **no** |
| `membership_stranded` | does every remaining member get the new epoch? | one executor, threshold 1 | **no** |
| `routes_pairwise` | does nobody share a relationship route? | 3 gateways, two contact the third over one card | yes |
| `routes_live` | are addresses served, answers reachable, used contact routes retired, relationships completed? | 2 gateways inviting each other, one rotation, 1 cut, 1 refused route | yes |
| `relay_service` | do replays, quotas, charges and ownership hold? | 2 principals whose clocks are twice the skew apart, 12 calls in 11 pairs, 2 requests, the first delivered up to twice, 3 units of time, 1 crash | yes |
| `projection` | are rows current, equal for equal histories, complete? | 3 events about an object of each of 4 kinds, by 3 gateways or over 2 spaces; by 2 gateways 3 events and another object's creation; every digest order | yes |

The four runs that end in a violation are disagreements between the code and its own
documents or tests; `findings` in `PROJECT.json` quotes both sides:

1. `_post_event` commits the event before its recipient loop. If the loop raises or the
   process dies in it, the retry with the same key returns the event without queuing the
   rest; the forgotten recipient can admit nothing later of that author.
2. A row the relay refuses for good stays pending and stays among the oldest: with as many
   of them as the limit, no later envelope to any peer is ever pushed.
3. Two members that execute the same authorized removal generate two keys for one epoch.
4. Sealed updates are handled before the group envelopes of the same pull, so a member
   that is behind rejects its update for good.

Behaviour worth knowing that the models have and the properties allow for:

* the target of a removal may execute it (`gateway.py:1109-1114` looks at the status only): it
  makes the new key, seals it for the others and keeps reading. The repository's `README.md:63` ("correctly
  excludes removed members from new epochs") and `IMPLEMENTATION_STATUS.md:26` ("removed member
  stays on old epoch") say otherwise; `RemovedAreLockedOut` says that this is the only way;
* nonces are kept for ten minutes and a timestamp may be five minutes off on either side, which
  leaves nothing over (`Margin` is 0). A request stamped by a clock five minutes ahead, of which
  one copy waits for the relay's lock between `relay.py:200` and `relay.py:217`, can be accepted
  twice; the run reaches this, and `ProofAcceptedOnce` excepts it;
* a 401 to a pull deactivates the local route (`gateway.py:807-808`), and a request that is
  stamped within the skew may leave it on the way: over HTTP a gateway whose clock is behind by
  nearly the skew can lose a live route. `GoodClocks` are those that cannot;
* if the relay refuses the return route of a first contact (`create_route`, a quota), the peer's
  address has been saved (`gateway.py:948`, `992`), and `gateway.py:838-847` rejects and
  acknowledges the envelope: one side can write, and no acceptance ever comes.
  `AcceptanceComesBack` excepts the pairs to which this happened;
* the second uploader of a blob gets an answer like the first and no row of its own
  (`relay.py:409`): when the first one deletes the blob it is gone for both;
* an authorized proposal stays authorized although a member whose approval it needs has been
  removed since: its status is only recounted when an event about it arrives;
* that a contact route was used is remembered only by a local variable of `sync`: a call
  cut short after the acknowledgement leaves the used route in service, against
  `DISCOVERY.md:46`. `UsedRoutesRetired` is about calls that are not cut short;
* `create_collective` invites peer by peer and no call invites later. Cut short, it leaves
  members whom everybody counts and who never join;
* a group envelope or an epoch update pulled before the invitation is rejected for good;
* a create call repeated with its idempotency key draws a new identifier, finds no row for it
  and raises "unknown task", although the first call succeeded;
* `put_blob` answers for a blob whose row has expired as if it were stored.

Why the bounds are enough. Each hazard in `PROJECT.json` needs few actors: an event, an
answer to it and a third party for ordering; two executors and a third member for
membership; two strangers and one card for routes; a creation, two concurrent changes
and every order of their digests for projections, where a third gateway is the one an
update may reach before the creation. For the relay two requests are enough
for a race of two handlers or of two deliveries of one, and `alpha`'s clock behind by the skew and
`beta`'s ahead by it are the two edges of the window. The faulty variants show that the instances reach
the interesting cases: each property fails on at least one of them within the same bounds.
One crash (or cut) at any point is checked; a second one meets a state the first could
have left, and the same holds of refused routes (`MaxRefused`). `MaxRoutes` is chosen so
that a gateway can have a contact route, a relationship route for every peer and one
replacement; `Spare` keeps a route back for each peer, so that the bound never stops an answer.

`Scopes` says which of a projection's bounds go together: all three gateways in one space, two gateways over
two spaces, or two gateways with a fourth event that creates another object, so that a row is
looked at after its log has grown by something else. One object of a
kind is enough: what two objects share is the log and the table of conflicts, whatever their kinds.
`Races` names the pairs
of requests the run makes: those that work on the same row. The others share only the tables of
every request (credentials, nonces, usage), which these pairs exercise too.

Time in `relay_service` is counted in units of the skew (five minutes): nonces are kept for two
units, which is the code's 600 s, a day has two units so that midnight falls inside a run. A
gateway's timeout (`Patience`) is one as well, far more than the code's five seconds: time passes in
whole units, and a larger timeout only makes fewer clocks good. `beta`'s is the edge of those that are. `DailyLimit` is what one large item costs, so a
second one meets the limit. In Membership `MaxKeys` counts the first key too. `exchange_lossy` has
a pull limit of 1 with 2 envelopes per route; the flush limit of 1 that clogs an outbox is in
`exchange_clogged`.

Checking for deadlock is switched off in `eventlog_safety`, `membership`, `projection` and
`relay_service`, which end when their events, requests and time are used up. The other
passing runs stop nowhere.

### Properties worth knowing

* `NoCausalCycle` is the assertion "event graph contains a causal cycle" of the store,
  which would make every later `append_event` raise.
* `Delivered` (liveness) excuses a copy only if an event its recipient needs to admit it
  (`Needed`: the past of its author and its parents, again and again) can never come: its envelope expired, or its author's post broke off (`Damaged`). The damage is
  permanent: nothing in the code asks for a missing event again.
* `SameHistorySameRow` compares two gateways that hold the same events *about an object*
  while the rest of their logs differs. That is more than "same log, same rows": the order
  is computed over the whole log, and the property says what else is in it does not matter.
* `NothingSilentlyDropped` counts versions and conflicts against events after every
  revision. Versions are not monotonic: a concurrent event with a smaller digest can
  turn an applied change into a conflict and the row's version from 3 back to 2. No
  document promises otherwise.
* `LastVoteCounts` is limited to votes posted to one space. `space_id` is an argument of
  every call, so two votes of one agent in two spaces are concurrent and the digest
  decides which one counts.
* `ControlsStayReachable` says exactly which envelopes a retired route can strand: first
  contacts. They stay pending (or lie at the relay) unanswered until the agent fetches a
  new card.

* `RemovalsAreFinal` is about invitations that come again: a process that died behind
  `add_collective` did not acknowledge, and may have moved on before the next pull of its
  contact route. What protects it is the comparison with the existing epoch and key.
* `RouteQuota` holds although `create_route` reads the time before it takes the lock: a time
  that is too early counts more routes as in service, not fewer.
* `StoredWasCharged` is a bound from above. The charge is kept for pushes that store nothing
  (a repeated id, a revoked route) and for a `put_blob` whose process dies behind
  `charge`, which commits by itself.
* `GivenUpRoutesAreDead` says what a 401 may mean: the route is gone, the credential is
  revoked or the caller's clock is not good: ahead by more than the skew, or behind by more than
  the skew less the timeout. Its one other exception is a copy of the pull that overtakes it and
  takes its nonce.
* `RowsAreCurrent` is about rows of a smaller log: its faulty variant clears the conflicts of
  every object when one is rebuilt, which only a second object shows.

### Fairness

Safety runs assume none. `exchange_lossy` and `routes_live` use `FairSpec`:

* weak fairness of the steps inside a running call, because a gateway runs a call to
  its end;
* strong fairness of a `sync` whose flush gets through and of pulling a route, because
  an agent learns of nothing without calling `sync` (`AGENT_API.md`: it is an
  operation of the agent's own loop, there is no background thread), and the relay is
  not unreachable for ever: what is tried for ever succeeds for ever. Without it a
  network that is down at each attempt refutes any delivery.
* in `exchange_lossy` also strong fairness of an acknowledgement that gets through, since one that
  raises ends the call: an agent that never completes one never reaches its later routes;
* None for posting, repeating a post, connecting, inviting, rotating, crashing or expiring.

## 4. What is proved

TLAPS checks the following for all values of the constants (any gateways, spaces,
audiences, links, thresholds, and bounds), from the `ASSUME`s in the modules only.

Every safety invariant and every action property of a passing run is proved, and that Exchange
implements EventLog.

**EventLogProofs** (with **EventOpsProofs** for what `NextSeq`, `SeqsBy`, `Heads` and
`Verdict` return): `TypeCorrect`, `PrefixOfEveryAuthor`, `OnlyAppendedEventsTravel`,
`ParentsPresent`, `TopologicalSortCompletes`, `ConflictUnreachable`, `HistoryIsImmutable`.
The inductive invariant `LogInv` is the conjunction of `TypeOK`, `AuthorPrefix`,
`NothingUnsigned`, `CausallyClosed`, `NoCausalCycle` and `PostingIsAppended` (the event a post is
fanning out is in its author's log already, so no queued copy is ahead of its author).
`FreshName` is the point of the argument: because the author's own log is a prefix and
everything that travels is in it, the next number names an event nobody has seen. So a
new event has all its parents in its author's log and is nobody's parent yet, which
keeps logs closed and the parent relation free of cycles. `ConflictUnreachable` then needs
only prefixes: a queued copy with a number below the next one is in the recipient's log.

**ExchangeProofs**: `TypeCorrect`, `NothingLost`, `InboxFollowsLog`, `HonestCopiesPass`,
`Refinement` and `PipelineKeepsLogs`. The invariant `PipeInv` adds to the checked properties
what relates the tables of gateways and relay: what the relay holds was queued (`RelayHoldsQueued`), what a running call
holds in its hands came from the relay (`BatchAtRelay`), what it is about to acknowledge is in
its log (`AcksAreLogged`), the phases of a `sync` go with what it still has to do
(`PhasesFit`). No copy is rejected because logs are prefixes (`Prefixes`) and one number names
one event. In `Refinement` the abstract `queued` is the set of copies with an outbox row, pushed or
not; every other variable of EventLog is one of Exchange. A step of the pipeline is a
step of EventLog or changes none of its variables (`StepRefines`): what is left to show is that
`Examine` and `DieBeforeMark` append only copies that were queued (`PulledWasQueued`), in the
places where `Verdict` accepts them. `PipelineKeepsLogs` draws the conclusion: the theorems of
EventLogProofs, instantiated over the pipeline's variables, hold of the logs it builds.

**MembershipProofs**: `TypeCorrect`, `SameKeySameMembers`, `RemovedCannotRead`,
`NobodyComesBack`. The invariant `KeyInv` ties a key to one member set wherever it is:
`KeyFixesMembership` between gateways, `UpdatesAgree` between sealed updates at the relay,
`UpdatesFit` between a gateway and an update. A fresh serial (`NewKeyFresh`, from
`KeysCounted`) keeps it when a removal is executed or breaks off, and installing keeps it
because the receiver compares the sender's remaining members with its own before it takes
the key. `FirstInv` adds what joining needs: before the collective is created there is
nothing, and whoever holds the first key holds everybody active, so that accepting an
invitation for the first time or once more changes nothing that was decided.
`RemovedCannotRead` needs no assumption about who executes: a removed gateway with the
current key is in `gone`, as a key made by another is sealed for the remaining members only. `RemovalsBacked` rests on `BackInv`: what is in a log was signed
(`OnlySigned`), approvals are about proposals (`AboutProposals`), and a row of
`governance_proposals` that says authorized or executed has its approvals in the log of that
gateway (`RowsBacked`). Approvals are counted among the members active when they are
looked at; among all gateways, where the property counts them, there are at least as many, and
events that arrive only add to them (`ApproversMonotone`).

**RoutesProofs**: `TypeCorrect`, `PublishedRoutesWork`, `NoSharedRoutes`,
`OnlyFirstContactsStrand`, `UsedRoutesAreRetired`. The properties of the middle three say nothing of routes that are still on
their way in an envelope, so none is inductive. `Given(h, g)` collects every route of `h`
that `g` uses or is about to: in `h`'s own tables for `g`, in `g`'s `peer_routes`, carried by
an envelope to `g`, or run over by an answer or update of `g`. `ServiceInv` says that given
routes are served, are no contact route, are given to one peer only, and that nothing is
known of a route before it is created. Each step then gives nothing new (`GivenStays`,
`KeepsService`), gives one route to one peer (`GivenGrows`, `GivesService`), or replaces a
contact route, which was nobody's (`ReplacesService`).
`UsedRoutesAreRetired` rests on `UsedInv`: a used contact route is revoked, or the call that used it
is still running and will rotate at its end (`DueAtEnd`), or a call was cut short, or there is no
route to replace it with; the last is permanent because room only shrinks (`RoomShrinks`).

**SetInduction**: induction over the naturals (`NatSetInduction`) and over the subsets of a finite
set (`SubsetInduction`), stated about *sets* instead of predicates, and sums over finite sets
(`SumUnfolds`, `SumsAtPoint`, `SumsMonotone`). The library's induction theorems take a
predicate as a parameter and cannot be instantiated by the provers; here a proof
defines the set of numbers for which its claim holds and shows that it is all of them. The source
is the library's `WFMin` for the order of the naturals.

**ProjectionProofs**: `TypeCorrect`, `CurrentRows`, `Convergence`, `NothingDropped`,
`LastVoteIsHeard`, for logs of any length. `HistInv` is about histories: prefixes, causal closure,
no cycles, digests that differ, well-formed bodies, and that an author's earlier event in the same
space is an ancestor of its later one (`OwnPastIsAncestral`). `RowInv` says that the rows are
those of a rebuild, and that what is not created in the log has none. The central lemma is
`RebuiltFromPart`: if a closed part of an orderable log holds all its events about an object,
then rebuilding from the part or from the whole gives the same row. It is an induction over
both replays at once: an event outside the part is not about the object and changes nothing, and
when an event of the part is next in the whole it is next in the part too (`SameNext`), because
its parents are in the part and nothing else decides when it is ready. From it follow that
a row stays current when an event about something else arrives (`AppendRows`) and `Convergence`,
where the part is what two logs have in common. `RebuiltCounts` and
`RebuiltLastVote` are inductions over the length of a replay. `GatewaysFinite` is assumed because
a log must be finite to have an order at all.

**RelayServiceProofs**: `TypeCorrect`, `NoReplay`, `QuotaHolds`, `CardsAreOwned`,
`RevocationHolds`, `UploadsStay`, `StorageIsPaid`, `GivenUpForAReason`. `NoReplay` rests on `WindowAssumption`, that nonces are kept
for at least twice the skew, which is what the code does. `ReplayInv` says that a request accepted
once has its nonce on record or is so old that whoever enters it again has waited for longer than
`Margin` (`NonceKept`, `CheckedInTime`, `Outdated`), which puts it in `late`. `CardsInv` carries through the gap between check and
transaction that the route of a cleared call was the caller's, which no later step undoes
because rows of `routes` never change owners. `KeptStays` shows that an uploaded blob
leaves only by its owner's answered delete. `QuotaHolds` needs the routes of each principal to be
a finite set (`QuotaInv`), and that a later reading of the clock counts no more of them.
`StorageIsPaid` needs the books of requests under way: `ChargesInv` says that what is inserted for
a principal, together with what its running handlers have been charged for and have not
stored yet (`Owed`), is at most the sum of its usage over the days. A charge adds to both
sides, an insertion moves from one term to the other, a death or a refusal drops an owed
item. `GivenUpForAReason` needs to know where a 401 can come from: `AbandonInv` says that
a nonce on record was left by a delivery that came first (`NoncesUsed`), that requests carry
their sender's clock and pulls ask for routes of their sender (`Honest`), and that a route is a
contact route or named like the delivery that created it (`RoutesMade`), so that
its name is never made a second time. The sender's stamp and the time the request was sent (`Honest`) then put a good clock within
the skew for as long as its gateway waits. `RefusedIsDead` is the case split over the places that
answer 401; `DeadStays` says that a reason once given stays one. `RoutesAssumption`
says that a created route is none of the contact routes, which the code has from random
identifiers.

Only model-checked: the two liveness properties, `Delivered` and `AcceptanceComesBack`. Fairness is
a statement about ENABLED, which the installed provers cannot expand. The four
violations are TLC's as well: a counterexample is a behaviour, not a theorem.

## 5. Abstractions to keep in mind

* Bytes, signatures, encryption and digests are modelled by what they guarantee. All
  gateways run this code; a gateway that lies is outside the models.
* EventLog, Exchange and Projection have one collective with fixed members; Membership
  has one collective whose gateways reach each other from the start. Its invitations may be
  handled before or after any other pull, because the pull of the contact route may fail.
* Time is modelled in RelayService only; elsewhere it appears as `Expire` and as crashes.
* RelayService: principals are registered and have a contact route from the start; a
  gateway pulls only routes it was given an answer for; what a pull returns and an acknowledgement
  removes is in Exchange; two readings of the clock with nothing between them are one; nobody
  reads the answer to a second delivery of a request, since a gateway does not
  repeat one (it signs a new one).
* Routes: a `sync` that finds nothing to do is left out; a pair is invited once, and an
  offer is not repeated while it is on its way; envelopes with equal content are one.
* Projection: posting is atomic and every posted event may reach any gateway. The evidence list of
  a commitment, which grows with the updates that are applied, is left out; tasks have no assignee
  but the claimant, as `update_task` sends none (`gateway.py:479-495`, so not `store.py:549-550`). A
  document has one field (fields do not interact), the creation of an object is unique
  (identifiers are random), a decision's options are numbered as `sorted` has them.
* Membership: only known proposals are approved, as the API finds them by identifier.

## 6. Not modelled, and the plan

1. Done, most important behaviour first: EventOps, EventLog, Exchange, Membership, Routes,
   Projection, RelayService, with the theorems above.
2. Done: every checked safety property as a theorem, and the refinement of EventLog by Exchange.
3. Smaller extensions: cards that expire in Routes, and one peer in several collectives.

Left out for good: `codec.py` and `crypto.py` (pure functions), `discovery.py` (one signed
document, no state), `agent_api.py` (a stateless dispatch), the command line, demos and
scenario (scripts over the gateway), issuing credentials and searching the directory
(an insert before the system runs, and reads). Spaces, checkpoints and artifacts as
projections are inserted once under a random identifier and never change; publishing an
artifact is `put_blob` of RelayService followed by a post of EventLog, and an upload whose post
fails is a blob nobody names.

## 7. Running

`tlc -config EventLogSafety.cfg MCEventLog` and likewise for the other rows of
`PROJECT.json`; `tlapm EventLogProofs.tla` and the other proof modules. Each run takes
between a second and three minutes on two workers.
