------------------------------- MODULE Routes -------------------------------
(***************************************************************************)
(* Who can reach whom, and over which relay route: contact cards, sealed   *)
(* offers and invitations, the acceptances that answer them, rotation of a *)
(* relationship route, and the replacement of a used public contact route. *)
(* A sync call is cut where another gateway's push, a lost request or a    *)
(* dead process makes a difference.  Sealed envelopes are identified by    *)
(* their content.  Collectives and epoch updates are left to Membership.   *)
(***************************************************************************)
EXTENDS Naturals, FiniteSets

CONSTANTS
  Gateways,
  NoRoute,     \* a missing row
  Connecting,  \* <<g, h>>: g's agent calls connect(h)
  Inviting,    \* <<g, h>>: g's agent invites h to a collective
  Rotating,    \* <<g, h>>: g's agent calls rotate_relationship(h)
  MaxRoutes,   \* bound: routes one gateway creates
  MaxCuts,     \* bound: calls cut short by a dead process or an unreachable relay
  MaxRefused   \* bound: pairs of gateways for whose answer the relay refuses a route

Route == Gateways \X (1..MaxRoutes)
MaybeRoute == Route \cup {NoRoute}

ASSUME GatewaysAssumption == IsFiniteSet(Gateways)
ASSUME NoRouteAssumption == NoRoute \notin Route
ASSUME PairsAssumption ==
  Connecting \cup Inviting \cup Rotating \subseteq {p \in Gateways \X Gateways : p[1] # p[2]}
ASSUME BoundsAssumption ==
  MaxRoutes \in Nat \ {0} /\ MaxCuts \in Nat /\ MaxRefused \in Nat

VARIABLES
  made,     \* made[g]: routes g has created; route <<g, n>> is its nth
  revoked,  \* routes the relay refuses
  active,   \* rows of the gateways' local_routes with active = 1
  inbound,  \* inbound[g][h]: newest relationship row g has for h
  contact,  \* contact[g]: the setting contact_route, and self.route
  card,     \* card[g][h]: contact_route in g's peers row for h
  outward,  \* outward[g][h]: g's peer_routes row for h
  outbox,   \* pending outbox rows of all gateways
  box,      \* envelopes the relay holds unacknowledged
  left,     \* left[g]: routes the running sync has yet to pull
  batch,    \* batch[g]: envelopes of the pulled route yet to be examined
  rotate,   \* rotate[g]: the local variable rotate_contact of sync
  syncing,  \* syncing[g]: a sync call is running
  used,     \* history: contact routes over which a first contact was accepted
  invited,  \* history: <<g, h>>: g has invited h
  refused,  \* history: <<g, h>>: the relay refused g a route for its answer to h
  cuts      \* history: calls cut short so far

tables == <<made, active, inbound, contact, card, outward>>
process == <<left, batch, rotate, syncing>>
vars == <<made, revoked, active, inbound, contact, card, outward, outbox, box,
          left, batch, rotate, syncing, used, invited, refused, cuts>>

\* route is the route the content carries, via the one the envelope is pushed to.
Envelope ==
  [kind : {"offer", "invitation", "acceptance", "update"},
   from : Gateways, to : Gateways, via : Route, route : Route]

TypeOK ==
  /\ made \in [Gateways -> 1..MaxRoutes]
  /\ revoked \subseteq Route /\ active \subseteq Route /\ used \subseteq Route
  /\ inbound \in [Gateways -> [Gateways -> MaybeRoute]]
  /\ contact \in [Gateways -> Route]
  /\ card \in [Gateways -> [Gateways -> MaybeRoute]]
  /\ outward \in [Gateways -> [Gateways -> MaybeRoute]]
  /\ outbox \subseteq Envelope /\ box \subseteq Envelope
  /\ left \in [Gateways -> SUBSET Route]
  /\ batch \in [Gateways -> SUBSET Envelope]
  /\ rotate \in [Gateways -> BOOLEAN]
  /\ syncing \in [Gateways -> BOOLEAN]
  /\ invited \subseteq Gateways \X Gateways
  /\ refused \subseteq Gateways \X Gateways
  /\ cuts \in 0..MaxCuts

\* Every gateway has started once: its first route is its contact route.
Init ==
  /\ made = [g \in Gateways |-> 1]
  /\ revoked = {}
  /\ active = {<<g, 1>> : g \in Gateways}
  /\ inbound = [g \in Gateways |-> [h \in Gateways |-> NoRoute]]
  /\ contact = [g \in Gateways |-> <<g, 1>>]
  /\ card = [g \in Gateways |-> [h \in Gateways |-> NoRoute]]
  /\ outward = [g \in Gateways |-> [h \in Gateways |-> NoRoute]]
  /\ outbox = {} /\ box = {}
  /\ left = [g \in Gateways |-> {}]
  /\ batch = [g \in Gateways |-> {}]
  /\ rotate = [g \in Gateways |-> FALSE]
  /\ syncing = [g \in Gateways |-> FALSE]
  /\ used = {}
  /\ invited = {}
  /\ refused = {}
  /\ cuts = 0

Idle(g) == ~syncing[g]
-----------------------------------------------------------------------------
(* Routes and the outbox.                                                  *)

NextRoute(g) == <<g, made[g] + 1>>

\* A route is kept back for every peer that has none yet.
Spare(g) ==
  made[g] + Cardinality({h \in Gateways \ {g} : inbound[g][h] = NoRoute}) < MaxRoutes

\* Faulty variant of InboundFor: one inbound route, shared by all peers.
InboundShared(g, h) ==
  IF \E q \in Gateways : inbound[g][q] # NoRoute
  THEN inbound[g][CHOOSE q \in Gateways : inbound[g][q] # NoRoute] ELSE NextRoute(g)

\* The route _relationship_inbound returns.
InboundFor(g, h) ==
  IF inbound[g][h] # NoRoute THEN inbound[g][h] ELSE NextRoute(g)

\* _relationship_inbound: r, new at the relay and in local_routes unless g has it.
HaveInbound(g, h, r) ==
  /\ r = InboundFor(g, h)
  /\ IF r = NextRoute(g)
     THEN /\ made[g] < MaxRoutes
          /\ made' = [made EXCEPT ![g] = @ + 1]
          /\ active' = active \cup {r}
     ELSE UNCHANGED <<made, active>>
  /\ inbound' = [inbound EXCEPT ![g] = [@ EXCEPT ![h] = r]]

\* What a flush by g can get through once New is queued: an envelope to a
\* revoked route is refused and stays pending.
Sendable(g, New) == {e \in outbox \cup New : e.from = g /\ e.via \notin revoked}

\* flush_outbox once New is queued; pushes that fail are left for the next one.
Flush(g, New) ==
  \E S \in SUBSET Sendable(g, New) :
    /\ outbox' = (outbox \cup New) \ S
    /\ box' = box \cup S

Sealed(kind, g, h, via, r) ==
  [kind |-> kind, from |-> g, to |-> h, via |-> via, route |-> r]

\* remember a card that its owner could publish now.
Remember(g, h) ==
  /\ Idle(g) /\ g # h
  /\ card' = [card EXCEPT ![g] = [@ EXCEPT ![h] = contact[h]]]
  /\ UNCHANGED <<made, revoked, active, inbound, contact, outward, outbox, box,
                 process, used, invited, refused, cuts>>

\* connect: an offer to the contact route on the card.  Agents do not repeat an
\* offer that is still on its way.
Connect(g, h) ==
  LET r == InboundFor(g, h) IN
  /\ Idle(g)
  /\ card[g][h] # NoRoute /\ outward[g][h] = NoRoute
  /\ ~\E e \in outbox \cup box :
        e.kind = "offer" /\ e.from = g /\ e.to = h /\ e.via \notin revoked
  /\ HaveInbound(g, h, r)
  /\ Flush(g, {Sealed("offer", g, h, card[g][h], r)})
  /\ UNCHANGED <<revoked, contact, card, outward, process, used, invited, refused, cuts>>

\* create_collective and _send_invitation: over the established route if there
\* is one.
Invite(g, h) ==
  LET r == InboundFor(g, h)
      via == IF outward[g][h] # NoRoute THEN outward[g][h] ELSE card[g][h] IN
  /\ Idle(g)
  /\ card[g][h] # NoRoute
  /\ <<g, h>> \notin invited
  /\ invited' = invited \cup {<<g, h>>}
  /\ HaveInbound(g, h, r)
  /\ Flush(g, {Sealed("invitation", g, h, via, r)})
  /\ UNCHANGED <<revoked, contact, card, outward, process, used, refused, cuts>>

\* rotate_relationship: the old inbound route stays active.
RotateRelationship(g, h) ==
  LET r == NextRoute(g) IN
  /\ Idle(g) /\ Spare(g)
  /\ card[g][h] # NoRoute /\ outward[g][h] # NoRoute
  /\ made' = [made EXCEPT ![g] = @ + 1]
  /\ active' = active \cup {r}
  /\ inbound' = [inbound EXCEPT ![g] = [@ EXCEPT ![h] = r]]
  /\ Flush(g, {Sealed("update", g, h, outward[g][h], r)})
  /\ UNCHANGED <<revoked, contact, card, outward, process, used, invited, refused, cuts>>
-----------------------------------------------------------------------------
(* sync, on the sealed envelopes.                                          *)

\* A sync that finds nothing to send, to pull or to deactivate changes nothing.
StartSync(g) ==
  /\ Idle(g)
  /\ \/ Sendable(g, {}) # {}
     \/ \E r \in active : r[1] = g /\ (r \in revoked \/ \E e \in box : e.via = r)
  /\ Flush(g, {})
  /\ syncing' = [syncing EXCEPT ![g] = TRUE]
  /\ left' = [left EXCEPT ![g] = {r \in active : r[1] = g}]
  /\ UNCHANGED <<tables, revoked, batch, rotate, used, invited, refused, cuts>>

\* A route is pulled with what the relay holds for it; a revoked one is refused
\* (AuthenticationError) and deactivated.  A route not pulled when sync ends was
\* empty or could not be reached.
PullRoute(g, r) ==
  /\ r \in left[g] /\ batch[g] = {}
  /\ r \notin revoked
  /\ batch' = [batch EXCEPT ![g] = {e \in box : e.via = r}]
  /\ batch'[g] # {}
  /\ left' = [left EXCEPT ![g] = @ \ {r}]
  /\ UNCHANGED <<tables, revoked, outbox, box, rotate, syncing, used, invited, refused, cuts>>

PullRefused(g, r) ==
  /\ r \in left[g] /\ batch[g] = {}
  /\ r \in revoked
  /\ left' = [left EXCEPT ![g] = @ \ {r}]
  /\ active' = active \ {r}
  /\ UNCHANGED <<made, inbound, contact, card, outward, revoked, outbox, box,
                 batch, rotate, syncing, used, invited, refused, cuts>>

\* set_peer_route, and for an offer the peers row of a sender not known before.
Learn(g, e) ==
  /\ outward' = [outward EXCEPT ![g] = [@ EXCEPT ![e.from] = e.route]]
  /\ card' = IF e.kind = "offer" /\ card[g][e.from] = NoRoute
             THEN [card EXCEPT ![g] = [@ EXCEPT ![e.from] = e.route]] ELSE card

FirstContact(e) == e.kind \in {"offer", "invitation"}

\* Faulty variant of Accept: the answer goes to the contact route on the card.
AcceptOverContact(g, e) ==
  LET r == InboundFor(g, e.from) IN
  /\ FirstContact(e)
  /\ Learn(g, e)
  /\ HaveInbound(g, e.from, r)
  /\ outbox' = outbox \cup {Sealed("acceptance", g, e.from, IF card[g][e.from] # NoRoute
                                     THEN card[g][e.from] ELSE e.route, r)}

\* _accept_relationship_offer and _accept_invitation_content: learn the return
\* route and answer over it with a route of one's own.
Accept(g, e) ==
  LET r == InboundFor(g, e.from) IN
  /\ FirstContact(e)
  /\ Learn(g, e)
  /\ HaveInbound(g, e.from, r)
  /\ outbox' = outbox \cup {Sealed("acceptance", g, e.from, e.route, r)}

\* _accept_route_content: from a peer only; else the envelope is rejected.
Reroute(g, e) ==
  /\ ~FirstContact(e)
  /\ IF card[g][e.from] # NoRoute THEN Learn(g, e) ELSE UNCHANGED <<card, outward>>
  /\ UNCHANGED <<made, active, inbound, outbox>>

\* Faulty variant of Handle: the last envelope decides on the rotation.
HandleForgettingContact(g, e) ==
  /\ e \in batch[g]
  /\ Accept(g, e) \/ Reroute(g, e)
  /\ batch' = [batch EXCEPT ![g] = @ \ {e}]
  /\ box' = box \ {e}
  /\ LET contacted == FirstContact(e) /\ e.via = contact[g] IN
     /\ rotate' = [rotate EXCEPT ![g] = contacted]
     /\ used' = IF contacted THEN used \cup {e.via} ELSE used
  /\ UNCHANGED <<revoked, contact, left, syncing, invited, refused, cuts>>

\* One envelope of the batch, accepted or rejected, and acknowledged.
Handle(g, e) ==
  /\ e \in batch[g]
  /\ Accept(g, e) \/ Reroute(g, e)
  /\ batch' = [batch EXCEPT ![g] = @ \ {e}]
  /\ box' = box \ {e}
  /\ LET contacted == FirstContact(e) /\ e.via = contact[g] IN
     /\ rotate' = [rotate EXCEPT ![g] = @ \/ contacted]
     /\ used' = IF contacted THEN used \cup {e.via} ELSE used
  /\ UNCHANGED <<revoked, contact, left, syncing, invited, refused, cuts>>

\* create_route is refused (a quota, a revoked credential) after the return route was
\* learnt: the envelope is rejected and acknowledged, and no answer is queued.
HandleRefused(g, e) ==
  /\ e \in batch[g] /\ FirstContact(e)
  /\ InboundFor(g, e.from) = NextRoute(g)
  /\ Learn(g, e)
  /\ refused' = refused \cup {<<g, e.from>>}
  /\ Cardinality(refused') <= MaxRefused
  /\ batch' = [batch EXCEPT ![g] = @ \ {e}]
  /\ box' = box \ {e}
  /\ UNCHANGED <<made, active, inbound, outbox, revoked, contact, left, rotate, syncing,
                 used, invited, cuts>>

\* The running call is over: done, ended by an exception, or its process died.
Stop(g) ==
  /\ syncing' = [syncing EXCEPT ![g] = FALSE]
  /\ left' = [left EXCEPT ![g] = {}]
  /\ batch' = [batch EXCEPT ![g] = {}]
  /\ rotate' = [rotate EXCEPT ![g] = FALSE]

\* Faulty variant of HandleDies: acknowledged before it was handled to the end.
HandleDiesAcked(g, e, answered) ==
  /\ e \in batch[g] /\ FirstContact(e)
  /\ cuts < MaxCuts
  /\ IF answered THEN Accept(g, e)
     ELSE Learn(g, e) /\ UNCHANGED <<made, active, inbound, outbox>>
  /\ Stop(g)
  /\ box' = box \ {e}
  /\ cuts' = cuts + 1
  /\ UNCHANGED <<revoked, contact, used, invited, refused>>

\* The process dies inside or right after a handler: after set_peer_route, or
\* with the answer queued too, but before the envelope is acknowledged.
HandleDies(g, e, answered) ==
  /\ e \in batch[g] /\ FirstContact(e)
  /\ cuts < MaxCuts
  /\ IF answered THEN Accept(g, e)
     ELSE Learn(g, e) /\ UNCHANGED <<made, active, inbound, outbox>>
  /\ Stop(g)
  /\ cuts' = cuts + 1
  /\ UNCHANGED <<revoked, contact, box, used, invited, refused>>
-----------------------------------------------------------------------------
(* The end of sync.                                                        *)

Visited(g) == syncing[g] /\ batch[g] = {}

EndSync(g) ==
  /\ Visited(g) /\ ~rotate[g]
  /\ Flush(g, {})
  /\ syncing' = [syncing EXCEPT ![g] = FALSE]
  /\ left' = [left EXCEPT ![g] = {}]
  /\ UNCHANGED <<tables, revoked, batch, rotate, used, invited, refused, cuts>>

\* Faulty variants of Replaced: the setting deleted before it is written again,
\* and the old route revoked before the new one is the contact route.
ReplacedDeletingFirst(g, old, new, stage) ==
  /\ made' = [made EXCEPT ![g] = IF stage >= 1 THEN @ + 1 ELSE @]
  /\ contact' = [contact EXCEPT ![g] = IF stage >= 2 THEN new
                                       ELSE IF stage = 1 THEN NoRoute ELSE @]
  /\ revoked' = IF stage >= 3 THEN revoked \cup {old} ELSE revoked
  /\ active' = (IF stage >= 1 THEN active \cup {new} ELSE active)
                 \ (IF stage >= 4 THEN {old} ELSE {})

ReplacedRevokingFirst(g, old, new, stage) ==
  /\ made' = [made EXCEPT ![g] = IF stage >= 1 THEN @ + 1 ELSE @]
  /\ revoked' = IF stage >= 2 THEN revoked \cup {old} ELSE revoked
  /\ contact' = [contact EXCEPT ![g] = IF stage >= 3 THEN new ELSE @]
  /\ active' = (IF stage >= 1 THEN active \cup {new} ELSE active)
                 \ (IF stage >= 4 THEN {old} ELSE {})

\* _rotate_contact_route up to a stage: create the replacement, save the
\* setting, revoke the old route at the relay, deactivate it locally.
Replaced(g, old, new, stage) ==
  /\ made' = [made EXCEPT ![g] = IF stage >= 1 THEN @ + 1 ELSE @]
  /\ contact' = [contact EXCEPT ![g] = IF stage >= 2 THEN new ELSE @]
  /\ revoked' = IF stage >= 3 THEN revoked \cup {old} ELSE revoked
  /\ active' = (IF stage >= 1 THEN active \cup {new} ELSE active)
                 \ (IF stage >= 4 THEN {old} ELSE {})

RotateContact(g) ==
  /\ Visited(g) /\ rotate[g] /\ Spare(g)
  /\ Replaced(g, contact[g], NextRoute(g), 4)
  /\ Flush(g, {})
  /\ Stop(g)
  /\ UNCHANGED <<inbound, card, outward, used, invited, refused, cuts>>

\* The relay cannot be reached (create_route and revoke_route raise out of
\* sync) or the process dies: the rotation stops where it is.  Where the bound on
\* routes is reached it stops at once.
RotateCut(g, stage) ==
  /\ Visited(g) /\ rotate[g]
  /\ \/ Spare(g) /\ cuts < MaxCuts /\ cuts' = cuts + 1
     \/ ~Spare(g) /\ stage = 0 /\ UNCHANGED cuts
  /\ Replaced(g, contact[g], NextRoute(g), stage)
  /\ Stop(g)
  /\ UNCHANGED <<inbound, card, outward, outbox, box, used, invited, refused>>

\* The process dies anywhere else in sync; what the databases hold stays.
Crash(g) ==
  /\ syncing[g]
  /\ cuts < MaxCuts
  /\ Stop(g)
  /\ cuts' = cuts + 1
  /\ UNCHANGED <<tables, revoked, outbox, box, used, invited, refused>>

Next ==
  \E g \in Gateways :
    \/ \E h \in Gateways :
         \/ <<g, h>> \in Connecting \cup Inviting /\ Remember(g, h)
         \/ <<g, h>> \in Connecting /\ Connect(g, h)
         \/ <<g, h>> \in Inviting /\ Invite(g, h)
         \/ <<g, h>> \in Rotating /\ RotateRelationship(g, h)
    \/ StartSync(g) \/ EndSync(g) \/ RotateContact(g)
    \/ \E r \in Route : PullRoute(g, r) \/ PullRefused(g, r)
    \/ \E e \in batch[g] :
         \/ Handle(g, e) \/ HandleRefused(g, e)
         \/ \E answered \in BOOLEAN : HandleDies(g, e, answered)
    \/ \E stage \in 0..3 : RotateCut(g, stage)
    \/ Crash(g)

Spec == Init /\ [][Next]_vars

\* The agent runtime calls sync again and again and a running call goes on to
\* its end (weak fairness); flushes and pulls tried for ever get through for
\* ever (strong fairness).  Everything agents decide on is free.
Fairness ==
  \A g \in Gateways :
    /\ SF_vars(StartSync(g) /\ outbox' = outbox \ Sendable(g, {}))
    /\ \A n \in 1..MaxRoutes : SF_vars(PullRoute(g, <<g, n>>))
    /\ WF_vars(\E e \in batch[g] : Handle(g, e) \/ HandleRefused(g, e) \/ HandleDies(g, e, FALSE))
    /\ WF_vars(EndSync(g) \/ RotateContact(g) \/ RotateCut(g, 0))

FairSpec == Spec /\ Fairness
-----------------------------------------------------------------------------
\* What peers and readers of cards are told to use works: every route a gateway
\* sends over and every contact route is accepted by the relay and pulled by
\* its owner, through rotations cut short anywhere.
AddressesAreServed ==
  /\ \A g \in Gateways : contact[g] \in active \ revoked
  /\ \A g, h \in Gateways : outward[g][h] # NoRoute => outward[g][h] \in active \ revoked

\* Relationship routes are pairwise (DISCOVERY.md, pairwise private routes):
\* nobody else sends over the route a gateway has to a peer, and it is no
\* public contact route.
RoutesArePairwise ==
  \A g, h \in Gateways : outward[g][h] # NoRoute =>
    /\ outward[g][h] # contact[h]
    /\ \A q \in Gateways \ {g} : outward[q][h] # outward[g][h]

\* No answer and no route update is ever stranded on a revoked route: only a
\* first contact, pushed between the last pull of a contact route and its
\* revocation or sent by an old card, can be.
ControlsStayReachable ==
  \A e \in box \cup outbox : e.via \in revoked => FirstContact(e)

\* A relationship one side has accepted comes to exist on the other side too,
\* whatever answers are lost and whoever dies in between, unless the relay refused
\* it the route for its answer: then it has learnt the way there and never says so.
AcceptanceComesBack ==
  \A g, h \in Gateways :
    outward[h][g] # NoRoute ~> outward[g][h] # NoRoute \/ <<h, g>> \in refused

\* A used public contact route is retired (DISCOVERY.md and README.md: automatic
\* public-to-pairwise rotation after first contact) once its sync call is over,
\* whatever else that call handled.  A call cut short after the acknowledgement
\* leaves it in service for good: nothing but the call itself remembers it.
UsedRoutesRetired ==
  \A g \in Gateways :
    Idle(g) /\ Spare(g) /\ cuts = 0 => \A r \in used : r[1] = g => r \in revoked
=============================================================================
