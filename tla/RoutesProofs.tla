---------------------------- MODULE RoutesProofs ----------------------------
(***************************************************************************)
(* The safety of addresses in Routes, for every number of gateways, every  *)
(* choice of who connects, invites and rotates, and any number of routes,  *)
(* of calls cut short and of routes refused.                               *)
(***************************************************************************)
EXTENDS Routes, FiniteSetTheorems, TLAPS

\* The variables a flush touches keep their type and gain only what is queued.
LEMMA FlushTyped ==
  ASSUME outbox \subseteq Envelope, box \subseteq Envelope,
         NEW g, NEW New \in SUBSET Envelope, Flush(g, New)
  PROVE  /\ outbox' \subseteq Envelope /\ box' \subseteq Envelope
         /\ outbox' \cup box' \subseteq outbox \cup box \cup New
BY DEF Flush, Sendable

\* A gateway below its bound can name one more route.
LEMMA NextRouteTyped ==
  ASSUME TypeOK, NEW g \in Gateways, made[g] < MaxRoutes
  PROVE  /\ NextRoute(g) \in Route
         /\ [made EXCEPT ![g] = @ + 1] \in [Gateways -> 1..MaxRoutes]
<1>1. made[g] \in 1..MaxRoutes /\ MaxRoutes \in Nat
  BY BoundsAssumption DEF TypeOK
<1>2. made[g] + 1 \in 1..MaxRoutes
  BY <1>1
<1> QED
  BY <1>2 DEF TypeOK, NextRoute, Route

\* Keeping routes back leaves room for the one being created.
LEMMA SpareIsBelow ==
  ASSUME TypeOK, NEW g \in Gateways, Spare(g)
  PROVE  made[g] < MaxRoutes
<1> DEFINE S == {h \in Gateways \ {g} : inbound[g][h] = NoRoute}
<1>1. IsFiniteSet(S)
  BY GatewaysAssumption, FS_Subset, S \in SUBSET Gateways
<1>2. Cardinality(S) \in Nat
  BY <1>1, FS_CardinalityType
<1>3. made[g] \in Nat /\ MaxRoutes \in Nat
  BY BoundsAssumption DEF TypeOK
<1>4. made[g] + Cardinality(S) < MaxRoutes
  BY DEF Spare
<1> HIDE DEF S
<1> QED
  BY <1>2, <1>3, <1>4

\* The route for a peer exists once _relationship_inbound returns.
LEMMA InboundTyped ==
  ASSUME TypeOK, NEW g \in Gateways, NEW h \in Gateways, NEW r, HaveInbound(g, h, r)
  PROVE  /\ r \in Route
         /\ made' \in [Gateways -> 1..MaxRoutes]
         /\ active' \subseteq Route
         /\ inbound' \in [Gateways -> [Gateways -> MaybeRoute]]
<1>1. r = InboundFor(g, h) /\ inbound' = [inbound EXCEPT ![g] = [@ EXCEPT ![h] = r]]
  BY DEF HaveInbound
<1>2. inbound \in [Gateways -> [Gateways -> MaybeRoute]]
  BY DEF TypeOK
<1>3. CASE r = NextRoute(g)
  <2>1. made[g] < MaxRoutes /\ made' = [made EXCEPT ![g] = @ + 1] /\ active' = active \cup {r}
    BY <1>3 DEF HaveInbound
  <2>2. r \in Route /\ made' \in [Gateways -> 1..MaxRoutes]
    BY <1>3, <2>1, NextRouteTyped
  <2> QED
    BY <1>1, <1>2, <2>1, <2>2 DEF TypeOK, MaybeRoute
<1>4. CASE r # NextRoute(g)
  <2>1. r = inbound[g][h] /\ r # NoRoute
    BY <1>1, <1>4 DEF InboundFor
  <2>2. r \in Route
    BY <1>2, <2>1 DEF MaybeRoute
  <2>3. UNCHANGED <<made, active>>
    BY <1>4 DEF HaveInbound
  <2> QED
    BY <1>1, <1>2, <2>2, <2>3 DEF TypeOK, MaybeRoute
<1> QED
  BY <1>3, <1>4
-----------------------------------------------------------------------------
(* Type correctness, step by step.                                         *)

\* The agent's calls keep the types.
LEMMA CallTyped ==
  ASSUME TypeOK, NEW g \in Gateways, NEW h \in Gateways,
         Remember(g, h) \/ Connect(g, h) \/ Invite(g, h) \/ RotateRelationship(g, h)
  PROVE  TypeOK'
<1> USE DEF TypeOK
<1>1. CASE Remember(g, h)
  BY <1>1 DEF Remember, process, MaybeRoute
<1>2. CASE Connect(g, h)
  <2> DEFINE r == InboundFor(g, h)
  <2> DEFINE e == Sealed("offer", g, h, card[g][h], r)
  <2>1. HaveInbound(g, h, r) /\ Flush(g, {e}) /\ card[g][h] # NoRoute
        /\ UNCHANGED <<revoked, contact, card, outward, left, batch, rotate, syncing,
                       used, invited, refused, cuts>>
    BY <1>2 DEF Connect, process
  <2> HIDE DEF r
  <2>2. r \in Route /\ made' \in [Gateways -> 1..MaxRoutes] /\ active' \subseteq Route
        /\ inbound' \in [Gateways -> [Gateways -> MaybeRoute]]
    BY <2>1, InboundTyped
  <2>3. e \in Envelope
    BY <2>1, <2>2 DEF Sealed, Envelope, MaybeRoute
  <2> HIDE DEF e
  <2>4. outbox' \subseteq Envelope /\ box' \subseteq Envelope
    BY <2>1, <2>3, FlushTyped
  <2> QED
    BY <2>1, <2>2, <2>4
<1>3. CASE Invite(g, h)
  <2> DEFINE r == InboundFor(g, h)
  <2> DEFINE via == IF outward[g][h] # NoRoute THEN outward[g][h] ELSE card[g][h]
  <2> DEFINE e == Sealed("invitation", g, h, via, r)
  <2>1. HaveInbound(g, h, r) /\ Flush(g, {e}) /\ card[g][h] # NoRoute
        /\ invited' = invited \cup {<<g, h>>}
        /\ UNCHANGED <<revoked, contact, card, outward, left, batch, rotate, syncing,
                       used, refused, cuts>>
    BY <1>3 DEF Invite, process
  <2> HIDE DEF r
  <2>2. r \in Route /\ made' \in [Gateways -> 1..MaxRoutes] /\ active' \subseteq Route
        /\ inbound' \in [Gateways -> [Gateways -> MaybeRoute]]
    BY <2>1, InboundTyped
  <2>3. via \in Route
    BY <2>1 DEF MaybeRoute
  <2> HIDE DEF via
  <2>4. e \in Envelope
    BY <2>2, <2>3 DEF Sealed, Envelope
  <2> HIDE DEF e
  <2>5. outbox' \subseteq Envelope /\ box' \subseteq Envelope
    BY <2>1, <2>4, FlushTyped
  <2> QED
    BY <2>1, <2>2, <2>5
<1>4. CASE RotateRelationship(g, h)
  <2> DEFINE r == NextRoute(g)
  <2> DEFINE e == Sealed("update", g, h, outward[g][h], r)
  <2>1. Spare(g) /\ Flush(g, {e}) /\ outward[g][h] # NoRoute
        /\ made' = [made EXCEPT ![g] = @ + 1]
        /\ active' = active \cup {r}
        /\ inbound' = [inbound EXCEPT ![g] = [@ EXCEPT ![h] = r]]
        /\ UNCHANGED <<revoked, contact, card, outward, left, batch, rotate, syncing,
                       used, invited, refused, cuts>>
    BY <1>4 DEF RotateRelationship, process
  <2>2. r \in Route /\ made' \in [Gateways -> 1..MaxRoutes]
    BY <2>1, SpareIsBelow, NextRouteTyped
  <2> HIDE DEF r
  <2>3. e \in Envelope
    BY <2>1, <2>2 DEF Sealed, Envelope, MaybeRoute
  <2> HIDE DEF e
  <2>4. outbox' \subseteq Envelope /\ box' \subseteq Envelope
    BY <2>1, <2>3, FlushTyped
  <2> QED
    BY <2>1, <2>2, <2>4 DEF MaybeRoute
<1> QED
  BY <1>1, <1>2, <1>3, <1>4

\* What Learn writes are routes.
LEMMA LearnTyped ==
  ASSUME TypeOK, NEW g \in Gateways, NEW e \in Envelope, Learn(g, e)
  PROVE  /\ outward' \in [Gateways -> [Gateways -> MaybeRoute]]
         /\ card' \in [Gateways -> [Gateways -> MaybeRoute]]
<1>1. e.from \in Gateways /\ e.route \in MaybeRoute
  BY DEF Envelope, MaybeRoute
<1> QED
  BY <1>1 DEF TypeOK, Learn

\* A handler keeps the types of what it touches.
LEMMA HandlerTyped ==
  ASSUME TypeOK, NEW g \in Gateways, NEW e \in Envelope, Accept(g, e) \/ Reroute(g, e)
  PROVE  /\ made' \in [Gateways -> 1..MaxRoutes]
         /\ active' \subseteq Route
         /\ inbound' \in [Gateways -> [Gateways -> MaybeRoute]]
         /\ outward' \in [Gateways -> [Gateways -> MaybeRoute]]
         /\ card' \in [Gateways -> [Gateways -> MaybeRoute]]
         /\ outbox' \subseteq Envelope
<1>1. e.from \in Gateways /\ e.route \in Route
  BY DEF Envelope
<1>2. CASE Accept(g, e)
  <2> DEFINE r == InboundFor(g, e.from)
  <2> DEFINE a == Sealed("acceptance", g, e.from, e.route, r)
  <2>1. Learn(g, e) /\ HaveInbound(g, e.from, r) /\ outbox' = outbox \cup {a}
    BY <1>2 DEF Accept
  <2> HIDE DEF r
  <2>2. r \in Route /\ made' \in [Gateways -> 1..MaxRoutes] /\ active' \subseteq Route
        /\ inbound' \in [Gateways -> [Gateways -> MaybeRoute]]
    BY <1>1, <2>1, InboundTyped
  <2>3. a \in Envelope
    BY <1>1, <2>2 DEF Sealed, Envelope
  <2> HIDE DEF a
  <2> QED
    BY <2>1, <2>2, <2>3, LearnTyped DEF TypeOK
<1>3. CASE Reroute(g, e)
  <2>1. UNCHANGED <<made, active, inbound, outbox>> /\ (Learn(g, e) \/ UNCHANGED <<card, outward>>)
    BY <1>3 DEF Reroute
  <2> QED
    BY <2>1, LearnTyped DEF TypeOK
<1> QED
  BY <1>2, <1>3

\* A stopped process keeps the types of its local state.
LEMMA StopTyped ==
  ASSUME TypeOK, NEW g \in Gateways, Stop(g)
  PROVE  /\ syncing' \in [Gateways -> BOOLEAN] /\ rotate' \in [Gateways -> BOOLEAN]
         /\ left' \in [Gateways -> SUBSET Route] /\ batch' \in [Gateways -> SUBSET Envelope]
BY DEF TypeOK, Stop

\* Handling an envelope, to the end or not, keeps the types.
LEMMA HandleTyped ==
  ASSUME TypeOK, NEW g \in Gateways, NEW e \in batch[g], NEW answered \in BOOLEAN,
         Handle(g, e) \/ HandleRefused(g, e) \/ HandleDies(g, e, answered)
  PROVE  TypeOK'
<1>1. e \in Envelope
  BY DEF TypeOK
<1>2. CASE Handle(g, e)
  <2>1. Accept(g, e) \/ Reroute(g, e)
    BY <1>2 DEF Handle
  <2>2. /\ made' \in [Gateways -> 1..MaxRoutes]
        /\ active' \subseteq Route
        /\ inbound' \in [Gateways -> [Gateways -> MaybeRoute]]
        /\ outward' \in [Gateways -> [Gateways -> MaybeRoute]]
        /\ card' \in [Gateways -> [Gateways -> MaybeRoute]]
        /\ outbox' \subseteq Envelope
    BY <1>1, <2>1, HandlerTyped
  <2>3. /\ batch' = [batch EXCEPT ![g] = @ \ {e}]
        /\ box' = box \ {e}
        /\ UNCHANGED <<revoked, contact, left, syncing, invited, refused, cuts>>
    BY <1>2 DEF Handle
  <2>4. e.via \in Route /\ FirstContact(e) \in BOOLEAN
    BY <1>1 DEF Envelope, FirstContact
  <2>5. rotate' \in [Gateways -> BOOLEAN] /\ used' \subseteq Route
    BY <1>2, <2>4 DEF Handle, TypeOK
  <2> QED
    BY <2>2, <2>3, <2>5 DEF TypeOK
<1>3. CASE HandleDies(g, e, answered)
  <2>1. /\ Accept(g, e) \/ (Learn(g, e) /\ UNCHANGED <<made, active, inbound, outbox>>)
        /\ Stop(g) /\ cuts < MaxCuts /\ cuts' = cuts + 1
        /\ UNCHANGED <<revoked, contact, box, used, invited, refused>>
    BY <1>3 DEF HandleDies
  <2>2. /\ made' \in [Gateways -> 1..MaxRoutes]
        /\ active' \subseteq Route
        /\ inbound' \in [Gateways -> [Gateways -> MaybeRoute]]
        /\ outward' \in [Gateways -> [Gateways -> MaybeRoute]]
        /\ card' \in [Gateways -> [Gateways -> MaybeRoute]]
        /\ outbox' \subseteq Envelope
    BY <1>1, <2>1, HandlerTyped, LearnTyped DEF TypeOK
  <2>3. cuts' \in 0..MaxCuts
    BY <2>1, BoundsAssumption DEF TypeOK
  <2>4. Stop(g)
    BY <2>1
  <2> QED
    BY <2>1, <2>2, <2>3, <2>4, StopTyped DEF TypeOK
<1>4. CASE HandleRefused(g, e)
  <2>1. Learn(g, e) /\ e.from \in Gateways
    BY <1>1, <1>4 DEF HandleRefused, Envelope
  <2>2. /\ batch' = [batch EXCEPT ![g] = @ \ {e}]
        /\ box' = box \ {e}
        /\ refused' = refused \cup {<<g, e.from>>}
        /\ UNCHANGED <<made, active, inbound, outbox, revoked, contact, left, rotate, syncing,
                       used, invited, cuts>>
    BY <1>4 DEF HandleRefused
  <2>3. /\ outward' \in [Gateways -> [Gateways -> MaybeRoute]]
        /\ card' \in [Gateways -> [Gateways -> MaybeRoute]]
    BY <1>1, <2>1, LearnTyped
  <2>4. batch' \in [Gateways -> SUBSET Envelope] /\ box' \subseteq Envelope
    BY <2>2 DEF TypeOK
  <2>5. refused' \subseteq Gateways \X Gateways
    BY <2>1, <2>2 DEF TypeOK
  <2> QED
    BY <2>2, <2>3, <2>4, <2>5 DEF TypeOK
<1> QED
  BY <1>2, <1>3, <1>4

\* So do the steps of a sync that handle no envelope.
LEMMA SyncTyped ==
  ASSUME TypeOK, NEW g \in Gateways, NEW r \in Route,
         \/ StartSync(g) \/ EndSync(g) \/ PullRoute(g, r) \/ PullRefused(g, r) \/ Crash(g)
  PROVE  TypeOK'
<1>1. CASE StartSync(g)
  <2>1. outbox' \subseteq Envelope /\ box' \subseteq Envelope
    BY <1>1, FlushTyped DEF StartSync, TypeOK
  <2>2. /\ syncing' = [syncing EXCEPT ![g] = TRUE]
        /\ left' = [left EXCEPT ![g] = {q \in active : q[1] = g}]
        /\ UNCHANGED <<made, active, inbound, contact, card, outward, revoked, batch,
                       rotate, used, invited, refused, cuts>>
    BY <1>1 DEF StartSync, tables
  <2> QED
    BY <2>1, <2>2 DEF TypeOK
<1>2. CASE EndSync(g)
  <2>1. outbox' \subseteq Envelope /\ box' \subseteq Envelope
    BY <1>2, FlushTyped DEF EndSync, TypeOK
  <2>2. /\ syncing' = [syncing EXCEPT ![g] = FALSE]
        /\ left' = [left EXCEPT ![g] = {}]
        /\ UNCHANGED <<made, active, inbound, contact, card, outward, revoked, batch,
                       rotate, used, invited, refused, cuts>>
    BY <1>2 DEF EndSync, tables
  <2> QED
    BY <2>1, <2>2 DEF TypeOK
<1>3. CASE PullRoute(g, r)
  BY <1>3 DEF PullRoute, tables, TypeOK
<1>4. CASE PullRefused(g, r)
  BY <1>4 DEF PullRefused, TypeOK
<1>5. CASE Crash(g)
  <2>1. Stop(g) /\ cuts' \in 0..MaxCuts
    BY <1>5, BoundsAssumption DEF Crash, TypeOK
  <2>2. UNCHANGED <<made, active, inbound, contact, card, outward, revoked, outbox, box,
                    used, invited, refused>>
    BY <1>5 DEF Crash, tables
  <2> QED
    BY <2>1, <2>2, StopTyped DEF TypeOK
<1> QED
  BY <1>1, <1>2, <1>3, <1>4, <1>5

\* And the replacement of a contact route, stopped at any stage.
LEMMA ReplaceTyped ==
  ASSUME TypeOK, NEW g \in Gateways, NEW stage \in 0..3,
         RotateContact(g) \/ RotateCut(g, stage)
  PROVE  TypeOK'
<1> DEFINE new == NextRoute(g)
<1>1. PICK n \in 0..4 : Replaced(g, contact[g], new, n) /\ (n = 0 \/ Spare(g))
  BY DEF RotateContact, RotateCut
<1>2. Stop(g) /\ UNCHANGED <<inbound, card, outward, used, invited, refused>>
  BY DEF RotateContact, RotateCut
<1>3. cuts' \in 0..MaxCuts
  BY BoundsAssumption DEF RotateContact, RotateCut, TypeOK
<1>4. outbox' \subseteq Envelope /\ box' \subseteq Envelope
  BY FlushTyped DEF RotateContact, RotateCut, TypeOK
<1>5. contact[g] \in Route
  BY DEF TypeOK
<1>6. /\ made' \in [Gateways -> 1..MaxRoutes] /\ contact' \in [Gateways -> Route]
      /\ active' \subseteq Route /\ revoked' \subseteq Route
  <2>1. CASE n = 0
    BY <1>1, <2>1 DEF Replaced, TypeOK
  <2>2. CASE n # 0
    <3>1. new \in Route /\ [made EXCEPT ![g] = @ + 1] \in [Gateways -> 1..MaxRoutes]
      BY <1>1, <2>2, SpareIsBelow, NextRouteTyped
    <3> HIDE DEF new
    <3> QED
      BY <1>1, <1>5, <2>2, <3>1 DEF Replaced, TypeOK
  <2> QED
    BY <2>1, <2>2
<1> QED
  BY <1>2, <1>3, <1>4, <1>6, StopTyped DEF TypeOK

\* Every step keeps the types.
LEMMA NextTyped == TypeOK /\ [Next]_vars => TypeOK'
<1> SUFFICES ASSUME TypeOK, [Next]_vars PROVE TypeOK'
  OBVIOUS
<1>1. ASSUME NEW g \in Gateways, NEW h \in Gateways,
             Remember(g, h) \/ Connect(g, h) \/ Invite(g, h) \/ RotateRelationship(g, h)
      PROVE  TypeOK'
  BY <1>1, CallTyped
<1>2. ASSUME NEW g \in Gateways, StartSync(g) \/ EndSync(g) \/ Crash(g)
      PROVE  TypeOK'
  <2>1. contact[g] \in Route
    BY DEF TypeOK
  <2> QED
    BY <1>2, <2>1, SyncTyped
<1>3. ASSUME NEW g \in Gateways, NEW r \in Route, PullRoute(g, r) \/ PullRefused(g, r)
      PROVE  TypeOK'
  BY <1>3, SyncTyped
<1>4. ASSUME NEW g \in Gateways, NEW e \in batch[g], NEW answered \in BOOLEAN,
             Handle(g, e) \/ HandleRefused(g, e) \/ HandleDies(g, e, answered)
      PROVE  TypeOK'
  BY <1>4, HandleTyped
<1>5. ASSUME NEW g \in Gateways, NEW stage \in 0..3, RotateContact(g) \/ RotateCut(g, stage)
      PROVE  TypeOK'
  BY <1>5, ReplaceTyped
<1>6. CASE UNCHANGED vars
  BY <1>6 DEF vars, TypeOK
<1>7. ASSUME NEW g \in Gateways, RotateContact(g)
      PROVE  TypeOK'
  BY <1>5, <1>7, 0 \in 0..3
<1>8. ASSUME NEW g \in Gateways, NEW e \in batch[g], Handle(g, e) \/ HandleRefused(g, e)
      PROVE  TypeOK'
  BY <1>4, <1>8
<1> QED
  BY <1>1, <1>2, <1>3, <1>4, <1>5, <1>6, <1>7, <1>8 DEF Next

\* The initial state is well typed.
LEMMA InitTyped == Init => TypeOK
<1> SUFFICES ASSUME Init PROVE TypeOK
  OBVIOUS
<1>1. \A g \in Gateways : <<g, 1>> \in Route
  BY BoundsAssumption DEF Route
<1>2. 1 \in 1..MaxRoutes /\ 0 \in 0..MaxCuts
  BY BoundsAssumption
<1> QED
  BY <1>1, <1>2 DEF Init, TypeOK, MaybeRoute

\* Type correctness of Routes: every table keeps its shape and no gateway creates
\* more routes than the bound says.
THEOREM TypeCorrect == Spec => []TypeOK
BY InitTyped, NextTyped, PTL DEF Spec
-----------------------------------------------------------------------------
(* The strengthening of AddressesAreServed, RoutesArePairwise and          *)
(* ControlsStayReachable that is inductive.                                *)

Envelopes == outbox \cup box \cup UNION {batch[g] : g \in Gateways}

\* The routes of h that are g's to use: h has them for g, g sends over them, or an
\* envelope takes one to g or runs over one as an answer or an update.
Given(h, g) ==
  {r \in Route :
     \/ r = inbound[h][g]
     \/ r = outward[g][h]
     \/ \E e \in Envelopes : e.from = h /\ e.to = g /\ e.route = r
     \/ \E e \in Envelopes : ~FirstContact(e) /\ e.to = h /\ e.from = g /\ e.via = r}

\* Addresses name routes of the right gateway.
Owned ==
  /\ \A e \in Envelopes : e.via[1] = e.to
  /\ \A g, h \in Gateways : card[g][h] # NoRoute => card[g][h][1] = h
  /\ \A g \in Gateways : \A r \in left[g] : r[1] = g
  /\ \A g \in Gateways : \A e \in batch[g] : e.to = g

\* Nothing is known of a route before it is created.
KnownIsMade == \A r \in active \cup revoked : r[2] <= made[r[1]]

ContactServed == \A g \in Gateways : contact[g][1] = g /\ contact[g] \in active \ revoked

\* What was given to a peer is served, and is not the route that gets retired.
GivenServed ==
  \A h, g \in Gateways : \A r \in Given(h, g) :
    r[1] = h /\ r \in active \ revoked /\ r # contact[h]

\* Nothing is given to two peers.
GivenApart == \A h, g, q \in Gateways : g # q => Given(h, g) \cap Given(h, q) = {}

ServiceInv == KnownIsMade /\ ContactServed /\ GivenServed /\ GivenApart

RouteInv == TypeOK /\ Owned /\ ServiceInv

\* r is a route of a that b has already, or one that a creates in this step.
Gives(a, b, r) ==
  \/ r \in Given(a, b) /\ UNCHANGED <<made, active>>
  \/ /\ r = NextRoute(a) /\ r \in Route
     /\ made' = [made EXCEPT ![a] = @ + 1]
     /\ active' = active \cup {r}

\* What a step in which a gives r to b may do to outward, to the envelopes, and
\* in the end to what is given.
OutwardPassedOn ==
  \A h, g \in Gateways : outward'[g][h] = outward[g][h] \/ outward'[g][h] \in Given(h, g)

EnvelopesGive(a, b, r) ==
  \A e \in Envelopes' :
    \/ e \in Envelopes
    \/ /\ e.from = a /\ e.to = b /\ e.route = r
       /\ FirstContact(e) \/ e.via \in Given(e.to, e.from)

OnlyGives(a, b, r) ==
  \A h, g \in Gateways : \A x \in Given(h, g)' : x \in Given(h, g) \/ (h = a /\ g = b /\ x = r)
-----------------------------------------------------------------------------
(* How the given routes change.                                            *)

\* A step that only passes on what was given gives nothing new.
LEMMA GivenStays ==
  ASSUME inbound' = inbound, OutwardPassedOn,
         \A e \in Envelopes' :
           e \in Envelopes \/ (/\ e.route \in Given(e.from, e.to)
                               /\ FirstContact(e) \/ e.via \in Given(e.to, e.from))
  PROVE  \A h, g \in Gateways : Given(h, g)' \subseteq Given(h, g)
BY DEF Given, OutwardPassedOn

\* A step in which a gives r to b, directly and in the envelopes it adds, gives
\* nothing else.
LEMMA GivenGrows ==
  ASSUME TypeOK, NEW a \in Gateways, NEW b \in Gateways, NEW r,
         inbound' = [inbound EXCEPT ![a] = [@ EXCEPT ![b] = r]],
         OutwardPassedOn, EnvelopesGive(a, b, r)
  PROVE  OnlyGives(a, b, r)
<1> SUFFICES ASSUME NEW h \in Gateways, NEW g \in Gateways, NEW x \in Given(h, g)'
             PROVE  x \in Given(h, g) \/ (h = a /\ g = b /\ x = r)
  BY DEF OnlyGives
<1>1. inbound'[h][g] = inbound[h][g] \/ (h = a /\ g = b /\ inbound'[h][g] = r)
  BY DEF TypeOK
<1> QED
  BY <1>1 DEF Given, OutwardPassedOn, EnvelopesGive

\* A route created in a step is in none of the old tables.
LEMMA NewIsFresh ==
  ASSUME TypeOK, ServiceInv, NEW a \in Gateways, NEW r, r = NextRoute(a)
  PROVE  /\ r[1] = a /\ r \notin active \cup revoked
         /\ \A h \in Gateways : r # contact[h]
         /\ \A h, g \in Gateways : r \notin Given(h, g)
<1>1. r[1] = a /\ r[2] = made[a] + 1 /\ made[a] \in Nat
  BY DEF NextRoute, TypeOK
<1>2. r \notin active \cup revoked
  BY <1>1 DEF ServiceInv, KnownIsMade
<1> QED
  BY <1>1, <1>2 DEF ServiceInv, ContactServed, GivenServed

\* KnownIsMade survives a route being created, or none.
LEMMA MadeGrows ==
  ASSUME TypeOK, KnownIsMade, NEW a \in Gateways,
         made' = [made EXCEPT ![a] = @ + 1],
         active' \cup revoked' \subseteq active \cup revoked \cup {NextRoute(a)}
  PROVE  KnownIsMade'
<1> SUFFICES ASSUME NEW r \in active' \cup revoked' PROVE r[2] <= made'[r[1]]
  BY DEF KnownIsMade
<1>1. made'[a] = made[a] + 1 /\ made[a] \in Nat
  BY DEF TypeOK
<1>2. CASE r = NextRoute(a)
  BY <1>1, <1>2 DEF NextRoute
<1>3. CASE r # NextRoute(a)
  <2>1. r \in Route /\ r[2] <= made[r[1]]
    BY <1>3 DEF TypeOK, KnownIsMade
  <2>2. r[1] \in Gateways /\ r[2] \in Nat
    BY <2>1 DEF Route
  <2>3. made[r[1]] \in Nat /\ (made'[r[1]] = made[r[1]] \/ made'[r[1]] = made[r[1]] + 1)
    BY <1>1, <2>2 DEF TypeOK
  <2> QED
    BY <2>1, <2>2, <2>3
<1> QED
  BY <1>2, <1>3

\* A step that gives nothing new, and takes at most revoked routes out of service.
LEMMA KeepsService ==
  ASSUME ServiceInv,
         \A h, g \in Gateways : Given(h, g)' \subseteq Given(h, g),
         UNCHANGED <<made, contact, revoked>>,
         active' \subseteq active, active \ active' \subseteq revoked
  PROVE  ServiceInv'
<1>1. KnownIsMade' /\ ContactServed'
  BY DEF ServiceInv, KnownIsMade, ContactServed
<1>2. GivenServed'
  BY DEF ServiceInv, GivenServed
<1>3. GivenApart'
  BY DEF ServiceInv, GivenApart
<1> QED
  BY <1>1, <1>2, <1>3 DEF ServiceInv

\* A step that gives one route to one peer.
LEMMA GivesService ==
  ASSUME TypeOK, ServiceInv, NEW a \in Gateways, NEW b \in Gateways, NEW r, Gives(a, b, r), OnlyGives(a, b, r),
         UNCHANGED <<contact, revoked>>
  PROVE  ServiceInv'
<1>1. CASE r \in Given(a, b) /\ UNCHANGED <<made, active>>
  <2>1. \A h, g \in Gateways : Given(h, g)' \subseteq Given(h, g)
    BY <1>1 DEF OnlyGives
  <2> QED
    BY <1>1, <2>1, KeepsService
<1>2. CASE /\ r = NextRoute(a) /\ made' = [made EXCEPT ![a] = @ + 1]
           /\ active' = active \cup {r}
  <2>1. /\ r[1] = a /\ r \notin active \cup revoked
        /\ \A h \in Gateways : r # contact[h]
        /\ \A h, g \in Gateways : r \notin Given(h, g)
    BY <1>2, NewIsFresh
  <2>2. KnownIsMade'
    BY <1>2, MadeGrows DEF ServiceInv
  <2>3. ContactServed'
    BY <1>2 DEF ServiceInv, ContactServed
  <2>4. GivenServed'
    BY <1>2, <2>1 DEF ServiceInv, GivenServed, OnlyGives
  <2>5. GivenApart'
    <3> SUFFICES ASSUME NEW h \in Gateways, NEW g \in Gateways, NEW q \in Gateways, g # q,
                        NEW x \in Given(h, g)', x \in Given(h, q)'
                 PROVE  FALSE
      BY DEF GivenApart
    <3> QED
      BY <2>1 DEF ServiceInv, GivenApart, OnlyGives
  <2> QED
    BY <2>2, <2>3, <2>4, <2>5 DEF ServiceInv
<1> QED
  BY <1>1, <1>2 DEF Gives

\* The replacement of a contact route, stopped anywhere: the old route was nobody's.
LEMMA ReplacesService ==
  ASSUME TypeOK, ServiceInv, NEW a \in Gateways, NEW n \in 0..4,
         Replaced(a, contact[a], NextRoute(a), n),
         \A h, g \in Gateways : Given(h, g)' \subseteq Given(h, g)
  PROVE  ServiceInv'
<1> DEFINE old == contact[a]
<1> DEFINE new == NextRoute(a)
<1>1. /\ new[1] = a /\ new \notin active \cup revoked
      /\ \A h \in Gateways : new # contact[h]
  BY NewIsFresh
<1>2. /\ made' = [made EXCEPT ![a] = IF n >= 1 THEN @ + 1 ELSE @]
      /\ contact' = [contact EXCEPT ![a] = IF n >= 2 THEN new ELSE @]
      /\ revoked' = IF n >= 3 THEN revoked \cup {old} ELSE revoked
      /\ active' = (IF n >= 1 THEN active \cup {new} ELSE active)
                     \ (IF n >= 4 THEN {old} ELSE {})
  BY DEF Replaced
<1>3. old \in active \ revoked /\ old[1] = a
  BY DEF ServiceInv, ContactServed
<1>4. KnownIsMade'
  <2>1. CASE n = 0
    BY <1>2, <2>1 DEF ServiceInv, KnownIsMade, TypeOK
  <2>2. CASE n # 0
    <3>1. n >= 1
      BY <2>2
    <3>2. made' = [made EXCEPT ![a] = @ + 1]
      BY <1>2, <3>1
    <3>3. active' \cup revoked' \subseteq active \cup revoked \cup {new}
      BY <1>2, <1>3
    <3> QED
      BY <3>2, <3>3, MadeGrows DEF ServiceInv
  <2> QED
    BY <2>1, <2>2
<1> HIDE DEF old, new
<1>5. ContactServed'
  <2> SUFFICES ASSUME NEW h \in Gateways
               PROVE  contact'[h][1] = h /\ contact'[h] \in active' \ revoked'
    BY DEF ContactServed
  <2>1. contact[h][1] = h /\ contact[h] \in active \ revoked
    BY DEF ServiceInv, ContactServed
  <2>2. CASE h # a
    BY <1>2, <1>3, <2>1, <2>2 DEF TypeOK
  <2>3. CASE h = a /\ n >= 2
    BY <1>1, <1>2, <1>3, <2>3 DEF TypeOK
  <2>4. CASE h = a /\ ~(n >= 2)
    BY <1>2, <2>1, <2>4 DEF TypeOK
  <2> QED
    BY <2>2, <2>3, <2>4
<1>6. GivenServed'
  <2> SUFFICES ASSUME NEW h \in Gateways, NEW g \in Gateways, NEW r \in Given(h, g)
               PROVE  r[1] = h /\ r \in active' \ revoked' /\ r # contact'[h]
    BY DEF GivenServed
  <2>1. r[1] = h /\ r \in active \ revoked /\ r # contact[h]
    BY DEF ServiceInv, GivenServed
  <2>2. r # old
    BY <1>3, <2>1 DEF old
  <2>3. r # contact'[h]
    BY <1>1, <1>2, <2>1 DEF TypeOK
  <2> QED
    BY <1>2, <2>1, <2>2, <2>3
<1>7. GivenApart'
  BY DEF ServiceInv, GivenApart
<1> QED
  BY <1>4, <1>5, <1>6, <1>7 DEF ServiceInv
-----------------------------------------------------------------------------
(* The steps.                                                              *)

\* A flush moves envelopes and adds only what is queued with it.
LEMMA FlushEnvelopes ==
  ASSUME NEW g, NEW New, Flush(g, New),
         \A h \in Gateways : batch'[h] \subseteq batch[h]
  PROVE  Envelopes' \subseteq Envelopes \cup New
<1>1. outbox' \cup box' \subseteq outbox \cup box \cup New
  BY DEF Flush, Sendable
<1> QED
  BY <1>1 DEF Envelopes

\* Whatever _relationship_inbound returns, its peer has it from then on.
LEMMA InboundGives ==
  ASSUME TypeOK, NEW g \in Gateways, NEW h \in Gateways, NEW r, HaveInbound(g, h, r)
  PROVE  /\ Gives(g, h, r)
         /\ inbound' = [inbound EXCEPT ![g] = [@ EXCEPT ![h] = r]]
<1>1. r \in Route
  BY InboundTyped
<1>2. CASE r = NextRoute(g)
  BY <1>1, <1>2 DEF HaveInbound, Gives
<1>3. CASE r # NextRoute(g)
  <2>1. r = inbound[g][h] /\ UNCHANGED <<made, active>>
    BY <1>3 DEF HaveInbound, InboundFor
  <2> QED
    BY <1>1, <2>1 DEF HaveInbound, Gives, Given
<1> QED
  BY <1>2, <1>3

\* A call that sends a route of g to h, first contact or over a route given to g.
LEMMA SendInv ==
  ASSUME RouteInv, NEW g \in Gateways, NEW h \in Gateways, NEW r, NEW e \in Envelope,
         Gives(g, h, r), inbound' = [inbound EXCEPT ![g] = [@ EXCEPT ![h] = r]],
         Flush(g, {e}), e.from = g, e.to = h, e.route = r, e.via[1] = h,
         FirstContact(e) \/ e.via \in Given(h, g),
         UNCHANGED <<revoked, contact, card, outward, left, batch>>
  PROVE  Owned' /\ ServiceInv'
<1>1. TypeOK /\ Owned /\ ServiceInv
  BY DEF RouteInv
<1>2. Envelopes' \subseteq Envelopes \cup {e}
  BY FlushEnvelopes
<1>3. Owned'
  BY <1>1, <1>2 DEF Owned
<1>4. EnvelopesGive(g, h, r)
  BY <1>2 DEF EnvelopesGive
<1>5. OutwardPassedOn
  BY DEF OutwardPassedOn
<1>6. OnlyGives(g, h, r)
  BY <1>1, <1>4, <1>5, GivenGrows
<1>7. ServiceInv'
  BY <1>1, <1>6, GivesService
<1> QED
  BY <1>3, <1>7

\* The agent's calls.
LEMMA CallInv ==
  ASSUME RouteInv, NEW g \in Gateways, NEW h \in Gateways,
         Remember(g, h) \/ Connect(g, h) \/ Invite(g, h) \/ RotateRelationship(g, h)
  PROVE  Owned' /\ ServiceInv'
<1>1. TypeOK /\ Owned /\ ServiceInv
  BY DEF RouteInv
<1>2. outward[g][h] # NoRoute => outward[g][h] \in Given(h, g) /\ outward[g][h][1] = h
  <2> SUFFICES ASSUME outward[g][h] # NoRoute
               PROVE  outward[g][h] \in Given(h, g) /\ outward[g][h][1] = h
    OBVIOUS
  <2>1. outward[g][h] \in Given(h, g)
    BY <1>1 DEF TypeOK, MaybeRoute, Given
  <2> QED
    BY <1>1, <2>1 DEF ServiceInv, GivenServed
<1>3. card[g][h] # NoRoute => card[g][h] \in Route /\ card[g][h][1] = h
  BY <1>1 DEF TypeOK, MaybeRoute, Owned
<1>4. CASE Remember(g, h)
  <2>1. /\ card' = [card EXCEPT ![g] = [@ EXCEPT ![h] = contact[h]]]
        /\ UNCHANGED <<made, revoked, active, inbound, contact, outward, outbox, box,
                       left, batch>>
    BY <1>4 DEF Remember, process
  <2>2. Envelopes' = Envelopes
    BY <2>1 DEF Envelopes
  <2>3. contact[h][1] = h
    BY <1>1 DEF ServiceInv, ContactServed
  <2>4. \A x, y \in Gateways :
          card'[x][y] = card[x][y] \/ (y = h /\ card'[x][y] = contact[h])
    BY <1>1, <2>1 DEF TypeOK
  <2>5. Owned'
    BY <1>1, <2>1, <2>2, <2>3, <2>4 DEF Owned
  <2>6. \A x, y \in Gateways : Given(x, y)' \subseteq Given(x, y)
    BY <2>1, <2>2, GivenStays DEF OutwardPassedOn
  <2>7. ServiceInv'
    BY <1>1, <2>1, <2>6, KeepsService
  <2> QED
    BY <2>5, <2>7
<1>5. CASE Connect(g, h)
  <2> DEFINE r == InboundFor(g, h)
  <2> DEFINE e == Sealed("offer", g, h, card[g][h], r)
  <2>1. HaveInbound(g, h, r) /\ Flush(g, {e}) /\ card[g][h] # NoRoute
        /\ UNCHANGED <<revoked, contact, card, outward, left, batch>>
    BY <1>5 DEF Connect, process
  <2> HIDE DEF r
  <2>2. Gives(g, h, r) /\ inbound' = [inbound EXCEPT ![g] = [@ EXCEPT ![h] = r]] /\ r \in Route
    BY <1>1, <2>1, InboundGives, InboundTyped
  <2>3. /\ e \in Envelope /\ e.from = g /\ e.to = h /\ e.route = r /\ e.via[1] = h
        /\ FirstContact(e)
    BY <1>3, <2>1, <2>2 DEF Sealed, Envelope, FirstContact
  <2> HIDE DEF e
  <2> QED
    BY <2>1, <2>2, <2>3, SendInv
<1>6. CASE Invite(g, h)
  <2> DEFINE r == InboundFor(g, h)
  <2> DEFINE via == IF outward[g][h] # NoRoute THEN outward[g][h] ELSE card[g][h]
  <2> DEFINE e == Sealed("invitation", g, h, via, r)
  <2>1. HaveInbound(g, h, r) /\ Flush(g, {e}) /\ card[g][h] # NoRoute
        /\ UNCHANGED <<revoked, contact, card, outward, left, batch>>
    BY <1>6 DEF Invite, process
  <2> HIDE DEF r
  <2>2. Gives(g, h, r) /\ inbound' = [inbound EXCEPT ![g] = [@ EXCEPT ![h] = r]] /\ r \in Route
    BY <1>1, <2>1, InboundGives, InboundTyped
  <2>3. via \in Route /\ via[1] = h
    BY <1>1, <1>2, <1>3, <2>1 DEF Given
  <2> HIDE DEF via
  <2>4. /\ e \in Envelope /\ e.from = g /\ e.to = h /\ e.route = r /\ e.via[1] = h
        /\ FirstContact(e)
    BY <2>2, <2>3 DEF Sealed, Envelope, FirstContact
  <2> HIDE DEF e
  <2> QED
    BY <2>1, <2>2, <2>4, SendInv
<1>7. CASE RotateRelationship(g, h)
  <2> DEFINE r == NextRoute(g)
  <2> DEFINE e == Sealed("update", g, h, outward[g][h], r)
  <2>1. /\ Spare(g) /\ Flush(g, {e}) /\ outward[g][h] # NoRoute
        /\ made' = [made EXCEPT ![g] = @ + 1]
        /\ active' = active \cup {r}
        /\ inbound' = [inbound EXCEPT ![g] = [@ EXCEPT ![h] = r]]
        /\ UNCHANGED <<revoked, contact, card, outward, left, batch>>
    BY <1>7 DEF RotateRelationship, process
  <2>2. Gives(g, h, r) /\ r \in Route
    BY <1>1, <2>1, SpareIsBelow, NextRouteTyped DEF Gives
  <2> HIDE DEF r
  <2>3. /\ e \in Envelope /\ e.from = g /\ e.to = h /\ e.route = r /\ e.via[1] = h
        /\ e.via \in Given(h, g)
    BY <1>2, <2>1, <2>2 DEF Sealed, Envelope, Given
  <2> HIDE DEF e
  <2> QED
    BY <2>1, <2>2, <2>3, SendInv
<1> QED
  BY <1>4, <1>5, <1>6, <1>7

\* Learning a return route passes on what was given: it came for the reader.
LEMMA LearnGives ==
  ASSUME RouteInv, NEW g \in Gateways, NEW e \in batch[g], Learn(g, e)
  PROVE  /\ e.from \in Gateways /\ e.route \in Given(e.from, g) /\ e.route[1] = e.from
         /\ OutwardPassedOn
         /\ \A x, y \in Gateways : card'[x][y] # NoRoute => card'[x][y][1] = y
<1>1. TypeOK /\ Owned /\ ServiceInv
  BY DEF RouteInv
<1>2. e \in Envelope /\ e \in Envelopes /\ e.to = g
  BY <1>1 DEF TypeOK, Envelopes, Owned
<1>3. e.from \in Gateways /\ e.route \in Route
  BY <1>2 DEF Envelope
<1>4. e.route \in Given(e.from, g)
  BY <1>2, <1>3 DEF Given
<1>5. e.route[1] = e.from
  BY <1>1, <1>3, <1>4 DEF ServiceInv, GivenServed
<1>6. \A x, y \in Gateways :
        outward'[y][x] = outward[y][x] \/ (y = g /\ x = e.from /\ outward'[y][x] = e.route)
  BY <1>1, <1>3 DEF Learn, TypeOK
<1>7. \A x, y \in Gateways :
        card'[x][y] = card[x][y] \/ (y = e.from /\ card'[x][y] = e.route)
  BY <1>1, <1>3 DEF Learn, TypeOK
<1>8. \A x, y \in Gateways : card'[x][y] # NoRoute => card'[x][y][1] = y
  BY <1>1, <1>5, <1>7 DEF Owned
<1> QED
  BY <1>3, <1>4, <1>5, <1>6, <1>8 DEF OutwardPassedOn

\* A handler, and whatever becomes of the envelope after it.
LEMMA HandlerInv ==
  ASSUME RouteInv, NEW g \in Gateways, NEW e \in batch[g],
         \/ Accept(g, e) \/ Reroute(g, e)
         \/ Learn(g, e) /\ UNCHANGED <<made, active, inbound, outbox>>,
         box' \subseteq box,
         \A h \in Gateways : batch'[h] \subseteq batch[h] /\ left'[h] \subseteq left[h],
         UNCHANGED <<revoked, contact>>
  PROVE  Owned' /\ ServiceInv'
<1>1. TypeOK /\ Owned /\ ServiceInv
  BY DEF RouteInv
<1>2. CASE Accept(g, e)
  <2> DEFINE r == InboundFor(g, e.from)
  <2> DEFINE a == Sealed("acceptance", g, e.from, e.route, r)
  <2>1. Learn(g, e) /\ HaveInbound(g, e.from, r) /\ outbox' = outbox \cup {a}
    BY <1>2 DEF Accept
  <2>2. /\ e.from \in Gateways /\ e.route \in Given(e.from, g) /\ e.route[1] = e.from
        /\ OutwardPassedOn
        /\ \A x, y \in Gateways : card'[x][y] # NoRoute => card'[x][y][1] = y
    BY <2>1, LearnGives
  <2> HIDE DEF r
  <2>3. /\ Gives(g, e.from, r)
        /\ inbound' = [inbound EXCEPT ![g] = [@ EXCEPT ![e.from] = r]]
    BY <1>1, <2>1, <2>2, InboundGives
  <2>4. a.from = g /\ a.to = e.from /\ a.route = r /\ a.via = e.route
    BY DEF Sealed
  <2> HIDE DEF a
  <2>5. Envelopes' \subseteq Envelopes \cup {a}
    BY <2>1 DEF Envelopes
  <2>6. EnvelopesGive(g, e.from, r)
    BY <2>2, <2>4, <2>5 DEF EnvelopesGive
  <2>7. OnlyGives(g, e.from, r)
    BY <1>1, <2>2, <2>3, <2>6, GivenGrows
  <2>8. ServiceInv'
    BY <1>1, <2>2, <2>3, <2>7, GivesService
  <2>9. Owned'
    BY <1>1, <2>2, <2>4, <2>5 DEF Owned
  <2> QED
    BY <2>8, <2>9
<1>3. CASE ~Accept(g, e)
  <2>1. /\ Learn(g, e) \/ UNCHANGED <<card, outward>>
        /\ UNCHANGED <<made, active, inbound, outbox>>
    BY <1>3 DEF Reroute
  <2>2. /\ OutwardPassedOn
        /\ \A x, y \in Gateways : card'[x][y] # NoRoute => card'[x][y][1] = y
    BY <1>1, <2>1, LearnGives DEF Owned, OutwardPassedOn
  <2>3. Envelopes' \subseteq Envelopes
    BY <2>1 DEF Envelopes
  <2>4. \A x, y \in Gateways : Given(x, y)' \subseteq Given(x, y)
    BY <2>1, <2>2, <2>3, GivenStays
  <2>5. ServiceInv'
    BY <1>1, <2>1, <2>4, KeepsService
  <2>6. Owned'
    BY <1>1, <2>2, <2>3 DEF Owned
  <2> QED
    BY <2>5, <2>6
<1> QED
  BY <1>2, <1>3

\* Handling an envelope, to the end or not.
LEMMA HandleInv ==
  ASSUME RouteInv, NEW g \in Gateways, NEW e \in batch[g], NEW answered \in BOOLEAN,
         Handle(g, e) \/ HandleRefused(g, e) \/ HandleDies(g, e, answered)
  PROVE  Owned' /\ ServiceInv'
<1>1. TypeOK
  BY DEF RouteInv
<1>2. \/ Accept(g, e) \/ Reroute(g, e)
      \/ Learn(g, e) /\ UNCHANGED <<made, active, inbound, outbox>>
  BY DEF Handle, HandleRefused, HandleDies
<1>3. box' \subseteq box /\ UNCHANGED <<revoked, contact>>
  BY DEF Handle, HandleRefused, HandleDies
<1>4. \A h \in Gateways : batch'[h] \subseteq batch[h] /\ left'[h] \subseteq left[h]
  <2>1. CASE Handle(g, e) \/ HandleRefused(g, e)
    <3>1. batch' = [batch EXCEPT ![g] = @ \ {e}] /\ left' = left
      BY <2>1 DEF Handle, HandleRefused
    <3> QED
      BY <1>1, <3>1 DEF TypeOK
  <2>2. CASE HandleDies(g, e, answered)
    <3>1. batch' = [batch EXCEPT ![g] = {}] /\ left' = [left EXCEPT ![g] = {}]
      BY <2>2 DEF HandleDies, Stop
    <3> QED
      BY <1>1, <3>1 DEF TypeOK
  <2> QED
    BY <2>1, <2>2
<1> QED
  BY <1>2, <1>3, <1>4, HandlerInv

\* A step of a sync that gives nobody anything: flushes, pulls and deaths.
LEMMA SyncInv ==
  ASSUME RouteInv, NEW g \in Gateways, NEW r \in Route,
         \/ StartSync(g) \/ EndSync(g) \/ PullRoute(g, r) \/ PullRefused(g, r) \/ Crash(g)
  PROVE  Owned' /\ ServiceInv'
<1>1. TypeOK /\ Owned /\ ServiceInv
  BY DEF RouteInv
<1>2. UNCHANGED <<made, revoked, contact, inbound, card, outward>>
  BY DEF StartSync, EndSync, PullRoute, PullRefused, Crash, tables
<1>3. active' \subseteq active /\ active \ active' \subseteq revoked
  BY DEF StartSync, EndSync, PullRoute, PullRefused, Crash, tables
<1>4. /\ Envelopes' \subseteq Envelopes
      /\ \A h \in Gateways : \A e \in batch'[h] : e \in batch[h] \/ (h = g /\ e \in box /\ e.via[1] = g)
      /\ \A h \in Gateways : \A q \in left'[h] : q \in left[h] \/ (h = g /\ q[1] = g)
  <2>1. CASE StartSync(g) \/ EndSync(g)
    <3>1. Flush(g, {}) /\ UNCHANGED batch
      BY <2>1 DEF StartSync, EndSync
    <3>2. Envelopes' \subseteq Envelopes
      BY <3>1, FlushEnvelopes
    <3>3. \A h \in Gateways : \A q \in left'[h] : q \in left[h] \/ (h = g /\ q[1] = g)
      BY <1>1, <2>1 DEF StartSync, EndSync, TypeOK
    <3> QED
      BY <3>1, <3>2, <3>3
  <2>2. CASE PullRoute(g, r)
    <3>1. r \in left[g] /\ r[1] = g
      BY <1>1, <2>2 DEF PullRoute, Owned
    <3>2. /\ batch' = [batch EXCEPT ![g] = {e \in box : e.via = r}]
          /\ left' = [left EXCEPT ![g] = @ \ {r}]
          /\ UNCHANGED <<outbox, box>>
      BY <2>2 DEF PullRoute
    <3>3. \A h \in Gateways : \A e \in batch'[h] : e \in batch[h] \/ (h = g /\ e \in box /\ e.via[1] = g)
      BY <1>1, <3>1, <3>2 DEF TypeOK
    <3>4. \A h \in Gateways : left'[h] \subseteq left[h]
      BY <1>1, <3>2 DEF TypeOK
    <3>5. Envelopes' \subseteq Envelopes
      BY <3>2, <3>3 DEF Envelopes
    <3> QED
      BY <3>3, <3>4, <3>5
  <2>3. CASE PullRefused(g, r) \/ Crash(g)
    <3>1. UNCHANGED <<outbox, box>>
      BY <2>3 DEF PullRefused, Crash
    <3>2. \A h \in Gateways : batch'[h] \subseteq batch[h] /\ left'[h] \subseteq left[h]
      <4>1. CASE PullRefused(g, r)
        <5>1. left' = [left EXCEPT ![g] = @ \ {r}] /\ batch' = batch
          BY <4>1 DEF PullRefused
        <5> QED
          BY <1>1, <5>1 DEF TypeOK
      <4>2. CASE Crash(g)
        <5>1. left' = [left EXCEPT ![g] = {}] /\ batch' = [batch EXCEPT ![g] = {}]
          BY <4>2 DEF Crash, Stop
        <5> QED
          BY <1>1, <5>1 DEF TypeOK
      <4> QED
        BY <2>3, <4>1, <4>2
    <3>3. Envelopes' \subseteq Envelopes
      BY <3>1, <3>2 DEF Envelopes
    <3> QED
      BY <3>2, <3>3
  <2> QED
    BY <2>1, <2>2, <2>3
<1>5. \A h \in Gateways : \A e \in batch'[h] : e.to = h
  BY <1>1, <1>4 DEF Owned, Envelopes
<1>6. Owned'
  BY <1>1, <1>2, <1>4, <1>5 DEF Owned
<1>7. \A x, y \in Gateways : Given(x, y)' \subseteq Given(x, y)
  BY <1>2, <1>4, GivenStays DEF OutwardPassedOn
<1> QED
  BY <1>1, <1>2, <1>3, <1>6, <1>7, KeepsService

\* The replacement of a contact route, to the end or not.
LEMMA ReplaceInv ==
  ASSUME RouteInv, NEW g \in Gateways, NEW stage \in 0..3,
         RotateContact(g) \/ RotateCut(g, stage)
  PROVE  Owned' /\ ServiceInv'
<1>1. TypeOK /\ Owned /\ ServiceInv
  BY DEF RouteInv
<1>2. PICK n \in 0..4 : Replaced(g, contact[g], NextRoute(g), n)
  BY DEF RotateContact, RotateCut
<1>3. Stop(g) /\ UNCHANGED <<inbound, card, outward>>
  BY DEF RotateContact, RotateCut
<1>4. \A h \in Gateways : batch'[h] \subseteq batch[h] /\ left'[h] \subseteq left[h]
  BY <1>1, <1>3 DEF Stop, TypeOK
<1>5. Envelopes' \subseteq Envelopes
  <2>1. CASE Flush(g, {})
    BY <1>4, <2>1, FlushEnvelopes
  <2>2. CASE UNCHANGED <<outbox, box>>
    BY <1>4, <2>2 DEF Envelopes
  <2> QED
    BY <2>1, <2>2 DEF RotateContact, RotateCut
<1>6. Owned'
  BY <1>1, <1>3, <1>4, <1>5 DEF Owned
<1>7. \A x, y \in Gateways : Given(x, y)' \subseteq Given(x, y)
  BY <1>3, <1>5, GivenStays DEF OutwardPassedOn
<1>8. ServiceInv'
  BY <1>1, <1>2, <1>7, ReplacesService
<1> QED
  BY <1>6, <1>8

\* Every step keeps the invariant.
LEMMA NextInv == RouteInv /\ [Next]_vars => RouteInv'
<1> SUFFICES ASSUME RouteInv, [Next]_vars PROVE RouteInv'
  OBVIOUS
<1>1. TypeOK /\ Owned /\ ServiceInv
  BY DEF RouteInv
<1>2. TypeOK'
  BY <1>1, NextTyped
<1>3. ASSUME NEW g \in Gateways, NEW h \in Gateways,
             Remember(g, h) \/ Connect(g, h) \/ Invite(g, h) \/ RotateRelationship(g, h)
      PROVE  Owned' /\ ServiceInv'
  BY <1>3, CallInv
<1>4. ASSUME NEW g \in Gateways, StartSync(g) \/ EndSync(g) \/ Crash(g)
      PROVE  Owned' /\ ServiceInv'
  <2>1. contact[g] \in Route
    BY <1>1 DEF TypeOK
  <2> QED
    BY <1>4, <2>1, SyncInv
<1>5. ASSUME NEW g \in Gateways, NEW r \in Route, PullRoute(g, r) \/ PullRefused(g, r)
      PROVE  Owned' /\ ServiceInv'
  BY <1>5, SyncInv
<1>6. ASSUME NEW g \in Gateways, NEW e \in batch[g], NEW answered \in BOOLEAN,
             Handle(g, e) \/ HandleRefused(g, e) \/ HandleDies(g, e, answered)
      PROVE  Owned' /\ ServiceInv'
  BY <1>6, HandleInv
<1>7. ASSUME NEW g \in Gateways, NEW stage \in 0..3, RotateContact(g) \/ RotateCut(g, stage)
      PROVE  Owned' /\ ServiceInv'
  BY <1>7, ReplaceInv
<1>8. ASSUME NEW g \in Gateways, RotateContact(g)
      PROVE  Owned' /\ ServiceInv'
  BY <1>7, <1>8, 0 \in 0..3
<1>9. ASSUME NEW g \in Gateways, NEW e \in batch[g], Handle(g, e) \/ HandleRefused(g, e)
      PROVE  Owned' /\ ServiceInv'
  BY <1>6, <1>9
<1>10. ASSUME UNCHANGED vars PROVE Owned' /\ ServiceInv'
  <2>1. Owned' /\ Envelopes' = Envelopes
    BY <1>1, <1>10 DEF vars, Owned, Envelopes
  <2>2. \A x, y \in Gateways : Given(x, y)' \subseteq Given(x, y)
    BY <1>10, <2>1, GivenStays DEF vars, OutwardPassedOn
  <2>3. ServiceInv'
    BY <1>1, <1>10, <2>2, KeepsService DEF vars
  <2> QED
    BY <2>1, <2>3
<1>11. Owned' /\ ServiceInv'
  BY <1>3, <1>4, <1>5, <1>6, <1>7, <1>8, <1>9, <1>10 DEF Next
<1> QED
  BY <1>2, <1>11 DEF RouteInv

\* It holds at the start, when nothing has been given to anybody.
LEMMA InitInv == Init => RouteInv
<1> SUFFICES ASSUME Init PROVE RouteInv
  OBVIOUS
<1>1. TypeOK
  BY InitTyped
<1>2. Envelopes = {}
  BY DEF Init, Envelopes
<1>3. \A h, g \in Gateways : Given(h, g) = {}
  BY <1>2, NoRouteAssumption DEF Init, Given
<1>4. Owned
  BY <1>2 DEF Init, Owned
<1>5. KnownIsMade /\ ContactServed
  BY DEF Init, KnownIsMade, ContactServed
<1>6. GivenServed /\ GivenApart
  BY <1>3 DEF GivenServed, GivenApart
<1> QED
  BY <1>1, <1>4, <1>5, <1>6 DEF RouteInv, ServiceInv

\* What the invariant says of the routes a gateway sends over and of the answers
\* under way.
LEMMA InvImplies ==
  ASSUME RouteInv
  PROVE  AddressesAreServed /\ RoutesArePairwise /\ ControlsStayReachable
<1>1. TypeOK /\ Owned /\ ServiceInv
  BY DEF RouteInv
<1>2. \A g, h \in Gateways : outward[g][h] # NoRoute => outward[g][h] \in Given(h, g)
  BY <1>1 DEF TypeOK, MaybeRoute, Given
<1>3. AddressesAreServed
  BY <1>1, <1>2 DEF ServiceInv, ContactServed, GivenServed, AddressesAreServed
<1>4. RoutesArePairwise
  <2> SUFFICES ASSUME NEW g \in Gateways, NEW h \in Gateways, outward[g][h] # NoRoute
               PROVE  /\ outward[g][h] # contact[h]
                      /\ \A q \in Gateways \ {g} : outward[q][h] # outward[g][h]
    BY DEF RoutesArePairwise
  <2>1. outward[g][h] # contact[h]
    BY <1>1, <1>2 DEF ServiceInv, GivenServed
  <2>2. ASSUME NEW q \in Gateways \ {g}, outward[q][h] = outward[g][h] PROVE FALSE
    BY <1>1, <1>2, <2>2 DEF ServiceInv, GivenApart
  <2> QED
    BY <2>1, <2>2
<1>5. ControlsStayReachable
  <2> SUFFICES ASSUME NEW e \in box \cup outbox, ~FirstContact(e)
               PROVE  e.via \notin revoked
    BY DEF ControlsStayReachable
  <2>1. e \in Envelope /\ e \in Envelopes
    BY <1>1 DEF TypeOK, Envelopes
  <2>2. e.to \in Gateways /\ e.from \in Gateways /\ e.via \in Route
    BY <2>1 DEF Envelope
  <2>3. e.via \in Given(e.to, e.from)
    BY <2>1, <2>2 DEF Given
  <2> QED
    BY <1>1, <2>2, <2>3 DEF ServiceInv, GivenServed
<1> QED
  BY <1>3, <1>4, <1>5

\* The invariant holds in every behaviour of Routes.
THEOREM RouteInvariant == Spec => []RouteInv
BY InitInv, NextInv, PTL DEF Spec

\* Every contact route and every route a gateway sends over is accepted by the
\* relay and pulled by its owner, through rotations cut short anywhere.
THEOREM PublishedRoutesWork == Spec => []AddressesAreServed
BY RouteInvariant, InvImplies, PTL

\* Nobody else sends over the route a gateway has to a peer.
THEOREM NoSharedRoutes == Spec => []RoutesArePairwise
BY RouteInvariant, InvImplies, PTL

\* Retiring contact routes strands neither an answer nor a route update.
THEOREM OnlyFirstContactsStrand == Spec => []ControlsStayReachable
BY RouteInvariant, InvImplies, PTL
-----------------------------------------------------------------------------
(* Used contact routes are retired.                                        *)

\* The rotation that retires r is still to come in the running sync of g.
DueAtEnd(g, r) == syncing[g] /\ rotate[g] /\ r = contact[g]

\* A used route is revoked or about to be, unless a call was cut short or the
\* bound on routes is reached; only a running sync has routes or envelopes to handle.
UsedInv ==
  /\ \A g \in Gateways : \A r \in used :
       r[1] = g => r \in revoked \/ DueAtEnd(g, r) \/ cuts # 0 \/ ~Spare(g)
  /\ \A g \in Gateways : left[g] # {} \/ batch[g] # {} => syncing[g]

\* The peers a route is kept back for.
Reserved(g) == {h \in Gateways \ {g} : inbound[g][h] = NoRoute}

\* The peers a gateway has reserved a route for are finitely many.
LEMMA ReservedFinite ==
  ASSUME NEW g \in Gateways
  PROVE  IsFiniteSet(Reserved(g)) /\ Cardinality(Reserved(g)) \in Nat
<1>1. IsFiniteSet(Reserved(g))
  BY GatewaysAssumption, FS_Subset, Reserved(g) \in SUBSET Gateways DEF Reserved
<1> QED
  BY <1>1, FS_CardinalityType

\* Creating a route takes room, unless it is the one kept back.
LEMMA RoomShrinks ==
  ASSUME TypeOK, TypeOK', NEW g \in Gateways,
         \/ inbound'[g] = inbound[g] /\ made'[g] >= made[g]
         \/ \E h \in Gateways, r \in Route :
              inbound'[g] = [inbound[g] EXCEPT ![h] = r] /\ made'[g] = made[g] + 1
  PROVE  ~Spare(g) => ~Spare(g)'
<1>1. made[g] \in Nat /\ made'[g] \in Nat /\ MaxRoutes \in Nat
  BY BoundsAssumption DEF TypeOK
<1>2. /\ IsFiniteSet(Reserved(g)) /\ Cardinality(Reserved(g)) \in Nat
      /\ Spare(g) <=> made[g] + Cardinality(Reserved(g)) < MaxRoutes
  BY ReservedFinite DEF Spare, Reserved
<1>3. CASE inbound'[g] = inbound[g] /\ made'[g] >= made[g]
  <2>1. Reserved(g)' = Reserved(g)
    BY <1>3 DEF Reserved
  <2>2. Spare(g)' <=> made'[g] + Cardinality(Reserved(g)) < MaxRoutes
    BY <2>1 DEF Spare, Reserved
  <2> QED
    BY <1>1, <1>2, <1>3, <2>2
<1>4. ASSUME NEW h \in Gateways, NEW r \in Route,
             inbound'[g] = [inbound[g] EXCEPT ![h] = r], made'[g] = made[g] + 1
      PROVE  ~Spare(g) => ~Spare(g)'
  <2>1. \A q \in Gateways : inbound'[g][q] = IF q = h THEN r ELSE inbound[g][q]
    <3>1. inbound[g] \in [Gateways -> MaybeRoute]
      BY DEF TypeOK
    <3> QED
      BY <1>4, <3>1
  <2>2. Reserved(g)' = Reserved(g) \ {h}
    BY <2>1, NoRouteAssumption DEF Reserved
  <2>3. Cardinality(Reserved(g) \ {h}) \in {Cardinality(Reserved(g)), Cardinality(Reserved(g)) - 1}
    BY <1>2, FS_RemoveElement
  <2>4. Spare(g)' <=> made'[g] + Cardinality(Reserved(g) \ {h}) < MaxRoutes
    BY <2>2 DEF Spare, Reserved
  <2> QED
    BY <1>1, <1>2, <1>4, <2>3, <2>4
<1> QED
  BY <1>3, <1>4

\* So does _relationship_inbound.
LEMMA InboundTakesRoom ==
  ASSUME TypeOK, TypeOK', NEW g \in Gateways, NEW h \in Gateways, NEW r, HaveInbound(g, h, r),
         NEW k \in Gateways
  PROVE  ~Spare(k) => ~Spare(k)'
<1>1. r \in Route
  BY InboundTyped
<1>2. inbound' = [inbound EXCEPT ![g] = [@ EXCEPT ![h] = r]] /\ r = InboundFor(g, h)
  BY DEF HaveInbound
<1>3. \A q \in Gateways : made[q] \in Nat /\ made'[q] \in Nat
  BY DEF TypeOK
<1>4. CASE r = NextRoute(g)
  <2>1. made' = [made EXCEPT ![g] = @ + 1]
    BY <1>4 DEF HaveInbound
  <2>2. CASE k = g
    <3>1. inbound'[k] = [inbound[k] EXCEPT ![h] = r] /\ made'[k] = made[k] + 1
      BY <1>2, <2>1, <2>2 DEF TypeOK
    <3> QED
      BY <1>1, <3>1, RoomShrinks
  <2>3. CASE k # g
    <3>1. inbound'[k] = inbound[k] /\ made'[k] >= made[k]
      BY <1>2, <1>3, <2>1, <2>3 DEF TypeOK
    <3> QED
      BY <3>1, RoomShrinks
  <2> QED
    BY <2>2, <2>3
<1>5. CASE r # NextRoute(g)
  <2>1. made' = made /\ r = inbound[g][h]
    BY <1>2, <1>5 DEF HaveInbound, InboundFor
  <2>2. inbound'[k] = inbound[k]
    <3>1. inbound[g] \in [Gateways -> MaybeRoute] /\ inbound \in [Gateways -> [Gateways -> MaybeRoute]]
      BY DEF TypeOK
    <3>2. [inbound[g] EXCEPT ![h] = r] = inbound[g]
      BY <2>1, <3>1
    <3>3. inbound' = [inbound EXCEPT ![g] = inbound[g]]
      BY <1>2, <3>2
    <3> QED
      BY <3>1, <3>3
  <2>3. made'[k] >= made[k]
    BY <1>3, <2>1
  <2> QED
    BY <2>2, <2>3, RoomShrinks
<1> QED
  BY <1>4, <1>5

\* Steps that use no contact route and end no sync that has one to retire.
LEMMA UsedKept ==
  ASSUME UsedInv, \A g \in Gateways : ~Spare(g) => ~Spare(g)',
         revoked \subseteq revoked', used' = used, cuts' = cuts,
         \A g \in Gateways : syncing[g] /\ rotate[g] =>
           syncing'[g] /\ rotate'[g] /\ contact'[g] = contact[g],
         \A g \in Gateways : left'[g] # {} \/ batch'[g] # {} => syncing'[g]
  PROVE  UsedInv'
<1> SUFFICES ASSUME NEW g \in Gateways, NEW r \in used, r[1] = g
             PROVE  r \in revoked' \/ DueAtEnd(g, r)' \/ cuts' # 0 \/ ~Spare(g)'
  BY DEF UsedInv
<1>1. r \in revoked \/ DueAtEnd(g, r) \/ cuts # 0 \/ ~Spare(g)
  BY DEF UsedInv
<1> QED
  BY <1>1 DEF DueAtEnd

\* Calls, pulls and the ends of a sync that has nothing to retire.
LEMMA QuietUsed ==
  ASSUME RouteInv, TypeOK', UsedInv, NEW g \in Gateways,
         \/ \E h \in Gateways : \/ Remember(g, h) \/ Connect(g, h) \/ Invite(g, h)
                                \/ RotateRelationship(g, h)
         \/ StartSync(g) \/ EndSync(g)
         \/ \E r \in Route : PullRoute(g, r) \/ PullRefused(g, r)
  PROVE  UsedInv'
<1>1. TypeOK /\ \A k \in Gateways : made[k] \in Nat /\ made'[k] \in Nat
  BY DEF RouteInv, TypeOK
<1>2. \A k \in Gateways : ~Spare(k) => ~Spare(k)'
  <2>1. ASSUME UNCHANGED <<made, inbound>>, NEW k \in Gateways
        PROVE  ~Spare(k) => ~Spare(k)'
    BY <1>1, <2>1, RoomShrinks
  <2>2. ASSUME NEW h \in Gateways, Connect(g, h) \/ Invite(g, h), NEW k \in Gateways
        PROVE  ~Spare(k) => ~Spare(k)'
    <3>1. HaveInbound(g, h, InboundFor(g, h))
      BY <2>2 DEF Connect, Invite
    <3>2. PICK r : r = InboundFor(g, h)
      OBVIOUS
    <3>3. HaveInbound(g, h, r)
      BY <3>1, <3>2
    <3> QED
      BY <1>1, <3>3, InboundTakesRoom
  <2>3. ASSUME NEW h \in Gateways, RotateRelationship(g, h), NEW k \in Gateways
        PROVE  ~Spare(k) => ~Spare(k)'
    <3>1. PICK r : r = NextRoute(g)
      OBVIOUS
    <3>2. r \in Route
      BY <1>1, <2>3, <3>1, SpareIsBelow, NextRouteTyped DEF RotateRelationship
    <3>3. /\ made' = [made EXCEPT ![g] = @ + 1]
          /\ inbound' = [inbound EXCEPT ![g] = [@ EXCEPT ![h] = r]]
      BY <2>3, <3>1 DEF RotateRelationship
    <3>4. CASE k = g
      <4>1. inbound'[k] = [inbound[k] EXCEPT ![h] = r] /\ made'[k] = made[k] + 1
        BY <1>1, <3>3, <3>4 DEF TypeOK
      <4> QED
        BY <1>1, <3>2, <4>1, RoomShrinks
    <3>5. CASE k # g
      <4>1. inbound'[k] = inbound[k] /\ made'[k] >= made[k]
        BY <1>1, <3>3, <3>5 DEF TypeOK
      <4> QED
        BY <1>1, <4>1, RoomShrinks
    <3> QED
      BY <3>4, <3>5
  <2>4. CASE \E h \in Gateways : Remember(g, h)
    BY <2>1, <2>4 DEF Remember
  <2>5. CASE StartSync(g) \/ EndSync(g) \/ \E r \in Route : PullRoute(g, r) \/ PullRefused(g, r)
    BY <2>1, <2>5 DEF StartSync, EndSync, PullRoute, PullRefused, tables
  <2> QED
    BY <2>2, <2>3, <2>4, <2>5
<1>3. /\ UNCHANGED <<revoked, contact, rotate, used, cuts>>
      /\ \/ syncing' = syncing
         \/ syncing' = [syncing EXCEPT ![g] = TRUE]
         \/ ~rotate[g] /\ batch[g] = {} /\ syncing' = [syncing EXCEPT ![g] = FALSE]
  BY DEF Remember, Connect, Invite, RotateRelationship, StartSync, EndSync, Visited, PullRoute,
         PullRefused, tables, process
<1>4. \A k \in Gateways : syncing[k] /\ rotate[k] =>
        syncing'[k] /\ rotate'[k] /\ contact'[k] = contact[k]
  BY <1>1, <1>3 DEF TypeOK
<1>5. \A k \in Gateways : left'[k] # {} \/ batch'[k] # {} => syncing'[k]
  <2>1. CASE \E h \in Gateways : Remember(g, h) \/ Connect(g, h) \/ Invite(g, h)
                                 \/ RotateRelationship(g, h)
    BY <2>1 DEF Remember, Connect, Invite, RotateRelationship, process, UsedInv
  <2>2. CASE StartSync(g)
    BY <1>1, <2>2 DEF StartSync, TypeOK, UsedInv
  <2>3. CASE EndSync(g)
    BY <1>1, <2>3 DEF EndSync, Visited, TypeOK, UsedInv
  <2>4. CASE \E r \in Route : PullRoute(g, r) \/ PullRefused(g, r)
    BY <1>1, <2>4 DEF PullRoute, PullRefused, TypeOK, UsedInv
  <2> QED
    BY <2>1, <2>2, <2>3, <2>4
<1> QED
  BY <1>2, <1>3, <1>4, <1>5, UsedKept

\* A first contact makes the rotation of the route it used due; an envelope that
\* comes after it does not undo that.
LEMMA HandleUsed ==
  ASSUME RouteInv, TypeOK', UsedInv, NEW g \in Gateways, NEW e \in batch[g], Handle(g, e)
  PROVE  UsedInv'
<1>1. TypeOK /\ syncing[g] /\ contact[g][1] = g
  BY DEF RouteInv, ServiceInv, ContactServed, UsedInv
<1>2. \A k \in Gateways : made[k] \in Nat /\ made'[k] \in Nat
  BY <1>1 DEF TypeOK
<1>3. e.from \in Gateways
  BY <1>1 DEF TypeOK, Envelope
<1>4. ASSUME NEW k \in Gateways PROVE ~Spare(k) => ~Spare(k)'
  <2>1. CASE Accept(g, e)
    <3>1. PICK r : r = InboundFor(g, e.from)
      OBVIOUS
    <3>2. HaveInbound(g, e.from, r)
      BY <2>1, <3>1 DEF Accept
    <3> QED
      BY <1>1, <1>3, <3>2, InboundTakesRoom
  <2>2. CASE Reroute(g, e)
    BY <1>1, <1>2, <2>2, RoomShrinks DEF Reroute
  <2> QED
    BY <2>1, <2>2 DEF Handle
<1>5. /\ UNCHANGED <<revoked, contact, left, syncing, cuts>>
      /\ batch' = [batch EXCEPT ![g] = @ \ {e}]
      /\ \/ used' = used /\ rotate' = [rotate EXCEPT ![g] = @ \/ FALSE]
         \/ used' = used \cup {contact[g]} /\ rotate' = [rotate EXCEPT ![g] = @ \/ TRUE]
  BY DEF Handle
<1>6. \A k \in Gateways : rotate[k] => rotate'[k]
  BY <1>1, <1>5 DEF TypeOK
<1>7. \A k \in Gateways : left'[k] # {} \/ batch'[k] # {} => syncing'[k]
  BY <1>1, <1>5 DEF TypeOK, UsedInv
<1>8. ASSUME NEW k \in Gateways, NEW r \in used', r[1] = k
      PROVE  r \in revoked' \/ DueAtEnd(k, r)' \/ cuts' # 0 \/ ~Spare(k)'
  <2>1. CASE r \in used
    <3>1. r \in revoked \/ DueAtEnd(k, r) \/ cuts # 0 \/ ~Spare(k)
      BY <1>8, <2>1 DEF UsedInv
    <3> QED
      BY <1>4, <1>5, <1>6, <3>1 DEF DueAtEnd
  <2>2. CASE r \notin used
    <3>1. r = contact[g] /\ k = g /\ rotate'[g]
      BY <1>1, <1>5, <1>8, <2>2 DEF TypeOK
    <3> QED
      BY <1>1, <1>5, <3>1 DEF DueAtEnd
  <2> QED
    BY <2>1, <2>2
<1> QED
  BY <1>7, <1>8 DEF UsedInv

\* A first contact that is refused uses no route.
LEMMA RefusedUsed ==
  ASSUME RouteInv, UsedInv, NEW g \in Gateways, NEW e \in batch[g], HandleRefused(g, e)
  PROVE  UsedInv'
<1>1. TypeOK
  BY DEF RouteInv
<1>2. /\ UNCHANGED <<made, inbound, revoked, contact, left, rotate, syncing, used, cuts>>
      /\ batch' = [batch EXCEPT ![g] = @ \ {e}]
  BY DEF HandleRefused
<1>3. \A k \in Gateways : ~Spare(k) => ~Spare(k)'
  BY <1>2 DEF Spare
<1>4. \A k \in Gateways : left'[k] # {} \/ batch'[k] # {} => syncing'[k]
  BY <1>1, <1>2 DEF TypeOK, UsedInv
<1> QED
  BY <1>2, <1>3, <1>4, UsedKept

\* A process that stops works on nothing.
LEMMA StopUsed ==
  ASSUME TypeOK, UsedInv, NEW g \in Gateways, Stop(g)
  PROVE  /\ \A k \in Gateways : left'[k] # {} \/ batch'[k] # {} => syncing'[k]
         /\ \A k \in Gateways \ {g} : syncing'[k] = syncing[k] /\ rotate'[k] = rotate[k]
BY DEF Stop, TypeOK, UsedInv

\* A call that is cut short is counted.
LEMMA CutUsed ==
  ASSUME TypeOK, UsedInv, NEW g \in Gateways, Stop(g), cuts' = cuts + 1
  PROVE  UsedInv'
<1>1. cuts' # 0
  BY BoundsAssumption DEF TypeOK
<1> QED
  BY <1>1, StopUsed DEF UsedInv

\* The rotation revokes the route that was due, of which there is one at a time.
LEMMA RotateUsed ==
  ASSUME RouteInv, TypeOK', UsedInv, NEW g \in Gateways,
         \/ RotateContact(g)
         \/ \E stage \in 0..3 : RotateCut(g, stage) /\ ~Spare(g)
  PROVE  UsedInv'
<1>1. TypeOK /\ \A k \in Gateways : made[k] \in Nat /\ made'[k] \in Nat
  BY DEF RouteInv, TypeOK
<1>2. Stop(g) /\ used' = used /\ inbound' = inbound
  BY DEF RotateContact, RotateCut
<1>3. /\ \/ contact' = contact /\ ~Spare(g)
         \/ contact' = [contact EXCEPT ![g] = NextRoute(g)] /\ contact[g] \in revoked'
      /\ revoked \subseteq revoked'
      /\ made' = made \/ made' = [made EXCEPT ![g] = @ + 1]
  <2>1. CASE RotateContact(g)
    BY <1>1, <2>1 DEF RotateContact, Replaced, TypeOK
  <2>2. ASSUME NEW stage \in 0..3, RotateCut(g, stage), ~Spare(g)
        PROVE  contact' = contact /\ revoked \subseteq revoked' /\ made' = made
    <3>1. stage = 0
      BY <2>2 DEF RotateCut
    <3> QED
      BY <1>1, <2>2, <3>1 DEF RotateCut, Replaced, TypeOK
  <2> QED
    BY <2>1, <2>2
<1>4. \A k \in Gateways : made'[k] >= made[k]
  <2>1. made \in [Gateways -> 1..MaxRoutes]
    BY <1>1 DEF TypeOK
  <2>2. \A k \in Gateways : made'[k] \in {made[k], made[k] + 1}
    BY <1>3, <2>1
  <2> QED
    BY <1>1, <2>2
<1>5. \A k \in Gateways : ~Spare(k) => ~Spare(k)'
  BY <1>1, <1>2, <1>4, RoomShrinks
<1>6. cuts' = cuts \/ cuts' = cuts + 1
  BY DEF RotateContact, RotateCut
<1>7. ASSUME NEW k \in Gateways, NEW r \in used, r[1] = k
      PROVE  r \in revoked' \/ DueAtEnd(k, r)' \/ cuts' # 0 \/ ~Spare(k)'
  <2>1. r \in revoked \/ DueAtEnd(k, r) \/ cuts # 0 \/ ~Spare(k)
    BY <1>7 DEF UsedInv
  <2>2. CASE cuts # 0
    BY <1>1, <1>6, <2>2, BoundsAssumption DEF TypeOK
  <2>3. CASE DueAtEnd(k, r) /\ k # g
    <3>1. syncing'[k] = syncing[k] /\ rotate'[k] = rotate[k]
      BY <1>1, <1>2, <2>3, StopUsed
    <3>2. contact'[k] = contact[k]
      BY <1>1, <1>3, <2>3 DEF TypeOK
    <3> QED
      BY <2>3, <3>1, <3>2 DEF DueAtEnd
  <2>4. CASE DueAtEnd(k, r) /\ k = g
    BY <1>3, <1>5, <2>4 DEF DueAtEnd
  <2> QED
    BY <1>3, <1>5, <2>1, <2>2, <2>3, <2>4
<1> QED
  BY <1>1, <1>2, <1>7, StopUsed DEF UsedInv

\* Every step keeps used routes out of service or about to go.
LEMMA UsedStep == RouteInv /\ TypeOK' /\ UsedInv /\ [Next]_vars => UsedInv'
<1> SUFFICES ASSUME RouteInv, TypeOK', UsedInv, [Next]_vars PROVE UsedInv'
  OBVIOUS
<1>1. TypeOK
  BY DEF RouteInv
<1>2. ASSUME NEW g \in Gateways,
             \/ \E e \in batch[g], answered \in BOOLEAN : HandleDies(g, e, answered)
             \/ \E stage \in 0..3 : RotateCut(g, stage) /\ Spare(g)
             \/ Crash(g)
      PROVE  UsedInv'
  <2>1. Stop(g) /\ cuts' = cuts + 1
    BY <1>2 DEF HandleDies, RotateCut, Crash
  <2> QED
    BY <1>1, <2>1, CutUsed
<1>3. CASE UNCHANGED vars
  <2>1. \A k \in Gateways : ~Spare(k) => ~Spare(k)'
    BY <1>3 DEF vars, Spare
  <2> QED
    BY <1>3, <2>1, UsedKept DEF vars, UsedInv
<1> QED
  BY <1>2, <1>3, QuietUsed, HandleUsed, RefusedUsed, RotateUsed DEF Next

\* A contact route over which a first contact was accepted is revoked once the
\* sync call that accepted it is over, whatever else that call handled, unless some
\* call was cut short or its gateway may create no more routes.
THEOREM UsedRoutesAreRetired == Spec => []UsedRoutesRetired
<1>1. Init => UsedInv
  BY DEF Init, UsedInv
<1>2. UsedInv => UsedRoutesRetired
  BY DEF UsedInv, UsedRoutesRetired, DueAtEnd, Idle
<1>3. RouteInv => TypeOK
  BY DEF RouteInv
<1> QED
  BY <1>1, <1>2, <1>3, InitInv, NextInv, UsedStep, PTL DEF Spec
=============================================================================
