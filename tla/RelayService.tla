---------------------------- MODULE RelayService ----------------------------
(***************************************************************************)
(* The relay behind its HTTP boundary: service principals with signed      *)
(* requests, quotas, routes, the public directory and blobs.  The server   *)
(* runs one handler thread per request.  A transaction under the relay's   *)
(* lock is one step; what a handler reads before it takes the lock, and    *)
(* what it commits in an earlier transaction, is a step of its own.        *)
(* Envelopes on their way (pull, acknowledge, expiry) are in Exchange.     *)
(***************************************************************************)
EXTENDS Integers, Sequences, FiniteSets, FiniteSetsExt

CONSTANTS
  Principals,    \* service principals, one gateway each
  Items,         \* envelopes, blobs and agents with a card
  Size,          \* Size[i]: bytes of an envelope or a blob
  Calls,         \* bound: the calls the gateways may make
  Races,         \* bound: which call may be made after which
  Drift,         \* Drift[p]: how far the clock of p's gateway is ahead
  Skew,          \* allowed distance of a proof's timestamp (five minutes)
  Retention,     \* how long nonces are kept (ten minutes)
  Patience,      \* the client's timeout (seconds)
  DayLength,
  RouteLimit, DailyLimit,  \* of every principal
  MaxRequests,   \* bound: requests
  Deliveries,    \* Deliveries[n]: bound: how often request n may arrive
  MaxClock,      \* bound: time
  MaxCrashes     \* bound: deaths of the relay process

Request == 1..MaxRequests
Delivery == UNION {{n} \X (1..Deliveries[n]) : n \in Request}
Time == 0..MaxClock
Never == MaxClock + 1
Day(t) == t \div DayLength

\* Every gateway starts with a contact route, named like its principal; a route
\* created later is named like the delivery of the request that created it.
Route == Principals \cup Delivery
Ops == {"create", "push", "pull", "revoke", "publish", "put", "get", "delete"}

\* life: the ttl of what is created, 0 for none.
Call == [op : Ops, by : Principals, item : Items, route : Route, life : Nat]
SignedCall == [call : Calls, stamp : Int, sent : Time]

\* Routes have fresh random identifiers.
ASSUME RoutesAssumption == Principals \cap Delivery = {}
ASSUME CallsAssumption == Calls \subseteq Call /\ Races \subseteq Calls \X Calls
ASSUME DriftAssumption == Drift \in [Principals -> Int]
ASSUME SizeAssumption == Size \in [Items -> Nat]
ASSUME LimitsAssumption == RouteLimit \in Nat \ {0} /\ DailyLimit \in Nat \ {0}
ASSUME BoundsAssumption ==
  /\ MaxRequests \in Nat /\ MaxClock \in Nat /\ MaxCrashes \in Nat
  /\ Deliveries \in [Request -> Nat]
  /\ DayLength \in Nat \ {0}
\* verify_service_proof keeps nonces for twice the skew.
ASSUME WindowAssumption ==
  /\ Skew \in Nat /\ Retention \in Nat /\ Patience \in Nat
  /\ Retention >= 2 * Skew

VARIABLES
  clock,     \* the relay's clock
  live,      \* principals whose credential is not revoked
  nonces,    \* service_nonces
  usage,     \* usage_daily.bytes
  routes,    \* routes
  revoked,   \* routes with revoked_at_ms
  cards,     \* public_cards
  blobs,     \* blobs
  mailbox,   \* envelopes stored
  requests,  \* what the gateways have sent
  at,        \* at[x]: where the handler of a delivery is, or its answer
  seen,      \* seen[x]: when that handler last got on, 0 if no time it read matters
  givenUp,   \* local routes a gateway deactivated after AuthenticationError
  proven,    \* history: proofs accepted per request
  late,      \* history: deliveries whose nonce was entered later than Margin allows
  inserted,  \* history: bytes of envelopes and blobs stored, per principal
  crashes    \* history: deaths of the relay process

tables == <<live, nonces, usage, routes, revoked, cards, blobs, mailbox>>
history == <<proven, late, inserted, crashes>>
vars == <<clock, tables, requests, at, seen, givenUp, history>>

Answers == {"ok", "known", "denied", "failed", "lost"}
Phases == {"underway", "checked", "proved", "cleared", "charged"}

TypeOK ==
  /\ clock \in Time
  /\ live \subseteq Principals
  /\ nonces \subseteq [by : Principals, nonce : Request, used : Time]
  /\ usage \in [Principals -> [0..Day(MaxClock) -> 0..DailyLimit]]
  /\ routes \subseteq [route : Route, owner : Principals, expires : Nat]
  /\ revoked \subseteq Route
  /\ cards \subseteq [agent : Items, owner : Principals, route : Route, expires : Nat]
  /\ blobs \subseteq [blob : Items, owner : Principals, expires : Nat]
  /\ mailbox \subseteq Items
  /\ requests \in Seq(SignedCall)
  /\ Len(requests) <= MaxRequests
  /\ at \in [Delivery -> Phases \cup Answers]
  /\ seen \in [Delivery -> Time]
  /\ givenUp \subseteq Route
  /\ proven \in [Request -> Nat]
  /\ late \subseteq Delivery
  /\ inserted \in [Principals -> Nat]
  /\ crashes \in 0..MaxCrashes

Init ==
  /\ clock = 0
  /\ live = Principals
  /\ nonces = {}
  /\ usage = [p \in Principals |-> [d \in 0..Day(MaxClock) |-> 0]]
  /\ routes = {[route |-> p, owner |-> p, expires |-> Never] : p \in Principals}
  /\ revoked = {}
  /\ cards = {}
  /\ blobs = {}
  /\ mailbox = {}
  /\ requests = <<>>
  /\ at = [x \in Delivery |-> "underway"]
  /\ seen = [x \in Delivery |-> 0]
  /\ givenUp = {}
  /\ proven = [n \in Request |-> 0]
  /\ late = {}
  /\ inserted = [p \in Principals |-> 0]
  /\ crashes = 0
-----------------------------------------------------------------------------
(* Requests and answers.                                                   *)

Asked(x) == requests[x[1]].call
By(x) == Asked(x).by
Until(t, life) == IF life = 0 THEN Never ELSE t + life

Owns(p, r) == \E row \in routes : row.route = r /\ row.owner = p

\* HttpRelayClient._request: a fresh nonce (the number of the request) and the
\* time of the caller's clock.  A gateway may have given up waiting for the last one.
\* sync pulls the routes in local_routes: answers to the gateway's own create_route.
Issue(c) ==
  /\ Len(requests) < MaxRequests
  /\ requests # <<>> => <<requests[Len(requests)].call, c>> \in Races
  /\ c.op = "pull" => Owns(c.by, c.route)
  /\ requests' = Append(requests, [call |-> c, stamp |-> clock + Drift[c.by], sent |-> clock])
  /\ UNCHANGED <<clock, tables, at, seen, givenUp, history>>

\* Whether the gateway still waits for this answer: it has asked nothing since
\* and its timeout is not over.  Nobody reads the answer to a second delivery.
Awaited(x) ==
  /\ x[2] = 1 /\ clock - requests[x[1]].sent <= Patience
  /\ \A n \in DOMAIN requests : n > x[1] => requests[n].call.by # By(x)

\* Whether a handler at this phase works with a time it has read before: the one it
\* compared the timestamp with, the creation of a route, the day of a charge.
Timed(x, phase) ==
  \/ phase = "checked"
  \/ phase = "proved" /\ Asked(x).op \in {"create", "push"}
  \/ phase = "cleared" /\ Asked(x).op \in {"put", "get"}

\* A handler goes on to a phase or ends with an answer.  401 to a pull is an
\* AuthenticationError in sync, which deactivates the local route.
Go(x, to) ==
  /\ at' = [at EXCEPT ![x] = to]
  /\ seen' = [seen EXCEPT ![x] = IF Timed(x, to) THEN clock ELSE 0]
  /\ givenUp' \in IF to = "denied" /\ Asked(x).op = "pull" /\ Awaited(x)
                  THEN {givenUp, givenUp \cup {Asked(x).route}} ELSE {givenUp}

\* _route: the route is known, not revoked and not expired.
Served(r) == r \notin revoked /\ \E row \in routes : row.route = r /\ row.expires > clock

\* Faulty variant of InWindow: timestamps of the future are refused.
InWindowPast(x) ==
  /\ clock - requests[x[1]].stamp <= Skew
  /\ requests[x[1]].stamp <= clock

\* abs(now - timestamp) is within the skew.
InWindow(x) ==
  /\ clock - requests[x[1]].stamp <= Skew
  /\ requests[x[1]].stamp - clock <= Skew

\* A request arrives, perhaps again: authenticate_service, and the checks of
\* verify_service_proof before its transaction.
Receive(x) ==
  /\ x[1] \in DOMAIN requests
  /\ at[x] = "underway"
  /\ x[2] > 1 => at[<<x[1], x[2] - 1>>] # "underway"
  /\ Go(x, IF By(x) \in live /\ InWindow(x) THEN "checked" ELSE "denied")
  /\ UNCHANGED <<clock, tables, requests, history>>

\* Faulty variant of Fresh: nonces are kept only as long as the skew.
FreshForSkew(row) == row.used >= clock - Skew

\* Nonces the DELETE of verify_service_proof leaves.
Fresh(row) == row.used >= clock - Retention

\* How long a handler may wait for its transaction before a nonce that is still
\* needed can be forgotten: in the code, not at all.
Margin == Retention - 2 * Skew

\* The transaction of verify_service_proof: old nonces go, the new one is
\* inserted; a known one rolls everything back.
Prove(x) ==
  LET kept == {row \in nonces : Fresh(row)}
      known == \E row \in kept : row.by = By(x) /\ row.nonce = x[1] IN
  /\ at[x] = "checked"
  /\ \/ known /\ Go(x, "denied") /\ UNCHANGED <<nonces, proven, late>>
     \/ /\ ~known /\ Go(x, "proved")
        /\ nonces' = kept \cup {[by |-> By(x), nonce |-> x[1], used |-> clock]}
        /\ proven' = [proven EXCEPT ![x[1]] = @ + 1]
        /\ late' = IF clock - seen[x] > Margin THEN late \cup {x} ELSE late
  /\ UNCHANGED <<clock, live, usage, routes, revoked, cards, blobs, mailbox, requests,
                 inserted, crashes>>
-----------------------------------------------------------------------------
(* The operations behind an accepted proof.                                *)

\* Routes that count against the quota of p.  The time is the one read before
\* the lock was taken.
Counted(p, created) ==
  {row \in routes : row.owner = p /\ row.route \notin revoked /\ row.expires > created}

\* Faulty variant of WithinQuota: off by one.
WithinQuotaTwice(p, created) == Cardinality(Counted(p, created)) <= RouteLimit

WithinQuota(p, created) == Cardinality(Counted(p, created)) < RouteLimit

CreateRoute(x) ==
  /\ at[x] = "proved" /\ Asked(x).op = "create"
  /\ \E created \in seen[x]..clock :
       \/ By(x) \notin live /\ Go(x, "denied") /\ UNCHANGED routes
       \/ By(x) \in live /\ ~WithinQuota(By(x), created) /\ Go(x, "failed") /\ UNCHANGED routes
       \/ /\ By(x) \in live /\ WithinQuota(By(x), created) /\ Go(x, "ok")
          /\ routes' = routes \cup {[route |-> x, owner |-> By(x),
                                     expires |-> Until(created, Asked(x).life)]}
  /\ UNCHANGED <<clock, live, nonces, usage, revoked, cards, blobs, mailbox, requests, history>>

\* Faulty variant of Fits: the bytes to be charged are left out.
FitsBefore(x, day) == usage[By(x)][day] < DailyLimit \/ Size[Asked(x).item] = 0

Fits(x, day) == usage[By(x)][day] + Size[Asked(x).item] <= DailyLimit

\* Faulty variant of Charged: authenticated principals are not looked up again.
ChargedUnchecked(x, day) ==
  /\ Fits(x, day)
  /\ usage' = [usage EXCEPT ![By(x)][day] = @ + Size[Asked(x).item]]

\* charge, on the day read before the lock was taken.
Charged(x, day) ==
  /\ By(x) \in live /\ Fits(x, day)
  /\ usage' = [usage EXCEPT ![By(x)][day] = @ + Size[Asked(x).item]]

\* charge raises: AuthenticationError, or AuthorizationError beyond the quota.
Uncharged(x, day) ==
  /\ ~(By(x) \in live /\ Fits(x, day))
  /\ Go(x, IF By(x) \in live THEN "failed" ELSE "denied")
  /\ UNCHANGED usage

\* Before a push, and after get_blob has read: charge in a transaction of its own.
Charge(x) ==
  /\ \/ at[x] = "proved" /\ Asked(x).op = "push"
     \/ at[x] = "cleared" /\ Asked(x).op = "get"
  /\ \E day \in Day(seen[x])..Day(clock) :
       \/ Charged(x, day) /\ Go(x, IF Asked(x).op = "push" THEN "charged" ELSE "ok")
       \/ Uncharged(x, day)
  /\ UNCHANGED <<clock, live, nonces, routes, revoked, cards, blobs, mailbox, requests, history>>

\* Faulty variant of Push: the envelope is stored first and charged by nobody.
PushBeforeCharge(x) ==
  /\ at[x] \in {"proved", "charged"} /\ Asked(x).op = "push"
  /\ Served(Asked(x).route) /\ Asked(x).item \notin mailbox /\ Go(x, "ok")
  /\ mailbox' = mailbox \cup {Asked(x).item}
  /\ inserted' = [inserted EXCEPT ![By(x)] = @ + Size[Asked(x).item]]
  /\ UNCHANGED <<clock, live, nonces, usage, routes, revoked, cards, blobs, requests, proven, late,
                 crashes>>

\* Relay.push: a known envelope is answered again, the charge stays in any case.
Push(x) ==
  /\ at[x] = "charged" /\ Asked(x).op = "push"
  /\ \/ ~Served(Asked(x).route) /\ Go(x, "denied") /\ UNCHANGED <<mailbox, inserted>>
     \/ /\ Served(Asked(x).route) /\ Asked(x).item \in mailbox /\ Go(x, "known")
        /\ UNCHANGED <<mailbox, inserted>>
     \/ /\ Served(Asked(x).route) /\ Asked(x).item \notin mailbox /\ Go(x, "ok")
        /\ mailbox' = mailbox \cup {Asked(x).item}
        /\ inserted' = [inserted EXCEPT ![By(x)] = @ + Size[Asked(x).item]]
  /\ UNCHANGED <<clock, live, nonces, usage, routes, revoked, cards, blobs, requests, proven, late,
                 crashes>>
-----------------------------------------------------------------------------
(* Operations that check something before they take the lock.              *)

CardExpires(x) == requests[x[1]].sent + Asked(x).life
Fetchable(b) == \E row \in blobs : row.blob = b /\ row.expires > clock

\* _principal and assert_route_owner, outside the transaction.
MayGoOn(x) ==
  /\ Asked(x).op \in {"publish", "put", "get"} => By(x) \in live
  /\ Asked(x).op \in {"publish", "pull", "revoke"} =>
       Served(Asked(x).route) /\ Owns(By(x), Asked(x).route)

\* An expired card, a blob that is unknown or expired.
Unusable(x) ==
  \/ Asked(x).op = "publish" /\ CardExpires(x) <= clock
  \/ Asked(x).op = "get" /\ ~Fetchable(Asked(x).item)

Clear(x) ==
  /\ at[x] = "proved" /\ Asked(x).op \in {"publish", "put", "get", "pull", "revoke"}
  /\ \/ ~MayGoOn(x) /\ Go(x, "denied")
     \/ MayGoOn(x) /\ Unusable(x) /\ Go(x, "failed")
     \/ MayGoOn(x) /\ ~Unusable(x) /\ Go(x, "cleared")
  /\ UNCHANGED <<clock, tables, requests, history>>

OfAnother(x) == \E row \in cards : row.agent = Asked(x).item /\ row.owner # By(x)

Published(x, p) ==
  {row \in cards : row.agent # Asked(x).item}
    \cup {[agent |-> Asked(x).item, owner |-> p, route |-> Asked(x).route,
           expires |-> CardExpires(x)]}

\* Faulty variant of Publish: the upsert alone, which keeps the principal of a
\* row that exists.
PublishUpserting(x) ==
  /\ at[x] = "cleared" /\ Asked(x).op = "publish"
  /\ Go(x, "ok")
  /\ cards' = Published(x, IF OfAnother(x)
                           THEN (CHOOSE row \in cards : row.agent = Asked(x).item).owner
                           ELSE By(x))
  /\ UNCHANGED <<clock, live, nonces, usage, routes, revoked, blobs, mailbox, requests, history>>

\* The transaction of publish_public_card.
Publish(x) ==
  /\ at[x] = "cleared" /\ Asked(x).op = "publish"
  /\ \/ OfAnother(x) /\ Go(x, "failed") /\ UNCHANGED cards
     \/ ~OfAnother(x) /\ Go(x, "ok") /\ cards' = Published(x, By(x))
  /\ UNCHANGED <<clock, live, nonces, usage, routes, revoked, blobs, mailbox, requests, history>>

BlobRow(x) ==
  [blob |-> Asked(x).item, owner |-> By(x), expires |-> Until(seen[x], Asked(x).life)]

Exists(b) == \E row \in blobs : row.blob = b

\* Faulty variant of Put: INSERT OR REPLACE.
PutReplacing(x) ==
  /\ at[x] = "cleared" /\ Asked(x).op = "put"
  /\ \E day \in Day(seen[x])..Day(clock) :
       \/ Uncharged(x, day) /\ UNCHANGED <<blobs, inserted>>
       \/ /\ Charged(x, day) /\ Go(x, "ok")
          /\ blobs' = {row \in blobs : row.blob # Asked(x).item} \cup {BlobRow(x)}
          /\ inserted' = [inserted EXCEPT ![By(x)] = @ + Size[Asked(x).item]]
  /\ UNCHANGED <<clock, live, nonces, routes, revoked, cards, mailbox, requests, proven, late,
                 crashes>>

\* The transaction of put_blob.  A blob that exists is left alone, expired or not.
Put(x) ==
  /\ at[x] = "cleared" /\ Asked(x).op = "put"
  /\ \/ Exists(Asked(x).item) /\ Go(x, "known") /\ UNCHANGED <<usage, blobs, inserted>>
     \/ /\ ~Exists(Asked(x).item)
        /\ \E day \in Day(seen[x])..Day(clock) :
             \/ Uncharged(x, day) /\ UNCHANGED <<blobs, inserted>>
             \/ /\ Charged(x, day) /\ Go(x, "ok")
                /\ blobs' = blobs \cup {BlobRow(x)}
                /\ inserted' = [inserted EXCEPT ![By(x)] = @ + Size[Asked(x).item]]
  /\ UNCHANGED <<clock, live, nonces, routes, revoked, cards, mailbox, requests, proven, late,
                 crashes>>

\* delete_blob: by its owner only.
Delete(x) ==
  LET mine == {row \in blobs : row.blob = Asked(x).item /\ row.owner = By(x)} IN
  /\ at[x] = "proved" /\ Asked(x).op = "delete"
  /\ blobs' = blobs \ mine
  /\ Go(x, IF mine = {} THEN "failed" ELSE "ok")
  /\ UNCHANGED <<clock, live, nonces, usage, routes, revoked, cards, mailbox, requests, history>>

\* The transactions of pull and revoke_route, which look at the route again.
PullOrRevoke(x) ==
  LET served == Served(Asked(x).route) IN
  /\ at[x] = "cleared" /\ Asked(x).op \in {"pull", "revoke"}
  /\ Go(x, IF served THEN "ok" ELSE "denied")
  /\ revoked' = IF served /\ Asked(x).op = "revoke" THEN revoked \cup {Asked(x).route}
                ELSE revoked
  /\ UNCHANGED <<clock, live, nonces, usage, routes, cards, blobs, mailbox, requests, history>>
-----------------------------------------------------------------------------
(* Around the requests.                                                    *)

\* The operator calls revoke_service_credential.
RevokeCredential(p) ==
  /\ p \in live
  /\ live' = live \ {p}
  /\ UNCHANGED <<clock, nonces, usage, routes, revoked, cards, blobs, mailbox, requests, at,
                 seen, givenUp, history>>

Running(x) == at[x] \in Phases \ {"underway"}

\* The relay process dies with all its handlers, perhaps between the commit of
\* charge inside put_blob and that of put_blob itself.
Crash ==
  /\ crashes < MaxCrashes
  /\ \E x \in Delivery : Running(x)
  /\ \/ UNCHANGED usage
     \/ \E x \in Delivery : /\ at[x] = "cleared" /\ Asked(x).op = "put"
                            /\ ~Exists(Asked(x).item)
                            /\ \E day \in Day(seen[x])..Day(clock) : Charged(x, day)
  /\ at' = [x \in Delivery |-> IF Running(x) THEN "lost" ELSE at[x]]
  /\ seen' = [x \in Delivery |-> 0]
  /\ crashes' = crashes + 1
  /\ UNCHANGED <<clock, live, nonces, routes, revoked, cards, blobs, mailbox, requests,
                 givenUp, proven, late, inserted>>

\* Time passes, wherever the handlers are.
Tick ==
  /\ clock < MaxClock
  /\ clock' = clock + 1
  /\ UNCHANGED <<tables, requests, at, seen, givenUp, history>>

Next ==
  \/ \E c \in Calls : Issue(c)
  \/ \E x \in Delivery :
       \/ Receive(x) \/ Prove(x) \/ CreateRoute(x) \/ Charge(x) \/ Push(x) \/ Clear(x)
       \/ Publish(x) \/ Put(x) \/ Delete(x) \/ PullOrRevoke(x)
  \/ \E p \in Principals : RevokeCredential(p)
  \/ Crash
  \/ Tick

Spec == Init /\ [][Next]_vars
-----------------------------------------------------------------------------
\* A signed request takes effect once, however often it is delivered: its nonce
\* is not forgotten before its timestamp is too old (README.md, replay prevention),
\* unless a handler of it waited longer than Margin between its check of the
\* timestamp and the transaction that enters the nonce.
ProofAcceptedOnce == \A n \in Request : proven[n] <= 1 \/ \E x \in late : x[1] = n

\* No principal has more routes in service than its quota, whichever of its
\* requests are handled at the same time and whenever they read the clock.
RouteQuota ==
  \A p \in Principals : Cardinality(Counted(p, clock)) <= RouteLimit

TotalUsage(p) == MapThenSumSet(LAMBDA d : usage[p][d], 0..Day(MaxClock))

\* Whatever the relay stores for a principal was charged to it, although charge
\* and push are two transactions and the relay may die, the day may end or the
\* credential may be revoked between them.
StoredWasCharged == \A p \in Principals : inserted[p] <= TotalUsage(p)

\* A card in the directory leads to a route of the principal that published it,
\* although the route is checked before the transaction and an agent may come
\* back under another principal.
CardsNameOwnRoutes == \A row \in cards : Owns(row.owner, row.route)

\* A blob that put_blob said it stored stays with its owner until that owner
\* deletes it, whoever uploads the same bytes again.
StoredBlobsStay ==
  \A x \in Delivery :
    x[1] \in DOMAIN requests /\ Asked(x).op = "put" /\ at[x] = "ok" =>
      \/ \E row \in blobs : row.blob = Asked(x).item /\ row.owner = By(x)
      \/ \E y \in Delivery :
           /\ y[1] \in DOMAIN requests /\ Asked(y).op = "delete" /\ at[y] = "ok"
           /\ Asked(y).item = Asked(x).item /\ By(y) = By(x)

\* A copy of a pull from r may have taken the nonce first.
PullCopied(r) ==
  \E x \in Delivery :
    /\ x[1] \in DOMAIN requests /\ Asked(x).op = "pull" /\ Asked(x).route = r
    /\ x[2] > 1 /\ at[x] # "underway"

\* Clocks whose every request arrives within the skew while its sender waits for
\* the answer: those that are behind need their time on the way as well.
GoodClocks == -(Skew - Patience)..Skew

\* A gateway gives a route up only when the relay serves it no more or its
\* credential is revoked, provided its clock is good and the network makes no
\* copy of its pull that overtakes it.
GivenUpRoutesAreDead ==
  \A r \in givenUp :
    \/ ~Served(r)
    \/ \E row \in routes :
         row.route = r /\ (row.owner \notin live \/ Drift[row.owner] \notin GoodClocks)
    \/ PullCopied(r)

\* A revoked credential gets no new route, is charged nothing and stores no blob,
\* also through requests that were accepted before it was revoked.
RevokedGainsNothing ==
  [][\A p \in Principals \ live :
       /\ usage'[p] = usage[p]
       /\ {row \in routes' : row.owner = p} \subseteq routes
       /\ {row \in blobs' : row.owner = p} \subseteq blobs]_vars
=============================================================================
