------------------------- MODULE RelayServiceProofs -------------------------
(***************************************************************************)
(* What holds of RelayService for any principals, calls, clocks and        *)
(* limits: types (TypeCorrect), signed requests take effect once unless a  *)
(* handler waits too long (NoReplay), cards lead to routes of their owner  *)
(* (CardsAreOwned), a revoked credential gains nothing (RevocationHolds),  *)
(* uploads stay (UploadsStay), route quotas hold (QuotaHolds), what is     *)
(* stored was charged (StorageIsPaid) and gateways give up no route        *)
(* without a reason (GivenUpForAReason).                                   *)
(***************************************************************************)
EXTENDS RelayService, SetInduction, FiniteSetTheorems, TLAPS

\* A request on record has a typed call, time stamp and time of sending.
LEMMA CallType ==
  ASSUME TypeOK, NEW n \in DOMAIN requests
  PROVE  /\ n \in Request
         /\ requests[n].call \in Calls /\ requests[n].call \in Call
         /\ requests[n].stamp \in Int /\ requests[n].sent \in Time
<1>1. requests \in Seq(SignedCall) /\ Len(requests) <= MaxRequests
  BY DEF TypeOK
<1>2. requests[n] \in SignedCall /\ n \in Request
  BY <1>1, BoundsAssumption DEF Request
<1> QED
  BY <1>2, CallsAssumption DEF SignedCall

\* The first half of a delivery is the number of a request.
LEMMA DeliveryType == \A x \in Delivery : x[1] \in Request /\ x[1] \in Nat
  BY BoundsAssumption DEF Delivery, Request

\* A handler runs for a request that was sent.
Handled == \A x \in Delivery : at[x] # "underway" => x[1] \in DOMAIN requests

\* What a step of a handler asks about is a call of some gateway.
LEMMA AskedType ==
  ASSUME TypeOK, Handled, NEW x \in Delivery, at[x] # "underway"
  PROVE  /\ Asked(x) \in Call
         /\ By(x) \in Principals /\ Asked(x).route \in Route /\ Asked(x).item \in Items
         /\ Asked(x).life \in Nat /\ Size[Asked(x).item] \in Nat
         /\ x[1] \in DOMAIN requests
<1>1. x[1] \in DOMAIN requests
  BY DEF Handled
<1>2. Asked(x) \in Call
  BY <1>1, CallType DEF Asked
<1> QED
  BY <1>1, <1>2, SizeAssumption DEF By, Call

\* Going on keeps the handlers' phases, their times and the routes given up typed.
LEMMA GoType ==
  ASSUME TypeOK, NEW x \in Delivery, x[1] \in DOMAIN requests,
         NEW to \in Phases \cup Answers, Go(x, to)
  PROVE  /\ at' \in [Delivery -> Phases \cup Answers]
         /\ seen' \in [Delivery -> Time]
         /\ givenUp' \subseteq Route
<1>1. at' \in [Delivery -> Phases \cup Answers] /\ seen' \in [Delivery -> Time]
  BY BoundsAssumption DEF Go, TypeOK, Time
<1>2. Asked(x).route \in Route
  BY CallType DEF Asked, Call
<1> QED
  BY <1>1, <1>2 DEF Go, TypeOK

\* Whole division is monotonic: later times are on no earlier day.
LEMMA DayMonotone ==
  ASSUME NEW a \in Nat, NEW b \in Nat, a <= b, NEW d \in Nat \ {0}
  PROVE  a \div d \in Nat /\ a \div d <= b \div d
<1> DEFINE q == a \div d
           r == b \div d
<1>1. q \in Int /\ r \in Int /\ q >= 0
  BY SMT
<1>2. d * q <= a /\ b < d * r + d
  BY SMT
<1>3. d * q < d * (r + 1)
  BY <1>1, <1>2, SMT
<1> QED
  BY <1>1, <1>3, SMT

\* The day a handler may have read is one that usage has a column for.
LEMMA DayType ==
  ASSUME NEW s \in Time, NEW t \in Time, NEW d \in Day(s)..Day(t)
  PROVE  d \in 0..Day(MaxClock)
<1>1. Day(s) \in Nat /\ Day(t) \in Nat /\ Day(MaxClock) \in Nat
  BY BoundsAssumption, DayMonotone DEF Day, Time
<1>2. Day(t) <= Day(MaxClock)
  BY BoundsAssumption, DayMonotone DEF Day, Time
<1> QED
  BY <1>1, <1>2

\* charge keeps the usage of every principal and day within the daily limit.
LEMMA ChargedType ==
  ASSUME TypeOK, Handled, NEW x \in Delivery, at[x] # "underway",
         NEW day \in 0..Day(MaxClock), Charged(x, day)
  PROVE  usage' \in [Principals -> [0..Day(MaxClock) -> 0..DailyLimit]]
<1> DEFINE p == By(x)
           D == 0..Day(MaxClock)
           n == usage[p][day] + Size[Asked(x).item]
<1>1. p \in Principals /\ Size[Asked(x).item] \in Nat
  BY AskedType
<1>2. usage \in [Principals -> [D -> 0..DailyLimit]]
  BY DEF TypeOK
<1>3. usage[p] \in [D -> 0..DailyLimit] /\ usage[p][day] \in 0..DailyLimit
  BY <1>1, <1>2
<1>4. n \in 0..DailyLimit
  BY <1>1, <1>3, LimitsAssumption DEF Charged, Fits
<1>5. usage' = [usage EXCEPT ![p] = [usage[p] EXCEPT ![day] = n]]
  BY DEF Charged
<1>6. [usage[p] EXCEPT ![day] = n] \in [D -> 0..DailyLimit]
  BY <1>3, <1>4
<1> HIDE DEF p, D, n
<1> QED
  BY <1>1, <1>2, <1>5, <1>6 DEF D

-----------------------------------------------------------------------------
(* Type correctness.                                                       *)

\* What the step of a handler leaves alone whatever it does.
Framed == UNCHANGED <<clock, live, requests, crashes>>

Typed == TypeOK /\ Handled

\* Handlers run for sent requests only, also after a step of one of them.
LEMMA HandledStep ==
  ASSUME Typed, NEW x \in Delivery, x[1] \in DOMAIN requests,
         NEW to \in Phases \cup Answers, Go(x, to), Framed
  PROVE  Handled'
  BY DEF Typed, TypeOK, Handled, Go, Framed

\* The tables a handler may change keep their types.
TablesOK ==
  /\ nonces \subseteq [by : Principals, nonce : Request, used : Time]
  /\ usage \in [Principals -> [0..Day(MaxClock) -> 0..DailyLimit]]
  /\ routes \subseteq [route : Route, owner : Principals, expires : Nat]
  /\ revoked \subseteq Route
  /\ cards \subseteq [agent : Items, owner : Principals, route : Route, expires : Nat]
  /\ blobs \subseteq [blob : Items, owner : Principals, expires : Nat]
  /\ mailbox \subseteq Items
  /\ proven \in [Request -> Nat]
  /\ late \subseteq Delivery
  /\ inserted \in [Principals -> Nat]

\* A step of a handler that keeps the tables typed keeps everything typed.
LEMMA HandlerTyped ==
  ASSUME Typed, NEW x \in Delivery, x[1] \in DOMAIN requests,
         NEW to \in Phases \cup Answers, Go(x, to), Framed, TablesOK'
  PROVE  Typed'
<1>1. Handled'
  BY HandledStep
<1>2. /\ at' \in [Delivery -> Phases \cup Answers]
      /\ seen' \in [Delivery -> Time]
      /\ givenUp' \subseteq Route
  BY GoType DEF Typed
<1>3. UNCHANGED <<clock, live, requests, crashes>>
  BY DEF Framed
<1>4. TypeOK'
  BY <1>2, <1>3 DEF Typed, TypeOK, TablesOK
<1> QED
  BY <1>1, <1>4 DEF Typed

\* An expiry is a number.
LEMMA UntilType == ASSUME NEW t \in Nat, NEW life \in Nat PROVE Until(t, life) \in Nat
  BY BoundsAssumption DEF Until, Never

\* The tables of an empty relay are typed.
LEMMA TypeInit == Init => Typed
<1> SUFFICES ASSUME Init PROVE Typed
  OBVIOUS
<1>1. Day(MaxClock) \in Nat /\ 0 \in Time /\ Never \in Nat
  BY BoundsAssumption, DayMonotone DEF Day, Time, Never
<1>2. usage \in [Principals -> [0..Day(MaxClock) -> 0..DailyLimit]]
  BY <1>1, LimitsAssumption DEF Init
<1>3. requests \in Seq(SignedCall) /\ Len(requests) <= MaxRequests
  BY BoundsAssumption DEF Init
<1>4. routes \subseteq [route : Route, owner : Principals, expires : Nat]
  BY <1>1 DEF Init, Route
<1>5. /\ at \in [Delivery -> Phases \cup Answers]
      /\ seen \in [Delivery -> Time]
  BY <1>1 DEF Init, Phases
<1>6. clock \in Time /\ crashes \in 0..MaxCrashes
  BY <1>1, BoundsAssumption DEF Init
<1>7. TypeOK
  BY <1>2, <1>3, <1>4, <1>5, <1>6 DEF Init, TypeOK
<1> QED
  BY <1>7 DEF Init, Typed, Handled

Handler(x) ==
  \/ Receive(x) \/ Prove(x) \/ CreateRoute(x) \/ Charge(x) \/ Push(x) \/ Clear(x)
  \/ Publish(x) \/ Put(x) \/ Delete(x) \/ PullOrRevoke(x)

\* A handler step goes somewhere and leaves the frame alone.
Goes(x) ==
  /\ x[1] \in DOMAIN requests
  /\ \E to \in Phases \cup Answers : Go(x, to)
  /\ Framed

\* A step of a handler moves that handler and leaves the rest of the world alone.
LEMMA HandlerGoes == ASSUME Typed, NEW x \in Delivery, Handler(x) PROVE Goes(x)
<1>1. ASSUME Receive(x) PROVE Goes(x)
  BY <1>1 DEF Receive, Goes, Typed, Handled, Framed, Phases, Answers, tables, history
<1>2. ASSUME Prove(x) PROVE Goes(x)
  BY <1>2 DEF Prove, Goes, Typed, Handled, Framed, Phases, Answers, tables, history
<1>3. ASSUME CreateRoute(x) PROVE Goes(x)
  BY <1>3 DEF CreateRoute, Goes, Typed, Handled, Framed, Phases, Answers, tables, history
<1>4. ASSUME Charge(x) PROVE Goes(x)
  BY <1>4 DEF Charge, Charged, Uncharged, Goes, Typed, Handled, Framed, Phases, Answers, tables, history
<1>5. ASSUME Push(x) PROVE Goes(x)
  BY <1>5 DEF Push, Goes, Typed, Handled, Framed, Phases, Answers, tables, history
<1>6. ASSUME Clear(x) PROVE Goes(x)
  BY <1>6 DEF Clear, Goes, Typed, Handled, Framed, Phases, Answers, tables, history
<1>7. ASSUME Publish(x) PROVE Goes(x)
  BY <1>7 DEF Publish, Goes, Typed, Handled, Framed, Phases, Answers, tables, history
<1>8. ASSUME Put(x) PROVE Goes(x)
  BY <1>8 DEF Put, Charged, Uncharged, Goes, Typed, Handled, Framed, Phases, Answers, tables, history
<1>9. ASSUME Delete(x) PROVE Goes(x)
  BY <1>9 DEF Delete, Goes, Typed, Handled, Framed, Phases, Answers, tables, history
<1>10. ASSUME PullOrRevoke(x) PROVE Goes(x)
  BY <1>10 DEF PullOrRevoke, Goes, Typed, Handled, Framed, Phases, Answers, tables, history
<1> QED
  BY <1>1, <1>2, <1>3, <1>4, <1>5, <1>6, <1>7, <1>8, <1>9, <1>10 DEF Handler

\* A step of a handler keeps the tables typed.
LEMMA HandlerTables == ASSUME Typed, NEW x \in Delivery, Handler(x) PROVE TablesOK'
<1> USE DEF Typed
<1>0. TablesOK
  BY DEF TypeOK, TablesOK
<1>1. ASSUME Receive(x) PROVE TablesOK'
  BY <1>0, <1>1 DEF Receive, TablesOK, tables, history
<1>2. ASSUME Prove(x) PROVE TablesOK'
  <2>1. By(x) \in Principals /\ x[1] \in Request /\ clock \in Time
    BY <1>2, AskedType, DeliveryType DEF Prove, TypeOK
  <2>2. nonces' \subseteq [by : Principals, nonce : Request, used : Time]
    BY <1>0, <1>2, <2>1 DEF Prove, TablesOK
  <2>3. proven' \in [Request -> Nat] /\ late' \subseteq Delivery
    BY <1>0, <1>2, <2>1 DEF Prove, TablesOK
  <2> QED
    BY <1>0, <1>2, <2>2, <2>3 DEF Prove, TablesOK
<1>3. ASSUME CreateRoute(x) PROVE TablesOK'
  <2>1. By(x) \in Principals /\ x \in Delivery /\ Asked(x).life \in Nat
    BY <1>3, AskedType DEF CreateRoute
  <2>2. PICK created \in seen[x]..clock :
          \/ routes' = routes
          \/ routes' = routes \cup {[route |-> x, owner |-> By(x),
                                     expires |-> Until(created, Asked(x).life)]}
    BY <1>3 DEF CreateRoute
  <2>3. created \in Nat
    BY <2>2 DEF TypeOK, Time
  <2>4. Until(created, Asked(x).life) \in Nat
    BY <2>1, <2>3, UntilType
  <2>5. routes' \subseteq [route : Route, owner : Principals, expires : Nat]
    BY <1>0, <2>1, <2>2, <2>4 DEF TablesOK, Route
  <2> QED
    BY <1>0, <1>3, <2>5 DEF CreateRoute, TablesOK, history
<1>4. ASSUME Charge(x) PROVE TablesOK'
  <2>1. PICK day \in Day(seen[x])..Day(clock) : Charged(x, day) \/ UNCHANGED usage
    BY <1>4 DEF Charge, Uncharged
  <2>2. usage' \in [Principals -> [0..Day(MaxClock) -> 0..DailyLimit]]
    <3>1. day \in 0..Day(MaxClock)
      BY <2>1, DayType DEF TypeOK
    <3>2. at[x] # "underway"
      BY <1>4 DEF Charge
    <3> QED
      BY <1>0, <2>1, <3>1, <3>2, ChargedType DEF TablesOK
  <2> QED
    BY <1>0, <1>4, <2>2 DEF Charge, TablesOK, history
<1>5. ASSUME Push(x) PROVE TablesOK'
  <2>1. By(x) \in Principals /\ Asked(x).item \in Items /\ Size[Asked(x).item] \in Nat
    BY <1>5, AskedType DEF Push
  <2>2. inserted' \in [Principals -> Nat]
    BY <1>0, <1>5, <2>1 DEF Push, TablesOK
  <2>3. mailbox' \subseteq Items
    BY <1>0, <1>5, <2>1 DEF Push, TablesOK
  <2> QED
    BY <1>0, <1>5, <2>2, <2>3 DEF Push, TablesOK
<1>6. ASSUME Clear(x) PROVE TablesOK'
  BY <1>0, <1>6 DEF Clear, TablesOK, tables, history
<1>7. ASSUME Publish(x) PROVE TablesOK'
  <2>1. /\ By(x) \in Principals /\ Asked(x).item \in Items /\ Asked(x).route \in Route
        /\ CardExpires(x) \in Nat
    BY <1>7, AskedType, CallType, BoundsAssumption DEF Publish, CardExpires, Time
  <2>2. cards' \subseteq [agent : Items, owner : Principals, route : Route, expires : Nat]
    BY <1>0, <1>7, <2>1 DEF Publish, Published, TablesOK
  <2> QED
    BY <1>0, <1>7, <2>2 DEF Publish, TablesOK, history
<1>8. ASSUME Put(x) PROVE TablesOK'
  <2>1. /\ By(x) \in Principals /\ Asked(x).item \in Items /\ Asked(x).life \in Nat
        /\ Size[Asked(x).item] \in Nat
    BY <1>8, AskedType DEF Put
  <2>2. BlobRow(x) \in [blob : Items, owner : Principals, expires : Nat]
    <3>1. seen[x] \in Nat
      BY DEF TypeOK, Time
    <3>2. Until(seen[x], Asked(x).life) \in Nat
      BY <2>1, <3>1, UntilType
    <3> QED
      BY <2>1, <3>2 DEF BlobRow
  <2>3. blobs' \subseteq [blob : Items, owner : Principals, expires : Nat]
    BY <1>0, <1>8, <2>2 DEF Put, TablesOK
  <2>4. inserted' \in [Principals -> Nat]
    <3>1. \/ inserted' = inserted
          \/ inserted' = [inserted EXCEPT ![By(x)] = @ + Size[Asked(x).item]]
      BY <1>8 DEF Put
    <3>2. inserted \in [Principals -> Nat]
      BY <1>0 DEF TablesOK
    <3>3. inserted[By(x)] + Size[Asked(x).item] \in Nat
      BY <2>1, <3>2
    <3> QED
      BY <3>1, <3>2, <3>3
  <2>5. usage' \in [Principals -> [0..Day(MaxClock) -> 0..DailyLimit]]
    <3>1. \/ UNCHANGED usage
          \/ \E day \in Day(seen[x])..Day(clock) : Charged(x, day)
      BY <1>8 DEF Put, Uncharged
    <3>2. \A day \in Day(seen[x])..Day(clock) : day \in 0..Day(MaxClock)
      BY DayType DEF TypeOK
    <3>3. at[x] # "underway"
      BY <1>8 DEF Put
    <3> QED
      BY <1>0, <3>1, <3>2, <3>3, ChargedType DEF TablesOK
  <2>6. UNCHANGED <<nonces, routes, revoked, cards, mailbox, proven, late>>
    BY <1>8 DEF Put
  <2> QED
    BY <1>0, <2>3, <2>4, <2>5, <2>6 DEF TablesOK
<1>9. ASSUME Delete(x) PROVE TablesOK'
  BY <1>0, <1>9 DEF Delete, TablesOK, history
<1>10. ASSUME PullOrRevoke(x) PROVE TablesOK'
  <2>1. Asked(x).route \in Route
    BY <1>10, AskedType DEF PullOrRevoke
  <2> QED
    BY <1>0, <1>10, <2>1 DEF PullOrRevoke, TablesOK, history
<1> QED
  BY <1>1, <1>2, <1>3, <1>4, <1>5, <1>6, <1>7, <1>8, <1>9, <1>10 DEF Handler

\* A step of a handler keeps everything typed.
LEMMA HandlerTypes == ASSUME Typed, NEW x \in Delivery, Handler(x) PROVE Typed'
<1>1. Goes(x)
  BY HandlerGoes
<1>2. TablesOK'
  BY HandlerTables
<1> QED
  BY <1>1, <1>2, HandlerTyped DEF Goes

\* A new request is typed.
LEMMA IssueTypes == ASSUME Typed, NEW c \in Calls, Issue(c) PROVE Typed'
<1> DEFINE r == [call |-> c, stamp |-> clock + Drift[c.by], sent |-> clock]
<1>1. r \in SignedCall
  <2>1. c \in Call /\ clock \in Time
    BY CallsAssumption DEF Typed, TypeOK
  <2> QED
    BY <2>1, DriftAssumption, BoundsAssumption DEF SignedCall, Call, Time
<1>2. requests \in Seq(SignedCall) /\ requests' = Append(requests, r) /\ Len(requests) < MaxRequests
  BY DEF Issue, Typed, TypeOK
<1> HIDE DEF r
<1>3. /\ requests' \in Seq(SignedCall) /\ Len(requests') <= MaxRequests
      /\ DOMAIN requests \subseteq DOMAIN requests'
  BY <1>1, <1>2, BoundsAssumption
<1>4. UNCHANGED <<clock, tables, at, seen, givenUp, history>>
  BY DEF Issue
<1> QED
  BY <1>3, <1>4 DEF Typed, TypeOK, Handled, tables, history

\* Revoking a credential, a death and time that passes keep everything typed.
LEMMA OtherTypes ==
  ASSUME Typed, (\E p \in Principals : RevokeCredential(p)) \/ Crash \/ Tick \/ UNCHANGED vars
  PROVE  Typed'
<1>1. CASE \E p \in Principals : RevokeCredential(p)
  BY <1>1 DEF RevokeCredential, Typed, TypeOK, Handled, history
<1>2. CASE Crash
  <2>1. usage' \in [Principals -> [0..Day(MaxClock) -> 0..DailyLimit]]
    <3>1. \/ UNCHANGED usage
          \/ \E x \in Delivery : /\ at[x] = "cleared"
                                 /\ \E day \in Day(seen[x])..Day(clock) : Charged(x, day)
      BY <1>2 DEF Crash
    <3>2. \A x \in Delivery : \A day \in Day(seen[x])..Day(clock) : day \in 0..Day(MaxClock)
      BY DayType DEF Typed, TypeOK
    <3>3. usage \in [Principals -> [0..Day(MaxClock) -> 0..DailyLimit]]
      BY DEF Typed, TypeOK
    <3> QED
      BY <3>1, <3>2, <3>3, ChargedType DEF Typed
  <2>2. /\ at' \in [Delivery -> Phases \cup Answers]
        /\ seen' \in [Delivery -> Time]
        /\ crashes' \in 0..MaxCrashes
    BY <1>2, BoundsAssumption DEF Crash, Typed, TypeOK, Answers, Time
  <2>3. UNCHANGED <<clock, live, nonces, routes, revoked, cards, blobs, mailbox, requests,
                    givenUp, proven, late, inserted>>
    BY <1>2 DEF Crash
  <2>4. TypeOK'
    BY <2>1, <2>2, <2>3 DEF Typed, TypeOK
  <2>5. Handled'
    BY <1>2, <2>3 DEF Crash, Running, Typed, Handled
  <2> QED
    BY <2>4, <2>5 DEF Typed
<1>3. CASE Tick
  <2>1. clock' \in Time
    BY <1>3, BoundsAssumption DEF Tick, Typed, TypeOK, Time
  <2> QED
    BY <1>3, <2>1 DEF Tick, Typed, TypeOK, Handled, tables, history
<1>4. CASE UNCHANGED vars
  BY <1>4 DEF vars, Typed, TypeOK, Handled, tables, history
<1> QED
  BY <1>1, <1>2, <1>3, <1>4

\* The next-state relation, its handler steps together.
LEMMA NextCases ==
  ASSUME [Next]_vars
  PROVE  \/ \E c \in Calls : Issue(c)
         \/ \E x \in Delivery : Handler(x)
         \/ \E p \in Principals : RevokeCredential(p)
         \/ Crash
         \/ Tick
         \/ UNCHANGED vars
  BY DEF Next, Handler

\* Every step keeps types.
LEMMA TypedStep == Typed /\ [Next]_vars => Typed'
  BY NextCases, IssueTypes, HandlerTypes, OtherTypes

\* Types hold in every behaviour.
LEMMA TypedAlways == Spec => []Typed
<1> QED
  BY TypeInit, TypedStep, PTL DEF Spec

\* The tables of the relay and the state of its handlers keep their types, for
\* any principals, calls, clocks, limits and bounds.
THEOREM TypeCorrect == Spec => []TypeOK
<1>1. Typed => TypeOK
  BY DEF Typed
<1> QED
  BY <1>1, TypedAlways, PTL

-----------------------------------------------------------------------------
(* Replay.  An accepted proof leaves a row that outlives its timestamp:    *)
(* the row is entered no earlier than the timestamp less the skew, kept    *)
(* for at least twice the skew, and by then the timestamp is out of the    *)
(* window for everybody who does not wait longer than Margin after the     *)
(* look at it.  Who does is in late for ever.                              *)

\* A handler at the door of verify_service_proof's transaction has seen the
\* timestamp within the window.
CheckedInTime ==
  \A x \in Delivery : at[x] = "checked" =>
    /\ seen[x] <= clock
    /\ seen[x] - requests[x[1]].stamp <= Skew
    /\ requests[x[1]].stamp - seen[x] <= Skew

\* The nonce of request n is on record and will be while its timestamp is good.
OnRecord(n) ==
  \E row \in nonces :
    /\ row.by = requests[n].call.by /\ row.nonce = n
    /\ row.used >= requests[n].stamp - Skew

\* Nobody can enter the nonce of request n any more without having waited too long.
Outdated(n) == clock > requests[n].stamp + Retention - Skew

NonceKept ==
  \A n \in Request :
    /\ n \notin DOMAIN requests => proven[n] = 0
    /\ n \in DOMAIN requests => proven[n] = 0 \/ OnRecord(n) \/ Outdated(n)

ReplayInv == Typed /\ CheckedInTime /\ NonceKept /\ ProofAcceptedOnce

\* No proof was accepted at the start.
LEMMA ReplayInit == Init => ReplayInv
<1> SUFFICES ASSUME Init PROVE ReplayInv
  OBVIOUS
<1>1. Typed
  BY TypeInit
<1>2. CheckedInTime /\ NonceKept /\ ProofAcceptedOnce
  BY DEF Init, CheckedInTime, NonceKept, ProofAcceptedOnce
<1> QED
  BY <1>1, <1>2 DEF ReplayInv

\* Steps that accept no proof.
LEMMA RecordStays ==
  ASSUME NonceKept, ProofAcceptedOnce, UNCHANGED <<clock, nonces, requests, proven, late>>
  PROVE  NonceKept' /\ ProofAcceptedOnce'
  BY DEF NonceKept, ProofAcceptedOnce, OnRecord, Outdated

\* Handlers that wait for their transaction keep what they saw when another goes on.
LEMMA CheckedStays ==
  ASSUME CheckedInTime, NEW x \in Delivery, Goes(x), at'[x] # "checked"
  PROVE  CheckedInTime'
  BY DEF CheckedInTime, Goes, Framed, Go

\* The transaction of verify_service_proof leaves every nonce unused, on record or
\* outdated.
LEMMA ReplayProve ==
  ASSUME ReplayInv, NEW x \in Delivery, Prove(x), NEW n \in Request
  PROVE  /\ n \notin DOMAIN requests => proven'[n] = 0
         /\ n \in DOMAIN requests => proven'[n] = 0 \/ OnRecord(n)' \/ Outdated(n)'
         /\ proven'[n] <= 1 \/ \E y \in late' : y[1] = n
<1> USE DEF ReplayInv
<1> DEFINE k == x[1]
           kept == {row \in nonces : Fresh(row)}
           new == [by |-> By(x), nonce |-> k, used |-> clock]
<1>1. k \in DOMAIN requests /\ k \in Request /\ requests[k].stamp \in Int
  BY AskedType, CallType, DeliveryType DEF Prove, Typed
<1>2. /\ seen[x] <= clock
      /\ seen[x] - requests[k].stamp <= Skew /\ requests[k].stamp - seen[x] <= Skew
  BY DEF Prove, CheckedInTime
<1>3. clock \in Nat /\ seen[x] \in Nat /\ Skew \in Nat /\ Retention \in Nat
      /\ Retention >= 2 * Skew
  BY WindowAssumption DEF Typed, TypeOK, Time
<1>4. \A row \in nonces : row.used \in Nat
  BY DEF Typed, TypeOK, Time
<1>5. UNCHANGED <<clock, requests>> /\ late \subseteq late'
  BY DEF Prove, Go
<1>6. proven \in [Request -> Nat]
  BY DEF Typed, TypeOK
<1>7. /\ n \notin DOMAIN requests => proven[n] = 0
      /\ n \in DOMAIN requests => proven[n] = 0 \/ OnRecord(n) \/ Outdated(n)
      /\ proven[n] <= 1 \/ \E y \in late : y[1] = n
  BY DEF NonceKept, ProofAcceptedOnce
<1>8. CASE UNCHANGED <<nonces, proven>>
  BY <1>5, <1>7, <1>8 DEF OnRecord, Outdated
<1>9. CASE /\ ~\E row \in kept : row.by = By(x) /\ row.nonce = k
           /\ nonces' = kept \cup {new}
           /\ proven' = [proven EXCEPT ![k] = @ + 1]
           /\ late' = IF clock - seen[x] > Margin THEN late \cup {x} ELSE late
  <2>0. CASE n = k /\ clock - seen[x] > Margin
    <3>1. \E y \in late' : y[1] = n
      BY <1>9, <2>0
    <3>2. new.by = requests[k].call.by /\ new.nonce = k /\ new.used = clock
      BY DEF By, Asked
    <3>3. new.used >= requests[k].stamp - Skew
      BY <1>1, <1>2, <1>3, <3>2
    <3>4. OnRecord(k)'
      BY <1>5, <1>9, <3>2, <3>3 DEF OnRecord
    <3> QED
      BY <1>1, <1>5, <2>0, <3>1, <3>4
  <2>1. CASE n = k /\ ~(clock - seen[x] > Margin)
    <3>0. clock <= requests[k].stamp + Retention - Skew
      BY <1>1, <1>2, <1>3, <2>1 DEF Margin
    <3>1. ~Outdated(k)
      BY <1>1, <1>3, <3>0 DEF Outdated
    <3>2. ~OnRecord(k)
      <4>1. SUFFICES ASSUME NEW row \in nonces, row.by = requests[k].call.by, row.nonce = k,
                            row.used >= requests[k].stamp - Skew
                     PROVE  FALSE
        BY DEF OnRecord
      <4>3. row.used >= clock - Retention
        BY <1>1, <1>3, <1>4, <3>0, <4>1
      <4>4. row \in kept
        BY <4>3 DEF Fresh
      <4> QED
        BY <1>9, <4>1, <4>4 DEF By, Asked
    <3>3. proven[k] = 0
      BY <1>1, <1>7, <2>1, <3>1, <3>2
    <3>4. proven'[k] = 1
      BY <1>1, <1>6, <1>9, <3>3
    <3>5. new.by = requests[k].call.by /\ new.nonce = k /\ new.used = clock
      BY DEF By, Asked
    <3>6. new.used >= requests[k].stamp - Skew
      BY <1>1, <1>2, <1>3, <3>5
    <3>7. OnRecord(k)'
      BY <1>5, <1>9, <3>5, <3>6 DEF OnRecord
    <3> QED
      BY <1>1, <2>1, <3>4, <3>7, <1>5
  <2>2. CASE n # k
    <3>1. proven'[n] = proven[n]
      BY <1>1, <1>6, <1>9, <2>2
    <3>2. ASSUME n \in DOMAIN requests, OnRecord(n)
          PROVE  OnRecord(n)' \/ Outdated(n)'
      <4>1. PICK row \in nonces : /\ row.by = requests[n].call.by /\ row.nonce = n
                                  /\ row.used >= requests[n].stamp - Skew
        BY <3>2 DEF OnRecord
      <4>2. CASE Fresh(row)
        BY <1>5, <1>9, <4>1, <4>2 DEF OnRecord
      <4>3. CASE ~Fresh(row)
        <5>1. requests[n].stamp \in Int
          BY <3>2, CallType DEF Typed
        <5>2. row.used < clock - Retention
          BY <1>3, <1>4, <4>3 DEF Fresh
        <5>3. Outdated(n)
          BY <1>3, <1>4, <4>1, <5>1, <5>2 DEF Outdated
        <5> QED
          BY <1>5, <5>3 DEF Outdated
      <4> QED
        BY <4>2, <4>3
    <3>3. Outdated(n) => Outdated(n)'
      BY <1>5 DEF Outdated
    <3> QED
      BY <1>5, <1>7, <3>1, <3>2, <3>3
  <2> QED
    BY <2>0, <2>1, <2>2
<1> QED
  BY <1>8, <1>9 DEF Prove

\* Whoever passes the check of the timestamp has seen it in its window.
LEMMA ReplayReceive == ASSUME ReplayInv, NEW x \in Delivery, Receive(x) PROVE CheckedInTime'
<1>1. CASE at'[x] # "checked"
  <2>1. Goes(x)
    BY HandlerGoes DEF ReplayInv, Handler
  <2> QED
    BY <1>1, <2>1, CheckedStays DEF ReplayInv
<1>2. CASE at'[x] = "checked"
  <2>1. InWindow(x) /\ Go(x, "checked") /\ UNCHANGED <<clock, requests>>
    BY <1>2 DEF Receive, Go, ReplayInv, Typed, TypeOK
  <2>2. /\ seen' = [seen EXCEPT ![x] = clock] /\ at' = [at EXCEPT ![x] = "checked"]
    BY <2>1 DEF Go, Timed
  <2>3. clock \in Nat /\ at \in [Delivery -> Phases \cup Answers]
        /\ seen \in [Delivery -> Time]
    BY DEF ReplayInv, Typed, TypeOK, Time
  <2>4. ASSUME NEW y \in Delivery, at'[y] = "checked"
        PROVE  /\ seen'[y] <= clock'
               /\ seen'[y] - requests'[y[1]].stamp <= Skew
               /\ requests'[y[1]].stamp - seen'[y] <= Skew
    <3>1. CASE y = x
      BY <2>1, <2>2, <2>3, <3>1 DEF InWindow
    <3>2. CASE y # x
      BY <2>1, <2>2, <2>3, <2>4, <3>2 DEF ReplayInv, CheckedInTime
    <3> QED
      BY <3>1, <3>2
  <2> QED
    BY <2>4 DEF CheckedInTime
<1> QED
  BY <1>1, <1>2

\* No step of a handler lets a proof in twice.
LEMMA ReplayHandler == ASSUME ReplayInv, NEW x \in Delivery, Handler(x) PROVE ReplayInv'
<1>1. Typed'
  BY HandlerTypes DEF ReplayInv
<1>2. CheckedInTime'
  <2>1. CASE Receive(x)
    BY <2>1, ReplayReceive
  <2>2. CASE ~Receive(x)
    <3>1. at'[x] # "checked"
      BY <2>2 DEF Handler, Prove, CreateRoute, Charge, Uncharged, Push, Clear, Publish, Put,
                  Delete, PullOrRevoke, Go, ReplayInv, Typed, TypeOK
    <3>2. Goes(x)
      BY HandlerGoes DEF ReplayInv
    <3> QED
      BY <3>1, <3>2, CheckedStays DEF ReplayInv
  <2> QED
    BY <2>1, <2>2
<1>3. NonceKept' /\ ProofAcceptedOnce'
  <2>1. CASE Prove(x)
    <3>1. \A n \in Request :
            /\ n \notin DOMAIN requests => proven'[n] = 0
            /\ n \in DOMAIN requests => proven'[n] = 0 \/ OnRecord(n)' \/ Outdated(n)'
            /\ proven'[n] <= 1 \/ \E y \in late' : y[1] = n
      BY <2>1, ReplayProve
    <3>2. requests' = requests
      BY <2>1 DEF Prove
    <3> QED
      BY <3>1, <3>2 DEF NonceKept, ProofAcceptedOnce
  <2>2. CASE ~Prove(x)
    <3>1. UNCHANGED <<clock, nonces, requests, proven, late>>
      BY <2>2 DEF Handler, Receive, CreateRoute, Charge, Push, Clear, Publish, Put,
                  Delete, PullOrRevoke, tables, history
    <3> QED
      BY <3>1, RecordStays DEF ReplayInv
  <2> QED
    BY <2>1, <2>2
<1> QED
  BY <1>1, <1>2, <1>3 DEF ReplayInv

\* A new request has an unused nonce.
LEMMA ReplayIssue == ASSUME ReplayInv, NEW c \in Calls, Issue(c) PROVE ReplayInv'
<1> USE DEF ReplayInv
<1>1. Typed'
  BY IssueTypes
<1>2. requests \in Seq(SignedCall)
  BY DEF Typed, TypeOK
<1>3. \E r : requests' = Append(requests, r)
  BY DEF Issue
<1>4. /\ DOMAIN requests \subseteq DOMAIN requests'
      /\ \A n \in DOMAIN requests : requests'[n] = requests[n]
  BY <1>2, <1>3
<1>5. UNCHANGED <<clock, at, seen, nonces, proven, late>>
  BY DEF Issue, tables, history
<1>6. CheckedInTime'
  BY <1>4, <1>5 DEF CheckedInTime, Typed, Handled
<1>7. NonceKept'
  <2>1. ASSUME NEW n \in Request, n \in DOMAIN requests,
               proven[n] = 0 \/ OnRecord(n) \/ Outdated(n)
        PROVE  proven'[n] = 0 \/ OnRecord(n)' \/ Outdated(n)'
    BY <1>4, <1>5, <2>1 DEF OnRecord, Outdated
  <2> QED
    BY <1>4, <1>5, <2>1 DEF NonceKept
<1>8. ProofAcceptedOnce'
  BY <1>5 DEF ProofAcceptedOnce
<1> QED
  BY <1>1, <1>6, <1>7, <1>8

\* Time may pass until a nonce is forgotten, but then its timestamp is out of the window.
LEMMA ReplayOther ==
  ASSUME ReplayInv, (\E p \in Principals : RevokeCredential(p)) \/ Crash \/ Tick \/ UNCHANGED vars
  PROVE  ReplayInv'
<1> USE DEF ReplayInv
<1>1. Typed'
  BY OtherTypes
<1>2. CASE (\E p \in Principals : RevokeCredential(p)) \/ UNCHANGED vars
  <2>1. UNCHANGED <<clock, nonces, requests, proven, late, at, seen>>
    BY <1>2 DEF RevokeCredential, vars, tables, history
  <2> QED
    BY <1>1, <2>1, RecordStays DEF CheckedInTime
<1>3. CASE Crash
  <2>1. UNCHANGED <<clock, nonces, requests, proven, late>>
    BY <1>3 DEF Crash
  <2>2. \A x \in Delivery : at'[x] # "checked"
    BY <1>3 DEF Crash, Running, Phases
  <2> QED
    BY <1>1, <2>1, <2>2, RecordStays DEF CheckedInTime
<1>4. CASE Tick
  <2>1. UNCHANGED <<nonces, requests, proven, late, at, seen>> /\ clock' = clock + 1
    BY <1>4 DEF Tick, tables, history
  <2>2. clock \in Nat /\ seen \in [Delivery -> Time]
    BY DEF Typed, TypeOK, Time
  <2>3. CheckedInTime'
    BY <2>1, <2>2 DEF CheckedInTime, Time
  <2>4. ASSUME NEW n \in DOMAIN requests
        PROVE  (OnRecord(n) => OnRecord(n)') /\ (Outdated(n) => Outdated(n)')
    <3>1. requests[n].stamp \in Int /\ Skew \in Nat /\ Retention \in Nat
      BY CallType, WindowAssumption DEF Typed
    <3> QED
      BY <2>1, <2>2, <3>1 DEF OnRecord, Outdated
  <2>5. NonceKept' /\ ProofAcceptedOnce'
    BY <2>1, <2>4 DEF NonceKept, ProofAcceptedOnce
  <2> QED
    BY <1>1, <2>3, <2>5
<1> QED
  BY <1>2, <1>3, <1>4

\* No request takes effect twice, for any clocks, calls and interleavings, unless a
\* handler of it waited longer than Margin for its transaction.
THEOREM NoReplay == Spec => []ProofAcceptedOnce
<1>1. ReplayInv /\ [Next]_vars => ReplayInv'
  BY NextCases, ReplayHandler, ReplayIssue, ReplayOther
<1>2. ReplayInv => ProofAcceptedOnce
  BY DEF ReplayInv
<1> QED
  BY <1>1, <1>2, ReplayInit, PTL DEF Spec

-----------------------------------------------------------------------------
(* The directory.  Routes change hands never, so what a handler saw before *)
(* its transaction about who owns a route is still so.                     *)

\* No route is ever taken out of the table.
LEMMA RoutesGrow == ASSUME [Next]_vars PROVE routes \subseteq routes'
<1>1. CASE \E x \in Delivery : Handler(x)
  BY <1>1 DEF Handler, Receive, Prove, CreateRoute, Charge, Push, Clear, Publish, Put, Delete,
              PullOrRevoke, tables, history
<1>2. CASE ~\E x \in Delivery : Handler(x)
  BY <1>2, NextCases DEF Issue, RevokeCredential, Crash, Tick, vars, tables, history
<1> QED
  BY <1>1, <1>2

\* A handler about to publish a card was asked by the owner of its route.
ClearedOwns ==
  \A x \in Delivery :
    at[x] = "cleared" /\ Asked(x).op = "publish" => Owns(By(x), Asked(x).route)

CardsInv == Typed /\ ClearedOwns /\ CardsNameOwnRoutes

\* Requests are kept as they were sent.
LEMMA AskedStays ==
  ASSUME Typed, [Next]_vars, NEW n \in DOMAIN requests
  PROVE  n \in DOMAIN requests' /\ requests'[n] = requests[n]
<1>1. CASE \E c \in Calls : Issue(c)
  <2>1. requests \in Seq(SignedCall) /\ \E r : requests' = Append(requests, r)
    BY <1>1 DEF Typed, TypeOK, Issue
  <2> QED
    BY <2>1
<1>2. CASE \E x \in Delivery : Handler(x)
  BY <1>2, HandlerGoes DEF Goes, Framed
<1>3. CASE ~((\E c \in Calls : Issue(c)) \/ \E x \in Delivery : Handler(x))
  BY <1>3, NextCases DEF RevokeCredential, Crash, Tick, vars
<1> QED
  BY <1>1, <1>2, <1>3

\* Where a handler is only changes by a step of its own or a death.
LEMMA OthersStay ==
  ASSUME Typed, NEW x \in Delivery, Handler(x), NEW y \in Delivery, y # x
  PROVE  at'[y] = at[y]
  BY HandlerGoes DEF Goes, Go, Typed, TypeOK

\* Outside the handlers' own steps, a handler only dies.
LEMMA NoHandlerSteps ==
  ASSUME Typed, [Next]_vars, ~\E x \in Delivery : Handler(x), NEW y \in Delivery
  PROVE  at'[y] = at[y] \/ (at'[y] = "lost" /\ at[y] \in Phases)
<1>1. at \in [Delivery -> Phases \cup Answers]
  BY DEF Typed, TypeOK
<1>2. CASE Crash
  <2>1. at' = [x \in Delivery |-> IF Running(x) THEN "lost" ELSE at[x]]
    BY <1>2 DEF Crash
  <2> QED
    BY <2>1 DEF Running
<1>3. CASE ~Crash
  <2>1. /\ \A c \in Calls : Issue(c) => at' = at
        /\ \A p \in Principals : RevokeCredential(p) => at' = at
        /\ Tick => at' = at
        /\ UNCHANGED vars => at' = at
    BY DEF Issue, RevokeCredential, Tick, vars
  <2>2. at' = at
    BY <1>3, <2>1, NextCases
  <2> QED
    BY <2>2
<1> QED
  BY <1>2, <1>3

\* Only Clear brings a handler past the checks in front of its transaction.
LEMMA ClearedBy ==
  ASSUME Typed, NEW x \in Delivery, Handler(x), at'[x] = "cleared"
  PROVE  Clear(x) /\ MayGoOn(x)
<1>0. at \in [Delivery -> Phases \cup Answers]
  BY DEF Typed, TypeOK
<1>1. CASE Receive(x) \/ Prove(x) \/ CreateRoute(x) \/ Charge(x)
  BY <1>0, <1>1 DEF Receive, Prove, CreateRoute, Charge, Uncharged, Go
<1>2. CASE Push(x) \/ Publish(x) \/ Delete(x) \/ PullOrRevoke(x)
  BY <1>0, <1>2 DEF Push, Publish, Delete, PullOrRevoke, Go
<1>3. CASE Put(x)
  BY <1>0, <1>3 DEF Put, Uncharged, Go
<1>4. CASE Clear(x)
  BY <1>0, <1>4 DEF Clear, Go
<1> QED
  BY <1>1, <1>2, <1>3, <1>4 DEF Handler

\* A card is written for a route its writer owns.
LEMMA CardsHandler ==
  ASSUME CardsInv, [Next]_vars, NEW x \in Delivery, Handler(x)
  PROVE  ClearedOwns' /\ CardsNameOwnRoutes'
<1> USE DEF CardsInv
<1>1. routes \subseteq routes'
  BY RoutesGrow
<1>2. UNCHANGED requests
  BY HandlerGoes DEF Goes, Framed
<1>3. ClearedOwns'
  <2>1. ASSUME NEW y \in Delivery, at'[y] = "cleared", Asked(y).op = "publish"
        PROVE  Owns(By(y), Asked(y).route)
    <3>1. CASE y = x
      BY <2>1, <3>1, ClearedBy DEF MayGoOn
    <3>2. CASE y # x
      BY <2>1, <3>2, OthersStay DEF ClearedOwns
    <3> QED
      BY <3>1, <3>2
  <2> QED
    BY <1>1, <1>2, <2>1 DEF ClearedOwns, Owns, By, Asked
<1>4. CardsNameOwnRoutes'
  <2>1. \A row \in cards' : Owns(row.owner, row.route)
    <3>1. CASE Publish(x)
      BY <3>1 DEF Publish, Published, ClearedOwns, CardsNameOwnRoutes
    <3>2. CASE ~Publish(x)
      <4>1. cards' = cards
        BY <3>2 DEF Handler, Receive, Prove, CreateRoute, Charge, Push, Clear, Put, Delete,
                    PullOrRevoke, tables, history
      <4> QED
        BY <4>1 DEF CardsNameOwnRoutes
    <3> QED
      BY <3>1, <3>2
  <2> QED
    BY <1>1, <2>1 DEF CardsNameOwnRoutes, Owns
<1> QED
  BY <1>3, <1>4

\* Every step keeps cards leading to routes of their owner.
LEMMA CardsStep == CardsInv /\ [Next]_vars => CardsInv'
<1> SUFFICES ASSUME CardsInv, [Next]_vars PROVE CardsInv'
  OBVIOUS
<1> USE DEF CardsInv
<1>1. Typed'
  BY TypedStep
<1>2. CASE \E x \in Delivery : Handler(x)
  BY <1>1, <1>2, CardsHandler
<1>3. CASE ~\E x \in Delivery : Handler(x)
  <2>1. routes \subseteq routes' /\ cards' = cards
    BY <1>3, RoutesGrow, NextCases DEF Issue, RevokeCredential, Crash, Tick, vars, tables
  <2>2. ASSUME NEW y \in Delivery, at'[y] = "cleared", Asked(y)'.op = "publish"
        PROVE  Owns(By(y)', Asked(y)'.route)
    <3>1. at[y] = "cleared"
      BY <1>3, <2>2, NoHandlerSteps
    <3>2. y[1] \in DOMAIN requests
      BY <3>1 DEF Typed, Handled
    <3>3. Asked(y)' = Asked(y) /\ By(y)' = By(y)
      BY <3>2, AskedStays DEF Asked, By
    <3> QED
      BY <2>2, <3>1, <3>3 DEF ClearedOwns
  <2> QED
    BY <1>1, <2>1, <2>2 DEF ClearedOwns, CardsNameOwnRoutes, Owns
<1> QED
  BY <1>2, <1>3

\* Every card leads to a route of the principal that published it.
THEOREM CardsAreOwned == Spec => []CardsNameOwnRoutes
<1>1. Init => CardsInv
  BY TypeInit DEF Init, CardsInv, ClearedOwns, CardsNameOwnRoutes
<1>2. CardsInv => CardsNameOwnRoutes
  BY DEF CardsInv
<1> QED
  BY <1>1, <1>2, CardsStep, PTL DEF Spec

-----------------------------------------------------------------------------
(* Revoked credentials.                                                    *)

\* What RevokedGainsNothing asks of a step.
GainsNothing(p) ==
  /\ usage'[p] = usage[p]
  /\ {row \in routes' : row.owner = p} \subseteq routes
  /\ {row \in blobs' : row.owner = p} \subseteq blobs

\* A charge goes to a live principal, so to no revoked one.
LEMMA ChargedOther ==
  ASSUME Typed, NEW x \in Delivery, at[x] # "underway",
         NEW day \in 0..Day(MaxClock), Charged(x, day), NEW p \in Principals \ live
  PROVE  usage'[p] = usage[p]
<1>1. By(x) \in Principals /\ By(x) # p
  BY AskedType DEF Typed, Charged
<1>2. usage \in [Principals -> [0..Day(MaxClock) -> 0..DailyLimit]]
  BY DEF Typed, TypeOK
<1> QED
  BY <1>1, <1>2 DEF Charged

\* No step of a handler gives a revoked principal anything.
LEMMA RevokedHandler ==
  ASSUME Typed, NEW x \in Delivery, Handler(x), NEW p \in Principals \ live
  PROVE  GainsNothing(p)
<1>0. \A day \in Day(seen[x])..Day(clock) : day \in 0..Day(MaxClock)
  BY DayType DEF Typed, TypeOK
<1>1. CASE CreateRoute(x)
  <2>1. UNCHANGED <<usage, blobs>>
    BY <1>1 DEF CreateRoute, history
  <2>2. routes' = routes \/ (By(x) \in live /\ \E e :
          routes' = routes \cup {[route |-> x, owner |-> By(x), expires |-> e]})
    BY <1>1 DEF CreateRoute
  <2> QED
    BY <2>1, <2>2 DEF GainsNothing
<1>2. CASE Charge(x)
  <2>1. UNCHANGED <<routes, blobs>> /\ at[x] # "underway"
    BY <1>2 DEF Charge, history
  <2>2. UNCHANGED usage \/ \E day \in Day(seen[x])..Day(clock) : Charged(x, day)
    BY <1>2 DEF Charge, Uncharged
  <2> QED
    BY <1>0, <2>1, <2>2, ChargedOther DEF GainsNothing
<1>3. CASE Put(x)
  <2>1. UNCHANGED routes /\ at[x] # "underway"
    BY <1>3 DEF Put
  <2>2. \/ UNCHANGED <<usage, blobs>>
        \/ /\ \E day \in Day(seen[x])..Day(clock) : Charged(x, day)
           /\ By(x) \in live /\ blobs' = blobs \cup {BlobRow(x)}
    BY <1>3 DEF Put, Uncharged, Charged
  <2>3. usage'[p] = usage[p]
    BY <1>0, <2>1, <2>2, ChargedOther
  <2> QED
    BY <2>1, <2>2, <2>3 DEF GainsNothing, BlobRow
<1>4. CASE Delete(x)
  BY <1>4 DEF Delete, GainsNothing, history
<1>5. CASE Receive(x) \/ Prove(x) \/ Push(x) \/ Clear(x) \/ Publish(x) \/ PullOrRevoke(x)
  BY <1>5 DEF Receive, Prove, Push, Clear, Publish, PullOrRevoke, GainsNothing, tables, history
<1> QED
  BY <1>1, <1>2, <1>3, <1>4, <1>5 DEF Handler

\* No step gives a revoked principal anything; a death may leave a charge of a live one.
LEMMA RevokedStep ==
  ASSUME Typed, [Next]_vars, NEW p \in Principals \ live
  PROVE  GainsNothing(p)
<1>1. CASE \E x \in Delivery : Handler(x)
  BY <1>1, RevokedHandler
<1>2. CASE Crash
  <2>1. UNCHANGED <<routes, blobs>>
    BY <1>2 DEF Crash
  <2>2. \/ UNCHANGED usage
        \/ \E x \in Delivery : /\ at[x] = "cleared"
                               /\ \E day \in Day(seen[x])..Day(clock) : Charged(x, day)
    BY <1>2 DEF Crash
  <2>3. \A x \in Delivery : \A day \in Day(seen[x])..Day(clock) : day \in 0..Day(MaxClock)
    BY DayType DEF Typed, TypeOK
  <2> QED
    BY <2>1, <2>2, <2>3, ChargedOther DEF GainsNothing
<1>3. CASE ~Crash /\ ~\E x \in Delivery : Handler(x)
  <2>1. UNCHANGED <<usage, routes, blobs>>
    BY <1>3, NextCases DEF Issue, RevokeCredential, Tick, vars, tables
  <2> QED
    BY <2>1 DEF GainsNothing
<1> QED
  BY <1>1, <1>2, <1>3

\* Once a credential is revoked, no request of it, however far it has come, gets
\* a route, a charge or a blob.
THEOREM RevocationHolds == Spec => RevokedGainsNothing
<1>1. Typed /\ [Next]_vars =>
        [\A p \in Principals \ live :
           /\ usage'[p] = usage[p]
           /\ {row \in routes' : row.owner = p} \subseteq routes
           /\ {row \in blobs' : row.owner = p} \subseteq blobs]_vars
  BY RevokedStep DEF GainsNothing
<1> QED
  BY <1>1, TypedAlways, PTL DEF Spec, RevokedGainsNothing
-----------------------------------------------------------------------------
(* Blobs.                                                                  *)

BlobsInv == Typed /\ StoredBlobsStay

\* The blob of an accepted upload is there, or its owner deleted it.
Kept(x) ==
  \/ \E row \in blobs : row.blob = Asked(x).item /\ row.owner = By(x)
  \/ \E y \in Delivery :
       /\ y[1] \in DOMAIN requests /\ Asked(y).op = "delete" /\ at[y] = "ok"
       /\ Asked(y).item = Asked(x).item /\ By(y) = By(x)

\* A kept blob stays kept: only its owner's delete takes it, and says so.
LEMMA KeptStays ==
  ASSUME Typed, [Next]_vars, NEW x \in Delivery, x[1] \in DOMAIN requests, Kept(x),
         blobs \subseteq blobs' \/ \E y \in Delivery : Delete(y),
         \A y \in Delivery : at[y] = "ok" => at'[y] = "ok"
  PROVE  Kept(x)'
<1>1. ASSUME NEW y \in Delivery, y[1] \in DOMAIN requests
      PROVE  y[1] \in DOMAIN requests' /\ Asked(y)' = Asked(y) /\ By(y)' = By(y)
  BY <1>1, AskedStays DEF Asked, By
<1>2. CASE \E y \in Delivery :
             /\ y[1] \in DOMAIN requests /\ Asked(y).op = "delete" /\ at[y] = "ok"
             /\ Asked(y).item = Asked(x).item /\ By(y) = By(x)
  BY <1>1, <1>2 DEF Kept
<1>3. ASSUME NEW row \in blobs, row.blob = Asked(x).item, row.owner = By(x)
      PROVE  Kept(x)'
  <2>1. CASE row \in blobs'
    BY <1>1, <1>3, <2>1 DEF Kept
  <2>2. CASE row \notin blobs'
    <3>1. PICK y \in Delivery : Delete(y)
      BY <1>3, <2>2
    <3>2. y[1] \in DOMAIN requests
      BY <3>1 DEF Delete, Typed, Handled
    <3>3. /\ Asked(y).op = "delete" /\ row.blob = Asked(y).item /\ row.owner = By(y)
          /\ Go(y, "ok")
      BY <1>3, <2>2, <3>1 DEF Delete
    <3>4. at'[y] = "ok"
      BY <3>3 DEF Go, Typed, TypeOK
    <3> QED
      BY <1>1, <1>3, <3>2, <3>3, <3>4 DEF Kept
  <2> QED
    BY <2>1, <2>2
<1> QED
  BY <1>2, <1>3 DEF Kept

\* An answer is final.
LEMMA AnswersStay ==
  ASSUME Typed, [Next]_vars, NEW y \in Delivery, at[y] = "ok"
  PROVE  at'[y] = "ok"
<1>1. ASSUME NEW x \in Delivery, Handler(x) PROVE at[x] # "ok"
  BY <1>1 DEF Handler, Receive, Prove, CreateRoute, Charge, Push, Clear, Publish, Put, Delete,
              PullOrRevoke
<1>2. CASE \E x \in Delivery : Handler(x)
  BY <1>1, <1>2, OthersStay
<1>3. CASE ~\E x \in Delivery : Handler(x)
  BY <1>3, NoHandlerSteps DEF Phases
<1> QED
  BY <1>2, <1>3

\* Every step keeps the blobs of accepted uploads.
LEMMA BlobsStep == BlobsInv /\ [Next]_vars => BlobsInv'
<1> SUFFICES ASSUME BlobsInv, [Next]_vars PROVE BlobsInv'
  OBVIOUS
<1>1. Typed /\ Typed'
  BY TypedStep DEF BlobsInv
<1>2. blobs \subseteq blobs' \/ \E y \in Delivery : Delete(y)
  <2>1. ASSUME NEW x \in Delivery, Handler(x), ~Delete(x) PROVE blobs \subseteq blobs'
    BY <2>1 DEF Handler, Receive, Prove, CreateRoute, Charge, Push, Clear, Publish, Put,
                PullOrRevoke, tables, history
  <2>2. CASE \E x \in Delivery : Handler(x)
    BY <2>1, <2>2
  <2>3. CASE ~\E x \in Delivery : Handler(x)
    BY <2>3, NextCases DEF Issue, RevokeCredential, Crash, Tick, vars, tables
  <2> QED
    BY <2>2, <2>3
<1>3. ASSUME NEW x \in Delivery, at'[x] = "ok", x[1] \in DOMAIN requests', Asked(x)'.op = "put"
      PROVE  Kept(x)'
  <2>1. CASE at[x] = "ok"
    <3>1. x[1] \in DOMAIN requests
      BY <1>1, <2>1 DEF Typed, Handled
    <3>2. Asked(x).op = "put"
      BY <1>1, <1>3, <3>1, AskedStays DEF Asked
    <3>3. Kept(x)
      BY <2>1, <3>1, <3>2 DEF BlobsInv, StoredBlobsStay, Kept
    <3> QED
      BY <1>1, <1>2, <3>1, <3>3, AnswersStay, KeptStays
  <2>2. CASE at[x] # "ok"
    <3>1. Handler(x)
      BY <1>1, <1>3, <2>2, OthersStay, NoHandlerSteps
    <3>2. UNCHANGED requests
      BY <1>1, <3>1, HandlerGoes DEF Goes, Framed
    <3>3. Asked(x).op = "put"
      BY <1>3, <3>2 DEF Asked
    <3>4. at \in [Delivery -> Phases \cup Answers]
      BY <1>1 DEF Typed, TypeOK
    <3>5. Put(x)
      <4>1. ~Receive(x) /\ ~Prove(x) /\ ~Clear(x)
        BY <1>3, <3>4 DEF Receive, Prove, Clear, Go
      <4>2. /\ ~CreateRoute(x) /\ ~Charge(x) /\ ~Push(x) /\ ~Publish(x) /\ ~Delete(x)
            /\ ~PullOrRevoke(x)
        BY <3>3 DEF CreateRoute, Charge, Push, Publish, Delete, PullOrRevoke
      <4> QED
        BY <3>1, <4>1, <4>2 DEF Handler
    <3>6. BlobRow(x) \in blobs'
      <4>1. ASSUME NEW to \in {"known", "failed", "denied"}, Go(x, to) PROVE FALSE
        BY <1>3, <3>4, <4>1 DEF Go
      <4>2. ASSUME NEW day, Uncharged(x, day) PROVE FALSE
        BY <4>1, <4>2 DEF Uncharged
      <4> QED
        BY <3>5, <4>1, <4>2 DEF Put
    <3> QED
      BY <3>2, <3>6 DEF Kept, BlobRow, Asked, By
  <2> QED
    BY <2>1, <2>2
<1>4. StoredBlobsStay'
  BY <1>3 DEF StoredBlobsStay, Kept
<1> QED
  BY <1>1, <1>4 DEF BlobsInv

\* An accepted upload stays until its owner deletes it.
THEOREM UploadsStay == Spec => []StoredBlobsStay
<1>1. Init => BlobsInv
  BY TypeInit DEF Init, BlobsInv, StoredBlobsStay
<1>2. BlobsInv => StoredBlobsStay
  BY DEF BlobsInv
<1> QED
  BY <1>1, <1>2, BlobsStep, PTL DEF Spec
-----------------------------------------------------------------------------
(* Quotas of routes.                                                       *)

Own(p) == {row \in routes : row.owner = p}

\* Cardinalities are numbers only of finite sets, and there may be any number of
\* principals.
QuotaInv == Typed /\ RouteQuota /\ \A p \in Principals : IsFiniteSet(Own(p))

\* At the start every principal has one route, which no quota forbids.
LEMMA QuotaInit == Init => QuotaInv
<1> SUFFICES ASSUME Init PROVE QuotaInv
  OBVIOUS
<1>1. ASSUME NEW p \in Principals
      PROVE  IsFiniteSet(Own(p)) /\ Cardinality(Counted(p, clock)) <= RouteLimit
  <2> DEFINE first == [route |-> p, owner |-> p, expires |-> Never]
  <2>1. Own(p) \subseteq {first}
    BY DEF Init, Own
  <2>2. Counted(p, clock) \subseteq {first}
    BY <2>1 DEF Counted, Own
  <2>3. IsFiniteSet({first}) /\ Cardinality({first}) = 1
    BY FS_Singleton
  <2>4. /\ IsFiniteSet(Own(p))
        /\ Cardinality(Counted(p, clock)) \in Nat /\ Cardinality(Counted(p, clock)) <= 1
    BY <2>1, <2>2, <2>3, FS_Subset, FS_CardinalityType
  <2> QED
    BY <2>4, LimitsAssumption
<1> QED
  BY <1>1, TypeInit DEF QuotaInv, RouteQuota

\* A step that creates no route counts no more routes than before.
LEMMA QuotaKept ==
  ASSUME QuotaInv, Typed', routes' = routes, revoked \subseteq revoked', clock <= clock'
  PROVE  QuotaInv'
<1>1. ASSUME NEW p \in Principals
      PROVE  /\ IsFiniteSet(Own(p)') /\ Cardinality(Counted(p, clock))' <= RouteLimit
  <2>1. Own(p)' = Own(p) /\ Counted(p, clock) \subseteq Own(p)
    BY DEF Own, Counted
  <2>2. ASSUME NEW row \in routes, row.expires > clock' PROVE row.expires > clock
    BY <2>2 DEF QuotaInv, Typed, TypeOK, Time
  <2>3. Counted(p, clock)' \subseteq Counted(p, clock)
    BY <2>2 DEF Counted
  <2>4. IsFiniteSet(Own(p)) /\ IsFiniteSet(Counted(p, clock))
    BY <2>1, FS_Subset DEF QuotaInv
  <2>5. /\ IsFiniteSet(Counted(p, clock)')
        /\ Cardinality(Counted(p, clock)') <= Cardinality(Counted(p, clock))
    BY <2>3, <2>4, FS_Subset
  <2>6. Cardinality(Counted(p, clock)) \in Nat /\ Cardinality(Counted(p, clock)') \in Nat
    BY <2>4, <2>5, FS_CardinalityType
  <2>7. Cardinality(Counted(p, clock)) <= RouteLimit
    BY DEF QuotaInv, RouteQuota
  <2> QED
    BY <2>1, <2>4, <2>5, <2>6, <2>7, LimitsAssumption
<1> QED
  BY <1>1 DEF QuotaInv, RouteQuota

\* Whatever was counted with an older clock includes what counts now, so one
\* route more is still within the quota.
LEMMA QuotaUsed ==
  ASSUME QuotaInv, NEW p \in Principals, NEW row, NEW created \in Int, created <= clock,
         WithinQuota(p, created), routes' = routes \cup {row},
         UNCHANGED <<revoked, clock>>
  PROVE  IsFiniteSet(Own(p)') /\ Cardinality(Counted(p, clock)') <= RouteLimit
<1>1. Own(p)' \subseteq Own(p) \cup {row} /\ Counted(p, created) \subseteq Own(p)
  BY DEF Own, Counted
<1>2. IsFiniteSet(Own(p)) /\ IsFiniteSet(Counted(p, created))
  BY <1>1, FS_Subset DEF QuotaInv
<1>3. IsFiniteSet(Own(p)')
  BY <1>1, <1>2, FS_AddElement, FS_Subset
<1>4. ASSUME NEW old \in routes, old.expires > clock PROVE old.expires > created
  BY <1>4 DEF QuotaInv, Typed, TypeOK, Time
<1>5. Counted(p, clock)' \subseteq Counted(p, created) \cup {row}
  BY <1>4 DEF Counted
<1>6. /\ IsFiniteSet(Counted(p, created) \cup {row})
      /\ \/ Cardinality(Counted(p, created) \cup {row}) = Cardinality(Counted(p, created))
         \/ Cardinality(Counted(p, created) \cup {row}) = Cardinality(Counted(p, created)) + 1
  BY <1>2, FS_AddElement
<1>7. /\ Cardinality(Counted(p, clock)') <= Cardinality(Counted(p, created) \cup {row})
      /\ IsFiniteSet(Counted(p, clock)')
  BY <1>5, <1>6, FS_Subset
<1>8. Cardinality(Counted(p, created)) \in Nat /\ Cardinality(Counted(p, clock)') \in Nat
  BY <1>2, <1>7, FS_CardinalityType
<1>9. Cardinality(Counted(p, created)) < RouteLimit
  BY DEF WithinQuota
<1> QED
  BY <1>3, <1>6, <1>7, <1>8, <1>9, LimitsAssumption

\* A route is created within the quota of its owner and no one else's.
LEMMA QuotaCreate ==
  ASSUME QuotaInv, Typed', NEW x \in Delivery, CreateRoute(x), routes' # routes
  PROVE  QuotaInv'
<1>1. PICK created \in seen[x]..clock :
        /\ WithinQuota(By(x), created)
        /\ routes' = routes \cup {[route |-> x, owner |-> By(x),
                                   expires |-> Until(created, Asked(x).life)]}
  BY DEF CreateRoute
<1>2. UNCHANGED <<revoked, clock>> /\ By(x) \in Principals
  BY AskedType DEF CreateRoute, QuotaInv, Typed
<1>3. created \in Int /\ created <= clock
  BY DEF QuotaInv, Typed, TypeOK, Time
<1>4. ASSUME NEW p \in Principals
      PROVE  IsFiniteSet(Own(p)') /\ Cardinality(Counted(p, clock)') <= RouteLimit
  <2>1. CASE p = By(x)
    BY <1>1, <1>2, <1>3, <2>1, QuotaUsed
  <2>2. CASE p # By(x)
    <3>1. Own(p)' = Own(p) /\ Counted(p, clock)' = Counted(p, clock)
      BY <1>1, <1>2, <2>2 DEF Own, Counted
    <3> QED
      BY <3>1 DEF QuotaInv, RouteQuota
  <2> QED
    BY <2>1, <2>2
<1> QED
  BY <1>4 DEF QuotaInv, RouteQuota

\* Every step keeps the quotas.
LEMMA QuotaStep == QuotaInv /\ [Next]_vars => QuotaInv'
<1> SUFFICES ASSUME QuotaInv, [Next]_vars PROVE QuotaInv'
  OBVIOUS
<1>1. Typed /\ Typed'
  BY TypedStep DEF QuotaInv
<1>2. clock \in Int /\ (clock' = clock \/ clock' = clock + 1)
  <2>0. clock \in Int
    BY <1>1 DEF Typed, TypeOK, Time
  <2>1. CASE \E x \in Delivery : Handler(x)
    <3>1. clock' = clock
      BY <2>1 DEF Handler, Receive, Prove, CreateRoute, Charge, Push, Clear, Publish, Put,
                  Delete, PullOrRevoke, tables, history
    <3> QED
      BY <2>0, <3>1
  <2>2. CASE ~\E x \in Delivery : Handler(x)
    <3>1. clock' = clock \/ clock' = clock + 1
      BY <2>2, NextCases DEF Issue, RevokeCredential, Crash, Tick, vars
    <3> QED
      BY <2>0, <3>1
  <2> QED
    BY <2>1, <2>2
<1>3. revoked \subseteq revoked'
  <2>1. CASE \E x \in Delivery : Handler(x)
    BY <2>1 DEF Handler, Receive, Prove, CreateRoute, Charge, Push, Clear, Publish, Put, Delete,
                PullOrRevoke, tables, history
  <2>2. CASE ~\E x \in Delivery : Handler(x)
    BY <2>2, NextCases DEF Issue, RevokeCredential, Crash, Tick, vars, tables
  <2> QED
    BY <2>1, <2>2
<1>4. routes' = routes \/ \E x \in Delivery : CreateRoute(x)
  <2>1. CASE \E x \in Delivery : Handler(x)
    BY <2>1 DEF Handler, Receive, Prove, Charge, Push, Clear, Publish, Put, Delete,
                PullOrRevoke, tables, history
  <2>2. CASE ~\E x \in Delivery : Handler(x)
    BY <2>2, NextCases DEF Issue, RevokeCredential, Crash, Tick, vars, tables
  <2> QED
    BY <2>1, <2>2
<1>5. clock <= clock'
  BY <1>2
<1>6. CASE routes' = routes
  BY <1>1, <1>3, <1>5, <1>6, QuotaKept
<1>7. CASE routes' # routes
  BY <1>1, <1>4, <1>7, QuotaCreate
<1> QED
  BY <1>6, <1>7

\* Concurrent requests of one principal, each with its own idea of the time, never
\* get it more routes in service than its quota.
THEOREM QuotaHolds == Spec => []RouteQuota
<1>1. QuotaInv => RouteQuota
  BY DEF QuotaInv
<1> QED
  BY <1>1, QuotaInit, QuotaStep, PTL DEF Spec
-----------------------------------------------------------------------------
(* Charges.  A push is charged in one transaction and stored in another:   *)
(* in between its bytes are owed to the principal.  What is stored and     *)
(* what is owed together never exceed what was charged.                    *)

Days == 0..Day(MaxClock)

\* What was charged for handlers that have not stored it yet.
Owed(p) ==
  [x \in Delivery |-> IF at[x] = "charged" /\ By(x) = p THEN Size[Asked(x).item] ELSE 0]

Balanced(p) == inserted[p] + SumOf(Owed(p), Delivery) <= SumOf(usage[p], Days)

ChargesInv == Typed /\ \A p \in Principals : Balanced(p)

\* The total of the model is a sum over the days.
LEMMA TotalIsSum == \A p : TotalUsage(p) = SumOf(usage[p], Days)
  BY Zenon DEF TotalUsage, MapThenSumSet, MapThenFoldSet, SumOf, PartialSums, Some, Days

\* There are finitely many days.
LEMMA DaysFinite == IsFiniteSet(Days)
<1>1. Day(MaxClock) \in Nat
  BY BoundsAssumption, DayMonotone DEF Day
<1> QED
  BY <1>1, FS_Interval DEF Days

\* There are finitely many deliveries.
LEMMA DeliveryFinite == IsFiniteSet(Delivery)
<1> DEFINE Of(n) == {n} \X (1..Deliveries[n])
           Images == {Of(n) : n \in Request}
           image == [n \in Request |-> Of(n)]
<1>1. IsFiniteSet(Request)
  BY BoundsAssumption, FS_Interval DEF Request
<1>2. image \in Surjection(Request, Images)
  BY DEF Surjection
<1>3. IsFiniteSet(Images)
  <2> HIDE DEF image, Images
  <2> QED
    BY <1>1, <1>2, FS_Surjection
<1>4. ASSUME NEW n \in Request
      PROVE  IsFiniteSet(Of(n))
  <2>1. Deliveries[n] \in Int
    BY BoundsAssumption
  <2>2. IsFiniteSet(1..Deliveries[n])
    BY <2>1, FS_Interval
  <2>3. IsFiniteSet({n})
    BY FS_Singleton
  <2> QED
    BY <2>2, <2>3, FS_Product
<1>5. \A T \in Images : IsFiniteSet(T)
  BY <1>4
<1>6. IsFiniteSet(UNION Images)
  <2> HIDE DEF Images
  <2> QED
    BY <1>3, <1>5, FS_UNION
<1> QED
  BY <1>6 DEF Delivery

\* Debts and charges are numbers of bytes.
LEMMA OwedType ==
  ASSUME Typed, NEW p \in Principals
  PROVE  /\ Owed(p) \in [Delivery -> Nat] /\ usage[p] \in [Days -> Nat]
         /\ inserted[p] \in Nat
         /\ SumOf(Owed(p), Delivery) \in Nat /\ SumOf(usage[p], Days) \in Nat
<1>1. ASSUME NEW x \in Delivery, at[x] = "charged"
      PROVE  Size[Asked(x).item] \in Nat
  BY <1>1, AskedType DEF Typed
<1>2. Owed(p) \in [Delivery -> Nat]
  BY <1>1 DEF Owed
<1>3. usage[p] \in [Days -> Nat] /\ inserted[p] \in Nat
  BY LimitsAssumption DEF Typed, TypeOK, Days
<1>4. PICK o, u : o = Owed(p) /\ u = usage[p]
  OBVIOUS
<1>5. \A e \in Delivery : o[e] <= o[e]
  BY <1>2, <1>4
<1>6. \A e \in Days : u[e] <= u[e]
  BY <1>3, <1>4
<1>7. SumOf(o, Delivery) \in Nat
  BY <1>2, <1>4, <1>5, DeliveryFinite, SumsMonotone
<1>8. SumOf(u, Days) \in Nat
  BY <1>3, <1>4, <1>6, DaysFinite, SumsMonotone
<1> QED
  BY <1>2, <1>3, <1>4, <1>7, <1>8

\* And after a step, too.
LEMMA OwedTypeNext ==
  Typed' => \A p \in Principals :
              /\ Owed(p)' \in [Delivery -> Nat]
              /\ SumOf(Owed(p)', Delivery) \in Nat /\ SumOf(usage'[p], Days) \in Nat
<1> DEFINE Numbers(p) == /\ Owed(p) \in [Delivery -> Nat]
                         /\ SumOf(Owed(p), Delivery) \in Nat /\ SumOf(usage[p], Days) \in Nat
<1>1. Typed => \A p \in Principals : Numbers(p)
  BY OwedType
<1>2. Typed' => (\A p \in Principals : Numbers(p))'
  <2> HIDE DEF Numbers
  <2> QED
    BY <1>1, PTL
<1> QED
  BY <1>2

\* Nothing is stored, owed or charged at the start.
LEMMA ChargesInit == Init => ChargesInv
<1> SUFFICES ASSUME Init PROVE ChargesInv
  OBVIOUS
<1>1. Typed
  BY TypeInit
<1>2. ASSUME NEW p \in Principals
      PROVE  Balanced(p)
  <2>1. \A x \in Delivery : Owed(p)[x] = 0
    BY DEF Init, Owed
  <2>2. SumOf(Owed(p), Delivery) = 0
    BY <2>1, DeliveryFinite, SumOfZeros
  <2>3. inserted[p] = 0
    BY DEF Init
  <2> QED
    BY <1>1, <2>2, <2>3, OwedType DEF Balanced
<1> QED
  BY <1>1, <1>2 DEF ChargesInv

\* A charge adds the bytes of the item to what its principal was charged.
LEMMA ChargedAdds ==
  ASSUME Typed, Typed', NEW x \in Delivery, at[x] # "underway",
         NEW day \in Days, Charged(x, day), NEW p \in Principals
  PROVE  SumOf(usage'[p], Days) =
           SumOf(usage[p], Days) + (IF By(x) = p THEN Size[Asked(x).item] ELSE 0)
<1>1. By(x) \in Principals /\ Size[Asked(x).item] \in Nat
  BY AskedType DEF Typed
<1>2. PICK u, v : u = usage[p] /\ v = usage'[p]
  OBVIOUS
<1>3. /\ usage \in [Principals -> [Days -> 0..DailyLimit]]
      /\ usage' \in [Principals -> [Days -> 0..DailyLimit]]
  BY DEF Typed, TypeOK, Days
<1>4. u \in [Days -> Nat] /\ v \in [Days -> Nat] /\ SumOf(u, Days) \in Nat
  <2>1. v \in [Days -> Nat]
    BY <1>2, <1>3, LimitsAssumption
  <2> QED
    BY <1>2, <2>1, OwedType
<1>5. CASE By(x) = p
  <2>1. v = [u EXCEPT ![day] = u[day] + Size[Asked(x).item]]
    BY <1>2, <1>3, <1>5 DEF Charged
  <2>2. v[day] = u[day] + Size[Asked(x).item] /\ \A e \in Days : e # day => u[e] = v[e]
    BY <1>4, <2>1
  <2>3. SumOf(v, Days) \in Nat /\ SumOf(u, Days) + v[day] = SumOf(v, Days) + u[day]
    BY <1>4, <2>2, DaysFinite, SumsAtPoint
  <2>4. PICK n : n = Size[Asked(x).item]
    OBVIOUS
  <2>5. SumOf(v, Days) = SumOf(u, Days) + n
    BY <1>1, <1>4, <2>2, <2>3, <2>4
  <2> QED
    BY <1>2, <1>5, <2>4, <2>5
<1>6. CASE By(x) # p
  <2>1. u = v
    BY <1>1, <1>2, <1>3, <1>6 DEF Charged
  <2> QED
    BY <1>2, <1>4, <1>6, <2>1
<1> QED
  BY <1>5, <1>6

\* As long as no handler is charged that was not, debts do not grow.
LEMMA OwedFalls ==
  ASSUME Typed, Typed', [Next]_vars, NEW p \in Principals,
         \A x \in Delivery : at'[x] = "charged" => at[x] = "charged"
  PROVE  SumOf(Owed(p)', Delivery) <= SumOf(Owed(p), Delivery)
<1>1. PICK o, r : o = Owed(p) /\ r = Owed(p)'
  OBVIOUS
<1>2. o \in [Delivery -> Nat] /\ r \in [Delivery -> Nat]
  <2>1. Owed(p)' \in [Delivery -> Nat]
    BY OwedTypeNext
  <2> QED
    BY <1>1, <2>1, OwedType
<1>3. ASSUME NEW x \in Delivery
      PROVE  r[x] <= o[x]
  <2>1. CASE at'[x] = "charged"
    <3>1. at[x] = "charged" /\ x[1] \in DOMAIN requests
      BY <2>1 DEF Typed, Handled
    <3>2. Asked(x)' = Asked(x) /\ By(x)' = By(x)
      BY <3>1, AskedStays DEF Asked, By
    <3>3. r[x] = o[x]
      BY <1>1, <2>1, <3>1, <3>2 DEF Owed
    <3> QED
      BY <1>2, <3>3
  <2>2. CASE at'[x] # "charged"
    <3>1. r[x] = 0
      BY <1>1, <2>2 DEF Owed
    <3> QED
      BY <1>2, <3>1
  <2> QED
    BY <2>1, <2>2
<1> QED
  BY <1>1, <1>2, <1>3, DeliveryFinite, SumsMonotone

\* Steps that store nothing, charge no handler and take no charge back.
LEMMA BalanceKept ==
  ASSUME ChargesInv, Typed', [Next]_vars, NEW p \in Principals,
         \A x \in Delivery : at'[x] = "charged" => at[x] = "charged",
         inserted'[p] = inserted[p], SumOf(usage[p], Days) <= SumOf(usage'[p], Days)
  PROVE  Balanced(p)'
<1>1. SumOf(Owed(p)', Delivery) <= SumOf(Owed(p), Delivery)
  BY OwedFalls DEF ChargesInv
<1>2. PICK i, o, o2, u, u2 : /\ i = inserted[p]
                            /\ o = SumOf(Owed(p), Delivery) /\ o2 = SumOf(Owed(p)', Delivery)
                            /\ u = SumOf(usage[p], Days) /\ u2 = SumOf(usage'[p], Days)
  OBVIOUS
<1>3. i \in Nat /\ o \in Nat /\ u \in Nat
  BY <1>2, OwedType DEF ChargesInv
<1>4. o2 \in Nat /\ u2 \in Nat
  <2>1. SumOf(Owed(p)', Delivery) \in Nat /\ SumOf(usage'[p], Days) \in Nat
    BY OwedTypeNext
  <2> QED
    BY <1>2, <2>1
<1>5. i + o <= u
  BY <1>2 DEF ChargesInv, Balanced
<1>6. o2 <= o /\ u <= u2
  BY <1>1, <1>2
<1>7. i + o2 <= u2
  BY <1>3, <1>4, <1>5, <1>6
<1> QED
  BY <1>2, <1>7 DEF Balanced

\* When a handler comes to be charged its bytes are owed, when it stores them
\* they are not any more.
LEMMA OwedChanges ==
  ASSUME Typed, Typed', NEW x \in Delivery, Handler(x), NEW p \in Principals, By(x) = p
  PROVE  SumOf(Owed(p)', Delivery) + (IF at[x] = "charged" THEN Size[Asked(x).item] ELSE 0) =
           SumOf(Owed(p), Delivery) + (IF at'[x] = "charged" THEN Size[Asked(x).item] ELSE 0)
<1>1. PICK o, r : o = Owed(p) /\ r = Owed(p)'
  OBVIOUS
<1>2. o \in [Delivery -> Nat] /\ r \in [Delivery -> Nat]
  <2>1. Owed(p)' \in [Delivery -> Nat]
    BY OwedTypeNext
  <2> QED
    BY <1>1, <2>1, OwedType
<1>3. UNCHANGED requests
  BY HandlerGoes DEF Goes, Framed
<1>4. ASSUME NEW e \in Delivery, e # x
      PROVE  r[e] = o[e]
  <2>1. at'[e] = at[e]
    BY <1>4, OthersStay
  <2> QED
    BY <1>1, <1>3, <2>1 DEF Owed, Asked, By
<1>5. /\ o[x] = IF at[x] = "charged" THEN Size[Asked(x).item] ELSE 0
      /\ r[x] = IF at'[x] = "charged" THEN Size[Asked(x).item] ELSE 0
  BY <1>1, <1>3 DEF Owed, Asked, By
<1>6. SumOf(r, Delivery) + o[x] = SumOf(o, Delivery) + r[x]
  BY <1>2, <1>4, DeliveryFinite, SumsAtPoint
<1> QED
  BY <1>1, <1>5, <1>6

\* A handler's step leaves what others owe alone.
LEMMA OwedOfOthers ==
  ASSUME Typed, NEW x \in Delivery, Handler(x), NEW p \in Principals, By(x) # p
  PROVE  Owed(p)' = Owed(p)
<1>1. UNCHANGED requests
  BY HandlerGoes DEF Goes, Framed
<1>2. ASSUME NEW e \in Delivery, e # x
      PROVE  at'[e] = at[e]
  BY <1>2, OthersStay
<1> QED
  BY <1>1, <1>2 DEF Owed, Asked, By

\* What a step of a handler of p may do to the three totals: m more stored and k
\* more charged, and never more stored and owed than charged and owed before.
LEMMA BalanceMoves ==
  ASSUME ChargesInv, Typed', NEW x \in Delivery, Handler(x), NEW p \in Principals, By(x) = p,
         NEW n \in Nat, n = Size[Asked(x).item], NEW m \in {0, n}, NEW k \in {0, n},
         inserted'[p] = inserted[p] + m,
         SumOf(usage'[p], Days) = SumOf(usage[p], Days) + k,
         m + (IF at'[x] = "charged" THEN n ELSE 0) <= k + (IF at[x] = "charged" THEN n ELSE 0)
  PROVE  Balanced(p)'
<1>1. PICK i, o, o2, u : /\ i = inserted[p]
                        /\ o = SumOf(Owed(p), Delivery) /\ o2 = SumOf(Owed(p)', Delivery)
                        /\ u = SumOf(usage[p], Days)
  OBVIOUS
<1>2. PICK b, c : /\ b = (IF at[x] = "charged" THEN n ELSE 0)
                 /\ c = (IF at'[x] = "charged" THEN n ELSE 0)
  OBVIOUS
<1>3. i \in Nat /\ o \in Nat /\ u \in Nat /\ b \in Nat /\ c \in Nat
  BY <1>1, <1>2, OwedType DEF ChargesInv
<1>4. o2 \in Nat
  <2>1. SumOf(Owed(p)', Delivery) \in Nat
    BY OwedTypeNext
  <2> QED
    BY <1>1, <2>1
<1>5. o2 + b = o + c
  <2>1. SumOf(Owed(p)', Delivery) + (IF at[x] = "charged" THEN n ELSE 0) =
          SumOf(Owed(p), Delivery) + (IF at'[x] = "charged" THEN n ELSE 0)
    BY OwedChanges DEF ChargesInv
  <2> QED
    BY <1>1, <1>2, <2>1
<1>6. i + o <= u
  BY <1>1 DEF ChargesInv, Balanced
<1>7. m + c <= k + b /\ m \in Nat /\ k \in Nat
  BY <1>2
<1>8. (i + m) + o2 <= u + k
  BY <1>3, <1>4, <1>5, <1>6, <1>7
<1> QED
  BY <1>1, <1>8 DEF Balanced

\* A handler's step leaves the balance of other principals alone.
LEMMA BalanceOfOthers ==
  ASSUME ChargesInv, NEW x \in Delivery, Handler(x), NEW p \in Principals, By(x) # p
  PROVE  Balanced(p)'
<1>1. Owed(p)' = Owed(p)
  BY OwedOfOthers DEF ChargesInv
<1>2. /\ \/ UNCHANGED usage
         \/ \E day : usage' = [usage EXCEPT ![By(x)][day] = @ + Size[Asked(x).item]]
      /\ \/ UNCHANGED inserted
         \/ inserted' = [inserted EXCEPT ![By(x)] = @ + Size[Asked(x).item]]
  BY DEF Handler, Receive, Prove, CreateRoute, Charge, Push, Clear, Publish, Put, Delete,
         PullOrRevoke, Charged, Uncharged, tables, history
<1>3. /\ usage \in [Principals -> [Days -> 0..DailyLimit]]
      /\ inserted \in [Principals -> Nat]
  BY DEF ChargesInv, Typed, TypeOK, Days
<1>4. usage'[p] = usage[p] /\ inserted'[p] = inserted[p]
  BY <1>2, <1>3
<1>5. Balanced(p)
  BY DEF ChargesInv
<1>6. SumOf(Owed(p), Delivery)' = SumOf(Owed(p), Delivery)
  BY <1>1 DEF SumOf, PartialSums
<1> QED
  BY <1>1, <1>4, <1>5 DEF Balanced

\* The steps of handlers that neither charge nor store.
LEMMA QuietHandlers ==
  ASSUME Typed, NEW x \in Delivery,
         \/ Receive(x) \/ Prove(x) \/ CreateRoute(x) \/ Clear(x) \/ Publish(x) \/ Delete(x)
         \/ PullOrRevoke(x)
  PROVE  UNCHANGED <<usage, inserted>> /\ at'[x] # "charged"
<1>1. at \in [Delivery -> Phases \cup Answers]
  BY DEF Typed, TypeOK
<1>2. UNCHANGED <<usage, inserted>>
  BY DEF Receive, Prove, CreateRoute, Clear, Publish, Delete, PullOrRevoke, tables, history
<1>3. \E to \in {"checked", "denied", "proved", "failed", "ok", "cleared"} : Go(x, to)
  BY DEF Receive, Prove, CreateRoute, Clear, Publish, Delete, PullOrRevoke
<1> QED
  BY <1>1, <1>2, <1>3 DEF Go

\* A step of a handler keeps the balance of every principal.
LEMMA HandlerBalances ==
  ASSUME ChargesInv, Typed', [Next]_vars, NEW x \in Delivery, Handler(x), NEW p \in Principals
  PROVE  Balanced(p)'
<1> DEFINE n == Size[Asked(x).item]
<1>1. CASE By(x) # p
  BY <1>1, BalanceOfOthers
<1>2. CASE By(x) = p
  <2>0. /\ Typed /\ at \in [Delivery -> Phases \cup Answers]
        /\ inserted \in [Principals -> Nat]
        /\ SumOf(usage[p], Days) \in Nat
    BY OwedType DEF ChargesInv, Typed, TypeOK
  <2>1. \A day \in Day(seen[x])..Day(clock) : day \in Days
    BY <2>0, DayType DEF Typed, TypeOK, Days
  <2>2. \A y \in Delivery : y # x => at'[y] = at[y]
    BY <2>0, OthersStay
  <2>3. ASSUME at'[x] # "charged", UNCHANGED <<usage, inserted>>
        PROVE  Balanced(p)'
    <3>1. SumOf(usage[p], Days) <= SumOf(usage'[p], Days)
      BY <2>0, <2>3
    <3> QED
      BY <2>2, <2>3, <3>1, BalanceKept
  <2>4. ASSUME at[x] # "underway"
        PROVE  n \in Nat
    BY <2>0, <2>4, AskedType DEF Typed
  <2>5. \A to : Go(x, to) => at'[x] = to
    BY <2>0 DEF Go
  <2>6. ASSUME NEW day, Uncharged(x, day), UNCHANGED inserted
        PROVE  Balanced(p)'
    <3>1. at'[x] \in {"failed", "denied"} /\ UNCHANGED usage
      BY <2>5, <2>6 DEF Uncharged
    <3> QED
      BY <2>3, <2>6, <3>1
  <2>7. ASSUME NEW day \in Days, Charged(x, day), at[x] # "underway"
        PROVE  SumOf(usage'[p], Days) = SumOf(usage[p], Days) + n
    BY <1>2, <2>0, <2>7, ChargedAdds
  <2>8. CASE Charge(x)
    <3>1. at[x] \in {"proved", "cleared"} /\ UNCHANGED inserted
      BY <2>8 DEF Charge, history
    <3>2. PICK day \in Day(seen[x])..Day(clock) :
            \/ Charged(x, day) /\ Go(x, IF Asked(x).op = "push" THEN "charged" ELSE "ok")
            \/ Uncharged(x, day)
      BY <2>8 DEF Charge
    <3>3. CASE Uncharged(x, day)
      BY <2>6, <3>1, <3>3
    <3>4. CASE Charged(x, day)
      <4>1. SumOf(usage'[p], Days) = SumOf(usage[p], Days) + n /\ n \in Nat
        BY <2>1, <2>4, <2>7, <3>1, <3>4
      <4>2. inserted'[p] = inserted[p] + 0
        BY <2>0, <3>1
      <4>3. PICK k : k = n
        OBVIOUS
      <4>4. 0 + (IF at'[x] = "charged" THEN k ELSE 0) <= k + (IF at[x] = "charged" THEN k ELSE 0)
        BY <3>1, <4>1, <4>3
      <4> QED
        BY <1>2, <4>1, <4>2, <4>3, <4>4, BalanceMoves
    <3> QED
      BY <3>2, <3>3, <3>4
  <2>9. CASE Push(x)
    <3>1. at[x] = "charged" /\ UNCHANGED usage
      BY <2>9 DEF Push
    <3>2. CASE UNCHANGED inserted
      <4>1. at'[x] # "charged"
        BY <2>5, <2>9 DEF Push
      <4> QED
        BY <2>3, <3>1, <3>2, <4>1
    <3>3. CASE inserted' # inserted
      <4>1. Go(x, "ok") /\ inserted' = [inserted EXCEPT ![By(x)] = @ + n]
        BY <2>9, <3>3 DEF Push
      <4>2. PICK k : k = n
        OBVIOUS
      <4>3. k \in Nat /\ at'[x] = "ok" /\ inserted'[p] = inserted[p] + k
        BY <1>2, <2>0, <2>4, <2>5, <3>1, <4>1, <4>2
      <4>4. SumOf(usage'[p], Days) = SumOf(usage[p], Days) + 0
        BY <2>0, <3>1
      <4>5. k + (IF at'[x] = "charged" THEN k ELSE 0) <= 0 + (IF at[x] = "charged" THEN k ELSE 0)
        BY <3>1, <4>3
      <4> QED
        BY <1>2, <4>2, <4>3, <4>4, <4>5, BalanceMoves
    <3> QED
      BY <3>2, <3>3
  <2>10. CASE Put(x)
    <3>1. at[x] = "cleared"
      BY <2>10 DEF Put
    <3>2. CASE Go(x, "known") /\ UNCHANGED <<usage, inserted>>
      BY <2>3, <2>5, <3>2
    <3>3. CASE \E day \in Day(seen[x])..Day(clock) : Uncharged(x, day) /\ UNCHANGED inserted
      BY <2>6, <3>3
    <3>4. CASE /\ \E day \in Day(seen[x])..Day(clock) : Charged(x, day)
               /\ Go(x, "ok") /\ inserted' = [inserted EXCEPT ![By(x)] = @ + n]
      <4>1. PICK k : k = n
        OBVIOUS
      <4>2. k \in Nat /\ at'[x] = "ok" /\ inserted'[p] = inserted[p] + k
        BY <1>2, <2>0, <2>4, <2>5, <3>1, <3>4, <4>1
      <4>3. SumOf(usage'[p], Days) = SumOf(usage[p], Days) + k
        BY <2>1, <2>7, <3>1, <3>4, <4>1
      <4>4. k + (IF at'[x] = "charged" THEN k ELSE 0) <= k + (IF at[x] = "charged" THEN k ELSE 0)
        BY <3>1, <4>2
      <4> QED
        BY <1>2, <4>1, <4>2, <4>3, <4>4, BalanceMoves
    <3> QED
      BY <2>10, <3>2, <3>3, <3>4 DEF Put
  <2>11. CASE \/ Receive(x) \/ Prove(x) \/ CreateRoute(x) \/ Clear(x) \/ Publish(x) \/ Delete(x)
              \/ PullOrRevoke(x)
    BY <2>0, <2>3, <2>11, QuietHandlers
  <2> QED
    BY <2>8, <2>9, <2>10, <2>11 DEF Handler
<1> QED
  BY <1>1, <1>2

\* A death of the relay forgives debts and may leave a charge behind.
LEMMA CrashBalances ==
  ASSUME ChargesInv, Typed', [Next]_vars, Crash, NEW p \in Principals
  PROVE  Balanced(p)'
<1>1. \A x \in Delivery : at'[x] = "charged" => at[x] = "charged"
  BY DEF Crash, Running
<1>2. UNCHANGED inserted
  BY DEF Crash
<1>3. SumOf(usage[p], Days) \in Nat /\ Typed
  BY OwedType DEF ChargesInv
<1>4. SumOf(usage[p], Days) <= SumOf(usage'[p], Days)
  <2>1. CASE UNCHANGED usage
    BY <1>3, <2>1
  <2>2. ASSUME NEW x \in Delivery, at[x] = "cleared",
               NEW day \in Day(seen[x])..Day(clock), Charged(x, day)
        PROVE  SumOf(usage[p], Days) <= SumOf(usage'[p], Days)
    <3>1. day \in Days
      BY <1>3, DayType DEF Typed, TypeOK, Days
    <3>2. Size[Asked(x).item] \in Nat
      BY <1>3, <2>2, AskedType DEF Typed
    <3>3. SumOf(usage'[p], Days) =
            SumOf(usage[p], Days) + (IF By(x) = p THEN Size[Asked(x).item] ELSE 0)
      BY <1>3, <2>2, <3>1, ChargedAdds
    <3> QED
      BY <1>3, <3>2, <3>3
  <2> QED
    BY <2>1, <2>2 DEF Crash
<1> QED
  BY <1>1, <1>2, <1>4, BalanceKept

\* Every step keeps what is stored and owed within what was charged.
LEMMA ChargesStep == ChargesInv /\ [Next]_vars => ChargesInv'
<1> SUFFICES ASSUME ChargesInv, [Next]_vars PROVE ChargesInv'
  OBVIOUS
<1>1. Typed /\ Typed'
  BY TypedStep DEF ChargesInv
<1>2. ASSUME NEW p \in Principals
      PROVE  Balanced(p)'
  <2>1. CASE \E x \in Delivery : Handler(x)
    BY <1>1, <2>1, HandlerBalances
  <2>2. CASE Crash
    BY <1>1, <2>2, CrashBalances
  <2>3. CASE ~ (\E x \in Delivery : Handler(x)) /\ ~Crash
    <3>1. UNCHANGED <<usage, inserted, at>>
      BY <2>3, NextCases DEF Issue, RevokeCredential, Tick, vars, tables, history
    <3>2. SumOf(usage[p], Days) <= SumOf(usage'[p], Days)
      BY <1>1, <3>1, OwedType
    <3> QED
      BY <1>1, <3>1, <3>2, BalanceKept
  <2> QED
    BY <2>1, <2>2, <2>3
<1> QED
  BY <1>1, <1>2 DEF ChargesInv

\* Whatever the relay stores for a principal was charged to it on some day: two
\* transactions, a death between them, a new day and a revoked credential make no
\* difference.
THEOREM StorageIsPaid == Spec => []StoredWasCharged
<1>1. ChargesInv => StoredWasCharged
  <2>1. ASSUME ChargesInv, NEW p \in Principals
        PROVE  inserted[p] <= TotalUsage(p)
    <3>1. inserted[p] \in Nat /\ SumOf(Owed(p), Delivery) \in Nat /\ SumOf(usage[p], Days) \in Nat
      BY <2>1, OwedType DEF ChargesInv
    <3>2. inserted[p] + SumOf(Owed(p), Delivery) <= SumOf(usage[p], Days)
      BY <2>1 DEF ChargesInv, Balanced
    <3>3. TotalUsage(p) = SumOf(usage[p], Days)
      BY TotalIsSum
    <3> QED
      BY <3>1, <3>2, <3>3
  <2> QED
    BY <2>1 DEF StoredWasCharged
<1> QED
  BY <1>1, ChargesInit, ChargesStep, PTL DEF Spec
-----------------------------------------------------------------------------
(* Routes given up.  A 401 to a pull has four sources: the credential, the *)
(* clock, the nonce and the route.  A nonce is known only if a copy of the *)
(* request came first, and a route that is out of service stays so,        *)
(* because no second route is created under its name.  A clock within the  *)
(* skew is a source too if the request is on its way for long enough.      *)

\* A nonce on record was left there by a handler.
NoncesUsed ==
  \A row \in nonces : \E y \in Delivery : y[1] = row.nonce /\ at[y] \notin {"underway", "checked"}

\* A route is the contact route of a gateway or the work of the delivery it is named
\* like, which is answered.
RoutesMade ==
  \A row \in routes :
    \/ row.route \in Principals
    \/ row.route \in Delivery /\ at[row.route] = "ok"

\* A request carries the time of its gateway's clock, and a pull asks for a route of
\* that gateway.
Honest ==
  \A n \in DOMAIN requests :
    /\ requests[n].stamp = requests[n].sent + Drift[requests[n].call.by]
    /\ requests[n].sent <= clock
    /\ requests[n].call.op = "pull" =>
         \E row \in routes :
           row.route = requests[n].call.route /\ row.owner = requests[n].call.by

\* Why the route r was given up.
Dead(r) ==
  \/ ~Served(r)
  \/ \E row \in routes :
       row.route = r /\ (row.owner \notin live \/ Drift[row.owner] \notin GoodClocks)
  \/ PullCopied(r)

Made(r) == \E row \in routes : row.route = r

AbandonInv ==
  /\ Typed /\ NoncesUsed /\ RoutesMade /\ Honest
  /\ \A r \in givenUp : Made(r) /\ Dead(r)

\* At the start there are the contact routes and nothing else.
LEMMA AbandonInit == Init => AbandonInv
<1> SUFFICES ASSUME Init PROVE AbandonInv
  OBVIOUS
<1>1. NoncesUsed /\ RoutesMade /\ Honest
  BY DEF Init, NoncesUsed, RoutesMade, Honest
<1>2. givenUp = {}
  BY DEF Init
<1> QED
  BY <1>1, <1>2, TypeInit DEF AbandonInv

\* A handler that left the door does not come back to it.
LEMMA LeftBehind ==
  ASSUME Typed, [Next]_vars, NEW y \in Delivery, at[y] \notin {"underway", "checked"}
  PROVE  at'[y] \notin {"underway", "checked"}
<1>0. at \in [Delivery -> Phases \cup Answers]
  BY DEF Typed, TypeOK
<1>1. CASE Handler(y)
  <2>1. \E to \in {"denied", "ok", "failed", "known", "cleared", "charged"} : Go(y, to)
    BY <1>1 DEF Handler, Receive, Prove, CreateRoute, Charge, Uncharged, Push, Clear, Publish,
                Put, Delete, PullOrRevoke
  <2> QED
    BY <1>0, <2>1 DEF Go
<1>2. CASE ~Handler(y)
  BY <1>2, OthersStay, NoHandlerSteps
<1> QED
  BY <1>1, <1>2

\* The nonce of a request is entered by a handler that goes on.
LEMMA NoncesStep ==
  ASSUME AbandonInv, [Next]_vars
  PROVE  NoncesUsed'
<1>1. Typed /\ at \in [Delivery -> Phases \cup Answers]
  BY DEF AbandonInv, Typed, TypeOK
<1>2. \/ nonces' \subseteq nonces
      \/ \E x \in Delivery :
           /\ Go(x, "proved")
           /\ nonces' \subseteq nonces \cup {[by |-> By(x), nonce |-> x[1], used |-> clock]}
  <2>1. CASE \E x \in Delivery : Handler(x)
    BY <2>1 DEF Handler, Receive, Prove, CreateRoute, Charge, Push, Clear, Publish, Put, Delete,
                PullOrRevoke, tables
  <2>2. CASE ~\E x \in Delivery : Handler(x)
    BY <2>2, NextCases DEF Issue, RevokeCredential, Crash, Tick, vars, tables
  <2> QED
    BY <2>1, <2>2
<1>3. ASSUME NEW row \in nonces'
      PROVE  \E y \in Delivery : y[1] = row.nonce /\ at'[y] \notin {"underway", "checked"}
  <2>1. CASE row \in nonces
    <3>1. PICK y \in Delivery : y[1] = row.nonce /\ at[y] \notin {"underway", "checked"}
      BY <2>1 DEF AbandonInv, NoncesUsed
    <3> QED
      BY <1>1, <3>1, LeftBehind
  <2>2. CASE row \notin nonces
    <3>1. PICK x \in Delivery : Go(x, "proved") /\ row.nonce = x[1]
      BY <1>2, <1>3, <2>2
    <3>2. at'[x] = "proved"
      BY <1>1, <3>1 DEF Go
    <3> QED
      BY <3>1, <3>2
  <2> QED
    BY <2>1, <2>2
<1> QED
  BY <1>3 DEF NoncesUsed

\* Rows of routes stay, and only a create adds one, under a name of its own.
LEMMA RoutesAdded ==
  ASSUME Typed, [Next]_vars
  PROVE  /\ routes \subseteq routes'
         /\ \A row \in routes' \ routes : \E x \in Delivery :
              row.route = x /\ at[x] = "proved" /\ at'[x] = "ok"
<1>0. at \in [Delivery -> Phases \cup Answers]
  BY DEF Typed, TypeOK
<1>1. ASSUME NEW x \in Delivery, CreateRoute(x)
      PROVE  /\ routes \subseteq routes'
             /\ \A row \in routes' \ routes :
                  row.route = x /\ at[x] = "proved" /\ at'[x] = "ok"
  BY <1>0, <1>1 DEF CreateRoute, Go
<1>2. ASSUME NEW x \in Delivery, Handler(x), ~CreateRoute(x)
      PROVE  routes' = routes
  BY <1>2 DEF Handler, Receive, Prove, Charge, Push, Clear, Publish, Put, Delete, PullOrRevoke,
              tables
<1>3. CASE ~\E x \in Delivery : Handler(x)
  BY <1>3, NextCases DEF Issue, RevokeCredential, Crash, Tick, vars, tables
<1>4. CASE \E x \in Delivery : Handler(x)
  BY <1>1, <1>2, <1>4
<1> QED
  BY <1>3, <1>4

\* No route gets a second row: its handler, once answered, does nothing more.
LEMMA RowsAreFirst ==
  ASSUME AbandonInv, [Next]_vars, NEW row \in routes' \ routes
  PROVE  ~Made(row.route)
<1>1. PICK x \in Delivery : row.route = x /\ at[x] = "proved"
  BY RoutesAdded DEF AbandonInv
<1>2. row.route \notin Principals /\ at[row.route] # "ok"
  BY <1>1, RoutesAssumption
<1> QED
  BY <1>2 DEF AbandonInv, RoutesMade, Made

\* The work of a delivery stays its work.
LEMMA RoutesMadeStep ==
  ASSUME AbandonInv, [Next]_vars
  PROVE  RoutesMade'
<1>1. Typed
  BY DEF AbandonInv
<1>2. ASSUME NEW row \in routes', row.route \notin Principals
      PROVE  row.route \in Delivery /\ at'[row.route] = "ok"
  <2>1. CASE row \in routes
    <3>1. row.route \in Delivery /\ at[row.route] = "ok"
      BY <1>2, <2>1 DEF AbandonInv, RoutesMade
    <3> QED
      BY <1>1, <3>1, AnswersStay
  <2>2. CASE row \notin routes
    BY <1>1, <1>2, <2>2, RoutesAdded
  <2> QED
    BY <2>1, <2>2
<1> QED
  BY <1>2 DEF RoutesMade

\* Time does not run back.
LEMMA ClockStep ==
  ASSUME Typed, [Next]_vars
  PROVE  clock' = clock \/ clock' = clock + 1
<1>1. CASE \E x \in Delivery : Handler(x)
  BY <1>1, HandlerGoes DEF Goes, Framed
<1>2. CASE ~\E x \in Delivery : Handler(x)
  BY <1>2, NextCases DEF Issue, RevokeCredential, Crash, Tick, vars
<1> QED
  BY <1>1, <1>2

\* Gateways ask for routes of their own, which stay theirs.
LEMMA HonestStep ==
  ASSUME AbandonInv, [Next]_vars
  PROVE  Honest'
<1>1. Typed /\ requests \in Seq(SignedCall)
  BY DEF AbandonInv, Typed, TypeOK
<1>2. routes \subseteq routes'
  BY <1>1, RoutesAdded
<1>4. clock \in Nat /\ clock' \in Nat /\ clock <= clock'
  <2>1. Typed'
    BY <1>1, TypedStep
  <2>2. clock' = clock \/ clock' = clock + 1
    BY <1>1, ClockStep
  <2> QED
    BY <1>1, <2>1, <2>2 DEF Typed, TypeOK, Time
<1>3. ASSUME NEW n \in DOMAIN requests'
      PROVE  /\ requests'[n].stamp = requests'[n].sent + Drift[requests'[n].call.by]
             /\ requests'[n].sent <= clock'
             /\ requests'[n].call.op = "pull" =>
                  \E row \in routes' :
                    row.route = requests'[n].call.route /\ row.owner = requests'[n].call.by
  <2>1. CASE n \in DOMAIN requests
    <3>1. requests'[n] = requests[n] /\ requests[n].sent \in Nat
      BY <1>1, <2>1, AskedStays, CallType DEF Typed, Time
    <3>2. requests'[n].sent <= clock'
      BY <1>4, <2>1, <3>1 DEF AbandonInv, Honest
    <3> QED
      BY <1>2, <2>1, <3>1, <3>2 DEF AbandonInv, Honest
  <2>2. CASE n \notin DOMAIN requests
    <3>1. requests' # requests
      BY <1>3, <2>2
    <3>2. PICK c \in Calls : Issue(c)
      <4>1. ASSUME NEW x \in Delivery, Handler(x)
            PROVE  requests' = requests
        BY <1>1, <4>1, HandlerGoes DEF Goes, Framed
      <4> QED
        BY <3>1, <4>1, NextCases DEF RevokeCredential, Crash, Tick, vars
    <3>3. PICK r : requests' = Append(requests, r) /\ r.call = c
                   /\ r.stamp = r.sent + Drift[c.by] /\ r.sent = clock
      BY <3>2 DEF Issue
    <3>4. requests'[n] = r
      BY <1>1, <1>3, <2>2, <3>3
    <3>5. c.op = "pull" => \E row \in routes : row.route = c.route /\ row.owner = c.by
      BY <3>2 DEF Issue, Owns
    <3> QED
      BY <1>2, <1>4, <3>3, <3>4, <3>5
  <2> QED
    BY <2>1, <2>2
<1> QED
  BY <1>3 DEF Honest

\* A reason to give a route up does not go away.
LEMMA DeadStays ==
  ASSUME AbandonInv, [Next]_vars, NEW r, Made(r), Dead(r)
  PROVE  Made(r)' /\ Dead(r)'
<1>1. Typed /\ Typed'
  BY TypedStep DEF AbandonInv
<1>2. routes \subseteq routes'
  BY <1>1, RoutesAdded
<1>3. /\ revoked \subseteq revoked' /\ live' \subseteq live
      /\ clock' = clock \/ clock' = clock + 1
  <2>1. CASE \E x \in Delivery : Handler(x)
    BY <2>1 DEF Handler, Receive, Prove, CreateRoute, Charge, Push, Clear, Publish, Put, Delete,
                PullOrRevoke, tables, history
  <2>2. CASE ~\E x \in Delivery : Handler(x)
    BY <2>2, NextCases DEF Issue, RevokeCredential, Crash, Tick, vars, tables
  <2> QED
    BY <2>1, <2>2
<1>4. CASE ~Served(r)
  <2>1. ASSUME NEW row \in routes', row.route = r, row.expires > clock', r \notin revoked'
        PROVE  FALSE
    <3>1. row \in routes
      BY <2>1, RowsAreFirst
    <3>2. clock \in Nat /\ row.expires \in Nat
      BY <1>1, <3>1 DEF Typed, TypeOK, Time
    <3>3. row.expires > clock
      BY <1>3, <2>1, <3>2
    <3> QED
      BY <1>3, <1>4, <2>1, <3>1, <3>3 DEF Served
  <2>2. ~Served(r)'
    BY <2>1 DEF Served
  <2> QED
    BY <1>2, <2>2 DEF Dead, Made
<1>5. CASE \E row \in routes :
             row.route = r /\ (row.owner \notin live \/ Drift[row.owner] \notin GoodClocks)
  BY <1>2, <1>3, <1>5 DEF Dead, Made
<1>6. CASE PullCopied(r)
  <2>1. PICK x \in Delivery : /\ x[1] \in DOMAIN requests /\ Asked(x).op = "pull"
                              /\ Asked(x).route = r /\ x[2] > 1 /\ at[x] # "underway"
    BY <1>6 DEF PullCopied
  <2>2. x[1] \in DOMAIN requests' /\ Asked(x)' = Asked(x)
    BY <1>1, <2>1, AskedStays DEF Asked
  <2>3. at'[x] # "underway"
    <3>1. CASE at[x] = "checked"
      <4>1. ~Receive(x)
        BY <3>1 DEF Receive
      <4>2. ASSUME Handler(x)
            PROVE  Prove(x)
        BY <3>1, <4>2, <4>1 DEF Handler, CreateRoute, Charge, Push, Clear, Publish, Put, Delete,
                                PullOrRevoke
      <4>3. at \in [Delivery -> Phases \cup Answers]
        BY <1>1 DEF Typed, TypeOK
      <4>4. ASSUME Prove(x)
            PROVE  at'[x] # "underway"
        BY <4>3, <4>4 DEF Prove, Go
      <4> QED
        BY <1>1, <3>1, <4>2, <4>4, OthersStay, NoHandlerSteps
    <3>2. CASE at[x] # "checked"
      BY <1>1, <2>1, <3>2, LeftBehind
    <3> QED
      BY <3>1, <3>2
  <2> QED
    BY <1>2, <2>1, <2>2, <2>3 DEF Dead, Made, PullCopied
<1> QED
  BY <1>4, <1>5, <1>6 DEF Dead

\* A gateway that reads a 401 to its pull has one of these reasons.
LEMMA RefusedIsDead ==
  ASSUME AbandonInv, [Next]_vars, NEW x \in Delivery, Handler(x), Go(x, "denied"),
         NEW r, Asked(x).op = "pull", Asked(x).route = r, Awaited(x)
  PROVE  Made(r)' /\ Dead(r)'
<1> DEFINE p == By(x)
<1>1. Typed /\ at \in [Delivery -> Phases \cup Answers]
  BY DEF AbandonInv, Typed, TypeOK
<1>2. x[1] \in DOMAIN requests /\ at'[x] = "denied"
  BY <1>1, HandlerGoes DEF Goes, Go
<1>3. PICK row \in routes : row.route = r /\ row.owner = p
  BY <1>2 DEF AbandonInv, Honest, Asked, By
<1>4. Made(r)
  BY <1>3 DEF Made
<1>5. SUFFICES Dead(r)
  BY <1>4, DeadStays
<1>6. CASE Receive(x)
  <2>1. p \notin live \/ ~InWindow(x)
    BY <1>1, <1>2, <1>6 DEF Receive, Go
  <2>2. ASSUME ~InWindow(x)
        PROVE  Drift[p] \notin GoodClocks
    <3>1. PICK d, t, s : d = Drift[p] /\ t = requests[x[1]].stamp /\ s = requests[x[1]].sent
      OBVIOUS
    <3>2. t = s + d /\ s <= clock /\ clock - s <= Patience
      BY <1>2, <3>1 DEF AbandonInv, Honest, Awaited, By, Asked
    <3>3. clock \in Int /\ s \in Int /\ d \in Int /\ Skew \in Int /\ Patience \in Int
      <4>1. p \in Principals /\ s \in Time
        BY <1>2, <1>1, <3>1, CallType DEF Typed, By, Asked, Call
      <4> QED
        BY <1>1, <3>1, <4>1, DriftAssumption, WindowAssumption DEF Typed, TypeOK, Time
    <3>4. ~(clock - t <= Skew /\ t - clock <= Skew)
      BY <2>2, <3>1 DEF InWindow
    <3>5. d \notin GoodClocks
      BY <3>2, <3>3, <3>4 DEF GoodClocks
    <3> QED
      BY <3>1, <3>5
  <2> QED
    BY <1>3, <2>1, <2>2 DEF Dead
<1>7. CASE Prove(x)
  <2>1. at[x] = "checked"
    BY <1>7 DEF Prove
  <2>2. PICK old \in nonces : old.nonce = x[1]
    BY <1>1, <1>2, <1>7 DEF Prove, Go
  <2>3. PICK y \in Delivery : y[1] = x[1] /\ at[y] \notin {"underway", "checked"}
    BY <2>2 DEF AbandonInv, NoncesUsed
  <2>4. y[2] > 1
    <3>1. x[2] = 1
      BY DEF Awaited
    <3>2. \A z \in Delivery : z[2] \in Nat /\ z[2] >= 1 /\ z = <<z[1], z[2]>>
      BY BoundsAssumption DEF Delivery
    <3>3. x # y
      BY <2>1, <2>3
    <3> QED
      BY <2>3, <3>1, <3>2, <3>3
  <2>5. PullCopied(r)
    BY <1>2, <2>3, <2>4 DEF PullCopied, Asked
  <2> QED
    BY <2>5 DEF Dead
<1>8. CASE Clear(x)
  <2>1. ~MayGoOn(x)
    BY <1>1, <1>2, <1>8 DEF Clear, Go
  <2>2. Owns(p, r)
    BY <1>3 DEF Owns
  <2> QED
    BY <2>1, <2>2 DEF MayGoOn, Dead
<1>9. CASE PullOrRevoke(x)
  BY <1>1, <1>2, <1>9 DEF PullOrRevoke, Go, Dead
<1> QED
  BY <1>6, <1>7, <1>8, <1>9
  DEF Handler, CreateRoute, Charge, Push, Publish, Put, Delete

\* Every step keeps the reasons of what was given up, and has one for what it gives up.
LEMMA AbandonStep == AbandonInv /\ [Next]_vars => AbandonInv'
<1> SUFFICES ASSUME AbandonInv, [Next]_vars PROVE AbandonInv'
  OBVIOUS
<1>1. Typed'
  BY TypedStep DEF AbandonInv
<1>2. NoncesUsed' /\ RoutesMade' /\ Honest'
  BY NoncesStep, RoutesMadeStep, HonestStep
<1>3. ASSUME NEW r \in givenUp'
      PROVE  Made(r)' /\ Dead(r)'
  <2>1. CASE r \in givenUp
    BY <2>1, DeadStays DEF AbandonInv
  <2>2. CASE r \notin givenUp
    <3>1. PICK x \in Delivery : Handler(x)
      BY <1>3, <2>2, NextCases DEF Issue, RevokeCredential, Crash, Tick, vars
    <3>2. PICK to : Go(x, to)
      BY <3>1, HandlerGoes DEF AbandonInv, Goes
    <3>3. to = "denied" /\ Asked(x).op = "pull" /\ Awaited(x) /\ r = Asked(x).route
      BY <1>3, <2>2, <3>2 DEF Go
    <3> QED
      BY <3>1, <3>2, <3>3, RefusedIsDead
  <2> QED
    BY <2>1, <2>2
<1> QED
  BY <1>1, <1>2, <1>3 DEF AbandonInv

\* A gateway gives up a route of its own only when the relay serves it no more, its
\* credential is revoked, a copy of its pull came first, or its clock is not good: ahead
\* by more than the skew, or so far behind that a request can leave the skew while its
\* sender waits.
THEOREM GivenUpForAReason == Spec => []GivenUpRoutesAreDead
<1>1. AbandonInv => GivenUpRoutesAreDead
  BY DEF AbandonInv, GivenUpRoutesAreDead, Dead
<1> QED
  BY <1>1, AbandonInit, AbandonStep, PTL DEF Spec
=============================================================================
