-------------------------- MODULE MembershipProofs --------------------------
(***************************************************************************)
(* The safety of joining and governed removal, for every number of         *)
(* gateways, founders, leads, targets, thresholds, epochs, events,         *)
(* crashes.                                                                *)
(***************************************************************************)
EXTENDS Membership, EventOpsProofs, FiniteSetTheorems

\* Every log holds a prefix of each author's events.
AuthorPrefix ==
  \A g, a \in Gateways : \E n \in 0..MaxSeq : SeqsBy(log[g], a) = 1..n

\* Key serials and epochs are counted by the keys generated so far.
KeysCounted ==
  /\ \A g \in Gateways : key[g].serial <= keys /\ key[g].epoch <= keys
  /\ \A u \in updates : u.new.serial <= keys /\ u.new.epoch <= keys

\* A gateway works through updates that are its own and still at the relay.
BatchedAtRelay == \A g \in Gateways : \A u \in ubatch[g] : u \in updates /\ u.to = g

TypeInv == TypeOK /\ AuthorPrefix /\ KeysCounted /\ BatchedAtRelay

\* Whoever holds the key of a travelling update has the members it names.
UpdatesFit ==
  \A u \in updates, g \in Gateways :
    key[g].serial = u.new.serial => active[g] = u.remaining

\* Updates that carry one key name the same members.
UpdatesAgree ==
  \A u, v \in updates : u.new.serial = v.new.serial => u.remaining = v.remaining

\* The strengthening of KeyFixesMembership that is inductive, with FirstInv.
KeyInv == KeyFixesMembership /\ UpdatesFit /\ UpdatesAgree

\* Nothing is known of the collective before it is created.
Founded ==
  keys = 0 => invited = {} /\ \A g \in Gateways : active[g] = {} /\ log[g] = {}

\* The key of the invitations is held with all members, no key with none, and
\* neither is sealed in an update.
FitsFirst(g) ==
  /\ key[g].serial = FirstKey.serial => active[g] = Gateways
  /\ key[g].serial = NoKey.serial => active[g] = {}
FirstKeyFits ==
  /\ \A g \in Gateways : FitsFirst(g)
  /\ \A u \in updates : u.new.serial \notin {NoKey.serial, FirstKey.serial}

\* An invitation that arrives late or again meets what it offers, or a later epoch.
FirstInv == Founded /\ FirstKeyFits
-----------------------------------------------------------------------------
\* The initial state satisfies the invariants: nobody has a key.
LEMMA InitInv == Init => TypeInv /\ KeyInv /\ FirstInv
<1> SUFFICES ASSUME Init PROVE TypeInv /\ KeyInv /\ FirstInv
  OBVIOUS
<1>1. Unposted \in GovernanceContent
  <2>1. <<CHOOSE g \in Gateways : TRUE, 1>> \in EventId
    BY GatewaysAssumption, MaxSeqAssumption, BoundsAssumption DEF EventId
  <2>2. (CHOOSE e \in EventId : TRUE) \in EventId
    BY <2>1
  <2>3. /\ (CHOOSE s \in Spaces : TRUE) \in Spaces
        /\ (CHOOSE x \in Targets : TRUE) \in Targets
        /\ (CHOOSE t \in Thresholds : TRUE) \in Thresholds
    BY SpacesAssumption, MembersAssumption, ThresholdsAssumption
  <2>4. 0 \in Serials
    BY BoundsAssumption DEF Serials
  <2> QED
    BY <2>2, <2>3, <2>4 DEF Unposted, GovernanceContent
<1>2. NoKey \in Keys
  BY BoundsAssumption DEF NoKey, Keys, Serials
<1>3. TypeOK
  BY <1>1, <1>2, BoundsAssumption DEF Init, TypeOK
<1>4. AuthorPrefix
  <2>1. \A g, a \in Gateways : SeqsBy(log[g], a) = {}
    BY DEF Init, SeqsBy
  <2>2. 1..0 = {} /\ 0 \in 0..MaxSeq
    BY MaxSeqAssumption
  <2> QED
    BY <2>1, <2>2 DEF AuthorPrefix
<1>5. KeysCounted /\ BatchedAtRelay
  BY DEF Init, KeysCounted, BatchedAtRelay, NoKey
<1>6. KeyInv
  BY DEF Init, KeyInv, KeyFixesMembership, UpdatesFit, UpdatesAgree
<1>7. FirstInv
  BY DEF Init, FirstInv, Founded, FirstKeyFits, FitsFirst, NoKey, FirstKey
<1> QED
  BY <1>3, <1>4, <1>5, <1>6, <1>7 DEF TypeInv
-----------------------------------------------------------------------------
(* What the parts of an action produce.                                    *)

\* The event a gateway posts is named by the next number of its author.
LEMMA NewEventNext ==
  ASSUME TypeInv, NEW g \in Gateways, CanPost(g)
  PROVE  /\ NewEvent(g) \in EventId /\ Author(NewEvent(g)) = g
         /\ \E n \in 0..MaxSeq : SeqsBy(log[g], g) = 1..n /\ AuthorSeq(NewEvent(g)) = n + 1
<1>1. PICK n \in 0..MaxSeq : SeqsBy(log[g], g) = 1..n
  BY DEF TypeInv, AuthorPrefix
<1>2. NextSeq(log[g], g) = n + 1
  BY <1>1, NextSeqOfPrefix, MaxSeqAssumption
<1> QED
  BY <1>1, <1>2, MaxSeqAssumption DEF CanPost, NewEvent, EventId, Author, AuthorSeq

\* A log extended with an event next for its author stays a set of prefixes.
LEMMA AppendPrefix ==
  ASSUME TypeInv, NEW g \in Gateways, NEW e \in EventId, NEW n \in 0..MaxSeq,
         SeqsBy(log[g], Author(e)) = 1..n, AuthorSeq(e) = n + 1,
         log' = [log EXCEPT ![g] = @ \cup {e}]
  PROVE  log' \in [Gateways -> SUBSET EventId] /\ AuthorPrefix'
<1>1. \A h \in Gateways : log'[h] = IF h = g THEN log[h] \cup {e} ELSE log[h]
  BY DEF TypeInv, TypeOK
<1>2. log' \in [Gateways -> SUBSET EventId]
  BY DEF TypeInv, TypeOK
<1>3. AuthorPrefix'
  <2> SUFFICES ASSUME NEW h \in Gateways, NEW a \in Gateways
               PROVE  \E k \in 0..MaxSeq : SeqsBy(log'[h], a) = 1..k
    BY DEF AuthorPrefix
  <2>1. \E k \in 0..MaxSeq : SeqsBy(log[h], a) = 1..k
    BY DEF TypeInv, AuthorPrefix
  <2>2. CASE h = g
    <3>1. log[g] \in SUBSET EventId /\ n \in Nat
      BY MaxSeqAssumption DEF TypeInv, TypeOK
    <3>2. \E k \in 0..MaxSeq : SeqsBy(log[g] \cup {e}, a) = 1..k
      BY <2>1, <2>2, <3>1, PrefixExtends
    <3> QED
      BY <1>1, <2>2, <3>2
  <2>3. CASE h # g
    BY <1>1, <2>1, <2>3
  <2> QED
    BY <2>2, <2>3
<1> QED
  BY <1>2, <1>3

\* What a gateway signs is governance content.
LEMMA SignedTyped ==
  ASSUME TypeInv, NEW g \in Gateways, NEW kind \in {"proposed", "approved", "removed"},
         NEW p \in EventId, NEW x \in Targets, NEW t \in Thresholds, NEW k \in Keys
  PROVE  SignedContent(g, kind, p, x, t, k) \in GovernanceContent
<1> DEFINE s == CHOOSE s \in Spaces : TRUE
<1>1. s \in Spaces
  BY SpacesAssumption
<1>2. log[g] \subseteq EventId
  BY DEF TypeInv, TypeOK
<1>3. Heads(log[g], event, s) \subseteq EventId
  BY <1>2, HeadsInLog
<1>4. k.serial \in Serials
  BY DEF Keys
<1> HIDE DEF s
<1>5. [space |-> s, parents |-> Heads(log[g], event, s), kind |-> kind,
       about |-> p, target |-> x, threshold |-> t, key |-> k.serial] \in GovernanceContent
  BY <1>1, <1>3, <1>4 DEF GovernanceContent
<1> QED
  BY <1>5 DEF SignedContent, s

\* The projection of an event keeps the governance rows typed.
LEMMA AppendTyped ==
  ASSUME TypeInv, NEW g \in Gateways, NEW e \in EventId,
         NEW ev \in [EventId -> GovernanceContent], Append(g, e, ev)
  PROVE  status' \in [Gateways -> [EventId -> {"none", "open", "authorized", "executed"}]]
<1> DEFINE St == {"none", "open", "authorized", "executed"}
           b == ev[e].about
           r == Rebuilt(status[g][b], log[g] \cup {e}, ev, active[g], b)
<1>1. status \in [Gateways -> [EventId -> St]]
  BY DEF TypeInv, TypeOK
<1>2. b \in EventId
  BY DEF GovernanceContent
<1>3. r \in St
  BY <1>1, <1>2 DEF Rebuilt
<1> HIDE DEF r, b
<1>4. status' = IF ev[e].kind = "removed" THEN status ELSE [status EXCEPT ![g][b] = r]
  BY DEF Append, b, r
<1> QED
  BY <1>1, <1>2, <1>3, <1>4

\* The key an execution generates is new to every gateway and every update.
LEMMA NewKeyFresh ==
  ASSUME TypeInv, NEW g \in Gateways, keys < MaxKeys
  PROVE  /\ NewKey(g) \in Keys
         /\ NewKey(g).serial = keys + 1 /\ NewKey(g).epoch <= keys + 1
         /\ \A h \in Gateways : key[h].serial # NewKey(g).serial
         /\ \A u \in updates : u.new.serial # NewKey(g).serial
<1>1. keys \in Nat /\ MaxKeys \in Nat
  BY BoundsAssumption DEF TypeInv, TypeOK
<1>2. \A h \in Gateways : key[h].serial \in Nat /\ key[h].epoch \in Nat
  BY BoundsAssumption DEF TypeInv, TypeOK, Keys, Serials
<1>3. \A u \in updates : u.new.serial \in Nat
  BY BoundsAssumption DEF TypeInv, TypeOK, Update, Keys, Serials
<1>4. NewKey(g) = [epoch |-> key[g].epoch + 1, serial |-> keys + 1]
  BY DEF NewKey
<1>5. key[g].epoch + 1 \in 0..MaxKeys /\ keys + 1 \in 0..MaxKeys
  BY <1>1, <1>2 DEF TypeInv, KeysCounted
<1>6. NewKey(g) \in Keys
  BY <1>4, <1>5 DEF Keys, Serials
<1>7. NewKey(g).serial = keys + 1 /\ NewKey(g).epoch <= keys + 1
  BY <1>1, <1>2, <1>4 DEF TypeInv, KeysCounted
<1> QED
  BY <1>1, <1>2, <1>3, <1>6, <1>7 DEF TypeInv, KeysCounted

\* The updates an execution seals are typed and name its remaining members.
LEMMA SealedTyped ==
  ASSUME TypeInv, NEW g \in Gateways, NEW p \in EventId, NEW S \in SUBSET Gateways,
         keys < MaxKeys
  PROVE  /\ Sealed(g, p, S) \subseteq Update
         /\ \A u \in Sealed(g, p, S) : u.new = NewKey(g) /\ u.remaining = Remaining(g, p)
<1>1. NewKey(g) \in Keys
  BY NewKeyFresh
<1>2. event[p].target \in Targets /\ key[g].epoch \in 0..MaxKeys
  BY DEF TypeInv, TypeOK, GovernanceContent, Keys
<1>3. Remaining(g, p) \in SUBSET Gateways
  BY DEF Remaining, TypeInv, TypeOK
<1> QED
  BY <1>1, <1>2, <1>3 DEF Sealed, Update
-----------------------------------------------------------------------------
(* The steps that change keys.                                             *)

\* Sealing a fresh key, with or without installing it at once.
LEMMA SealKeyInv ==
  ASSUME TypeInv, KeyInv, NEW g \in Gateways, NEW p \in EventId, NEW S \in SUBSET Gateways,
         keys < MaxKeys, keys' = keys + 1,
         updates' = updates \cup Sealed(g, p, S), ubatch' = ubatch,
         \/ key' = key /\ active' = active
         \/ Rekey(g, event[p].target, NewKey(g))
  PROVE  /\ KeyInv' /\ KeysCounted' /\ BatchedAtRelay'
         /\ key' \in [Gateways -> Keys] /\ active' \in [Gateways -> SUBSET Gateways]
         /\ updates' \subseteq Update /\ keys' \in 0..MaxKeys
<1> DEFINE k == NewKey(g)
           A == Remaining(g, p)
<1>1. /\ TypeOK /\ KeysCounted /\ BatchedAtRelay
      /\ KeyFixesMembership /\ UpdatesFit /\ UpdatesAgree
  BY DEF TypeInv, KeyInv
<1>2. /\ k \in Keys /\ k.serial = keys + 1 /\ k.epoch <= keys + 1
      /\ \A h \in Gateways : key[h].serial # k.serial
      /\ \A u \in updates : u.new.serial # k.serial
  BY NewKeyFresh
<1>3. /\ Sealed(g, p, S) \subseteq Update
      /\ \A u \in Sealed(g, p, S) : u.new = k /\ u.remaining = A
  BY SealedTyped
<1>4. \A u \in updates' : u \in updates \/ (u.new = k /\ u.remaining = A)
  BY <1>3
<1>5. \A h \in Gateways : \/ key'[h] = key[h] /\ active'[h] = active[h]
                          \/ h = g /\ key'[h] = k /\ active'[h] = A
  BY <1>1 DEF Rekey, TypeOK, Remaining
<1>6. key' \in [Gateways -> Keys] /\ active' \in [Gateways -> SUBSET Gateways]
  <2> HIDE DEF k
  <2>1. CASE key' = key /\ active' = active
    BY <1>1, <2>1 DEF TypeOK
  <2>2. CASE key' = [key EXCEPT ![g] = k] /\ active' = [active EXCEPT ![g] = @ \ {event[p].target}]
    BY <1>1, <1>2, <2>2 DEF TypeOK
  <2> QED
    BY <2>1, <2>2 DEF Rekey, k
<1>7. updates' \subseteq Update /\ keys' \in 0..MaxKeys
  BY <1>1, <1>3, BoundsAssumption DEF TypeOK
<1> HIDE DEF k, A
<1>8. KeyFixesMembership'
  BY <1>1, <1>2, <1>5 DEF KeyFixesMembership
<1>9. UpdatesFit'
  BY <1>1, <1>2, <1>4, <1>5 DEF UpdatesFit
<1>10. UpdatesAgree'
  BY <1>1, <1>2, <1>4 DEF UpdatesAgree
<1>11. KeysCounted'
  <2>1. keys \in Nat
    BY <1>1, BoundsAssumption DEF TypeOK
  <2>2. \A h \in Gateways : key[h].serial \in Nat /\ key[h].epoch \in Nat
    BY <1>1, BoundsAssumption DEF TypeOK, Keys, Serials
  <2>3. \A u \in updates : u.new.serial \in Nat /\ u.new.epoch \in Nat
    BY <1>1, BoundsAssumption DEF TypeOK, Update, Keys, Serials
  <2>4. k.serial \in Nat /\ k.epoch \in Nat
    BY <1>2, BoundsAssumption DEF Keys, Serials
  <2>5. \A h \in Gateways : key'[h].serial <= keys + 1 /\ key'[h].epoch <= keys + 1
    BY <1>1, <1>2, <1>5, <2>1, <2>2, <2>4 DEF KeysCounted
  <2>6. \A u \in updates' : u.new.serial <= keys + 1 /\ u.new.epoch <= keys + 1
    BY <1>1, <1>2, <1>4, <2>1, <2>3, <2>4 DEF KeysCounted
  <2> QED
    BY <2>5, <2>6 DEF KeysCounted
<1>12. BatchedAtRelay'
  BY <1>1 DEF BatchedAtRelay
<1> QED
  BY <1>6, <1>7, <1>8, <1>9, <1>10, <1>11, <1>12 DEF KeyInv

\* Installing an acceptable update: the gateway joins those who hold the key,
\* with the members the update names.
LEMMA InstallKeyInv ==
  ASSUME TypeInv, KeyInv, NEW g \in Gateways, NEW u \in ubatch[g], Acceptable(g, u),
         Rekey(g, u.removed, u.new), keys' = keys, updates' \subseteq updates
  PROVE  /\ KeyInv' /\ KeysCounted'
         /\ key' \in [Gateways -> Keys] /\ active' \in [Gateways -> SUBSET Gateways]
<1>1. /\ TypeOK /\ KeysCounted /\ BatchedAtRelay
      /\ KeyFixesMembership /\ UpdatesFit /\ UpdatesAgree
  BY DEF TypeInv, KeyInv
<1>2. u \in updates /\ u \in Update
  BY <1>1 DEF BatchedAtRelay, TypeOK
<1>3. u.new \in Keys /\ u.remaining = active[g] \ {u.removed}
  BY <1>2 DEF Update, Acceptable
<1>4. \A h \in Gateways : IF h = g THEN key'[h] = u.new /\ active'[h] = u.remaining
                          ELSE key'[h] = key[h] /\ active'[h] = active[h]
  BY <1>1, <1>3 DEF Rekey, TypeOK
<1>5. key' \in [Gateways -> Keys] /\ active' \in [Gateways -> SUBSET Gateways]
  BY <1>1, <1>3 DEF Rekey, TypeOK
<1>6. KeyFixesMembership'
  BY <1>1, <1>2, <1>4 DEF KeyFixesMembership, UpdatesFit
<1>7. UpdatesFit'
  BY <1>1, <1>2, <1>4 DEF UpdatesFit, UpdatesAgree
<1>8. UpdatesAgree'
  BY <1>1 DEF UpdatesAgree
<1>9. KeysCounted'
  BY <1>1, <1>2, <1>4 DEF KeysCounted
<1> QED
  BY <1>5, <1>6, <1>7, <1>8, <1>9 DEF KeyInv

\* A step that leaves keys and members alone and adds no update.
LEMMA SameKeysInv ==
  ASSUME TypeInv, KeyInv, key' = key, active' = active, keys' = keys, updates' \subseteq updates
  PROVE  KeyInv' /\ KeysCounted'
BY DEF TypeInv, KeyInv, KeysCounted, KeyFixesMembership, UpdatesFit, UpdatesAgree
-----------------------------------------------------------------------------
(* Every action keeps both invariants.                                     *)

\* An event the gateway posts on its own: a proposal or an approval.
LEMMA PostInv ==
  ASSUME TypeInv, KeyInv, NEW g \in Gateways, CanPost(g),
         NEW c \in GovernanceContent, NEW R \in SUBSET Gateways,
         event' = [event EXCEPT ![NewEvent(g)] = c],
         Append(g, NewEvent(g), event'),
         copies' = copies \cup CopiesFor(NewEvent(g), R),
         UNCHANGED <<key, active, invited, updates, batch, ubatch, keys, crashes, gone>>
  PROVE  TypeInv' /\ KeyInv'
<1> DEFINE e == NewEvent(g)
<1>1. TypeOK /\ BatchedAtRelay
  BY DEF TypeInv
<1>2. /\ e \in EventId /\ Author(e) = g
      /\ \E n \in 0..MaxSeq : SeqsBy(log[g], g) = 1..n /\ AuthorSeq(e) = n + 1
  BY NewEventNext
<1> HIDE DEF e
<1>3. event' = [event EXCEPT ![e] = c] /\ Append(g, e, event')
  BY DEF e
<1>4. event' \in [EventId -> GovernanceContent]
  BY <1>1, <1>2, <1>3 DEF TypeOK
<1>5. log' = [log EXCEPT ![g] = @ \cup {e}]
  BY <1>3 DEF Append
<1>6. log' \in [Gateways -> SUBSET EventId] /\ AuthorPrefix'
  BY <1>2, <1>5, AppendPrefix
<1>7. status' \in [Gateways -> [EventId -> {"none", "open", "authorized", "executed"}]]
  BY <1>2, <1>3, <1>4, AppendTyped
<1>8. copies' \subseteq EventId \X Gateways
  BY <1>1, <1>2 DEF CopiesFor, TypeOK, e
<1>9. TypeOK'
  BY <1>1, <1>4, <1>6, <1>7, <1>8 DEF TypeOK
<1>10. KeyInv' /\ KeysCounted'
  BY SameKeysInv
<1>11. BatchedAtRelay'
  BY <1>1 DEF BatchedAtRelay
<1> QED
  BY <1>6, <1>9, <1>10, <1>11 DEF TypeInv

\* A proposal keeps both invariants: it is an event the gateway posts.
LEMMA ProposeInv ==
  ASSUME TypeInv, KeyInv, NEW g \in Gateways, NEW x \in Targets, NEW t \in Thresholds,
         NEW R \in Recipients(g, x), Propose(g, x, t, R)
  PROVE  TypeInv' /\ KeyInv'
<1> DEFINE p == NewEvent(g)
           c == SignedContent(g, "proposed", p, x, t, key[g])
<1>1. CanPost(g)
  BY DEF Propose
<1>2. p \in EventId /\ key[g] \in Keys
  BY <1>1, NewEventNext DEF TypeInv, TypeOK
<1>3. c \in GovernanceContent
  BY <1>2, SignedTyped
<1>4. R \in SUBSET Gateways
  BY DEF Recipients, TypeInv, TypeOK
<1>5. /\ event' = [event EXCEPT ![NewEvent(g)] = c]
      /\ Append(g, NewEvent(g), event')
      /\ copies' = copies \cup CopiesFor(NewEvent(g), R)
      /\ UNCHANGED <<key, active, invited, updates, batch, ubatch, keys, crashes, gone>>
  BY DEF Propose
<1> HIDE DEF c
<1> QED
  BY <1>1, <1>3, <1>4, <1>5, PostInv

\* An approval keeps both invariants: it is an event the gateway posts.
LEMMA ApproveInv ==
  ASSUME TypeInv, KeyInv, NEW g \in Gateways, NEW p \in EventId,
         NEW R \in Recipients(g, event[p].target), Approve(g, p, R)
  PROVE  TypeInv' /\ KeyInv'
<1> DEFINE c == SignedContent(g, "approved", p, event[p].target, event[p].threshold, key[g])
<1>1. CanPost(g)
  BY DEF Approve
<1>2. event[p].target \in Targets /\ event[p].threshold \in Thresholds /\ key[g] \in Keys
  BY DEF TypeInv, TypeOK, GovernanceContent
<1>3. c \in GovernanceContent
  BY <1>2, SignedTyped
<1>4. R \in SUBSET Gateways
  BY DEF Recipients, TypeInv, TypeOK
<1>5. /\ event' = [event EXCEPT ![NewEvent(g)] = c]
      /\ Append(g, NewEvent(g), event')
      /\ copies' = copies \cup CopiesFor(NewEvent(g), R)
      /\ UNCHANGED <<key, active, invited, updates, batch, ubatch, keys, crashes, gone>>
  BY DEF Approve
<1> HIDE DEF c
<1> QED
  BY <1>1, <1>3, <1>4, <1>5, PostInv

\* Marking a proposal keeps the governance rows typed.
LEMMA MarkTyped ==
  ASSUME TypeInv, NEW g \in Gateways, NEW p \in EventId,
         status' \in {status, [status EXCEPT ![g][p] = "executed"]}
  PROVE  status' \in [Gateways -> [EventId -> {"none", "open", "authorized", "executed"}]]
<1> DEFINE St == {"none", "open", "authorized", "executed"}
<1>1. status \in [Gateways -> [EventId -> St]]
  BY DEF TypeInv, TypeOK
<1>2. "executed" \in St
  OBVIOUS
<1> HIDE DEF St
<1>3. CASE status' = status
  BY <1>1, <1>3 DEF St
<1>4. CASE status' = [status EXCEPT ![g][p] = "executed"]
  <2>1. status' \in [Gateways -> [EventId -> St]]
    BY <1>1, <1>2, <1>4
  <2> QED
    BY <2>1 DEF St
<1> QED
  BY <1>3, <1>4

\* An execution that runs to its end also posts membership.removed.
LEMMA ExecuteInv ==
  ASSUME TypeInv, KeyInv, NEW g \in Gateways, NEW p \in EventId, Execute(g, p)
  PROVE  TypeInv' /\ KeyInv'
<1> DEFINE e == NewEvent(g)
           S == Remaining(g, p) \ {g}
           c == SignedContent(g, "removed", p, event[p].target, event[p].threshold, NewKey(g))
<1>1. TypeOK /\ keys < MaxKeys /\ CanPost(g)
  BY DEF TypeInv, Execute, MayExecute
<1>2. S \in SUBSET Gateways
  BY <1>1 DEF Remaining, TypeOK
<1>3. NewKey(g) \in Keys /\ event[p].target \in Targets /\ event[p].threshold \in Thresholds
  BY <1>1, NewKeyFresh DEF TypeOK, GovernanceContent
<1>4. c \in GovernanceContent
  BY <1>3, SignedTyped
<1>5. /\ e \in EventId /\ Author(e) = g
      /\ \E n \in 0..MaxSeq : SeqsBy(log[g], g) = 1..n /\ AuthorSeq(e) = n + 1
  BY <1>1, NewEventNext
<1> HIDE DEF e, S, c
<1>6. /\ keys' = keys + 1 /\ updates' = updates \cup Sealed(g, p, S)
      /\ Rekey(g, event[p].target, NewKey(g))
      /\ status' = [status EXCEPT ![g][p] = "executed"]
      /\ log' = [log EXCEPT ![g] = @ \cup {e}]
      /\ event' = [event EXCEPT ![e] = c]
      /\ copies' = copies \cup CopiesFor(e, S)
      /\ batch' = batch /\ ubatch' = ubatch /\ crashes' = crashes /\ invited' = invited
      /\ gone' = gone \cup ({g} \cap {event[p].target})
  BY DEF Execute, MayExecute, e, S, c
<1>7. /\ KeyInv' /\ KeysCounted' /\ BatchedAtRelay'
      /\ key' \in [Gateways -> Keys] /\ active' \in [Gateways -> SUBSET Gateways]
      /\ updates' \subseteq Update /\ keys' \in 0..MaxKeys
  BY <1>1, <1>2, <1>6, SealKeyInv
<1>8. log' \in [Gateways -> SUBSET EventId] /\ AuthorPrefix'
  BY <1>5, <1>6, AppendPrefix
<1>9. status' \in [Gateways -> [EventId -> {"none", "open", "authorized", "executed"}]]
  BY <1>6, MarkTyped
<1>10. event' \in [EventId -> GovernanceContent]
  BY <1>1, <1>4, <1>6 DEF TypeOK
<1>11. copies' \subseteq EventId \X Gateways
  BY <1>1, <1>2, <1>5, <1>6 DEF CopiesFor, TypeOK
<1>12. TypeOK'
  BY <1>1, <1>6, <1>7, <1>8, <1>9, <1>10, <1>11 DEF TypeOK
<1> QED
  BY <1>7, <1>8, <1>12 DEF TypeInv

\* An execution that raises or dies leaves the logs alone.
LEMMA ExecuteCutShortInv ==
  ASSUME TypeInv, KeyInv, NEW g \in Gateways, NEW p \in EventId,
         \/ ExecuteStale(g, p)
         \/ \E S \in SUBSET Gateways : ExecuteDiesSealing(g, p, S)
         \/ \E marked \in BOOLEAN : ExecuteDiesRekeyed(g, p, marked)
  PROVE  TypeInv' /\ KeyInv'
<1>1. TypeOK /\ AuthorPrefix
  BY DEF TypeInv
<1>2. Remaining(g, p) \ {g} \in SUBSET Gateways
  BY <1>1 DEF Remaining, TypeOK
<1>3. /\ keys < MaxKeys /\ keys' = keys + 1
      /\ UNCHANGED <<log, event, copies, invited, batch, ubatch>>
  BY DEF ExecuteStale, ExecuteDiesSealing, ExecuteDiesRekeyed, MayExecute
<1>4. \E S \in SUBSET Gateways : updates' = updates \cup Sealed(g, p, S)
  BY <1>2 DEF ExecuteStale, ExecuteDiesSealing, ExecuteDiesRekeyed
<1>5. \/ key' = key /\ active' = active
      \/ Rekey(g, event[p].target, NewKey(g))
  BY DEF ExecuteStale, ExecuteDiesSealing, ExecuteDiesRekeyed
<1>6. /\ KeyInv' /\ KeysCounted' /\ BatchedAtRelay'
      /\ key' \in [Gateways -> Keys] /\ active' \in [Gateways -> SUBSET Gateways]
      /\ updates' \subseteq Update /\ keys' \in 0..MaxKeys
  BY <1>3, <1>4, <1>5, SealKeyInv
<1>7. status' \in {status, [status EXCEPT ![g][p] = "executed"]}
  BY DEF ExecuteStale, ExecuteDiesSealing, ExecuteDiesRekeyed
<1>8. crashes' \in 0..MaxCrashes /\ gone' \subseteq Gateways
  BY <1>1, BoundsAssumption
     DEF TypeOK, ExecuteStale, ExecuteDiesSealing, ExecuteDiesRekeyed
<1>9. TypeOK'
  BY <1>1, <1>3, <1>6, <1>7, <1>8, MarkTyped DEF TypeOK
<1>10. AuthorPrefix'
  BY <1>1, <1>3 DEF AuthorPrefix
<1> QED
  BY <1>6, <1>9, <1>10 DEF TypeInv

\* Installing, dying half-way through installing, or rejecting an update.
LEMMA UpdateInv ==
  ASSUME TypeInv, KeyInv, NEW g \in Gateways, NEW u \in ubatch[g],
         InstallUpdate(g, u) \/ InstallDiesUnmarked(g, u) \/ RejectUpdate(g, u)
  PROVE  TypeInv' /\ KeyInv'
<1>1. TypeOK /\ AuthorPrefix /\ BatchedAtRelay
  BY DEF TypeInv
<1>2. u \in Update /\ u \in updates /\ u.to = g /\ u.proposal \in EventId
  BY <1>1 DEF TypeOK, Update, BatchedAtRelay
<1>3. /\ log' = log /\ event' = event /\ copies' = copies /\ keys' = keys /\ invited' = invited
      /\ gone' = gone /\ updates' \subseteq updates
  BY DEF InstallUpdate, InstallDiesUnmarked, RejectUpdate
<1>4. /\ KeyInv' /\ KeysCounted'
      /\ key' \in [Gateways -> Keys] /\ active' \in [Gateways -> SUBSET Gateways]
  <2>1. CASE RejectUpdate(g, u)
    <3>1. key' = key /\ active' = active
      BY <2>1 DEF RejectUpdate
    <3> QED
      BY <1>1, <1>3, <3>1, SameKeysInv DEF TypeOK
  <2>2. CASE ~RejectUpdate(g, u)
    <3>1. Acceptable(g, u) /\ Rekey(g, u.removed, u.new)
      BY <2>2 DEF InstallUpdate, InstallDiesUnmarked
    <3> QED
      BY <1>3, <3>1, InstallKeyInv
  <2> QED
    BY <2>1, <2>2
<1>5. status' \in [Gateways -> [EventId -> {"none", "open", "authorized", "executed"}]]
  <2>1. status' \in {status, [status EXCEPT ![g][u.proposal] = "executed"]}
    BY DEF InstallUpdate, InstallDiesUnmarked, RejectUpdate
  <2> QED
    BY <1>2, <2>1, MarkTyped
<1>6. /\ batch' \in [Gateways -> SUBSET (EventId \X Gateways)]
      /\ crashes' \in 0..MaxCrashes
  BY <1>1, BoundsAssumption DEF TypeOK, InstallUpdate, InstallDiesUnmarked, RejectUpdate
<1>7. ubatch' \in [Gateways -> SUBSET Update] /\ BatchedAtRelay'
  <2>1. CASE ubatch' = [ubatch EXCEPT ![g] = @ \ {u}] /\ updates' = updates \ {u}
    BY <1>1, <1>2, <2>1 DEF TypeOK, BatchedAtRelay
  <2>2. CASE ubatch' = [ubatch EXCEPT ![g] = {}] /\ updates' = updates
    BY <1>1, <2>2 DEF TypeOK, BatchedAtRelay
  <2> QED
    BY <2>1, <2>2 DEF InstallUpdate, InstallDiesUnmarked, RejectUpdate
<1>8. TypeOK'
  BY <1>1, <1>3, <1>4, <1>5, <1>6, <1>7 DEF TypeOK
<1>9. AuthorPrefix'
  BY <1>1, <1>3 DEF AuthorPrefix
<1> QED
  BY <1>4, <1>7, <1>8, <1>9 DEF TypeInv

\* Working through the group envelopes of a route.
LEMMA CopyInv ==
  ASSUME TypeInv, KeyInv, NEW g \in Gateways, NEW c \in batch[g],
         AdmitCopy(g, c) \/ HoldCopy(g, c) \/ DropCopy(g, c)
  PROVE  TypeInv' /\ KeyInv'
<1>1. TypeOK /\ AuthorPrefix /\ BatchedAtRelay
  BY DEF TypeInv
<1>2. c \in EventId \X Gateways /\ c[1] \in EventId
  BY <1>1 DEF TypeOK
<1>3. /\ UNCHANGED <<event, key, active, invited, updates, ubatch, keys, crashes, gone>>
      /\ batch' = [batch EXCEPT ![g] = @ \ {c}] /\ copies' \subseteq copies
  BY DEF AdmitCopy, HoldCopy, DropCopy
<1>4. KeyInv' /\ KeysCounted' /\ BatchedAtRelay'
  BY <1>1, <1>3, SameKeysInv DEF BatchedAtRelay
<1>5. /\ log' \in [Gateways -> SUBSET EventId] /\ AuthorPrefix'
      /\ status' \in [Gateways -> [EventId -> {"none", "open", "authorized", "executed"}]]
  <2>1. CASE AdmitCopy(g, c)
    <3>1. /\ Append(g, c[1], event) /\ log' = [log EXCEPT ![g] = @ \cup {c[1]}]
          /\ Verdict(log[g], event, c[1]) = "accept"
      BY <2>1 DEF AdmitCopy, Append
    <3>2. event \in [EventId -> GovernanceContent] /\ Author(c[1]) \in Gateways
      BY <1>1, <1>2 DEF TypeOK, EventId, Author
    <3>3. PICK n \in 0..MaxSeq : SeqsBy(log[g], Author(c[1])) = 1..n
      BY <1>1, <3>2 DEF AuthorPrefix
    <3>4. NextSeq(log[g], Author(c[1])) = n + 1
      BY <3>3, NextSeqOfPrefix, MaxSeqAssumption
    <3>5. AuthorSeq(c[1]) \in Nat
      BY <1>2, MaxSeqAssumption DEF EventId, AuthorSeq
    <3>6. AuthorSeq(c[1]) = n + 1
      BY <3>1, <3>4, <3>5 DEF Verdict
    <3>7. log' \in [Gateways -> SUBSET EventId] /\ AuthorPrefix'
      BY <1>2, <3>1, <3>3, <3>6, AppendPrefix
    <3>8. status' \in [Gateways -> [EventId -> {"none", "open", "authorized", "executed"}]]
      BY <1>2, <3>1, <3>2, AppendTyped
    <3> QED
      BY <3>7, <3>8
  <2>2. CASE ~AdmitCopy(g, c)
    <3>1. log' = log /\ status' = status
      BY <2>2 DEF HoldCopy, DropCopy
    <3> QED
      BY <1>1, <3>1 DEF TypeOK, AuthorPrefix
  <2> QED
    BY <2>1, <2>2
<1>6. TypeOK'
  BY <1>1, <1>3, <1>5 DEF TypeOK
<1> QED
  BY <1>4, <1>5, <1>6 DEF TypeInv

\* Starting to work through a route moves nothing but the two batches.
LEMMA PullRouteInv ==
  ASSUME TypeInv, KeyInv, NEW g \in Gateways, NEW h \in Gateways, PullRoute(g, h)
  PROVE  TypeInv' /\ KeyInv'
<1>1. TypeOK /\ AuthorPrefix /\ BatchedAtRelay
  BY DEF TypeInv
<1>2. /\ UNCHANGED <<log, event, key, active, status, copies, invited, updates, keys, crashes,
                     gone>>
      /\ batch' = [batch EXCEPT ![g] = {c \in copies : c[2] = g /\ Author(c[1]) = h}]
      /\ ubatch' = [ubatch EXCEPT ![g] = {u \in updates : u.to = g /\ u.sender = h}]
  BY DEF PullRoute
<1>3. KeyInv' /\ KeysCounted'
  BY <1>2, SameKeysInv
<1>4. BatchedAtRelay'
  BY <1>1, <1>2 DEF TypeOK, BatchedAtRelay
<1>5. TypeOK'
  BY <1>1, <1>2 DEF TypeOK
<1>6. AuthorPrefix'
  BY <1>1, <1>2 DEF AuthorPrefix
<1> QED
  BY <1>3, <1>4, <1>5, <1>6 DEF TypeInv

\* A row made by add_collective, by its creator or by an invited gateway.
LEMMA AddInv ==
  ASSUME TypeInv, KeyInv, FirstKeyFits, NEW g \in Gateways, Add(g),
         keys' \in Nat, keys <= keys', 1 <= keys', updates' = updates, MaxKeys > 0
  PROVE  /\ KeyInv' /\ KeysCounted'
         /\ key' \in [Gateways -> Keys] /\ active' \in [Gateways -> SUBSET Gateways]
<1>1. /\ TypeOK /\ KeysCounted
      /\ KeyFixesMembership /\ UpdatesFit /\ UpdatesAgree
  BY DEF TypeInv, KeyInv
<1>2. FirstKey \in Keys /\ FirstKey.serial = 1 /\ FirstKey.epoch = 1
  BY BoundsAssumption DEF FirstKey, Keys, Serials
<1>3. key' \in [Gateways -> Keys] /\ active' \in [Gateways -> SUBSET Gateways]
  BY <1>1, <1>2 DEF Add, TypeOK
<1>4. \A h \in Gateways : IF h = g THEN key'[h] = FirstKey /\ active'[h] = Gateways
                          ELSE key'[h] = key[h] /\ active'[h] = active[h]
  BY <1>1 DEF Add, TypeOK
<1>5. KeyFixesMembership'
  BY <1>1, <1>4 DEF KeyFixesMembership, FirstKeyFits, FitsFirst
<1>6. UpdatesFit' /\ UpdatesAgree'
  BY <1>1, <1>4 DEF UpdatesFit, UpdatesAgree, FirstKeyFits
<1>7. KeysCounted'
  <2>1. keys \in Nat
    BY <1>1, BoundsAssumption DEF TypeOK
  <2>2. \A h \in Gateways : key[h].serial \in Nat /\ key[h].epoch \in Nat
    BY <1>1, BoundsAssumption DEF TypeOK, Keys, Serials
  <2>3. \A u \in updates : u.new.serial \in Nat /\ u.new.epoch \in Nat
    BY <1>1, BoundsAssumption DEF TypeOK, Update, Keys, Serials
  <2>4. \A h \in Gateways : key'[h].serial <= keys' /\ key'[h].epoch <= keys'
    BY <1>1, <1>2, <1>4, <2>1, <2>2 DEF KeysCounted
  <2>5. \A u \in updates' : u.new.serial <= keys' /\ u.new.epoch <= keys'
    BY <1>1, <2>1, <2>3 DEF KeysCounted
  <2> QED
    BY <2>4, <2>5 DEF KeysCounted
<1> QED
  BY <1>3, <1>5, <1>6, <1>7 DEF KeyInv

\* Creating the collective, and accepting or rejecting the invitation to it.
LEMMA JoinInv ==
  ASSUME TypeInv, KeyInv, FirstInv, NEW g \in Gateways,
         \/ \E R \in SUBSET Gateways : CreateCollective(g, R)
         \/ AcceptInvitation(g) \/ AcceptInvitationDies(g) \/ RejectInvitation(g)
  PROVE  TypeInv' /\ KeyInv'
<1>1. TypeOK /\ AuthorPrefix /\ BatchedAtRelay /\ Founded /\ FirstKeyFits
  BY DEF TypeInv, FirstInv
<1>2. UNCHANGED <<log, event, status, copies, updates, batch, ubatch, gone>>
  BY DEF CreateCollective, AcceptInvitation, AcceptInvitationDies, RejectInvitation
<1>3. invited' \subseteq Gateways
  BY <1>1 DEF CreateCollective, AcceptInvitation, AcceptInvitationDies, RejectInvitation, TypeOK
<1>4. crashes' \in 0..MaxCrashes
  BY <1>1, BoundsAssumption
     DEF CreateCollective, AcceptInvitation, AcceptInvitationDies, RejectInvitation, TypeOK
<1>5. keys \in Nat /\ MaxKeys \in Nat /\ keys <= MaxKeys
  BY <1>1, BoundsAssumption DEF TypeOK
<1>6. /\ KeyInv' /\ KeysCounted'
      /\ key' \in [Gateways -> Keys] /\ active' \in [Gateways -> SUBSET Gateways]
      /\ keys' \in 0..MaxKeys
  <2>1. CASE RejectInvitation(g)
    BY <1>1, <2>1, SameKeysInv DEF RejectInvitation, TypeOK
  <2>2. CASE ~RejectInvitation(g)
    <3>1. Add(g)
      BY <2>2 DEF CreateCollective, AcceptInvitation, AcceptInvitationDies
    <3>2. /\ (keys' = keys /\ keys # 0) \/ (keys = 0 /\ keys' = 1)
          /\ MaxKeys > 0
      <4>1. CASE \E R \in SUBSET Gateways : CreateCollective(g, R)
        BY <1>5, <4>1 DEF CreateCollective
      <4>2. CASE AcceptInvitation(g) \/ AcceptInvitationDies(g)
        BY <1>1, <1>5, <4>2 DEF AcceptInvitation, AcceptInvitationDies, Founded
      <4> QED
        BY <2>2, <4>1, <4>2
    <3>3. keys' \in 0..MaxKeys /\ keys <= keys' /\ 1 <= keys' /\ keys' \in Nat
      BY <1>5, <3>2
    <3> QED
      BY <1>1, <1>2, <3>1, <3>2, <3>3, AddInv
  <2> QED
    BY <2>1, <2>2
<1>7. TypeOK'
  BY <1>1, <1>2, <1>3, <1>4, <1>6 DEF TypeOK
<1>8. AuthorPrefix' /\ BatchedAtRelay'
  BY <1>1, <1>2 DEF AuthorPrefix, BatchedAtRelay
<1> QED
  BY <1>6, <1>7, <1>8 DEF TypeInv

\* Every step keeps both invariants.
LEMMA NextInv == TypeInv /\ KeyInv /\ FirstInv /\ [Next]_vars => TypeInv' /\ KeyInv'
<1> SUFFICES ASSUME TypeInv, KeyInv, FirstInv, [Next]_vars PROVE TypeInv' /\ KeyInv'
  OBVIOUS
<1>0. TypeOK /\ AuthorPrefix /\ BatchedAtRelay
  BY DEF TypeInv
<1>1. ASSUME NEW g \in Gateways, NEW x \in Targets, NEW t \in Thresholds,
             NEW R \in Recipients(g, x), Propose(g, x, t, R)
      PROVE  TypeInv' /\ KeyInv'
  BY <1>1, ProposeInv
<1>2. ASSUME NEW g \in Gateways, NEW p \in log[g],
             NEW R \in Recipients(g, event[p].target), Approve(g, p, R)
      PROVE  TypeInv' /\ KeyInv'
  <2>1. p \in EventId
    BY <1>0 DEF TypeOK
  <2> QED
    BY <1>2, <2>1, ApproveInv
<1>3. ASSUME NEW g \in Gateways, NEW p \in log[g], ExecuteStep(g, p)
      PROVE  TypeInv' /\ KeyInv'
  <2>1. p \in EventId
    BY <1>0 DEF TypeOK
  <2> QED
    BY <1>3, <2>1, ExecuteInv, ExecuteCutShortInv DEF ExecuteStep
<1>4. ASSUME NEW g \in Gateways, NEW h \in Gateways, PullRoute(g, h)
      PROVE  TypeInv' /\ KeyInv'
  BY <1>4, PullRouteInv
<1>5. ASSUME NEW g \in Gateways, NEW u \in ubatch[g],
             InstallUpdate(g, u) \/ InstallDiesUnmarked(g, u) \/ RejectUpdate(g, u)
      PROVE  TypeInv' /\ KeyInv'
  BY <1>5, UpdateInv
<1>6. ASSUME NEW g \in Gateways, NEW c \in batch[g],
             AdmitCopy(g, c) \/ HoldCopy(g, c) \/ DropCopy(g, c)
      PROVE  TypeInv' /\ KeyInv'
  BY <1>6, CopyInv
<1>7. CASE UNCHANGED vars
  <2>1. TypeOK' /\ AuthorPrefix' /\ BatchedAtRelay'
    BY <1>0, <1>7 DEF vars, TypeOK, AuthorPrefix, BatchedAtRelay
  <2> QED
    BY <1>7, <2>1, SameKeysInv DEF vars, TypeInv
<1>8. ASSUME NEW g \in Gateways,
             \/ \E R \in SUBSET Gateways : CreateCollective(g, R)
             \/ AcceptInvitation(g) \/ AcceptInvitationDies(g) \/ RejectInvitation(g)
      PROVE  TypeInv' /\ KeyInv'
  BY <1>8, JoinInv
<1> QED
  BY <1>1, <1>2, <1>3, <1>4, <1>5, <1>6, <1>7, <1>8 DEF Next

\* Every step keeps what is said of the first key: an execution needs an event in
\* a log, so its key is not the first, and every other step hands on a key there is.
LEMMA FirstStep == TypeInv /\ FirstInv /\ [Next]_vars => FirstInv'
<1> SUFFICES ASSUME TypeInv, FirstInv, [Next]_vars PROVE FirstInv'
  OBVIOUS
<1>1. TypeOK /\ BatchedAtRelay /\ KeysCounted /\ Founded /\ FirstKeyFits /\ keys \in Nat
  BY BoundsAssumption DEF TypeInv, FirstInv, TypeOK
<1>2. FirstKey.serial = 1 /\ NoKey.serial = 0
  BY DEF FirstKey, NoKey
<1>3. ASSUME NEW g \in Gateways, NEW p \in log[g], ExecuteStep(g, p)
      PROVE  FirstInv'
  <2>1. keys # 0 /\ keys < MaxKeys /\ keys' = keys + 1 /\ p \in EventId
    BY <1>1, <1>3 DEF Founded, ExecuteStep, Execute, ExecuteStale, ExecuteDiesSealing,
                      ExecuteDiesRekeyed, MayExecute, TypeOK
  <2>2. NewKey(g).serial \notin {NoKey.serial, FirstKey.serial}
    BY <1>1, <1>2, <2>1 DEF NewKey
  <2>3. \E S \in SUBSET Gateways : updates' = updates \cup Sealed(g, p, S)
    <3>1. Remaining(g, p) \ {g} \in SUBSET Gateways
      BY <1>1 DEF Remaining, TypeOK
    <3> QED
      BY <1>3, <3>1 DEF ExecuteStep, Execute, ExecuteStale, ExecuteDiesSealing, ExecuteDiesRekeyed
  <2>4. \A u \in updates' : u.new.serial \notin {NoKey.serial, FirstKey.serial}
    BY <1>1, <2>1, <2>2, <2>3, SealedTyped DEF FirstKeyFits
  <2>5. \/ key' = key /\ active' = active
        \/ Rekey(g, event[p].target, NewKey(g))
    BY <1>3 DEF ExecuteStep, Execute, ExecuteStale, ExecuteDiesSealing, ExecuteDiesRekeyed
  <2>6. \A h \in Gateways : FitsFirst(h)'
    BY <1>1, <2>2, <2>5 DEF FirstKeyFits, FitsFirst, Rekey, TypeOK
  <2> QED
    BY <1>1, <2>1, <2>4, <2>6 DEF FirstInv, Founded, FirstKeyFits
<1>4. ASSUME NEW g \in Gateways, NEW u \in ubatch[g], InstallUpdate(g, u) \/ InstallDiesUnmarked(g, u)
      PROVE  FirstInv'
  <2>1. u \in updates /\ u.new.serial \notin {NoKey.serial, FirstKey.serial}
    BY <1>1 DEF BatchedAtRelay, FirstKeyFits
  <2>2. /\ Rekey(g, u.removed, u.new) /\ u.sender \in active[g]
        /\ updates' \subseteq updates /\ keys' = keys
    BY <1>4 DEF InstallUpdate, InstallDiesUnmarked, Acceptable
  <2>3. keys' # 0
    BY <1>1, <2>2 DEF Founded
  <2>4. \A h \in Gateways : FitsFirst(h)'
    BY <1>1, <2>1, <2>2 DEF FirstKeyFits, FitsFirst, Rekey, TypeOK
  <2> QED
    BY <1>1, <2>2, <2>3, <2>4 DEF FirstInv, Founded, FirstKeyFits
<1>5. ASSUME NEW g \in Gateways, Add(g), keys' # 0, keys' \in Nat, updates' = updates
      PROVE  FirstInv'
  <2>1. \A h \in Gateways : FitsFirst(h)'
    BY <1>1, <1>2, <1>5 DEF FirstKeyFits, FitsFirst, Add, TypeOK
  <2> QED
    BY <1>1, <1>5, <2>1 DEF FirstInv, Founded, FirstKeyFits
<1>6. ASSUME NEW g \in Gateways,
             \/ \E R \in SUBSET Gateways : CreateCollective(g, R)
             \/ AcceptInvitation(g) \/ AcceptInvitationDies(g)
      PROVE  FirstInv'
  <2>1. Add(g) /\ updates' = updates
    BY <1>6 DEF CreateCollective, AcceptInvitation, AcceptInvitationDies
  <2>2. keys' # 0 /\ keys' \in Nat
    BY <1>1, <1>6 DEF CreateCollective, AcceptInvitation, AcceptInvitationDies, Founded
  <2> QED
    BY <1>5, <2>1, <2>2
<1>7. ASSUME UNCHANGED <<key, active, keys>>, updates' \subseteq updates,
             keys # 0 \/ UNCHANGED <<invited, log>>
      PROVE  FirstInv'
  BY <1>1, <1>7 DEF FirstInv, Founded, FirstKeyFits, FitsFirst
<1>8. ASSUME NEW g \in Gateways, NEW x, NEW t, NEW R, Propose(g, x, t, R)
      PROVE  FirstInv'
  BY <1>1, <1>7, <1>8 DEF Propose, Founded
<1>9. ASSUME NEW g \in Gateways, NEW p \in log[g], NEW R, Approve(g, p, R)
      PROVE  FirstInv'
  BY <1>1, <1>7, <1>9 DEF Approve, Founded
<1>10. ASSUME NEW g \in Gateways, NEW h, NEW u, NEW c,
              \/ PullRoute(g, h) \/ RejectUpdate(g, u) \/ HoldCopy(g, c) \/ DropCopy(g, c)
       PROVE  FirstInv'
  BY <1>7, <1>10 DEF PullRoute, RejectUpdate, HoldCopy, DropCopy
<1>11. ASSUME NEW g \in Gateways, NEW c, AdmitCopy(g, c) \/ RejectInvitation(g)
       PROVE  FirstInv'
  BY <1>1, <1>7, <1>11 DEF AdmitCopy, RejectInvitation, Opens, Founded
<1>12. CASE UNCHANGED vars
  BY <1>7, <1>12 DEF vars
<1> QED
  BY <1>3, <1>4, <1>6, <1>8, <1>9, <1>10, <1>11, <1>12 DEF Next
-----------------------------------------------------------------------------
\* Type correctness of joining and governed removal.
THEOREM TypeCorrect == Spec => []TypeOK
<1>1. TypeInv => TypeOK
  BY DEF TypeInv
<1> QED
  BY <1>1, InitInv, NextInv, FirstStep, PTL DEF Spec

\* Gateways with the same epoch key hold the same members, however invitations,
\* executions, crashes and rejected updates interleave.
THEOREM SameKeySameMembers == Spec => []KeyFixesMembership
<1>1. KeyInv => KeyFixesMembership
  BY DEF KeyInv
<1> QED
  BY <1>1, InitInv, NextInv, FirstStep, PTL DEF Spec

\* What a step may do to the members and the key a gateway holds.
KeyStep(g) ==
  \/ key'[g] = key[g] /\ active'[g] = active[g]
  \/ Fits(g) /\ key'[g] = FirstKey /\ active'[g] = Gateways
  \/ keys = 0 /\ key'[g] = FirstKey /\ active'[g] = Gateways
  \/ /\ key'[g] = NewKey(g)
     /\ \E x \in Targets : active'[g] = active[g] \ {x} /\ (x = g => g \in gone')
  \/ \E u \in ubatch[g] : /\ Acceptable(g, u) /\ key'[g] = u.new
                          /\ active'[g] = active[g] \ {u.removed}

\* A key changes by joining, by executing a removal, or by installing one.
LEMMA KeyChanges == ASSUME TypeInv, [Next]_vars, NEW g \in Gateways PROVE KeyStep(g)
<1>0. TypeOK
  BY DEF TypeInv
<1>1. ASSUME NEW h \in Gateways, NEW x, NEW k, Rekey(h, x, k)
      PROVE  IF g = h THEN key'[g] = k /\ active'[g] = active[g] \ {x}
             ELSE key'[g] = key[g] /\ active'[g] = active[g]
  BY <1>0, <1>1 DEF Rekey, TypeOK
<1>2. ASSUME NEW h \in Gateways, Add(h)
      PROVE  IF g = h THEN key'[g] = FirstKey /\ active'[g] = Gateways
             ELSE key'[g] = key[g] /\ active'[g] = active[g]
  BY <1>0, <1>2 DEF Add, TypeOK
<1>3. ASSUME NEW h \in Gateways, NEW p \in log[h], ExecuteStep(h, p)
      PROVE  KeyStep(g)
  <2>1. event[p].target \in Targets
    BY <1>0, <1>3 DEF TypeOK, GovernanceContent
  <2>2. \/ key' = key /\ active' = active
        \/ /\ Rekey(h, event[p].target, NewKey(h))
           /\ gone' = gone \cup ({h} \cap {event[p].target})
    BY <1>3 DEF ExecuteStep, Execute, ExecuteStale, ExecuteDiesSealing, ExecuteDiesRekeyed
  <2> QED
    BY <1>1, <2>1, <2>2 DEF KeyStep
<1>4. ASSUME NEW h \in Gateways, NEW u \in ubatch[h], InstallUpdate(h, u) \/ InstallDiesUnmarked(h, u)
      PROVE  KeyStep(g)
  <2>1. Acceptable(h, u) /\ Rekey(h, u.removed, u.new)
    BY <1>4 DEF InstallUpdate, InstallDiesUnmarked
  <2> QED
    BY <1>1, <1>4, <2>1 DEF KeyStep
<1>5. ASSUME NEW h \in Gateways, AcceptInvitation(h) \/ AcceptInvitationDies(h)
      PROVE  KeyStep(g)
  BY <1>2, <1>5 DEF AcceptInvitation, AcceptInvitationDies, KeyStep
<1>6. ASSUME NEW h \in Gateways, NEW R, CreateCollective(h, R)
      PROVE  KeyStep(g)
  BY <1>2, <1>6 DEF CreateCollective, KeyStep
<1>7. ASSUME NEW h \in Gateways, NEW x, NEW t, NEW R, Propose(h, x, t, R)
      PROVE  KeyStep(g)
  BY <1>7 DEF Propose, KeyStep
<1>8. ASSUME NEW h \in Gateways, NEW p, NEW R, Approve(h, p, R)
      PROVE  KeyStep(g)
  BY <1>8 DEF Approve, KeyStep
<1>9. ASSUME NEW h \in Gateways, RejectInvitation(h)
      PROVE  KeyStep(g)
  BY <1>9 DEF RejectInvitation, KeyStep
<1>10. ASSUME NEW h \in Gateways, NEW k, NEW u, NEW c,
             \/ PullRoute(h, k) \/ RejectUpdate(h, u)
             \/ AdmitCopy(h, c) \/ HoldCopy(h, c) \/ DropCopy(h, c)
      PROVE  KeyStep(g)
  BY <1>10 DEF PullRoute, RejectUpdate, AdmitCopy, HoldCopy, DropCopy, KeyStep
<1>11. CASE UNCHANGED vars
  BY <1>11 DEF vars, KeyStep
<1>12. CASE Next
  BY <1>3, <1>4, <1>5, <1>6, <1>7, <1>8, <1>9, <1>10, <1>12 DEF Next
<1> QED
  BY <1>11, <1>12

\* A gateway that has joined counts itself a member, unless it executed its own removal.
SelfActive == \A g \in Gateways : Joined(g) => g \in active[g] \cup gone

\* Who executed its own removal is never forgotten.
LEMMA GoneGrows == ASSUME [Next]_vars PROVE gone \subseteq gone'
<1>1. ASSUME NEW g, NEW p, ExecuteStep(g, p) PROVE gone \subseteq gone'
  BY <1>1 DEF ExecuteStep, Execute, ExecuteStale, ExecuteDiesSealing, ExecuteDiesRekeyed
<1>2. ASSUME NEW g, NEW R, NEW x, NEW t, NEW p,
             CreateCollective(g, R) \/ Propose(g, x, t, R) \/ Approve(g, p, R)
      PROVE  gone' = gone
  BY <1>2 DEF CreateCollective, Propose, Approve
<1>3. ASSUME NEW g, AcceptInvitation(g) \/ AcceptInvitationDies(g) \/ RejectInvitation(g)
      PROVE  gone' = gone
  BY <1>3 DEF AcceptInvitation, AcceptInvitationDies, RejectInvitation
<1>4. ASSUME NEW g, NEW h, NEW u, NEW c,
             \/ PullRoute(g, h)
             \/ InstallUpdate(g, u) \/ InstallDiesUnmarked(g, u) \/ RejectUpdate(g, u)
             \/ AdmitCopy(g, c) \/ HoldCopy(g, c) \/ DropCopy(g, c)
      PROVE  gone' = gone
  BY <1>4 DEF PullRoute, InstallUpdate, InstallDiesUnmarked, RejectUpdate, AdmitCopy, HoldCopy,
              DropCopy
<1>5. CASE UNCHANGED vars
  BY <1>5 DEF vars
<1>6. CASE Next
  BY <1>1, <1>2, <1>3, <1>4, <1>6 DEF Next
<1> QED
  BY <1>5, <1>6

\* Only by executing its own removal does a gateway come to hold itself removed: it
\* refuses an update that removes it, and nobody invites it to fewer than everybody.
LEMMA SelfActiveInv ==
  ASSUME TypeInv, SelfActive, [Next]_vars
  PROVE  SelfActive'
<1> SUFFICES ASSUME NEW g \in Gateways, active'[g] # {} PROVE g \in active'[g] \cup gone'
  BY DEF SelfActive, Joined
<1>1. active'[g] \subseteq active[g] => g \in active[g] \cup gone
  BY DEF SelfActive, Joined
<1>2. \A u : Acceptable(g, u) => g # u.removed
  BY DEF Acceptable
<1>3. KeyStep(g) /\ gone \subseteq gone'
  BY KeyChanges, GoneGrows
<1> QED
  BY <1>1, <1>2, <1>3 DEF KeyStep

\* A member shares its current key with a gateway it holds removed only if that one
\* executed its own removal: keys fix the members, so the removed one holds itself
\* removed, and no update, invitation or crash brings that about.
THEOREM RemovedCannotRead == Spec => []RemovedAreLockedOut
<1>1. Init => SelfActive
  BY DEF Init, SelfActive, Joined
<1>2. TypeInv /\ SelfActive /\ [Next]_vars => SelfActive'
  BY SelfActiveInv
<1>3. KeyInv /\ SelfActive => RemovedAreLockedOut
  BY DEF KeyInv, KeyFixesMembership, SelfActive, RemovedAreLockedOut, Joined
<1> QED
  BY <1>1, <1>2, <1>3, InitInv, NextInv, FirstStep, PTL DEF Spec

\* What RemovalsAreFinal asks of a step.
GoesOn(g) == Joined(g) => active'[g] \subseteq active[g] /\ key'[g].epoch >= key[g].epoch

\* Members and epochs only go on: an invitation is accepted by a gateway that has
\* nothing or exactly what it brings.
LEMMA GoesOnStep ==
  ASSUME TypeInv, FirstInv, [Next]_vars, NEW g \in Gateways
  PROVE  GoesOn(g)
<1>1. /\ TypeOK /\ Founded /\ FirstKeyFits
      /\ key[g].epoch \in Int /\ key[g] \in Keys
  BY BoundsAssumption DEF TypeInv, FirstInv, TypeOK, Keys
<1>2. CASE key'[g] = key[g] /\ active'[g] = active[g]
  BY <1>1, <1>2 DEF GoesOn
<1>3. CASE Fits(g) /\ key'[g] = FirstKey /\ active'[g] = Gateways
  <2>1. key[g].epoch <= key'[g].epoch /\ active[g] \subseteq Gateways
    BY <1>1, <1>3 DEF Fits, NoKey, FirstKey, TypeOK
  <2>2. CASE key[g] = FirstKey
    BY <1>1, <1>3, <2>1, <2>2 DEF FirstKeyFits, FitsFirst, GoesOn
  <2>3. CASE key[g] = NoKey
    <3>1. active[g] = {}
      BY <1>1, <2>3 DEF FirstKeyFits, FitsFirst
    <3> QED
      BY <3>1 DEF GoesOn, Joined
  <2> QED
    BY <1>3, <2>2, <2>3 DEF Fits
<1>4. CASE keys = 0
  BY <1>1, <1>4 DEF Founded, GoesOn, Joined
<1>5. CASE /\ key'[g] = NewKey(g)
           /\ \E x \in Targets : active'[g] = active[g] \ {x}
  BY <1>1, <1>5 DEF NewKey, GoesOn
<1>6. CASE \E u \in ubatch[g] : /\ Acceptable(g, u) /\ key'[g] = u.new
                                /\ active'[g] = active[g] \ {u.removed}
  BY <1>1, <1>6 DEF Acceptable, GoesOn
<1> QED
  BY <1>2, <1>3, <1>4, <1>5, <1>6, KeyChanges DEF KeyStep

\* A removed member never comes back at a gateway, and no epoch does.
THEOREM NobodyComesBack == Spec => RemovalsAreFinal
<1>1. TypeInv /\ FirstInv /\ [Next]_vars =>
        [\A g \in Gateways : Joined(g) =>
           /\ active'[g] \subseteq active[g]
           /\ key'[g].epoch >= key[g].epoch]_vars
  BY GoesOnStep DEF GoesOn
<1> QED
  BY <1>1, InitInv, NextInv, FirstStep, PTL DEF Spec, RemovalsAreFinal
-----------------------------------------------------------------------------
(* Every removal is backed by the log of whoever holds it.                 *)

\* An event is signed once its author's own store holds it.
Signed(e) == e \in log[Author(e)]

\* Only signed events are stored, travel or are worked through.
OnlySigned ==
  /\ \A g \in Gateways : \A e \in log[g] : Signed(e)
  /\ \A c \in copies : Signed(c[1])
  /\ \A g \in Gateways : \A c \in batch[g] : Signed(c[1])

\* Proposals and approvals are about a signed proposal.
AboutProposals ==
  \A e \in EventId : Signed(e) /\ event[e].kind # "removed" =>
    Signed(event[e].about) /\ event[event[e].about].kind = "proposed"

\* The members who back p in the log of g are at least as many as p asks for.
Backed(g, p) == Cardinality(Approvers(log[g], event, Gateways, p)) >= event[p].threshold

\* A governance row is of a proposal in the log, and authorized or executed only
\* with the backing in the same log: it stays so when members are removed since.
RowsBacked ==
  \A g \in Gateways, p \in EventId :
    /\ status[g][p] # "none" => p \in log[g] /\ event[p].kind = "proposed"
    /\ status[g][p] \in {"authorized", "executed"} => Backed(g, p)

BackInv == OnlySigned /\ AboutProposals /\ RowsBacked /\ RemovalsAreBacked

\* Logs only grow and signed events never change.
Grows ==
  /\ \A g \in Gateways : log[g] \subseteq log'[g]
  /\ \A e \in EventId : Signed(e) => Signed(e)' /\ event'[e] = event[e]

\* Before anything is posted there is nothing to back.
LEMMA BackInit == Init => BackInv
BY DEF Init, BackInv, OnlySigned, Signed, AboutProposals, RowsBacked, RemovalsAreBacked, Joined,
       EventId, Author

\* Approvers are gateways, the more the more members count and the more is logged.
LEMMA ApproversType ==
  ASSUME NEW L \in SUBSET EventId, NEW ev, NEW A, NEW p \in EventId
  PROVE  /\ Approvers(L, ev, A, p) \subseteq Gateways
         /\ IsFiniteSet(Approvers(L, ev, A, p))
         /\ Cardinality(Approvers(L, ev, A, p)) \in Nat
<1>1. Approvers(L, ev, A, p) \subseteq Gateways
  BY DEF Approvers, EventId, Author
<1> QED
  BY <1>1, MembersAssumption, FS_Subset, FS_CardinalityType

\* More members and more events make no fewer approvers.
LEMMA ApproversMonotone ==
  ASSUME NEW L \in SUBSET EventId, NEW M \in SUBSET EventId, L \subseteq M,
         NEW ev, NEW fv, \A e \in L : fv[e] = ev[e],
         NEW A \in SUBSET Gateways, NEW p \in EventId
  PROVE  Cardinality(Approvers(L, ev, A, p)) <= Cardinality(Approvers(M, fv, Gateways, p))
<1>1. Approvers(L, ev, A, p) \subseteq Approvers(M, fv, Gateways, p)
  BY DEF Approvers
<1> QED
  BY <1>1, ApproversType, FS_Subset

\* So a proposal that is backed stays backed.
LEMMA BackingGrows ==
  ASSUME TypeOK, TypeOK', OnlySigned, Grows, NEW g \in Gateways, NEW p \in log[g], Backed(g, p)
  PROVE  p \in log'[g] /\ event'[p] = event[p] /\ Backed(g, p)'
<1>1. /\ log[g] \in SUBSET EventId /\ log'[g] \in SUBSET EventId /\ log[g] \subseteq log'[g]
      /\ p \in EventId
  BY DEF TypeOK, Grows
<1>2. \A e \in log[g] : event'[e] = event[e]
  BY <1>1 DEF OnlySigned, Grows
<1>3. event[p].threshold \in Nat
  BY <1>1, ThresholdsAssumption DEF TypeOK, GovernanceContent
<1>4. Cardinality(Approvers(log[g], event, Gateways, p))
        <= Cardinality(Approvers(log'[g], event', Gateways, p))
  BY <1>1, <1>2, ApproversMonotone
<1>5. /\ Cardinality(Approvers(log[g], event, Gateways, p)) \in Nat
      /\ Cardinality(Approvers(log'[g], event', Gateways, p)) \in Nat
  BY <1>1, ApproversType
<1> QED
  BY <1>1, <1>2, <1>3, <1>4, <1>5 DEF Backed

\* A step that removes nobody keeps the backing of removals.
LEMMA RemovalsKept ==
  ASSUME TypeOK, TypeOK', BackInv, Grows,
         \A g \in Gateways : active'[g] = active[g] \/ active'[g] = Gateways
  PROVE  RemovalsAreBacked'
<1> SUFFICES ASSUME NEW g \in Gateways, NEW x \in Gateways, Joined(g)', x \notin active'[g]
             PROVE  \E p \in log'[g] : event'[p].kind = "proposed" /\ event'[p].target = x
                                       /\ Backed(g, p)'
  BY DEF RemovalsAreBacked, Backed
<1>1. Joined(g) /\ x \notin active[g]
  BY DEF Joined
<1>2. PICK p \in log[g] : event[p].kind = "proposed" /\ event[p].target = x /\ Backed(g, p)
  BY <1>1 DEF BackInv, RemovalsAreBacked, Backed
<1> QED
  BY <1>2, BackingGrows DEF BackInv

\* One that removes the target of an authorized proposal adds a backed removal.
LEMMA RemovalAdded ==
  ASSUME TypeOK, TypeOK', BackInv, Grows, NEW g \in Gateways, NEW p \in EventId, NEW k,
         status[g][p] = "authorized", Rekey(g, event[p].target, k)
  PROVE  RemovalsAreBacked'
<1> SUFFICES ASSUME NEW h \in Gateways, NEW x \in Gateways, Joined(h)', x \notin active'[h]
             PROVE  \E q \in log'[h] : event'[q].kind = "proposed" /\ event'[q].target = x
                                       /\ Backed(h, q)'
  BY DEF RemovalsAreBacked, Backed
<1>1. active'[h] = IF h = g THEN active[g] \ {event[p].target} ELSE active[h]
  BY DEF Rekey, TypeOK
<1>2. Joined(h)
  BY <1>1 DEF Joined
<1>3. CASE x \notin active[h]
  <2>1. PICK q \in log[h] : event[q].kind = "proposed" /\ event[q].target = x /\ Backed(h, q)
    BY <1>2, <1>3 DEF BackInv, RemovalsAreBacked, Backed
  <2> QED
    BY <2>1, BackingGrows DEF BackInv
<1>4. CASE x \in active[h]
  <2>1. h = g /\ x = event[p].target
    BY <1>1, <1>4
  <2>2. p \in log[g] /\ event[p].kind = "proposed" /\ Backed(g, p)
    BY DEF BackInv, RowsBacked
  <2> QED
    BY <2>1, <2>2, BackingGrows DEF BackInv
<1> QED
  BY <1>3, <1>4

\* Rows that were backed stay so; a row may also become executed once authorized.
LEMMA RowsKept ==
  ASSUME TypeOK, TypeOK', BackInv, Grows,
         \/ status' = status
         \/ \E g \in Gateways, p \in EventId :
              /\ status[g][p] = "authorized"
              /\ status' = [status EXCEPT ![g][p] = "executed"]
  PROVE  RowsBacked'
<1> SUFFICES ASSUME NEW g \in Gateways, NEW p \in EventId, status'[g][p] # "none"
             PROVE  /\ p \in log'[g] /\ event'[p].kind = "proposed"
                    /\ status'[g][p] \in {"authorized", "executed"} => Backed(g, p)'
  BY DEF RowsBacked
<1>1. /\ status[g][p] # "none"
      /\ status'[g][p] \in {"authorized", "executed"} =>
           status[g][p] \in {"authorized", "executed"}
  <2>1. CASE status' = status
    BY <2>1
  <2>2. ASSUME NEW h \in Gateways, NEW q \in EventId, status[h][q] = "authorized",
               status' = [status EXCEPT ![h][q] = "executed"]
        PROVE  status'[g][p] = IF g = h /\ p = q THEN "executed" ELSE status[g][p]
    <3>1. status \in [Gateways -> [EventId -> {"none", "open", "authorized", "executed"}]]
      BY DEF TypeOK
    <3>2. status'[g] = IF g = h THEN [status[g] EXCEPT ![q] = "executed"] ELSE status[g]
      BY <2>2, <3>1
    <3> QED
      BY <3>1, <3>2
  <2> QED
    BY <2>1, <2>2
<1>2. /\ p \in log[g] /\ event[p].kind = "proposed"
      /\ status[g][p] \in {"authorized", "executed"} => Backed(g, p)
  BY <1>1 DEF BackInv, RowsBacked
<1>3. p \in log'[g] /\ event'[p] = event[p]
  BY <1>2 DEF Grows, BackInv, OnlySigned
<1> QED
  BY <1>1, <1>2, <1>3, BackingGrows DEF BackInv

\* A row counted afresh when an event about its proposal is stored.
LEMMA RowsAppended ==
  ASSUME TypeOK, TypeOK', BackInv, Grows, AboutProposals',
         NEW g \in Gateways, NEW e \in EventId, Signed(e)', Append(g, e, event'),
         NEW b, b = event'[e].about
  PROVE  RowsBacked'
<1> DEFINE r == Rebuilt(status[g][b], log[g] \cup {e}, event', active[g], b)
<1>1. CASE event'[e].kind = "removed"
  BY <1>1, RowsKept DEF Append
<1>2. CASE event'[e].kind # "removed"
  <2>1. b \in EventId /\ event'[b].kind = "proposed"
    BY <1>2 DEF TypeOK, GovernanceContent, AboutProposals, Signed
  <2>2. log'[g] = log[g] \cup {e}
    BY DEF Append, TypeOK
  <2>3. status' = [status EXCEPT ![g][b] = r]
    BY <1>2 DEF Append
  <2> HIDE DEF r
  <2>4. status \in [Gateways -> [EventId -> {"none", "open", "authorized", "executed"}]]
    BY DEF TypeOK
  <2>5. \A h \in Gateways, p \in EventId :
          status'[h][p] = IF h = g /\ p = b THEN r ELSE status[h][p]
    <3> TAKE h \in Gateways, p \in EventId
    <3>1. status'[h] = IF h = g THEN [status[h] EXCEPT ![b] = r] ELSE status[h]
      BY <2>3, <2>4
    <3> QED
      BY <2>4, <3>1
  <2>6. ASSUME NEW h \in Gateways, NEW p \in EventId
        PROVE  /\ status[h][p] # "none" => p \in log'[h] /\ event'[p].kind = "proposed"
               /\ status[h][p] \in {"authorized", "executed"} => Backed(h, p)'
    <3>1. CASE status[h][p] = "none"
      BY <3>1
    <3>2. CASE status[h][p] # "none"
      <4>1. /\ p \in log[h] /\ event[p].kind = "proposed"
            /\ status[h][p] \in {"authorized", "executed"} => Backed(h, p)
        BY <3>2 DEF BackInv, RowsBacked
      <4>2. p \in log'[h] /\ event'[p] = event[p]
        BY <4>1 DEF Grows, BackInv, OnlySigned
      <4> QED
        BY <4>1, <4>2, BackingGrows DEF BackInv
    <3> QED
      BY <3>1, <3>2
  <2>7. /\ r # "none" => b \in log'[g] /\ event'[b].kind = "proposed"
        /\ r \in {"authorized", "executed"} => Backed(g, b)'
    <3>1. CASE r = status[g][b]
      BY <2>1, <2>6, <3>1
    <3>2. CASE r # status[g][b]
      <4>1. b \in log'[g]
        BY <2>2, <3>2 DEF r, Rebuilt
      <4>2. /\ r \in {"authorized", "open"}
            /\ r = "authorized" =>
                 Cardinality(Approvers(log'[g], event', active[g], b)) >= event'[b].threshold
        BY <2>2, <3>2 DEF r, Rebuilt
      <4>3. log'[g] \in SUBSET EventId /\ active[g] \in SUBSET Gateways
        BY DEF TypeOK
      <4>4. Cardinality(Approvers(log'[g], event', active[g], b))
              <= Cardinality(Approvers(log'[g], event', Gateways, b))
        BY <2>1, <4>3, ApproversMonotone
      <4>5. /\ Cardinality(Approvers(log'[g], event', active[g], b)) \in Nat
            /\ Cardinality(Approvers(log'[g], event', Gateways, b)) \in Nat
            /\ event'[b].threshold \in Nat
        BY <2>1, <4>3, ApproversType, ThresholdsAssumption DEF TypeOK, GovernanceContent
      <4> QED
        BY <2>1, <4>1, <4>2, <4>4, <4>5 DEF Backed
    <3> QED
      BY <3>1, <3>2
  <2> QED
    BY <2>5, <2>6, <2>7 DEF RowsBacked
<1> QED
  BY <1>1, <1>2

\* The event a gateway posts has a name no event was signed under.
LEMMA NewEventUnsigned ==
  ASSUME TypeInv, NEW g \in Gateways, CanPost(g)
  PROVE  NewEvent(g) \in EventId /\ Author(NewEvent(g)) = g /\ ~Signed(NewEvent(g))
<1>1. /\ NewEvent(g) \in EventId /\ Author(NewEvent(g)) = g
      /\ \E n \in 0..MaxSeq : SeqsBy(log[g], g) = 1..n /\ AuthorSeq(NewEvent(g)) = n + 1
  BY NewEventNext
<1>2. PICK n \in 0..MaxSeq : SeqsBy(log[g], g) = 1..n /\ AuthorSeq(NewEvent(g)) = n + 1
  BY <1>1
<1>3. log[g] \in SUBSET EventId /\ n \in Nat
  BY MaxSeqAssumption DEF TypeInv, TypeOK
<1>4. AuthorSeq(NewEvent(g)) \notin SeqsBy(log[g], g)
  BY <1>2, <1>3
<1> QED
  BY <1>1, <1>3, <1>4, SeqsByMember DEF Signed

\* Posting signs an event and sends copies of it; what it is about was signed.
LEMMA PostBacked ==
  ASSUME TypeInv, BackInv, NEW g \in Gateways, CanPost(g), NEW e, e = NewEvent(g),
         NEW c \in GovernanceContent, NEW R,
         event' = [event EXCEPT ![e] = c],
         log' = [log EXCEPT ![g] = @ \cup {e}],
         copies' = copies \cup CopiesFor(e, R), batch' = batch,
         \/ c.kind = "removed"
         \/ c.kind = "proposed" /\ c.about = e
         \/ Signed(c.about) /\ event[c.about].kind = "proposed"
  PROVE  Grows /\ OnlySigned' /\ AboutProposals' /\ Signed(e)'
<1>1. e \in EventId /\ Author(e) = g /\ ~Signed(e)
  BY NewEventUnsigned
<1>3. /\ event \in [EventId -> GovernanceContent] /\ log \in [Gateways -> SUBSET EventId]
      /\ copies \subseteq EventId \X Gateways
      /\ batch \in [Gateways -> SUBSET (EventId \X Gateways)]
  BY DEF TypeInv, TypeOK
<1>4. \A h \in Gateways : log'[h] = IF h = g THEN log[h] \cup {e} ELSE log[h]
  BY <1>3
<1>5. \A x \in EventId : Author(x) \in Gateways
  BY DEF EventId, Author
<1>6. \A x \in EventId : Signed(x)' <=> Signed(x) \/ x = e
  BY <1>1, <1>4, <1>5 DEF Signed
<1>7. \A x \in EventId : event'[x] = IF x = e THEN c ELSE event[x]
  BY <1>1, <1>3
<1>8. Grows
  BY <1>1, <1>4, <1>6, <1>7 DEF Grows
<1>9. OnlySigned'
  <2>1. \A h \in Gateways : \A x \in log'[h] : Signed(x)'
    BY <1>1, <1>3, <1>4, <1>6 DEF BackInv, OnlySigned
  <2>2. \A d \in copies' : Signed(d[1])'
    <3>1. \A d \in CopiesFor(e, R) : d[1] = e
      BY DEF CopiesFor
    <3>2. \A d \in copies' : d \in copies \/ d[1] = e
      BY <3>1
    <3>3. \A d \in copies : d[1] \in EventId /\ Signed(d[1])
      BY <1>3 DEF BackInv, OnlySigned
    <3> QED
      BY <1>1, <1>6, <3>2, <3>3
  <2>3. \A h \in Gateways : \A d \in batch'[h] : Signed(d[1])'
    <3>1. \A h \in Gateways : \A d \in batch[h] : d[1] \in EventId /\ Signed(d[1])
      BY <1>3 DEF BackInv, OnlySigned
    <3> QED
      BY <1>6, <3>1
  <2> QED
    BY <2>1, <2>2, <2>3 DEF OnlySigned
<1>10. AboutProposals'
  <2> SUFFICES ASSUME NEW x \in EventId, Signed(x)', event'[x].kind # "removed",
                      NEW b, b = event'[x].about
               PROVE  Signed(b)' /\ event'[b].kind = "proposed"
    BY DEF AboutProposals, Signed
  <2>1. CASE x = e
    <3>1. event'[x] = c /\ b = c.about /\ b \in EventId
      BY <1>7, <2>1 DEF GovernanceContent
    <3>2. CASE c.kind = "proposed" /\ c.about = e
      BY <1>1, <1>6, <1>7, <3>1, <3>2
    <3>3. CASE Signed(c.about) /\ event[c.about].kind = "proposed"
      BY <1>1, <1>6, <1>7, <3>1, <3>3
    <3> QED
      BY <2>1, <3>1, <3>2, <3>3
  <2>2. CASE x # e
    <3>1. Signed(x) /\ event'[x] = event[x] /\ b = event[x].about /\ b \in EventId
      BY <1>3, <1>6, <1>7, <2>2 DEF GovernanceContent
    <3>2. Signed(b) /\ event[b].kind = "proposed"
      BY <3>1 DEF BackInv, AboutProposals
    <3> QED
      BY <1>1, <1>6, <1>7, <3>1, <3>2
  <2> QED
    BY <2>1, <2>2
<1>11. Signed(e)'
  BY <1>1, <1>6
<1> QED
  BY <1>8, <1>9, <1>10, <1>11

\* A step that signs nothing: logs may grow by a signed event, copies only go.
LEMMA NothingNewSigned ==
  ASSUME TypeInv, TypeOK', BackInv, event' = event, copies' \subseteq copies,
         \A g \in Gateways : /\ log[g] \subseteq log'[g]
                             /\ \A e \in log'[g] : Signed(e)
                             /\ \A c \in batch'[g] : c \in batch[g] \/ c \in copies
  PROVE  Grows /\ OnlySigned' /\ AboutProposals'
<1>1. \A x \in EventId : Author(x) \in Gateways
  BY DEF EventId, Author
<1>2. \A x \in EventId : Signed(x)' <=> Signed(x)
  BY <1>1 DEF Signed
<1>3. /\ \A g \in Gateways : log'[g] \subseteq EventId
      /\ event \in [EventId -> GovernanceContent]
      /\ copies \subseteq EventId \X Gateways
      /\ \A g \in Gateways : batch'[g] \subseteq EventId \X Gateways
  BY DEF TypeInv, TypeOK
<1>4. Grows
  BY <1>2 DEF Grows
<1>5. OnlySigned'
  <2>1. \A g \in Gateways : \A e \in log'[g] : Signed(e)'
    BY <1>2, <1>3
  <2>2. \A c \in copies' : c[1] \in EventId /\ Signed(c[1])
    BY <1>3 DEF BackInv, OnlySigned
  <2>3. \A g \in Gateways : \A c \in batch'[g] : c[1] \in EventId /\ Signed(c[1])
    BY <1>3 DEF BackInv, OnlySigned
  <2> QED
    BY <1>2, <2>1, <2>2, <2>3 DEF OnlySigned
<1>6. AboutProposals'
  <2>1. \A x \in EventId : event[x].about \in EventId
    BY <1>3 DEF GovernanceContent
  <2> QED
    BY <1>2, <2>1 DEF BackInv, AboutProposals, Signed
<1> QED
  BY <1>4, <1>5, <1>6

\* Proposing and approving.
LEMMA PostBackInv ==
  ASSUME TypeInv, TypeInv', BackInv, NEW g \in Gateways,
         \/ \E x \in Targets, t \in Thresholds : \E R \in Recipients(g, x) : Propose(g, x, t, R)
         \/ \E p \in log[g] : \E R \in Recipients(g, event[p].target) : Approve(g, p, R)
  PROVE  BackInv'
<1>1. PICK e : e = NewEvent(g)
  OBVIOUS
<1>2. CanPost(g) /\ e \in EventId /\ TypeOK /\ TypeOK'
  BY <1>1, NewEventUnsigned DEF Propose, Approve, TypeInv
<1>3. \E c, R :
        /\ event' = [event EXCEPT ![e] = c] /\ Append(g, e, event')
        /\ copies' = copies \cup CopiesFor(e, R) /\ batch' = batch /\ active' = active
        /\ \/ c.kind = "proposed" /\ c.about = e
           \/ Signed(c.about) /\ event[c.about].kind = "proposed"
  <2>1. ASSUME NEW x \in Targets, NEW t \in Thresholds, NEW R \in Recipients(g, x),
               Propose(g, x, t, R)
        PROVE  \E c :
                 /\ event' = [event EXCEPT ![e] = c] /\ Append(g, e, event')
                 /\ copies' = copies \cup CopiesFor(e, R) /\ batch' = batch /\ active' = active
                 /\ c.kind = "proposed" /\ c.about = e
    <3> DEFINE c == SignedContent(g, "proposed", e, x, t, key[g])
    <3>1. c.kind = "proposed" /\ c.about = e
      BY DEF SignedContent
    <3> HIDE DEF c
    <3>2. event' = [event EXCEPT ![e] = c] /\ Append(g, e, event')
      BY <1>1, <2>1 DEF Propose, c
    <3>3. copies' = copies \cup CopiesFor(e, R) /\ batch' = batch /\ active' = active
      BY <1>1, <2>1 DEF Propose
    <3> QED
      BY <3>1, <3>2, <3>3
  <2>2. ASSUME NEW p \in log[g], NEW R \in Recipients(g, event[p].target), Approve(g, p, R)
        PROVE  \E c :
                 /\ event' = [event EXCEPT ![e] = c] /\ Append(g, e, event')
                 /\ copies' = copies \cup CopiesFor(e, R) /\ batch' = batch /\ active' = active
                 /\ Signed(c.about) /\ event[c.about].kind = "proposed"
    <3> DEFINE c == SignedContent(g, "approved", p, event[p].target, event[p].threshold, key[g])
    <3>1. c.about = p
      BY DEF SignedContent
    <3> HIDE DEF c
    <3>2. event' = [event EXCEPT ![e] = c] /\ Append(g, e, event')
      BY <1>1, <2>2 DEF Approve, c
    <3>3. copies' = copies \cup CopiesFor(e, R) /\ batch' = batch /\ active' = active
      BY <1>1, <2>2 DEF Approve
    <3>4. Signed(p) /\ event[p].kind = "proposed"
      BY <1>2, <2>2 DEF Approve, BackInv, OnlySigned, RowsBacked, TypeOK
    <3> QED
      BY <3>1, <3>2, <3>3, <3>4
  <2> QED
    BY <2>1, <2>2
<1>4. PICK c, R :
        /\ event' = [event EXCEPT ![e] = c] /\ Append(g, e, event')
        /\ copies' = copies \cup CopiesFor(e, R) /\ batch' = batch /\ active' = active
        /\ \/ c.kind = "proposed" /\ c.about = e
           \/ Signed(c.about) /\ event[c.about].kind = "proposed"
  BY <1>3
<1>5. log' = [log EXCEPT ![g] = @ \cup {e}] /\ c \in GovernanceContent
  <2>1. c = event'[e]
    BY <1>2, <1>4 DEF TypeOK
  <2> QED
    BY <1>2, <1>4, <2>1 DEF TypeOK, Append
<1>6. Grows /\ OnlySigned' /\ AboutProposals' /\ Signed(e)'
  BY <1>1, <1>2, <1>4, <1>5, PostBacked
<1>7. PICK b : b = event'[e].about
  OBVIOUS
<1>8. RowsBacked'
  BY <1>2, <1>4, <1>6, <1>7, RowsAppended
<1>9. RemovalsAreBacked'
  BY <1>2, <1>4, <1>6, RemovalsKept
<1> QED
  BY <1>6, <1>8, <1>9 DEF BackInv

\* Executing, whole or cut short: the row is authorized, so the removal is backed.
LEMMA ExecuteBackInv ==
  ASSUME TypeInv, TypeInv', BackInv, NEW g \in Gateways, NEW p \in log[g], ExecuteStep(g, p)
  PROVE  BackInv'
<1>1. /\ TypeOK /\ TypeOK' /\ p \in EventId /\ status[g][p] = "authorized"
      /\ UNCHANGED <<batch>>
  BY DEF TypeInv, TypeOK, ExecuteStep, Execute, ExecuteStale, ExecuteDiesSealing,
         ExecuteDiesRekeyed, MayExecute
<1>2. Grows /\ OnlySigned' /\ AboutProposals'
  <2>1. CASE Execute(g, p)
    <3>1. PICK e : e = NewEvent(g)
      OBVIOUS
    <3>2. PICK c : c = SignedContent(g, "removed", p, event[p].target, event[p].threshold, NewKey(g))
      OBVIOUS
    <3>3. /\ CanPost(g) /\ event' = [event EXCEPT ![e] = c]
          /\ log' = [log EXCEPT ![g] = @ \cup {e}]
          /\ \E R : copies' = copies \cup CopiesFor(e, R)
      BY <2>1, <3>1, <3>2 DEF Execute
    <3>4. e \in EventId
      BY <3>1, <3>3, NewEventUnsigned
    <3>5. c = event'[e]
      BY <1>1, <3>3, <3>4 DEF TypeOK
    <3>6. c \in GovernanceContent
      BY <1>1, <3>4, <3>5 DEF TypeOK
    <3>7. c.kind = "removed"
      BY <3>2 DEF SignedContent
    <3> QED
      BY <1>1, <3>1, <3>3, <3>6, <3>7, PostBacked
  <2>2. CASE ~Execute(g, p)
    <3>1. UNCHANGED <<log, event, copies>>
      BY <2>2 DEF ExecuteStep, ExecuteStale, ExecuteDiesSealing, ExecuteDiesRekeyed
    <3>2. \A h \in Gateways : \A e \in log[h] : Signed(e)
      BY DEF BackInv, OnlySigned
    <3> QED
      BY <1>1, <3>1, <3>2, NothingNewSigned
  <2> QED
    BY <2>1, <2>2
<1>3. RowsBacked'
  <2>1. status' = status \/ status' = [status EXCEPT ![g][p] = "executed"]
    BY DEF ExecuteStep, Execute, ExecuteStale, ExecuteDiesSealing, ExecuteDiesRekeyed
  <2> QED
    BY <1>1, <1>2, <2>1, RowsKept
<1>4. RemovalsAreBacked'
  <2>1. active' = active \/ \E k : Rekey(g, event[p].target, k)
    BY DEF ExecuteStep, Execute, ExecuteStale, ExecuteDiesSealing, ExecuteDiesRekeyed
  <2> QED
    BY <1>1, <1>2, <2>1, RemovalsKept, RemovalAdded
<1> QED
  BY <1>2, <1>3, <1>4 DEF BackInv

\* Installing an update asks for the same authorization, in the installer's log.
LEMMA UpdateBackInv ==
  ASSUME TypeInv, TypeInv', BackInv, NEW g \in Gateways, NEW u \in ubatch[g],
         InstallUpdate(g, u) \/ InstallDiesUnmarked(g, u) \/ RejectUpdate(g, u)
  PROVE  BackInv'
<1>1. /\ TypeOK /\ TypeOK' /\ u.proposal \in EventId
      /\ UNCHANGED <<log, event, copies>>
      /\ \A h \in Gateways : batch'[h] \subseteq batch[h]
  <2>1. TypeOK /\ TypeOK'
    BY DEF TypeInv
  <2>2. u \in Update /\ batch \in [Gateways -> SUBSET (EventId \X Gateways)]
    BY <2>1 DEF TypeOK
  <2>3. u.proposal \in EventId
    BY <2>2 DEF Update
  <2>4. UNCHANGED <<log, event, copies>>
    BY DEF InstallUpdate, InstallDiesUnmarked, RejectUpdate
  <2>5. batch' = batch \/ batch' = [batch EXCEPT ![g] = {}]
    BY DEF InstallUpdate, InstallDiesUnmarked, RejectUpdate
  <2>6. \A h \in Gateways : batch'[h] \subseteq batch[h]
    BY <2>2, <2>5
  <2> QED
    BY <2>1, <2>3, <2>4, <2>6
<1>2. Grows /\ OnlySigned' /\ AboutProposals'
  <2>1. \A h \in Gateways : \A e \in log[h] : Signed(e)
    BY DEF BackInv, OnlySigned
  <2> QED
    BY <1>1, <2>1, NothingNewSigned
<1>3. CASE RejectUpdate(g, u)
  <2>1. active' = active /\ status' = status
    BY <1>3 DEF RejectUpdate
  <2> QED
    BY <1>1, <1>2, <2>1, RowsKept, RemovalsKept DEF BackInv
<1>4. CASE InstallUpdate(g, u) \/ InstallDiesUnmarked(g, u)
  <2>1. /\ status[g][u.proposal] = "authorized"
        /\ Rekey(g, event[u.proposal].target, u.new)
        /\ status' = status \/ status' = [status EXCEPT ![g][u.proposal] = "executed"]
    BY <1>4 DEF InstallUpdate, InstallDiesUnmarked, Acceptable
  <2> QED
    BY <1>1, <1>2, <2>1, RowsKept, RemovalAdded DEF BackInv
<1> QED
  BY <1>3, <1>4

\* What is admitted from a route was signed by its author.
LEMMA AdmitBackInv ==
  ASSUME TypeInv, TypeInv', BackInv, NEW g \in Gateways, NEW c \in batch[g],
         AdmitCopy(g, c) \/ HoldCopy(g, c) \/ DropCopy(g, c)
  PROVE  BackInv'
<1>a. /\ event' = event /\ active' = active /\ copies' \subseteq copies
      /\ batch' = [batch EXCEPT ![g] = @ \ {c}]
  BY DEF AdmitCopy, HoldCopy, DropCopy
<1>b. TypeOK /\ TypeOK' /\ c[1] \in EventId /\ Signed(c[1])
  BY DEF TypeInv, TypeOK, BackInv, OnlySigned
<1>1. /\ TypeOK /\ TypeOK' /\ c[1] \in EventId /\ Signed(c[1])
      /\ event' = event /\ active' = active /\ copies' \subseteq copies
      /\ \A h \in Gateways : batch'[h] \subseteq batch[h]
  BY <1>a, <1>b DEF TypeOK
<1>2. \A h \in Gateways : /\ log[h] \subseteq log'[h]
                          /\ \A e \in log'[h] : Signed(e)
  <2>1. log' = log \/ log' = [log EXCEPT ![g] = @ \cup {c[1]}]
    BY DEF AdmitCopy, HoldCopy, DropCopy, Append
  <2>2. log \in [Gateways -> SUBSET EventId]
    BY <1>b DEF TypeOK
  <2>3. \A h \in Gateways : log[h] \subseteq log'[h] /\ log'[h] \subseteq log[h] \cup {c[1]}
    BY <2>1, <2>2
  <2>4. \A h \in Gateways : \A e \in log[h] : Signed(e)
    BY DEF BackInv, OnlySigned
  <2> QED
    BY <1>b, <2>3, <2>4
<1>3. Grows /\ OnlySigned' /\ AboutProposals'
  BY <1>1, <1>2, NothingNewSigned
<1>4. RowsBacked'
  <2>1. CASE AdmitCopy(g, c)
    <3>1. PICK e, b : e = c[1] /\ b = event'[c[1]].about
      OBVIOUS
    <3>2. Signed(e)' /\ e \in EventId
      BY <1>1, <1>3, <3>1 DEF Grows
    <3>3. Append(g, e, event')
      BY <1>1, <2>1, <3>1 DEF AdmitCopy
    <3> QED
      BY <1>1, <1>3, <3>1, <3>2, <3>3, RowsAppended
  <2>2. CASE ~AdmitCopy(g, c)
    <3>1. status' = status
      BY <2>2 DEF HoldCopy, DropCopy
    <3> QED
      BY <1>1, <1>3, <3>1, RowsKept
  <2> QED
    BY <2>1, <2>2
<1>5. RemovalsAreBacked'
  BY <1>1, <1>3, RemovalsKept
<1> QED
  BY <1>3, <1>4, <1>5 DEF BackInv

\* Joining, and pulling a route: no event is signed and no member removed.
LEMMA QuietBackInv ==
  ASSUME TypeInv, TypeInv', BackInv,
         UNCHANGED <<log, event, status, copies>>,
         \A g \in Gateways : \A c \in batch'[g] : c \in batch[g] \/ c \in copies,
         \A g \in Gateways : active'[g] = active[g] \/ active'[g] = Gateways
  PROVE  BackInv'
<1>1. TypeOK /\ TypeOK' /\ \A h \in Gateways : \A e \in log[h] : Signed(e)
  BY DEF TypeInv, BackInv, OnlySigned
<1>2. Grows /\ OnlySigned' /\ AboutProposals'
  BY <1>1, NothingNewSigned
<1> QED
  BY <1>1, <1>2, RowsKept, RemovalsKept DEF BackInv

\* Every step keeps removals backed by approvals.
LEMMA BackStep == TypeInv /\ TypeInv' /\ BackInv /\ [Next]_vars => BackInv'
<1> SUFFICES ASSUME TypeInv, TypeInv', BackInv, [Next]_vars PROVE BackInv'
  OBVIOUS
<1>1. TypeOK
  BY DEF TypeInv
<1>2. ASSUME NEW g \in Gateways,
             \/ \E R \in SUBSET Gateways : CreateCollective(g, R)
             \/ AcceptInvitation(g) \/ AcceptInvitationDies(g) \/ RejectInvitation(g)
      PROVE  BackInv'
  <2>1. /\ UNCHANGED <<log, event, status, copies, batch>>
        /\ Add(g) \/ active' = active
    BY <1>2 DEF CreateCollective, AcceptInvitation, AcceptInvitationDies, RejectInvitation
  <2>2. \A h \in Gateways : active'[h] = active[h] \/ active'[h] = Gateways
    BY <1>1, <2>1 DEF Add, TypeOK
  <2> QED
    BY <2>1, <2>2, QuietBackInv
<1>3. ASSUME NEW g \in Gateways, NEW h \in Gateways, PullRoute(g, h)
      PROVE  BackInv'
  <2>1. /\ UNCHANGED <<log, event, status, copies, active>>
        /\ \A k \in Gateways : \A c \in batch'[k] : c \in batch[k] \/ c \in copies
    BY <1>1, <1>3 DEF PullRoute, TypeOK
  <2> QED
    BY <2>1, QuietBackInv
<1>4. CASE UNCHANGED vars
  BY <1>4, QuietBackInv DEF vars
<1> QED
  BY <1>2, <1>3, <1>4, PostBackInv, ExecuteBackInv, UpdateBackInv, AdmitBackInv DEF Next

\* Whoever a member holds removed was the target of a proposal that, in that
\* member's own log, as many distinct gateways back as it asks for: whatever is
\* reordered, lost or cut short, no key update alone removes anybody.
THEOREM RemovalsBacked == Spec => []RemovalsAreBacked
<1>1. BackInv => RemovalsAreBacked
  BY DEF BackInv
<1>2. TypeInv /\ KeyInv /\ FirstInv /\ BackInv /\ [Next]_vars =>
        TypeInv' /\ KeyInv' /\ FirstInv' /\ BackInv'
  BY NextInv, FirstStep, BackStep
<1> QED
  BY <1>1, <1>2, InitInv, BackInit, PTL DEF Spec
=============================================================================
