--------------------------- MODULE ExchangeProofs ---------------------------
(***************************************************************************)
(* The delivery pipeline, for any gateways, links, limits and faults: it   *)
(* loses no copy (NothingLost), its inbox never runs ahead of the log      *)
(* (InboxFollowsLog), nothing honest is rejected (HonestCopiesPass), and   *)
(* every step of it is a step of EventLog or none (Refinement), so that    *)
(* the theorems about logs are true of the ones it builds                  *)
(* (PipelineKeepsLogs).                                                    *)
(***************************************************************************)
EXTENDS Exchange, EventOpsProofs, FiniteSetTheorems

\* The answers of _accept_group_event.
Verdicts == {"duplicate", "gap", "conflict", "accept", "missing"}

\* It gives no other answer.
LEMMA VerdictType == \A L, ev, e : Verdict(L, ev, e) \in Verdicts
BY DEF Verdict, Verdicts

\* A process fans out an event exactly while it is inside a post call.
PhasesFit ==
  \A g \in Gateways :
    /\ at[g] = "post" <=> posting[g] # 0
    /\ at[g] # "post" => todo[g] = {}
    /\ g \notin todo[g]

\* Every log holds a prefix of each author's events (AuthorPrefix of EventLog).
Prefixes ==
  \A g, a \in Gateways : \E n \in 0..MaxSeq : SeqsBy(log[g], a) = 1..n

\* What the relay holds was queued by its author.
RelayHoldsQueued == \A c \in Copies : mailbox[c] # "absent" => outbox[c] # "none"

\* A pulled batch is of the puller's own envelopes, still at the relay.
BatchAtRelay ==
  \A g \in Gateways : \A c \in batch[g] : c[2] = g /\ mailbox[c] # "absent"

\* What a sync is about to acknowledge is at the relay and in the log.
AcksAreLogged ==
  \A g \in Gateways : \A c \in acks[g] :
    c[2] = g /\ mailbox[c] # "absent" /\ c[1] \in log[g]

Typed == TypeOK /\ IsFiniteSet(expired)
PipeInv ==
  /\ Typed /\ PhasesFit /\ Prefixes
  /\ RelayHoldsQueued /\ BatchAtRelay /\ AcksAreLogged
  /\ NoCopyLost /\ AcceptedIsLogged /\ NothingRejected
-----------------------------------------------------------------------------
\* Names in Copies.
LEMMA CopyType ==
  ASSUME NEW c \in Copies
  PROVE  c[1] \in EventId /\ c[2] \in Gateways /\ Author(c[1]) \in Gateways /\ c = <<c[1], c[2]>>
BY DEF Copies, EventId, Author

\* At the start nothing is posted, queued or pulled.
LEMMA PipeInit == Init => PipeInv
<1> SUFFICES ASSUME Init PROVE PipeInv
  OBVIOUS
<1>1. EL!Unposted \in Content
  BY SpacesAssumption DEF EL!Unposted, Content
<1>2. IsFiniteSet(expired) /\ Cardinality(expired) = 0
  BY FS_EmptySet DEF Init
<1>3. TypeOK
  BY <1>1, <1>2, MaxSeqAssumption, BoundsAssumption, MaxExpiriesAssumption DEF Init, TypeOK
<1>4. Prefixes
  <2>1. \A g, a \in Gateways : SeqsBy(log[g], a) = {}
    BY DEF Init, SeqsBy
  <2>2. 1..0 = {} /\ 0 \in 0..MaxSeq
    BY MaxSeqAssumption
  <2> QED
    BY <2>1, <2>2 DEF Prefixes
<1>5. PhasesFit /\ RelayHoldsQueued /\ BatchAtRelay /\ AcksAreLogged
  BY DEF Init, PhasesFit, RelayHoldsQueued, BatchAtRelay, AcksAreLogged
<1>6. NoCopyLost /\ AcceptedIsLogged /\ NothingRejected
  BY DEF Init, NoCopyLost, AcceptedIsLogged, NothingRejected, Queued
<1> QED
  BY <1>2, <1>3, <1>4, <1>5, <1>6 DEF PipeInv, Typed
-----------------------------------------------------------------------------
(* The parts of the invariant, by what a step changes.                     *)

\* A log that gains the next event of an author stays a set of prefixes.
LEMMA PrefixesGrow ==
  ASSUME Typed, Prefixes, NEW g \in Gateways, NEW e \in EventId,
         AuthorSeq(e) = NextSeq(log[g], Author(e)),
         log' = [log EXCEPT ![g] = @ \cup {e}]
  PROVE  Prefixes'
<1>1. log[g] \in SUBSET EventId /\ Author(e) \in Gateways
  BY DEF Typed, TypeOK, EventId, Author
<1>2. PICK n \in 0..MaxSeq : SeqsBy(log[g], Author(e)) = 1..n
  BY <1>1 DEF Prefixes
<1>3. n \in Nat /\ AuthorSeq(e) = n + 1
  BY <1>2, NextSeqOfPrefix, MaxSeqAssumption
<1>4. \A h \in Gateways : log'[h] = IF h = g THEN log[g] \cup {e} ELSE log[h]
  BY DEF Typed, TypeOK
<1>5. ASSUME NEW h \in Gateways, NEW a \in Gateways
      PROVE  \E k \in 0..MaxSeq : SeqsBy(log'[h], a) = 1..k
  <2>1. \E k \in 0..MaxSeq : SeqsBy(log[h], a) = 1..k
    BY DEF Prefixes
  <2>2. CASE h = g
    <3>1. \E k \in 0..MaxSeq : SeqsBy(log[g] \cup {e}, a) = 1..k
      BY <1>1, <1>2, <1>3, <2>1, <2>2, PrefixExtends
    <3> QED
      BY <1>4, <2>2, <3>1
  <2>3. CASE h # g
    BY <1>4, <2>1, <2>3
  <2> QED
    BY <2>2, <2>3
<1> QED
  BY <1>5 DEF Prefixes

\* In a set of prefixes a copy is early, next or known, never in conflict.
LEMMA NoConflict ==
  ASSUME Typed, Prefixes, NEW g \in Gateways, NEW e \in EventId
  PROVE  Verdict(log[g], event, e) # "conflict"
<1>1. log[g] \in SUBSET EventId /\ Author(e) \in Gateways /\ AuthorSeq(e) \in Nat \ {0}
  BY MaxSeqAssumption DEF Typed, TypeOK, EventId, Author, AuthorSeq
<1>2. PICK n \in 0..MaxSeq : SeqsBy(log[g], Author(e)) = 1..n
  BY <1>1 DEF Prefixes
<1>3. n \in Nat /\ NextSeq(log[g], Author(e)) = n + 1
  BY <1>2, NextSeqOfPrefix, MaxSeqAssumption
<1>4. ASSUME e \notin log[g], AuthorSeq(e) < n + 1 PROVE FALSE
  <2>1. AuthorSeq(e) \in 1..n
    BY <1>1, <1>3, <1>4
  <2> QED
    BY <1>1, <1>2, <1>4, <2>1, SeqsByMember
<1> QED
  BY <1>3, <1>4 DEF Verdict

\* Only the next event of an author is accepted.
LEMMA AcceptedNext ==
  ASSUME Typed, Prefixes, NEW g \in Gateways, NEW e \in EventId,
         Verdict(log[g], event, e) = "accept"
  PROVE  AuthorSeq(e) = NextSeq(log[g], Author(e))
<1>1. Author(e) \in Gateways /\ AuthorSeq(e) \in Nat
  BY MaxSeqAssumption DEF EventId, Author, AuthorSeq
<1>2. PICK n \in 0..MaxSeq : SeqsBy(log[g], Author(e)) = 1..n
  BY <1>1 DEF Prefixes
<1>3. n \in Nat /\ NextSeq(log[g], Author(e)) = n + 1
  BY <1>2, NextSeqOfPrefix, MaxSeqAssumption
<1> QED
  BY <1>1, <1>3 DEF Verdict

\* What the relay and the databases hold of copies.
CopyInv ==
  /\ RelayHoldsQueued /\ BatchAtRelay /\ AcksAreLogged
  /\ NoCopyLost /\ AcceptedIsLogged /\ NothingRejected

\* It survives a step that takes nothing out of a log, the relay or the outbox,
\* and puts nothing into an inbox or a batch.
LEMMA CopyKept ==
  ASSUME Typed, CopyInv,
         \A g \in Gateways : log[g] \subseteq log'[g],
         outbox' = outbox, mailbox' = mailbox, inbox' = inbox,
         \A g \in Gateways : batch'[g] \subseteq batch[g] /\ acks'[g] \subseteq acks[g]
  PROVE  CopyInv'
<1>1. RelayHoldsQueued' /\ BatchAtRelay' /\ NothingRejected'
  BY DEF CopyInv, RelayHoldsQueued, BatchAtRelay, NothingRejected
<1>2. AcksAreLogged'
  BY DEF CopyInv, AcksAreLogged
<1>3. NoCopyLost' /\ AcceptedIsLogged'
  BY CopyType DEF CopyInv, NoCopyLost, AcceptedIsLogged, Queued
<1> QED
  BY <1>1, <1>2, <1>3 DEF CopyInv

\* A flush moves copies from the outbox to the relay and takes none away.
LEMMA FlushMoves ==
  ASSUME Typed, NEW g \in Gateways, NEW due \in Due(g),
         NEW arrived, NEW confirmed, Flush(due, arrived, confirmed)
  PROVE  /\ outbox' \in [Copies -> {"none", "pending", "sent"}]
         /\ mailbox' \in [Copies -> {"absent", "held", "acked"}]
         /\ \A c \in Copies :
              /\ outbox'[c] = "none" <=> outbox[c] = "none"
              /\ outbox'[c] = "pending" \/ outbox'[c] = outbox[c] \/ mailbox'[c] # "absent"
              /\ outbox[c] = "pending" => outbox'[c] = "pending" \/ mailbox'[c] # "absent"
              /\ mailbox[c] # "absent" => mailbox'[c] = mailbox[c]
              /\ mailbox'[c] # mailbox[c] => mailbox'[c] = "held" /\ outbox[c] = "pending"
<1>1. \A c \in due : c \in Copies /\ outbox[c] = "pending"
  BY DEF Due, Oldest, Pending
<1>2. arrived \subseteq due /\ confirmed \subseteq arrived
  BY DEF Flush
<1>3. /\ mailbox' = Stored(arrived)
      /\ outbox' = [c \in Copies |-> IF c \in confirmed THEN "sent" ELSE outbox[c]]
  BY DEF Flush
<1> QED
  BY <1>1, <1>2, <1>3 DEF Stored, Typed, TypeOK

\* So a flush loses none.
LEMMA CopyFlushed ==
  ASSUME Typed, CopyInv, NEW g \in Gateways, NEW due \in Due(g),
         NEW arrived, NEW confirmed, Flush(due, arrived, confirmed),
         log' = log, inbox' = inbox, batch' = batch, acks' = acks
  PROVE  CopyInv'
<1>1. \A c \in Copies :
        /\ outbox'[c] = "none" <=> outbox[c] = "none"
        /\ outbox[c] = "pending" => outbox'[c] = "pending" \/ mailbox'[c] # "absent"
        /\ mailbox[c] # "absent" => mailbox'[c] = mailbox[c]
        /\ mailbox'[c] # mailbox[c] => mailbox'[c] = "held" /\ outbox[c] = "pending"
  BY FlushMoves
<1>2. \A h \in Gateways : batch[h] \subseteq Copies /\ acks[h] \subseteq Copies
  BY DEF Typed, TypeOK
<1>3. RelayHoldsQueued'
  BY <1>1 DEF CopyInv, RelayHoldsQueued
<1>4. BatchAtRelay' /\ AcksAreLogged'
  BY <1>1, <1>2 DEF CopyInv, BatchAtRelay, AcksAreLogged
<1>5. NoCopyLost'
  BY <1>1 DEF CopyInv, NoCopyLost, Queued
<1>6. AcceptedIsLogged' /\ NothingRejected'
  BY DEF CopyInv, AcceptedIsLogged, NothingRejected
<1> QED
  BY <1>3, <1>4, <1>5, <1>6 DEF CopyInv
-----------------------------------------------------------------------------
(* The invariant, action by action.                                        *)

\* Posting signs the next event of the author.
LEMMA BeginPostKeeps ==
  ASSUME PipeInv, NEW g \in Gateways, NEW s \in Spaces, NEW R \in Audiences, BeginPost(g, s, R)
  PROVE  PipeInv'
<1> DEFINE e == <<g, NextSeq(log[g], g)>>
<1>1. Typed /\ PhasesFit /\ Prefixes /\ CopyInv
  BY DEF PipeInv, CopyInv
<1>2. R \subseteq Gateways
  BY AudiencesAssumption
<1>3. PICK n \in 0..MaxSeq : SeqsBy(log[g], g) = 1..n
  BY <1>1 DEF Prefixes
<1>4. n \in Nat /\ NextSeq(log[g], g) = n + 1
  BY <1>3, NextSeqOfPrefix, MaxSeqAssumption
<1>5. NextSeq(log[g], g) <= MaxSeq
  BY DEF BeginPost, AuthorSeq
<1>6. e \in EventId /\ AuthorSeq(e) = n + 1 /\ Author(e) = g
  BY <1>3, <1>4, <1>5, MaxSeqAssumption DEF EventId, AuthorSeq, Author
<1>7. Heads(log[g], event, s) \subseteq EventId
  BY <1>1, HeadsInLog DEF Typed, TypeOK
<1>8. [space |-> s, parents |-> Heads(log[g], event, s), audience |-> R \ {g}] \in Content
  BY <1>2, <1>7 DEF Content
<1>9. log' = [log EXCEPT ![g] = @ \cup {e}]
  BY DEF BeginPost
<1>10. /\ event' \in [EventId -> Content]
       /\ log' \in [Gateways -> SUBSET EventId]
       /\ at' \in [Gateways -> {"idle", "post", "routes", "examine"}]
       /\ posting' \in [Gateways -> 0..MaxSeq]
       /\ todo' \in [Gateways -> SUBSET Gateways]
  <2>1. event' \in [EventId -> Content]
    BY <1>1, <1>8 DEF BeginPost, Typed, TypeOK
  <2>2. log' \in [Gateways -> SUBSET EventId]
    BY <1>1, <1>6, <1>9 DEF Typed, TypeOK
  <2>3. AuthorSeq(e) \in 0..MaxSeq
    BY <1>4, <1>5, <1>6, MaxSeqAssumption
  <2>4. posting' \in [Gateways -> 0..MaxSeq]
    BY <1>1, <2>3 DEF BeginPost, Typed, TypeOK
  <2>5. /\ at' \in [Gateways -> {"idle", "post", "routes", "examine"}]
        /\ todo' \in [Gateways -> SUBSET Gateways]
    BY <1>1, <1>2 DEF BeginPost, Typed, TypeOK
  <2> QED
    BY <2>1, <2>2, <2>4, <2>5
<1>11. Typed'
  BY <1>1, <1>10 DEF BeginPost, Typed, TypeOK
<1>12. PhasesFit'
  BY <1>1, <1>4, <1>6 DEF BeginPost, Typed, TypeOK, PhasesFit
<1>13. Prefixes'
  BY <1>1, <1>4, <1>6, <1>9, PrefixesGrow
<1>14. CopyInv'
  <2>1. \A h \in Gateways : log[h] \subseteq log'[h]
    BY <1>1, <1>9 DEF Typed, TypeOK
  <2> QED
    BY <1>1, <2>1, CopyKept DEF BeginPost
<1> QED
  BY <1>11, <1>12, <1>13, <1>14 DEF PipeInv, CopyInv

\* The row that is queued is that of a copy for another gateway.
LEMMA QueuedCopy ==
  ASSUME Typed, PhasesFit, NEW g \in Gateways, NEW p \in todo[g], at[g] = "post"
  PROVE  <<<<g, posting[g]>>, p>> \in Copies
<1>1. posting[g] \in 0..MaxSeq /\ posting[g] # 0 /\ p \in Gateways /\ p # g
  BY DEF Typed, TypeOK, PhasesFit
<1>2. posting[g] \in 1..MaxSeq
  BY <1>1, MaxSeqAssumption
<1> QED
  BY <1>1, <1>2 DEF Copies, EventId, Author

\* Queueing the copy for one recipient.
LEMMA QueueForKeeps ==
  ASSUME PipeInv, NEW g \in Gateways, NEW p \in Gateways, QueueFor(g, p)
  PROVE  PipeInv'
<1> DEFINE c0 == <<<<g, posting[g]>>, p>>
<1>1. Typed /\ PhasesFit /\ Prefixes /\ CopyInv
  BY DEF PipeInv, CopyInv
<1>2. c0 \in Copies
  BY <1>1, QueuedCopy DEF QueueFor
<1>3. outbox' = [outbox EXCEPT ![c0] = "pending"]
  BY DEF QueueFor
<1>4. \A c \in Copies : outbox'[c] = IF c = c0 THEN "pending" ELSE outbox[c]
  BY <1>1, <1>3 DEF Typed, TypeOK
<1>5. outbox' \in [Copies -> {"none", "pending", "sent"}]
  BY <1>1, <1>3 DEF Typed, TypeOK
<1>6. /\ todo' \in [Gateways -> SUBSET Gateways]
      /\ \A h \in Gateways : todo'[h] \subseteq todo[h]
  BY <1>1 DEF QueueFor, Typed, TypeOK
<1>7. Typed'
  BY <1>1, <1>5, <1>6 DEF QueueFor, Typed, TypeOK
<1>8. PhasesFit'
  BY <1>1, <1>6 DEF QueueFor, PhasesFit
<1>9. Prefixes'
  BY <1>1 DEF QueueFor, Prefixes
<1>10. CopyInv'
  <2>1. RelayHoldsQueued'
    BY <1>1, <1>4 DEF QueueFor, CopyInv, RelayHoldsQueued
  <2>2. NoCopyLost'
    BY <1>1, <1>4 DEF QueueFor, CopyInv, RelayHoldsQueued, NoCopyLost, Queued
  <2>3. BatchAtRelay' /\ AcksAreLogged' /\ AcceptedIsLogged' /\ NothingRejected'
    BY <1>1
    DEF QueueFor, CopyInv, BatchAtRelay, AcksAreLogged, AcceptedIsLogged, NothingRejected
  <2> QED
    BY <2>1, <2>2, <2>3 DEF CopyInv
<1> QED
  BY <1>7, <1>8, <1>9, <1>10 DEF PipeInv, CopyInv

\* The post breaks off at a recipient without a relationship.
LEMMA RaiseForKeeps ==
  ASSUME PipeInv, NEW g \in Gateways, NEW p \in Gateways, RaiseFor(g, p)
  PROVE  PipeInv'
<1>1. Typed /\ PhasesFit /\ Prefixes /\ CopyInv
  BY DEF PipeInv, CopyInv
<1>2. Typed'
  BY <1>1, MaxSeqAssumption DEF RaiseFor, stores, Typed, TypeOK
<1>3. PhasesFit'
  BY <1>1 DEF RaiseFor, Typed, TypeOK, PhasesFit
<1>4. Prefixes'
  BY <1>1 DEF RaiseFor, stores, Prefixes
<1>5. CopyInv'
  BY <1>1, CopyKept DEF RaiseFor, stores
<1> QED
  BY <1>2, <1>3, <1>4, <1>5 DEF PipeInv, CopyInv

\* The three places where the outbox is flushed.
LEMMA FlushesKeeps ==
  ASSUME PipeInv, NEW g \in Gateways, Flushes(g)
  PROVE  PipeInv'
<1>1. Typed /\ PhasesFit /\ Prefixes /\ CopyInv
  BY DEF PipeInv, CopyInv
<1>a. PICK due \in Due(g) : \E arrived \in SUBSET due : \E confirmed \in SUBSET arrived :
        \/ Return(g, due, arrived, confirmed)
        \/ StartSync(g, due, arrived, confirmed)
        \/ EndSync(g, due, arrived, confirmed)
  BY DEF Flushes
<1>b. PICK arrived \in SUBSET due : \E confirmed \in SUBSET arrived :
        \/ Return(g, due, arrived, confirmed)
        \/ StartSync(g, due, arrived, confirmed)
        \/ EndSync(g, due, arrived, confirmed)
  BY <1>a
<1>2. PICK confirmed \in SUBSET arrived :
        \/ Return(g, due, arrived, confirmed)
        \/ StartSync(g, due, arrived, confirmed)
        \/ EndSync(g, due, arrived, confirmed)
  BY <1>b
<1>3. /\ Flush(due, arrived, confirmed)
      /\ UNCHANGED <<log, event, inbox, expired, todo, batch, acks, crashes>>
  BY <1>2 DEF Return, StartSync, EndSync
<1>4. /\ outbox' \in [Copies -> {"none", "pending", "sent"}]
      /\ mailbox' \in [Copies -> {"absent", "held", "acked"}]
  BY <1>1, <1>3, FlushMoves
<1>5. /\ at' \in [Gateways -> {"idle", "post", "routes", "examine"}]
      /\ posting' \in [Gateways -> 0..MaxSeq]
      /\ left' \in [Gateways -> SUBSET Gateways]
      /\ returned' \subseteq EventId
  <2>1. CASE Return(g, due, arrived, confirmed)
    <3>1. posting[g] \in 1..MaxSeq
      BY <1>1, <2>1, MaxSeqAssumption DEF Return, Typed, TypeOK, PhasesFit
    <3>2. <<g, posting[g]>> \in EventId
      BY <3>1 DEF EventId
    <3> QED
      BY <1>1, <2>1, <3>2, MaxSeqAssumption DEF Return, Typed, TypeOK
  <2>2. CASE StartSync(g, due, arrived, confirmed)
    BY <1>1, <2>2 DEF StartSync, Typed, TypeOK
  <2>3. CASE EndSync(g, due, arrived, confirmed)
    BY <1>1, <2>3 DEF EndSync, Typed, TypeOK
  <2> QED
    BY <1>2, <2>1, <2>2, <2>3
<1>6. Typed'
  BY <1>1, <1>3, <1>4, <1>5 DEF Typed, TypeOK
<1>7. PhasesFit'
  <2>1. CASE Return(g, due, arrived, confirmed)
    BY <1>1, <2>1 DEF Return, Typed, TypeOK, PhasesFit
  <2>2. CASE StartSync(g, due, arrived, confirmed)
    BY <1>1, <2>2 DEF StartSync, Typed, TypeOK, PhasesFit
  <2>3. CASE EndSync(g, due, arrived, confirmed)
    BY <1>1, <2>3 DEF EndSync, Typed, TypeOK, PhasesFit
  <2> QED
    BY <1>2, <2>1, <2>2, <2>3
<1>8. Prefixes'
  BY <1>1, <1>3 DEF Prefixes
<1>9. CopyInv'
  BY <1>1, <1>3, CopyFlushed
<1> QED
  BY <1>6, <1>7, <1>8, <1>9 DEF PipeInv, CopyInv

\* A post repeated under its key writes nothing.
LEMMA RetryKeeps ==
  ASSUME PipeInv, NEW g \in Gateways, NEW e \in EventId, Retry(g, e)
  PROVE  PipeInv'
<1>1. Typed /\ PhasesFit /\ Prefixes /\ CopyInv
  BY DEF PipeInv, CopyInv
<1>2. Typed'
  BY <1>1 DEF Retry, stores, process, Typed, TypeOK
<1>3. PhasesFit' /\ Prefixes'
  BY <1>1 DEF Retry, stores, process, PhasesFit, Prefixes
<1>4. CopyInv'
  BY <1>1, CopyKept DEF Retry, stores, process
<1> QED
  BY <1>2, <1>3, <1>4 DEF PipeInv, CopyInv

\* A pull takes copies the relay holds on the route.
LEMMA PullRouteKeeps ==
  ASSUME PipeInv, NEW g \in Gateways, NEW p \in Gateways, PullRoute(g, p)
  PROVE  PipeInv'
<1>1. Typed /\ PhasesFit /\ Prefixes /\ CopyInv
  BY DEF PipeInv, CopyInv
<1>2. PICK C \in SUBSET Held(g, p) : batch' = [batch EXCEPT ![g] = C]
  BY DEF PullRoute
<1>3. \A c \in C : c \in Copies /\ c[2] = g /\ mailbox[c] # "absent"
  BY <1>2 DEF Held
<1>4. batch' \in [Gateways -> SUBSET Copies]
  BY <1>1, <1>2, <1>3 DEF Typed, TypeOK
<1>5. Typed'
  BY <1>1, <1>4 DEF PullRoute, stores, Typed, TypeOK
<1>6. PhasesFit'
  BY <1>1 DEF PullRoute, Typed, TypeOK, PhasesFit
<1>7. Prefixes'
  BY <1>1 DEF PullRoute, stores, Prefixes
<1>8. BatchAtRelay'
  BY <1>1, <1>2, <1>3 DEF PullRoute, Typed, TypeOK, CopyInv, BatchAtRelay
<1>9. RelayHoldsQueued' /\ AcksAreLogged' /\ NoCopyLost' /\ AcceptedIsLogged' /\ NothingRejected'
  BY <1>1 DEF PullRoute, stores, CopyInv, RelayHoldsQueued, AcksAreLogged, NoCopyLost,
              AcceptedIsLogged, NothingRejected, Queued
<1> QED
  BY <1>5, <1>6, <1>7, <1>8, <1>9 DEF PipeInv, CopyInv

\* A pull that fails leaves the route for the next sync.
LEMMA SkipRouteKeeps ==
  ASSUME PipeInv, NEW g \in Gateways, NEW p \in Gateways, SkipRoute(g, p)
  PROVE  PipeInv'
<1>1. Typed /\ PhasesFit /\ Prefixes /\ CopyInv
  BY DEF PipeInv, CopyInv
<1>2. Typed'
  BY <1>1 DEF SkipRoute, stores, Typed, TypeOK
<1>3. PhasesFit' /\ Prefixes'
  BY <1>1 DEF SkipRoute, stores, PhasesFit, Prefixes
<1>4. CopyInv'
  BY <1>1, CopyKept DEF SkipRoute, stores
<1> QED
  BY <1>2, <1>3, <1>4 DEF PipeInv, CopyInv

\* An inbox row is written accepted for an event in the log, or pending; only a
\* copy whose event is in the log is acknowledged.
LEMMA ExamineKeeps ==
  ASSUME PipeInv, NEW g \in Gateways, NEW c0 \in batch[g], Examine(g, c0)
  PROVE  PipeInv'
<1> DEFINE v == Verdict(log[g], event, c0[1])
           st == InboxStatus(c0, v)
<1>1. Typed /\ PhasesFit /\ Prefixes /\ CopyInv
  BY DEF PipeInv, CopyInv
<1>2. c0 \in Copies /\ c0[1] \in EventId /\ c0[2] = g /\ mailbox[c0] # "absent"
  BY <1>1, CopyType DEF Typed, TypeOK, CopyInv, BatchAtRelay
<1>3. v \in Verdicts /\ v # "conflict"
  BY <1>1, <1>2, VerdictType, NoConflict
<1>4. inbox[c0] = "accepted" => c0[1] \in log[g]
  BY <1>1, <1>2 DEF CopyInv, AcceptedIsLogged
<1>5. v = "duplicate" => c0[1] \in log[g]
  BY DEF Verdict
<1>6. st \in {"accepted", "pending"}
  BY <1>3 DEF InboxStatus, Verdicts
<1>7. /\ log' = [log EXCEPT ![g] = Admitted(g, c0, v)]
      /\ inbox' = [inbox EXCEPT ![c0] = st]
      /\ batch' = [batch EXCEPT ![g] = @ \ {c0}]
      /\ acks' = [acks EXCEPT ![g] = IF st = "pending" THEN @ ELSE @ \cup {c0}]
  BY DEF Examine
<1> HIDE DEF v, st
<1>8. log[g] \subseteq Admitted(g, c0, v) /\ Admitted(g, c0, v) \subseteq log[g] \cup {c0[1]}
  BY DEF Admitted
<1>9. st = "accepted" => c0[1] \in Admitted(g, c0, v)
  BY <1>3, <1>4, <1>5 DEF InboxStatus, Admitted, Verdicts, st
<1>10. Typed'
  <2>1. log' \in [Gateways -> SUBSET EventId]
    BY <1>1, <1>2, <1>7, <1>8 DEF Typed, TypeOK
  <2>2. inbox' \in [Copies -> {"none", "pending", "accepted", "rejected"}]
    BY <1>1, <1>6, <1>7 DEF Typed, TypeOK
  <2>3. batch' \in [Gateways -> SUBSET Copies] /\ acks' \in [Gateways -> SUBSET Copies]
    BY <1>1, <1>2, <1>7 DEF Typed, TypeOK
  <2> QED
    BY <1>1, <2>1, <2>2, <2>3 DEF Examine, Typed, TypeOK
<1>11. PhasesFit'
  BY <1>1 DEF Examine, PhasesFit
<1>12. Prefixes'
  <2>1. CASE Admitted(g, c0, v) = log[g]
    <3>1. log' = log
      BY <1>1, <1>7, <2>1 DEF Typed, TypeOK
    <3> QED
      BY <1>1, <3>1 DEF Prefixes
  <2>2. CASE Admitted(g, c0, v) # log[g]
    <3>1. v = "accept" /\ Admitted(g, c0, v) = log[g] \cup {c0[1]}
      BY <2>2 DEF Admitted
    <3>2. AuthorSeq(c0[1]) = NextSeq(log[g], Author(c0[1]))
      BY <1>1, <1>2, <3>1, AcceptedNext DEF v
    <3>3. log' = [log EXCEPT ![g] = @ \cup {c0[1]}]
      BY <1>7, <3>1
    <3> QED
      BY <1>1, <1>2, <3>2, <3>3, PrefixesGrow
  <2> QED
    BY <2>1, <2>2
<1>13. /\ \A h \in Gateways : log[h] \subseteq log'[h]
       /\ st = "accepted" => c0[1] \in log'[g]
  BY <1>1, <1>7, <1>8, <1>9 DEF Typed, TypeOK
<1>14. CopyInv'
  <2>1. RelayHoldsQueued'
    BY <1>1 DEF Examine, CopyInv, RelayHoldsQueued
  <2>2. BatchAtRelay'
    BY <1>1, <1>7 DEF Examine, Typed, TypeOK, CopyInv, BatchAtRelay
  <2>3. AcksAreLogged'
    <3> SUFFICES ASSUME NEW h \in Gateways, NEW c \in acks'[h]
                 PROVE  c[2] = h /\ mailbox'[c] # "absent" /\ c[1] \in log'[h]
      BY DEF AcksAreLogged
    <3>1. mailbox' = mailbox
      BY DEF Examine
    <3>2. CASE c \in acks[h]
      BY <1>1, <1>13, <3>1, <3>2 DEF CopyInv, AcksAreLogged
    <3>3. CASE c \notin acks[h]
      <4>1. h = g /\ c = c0 /\ st # "pending"
        BY <1>1, <1>7, <3>3 DEF Typed, TypeOK
      <4> QED
        BY <1>2, <1>6, <1>13, <3>1, <4>1
    <3> QED
      BY <3>2, <3>3
  <2>4. NoCopyLost'
    BY <1>1, <1>13, CopyType DEF Examine, CopyInv, NoCopyLost, Queued
  <2>5. \A c \in Copies : inbox'[c] = IF c = c0 THEN st ELSE inbox[c]
    BY <1>1, <1>7 DEF Typed, TypeOK
  <2>6. AcceptedIsLogged'
    BY <1>1, <1>2, <1>13, <2>5, CopyType DEF CopyInv, AcceptedIsLogged
  <2>7. NothingRejected'
    BY <1>1, <1>6, <2>5 DEF CopyInv, NothingRejected
  <2> QED
    BY <2>1, <2>2, <2>3, <2>4, <2>6, <2>7 DEF CopyInv
<1> QED
  BY <1>10, <1>11, <1>12, <1>14 DEF PipeInv, CopyInv

\* A process that dies keeps nothing but its database.
LEMMA ForgetKeeps ==
  ASSUME Typed, PhasesFit, NEW g \in Gateways, Forget(g)
  PROVE  /\ at' \in [Gateways -> {"idle", "post", "routes", "examine"}]
         /\ posting' \in [Gateways -> 0..MaxSeq]
         /\ todo' \in [Gateways -> SUBSET Gateways]
         /\ left' \in [Gateways -> SUBSET Gateways]
         /\ batch' \in [Gateways -> SUBSET Copies]
         /\ acks' \in [Gateways -> SUBSET Copies]
         /\ PhasesFit'
         /\ \A h \in Gateways : batch'[h] \subseteq batch[h] /\ acks'[h] \subseteq acks[h]
<1>1. /\ at' \in [Gateways -> {"idle", "post", "routes", "examine"}]
      /\ posting' \in [Gateways -> 0..MaxSeq]
      /\ todo' \in [Gateways -> SUBSET Gateways]
  BY MaxSeqAssumption DEF Forget, Typed, TypeOK
<1>2. /\ left' \in [Gateways -> SUBSET Gateways]
      /\ batch' \in [Gateways -> SUBSET Copies]
      /\ acks' \in [Gateways -> SUBSET Copies]
      /\ \A h \in Gateways : batch'[h] \subseteq batch[h] /\ acks'[h] \subseteq acks[h]
  BY DEF Forget, Typed, TypeOK
<1>3. PhasesFit'
  BY DEF Forget, Typed, TypeOK, PhasesFit
<1> QED
  BY <1>1, <1>2, <1>3

\* The process dies between the append and the mark of the inbox.
LEMMA DieBeforeMarkKeeps ==
  ASSUME PipeInv, NEW g \in Gateways, NEW c0 \in batch[g], DieBeforeMark(g, c0)
  PROVE  PipeInv'
<1>1. Typed /\ PhasesFit /\ Prefixes /\ CopyInv
  BY DEF PipeInv, CopyInv
<1>2. c0[1] \in EventId
  BY <1>1, CopyType DEF Typed, TypeOK
<1>3. Forget(g) /\ log' = [log EXCEPT ![g] = @ \cup {c0[1]}]
  BY DEF DieBeforeMark
<1>4. AuthorSeq(c0[1]) = NextSeq(log[g], Author(c0[1]))
  BY <1>1, <1>2, AcceptedNext DEF DieBeforeMark
<1>5. log' \in [Gateways -> SUBSET EventId] /\ \A h \in Gateways : log[h] \subseteq log'[h]
  BY <1>1, <1>2, <1>3 DEF Typed, TypeOK
<1>6. Typed'
  BY <1>1, <1>3, <1>5, ForgetKeeps DEF DieBeforeMark, Typed, TypeOK
<1>7. PhasesFit'
  BY <1>1, <1>3, ForgetKeeps
<1>8. Prefixes'
  BY <1>1, <1>2, <1>3, <1>4, PrefixesGrow
<1>9. CopyInv'
  BY <1>1, <1>3, <1>5, ForgetKeeps, CopyKept DEF DieBeforeMark
<1> QED
  BY <1>6, <1>7, <1>8, <1>9 DEF PipeInv, CopyInv

\* Copies marked acknowledged at the relay are in the log of their recipient.
LEMMA CopyAcked ==
  ASSUME Typed, CopyInv, NEW g \in Gateways, mailbox' = Acked(acks[g]),
         log' = log, outbox' = outbox, inbox' = inbox,
         \A h \in Gateways : batch'[h] \subseteq batch[h] /\ acks'[h] \subseteq acks[h]
  PROVE  CopyInv' /\ mailbox' \in [Copies -> {"absent", "held", "acked"}]
<1>1. acks[g] \subseteq Copies /\ \A h \in Gateways : batch[h] \cup acks[h] \subseteq Copies
  BY DEF Typed, TypeOK
<1>2. mailbox' \in [Copies -> {"absent", "held", "acked"}]
  BY DEF Acked, Typed, TypeOK
<1>3. \A c \in Copies : mailbox'[c] = IF c \in acks[g] THEN "acked" ELSE mailbox[c]
  BY DEF Acked
<1>4. \A c \in acks[g] : c[2] = g /\ mailbox[c] # "absent" /\ c[1] \in log[g]
  BY DEF CopyInv, AcksAreLogged
<1>5. RelayHoldsQueued' /\ NoCopyLost'
  BY <1>3, <1>4 DEF CopyInv, RelayHoldsQueued, NoCopyLost, Queued
<1>6. BatchAtRelay' /\ AcksAreLogged'
  BY <1>1, <1>3, <1>4 DEF CopyInv, BatchAtRelay, AcksAreLogged
<1>7. AcceptedIsLogged' /\ NothingRejected'
  BY DEF CopyInv, AcceptedIsLogged, NothingRejected
<1> QED
  BY <1>2, <1>5, <1>6, <1>7 DEF CopyInv

\* The acknowledgement is answered: the copies it names are in the log or known to be.
LEMMA AcknowledgeKeeps ==
  ASSUME PipeInv, NEW g \in Gateways, Acknowledge(g)
  PROVE  PipeInv'
<1>1. Typed /\ PhasesFit /\ Prefixes /\ CopyInv
  BY DEF PipeInv, CopyInv
<1>2. \A h \in Gateways : batch'[h] \subseteq batch[h] /\ acks'[h] \subseteq acks[h]
  BY <1>1 DEF Acknowledge, Typed, TypeOK
<1>3. CopyInv' /\ mailbox' \in [Copies -> {"absent", "held", "acked"}]
  BY <1>1, <1>2, CopyAcked DEF Acknowledge, stores
<1>4. Typed'
  BY <1>1, <1>3 DEF Acknowledge, stores, Typed, TypeOK
<1>5. PhasesFit'
  BY <1>1 DEF Acknowledge, Typed, TypeOK, PhasesFit
<1>6. Prefixes'
  BY <1>1 DEF Acknowledge, stores, Prefixes
<1> QED
  BY <1>3, <1>4, <1>5, <1>6 DEF PipeInv, CopyInv

\* The acknowledgement raises, applied or not.
LEMMA AcknowledgeRaisesKeeps ==
  ASSUME PipeInv, NEW g \in Gateways, NEW applied, AcknowledgeRaises(g, applied)
  PROVE  PipeInv'
<1>1. Typed /\ PhasesFit /\ Prefixes /\ CopyInv
  BY DEF PipeInv, CopyInv
<1>2. Forget(g) /\ UNCHANGED <<log, event, outbox, inbox, expired, returned, crashes>>
  BY DEF AcknowledgeRaises, stores
<1>3. mailbox' = Acked(acks[g]) \/ mailbox' = mailbox
  BY DEF AcknowledgeRaises
<1>4. \A h \in Gateways : batch'[h] \subseteq batch[h] /\ acks'[h] \subseteq acks[h]
  BY <1>1, <1>2, ForgetKeeps
<1>5. CopyInv' /\ mailbox' \in [Copies -> {"absent", "held", "acked"}]
  <2>1. CASE mailbox' = mailbox
    BY <1>1, <1>2, <1>4, <2>1, CopyKept DEF Typed, TypeOK
  <2>2. CASE mailbox' = Acked(acks[g])
    BY <1>1, <1>2, <1>4, <2>2, CopyAcked
  <2> QED
    BY <1>3, <2>1, <2>2
<1>6. Typed'
  BY <1>1, <1>2, <1>5, ForgetKeeps DEF Typed, TypeOK
<1>7. PhasesFit'
  BY <1>1, <1>2, ForgetKeeps
<1>8. Prefixes'
  BY <1>1, <1>2 DEF Prefixes
<1> QED
  BY <1>5, <1>6, <1>7, <1>8 DEF PipeInv, CopyInv

\* The process dies and forgets what it had in memory.
LEMMA CrashKeeps ==
  ASSUME PipeInv, NEW g \in Gateways, Crash(g)
  PROVE  PipeInv'
<1>1. Typed /\ PhasesFit /\ Prefixes /\ CopyInv
  BY DEF PipeInv, CopyInv
<1>2. Forget(g) /\ UNCHANGED <<log, event, outbox, inbox, mailbox, expired, returned>>
  BY DEF Crash, stores
<1>3. crashes' \in 0..MaxCrashes
  BY <1>1, BoundsAssumption DEF Crash, Typed, TypeOK
<1>4. Typed'
  BY <1>1, <1>2, <1>3, ForgetKeeps DEF Typed, TypeOK
<1>5. PhasesFit'
  BY <1>1, <1>2, ForgetKeeps
<1>6. Prefixes'
  BY <1>1, <1>2 DEF Prefixes
<1>7. CopyInv'
  BY <1>1, <1>2, ForgetKeeps, CopyKept
<1> QED
  BY <1>4, <1>5, <1>6, <1>7 DEF PipeInv, CopyInv

\* The lifetime of an envelope runs out.
LEMMA ExpireKeeps ==
  ASSUME PipeInv, NEW c \in Copies, Expire(c)
  PROVE  PipeInv'
<1>1. Typed /\ PhasesFit /\ Prefixes /\ CopyInv
  BY DEF PipeInv, CopyInv
<1>2. IsFiniteSet(expired) /\ c \notin expired /\ expired' = expired \cup {c}
  BY <1>1 DEF Expire, Typed
<1>3. IsFiniteSet(expired') /\ Cardinality(expired') = Cardinality(expired) + 1
  BY <1>2, FS_AddElement
<1>4. Cardinality(expired) \in Nat /\ Cardinality(expired) < MaxExpiries
  BY <1>2, FS_CardinalityType DEF Expire
<1>5. Cardinality(expired') <= MaxExpiries
  BY <1>3, <1>4, MaxExpiriesAssumption
<1>6. Typed'
  BY <1>1, <1>2, <1>3, <1>5 DEF Expire, stores, process, Typed, TypeOK
<1>7. PhasesFit' /\ Prefixes'
  BY <1>1 DEF Expire, stores, process, PhasesFit, Prefixes
<1>8. CopyInv'
  BY <1>1, CopyKept DEF Expire, stores, process
<1> QED
  BY <1>6, <1>7, <1>8 DEF PipeInv, CopyInv

\* Every step keeps the invariant.
LEMMA PipeStep == PipeInv /\ [Next]_vars => PipeInv'
<1> SUFFICES ASSUME PipeInv, [Next]_vars PROVE PipeInv'
  OBVIOUS
<1>1. ASSUME NEW g \in Gateways, NEW s \in Spaces, NEW R \in Audiences, BeginPost(g, s, R)
      PROVE  PipeInv'
  BY <1>1, BeginPostKeeps
<1>2. ASSUME NEW g \in Gateways, NEW p \in Gateways,
             QueueFor(g, p) \/ RaiseFor(g, p) \/ PullRoute(g, p) \/ SkipRoute(g, p)
      PROVE  PipeInv'
  BY <1>2, QueueForKeeps, RaiseForKeeps, PullRouteKeeps, SkipRouteKeeps
<1>3. ASSUME NEW g \in Gateways, NEW e \in EventId, Retry(g, e)
      PROVE  PipeInv'
  BY <1>3, RetryKeeps
<1>4. ASSUME NEW g \in Gateways, Flushes(g) \/ Acknowledge(g) \/ Crash(g)
      PROVE  PipeInv'
  BY <1>4, FlushesKeeps, AcknowledgeKeeps, CrashKeeps
<1>5. ASSUME NEW g \in Gateways, NEW c \in batch[g], Examine(g, c) \/ DieBeforeMark(g, c)
      PROVE  PipeInv'
  BY <1>5, ExamineKeeps, DieBeforeMarkKeeps
<1>6. ASSUME NEW g \in Gateways, NEW applied \in BOOLEAN, AcknowledgeRaises(g, applied)
      PROVE  PipeInv'
  BY <1>6, AcknowledgeRaisesKeeps
<1>7. ASSUME NEW c \in Copies, Expire(c)
      PROVE  PipeInv'
  BY <1>7, ExpireKeeps
<1>8. CASE UNCHANGED vars
  <2>1. Typed' /\ PhasesFit' /\ Prefixes'
    BY <1>8 DEF vars, PipeInv, Typed, TypeOK, PhasesFit, Prefixes
  <2>2. CopyInv'
    BY <1>8, CopyKept DEF vars, PipeInv, CopyInv
  <2> QED
    BY <2>1, <2>2 DEF PipeInv, CopyInv
<1> QED
  BY <1>1, <1>2, <1>3, <1>4, <1>5, <1>6, <1>7, <1>8 DEF Next

\* The inductive invariant holds in every reachable state.
THEOREM PipeInvariant == Spec => []PipeInv
  BY PipeInit, PipeStep, PTL DEF Spec
-----------------------------------------------------------------------------
\* Every variable of the pipeline keeps its type, the expired envelopes within
\* their bound.
THEOREM TypeCorrect == Spec => []TypeOK
<1>1. PipeInv => TypeOK
  BY DEF PipeInv, Typed
<1> QED
  BY <1>1, PipeInvariant, PTL

\* Whichever request, answer, acknowledgement or process is lost, a copy that was
\* queued is still pending at its author, held by the relay or in the log of its
\* recipient (flush_outbox, Relay.push, sync and acknowledge together).
THEOREM NothingLost == Spec => []NoCopyLost
<1>1. PipeInv => NoCopyLost
  BY DEF PipeInv
<1> QED
  BY <1>1, PipeInvariant, PTL

\* The shortcut of sync, which acknowledges a copy its inbox calls accepted
\* without opening it, never acknowledges an event the log does not hold.
THEOREM InboxFollowsLog == Spec => []AcceptedIsLogged
<1>1. PipeInv => AcceptedIsLogged
  BY DEF PipeInv
<1> QED
  BY <1>1, PipeInvariant, PTL

\* Reordered, repeated, late or resent, a copy from an honest author's outbox is
\* never rejected: _accept_group_event finds it early, next or known.
THEOREM HonestCopiesPass == Spec => []NothingRejected
<1>1. PipeInv => NothingRejected
  BY DEF PipeInv
<1> QED
  BY <1>1, PipeInvariant, PTL
-----------------------------------------------------------------------------
(* The pipeline implements the event log.                                  *)

\* Both modules ask the same questions of a log.
LEMMA SameQuestions ==
  /\ EL!EventId = EventId
  /\ \A e : EL!Author(e) = Author(e) /\ EL!AuthorSeq(e) = AuthorSeq(e)
  /\ \A L, a : EL!NextSeq(L, a) = NextSeq(L, a)
  /\ \A L, ev, s : EL!Heads(L, ev, s) = Heads(L, ev, s)
  /\ \A L, ev, e : EL!Verdict(L, ev, e) = Verdict(L, ev, e)
<1>1. EL!EventId = EventId
  BY DEF EL!EventId, EventId
<1>2. \A e : EL!Author(e) = Author(e) /\ EL!AuthorSeq(e) = AuthorSeq(e)
  BY DEF EL!Author, Author, EL!AuthorSeq, AuthorSeq
<1>3. \A L, a : EL!NextSeq(L, a) = NextSeq(L, a)
  BY Zenon DEF EL!NextSeq, NextSeq, EL!SeqsBy, SeqsBy, EL!AuthorSeq, AuthorSeq, EL!Author,
               Author, EL!Max, Max
<1>4. \A L, ev, s : EL!Heads(L, ev, s) = Heads(L, ev, s)
  BY Zenon DEF EL!Heads, Heads
<1>5. \A L, ev, e : EL!Verdict(L, ev, e) = Verdict(L, ev, e)
  BY <1>2, <1>3, Zenon DEF EL!Verdict, Verdict
<1> QED
  BY <1>1, <1>2, <1>3, <1>4, <1>5

\* Empty stores and an idle process map to an empty event log.
LEMMA InitRefines == Init => EL!Init
<1> SUFFICES ASSUME Init PROVE EL!Init
  OBVIOUS
<1>1. Queued = {}
  BY DEF Init, Queued
<1>2. event = [e \in EL!EventId |-> EL!Unposted]
  BY SameQuestions DEF Init
<1> QED
  BY <1>1, <1>2 DEF Init, EL!Init

\* A step that starts and ends no outbox row leaves the abstract queue alone.
LEMMA QueueKept ==
  ASSUME \A c \in Copies : outbox'[c] = "none" <=> outbox[c] = "none"
  PROVE  Queued' = Queued
  BY DEF Queued

\* The append that begins a post begins one in the event log.
LEMMA BeginPostRefines ==
  ASSUME PipeInv, NEW g \in Gateways, NEW s \in Spaces, NEW R \in Audiences, BeginPost(g, s, R)
  PROVE  EL!BeginPost(g, s, R)
<1>1. posting[g] = 0
  BY DEF BeginPost, PipeInv, PhasesFit
<1>2. Queued' = Queued
  BY QueueKept DEF BeginPost
<1>3. Cardinality(EL!Appended) < MaxPosts
  BY DEF BeginPost
<1>4. EL!Cardinality(EL!Appended) < MaxPosts
  BY <1>3 DEF Cardinality, EL!Cardinality
<1>5. AuthorSeq(<<g, NextSeq(log[g], g)>>) <= MaxSeq
  BY DEF BeginPost
<1>6. /\ event' = [event EXCEPT ![<<g, NextSeq(log[g], g)>>] =
                     [space |-> s, parents |-> Heads(log[g], event, s), audience |-> R \ {g}]]
      /\ log' = [log EXCEPT ![g] = @ \cup {<<g, NextSeq(log[g], g)>>}]
      /\ posting' = [posting EXCEPT ![g] = AuthorSeq(<<g, NextSeq(log[g], g)>>)]
      /\ todo' = [todo EXCEPT ![g] = R \ {g}]
      /\ UNCHANGED <<returned, crashes>>
  BY DEF BeginPost
<1> QED
  BY <1>1, <1>2, <1>4, <1>5, <1>6, SameQuestions, Zenon DEF EL!BeginPost

\* A copy in the outbox is a copy queued for its recipient.
LEMMA QueueForRefines ==
  ASSUME PipeInv, NEW g \in Gateways, NEW p \in Gateways, QueueFor(g, p)
  PROVE  EL!QueueFor(g, p)
<1>1. posting[g] # 0
  BY DEF QueueFor, PipeInv, PhasesFit
<1>2. <<<<g, posting[g]>>, p>> \in Copies
  BY QueuedCopy DEF QueueFor, PipeInv
<1>3. Queued' = Queued \cup {<<<<g, posting[g]>>, p>>}
  BY <1>2 DEF QueueFor, PipeInv, Typed, TypeOK, Queued
<1> QED
  BY <1>1, <1>3 DEF QueueFor, EL!QueueFor

\* A post that breaks off at a recipient breaks off there.
LEMMA RaiseForRefines ==
  ASSUME PipeInv, NEW g \in Gateways, NEW p \in Gateways, RaiseFor(g, p)
  PROVE  EL!RaiseFor(g, p)
<1>1. posting[g] # 0
  BY DEF RaiseFor, PipeInv, PhasesFit
<1>2. Queued' = Queued
  BY QueueKept DEF RaiseFor, stores
<1> QED
  BY <1>1, <1>2 DEF RaiseFor, stores, EL!RaiseFor

\* A flush at the end of a post returns; one in a sync is invisible.
LEMMA FlushesRefine ==
  ASSUME PipeInv, NEW g \in Gateways, Flushes(g)
  PROVE  EL!Return(g) \/ UNCHANGED EL!vars
<1>1. PICK due \in Due(g) : \E arrived \in SUBSET due : \E confirmed \in SUBSET arrived :
        \/ Return(g, due, arrived, confirmed)
        \/ StartSync(g, due, arrived, confirmed)
        \/ EndSync(g, due, arrived, confirmed)
  BY DEF Flushes
<1>2. PICK arrived \in SUBSET due : \E confirmed \in SUBSET arrived :
        \/ Return(g, due, arrived, confirmed)
        \/ StartSync(g, due, arrived, confirmed)
        \/ EndSync(g, due, arrived, confirmed)
  BY <1>1
<1>3. PICK confirmed \in SUBSET arrived :
        \/ Return(g, due, arrived, confirmed)
        \/ StartSync(g, due, arrived, confirmed)
        \/ EndSync(g, due, arrived, confirmed)
  BY <1>2
<1>4. Flush(due, arrived, confirmed)
  BY <1>3 DEF Return, StartSync, EndSync
<1>5. Queued' = Queued
  BY <1>4, FlushMoves, QueueKept DEF PipeInv
<1>6. CASE Return(g, due, arrived, confirmed)
  <2>1. posting[g] # 0
    BY <1>6 DEF Return, PipeInv, PhasesFit
  <2> QED
    BY <1>5, <1>6, <2>1 DEF Return, EL!Return
<1>7. CASE StartSync(g, due, arrived, confirmed) \/ EndSync(g, due, arrived, confirmed)
  BY <1>5, <1>7 DEF StartSync, EndSync, EL!vars
<1> QED
  BY <1>3, <1>6, <1>7

\* A post repeated under its key is one in the event log.
LEMMA RetryRefines ==
  ASSUME PipeInv, NEW g \in Gateways, NEW e \in EventId, Retry(g, e)
  PROVE  EL!Retry(g, e)
<1>1. posting[g] = 0
  BY DEF Retry, PipeInv, PhasesFit
<1>2. Queued' = Queued
  BY QueueKept DEF Retry, stores
<1> QED
  BY <1>1, <1>2, SameQuestions DEF Retry, stores, process, EL!Retry

\* Everything a sync pulls was queued, so the event log may admit it.
LEMMA PulledWasQueued ==
  ASSUME PipeInv, NEW g \in Gateways, NEW c \in batch[g], at[g] = "examine"
  PROVE  c[1] \in EventId /\ <<c[1], g>> \in Queued /\ posting[g] = 0 /\ todo[g] = {}
<1>1. c \in Copies
  BY DEF PipeInv, Typed, TypeOK
<1>2. c[2] = g /\ outbox[c] # "none"
  BY <1>1 DEF PipeInv, BatchAtRelay, RelayHoldsQueued
<1>3. posting[g] = 0 /\ todo[g] = {}
  BY DEF PipeInv, PhasesFit
<1> QED
  BY <1>1, <1>2, <1>3, CopyType DEF Queued

\* A process that dies outside a post changes nothing the event log sees.
LEMMA ForgetIsInvisible ==
  ASSUME Typed, NEW g \in Gateways, posting[g] = 0, todo[g] = {}, Forget(g)
  PROVE  posting' = posting /\ todo' = todo
  BY DEF Typed, TypeOK, Forget

\* Admitting an event is Accept; every other verdict is invisible.
LEMMA ExamineRefines ==
  ASSUME PipeInv, NEW g \in Gateways, NEW c \in batch[g], Examine(g, c)
  PROVE  EL!Accept(g, c[1]) \/ UNCHANGED EL!vars
<1>1. c[1] \in EventId /\ <<c[1], g>> \in Queued /\ posting[g] = 0
  BY PulledWasQueued DEF Examine
<1>2. Queued' = Queued
  BY QueueKept DEF Examine
<1>3. UNCHANGED <<event, posting, todo, returned, crashes>>
  BY DEF Examine
<1>4. log' = [log EXCEPT ![g] = Admitted(g, c, Verdict(log[g], event, c[1]))]
  BY DEF Examine
<1>5. CASE Verdict(log[g], event, c[1]) = "accept" /\ inbox[c] # "accepted"
  BY <1>1, <1>2, <1>3, <1>4, <1>5, SameQuestions DEF Admitted, EL!Accept
<1>6. CASE ~(Verdict(log[g], event, c[1]) = "accept" /\ inbox[c] # "accepted")
  BY <1>2, <1>3, <1>4, <1>6 DEF Admitted, PipeInv, Typed, TypeOK, EL!vars
<1> QED
  BY <1>5, <1>6

\* append_event is the commit that counts, even when mark_inbox never follows.
LEMMA DieBeforeMarkRefines ==
  ASSUME PipeInv, NEW g \in Gateways, NEW c \in batch[g], DieBeforeMark(g, c)
  PROVE  EL!Accept(g, c[1])
<1>1. c[1] \in EventId /\ <<c[1], g>> \in Queued /\ posting[g] = 0 /\ todo[g] = {}
  BY PulledWasQueued DEF DieBeforeMark
<1>2. Queued' = Queued
  BY QueueKept DEF DieBeforeMark
<1>3. posting' = posting /\ todo' = todo
  BY <1>1, ForgetIsInvisible DEF DieBeforeMark, PipeInv
<1> QED
  BY <1>1, <1>2, <1>3, SameQuestions DEF DieBeforeMark, EL!Accept

\* A death of the process is a death.
LEMMA CrashRefines ==
  ASSUME PipeInv, NEW g \in Gateways, Crash(g)
  PROVE  EL!Crash(g)
<1>1. Queued' = Queued
  BY QueueKept DEF Crash, stores
<1> QED
  BY <1>1 DEF Crash, Forget, stores, EL!Crash

\* Pulls, acknowledgements and expiries are the transport's own business.
LEMMA TransportIsInvisible ==
  ASSUME PipeInv, NEW g \in Gateways,
         \/ \E p \in Gateways : PullRoute(g, p) \/ SkipRoute(g, p)
         \/ Acknowledge(g)
         \/ \E applied \in BOOLEAN : AcknowledgeRaises(g, applied)
         \/ \E c \in Copies : Expire(c)
  PROVE  UNCHANGED EL!vars
<1>1. /\ UNCHANGED <<log, event, outbox, returned, crashes>>
      /\ UNCHANGED <<posting, todo>> \/ (at[g] = "examine" /\ Forget(g))
  BY DEF PullRoute, SkipRoute, Acknowledge, AcknowledgeRaises, Expire, stores, process
<1>2. at[g] = "examine" => posting[g] = 0 /\ todo[g] = {}
  BY DEF PipeInv, PhasesFit
<1>3. UNCHANGED <<posting, todo>>
  BY <1>1, <1>2, ForgetIsInvisible DEF PipeInv
<1>4. Queued' = Queued
  BY <1>1, QueueKept
<1> QED
  BY <1>1, <1>3, <1>4 DEF EL!vars

\* Every step of the pipeline is one of the event log, or none.
LEMMA StepRefines == PipeInv /\ [Next]_vars => [EL!Next]_EL!vars
<1> SUFFICES ASSUME PipeInv, [Next]_vars PROVE EL!Next \/ UNCHANGED EL!vars
  OBVIOUS
<1>1. ASSUME NEW g \in Gateways, NEW s \in Spaces, NEW R \in Audiences, BeginPost(g, s, R)
      PROVE  EL!Next
  BY <1>1, BeginPostRefines, Zenon DEF EL!Next
<1>2. ASSUME NEW g \in Gateways, NEW p \in Gateways, QueueFor(g, p) \/ RaiseFor(g, p)
      PROVE  EL!Next
  BY <1>2, QueueForRefines, RaiseForRefines, Zenon DEF EL!Next
<1>3. ASSUME NEW g \in Gateways, Flushes(g)
      PROVE  EL!Next \/ UNCHANGED EL!vars
  BY <1>3, FlushesRefine, Zenon DEF EL!Next
<1>4. ASSUME NEW g \in Gateways, NEW e \in EventId, Retry(g, e)
      PROVE  EL!Next
  BY <1>4, RetryRefines, SameQuestions, Zenon DEF EL!Next
<1>5. ASSUME NEW g \in Gateways, NEW c \in batch[g], Examine(g, c) \/ DieBeforeMark(g, c)
      PROVE  EL!Next \/ UNCHANGED EL!vars
  <2>1. c[1] \in EL!EventId
    BY <1>5, PulledWasQueued, SameQuestions DEF Examine, DieBeforeMark
  <2>2. EL!Accept(g, c[1]) \/ UNCHANGED EL!vars
    BY <1>5, ExamineRefines, DieBeforeMarkRefines
  <2> QED
    BY <2>1, <2>2, Zenon DEF EL!Next
<1>6. ASSUME NEW g \in Gateways, Crash(g)
      PROVE  EL!Next
  BY <1>6, CrashRefines, Zenon DEF EL!Next
<1>7. ASSUME NEW g \in Gateways,
             \/ \E p \in Gateways : PullRoute(g, p) \/ SkipRoute(g, p)
             \/ Acknowledge(g)
             \/ \E applied \in BOOLEAN : AcknowledgeRaises(g, applied)
             \/ \E c \in Copies : Expire(c)
      PROVE  UNCHANGED EL!vars
  BY <1>7, TransportIsInvisible
<1>8. CASE UNCHANGED vars
  BY <1>8 DEF vars, EL!vars, Queued
<1> QED
  BY <1>1, <1>2, <1>3, <1>4, <1>5, <1>6, <1>7, <1>8, GatewaysAssumption DEF Next

\* The delivery pipeline, with its outbox, relay, inbox, lost calls and crashes,
\* does to the logs only what EventLog allows: what is proved of every behaviour
\* of EventLog (EventLogProofs) is true of the logs the pipeline builds.
THEOREM Refinement == Spec => ImplementsEventLog
  BY InitRefines, PipeInvariant, StepRefines, PTL DEF Spec, ImplementsEventLog, EL!Spec
-----------------------------------------------------------------------------
(* What is proved of EventLog, read over the pipeline's variables.  The    *)
(* instance Proved is EL once more, with the theorems of EventLogProofs.   *)

Proved == INSTANCE EventLogProofs WITH queued <- Queued

\* Both instances call the same events appended.
LEMMA SameAppended == EL!Appended = Proved!Appended
BY Zenon DEF EL!Appended, Proved!Appended, EL!EventId, Proved!EventId, EL!Author, Proved!Author

\* Both instances start alike.
LEMMA SameInit == EL!Init => Proved!Init
BY DEF EL!Init, Proved!Init, EL!EventId, Proved!EventId, EL!Unposted, Proved!Unposted

\* Both instances step alike.
LEMMA SameSteps == [EL!Next]_EL!vars => [Proved!Next]_Proved!vars
<1> USE DEF EL!EventId, Proved!EventId, EL!Author, Proved!Author,
            EL!AuthorSeq, Proved!AuthorSeq
<1>1. \A L, a : EL!NextSeq(L, a) = Proved!NextSeq(L, a)
  BY Zenon DEF EL!NextSeq, Proved!NextSeq, EL!SeqsBy, Proved!SeqsBy, EL!Max, Proved!Max
<1>2. \A L, ev, s : EL!Heads(L, ev, s) = Proved!Heads(L, ev, s)
  BY Zenon DEF EL!Heads, Proved!Heads
<1>3. \A L, ev, e : EL!Verdict(L, ev, e) = Proved!Verdict(L, ev, e)
  BY <1>1, Zenon DEF EL!Verdict, Proved!Verdict
<1>4. ASSUME NEW g \in Gateways, NEW s \in Spaces, NEW R \in Audiences, EL!BeginPost(g, s, R)
      PROVE  Proved!BeginPost(g, s, R)
  <2>1. EL!NextSeq(log[g], g) = Proved!NextSeq(log[g], g)
    BY <1>1
  <2>2. EL!Heads(log[g], event, s) = Proved!Heads(log[g], event, s)
    BY <1>2
  <2>3. EL!Cardinality(EL!Appended) = Proved!Cardinality(Proved!Appended)
    BY SameAppended, Zenon DEF EL!Cardinality, Proved!Cardinality
  <2> QED
    BY <1>4, <2>1, <2>2, <2>3, Zenon DEF EL!BeginPost, Proved!BeginPost
<1>5. ASSUME NEW g \in Gateways, NEW p \in Gateways
      PROVE  /\ EL!QueueFor(g, p) => Proved!QueueFor(g, p)
             /\ EL!RaiseFor(g, p) => Proved!RaiseFor(g, p)
  BY <1>5, Zenon DEF EL!QueueFor, Proved!QueueFor, EL!RaiseFor, Proved!RaiseFor
<1>6. ASSUME NEW g \in Gateways, NEW e \in EL!EventId
      PROVE  /\ EL!Retry(g, e) => Proved!Retry(g, e)
             /\ EL!Accept(g, e) => Proved!Accept(g, e)
  BY <1>3, <1>6, Zenon DEF EL!Retry, Proved!Retry, EL!Accept, Proved!Accept
<1>7. ASSUME NEW g \in Gateways
      PROVE  /\ EL!Return(g) => Proved!Return(g)
             /\ EL!Crash(g) => Proved!Crash(g)
  BY <1>7, Zenon DEF EL!Return, Proved!Return, EL!Crash, Proved!Crash
<1> QED
  BY <1>4, <1>5, <1>6, <1>7, Zenon DEF EL!Next, Proved!Next, EL!vars, Proved!vars

\* The assumptions of EventLog are among those of Exchange, so its theorems hold.
LEMMA LogTheorems ==
  Proved!Spec =>
    /\ [](/\ Proved!AuthorPrefix /\ Proved!CausallyClosed
          /\ Proved!NoCausalCycle /\ Proved!NoSequenceConflict)
    /\ Proved!LogsAreImmutable
<1> USE GatewaysAssumption, SpacesAssumption, MaxSeqAssumption, AudiencesAssumption,
        BoundsAssumption
    DEF Proved!GatewaysAssumption, Proved!SpacesAssumption, Proved!MaxSeqAssumption,
        Proved!AudiencesAssumption, Proved!MaxPostsAssumption, Proved!MaxCrashesAssumption
<1>1. Proved!Spec => []Proved!AuthorPrefix
  BY Proved!PrefixOfEveryAuthor
<1>2. Proved!Spec => []Proved!CausallyClosed
  BY Proved!ParentsPresent
<1>3. Proved!Spec => []Proved!NoCausalCycle
  BY Proved!TopologicalSortCompletes
<1>4. Proved!Spec => []Proved!NoSequenceConflict
  BY Proved!ConflictUnreachable
<1>5. Proved!Spec => Proved!LogsAreImmutable
  BY Proved!HistoryIsImmutable
<1> QED
  BY <1>1, <1>2, <1>3, <1>4, <1>5, PTL

\* The logs that outboxes, the relay and inboxes build, with calls lost, repeated and
\* cut short, are prefixes of every author, closed under parents and free of cycles,
\* no copy on its way meets a sequence conflict, and no log is ever rewritten.
THEOREM PipelineKeepsLogs ==
  Spec => /\ [](/\ EL!AuthorPrefix /\ EL!CausallyClosed
                /\ EL!NoCausalCycle /\ EL!NoSequenceConflict)
          /\ EL!LogsAreImmutable
<1>1. Spec => Proved!Spec
  BY Refinement, SameInit, SameSteps, PTL DEF ImplementsEventLog, EL!Spec, Proved!Spec
<1>2. Proved!AuthorPrefix => EL!AuthorPrefix
  BY Zenon DEF EL!AuthorPrefix, Proved!AuthorPrefix, EL!SeqsBy, Proved!SeqsBy, EL!Author,
               Proved!Author, EL!AuthorSeq, Proved!AuthorSeq
<1>3. Proved!CausallyClosed => EL!CausallyClosed
  BY Zenon DEF EL!CausallyClosed, Proved!CausallyClosed
<1>4. Proved!NoCausalCycle => EL!NoCausalCycle
  BY SameAppended, Zenon DEF EL!NoCausalCycle, Proved!NoCausalCycle
<1>5. Proved!NoSequenceConflict => EL!NoSequenceConflict
  BY SameQuestions, Zenon DEF EL!NoSequenceConflict, Proved!NoSequenceConflict,
     Proved!Verdict, Verdict, Proved!NextSeq, NextSeq, Proved!SeqsBy, SeqsBy,
     Proved!AuthorSeq, AuthorSeq, Proved!Author, Author, Proved!Max, Max
<1>6. Proved!LogsAreImmutable => EL!LogsAreImmutable
  <2> DEFINE Kept == \A g \in Gateways : log[g] \subseteq log'[g]
             Fixed == \A e \in EL!Appended : event'[e] = event[e]
             FixedToo == \A e \in Proved!Appended : event'[e] = event[e]
  <2>1. [Kept /\ FixedToo]_Proved!vars => [Kept /\ Fixed]_EL!vars
    BY SameAppended, Zenon DEF EL!vars, Proved!vars
  <2> QED
    BY <2>1, PTL DEF EL!LogsAreImmutable, Proved!LogsAreImmutable
<1> QED
  BY <1>1, <1>2, <1>3, <1>4, <1>5, <1>6, LogTheorems, PTL
=============================================================================
