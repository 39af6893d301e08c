--------------------------- MODULE EventLogProofs ---------------------------
(***************************************************************************)
(* The safety properties of EventLog, for every number of gateways, spaces *)
(* and events, every set of links and audiences and any number of crashes. *)
(***************************************************************************)
EXTENDS EventLog, EventOpsProofs

\* The strengthening that is inductive: the event a post is fanning out is
\* already in its author's log, so no queued copy is ever ahead of its author.
PostingIsAppended ==
  \A g \in Gateways : posting[g] # 0 => <<g, posting[g]>> \in log[g]

LogInv ==
  /\ TypeOK
  /\ AuthorPrefix
  /\ NothingUnsigned
  /\ PostingIsAppended
  /\ CausallyClosed
  /\ NoCausalCycle
-----------------------------------------------------------------------------
\* LogInv holds at the start: nothing is posted.
LEMMA InitInv == Init => LogInv
<1> SUFFICES ASSUME Init PROVE LogInv
  OBVIOUS
<1>1. Unposted \in Content
  BY SpacesAssumption DEF Unposted, Content
<1>2. TypeOK
  BY <1>1, MaxSeqAssumption, MaxCrashesAssumption DEF Init, TypeOK
<1>3. AuthorPrefix
  <2>1. \A g, a \in Gateways : SeqsBy(log[g], a) = {}
    BY DEF Init, SeqsBy
  <2>2. 1..0 = {} /\ 0 \in 0..MaxSeq
    BY MaxSeqAssumption
  <2> QED
    BY <2>1, <2>2 DEF AuthorPrefix
<1>4. Appended = {}
  BY DEF Init, Appended, EventId, Author
<1>5. NothingUnsigned /\ PostingIsAppended /\ CausallyClosed /\ NoCausalCycle
  BY <1>4 DEF Init, NothingUnsigned, PostingIsAppended, CausallyClosed, NoCausalCycle
<1> QED
  BY <1>2, <1>3, <1>5 DEF LogInv

\* The name BeginPost gives its event is fresh: no log holds it.
LEMMA FreshName ==
  ASSUME LogInv, NEW g \in Gateways,
         NEW e, e = <<g, NextSeq(log[g], g)>>, AuthorSeq(e) <= MaxSeq
  PROVE  /\ e \in EventId
         /\ e \notin Appended
         /\ \A h \in Gateways : e \notin log[h]
         /\ \E n \in 0..MaxSeq : SeqsBy(log[g], g) = 1..n /\ AuthorSeq(e) = n + 1
<1>1. PICK n \in 0..MaxSeq : SeqsBy(log[g], g) = 1..n
  BY DEF LogInv, AuthorPrefix
<1>2. NextSeq(log[g], g) = n + 1
  BY <1>1, NextSeqOfPrefix, MaxSeqAssumption
<1>3. e \in EventId /\ Author(e) = g /\ AuthorSeq(e) = n + 1
  BY <1>2, MaxSeqAssumption DEF EventId, Author, AuthorSeq
<1>4. e \notin log[g]
  <2>1. AuthorSeq(e) \notin 1..n
    BY <1>3
  <2> QED
    BY <1>1, <1>3, <2>1, SeqsByMember DEF LogInv, TypeOK
<1>5. e \notin Appended
  BY <1>3, <1>4 DEF Appended
<1> QED
  BY <1>1, <1>3, <1>5 DEF LogInv, NothingUnsigned

-----------------------------------------------------------------------------
\* BeginPost keeps the invariant: the new event is fresh, continues its
\* author's prefix and hangs below events its author holds.
LEMMA BeginPostInv ==
  ASSUME LogInv, NEW g \in Gateways, NEW s \in Spaces, NEW R \in Audiences,
         BeginPost(g, s, R)
  PROVE  LogInv'
<1> DEFINE e == <<g, NextSeq(log[g], g)>>
           c == [space |-> s, parents |-> Heads(log[g], event, s), audience |-> R \ {g}]
<1>1. /\ TypeOK /\ AuthorPrefix /\ NothingUnsigned
      /\ PostingIsAppended /\ CausallyClosed /\ NoCausalCycle
  BY DEF LogInv
<1>2. /\ posting[g] = 0 /\ AuthorSeq(e) <= MaxSeq
      /\ event' = [event EXCEPT ![e] = c]
      /\ log' = [log EXCEPT ![g] = @ \cup {e}]
      /\ posting' = [posting EXCEPT ![g] = AuthorSeq(e)]
      /\ todo' = [todo EXCEPT ![g] = R \ {g}]
      /\ queued' = queued /\ returned' = returned /\ crashes' = crashes
  BY DEF BeginPost
<1>3. /\ e \in EventId /\ e \notin Appended
      /\ \A h \in Gateways : e \notin log[h]
      /\ \E n \in 0..MaxSeq : SeqsBy(log[g], g) = 1..n /\ AuthorSeq(e) = n + 1
  BY <1>2, FreshName
<1>4. Author(e) = g /\ e = <<g, AuthorSeq(e)>>
  BY DEF Author, AuthorSeq
<1>5. c.parents \subseteq log[g] /\ c \in Content
  <2>1. c.parents \subseteq log[g]
    BY HeadsInLog
  <2>2. log[g] \subseteq EventId /\ R \ {g} \subseteq Gateways
    BY <1>1, AudiencesAssumption DEF TypeOK
  <2> QED
    BY <2>1, <2>2 DEF Content
<1> HIDE DEF e, c
<1>6. \A h \in Gateways : log'[h] = IF h = g THEN log[h] \cup {e} ELSE log[h]
  BY <1>1, <1>2 DEF TypeOK
<1>7. \A x \in EventId : event'[x] = IF x = e THEN c ELSE event[x]
  BY <1>1, <1>2, <1>3 DEF TypeOK
<1>8. Appended' = Appended \cup {e}
  BY <1>3, <1>4, <1>6 DEF Appended, EventId, Author
<1>9. TypeOK'
  <2>1. AuthorSeq(e) \in 0..MaxSeq
    BY <1>3, MaxSeqAssumption DEF EventId, AuthorSeq
  <2>2. R \ {g} \subseteq Gateways
    BY AudiencesAssumption
  <2> QED
    BY <1>1, <1>2, <1>3, <1>5, <2>1, <2>2 DEF TypeOK
<1>10. AuthorPrefix'
  <2> SUFFICES ASSUME NEW h \in Gateways, NEW a \in Gateways
               PROVE  \E n \in 0..MaxSeq : SeqsBy(log'[h], a) = 1..n
    BY DEF AuthorPrefix
  <2>1. CASE h = g
    <3>1. PICK n \in 0..MaxSeq : SeqsBy(log[g], g) = 1..n /\ AuthorSeq(e) = n + 1
      BY <1>3
    <3>2. log[g] \in SUBSET EventId /\ n \in Nat
      BY <1>1, MaxSeqAssumption DEF TypeOK
    <3>3. \E k \in 0..MaxSeq : SeqsBy(log[g], a) = 1..k
      BY <1>1 DEF AuthorPrefix
    <3>4. \E k \in 0..MaxSeq : SeqsBy(log[g] \cup {e}, a) = 1..k
      BY <1>3, <1>4, <3>1, <3>2, <3>3, PrefixExtends
    <3> QED
      BY <1>6, <2>1, <3>4
  <2>2. CASE h # g
    BY <1>1, <1>6, <2>2 DEF AuthorPrefix
  <2> QED
    BY <2>1, <2>2
<1>11. NothingUnsigned'
  BY <1>1, <1>2, <1>6, <1>8 DEF NothingUnsigned
<1>12. PostingIsAppended'
  BY <1>1, <1>2, <1>4, <1>6 DEF PostingIsAppended, TypeOK
<1>13. CausallyClosed'
  <2> SUFFICES ASSUME NEW h \in Gateways, NEW x \in log'[h]
               PROVE  event'[x].parents \subseteq log'[h]
    BY DEF CausallyClosed
  <2>1. CASE x = e
    BY <1>3, <1>5, <1>6, <1>7, <2>1
  <2>2. CASE x # e
    <3>0. log[h] \subseteq EventId
      BY <1>1 DEF TypeOK
    <3>1. x \in log[h] /\ x \in EventId
      BY <1>6, <2>2, <3>0
    <3>2. event'[x] = event[x]
      BY <1>7, <2>2, <3>1
    <3>3. event[x].parents \subseteq log[h]
      BY <1>1, <3>1 DEF CausallyClosed
    <3>4. log[h] \subseteq log'[h]
      BY <1>6
    <3> QED
      BY <3>2, <3>3, <3>4
  <2> QED
    BY <2>1, <2>2
<1>14. NoCausalCycle'
  <2> SUFFICES ASSUME NEW S \in SUBSET (Appended \cup {e}), S # {}
               PROVE  \E x \in S : event'[x].parents \cap S = {}
    BY <1>8 DEF NoCausalCycle
  <2>1. Appended \subseteq EventId
    BY DEF Appended
  <2>2. CASE S = {e}
    BY <1>3, <1>5, <1>7, <2>2
  <2>3. CASE S # {e}
    <3>1. S \ {e} # {} /\ S \ {e} \subseteq Appended
      BY <2>3
    <3>2. PICK m \in S \ {e} : event[m].parents \cap (S \ {e}) = {}
      BY <1>1, <3>1 DEF NoCausalCycle
    <3>3. event'[m] = event[m]
      BY <1>7, <2>1, <3>1
    <3>4. e \notin event[m].parents
      <4>1. Author(m) \in Gateways /\ m \in log[Author(m)]
        BY <3>1 DEF Appended, EventId, Author
      <4> QED
        BY <1>1, <1>3, <4>1 DEF CausallyClosed
    <3> QED
      BY <3>2, <3>3, <3>4
  <2> QED
    BY <2>2, <2>3
<1> QED
  BY <1>9, <1>10, <1>11, <1>12, <1>13, <1>14 DEF LogInv

\* Accept keeps the invariant: the admitted event is the next of its author
\* and its parents are there, and its author already held it.
LEMMA AcceptInv ==
  ASSUME LogInv, NEW g \in Gateways, NEW e \in EventId, Accept(g, e)
  PROVE  LogInv'
<1>1. /\ TypeOK /\ AuthorPrefix /\ NothingUnsigned
      /\ PostingIsAppended /\ CausallyClosed /\ NoCausalCycle
  BY DEF LogInv
<1>2. /\ posting[g] = 0 /\ <<e, g>> \in queued /\ Verdict(log[g], event, e) = "accept"
      /\ log' = [log EXCEPT ![g] = @ \cup {e}]
      /\ event' = event /\ queued' = queued /\ posting' = posting
      /\ todo' = todo /\ returned' = returned /\ crashes' = crashes
  BY DEF Accept
<1>3. Author(e) \in Gateways /\ log[g] \in SUBSET EventId
  BY <1>1 DEF EventId, Author, TypeOK
<1>4. PICK n \in 0..MaxSeq : SeqsBy(log[g], Author(e)) = 1..n
  BY <1>1, <1>3 DEF AuthorPrefix
<1>5. n \in Nat
  BY MaxSeqAssumption
<1>6. AuthorSeq(e) = n + 1 /\ event[e].parents \subseteq log[g]
  <2>1. NextSeq(log[g], Author(e)) = n + 1
    BY <1>4, <1>5, NextSeqOfPrefix
  <2>2. AuthorSeq(e) \in Nat
    BY MaxSeqAssumption DEF EventId, AuthorSeq
  <2> QED
    BY <1>2, <2>1, <2>2 DEF Verdict
<1>7. \A h \in Gateways : log'[h] = IF h = g THEN log[h] \cup {e} ELSE log[h]
  BY <1>1, <1>2 DEF TypeOK
<1>8. e \in Appended
  BY <1>1, <1>2 DEF NothingUnsigned
<1>9. Appended' = Appended
  BY <1>7, <1>8 DEF Appended, EventId, Author
<1>10. TypeOK'
  BY <1>1, <1>2 DEF TypeOK
<1>11. AuthorPrefix'
  <2> SUFFICES ASSUME NEW h \in Gateways, NEW a \in Gateways
               PROVE  \E k \in 0..MaxSeq : SeqsBy(log'[h], a) = 1..k
    BY DEF AuthorPrefix
  <2>1. \E k \in 0..MaxSeq : SeqsBy(log[h], a) = 1..k
    BY <1>1 DEF AuthorPrefix
  <2>2. CASE h = g
    <3>1. \E k \in 0..MaxSeq : SeqsBy(log[g], a) = 1..k
      BY <2>1, <2>2
    <3>2. AuthorSeq(e) = n + 1
      BY <1>6
    <3>3. \E k \in 0..MaxSeq : SeqsBy(log[g] \cup {e}, a) = 1..k
      BY <1>3, <1>4, <1>5, <3>1, <3>2, PrefixExtends
    <3> QED
      BY <1>7, <2>2, <3>3
  <2>3. CASE h # g
    BY <1>7, <2>1, <2>3
  <2> QED
    BY <2>2, <2>3
<1>12. NothingUnsigned'
  BY <1>1, <1>2, <1>7, <1>8, <1>9 DEF NothingUnsigned
<1>13. PostingIsAppended'
  BY <1>1, <1>2, <1>7 DEF PostingIsAppended
<1>14. CausallyClosed'
  BY <1>1, <1>2, <1>6, <1>7 DEF CausallyClosed
<1>15. NoCausalCycle'
  BY <1>1, <1>2, <1>9 DEF NoCausalCycle
<1> QED
  BY <1>10, <1>11, <1>12, <1>13, <1>14, <1>15 DEF LogInv
-----------------------------------------------------------------------------
\* Steps that leave the logs, the events and the copies' origin alone.
LEMMA OtherStepsInv ==
  ASSUME LogInv,
         log' = log, event' = event,
         queued' \in SUBSET (EventId \X Gateways),
         \A q \in queued' : q \in queued \/ q[1] \in Appended,
         posting' \in [Gateways -> 0..MaxSeq],
         \A g \in Gateways : posting'[g] \in {0, posting[g]},
         todo' \in [Gateways -> SUBSET Gateways],
         returned' \in SUBSET EventId, crashes' \in 0..MaxCrashes
  PROVE  LogInv'
<1>1. /\ TypeOK /\ AuthorPrefix /\ NothingUnsigned
      /\ PostingIsAppended /\ CausallyClosed /\ NoCausalCycle
  BY DEF LogInv
<1>2. Appended' = Appended
  BY DEF Appended
<1>3. TypeOK' /\ AuthorPrefix'
  BY <1>1 DEF TypeOK, AuthorPrefix
<1>4. NothingUnsigned' /\ PostingIsAppended'
  BY <1>1, <1>2 DEF NothingUnsigned, PostingIsAppended
<1>5. CausallyClosed' /\ NoCausalCycle'
  BY <1>1, <1>2 DEF CausallyClosed, NoCausalCycle
<1> QED
  BY <1>3, <1>4, <1>5 DEF LogInv

\* The event a gateway is fanning out is one it holds.
LEMMA PostingInAppended ==
  ASSUME LogInv, NEW g \in Gateways, posting[g] # 0
  PROVE  <<g, posting[g]>> \in EventId /\ <<g, posting[g]>> \in Appended
BY DEF LogInv, TypeOK, PostingIsAppended, Appended, EventId, Author

\* Every step keeps the invariant.
LEMMA NextInv == LogInv /\ [Next]_vars => LogInv'
<1> SUFFICES ASSUME LogInv, [Next]_vars PROVE LogInv'
  OBVIOUS
<1>0. TypeOK
  BY DEF LogInv
<1>1. ASSUME NEW g \in Gateways, NEW s \in Spaces, NEW R \in Audiences, BeginPost(g, s, R)
      PROVE  LogInv'
  BY <1>1, BeginPostInv
<1>2. ASSUME NEW g \in Gateways, NEW p \in Gateways, QueueFor(g, p)
      PROVE  LogInv'
  <2>1. <<g, posting[g]>> \in EventId /\ <<g, posting[g]>> \in Appended
    BY <1>2, PostingInAppended DEF QueueFor
  <2>2. \A q \in queued' : q \in queued \/ q[1] \in Appended
    BY <1>2, <2>1 DEF QueueFor
  <2>3. queued' \in SUBSET (EventId \X Gateways)
    BY <1>0, <1>2, <2>1 DEF QueueFor, TypeOK
  <2> QED
    BY <1>0, <1>2, <2>2, <2>3, OtherStepsInv DEF QueueFor, TypeOK
<1>3. ASSUME NEW g \in Gateways, NEW p \in Gateways, RaiseFor(g, p)
      PROVE  LogInv'
  BY <1>0, <1>3, MaxSeqAssumption, OtherStepsInv DEF RaiseFor, TypeOK
<1>4. ASSUME NEW g \in Gateways, Return(g)
      PROVE  LogInv'
  <2>1. <<g, posting[g]>> \in EventId
    BY <1>4, PostingInAppended DEF Return
  <2> QED
    BY <1>0, <1>4, <2>1, MaxSeqAssumption, OtherStepsInv DEF Return, TypeOK
<1>5. ASSUME NEW g \in Gateways, NEW e \in EventId, Retry(g, e)
      PROVE  LogInv'
  BY <1>0, <1>5, OtherStepsInv DEF Retry, TypeOK
<1>6. ASSUME NEW g \in Gateways, NEW e \in EventId, Accept(g, e)
      PROVE  LogInv'
  BY <1>6, AcceptInv
<1>7. ASSUME NEW g \in Gateways, Crash(g)
      PROVE  LogInv'
  BY <1>0, <1>7, MaxSeqAssumption, MaxCrashesAssumption, OtherStepsInv DEF Crash, TypeOK
<1>8. CASE UNCHANGED vars
  BY <1>0, <1>8, OtherStepsInv DEF vars, TypeOK
<1> QED
  BY <1>1, <1>2, <1>3, <1>4, <1>5, <1>6, <1>7, <1>8 DEF Next

\* LogInv holds in every reachable state.
THEOREM LogInvariant == Spec => []LogInv
BY InitInv, NextInv, PTL DEF Spec
-----------------------------------------------------------------------------
\* Type correctness of the event log.
THEOREM TypeCorrect == Spec => []TypeOK
<1>1. LogInv => TypeOK
  BY DEF LogInv
<1> QED
  BY <1>1, LogInvariant, PTL

\* Every log is a prefix of each author's posts, whatever is lost or reordered:
\* the sequence check of _accept_group_event leaves no hole.
THEOREM PrefixOfEveryAuthor == Spec => []AuthorPrefix
<1>1. LogInv => AuthorPrefix
  BY DEF LogInv
<1> QED
  BY <1>1, LogInvariant, PTL

\* Events and copies in flight are all in their author's own durable store:
\* append_event precedes every outbox row, so a crash never lets an author
\* reuse the number of an event somebody may already hold.
THEOREM OnlyAppendedEventsTravel == Spec => []NothingUnsigned
<1>1. LogInv => NothingUnsigned
  BY DEF LogInv
<1> QED
  BY <1>1, LogInvariant, PTL

\* A gateway never holds an event without its causal parents.
THEOREM ParentsPresent == Spec => []CausallyClosed
<1>1. LogInv => CausallyClosed
  BY DEF LogInv
<1> QED
  BY <1>1, LogInvariant, PTL

\* The causal-cycle assertion of _causally_ordered_events cannot fire, for any
\* set of events a projection may sort.
THEOREM TopologicalSortCompletes == Spec => []NoCausalCycle
<1>1. LogInv => NoCausalCycle
  BY DEF LogInv
<1> QED
  BY <1>1, LogInvariant, PTL

\* The rejection "author sequence conflict" is never the answer to a copy that
\* an author's store queued: early copies wait, late ones are duplicates.
THEOREM ConflictUnreachable == Spec => []NoSequenceConflict
<1>1. LogInv => NoSequenceConflict
  <2> SUFFICES ASSUME LogInv, NEW q \in queued,
                      Verdict(log[q[2]], event, q[1]) = "conflict"
               PROVE  FALSE
    BY DEF NoSequenceConflict
  <2> DEFINE e == q[1]
             L == log[q[2]]
  <2>1. e \in EventId /\ Author(e) \in Gateways /\ q[2] \in Gateways /\ AuthorSeq(e) \in Nat \ {0}
    BY MaxSeqAssumption DEF LogInv, TypeOK, EventId, Author, AuthorSeq
  <2>2. L \in SUBSET EventId
    BY <2>1 DEF LogInv, TypeOK
  <2>3. PICK n \in 0..MaxSeq : SeqsBy(L, Author(e)) = 1..n
    BY <2>1 DEF LogInv, AuthorPrefix
  <2>4. NextSeq(L, Author(e)) = n + 1
    BY <2>3, NextSeqOfPrefix, MaxSeqAssumption
  <2>5. e \notin L /\ AuthorSeq(e) < n + 1
    BY <2>4 DEF Verdict
  <2>6. AuthorSeq(e) \in 1..n
    BY <2>1, <2>5
  <2> QED
    BY <2>1, <2>2, <2>3, <2>5, <2>6, SeqsByMember
<1> QED
  BY <1>1, LogInvariant, PTL

\* No step takes an event out of a log or changes a signed event.
THEOREM HistoryIsImmutable == Spec => LogsAreImmutable
<1>1. LogInv /\ [Next]_vars =>
        [/\ \A g \in Gateways : log[g] \subseteq log'[g]
         /\ \A e \in Appended : event'[e] = event[e]]_vars
  <2> SUFFICES ASSUME LogInv, Next
               PROVE  /\ \A g \in Gateways : log[g] \subseteq log'[g]
                      /\ \A e \in Appended : event'[e] = event[e]
    OBVIOUS
  <2>0. TypeOK /\ Appended \subseteq EventId
    BY DEF LogInv, Appended
  <2>1. CASE \E g \in Gateways, s \in Spaces, R \in Audiences : BeginPost(g, s, R)
    <3>1. PICK g \in Gateways, s \in Spaces, R \in Audiences : BeginPost(g, s, R)
      BY <2>1
    <3>2. <<g, NextSeq(log[g], g)>> \notin Appended
      BY <3>1, FreshName DEF BeginPost
    <3> QED
      BY <2>0, <3>1, <3>2 DEF BeginPost, TypeOK
  <2>2. CASE \E g \in Gateways, e \in EventId : Accept(g, e)
    BY <2>0, <2>2 DEF Accept, TypeOK
  <2>3. CASE log' = log /\ event' = event
    BY <2>3
  <2> QED
    BY <2>1, <2>2, <2>3 DEF Next, QueueFor, RaiseFor, Return, Retry, Crash
<1> QED
  BY <1>1, LogInvariant, PTL DEF Spec, LogsAreImmutable
=============================================================================
