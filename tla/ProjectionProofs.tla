-------------------------- MODULE ProjectionProofs --------------------------
(***************************************************************************)
(* The work projections, for any gateways, kinds of work, outcomes and     *)
(* bounds: rows are what a rebuild from the present log returns            *)
(* (CurrentRows), they do not depend on the order of arrival or on the     *)
(* rest of the log (Convergence), no event is lost on the way              *)
(* (NothingDropped) and an agent's last vote counts (LastVoteIsHeard). The *)
(* heart of it is RebuiltFromPart: a rebuild takes the events of an object *)
(* in the same order whatever else is in the log.                          *)
(***************************************************************************)
EXTENDS Projection, EventOpsProofs, SetInduction, FiniteSetTheorems

\* What a rebuild starts with.
Fresh(o, ev) == [done |-> {}, row |-> NewRow(o, ev[o].kind), refused |-> {}]

\* The recursive function of Replay is defined: it meets its own equation.
LEMMA ReplayUnfolds ==
  ASSUME NEW L, IsFiniteSet(L), NEW ev, NEW o
  PROVE  /\ Replay(L, ev, o)[0] = Fresh(o, ev)
         /\ \A n \in 1..Cardinality(L) :
              Replay(L, ev, o)[n] =
                Taken(Replay(L, ev, o)[n - 1],
                      NextOut(Replay(L, ev, o)[n - 1].done, L, ev), ev, o)
<1> DEFINE N == Cardinality(L)
           First == Fresh(o, ev)
           Then(acc) == Taken(acc, NextOut(acc.done, L, ev), ev, o)
           Unfold(f) == [n \in 0..N |-> IF n = 0 THEN First ELSE Then(f[n - 1])]
           UpTo(f, k) == f = [n \in 0..N |-> f[n]] /\ \A n \in 0..N : n <= k => f[n] = Unfold(f)[n]
           Good == {k \in Nat : \E f : UpTo(f, k)}
<1>1. N \in Nat
  BY FS_CardinalityType
<1>2. Replay(L, ev, o) = CHOOSE f : f = Unfold(f)
  BY DEF Replay, Fresh
<1>3. \E f : f = Unfold(f)
  <2> HIDE DEF N, First, Then
  <2>1. 0 \in Good
    <3>1. UpTo([n \in 0..N |-> First], 0)
      BY <1>1
    <3> QED
      BY <3>1
  <2>2. ASSUME NEW k \in Nat, k \in Good
        PROVE  k + 1 \in Good
    <3>1. PICK f : UpTo(f, k)
      BY <2>2
    <3> DEFINE g == Unfold(f)
    <3>2. g = [n \in 0..N |-> g[n]]
      OBVIOUS
    <3>3. ASSUME NEW n \in 0..N, n <= k + 1
          PROVE  g[n] = Unfold(g)[n]
      <4>1. CASE n = 0
        BY <4>1
      <4>2. CASE n # 0
        <5>1. n - 1 \in 0..N /\ n - 1 <= k
          BY <3>3, <4>2, <1>1
        <5>2. f[n - 1] = g[n - 1]
          BY <3>1, <5>1
        <5> QED
          BY <4>2, <5>2
      <4> QED
        BY <4>1, <4>2
    <3>4. UpTo(g, k + 1)
      BY <3>2, <3>3
    <3>5. \E h : UpTo(h, k + 1)
      <4> HIDE DEF UpTo, g
      <4> QED
        BY <3>4
    <3> HIDE DEF UpTo
    <3> QED
      BY <3>5
  <2>3. N \in Good
    <3> HIDE DEF Good
    <3> QED
      BY <2>1, <2>2, <1>1, NatSetInduction
  <2>4. PICK f : UpTo(f, N)
    BY <2>3
  <2>5. f = Unfold(f)
    BY <2>4, <1>1
  <2> QED
    BY <2>5
<1>4. Replay(L, ev, o) = Unfold(Replay(L, ev, o))
  <2> HIDE DEF Unfold
  <2> QED
    BY <1>2, <1>3
<1> HIDE DEF Then
<1>5. \A n \in 1..N : Replay(L, ev, o)[n] = Then(Replay(L, ev, o)[n - 1])
  <2> HIDE DEF N, First
  <2> QED
    BY <1>1, <1>4
<1>6. Replay(L, ev, o)[0] = First
  <2> HIDE DEF N, First
  <2> QED
    BY <1>1, <1>4
<1> QED
  BY <1>5, <1>6 DEF Then
-----------------------------------------------------------------------------
(* The deterministic order of a log.                                       *)

\* What makes the order of a log one: a digest for every event and no event
\* among its own ancestors.
Orderable(L, ev) ==
  /\ IsFiniteSet(L)
  /\ \A e \in L : ev[e].id \in Nat
  /\ \A e, f \in L : ev[e].id = ev[f].id => e = f
  /\ \A X \in SUBSET L : X # {} => \E e \in X : ev[e].parents \cap X = {}

Ready(done, L, ev) == {e \in L \ done : ev[e].parents \cap L \subseteq done}

\* As long as something is left an event is ready, and the least identifier is next.
LEMMA NextOutIsReady ==
  ASSUME NEW L, NEW ev, Orderable(L, ev), NEW done, ~ (L \subseteq done)
  PROVE  LET next == NextOut(done, L, ev) IN
         /\ next \in Ready(done, L, ev)
         /\ \A x \in Ready(done, L, ev) : ev[next].id <= ev[x].id
<1> DEFINE R == Ready(done, L, ev)
<1>1. R # {}
  <2>1. L \ done \in SUBSET L /\ L \ done # {}
    OBVIOUS
  <2>2. PICK e \in L \ done : ev[e].parents \cap (L \ done) = {}
    BY <2>1 DEF Orderable
  <2>3. e \in R
    BY <2>2 DEF Ready
  <2> QED
    BY <2>3
<1>2. {ev[x].id : x \in R} \in SUBSET Nat /\ {ev[x].id : x \in R} # {}
  BY <1>1 DEF Ready, Orderable
<1>3. PICK m \in {ev[x].id : x \in R} : \A k \in {ev[x].id : x \in R} : m <= k
  BY <1>2, LeastElement
<1>4. \E e \in R : \A x \in R : ev[e].id <= ev[x].id
  BY <1>3
<1>5. NextOut(done, L, ev) = CHOOSE e \in R : \A x \in R : ev[e].id <= ev[x].id
  BY DEF NextOut, LeastId, Ready
<1> QED
  <2> HIDE DEF R
  <2>1. NextOut(done, L, ev) \in R /\ \A x \in R : ev[NextOut(done, L, ev)].id <= ev[x].id
    BY <1>4, <1>5
  <2> QED
    BY <2>1 DEF R

\* After n events n are out, and with every event its parents.
LEMMA OutSoFar ==
  ASSUME NEW L, NEW ev, Orderable(L, ev), NEW o, NEW n \in 0..Cardinality(L)
  PROVE  LET done == Replay(L, ev, o)[n].done IN
         /\ done \subseteq L
         /\ IsFiniteSet(done) /\ Cardinality(done) = n
         /\ \A e \in done : ev[e].parents \cap L \subseteq done
<1> DEFINE N == Cardinality(L)
           F == Replay(L, ev, o)
           P(k) == /\ F[k].done \subseteq L
                   /\ IsFiniteSet(F[k].done) /\ Cardinality(F[k].done) = k
                   /\ \A e \in F[k].done : ev[e].parents \cap L \subseteq F[k].done
           Good == {k \in Nat : k <= N => P(k)}
<1>1. N \in Nat /\ IsFiniteSet(L)
  BY FS_CardinalityType DEF Orderable
<1>2. 0 \in Good
  <2>1. F[0].done = {}
    <3>1. F[0] = Fresh(o, ev)
      BY <1>1, ReplayUnfolds
    <3> HIDE DEF F
    <3> QED
      BY <3>1 DEF Fresh
  <2>2. P(0)
    BY <2>1, FS_EmptySet
  <2> QED
    BY <2>2
<1>3. ASSUME NEW k \in Nat, k \in Good
      PROVE  k + 1 \in Good
  <2> SUFFICES ASSUME k + 1 <= N
               PROVE  P(k + 1)
    OBVIOUS
  <2> DEFINE e == NextOut(F[k].done, L, ev)
  <2>1. P(k)
    BY <1>1, <1>3
  <2>2. k + 1 \in 1..N /\ (k + 1) - 1 = k
    BY <1>1
  <2>3. F[k + 1] = Taken(F[k], e, ev, o)
    <3> HIDE DEF N, F
    <3> QED
      BY <2>2, <1>1, ReplayUnfolds DEF N, F
  <2>4. F[k + 1].done = F[k].done \cup {e}
    <3> HIDE DEF F, e
    <3> QED
      BY <2>3 DEF Taken
  <2>5. ~ (L \subseteq F[k].done)
    <3>1. F[k].done # L
      BY <2>1, <1>1
    <3> QED
      BY <2>1, <3>1
  <2>6. e \in Ready(F[k].done, L, ev)
    BY <2>5, NextOutIsReady
  <2>7. e \in L /\ e \notin F[k].done /\ ev[e].parents \cap L \subseteq F[k].done
    <3> HIDE DEF F, e
    <3> QED
      BY <2>6 DEF Ready
  <2>8. IsFiniteSet(F[k].done \cup {e}) /\ Cardinality(F[k].done \cup {e}) = k + 1
    <3> HIDE DEF F, e
    <3>1. IsFiniteSet(F[k].done) /\ Cardinality(F[k].done) = k /\ e \notin F[k].done
      BY <2>1, <2>7
    <3> HIDE DEF P
    <3> QED
      BY <3>1, FS_AddElement
  <2> HIDE DEF F, e
  <2>9. F[k + 1].done \subseteq L /\ \A x \in F[k + 1].done : ev[x].parents \cap L \subseteq F[k + 1].done
    <3>1. F[k].done \subseteq L /\ \A x \in F[k].done : ev[x].parents \cap L \subseteq F[k].done
      BY <2>1
    <3> QED
      BY <2>4, <2>7, <3>1
  <2> QED
    BY <2>4, <2>8, <2>9
<1> HIDE DEF Good
<1>4. n \in Good
  BY <1>2, <1>3, NatSetInduction
<1> HIDE DEF P
<1>5. P(n)
  BY <1>4, <1>1 DEF Good
<1> QED
  BY <1>5 DEF P

\* In the end all of the log is out.
LEMMA AllOut ==
  ASSUME NEW L, NEW ev, Orderable(L, ev), NEW o
  PROVE  Rebuilt(L, ev, o).done = L
<1>1. Cardinality(L) \in 0..Cardinality(L) /\ IsFiniteSet(L)
  BY FS_CardinalityType DEF Orderable
<1> DEFINE d == Rebuilt(L, ev, o).done
<1>2. d \subseteq L /\ IsFiniteSet(d) /\ Cardinality(d) = Cardinality(L)
  BY <1>1, OutSoFar DEF Rebuilt
<1> HIDE DEF d
<1>3. d = L
  BY <1>1, <1>2, FS_Subset
<1> QED
  BY <1>3 DEF d

\* The contents of a log may be taken from any map that agrees on it.
LEMMA OrderableSub ==
  ASSUME NEW L, NEW M \in SUBSET L, NEW ev, NEW ew, Orderable(L, ev),
         \A e \in M : ev[e] = ew[e]
  PROVE  Orderable(M, ew)
<1>1. IsFiniteSet(M)
  BY FS_Subset DEF Orderable
<1>2. ASSUME NEW X \in SUBSET M, X # {}
      PROVE  \E e \in X : ew[e].parents \cap X = {}
  <2>1. PICK e \in X : ev[e].parents \cap X = {}
    BY <1>2 DEF Orderable
  <2>2. ev[e] = ew[e]
    OBVIOUS
  <2> QED
    BY <2>1, <2>2
<1> QED
  BY <1>1, <1>2 DEF Orderable

\* The order of a part of a log that holds its events' parents does not depend on
\* the rest: one of its events is next there when it is next in the whole log.
LEMMA SameNext ==
  ASSUME NEW L, NEW M \in SUBSET L, NEW ev, NEW ew, Orderable(L, ev),
         \A e \in M : ev[e] = ew[e],
         \A e \in M : ev[e].parents \cap L \subseteq M,
         NEW done \in SUBSET L, ~ (L \subseteq done), NextOut(done, L, ev) \in M
  PROVE  /\ NextOut(done \cap M, M, ew) = NextOut(done, L, ev)
         /\ ~ (M \subseteq done)
<1> DEFINE e == NextOut(done, L, ev)
           f == NextOut(done \cap M, M, ew)
<1>1. e \in Ready(done, L, ev) /\ \A x \in Ready(done, L, ev) : ev[e].id <= ev[x].id
  BY NextOutIsReady
<1>2. e \in M
  OBVIOUS
<1> HIDE DEF e
<1>3. e \notin done
  BY <1>1 DEF Ready
<1>4. ~ (M \subseteq done \cap M)
  BY <1>2, <1>3
<1>5. Orderable(M, ew)
  BY OrderableSub
<1>6. f \in Ready(done \cap M, M, ew) /\ \A x \in Ready(done \cap M, M, ew) : ew[f].id <= ew[x].id
  BY <1>4, <1>5, NextOutIsReady
<1> HIDE DEF f
<1>7. e \in Ready(done \cap M, M, ew)
  <2>1. ew[e] = ev[e]
    BY <1>2
  <2> QED
    BY <1>1, <1>2, <2>1 DEF Ready
<1>8. f \in Ready(done, L, ev)
  <2>1. f \in M /\ f \notin done /\ ew[f].parents \cap M \subseteq done
    BY <1>6 DEF Ready
  <2>2. ew[f] = ev[f] /\ ev[f].parents \cap L \subseteq M
    BY <2>1
  <2> QED
    BY <2>1, <2>2 DEF Ready
<1>9. e \in L /\ f \in L /\ ew[f] = ev[f] /\ ew[e] = ev[e]
  BY <1>2, <1>6 DEF Ready
<1>10. ev[e].id <= ev[f].id /\ ev[f].id <= ev[e].id
  BY <1>1, <1>6, <1>7, <1>8, <1>9
<1>11. ev[e].id \in Nat /\ ev[f].id \in Nat
  BY <1>9 DEF Orderable
<1>12. e = f
  BY <1>9, <1>10, <1>11 DEF Orderable
<1> QED
  BY <1>3, <1>2, <1>12 DEF e, f

\* Events about other objects do not touch the row; events that have the same
\* content do the same to it.
LEMMA TakenOther ==
  ASSUME NEW acc, NEW e, NEW ev, NEW o, ev[e].about # o
  PROVE  /\ Taken(acc, e, ev, o).row = acc.row
         /\ Taken(acc, e, ev, o).refused = acc.refused
         /\ Taken(acc, e, ev, o).done = acc.done \cup {e}
  BY DEF Taken, Applied

\* and on the event's own content only, not on the rest of the table.
LEMMA TakenSame ==
  ASSUME NEW acc, NEW bcc, NEW e, NEW ev, NEW ew, NEW o, ev[e] = ew[e],
         acc.row = bcc.row, acc.refused = bcc.refused
  PROVE  /\ Taken(acc, e, ev, o).row = Taken(bcc, e, ew, o).row
         /\ Taken(acc, e, ev, o).refused = Taken(bcc, e, ew, o).refused
<1>1. Step(acc.row, e, ev) = Step(bcc.row, e, ew)
  BY DEF Step
<1> QED
  BY <1>1 DEF Taken

\* What a rebuild from a part of a log makes of an object all of whose events are
\* in that part is what a rebuild from the whole log makes of it.
LEMMA RebuiltFromPart ==
  ASSUME NEW L, NEW M \in SUBSET L, NEW ev, NEW ew, NEW o \in M, Orderable(L, ev),
         \A e \in M : ev[e] = ew[e],
         \A e \in M : ev[e].parents \cap L \subseteq M,
         \A e \in L \ M : ev[e].about # o
  PROVE  /\ Rebuilt(L, ev, o).row = Rebuilt(M, ew, o).row
         /\ Rebuilt(L, ev, o).refused = Rebuilt(M, ew, o).refused
<1>0. ASSUME NEW d \in SUBSET L, ~ (L \subseteq d), NextOut(d, L, ev) \in M
      PROVE  NextOut(d \cap M, M, ew) = NextOut(d, L, ev) /\ ~ (M \subseteq d)
  <2>1. \A e \in M : ev[e] = ew[e]
    OBVIOUS
  <2>2. \A e \in M : ev[e].parents \cap L \subseteq M
    OBVIOUS
  <2> QED
    BY <1>0, <2>1, <2>2, SameNext
<1> DEFINE N == Cardinality(L)
           K == Cardinality(M)
           F == Replay(L, ev, o)
           G == Replay(M, ew, o)
           Match(n, k) == /\ G[k].done = F[n].done \cap M
                          /\ F[n].row = G[k].row
                          /\ F[n].refused = G[k].refused
           Good == {n \in Nat : n <= N => \E k \in 0..K : Match(n, k)}
<1>1. Orderable(M, ew)
  BY OrderableSub
<1>2. N \in Nat /\ K \in Nat /\ IsFiniteSet(L) /\ IsFiniteSet(M)
  BY <1>1, FS_CardinalityType DEF Orderable
<1>3. \A n \in 0..N : F[n].done \subseteq L /\ IsFiniteSet(F[n].done) /\ Cardinality(F[n].done) = n
  BY OutSoFar
<1>4. \A k \in 0..K : G[k].done \subseteq M /\ IsFiniteSet(G[k].done) /\ Cardinality(G[k].done) = k
  BY <1>1, OutSoFar
<1>5. F[0] = Fresh(o, ev) /\ G[0] = Fresh(o, ew)
  BY <1>2, ReplayUnfolds
<1>6. \A n \in 1..N : F[n] = Taken(F[n - 1], NextOut(F[n - 1].done, L, ev), ev, o)
  BY <1>2, ReplayUnfolds
<1>7. \A k \in 1..K : G[k] = Taken(G[k - 1], NextOut(G[k - 1].done, M, ew), ew, o)
  BY <1>2, ReplayUnfolds
<1> HIDE DEF F, G, N, K
<1>8. 0 \in Good
  <2>1. ev[o] = ew[o]
    OBVIOUS
  <2>2. Match(0, 0)
    BY <1>5, <2>1 DEF Fresh
  <2> QED
    BY <1>2, <2>2
<1>9. ASSUME NEW n \in Nat, n \in Good
      PROVE  n + 1 \in Good
  <2> SUFFICES ASSUME n + 1 <= N
               PROVE  \E k \in 0..K : Match(n + 1, k)
    OBVIOUS
  <2> DEFINE e == NextOut(F[n].done, L, ev)
  <2>1. PICK k \in 0..K : Match(n, k)
    BY <1>2, <1>9
  <2>2. F[n + 1] = Taken(F[n], e, ev, o)
    <3>1. n + 1 \in 1..N /\ (n + 1) - 1 = n
      BY <1>2
    <3> QED
      BY <3>1, <1>6
  <2>3. F[n].done \in SUBSET L /\ ~ (L \subseteq F[n].done)
    <3>1. n \in 0..N /\ n # N
      BY <1>2
    <3>2. F[n].done \subseteq L /\ F[n].done # L
      BY <1>3, <3>1 DEF N
    <3> QED
      BY <3>2
  <2>4. e \in L /\ e \notin F[n].done
    BY <2>3, NextOutIsReady DEF Ready
  <2> HIDE DEF e
  <2>5. F[n + 1].done = F[n].done \cup {e}
    BY <2>2 DEF Taken
  <2>6. CASE e \notin M
    <3>1. ev[e].about # o
      BY <2>4, <2>6
    <3>2. F[n + 1].row = F[n].row /\ F[n + 1].refused = F[n].refused
      BY <3>1, <2>2, TakenOther
    <3>3. Match(n + 1, k)
      BY <2>1, <2>5, <2>6, <3>2
    <3> HIDE DEF Match
    <3> QED
      BY <3>3
  <2>7. CASE e \in M
    <3>1. NextOut(F[n].done \cap M, M, ew) = e /\ ~ (M \subseteq F[n].done)
      BY <2>3, <2>7, <1>0 DEF e
    <3>2. G[k].done = F[n].done \cap M
      BY <2>1
    <3>3. G[k].done # M
      BY <3>1, <3>2
    <3>4. k # K
      BY <1>2, <1>4, <3>3, FS_Subset DEF K
    <3>5. k + 1 \in 1..K /\ (k + 1) - 1 = k
      BY <1>2, <3>4
    <3>6. G[k + 1] = Taken(G[k], e, ew, o)
      BY <1>7, <3>1, <3>2, <3>5
    <3>7. G[k + 1].done = G[k].done \cup {e}
      BY <3>6 DEF Taken
    <3>8. ev[e] = ew[e]
      BY <2>7
    <3>9. F[n].row = G[k].row /\ F[n].refused = G[k].refused
      BY <2>1
    <3>10. F[n + 1].row = G[k + 1].row /\ F[n + 1].refused = G[k + 1].refused
      BY <2>2, <3>6, <3>8, <3>9, TakenSame
    <3>11. G[k + 1].done = F[n + 1].done \cap M
      BY <3>2, <3>7, <2>5, <2>7
    <3>12. Match(n + 1, k + 1)
      BY <3>10, <3>11
    <3>13. k + 1 \in 0..K
      BY <3>5, <1>2
    <3> HIDE DEF Match
    <3> QED
      BY <3>12, <3>13
  <2> QED
    BY <2>6, <2>7
<1>10. PICK k \in 0..K : Match(N, k)
  <2>1. N \in Good
    <3> HIDE DEF Good
    <3> QED
      BY <1>2, <1>8, <1>9, NatSetInduction
  <2> HIDE DEF Match
  <2> QED
    BY <1>2, <2>1
<1>11. F[N].done = L
  BY AllOut DEF F, N, Rebuilt
<1>12. G[k].done = M
  BY <1>10, <1>11
<1>13. k = K
  BY <1>4, <1>12 DEF K
<1>14. F[N].row = G[K].row /\ F[N].refused = G[K].refused
  BY <1>10, <1>13
<1> QED
  BY <1>14 DEF F, G, N, K, Rebuilt
-----------------------------------------------------------------------------
(* The logs and the events in them.                                        *)

Shape ==
  /\ log \in [Gateways -> SUBSET EventId]
  /\ event \in [EventId -> WorkContent]

Prefixes == \A g, a \in Gateways : \E n \in 0..MaxSeq : SeqsBy(log[g], a) = 1..n

\* A log holds events that were posted, and the parents of its events.
CausallyClosed ==
  /\ \A g \in Gateways : log[g] \subseteq Posted
  /\ \A g \in Gateways : \A e \in log[g] : event[e].parents \subseteq log[g]

DistinctIds ==
  /\ \A e \in Posted : event[e].id \in 1..MaxEvents
  /\ \A e, f \in Posted : event[e].id = event[f].id => e = f

\* Ancestry has no cycle: some event of every set is without a parent in it, and
\* some is without a child in it.
Acyclic ==
  \A X \in SUBSET Posted : X # {} =>
    /\ \E e \in X : event[e].parents \cap X = {}
    /\ \E e \in X : \A c \in X : e \notin event[c].parents

\* What _post_event and its callers give an event: ev has its content.
Fitting(ev, e, L) ==
  /\ ev[e].kind \in Kinds
  /\ \/ ev[e].verb = "created" /\ ev[e].about = e
     \/ LET o == ev[e].about IN
        /\ ev[e].verb # "created" /\ o \in L /\ o # e
        /\ ev[o].verb = "created" /\ ev[o].kind = ev[e].kind
        /\ ev[e].kind = "decision" <=> ev[e].verb = "voted"
  /\ ev[e].verb = "voted" => ev[e].choice > 0
  /\ ev[e].verb = "claimed" => ev[e].kind = "task"

WellFormed == \A e \in Posted : Fitting(event, e, Posted)

ClosedUnderParents(ev, D) == \A x \in D : ev[x].parents \subseteq D

\* Among the ancestors of an event is everything its author posted to its space before.
OwnPastIsAncestral ==
  \A D \in SUBSET Posted : ClosedUnderParents(event, D) =>
    \A f \in D, e \in Posted :
      /\ Author(e) = Author(f) /\ AuthorSeq(e) < AuthorSeq(f)
      /\ event[e].space = event[f].space
      => e \in D

HistInv ==
  /\ Shape
  /\ Prefixes
  /\ CausallyClosed
  /\ DistinctIds
  /\ Acyclic
  /\ WellFormed
  /\ OwnPastIsAncestral

ConflictsLogged ==
  /\ conflicts \in [Gateways -> SUBSET EventId]
  /\ \A g \in Gateways : conflicts[g] \subseteq log[g]

\* A row is the initial one until its object's creation is in the log.
RowsStart ==
  /\ row = [g \in Gateways |-> [o \in EventId |-> row[g][o]]]
  /\ \A g \in Gateways : \A o \in EventId \ (Objects \cap log[g]) : row[g][o] = NoRow(o)

RowInv ==
  /\ ConflictsLogged
  /\ RowsStart
  /\ RowsAreCurrent

ProjInv == HistInv /\ RowInv
-----------------------------------------------------------------------------
(* Every step appends one event to one log.                                *)

Appends(g, e) ==
  /\ g \in Gateways /\ e \in EventId /\ e \notin log[g]
  /\ \E n \in Nat : SeqsBy(log[g], Author(e)) = 1..n /\ AuthorSeq(e) = n + 1
  /\ log' = [log EXCEPT ![g] = @ \cup {e}]
  /\ event' \in [EventId -> WorkContent]
  /\ \A x \in EventId \ {e} : event'[x] = event[x]
  /\ event'[e].parents \subseteq log[g]
  /\ Project(g, log[g] \cup {e}, event', e)
  /\ \/ e \in Posted /\ event' = event
     \/ /\ e \notin Posted /\ Author(e) = g
        /\ event'[e].id \in 1..MaxEvents
        /\ \A x \in Posted : event[x].id # event'[e].id
        /\ event'[e].parents = Heads(log[g], event, event'[e].space)
        /\ Fitting(event', e, Posted \cup {e})

\* What the callers of _post_event pass to it.
Passed(g, c) ==
  /\ \E kind \in Kinds, verb \in {"created", "claimed", "updated", "voted", "field_set"},
       o \in EventId, v \in 0..MaxVersion, st \in Statuses \cup {"none"}, x \in 0..(Options + 1) :
       c = Body(kind, verb, o, v, st, x)
  /\ \/ c.verb = "created" /\ c.about = NewEvent(g)
     \/ LET o == c.about IN
        /\ c.verb # "created" /\ o \in Posted
        /\ event[o].verb = "created" /\ event[o].kind = c.kind
        /\ c.kind = "decision" <=> c.verb = "voted"
  /\ c.verb = "voted" => c.choice > 0
  /\ c.verb = "claimed" => c.kind = "task"

\* The next event of a gateway has an identifier nobody has used: its number
\* follows everything of that author in any log.
LEMMA NewEventIsNew ==
  ASSUME Shape, Prefixes, NEW g \in Gateways, AuthorSeq(NewEvent(g)) <= MaxSeq
  PROVE  /\ NewEvent(g) \in EventId /\ NewEvent(g) \notin log[g] /\ NewEvent(g) \notin Posted
         /\ Author(NewEvent(g)) = g
         /\ \E n \in Nat : SeqsBy(log[g], g) = 1..n /\ AuthorSeq(NewEvent(g)) = n + 1
<1>1. PICK n \in 0..MaxSeq : SeqsBy(log[g], g) = 1..n
  BY DEF Prefixes
<1>2. n \in Nat
  BY MaxSeqAssumption
<1>3. NextSeq(log[g], g) = n + 1
  BY <1>1, <1>2, NextSeqOfPrefix
<1>4. NewEvent(g) = <<g, n + 1>>
  BY <1>3 DEF NewEvent
<1>5. NewEvent(g) \in EventId /\ Author(NewEvent(g)) = g /\ AuthorSeq(NewEvent(g)) = n + 1
  BY <1>2, <1>4, MaxSeqAssumption DEF EventId, Author, AuthorSeq
<1>6. NewEvent(g) \notin log[g]
  <2>1. log[g] \in SUBSET EventId
    BY DEF Shape
  <2>2. n + 1 \notin 1..n
    BY <1>2
  <2> QED
    BY <2>1, <2>2, <1>1, <1>5, SeqsByMember
<1>7. NewEvent(g) \notin Posted
  BY <1>5, <1>6 DEF Posted
<1> QED
  BY <1>1, <1>2, <1>5, <1>6, <1>7

\* post_work and the appends of the task, decision and document calls add one event
\* to the log of the caller, ahead of everything it holds.
LEMMA PostAppends ==
  ASSUME Shape, Prefixes, NEW g \in Gateways, NEW s \in Spaces, NEW b \in Scopes, NEW id \in FreshIds(b),
         NEW c, Passed(g, c), Post(g, s, id, c)
  PROVE  \E e : Appends(g, e)
<1> DEFINE Full(e) == [space |-> s, parents |-> Heads(log[g], event, s), id |-> id, kind |-> c.kind,
                       verb |-> c.verb, about |-> c.about, expected |-> c.expected,
                       status |-> c.status, choice |-> c.choice]
<1>1. PICK e : e = NewEvent(g)
  OBVIOUS
<1>2. AuthorSeq(e) <= MaxSeq /\ event' = [event EXCEPT ![e] = Full(e)]
  BY <1>1, Zenon DEF Post
<1>3. AppendEvent(g, e, event')
  BY <1>1, <1>2, Zenon DEF Post
<1>4. /\ e \in EventId /\ e \notin log[g] /\ e \notin Posted /\ Author(e) = g
      /\ \E n \in Nat : SeqsBy(log[g], g) = 1..n /\ AuthorSeq(e) = n + 1
  BY <1>1, <1>2, NewEventIsNew
<1>5. log' = [log EXCEPT ![g] = @ \cup {e}] /\ Project(g, log[g] \cup {e}, event', e)
  BY <1>3, Zenon DEF AppendEvent
<1>6. event \in [EventId -> WorkContent] /\ log[g] \in SUBSET EventId
  BY DEF Shape
<1>7. Heads(log[g], event, s) \subseteq log[g]
  BY HeadsInLog
<1>8. id \in 1..MaxEvents /\ \A x \in Posted : event[x].id # id
  BY BoundsAssumption DEF FreshIds
<1>9. PICK kind \in Kinds, verb \in {"created", "claimed", "updated", "voted", "field_set"},
           o \in EventId, v \in 0..MaxVersion, st \in Statuses \cup {"none"}, x \in 0..(Options + 1) :
             c = Body(kind, verb, o, v, st, x)
  BY DEF Passed
<1>10. /\ c.kind = kind /\ c.verb = verb /\ c.about = o /\ c.expected = v
       /\ c.status = st /\ c.choice = x
  BY <1>9 DEF Body
<1>11. Full(e) \in WorkContent
  <2>1. Heads(log[g], event, s) \in SUBSET EventId
    BY <1>6, <1>7
  <2>2. id \in 0..MaxEvents
    BY <1>8
  <2> HIDE DEF Passed
  <2> QED
    BY <2>1, <2>2, <1>10 DEF WorkContent
<1>12. event' \in [EventId -> WorkContent]
  <2> HIDE DEF Full
  <2> QED
    BY <1>2, <1>4, <1>6, <1>11
<1>13. event'[e] = Full(e) /\ \A y \in EventId \ {e} : event'[y] = event[y]
  <2> HIDE DEF Full
  <2> QED
    BY <1>2, <1>4, <1>6
<1>14. Fitting(event', e, Posted \cup {e})
  <2>1. /\ event'[e].kind = kind /\ event'[e].verb = verb /\ event'[e].about = o
        /\ event'[e].choice = x
    BY <1>10, <1>13
  <2>2. \/ verb = "created" /\ o = e
        \/ /\ verb # "created" /\ o \in Posted
           /\ event[o].verb = "created" /\ event[o].kind = kind
           /\ kind = "decision" <=> verb = "voted"
    BY <1>1, <1>10 DEF Passed
  <2>3. (verb = "voted" => x > 0) /\ (verb = "claimed" => kind = "task")
    BY <1>10 DEF Passed
  <2>4. CASE verb = "created" /\ o = e
    BY <2>1, <2>3, <2>4 DEF Fitting
  <2>5. CASE /\ verb # "created" /\ o \in Posted
             /\ event[o].verb = "created" /\ event[o].kind = kind
             /\ kind = "decision" <=> verb = "voted"
    <3>1. o # e
      BY <1>4, <2>5
    <3>2. event'[o] = event[o]
      BY <1>13, <3>1
    <3> QED
      BY <2>1, <2>3, <2>5, <3>1, <3>2 DEF Fitting
  <2> QED
    BY <2>2, <2>4, <2>5
<1>15. /\ event'[e].id = id /\ event'[e].space = s
       /\ event'[e].parents = Heads(log[g], event, s)
  BY <1>13
<1>16. Appends(g, e)
  <2> HIDE DEF Full, Passed
  <2> QED
    BY <1>4, <1>5, <1>7, <1>8, <1>12, <1>13, <1>14, <1>15 DEF Appends
<1> QED
  BY <1>16

\* sync adds one posted event to a log that has its parents and its author's past.
LEMMA AcceptAppends ==
  ASSUME Shape, Prefixes, NEW g \in Gateways, NEW e \in Posted, Accept(g, e)
  PROVE  Appends(g, e)
<1>1. e \in EventId /\ Author(e) \in Gateways
  BY DEF Posted, EventId, Author
<1>2. PICK n \in 0..MaxSeq : SeqsBy(log[g], Author(e)) = 1..n
  BY <1>1 DEF Prefixes
<1>3. n \in Nat
  BY MaxSeqAssumption
<1>4. Verdict(log[g], event, e) = "accept"
  BY DEF Accept
<1>5. e \notin log[g] /\ AuthorSeq(e) = n + 1
  BY <1>1, <1>2, <1>3, <1>4, AcceptedIsNext
<1>6. event[e].parents \subseteq log[g]
  BY <1>4 DEF Verdict
<1>7. event' = event
  BY DEF Accept
<1>8. log' = [log EXCEPT ![g] = @ \cup {e}] /\ Project(g, log[g] \cup {e}, event, e)
  BY Zenon DEF Accept, AppendEvent
<1>9. event \in [EventId -> WorkContent]
  BY DEF Shape
<1> QED
  BY <1>1, <1>2, <1>3, <1>5, <1>6, <1>7, <1>8, <1>9 DEF Appends

\* Every call and every arriving copy appends one event.
LEMMA NextAppends ==
  ASSUME HistInv, Next
  PROVE  \E g, e : Appends(g, e)
<1>0. Shape /\ Prefixes /\ CausallyClosed /\ WellFormed
  BY DEF HistInv
<1>b. PICK b \in Scopes :
        \/ \E g \in b.gateways, id \in FreshIds(b), s \in b.spaces :
             \/ \E kind \in Room(b) : Create(g, s, id, kind)
             \/ \E o \in Known(b, "task"), v \in 1..MaxVersion : Claim(g, s, id, o, v)
             \/ \E o \in Known(b, "task") \cup Known(b, "commitment"),
                  v \in 1..MaxVersion, st \in b.statuses : Advance(g, s, id, o, v, st)
             \/ \E o \in Known(b, "decision"), x \in 1..(Options + 1) : Vote(g, s, id, o, x)
             \/ \E o \in Known(b, "document") : SetField(g, s, id, o)
        \/ \E g \in b.gateways, e \in Posted : Accept(g, e)
  BY Zenon DEF Next
<1>c. b.gateways \subseteq Gateways /\ b.spaces \subseteq Spaces /\ b.statuses \subseteq Statuses
  BY BoundsAssumption
<1>d. Room(b) \subseteq Kinds
  BY DEF Room
<1>1. ASSUME NEW g \in b.gateways, NEW id \in FreshIds(b), NEW kind \in Room(b), NEW s \in b.spaces,
             Create(g, s, id, kind)
      PROVE  \E e : Appends(g, e)
  <2>1. PICK c : c = Body(kind, "created", NewEvent(g), 0, "none", 0)
    OBVIOUS
  <2>2. Post(g, s, id, c)
    BY <1>1, <2>1, Zenon DEF Create
  <2>3. NewEvent(g) \in EventId
    <3>1. AuthorSeq(NewEvent(g)) <= MaxSeq
      BY <2>2, Zenon DEF Post
    <3> QED
      BY <1>0, <1>c, <3>1, NewEventIsNew
  <2>4. 0 \in 0..MaxVersion /\ 0 \in 0..(Options + 1)
    BY BoundsAssumption, DecisionsAssumption
  <2>5. Passed(g, c)
    BY <1>d, <2>1, <2>3, <2>4 DEF Passed, Body
  <2> QED
    BY <1>0, <1>1, <1>c, <2>2, <2>5, PostAppends
<1>2. ASSUME NEW g \in b.gateways, NEW id \in FreshIds(b), NEW s \in b.spaces, NEW c, NEW o,
             NEW kind, NEW verb \in {"claimed", "updated", "voted", "field_set"},
             NEW v \in 0..MaxVersion, NEW st \in Statuses \cup {"none"}, NEW x \in 0..(Options + 1),
             c = Body(kind, verb, o, v, st, x), o \in Known(b, kind),
             kind = "decision" <=> verb = "voted", verb = "voted" => x > 0, verb = "claimed" => kind = "task",
             Post(g, s, id, c)
      PROVE  \E e : Appends(g, e)
  <2>1. o \in Posted /\ event[o].verb = "created" /\ event[o].kind = kind /\ o \in EventId
    BY <1>2 DEF Known, Objects, Posted
  <2>2. kind \in Kinds
    BY <1>0, <2>1 DEF WellFormed, Fitting
  <2>3. Passed(g, c)
    BY <1>2, <2>1, <2>2 DEF Passed, Body
  <2> QED
    BY <1>0, <1>2, <1>c, <2>3, PostAppends
<1>3. 1..MaxVersion \subseteq 0..MaxVersion /\ 0 \in 0..MaxVersion /\ 0 \in 0..(Options + 1)
  BY BoundsAssumption, DecisionsAssumption
<1>4. ASSUME NEW g \in b.gateways, NEW id \in FreshIds(b), NEW s \in b.spaces,
             NEW o \in Known(b, "task"), NEW v \in 1..MaxVersion, Claim(g, s, id, o, v)
      PROVE  \E e : Appends(g, e)
  <2>1. PICK c : c = Body("task", "claimed", o, v, "none", 0)
    OBVIOUS
  <2>2. Post(g, s, id, c)
    BY <1>4, <2>1, Zenon DEF Claim
  <2>3. v \in 0..MaxVersion
    BY <1>3
  <2> QED
    BY <1>2, <1>3, <2>1, <2>2, <2>3
<1>5. ASSUME NEW g \in b.gateways, NEW id \in FreshIds(b), NEW s \in b.spaces,
             NEW o \in Known(b, "task") \cup Known(b, "commitment"), NEW v \in 1..MaxVersion,
             NEW st \in b.statuses, Advance(g, s, id, o, v, st)
      PROVE  \E e : Appends(g, e)
  <2>1. PICK kind \in {"task", "commitment"} : o \in Known(b, kind)
    OBVIOUS
  <2>2. event[o].kind = kind
    BY <2>1 DEF Known
  <2>3. PICK c : c = Body(event[o].kind, "updated", o, v, st, 0)
    OBVIOUS
  <2>4. Post(g, s, id, c)
    BY <1>5, <2>3, Zenon DEF Advance
  <2>5. v \in 0..MaxVersion /\ st \in Statuses \cup {"none"}
    BY <1>3, <1>c
  <2>6. c = Body(kind, "updated", o, v, st, 0)
    BY <2>2, <2>3
  <2> QED
    BY <1>2, <1>3, <2>1, <2>4, <2>5, <2>6
<1>6. ASSUME NEW g \in b.gateways, NEW id \in FreshIds(b), NEW s \in b.spaces,
             NEW o \in Known(b, "decision"), NEW x \in 1..(Options + 1), Vote(g, s, id, o, x)
      PROVE  \E e : Appends(g, e)
  <2>1. PICK c : c = Body("decision", "voted", o, 0, "none", x)
    OBVIOUS
  <2>2. Post(g, s, id, c)
    BY <1>6, <2>1, Zenon DEF Vote
  <2>3. x \in 0..(Options + 1) /\ x > 0
    BY DecisionsAssumption
  <2> QED
    BY <1>2, <1>3, <2>1, <2>2, <2>3
<1>7. ASSUME NEW g \in b.gateways, NEW id \in FreshIds(b), NEW s \in b.spaces,
             NEW o \in Known(b, "document"), SetField(g, s, id, o)
      PROVE  \E e : Appends(g, e)
  <2>1. PICK c : c = Body("document", "field_set", o, 0, "none", 0)
    OBVIOUS
  <2>2. Post(g, s, id, c)
    BY <1>7, <2>1, Zenon DEF SetField
  <2> QED
    BY <1>2, <1>3, <2>1, <2>2
<1>8. ASSUME NEW g \in b.gateways, NEW e \in Posted, Accept(g, e)
      PROVE  \E f : Appends(g, f)
  BY <1>0, <1>8, <1>c, AcceptAppends
<1> QED
  BY <1>b, <1>1, <1>4, <1>5, <1>6, <1>7, <1>8
-----------------------------------------------------------------------------
(* What a step leaves true of the logs.                                    *)

\* A head that is among the ancestors brings everything of its space with it.
LEMMA HeadsDominate ==
  ASSUME Acyclic, NEW L \in SUBSET Posted, NEW s, NEW D, ClosedUnderParents(event, D),
         Heads(L, event, s) \subseteq D, NEW x \in L, event[x].space = s
  PROVE  x \in D
<1> DEFINE X == {y \in L : event[y].space = s /\ y \notin D}
<1> SUFFICES ASSUME x \notin D
             PROVE  FALSE
  OBVIOUS
<1>1. X \in SUBSET Posted /\ X # {}
  OBVIOUS
<1>2. PICK m \in X : \A c \in X : m \notin event[c].parents
  BY <1>1 DEF Acyclic
<1>3. ASSUME NEW c \in L, event[c].space = s, m \in event[c].parents
      PROVE  FALSE
  <2>1. c \notin D
    BY <1>3 DEF ClosedUnderParents
  <2> QED
    BY <1>2, <1>3, <2>1
<1>4. m \in Heads(L, event, s)
  BY <1>3 DEF Heads
<1> QED
  BY <1>4

\* What a step changes, in terms of the events.
LEMMA AppendPosted ==
  ASSUME HistInv, NEW g, NEW e, Appends(g, e)
  PROVE  /\ Posted' = Posted \cup {e}
         /\ e \in EventId /\ g \in Gateways
         /\ log'[g] = log[g] \cup {e}
         /\ \A h \in Gateways \ {g} : log'[h] = log[h]
         /\ \A x \in EventId \ {e} : event'[x] = event[x]
         /\ log[g] \subseteq Posted
         /\ \A h \in Gateways : log[h] \in SUBSET EventId
<1>1. log \in [Gateways -> SUBSET EventId]
  BY DEF HistInv, Shape
<1>2. /\ e \in EventId /\ g \in Gateways /\ log' = [log EXCEPT ![g] = @ \cup {e}]
      /\ \A x \in EventId \ {e} : event'[x] = event[x]
      /\ e \in Posted \/ Author(e) = g
  BY DEF Appends
<1>3. log[g] \subseteq Posted
  BY <1>2 DEF HistInv, CausallyClosed
<1>4. \A x \in EventId : Author(x) \in Gateways
  BY DEF EventId, Author
<1>5. \A x \in EventId : x \in log'[Author(x)] <=> x \in log[Author(x)] \/ x = e
  <2>1. ASSUME NEW x \in EventId
        PROVE  x \in log'[Author(x)] <=> x \in log[Author(x)] \/ (x = e /\ Author(e) = g)
    BY <1>1, <1>2, <1>4
  <2>2. e \in log[Author(e)] \/ Author(e) = g
    BY <1>2 DEF Posted
  <2> QED
    BY <2>1, <2>2
<1>6. Posted' = Posted \cup {e}
  BY <1>2, <1>5 DEF Posted
<1> QED
  BY <1>1, <1>2, <1>3, <1>6

\* An appended event continues its author's prefix.
LEMMA AppendShape ==
  ASSUME HistInv, NEW g, NEW e, Appends(g, e)
  PROVE  Shape' /\ Prefixes'
<1>1. log \in [Gateways -> SUBSET EventId] /\ Prefixes
  BY DEF HistInv, Shape
<1>2. /\ e \in EventId /\ g \in Gateways /\ log' = [log EXCEPT ![g] = @ \cup {e}]
      /\ event' \in [EventId -> WorkContent]
      /\ \E n \in Nat : SeqsBy(log[g], Author(e)) = 1..n /\ AuthorSeq(e) = n + 1
  BY DEF Appends
<1>3. Shape'
  BY <1>1, <1>2 DEF Shape
<1>4. ASSUME NEW h \in Gateways, NEW a \in Gateways
      PROVE  \E n \in 0..MaxSeq : SeqsBy(log'[h], a) = 1..n
  <2>1. CASE h # g
    BY <1>1, <1>2, <2>1 DEF Prefixes
  <2>2. CASE h = g
    <3>1. log'[h] = log[g] \cup {e} /\ log[g] \in SUBSET EventId
      BY <1>1, <1>2, <2>2
    <3>2. \E k \in 0..MaxSeq : SeqsBy(log[g], a) = 1..k
      BY <1>1, <1>2 DEF Prefixes
    <3>3. \E k \in 0..MaxSeq : SeqsBy(log[g] \cup {e}, a) = 1..k
      BY <1>2, <3>1, <3>2, PrefixExtends
    <3> QED
      BY <3>1, <3>3
  <2> QED
    BY <2>1, <2>2
<1> QED
  BY <1>3, <1>4 DEF Prefixes

\* A log that is closed under parents stays so, and digests stay distinct.
LEMMA AppendClosed ==
  ASSUME HistInv, NEW g, NEW e, Appends(g, e)
  PROVE  CausallyClosed' /\ DistinctIds'
<1>1. /\ Posted' = Posted \cup {e} /\ e \in EventId /\ g \in Gateways
      /\ log'[g] = log[g] \cup {e} /\ \A h \in Gateways \ {g} : log'[h] = log[h]
      /\ \A x \in EventId \ {e} : event'[x] = event[x]
      /\ \A h \in Gateways : log[h] \in SUBSET EventId
  BY AppendPosted
<1>2. CausallyClosed /\ DistinctIds
  BY DEF HistInv
<1>3. event'[e].parents \subseteq log[g]
  BY DEF Appends
<1>4. \/ e \in Posted /\ event' = event
      \/ /\ e \notin Posted /\ event'[e].id \in 1..MaxEvents
         /\ \A x \in Posted : event[x].id # event'[e].id
  BY DEF Appends
<1>5. Posted \subseteq EventId
  BY DEF Posted
<1>6. ASSUME NEW h \in Gateways
      PROVE  /\ log'[h] \subseteq Posted'
             /\ \A x \in log'[h] : event'[x].parents \subseteq log'[h]
  <2>1. log[h] \subseteq Posted /\ \A x \in log[h] : event[x].parents \subseteq log[h]
    BY <1>2 DEF CausallyClosed
  <2>2. \A x \in log[h] : x # e => event'[x] = event[x]
    BY <1>1
  <2>3. e \in log[h] => event'[e] = event[e]
    BY <1>4, <2>1
  <2>4. \A x \in log[h] : event'[x].parents \subseteq log[h]
    BY <2>1, <2>2, <2>3
  <2>5. CASE h = g
    BY <1>1, <1>3, <2>1, <2>4, <2>5
  <2>6. CASE h # g
    BY <1>1, <2>1, <2>4, <2>6
  <2> QED
    BY <2>5, <2>6
<1>7. CausallyClosed'
  BY <1>6 DEF CausallyClosed
<1>8. DistinctIds'
  <2>1. CASE e \in Posted /\ event' = event
    BY <1>1, <1>2, <2>1 DEF DistinctIds
  <2>2. CASE /\ e \notin Posted /\ event'[e].id \in 1..MaxEvents
             /\ \A x \in Posted : event[x].id # event'[e].id
    <3>1. \A x \in Posted : event'[x] = event[x]
      BY <1>1, <1>5, <2>2
    <3> QED
      BY <1>1, <1>2, <2>2, <3>1 DEF DistinctIds
  <2> QED
    BY <1>4, <2>1, <2>2
<1> QED
  BY <1>7, <1>8

\* A new event is nobody's parent yet, so no set of events gets caught in a cycle.
LEMMA AppendAcyclic ==
  ASSUME HistInv, NEW g, NEW e, Appends(g, e)
  PROVE  Acyclic'
<1>1. /\ Posted' = Posted \cup {e} /\ log[g] \subseteq Posted
      /\ \A x \in EventId \ {e} : event'[x] = event[x]
  BY AppendPosted
<1>2. Acyclic /\ CausallyClosed
  BY DEF HistInv
<1>3. CASE e \in Posted /\ event' = event
  BY <1>1, <1>2, <1>3 DEF Acyclic
<1>4. CASE e \notin Posted
  <2>1. event'[e].parents \subseteq Posted
    BY <1>1 DEF Appends
  <2>2. \A x \in Posted : x \in EventId /\ event'[x] = event[x] /\ event[x].parents \subseteq Posted
    <3>1. ASSUME NEW x \in Posted
          PROVE  x \in EventId /\ Author(x) \in Gateways /\ x \in log[Author(x)]
      BY DEF Posted, EventId, Author
    <3> QED
      BY <1>1, <1>2, <1>4, <3>1 DEF CausallyClosed
  <2>3. ASSUME NEW X \in SUBSET Posted', X # {}
        PROVE  \E x \in X : event'[x].parents \cap X = {}
    <3>1. CASE X = {e}
      BY <1>4, <2>1, <3>1
    <3>2. CASE X # {e}
      <4>1. X \ {e} \in SUBSET Posted /\ X \ {e} # {}
        BY <1>1, <2>3, <3>2
      <4>2. PICK x \in X \ {e} : event[x].parents \cap (X \ {e}) = {}
        BY <1>2, <4>1 DEF Acyclic
      <4>3. event'[x].parents = event[x].parents /\ e \notin event[x].parents
        BY <1>4, <2>2, <4>1
      <4> QED
        BY <4>2, <4>3
    <3> QED
      BY <3>1, <3>2
  <2>4. ASSUME NEW X \in SUBSET Posted', X # {}
        PROVE  \E x \in X : \A c \in X : x \notin event'[c].parents
    <3>1. CASE e \in X
      <4>1. \A c \in X : e \notin event'[c].parents
        BY <1>1, <1>4, <2>1, <2>2
      <4> QED
        BY <3>1, <4>1
    <3>2. CASE e \notin X
      <4>1. X \in SUBSET Posted
        BY <1>1, <3>2
      <4>2. PICK x \in X : \A c \in X : x \notin event[c].parents
        BY <1>2, <2>4, <4>1 DEF Acyclic
      <4> QED
        BY <2>2, <4>1, <4>2
    <3> QED
      BY <3>1, <3>2
  <2> QED
    BY <2>3, <2>4 DEF Acyclic
<1> QED
  BY <1>3, <1>4 DEF Appends

\* What was accepted when it was posted stays well formed: nothing rewrites an event.
LEMMA AppendWellFormed ==
  ASSUME HistInv, NEW g, NEW e, Appends(g, e)
  PROVE  WellFormed'
<1>1. /\ Posted' = Posted \cup {e} /\ log[g] \subseteq Posted
      /\ \A x \in EventId \ {e} : event'[x] = event[x]
  BY AppendPosted
<1>2. WellFormed /\ Posted \subseteq EventId
  BY DEF HistInv, Posted
<1>3. CASE e \in Posted /\ event' = event
  BY <1>1, <1>2, <1>3 DEF WellFormed, Fitting
<1>4. CASE e \notin Posted /\ Fitting(event', e, Posted \cup {e})
  <2>1. \A x \in Posted : event'[x] = event[x]
    BY <1>1, <1>2, <1>4
  <2>2. ASSUME NEW x \in Posted
        PROVE  Fitting(event', x, Posted \cup {e})
    <3>1. Fitting(event, x, Posted) /\ event'[x] = event[x]
      BY <1>2, <2>1 DEF WellFormed
    <3>2. event[x].about \in Posted => event'[event[x].about] = event[event[x].about]
      BY <2>1
    <3> QED
      BY <3>1, <3>2 DEF Fitting
  <2>3. Fitting(event', e, Posted \cup {e})
    BY <1>4
  <2> QED
    BY <1>1, <2>2, <2>3 DEF WellFormed
<1> QED
  BY <1>3, <1>4 DEF Appends

\* An event keeps its author's earlier events of the space among its ancestors, because
\* its parents are the heads of its author's log.
LEMMA AppendOwnPast ==
  ASSUME HistInv, NEW g, NEW e, Appends(g, e)
  PROVE  OwnPastIsAncestral'
<1>1. /\ Posted' = Posted \cup {e} /\ log[g] \subseteq Posted /\ e \in EventId
      /\ \A x \in EventId \ {e} : event'[x] = event[x]
      /\ g \in Gateways /\ log[g] \in SUBSET EventId
  BY AppendPosted
<1>2. Acyclic /\ CausallyClosed /\ OwnPastIsAncestral /\ Posted \subseteq EventId
  BY DEF HistInv, Posted
<1>3. CASE e \in Posted /\ event' = event
  <2>1. Posted' = Posted
    BY <1>1, <1>3
  <2> QED
    BY <1>2, <1>3, <2>1 DEF OwnPastIsAncestral, ClosedUnderParents
<1>4. CASE /\ e \notin Posted /\ Author(e) = g
           /\ event'[e].parents = Heads(log[g], event, event'[e].space)
  <2>1. \A x \in Posted : event'[x] = event[x] /\ event[x].parents \subseteq Posted
    <3>1. ASSUME NEW x \in Posted
          PROVE  x \in EventId /\ Author(x) \in Gateways /\ x \in log[Author(x)]
      BY DEF Posted, EventId, Author
    <3> QED
      BY <1>1, <1>2, <1>4, <3>1 DEF CausallyClosed
  <2>2. \A x \in Posted : Author(x) = g => x \in log[g] /\ AuthorSeq(x) < AuthorSeq(e)
    <3>1. PICK n \in Nat : SeqsBy(log[g], g) = 1..n /\ AuthorSeq(e) = n + 1
      BY <1>4 DEF Appends
    <3>2. ASSUME NEW x \in Posted, Author(x) = g
          PROVE  x \in log[g] /\ AuthorSeq(x) \in 1..n
      <4>1. x \in log[g] /\ x \in EventId
        BY <3>2 DEF Posted
      <4> QED
        BY <1>1, <3>1, <3>2, <4>1, SeqsByMember
    <3> QED
      BY <3>1, <3>2
  <2>3. ASSUME NEW D \in SUBSET (Posted \cup {e}), ClosedUnderParents(event', D),
               NEW f \in D, NEW d \in Posted \cup {e},
               Author(d) = Author(f), AuthorSeq(d) < AuthorSeq(f), event'[d].space = event'[f].space
        PROVE  d \in D
    <3> DEFINE D0 == D \ {e}
    <3>1. D0 \in SUBSET Posted
      OBVIOUS
    <3>2. ClosedUnderParents(event, D0)
      <4>1. ASSUME NEW x \in D0
            PROVE  event[x].parents \subseteq D0
        <5>1. event'[x] = event[x] /\ event[x].parents \subseteq Posted /\ x \in D
          BY <2>1, <3>1
        <5>2. event[x].parents \subseteq D
          BY <2>3, <5>1 DEF ClosedUnderParents
        <5> QED
          BY <1>4, <5>1, <5>2
      <4> QED
        BY <4>1 DEF ClosedUnderParents
    <3>3. AuthorSeq(d) \in Nat /\ AuthorSeq(f) \in Nat /\ AuthorSeq(e) \in Nat
      BY <1>1, <1>2 DEF EventId, AuthorSeq
    <3>4. CASE f # e
      <4>1. d # e
        BY <1>4, <2>2, <2>3, <3>3, <3>4
      <4>2. f \in D0 /\ d \in Posted /\ event[d].space = event[f].space
        BY <2>1, <2>3, <3>1, <3>4, <4>1
      <4>3. d \in D0
        BY <1>2, <2>3, <3>1, <3>2, <4>2 DEF OwnPastIsAncestral
      <4> QED
        BY <4>3
    <3>5. CASE f = e
      <4>1. d # e
        BY <2>3, <3>3, <3>5
      <4>2. d \in log[g] /\ event[d].space = event'[e].space
        BY <1>4, <2>1, <2>2, <2>3, <3>5, <4>1
      <4>3. Heads(log[g], event, event'[e].space) \subseteq D
        BY <1>4, <2>3, <3>5 DEF ClosedUnderParents
      <4>4. Heads(log[g], event, event'[e].space) \subseteq D0
        BY <1>1, <1>4, <4>3, HeadsInLog
      <4> HIDE DEF D0
      <4>5. d \in D0
        BY <1>1, <1>2, <3>2, <4>2, <4>4, HeadsDominate
      <4> QED
        BY <4>5 DEF D0
    <3> QED
      BY <3>4, <3>5
  <2> QED
    BY <1>1, <2>3 DEF OwnPastIsAncestral
<1> QED
  BY <1>3, <1>4 DEF Appends

\* Whatever a step appends, histories stay histories.
LEMMA AppendHist ==
  ASSUME HistInv, NEW g, NEW e, Appends(g, e)
  PROVE  HistInv'
  BY AppendShape, AppendClosed, AppendAcyclic, AppendWellFormed, AppendOwnPast DEF HistInv
-----------------------------------------------------------------------------
(* The rows.                                                               *)

\* Identifiers bound the number of events, so that every log is finite.
LEMMA PostedFinite ==
  ASSUME HistInv
  PROVE  IsFiniteSet(Posted) /\ Cardinality(Posted) <= MaxEvents
<1> DEFINE f == [e \in Posted |-> event[e].id]
<1>1. f \in Injection(Posted, 1..MaxEvents)
  BY DEF HistInv, DistinctIds, Injection, IsInjective
<1>2. IsFiniteSet(1..MaxEvents) /\ Cardinality(1..MaxEvents) = MaxEvents
  BY BoundsAssumption, FS_Interval
<1> HIDE DEF f
<1> QED
  BY <1>1, <1>2, FS_Injection

\* Every set of posted events can be put in the deterministic order.
LEMMA LogOrderable ==
  ASSUME HistInv, NEW L \in SUBSET Posted
  PROVE  Orderable(L, event) /\ Cardinality(L) \in Nat /\ Cardinality(L) <= MaxEvents
<1>1. IsFiniteSet(L) /\ Cardinality(L) <= Cardinality(Posted)
  BY PostedFinite, FS_Subset
<1>2. Cardinality(L) \in Nat /\ Cardinality(Posted) \in Nat
  BY <1>1, PostedFinite, FS_CardinalityType
<1>3. DistinctIds /\ Acyclic
  BY DEF HistInv
<1>4. Orderable(L, event)
  BY <1>1, <1>3 DEF Orderable, DistinctIds, Acyclic
<1> QED
  BY <1>1, <1>2, <1>4, PostedFinite, BoundsAssumption

\* Only later events about the object are refused.
LEMMA RefusedAreAbout ==
  ASSUME NEW L, NEW ev, NEW o, Orderable(L, ev)
  PROVE  Rebuilt(L, ev, o).refused \subseteq {x \in L : ev[x].about = o /\ x # o}
<1> DEFINE N == Cardinality(L)
           F == Replay(L, ev, o)
           P(n) == F[n].refused \subseteq {x \in L : ev[x].about = o /\ x # o}
           Good == {n \in Nat : n <= N => P(n)}
<1>1. N \in Nat /\ IsFiniteSet(L)
  BY FS_CardinalityType DEF Orderable
<1>2. F[0] = Fresh(o, ev)
  BY <1>1, ReplayUnfolds
<1>3. \A n \in 1..N : F[n] = Taken(F[n - 1], NextOut(F[n - 1].done, L, ev), ev, o)
  BY <1>1, ReplayUnfolds
<1>4. \A n \in 0..N : F[n].done \subseteq L /\ IsFiniteSet(F[n].done) /\ Cardinality(F[n].done) = n
  BY OutSoFar
<1> HIDE DEF F
<1>5. 0 \in Good
  BY <1>2 DEF Fresh
<1>6. ASSUME NEW n \in Nat, n \in Good
      PROVE  n + 1 \in Good
  <2> SUFFICES ASSUME n + 1 <= N
               PROVE  P(n + 1)
    OBVIOUS
  <2>1. P(n)
    BY <1>1, <1>6
  <2>2. PICK e : e = NextOut(F[n].done, L, ev)
    OBVIOUS
  <2>3. F[n + 1] = Taken(F[n], e, ev, o)
    <3>1. n + 1 \in 1..N /\ (n + 1) - 1 = n
      BY <1>1
    <3> QED
      BY <3>1, <1>3, <2>2
  <2>4. e \in L
    <3>1. n \in 0..N /\ n # N
      BY <1>1
    <3>2. ~ (L \subseteq F[n].done)
      BY <1>4, <3>1
    <3> QED
      BY <2>2, <3>2, NextOutIsReady DEF Ready
  <2>5. F[n + 1].refused \subseteq F[n].refused
          \cup (IF ev[e].about # o \/ e = o THEN {} ELSE {e})
    BY <2>3 DEF Taken, Applied
  <2> QED
    BY <2>1, <2>4, <2>5
<1>7. N \in Good
  <2> HIDE DEF Good
  <2> QED
    BY <1>1, <1>5, <1>6, NatSetInduction
<1>8. P(N)
  BY <1>1, <1>7
<1> QED
  BY <1>8 DEF F, Rebuilt

\* A step leaves the content of what is in a log.
LEMMA AppendKeepsEvents ==
  ASSUME HistInv, NEW g, NEW e, Appends(g, e), NEW h \in Gateways, NEW x \in log[h]
  PROVE  event'[x] = event[x] /\ x \in Posted /\ x \in EventId
<1>1. x \in Posted
  BY DEF HistInv, CausallyClosed
<1>2. CASE x = e
  BY <1>1, <1>2 DEF Appends, Posted
<1>3. CASE x # e
  BY <1>1, <1>3 DEF Appends, Posted
<1> QED
  BY <1>2, <1>3

\* What append_event does to rows and conflicts, as one of two cases.
LEMMA ProjectCases ==
  ASSUME NEW g, NEW L, NEW ev, NEW e, Project(g, L, ev, e)
  PROVE  LET o == ev[e].about IN
         \/ o \notin L /\ UNCHANGED <<row, conflicts>>
         \/ /\ o \in L
            /\ row' = [row EXCEPT ![g] = [@ EXCEPT ![o] = Rebuilt(L, ev, o).row]]
            /\ conflicts' = [conflicts EXCEPT ![g] = {x \in @ : ev[x].about # o}
                                                      \cup Rebuilt(L, ev, o).refused]
  BY DEF Project

\* After an append the row of the object the event is about is rebuilt, and the rows of
\* all the other objects did not depend on it.
LEMMA AppendRows ==
  ASSUME HistInv, RowInv, HistInv', NEW g, NEW e, Appends(g, e)
  PROVE  RowInv'
<1> DEFINE L == log[g] \cup {e}
<1>1. /\ Posted' = Posted \cup {e} /\ e \in EventId /\ g \in Gateways
      /\ log'[g] = log[g] \cup {e} /\ \A h \in Gateways \ {g} : log'[h] = log[h]
      /\ \A h \in Gateways : log[h] \in SUBSET EventId
  BY AppendPosted
<1>2. \A h \in Gateways : \A x \in log[h] :
        event'[x] = event[x] /\ x \in Posted /\ x \in EventId
  BY AppendKeepsEvents
<1>3. ConflictsLogged /\ RowsStart /\ RowsAreCurrent
  BY DEF RowInv
<1>4. PICK ev : ev = event'
  OBVIOUS
<1>5. PICK o : o = ev[e].about
  OBVIOUS
<1>6. PICK b : b = Rebuilt(L, ev, o)
  OBVIOUS
<1>7. \/ o \notin L /\ row' = row /\ conflicts' = conflicts
      \/ /\ o \in L
         /\ row' = [row EXCEPT ![g] = [@ EXCEPT ![o] = b.row]]
         /\ conflicts' = [conflicts EXCEPT ![g] = {x \in @ : ev[x].about # o} \cup b.refused]
  <2>1. Project(g, L, ev, e)
    BY <1>4 DEF Appends
  <2> HIDE DEF L
  <2> QED
    BY <2>1, <1>5, <1>6, ProjectCases
<1>8. L \in SUBSET Posted' /\ L \in SUBSET EventId
  BY <1>1, <1>2
<1>9. Orderable(L, ev)
  <2>1. \A M \in SUBSET Posted' : Orderable(M, event')
    <3> SUFFICES ASSUME NEW M \in SUBSET Posted'
                 PROVE  Orderable(M, event')
      OBVIOUS
    <3>1. IsFiniteSet(Posted')
      BY <1>1, PostedFinite, FS_AddElement
    <3>2. IsFiniteSet(M)
      BY <3>1, FS_Subset
    <3>3. DistinctIds' /\ Acyclic'
      BY DEF HistInv
    <3> QED
      BY <3>2, <3>3 DEF Orderable, DistinctIds, Acyclic
  <2> QED
    BY <1>4, <1>8, <2>1
<1>10. b.refused \subseteq {x \in L : ev[x].about = o /\ x # o}
  BY <1>6, <1>9, RefusedAreAbout
<1>11. /\ \A h \in Gateways : log[h] \subseteq log'[h]
       /\ Objects \subseteq Objects'
       /\ \A h \in Gateways : \A p \in log[h] : p \in Objects' => p \in Objects
  <2>1. \A x \in Posted : event'[x] = event[x]
    <3>1. \A x \in Posted : Author(x) \in Gateways /\ x \in log[Author(x)]
      BY DEF Posted, EventId, Author
    <3> QED
      BY <1>2, <3>1
  <2>2. Objects \subseteq Objects'
    BY <1>1, <2>1 DEF Objects
  <2>3. \A h \in Gateways : \A p \in log[h] : p \in Objects' => p \in Objects
    BY <1>2 DEF Objects
  <2>4. \A h \in Gateways : log[h] \subseteq log'[h]
    BY <1>1
  <2> QED
    BY <2>2, <2>3, <2>4
<1>12. o \in L => o \in Objects' /\ o \in log'[g]
  <2>1. Fitting(ev, e, Posted')
    BY <1>1, <1>4 DEF HistInv, WellFormed
  <2>2. o \in Posted' /\ ev[o].verb = "created"
    BY <1>1, <1>5, <2>1 DEF Fitting
  <2> QED
    BY <1>1, <1>4, <2>2 DEF Objects
<1>13. ConflictsLogged'
  <2>1. CASE row' = row /\ conflicts' = conflicts
    BY <1>1, <1>3, <2>1, <1>11 DEF ConflictsLogged
  <2>2. CASE conflicts' = [conflicts EXCEPT ![g] = {x \in @ : ev[x].about # o} \cup b.refused]
    <3>1. {x \in conflicts[g] : ev[x].about # o} \cup b.refused \subseteq L
      BY <1>1, <1>3, <1>10 DEF ConflictsLogged
    <3>2. conflicts' \in [Gateways -> SUBSET EventId]
      BY <1>1, <1>3, <1>8, <2>2, <3>1 DEF ConflictsLogged
    <3>3. ASSUME NEW h \in Gateways
          PROVE  conflicts'[h] \subseteq log'[h]
      <4>1. CASE h = g
        BY <1>1, <1>3, <2>2, <3>1, <4>1 DEF ConflictsLogged
      <4>2. CASE h # g
        BY <1>1, <1>3, <2>2, <4>2 DEF ConflictsLogged
      <4> QED
        BY <4>1, <4>2
    <3> QED
      BY <3>2, <3>3 DEF ConflictsLogged
  <2> QED
    BY <1>7, <2>1, <2>2
<1>14. /\ row' = [h \in Gateways |-> [p \in EventId |-> row'[h][p]]]
       /\ \A h \in Gateways, p \in EventId :
            ~ (o \in L /\ h = g /\ p = o) => row'[h][p] = row[h][p]
       /\ o \in L => row'[g][o] = b.row
  <2>1. row = [h \in Gateways |-> [p \in EventId |-> row[h][p]]]
    BY <1>3 DEF RowsStart
  <2>2. CASE o \notin L /\ row' = row
    BY <2>1, <2>2
  <2>3. CASE o \in L /\ row' = [row EXCEPT ![g] = [@ EXCEPT ![o] = b.row]]
    <3> HIDE DEF L
    <3>1. row' = [h \in Gateways |-> IF h = g THEN [row[g] EXCEPT ![o] = b.row] ELSE row[h]]
      BY <2>1, <2>3
    <3>2. [row[g] EXCEPT ![o] = b.row] = [p \in EventId |-> IF p = o THEN b.row ELSE row[g][p]]
      BY <1>1, <2>1
    <3>3. \A h \in Gateways : h # g => row[h] = [p \in EventId |-> row[h][p]]
      BY <2>1
    <3>4. row' = [h \in Gateways |-> [p \in EventId |->
                   IF h = g /\ p = o THEN b.row ELSE row[h][p]]]
      BY <3>1, <3>2, <3>3
    <3>5. o \in EventId
      BY <1>8, <2>3
    <3>6. \A h \in Gateways, p \in EventId :
            row'[h][p] = IF h = g /\ p = o THEN b.row ELSE row[h][p]
      BY <3>4
    <3>7. row' = [h \in Gateways |-> [p \in EventId |-> row'[h][p]]]
      BY <3>4
    <3> QED
      BY <1>1, <2>3, <3>5, <3>6, <3>7
  <2> QED
    BY <1>7, <2>2, <2>3
<1>15. RowsStart'
  <2>1. ASSUME NEW h \in Gateways, NEW p \in EventId \ (Objects' \cap log'[h])
        PROVE  row'[h][p] = NoRow(p)
    <3>1. p \notin Objects \cap log[h]
      BY <1>11
    <3>2. row[h][p] = NoRow(p)
      BY <1>3, <3>1 DEF RowsStart
    <3>3. ~ (o \in L /\ h = g /\ p = o)
      BY <1>12
    <3> QED
      BY <1>14, <3>2, <3>3
  <2> QED
    BY <1>14, <2>1 DEF RowsStart
<1>16. ASSUME NEW h \in Gateways, NEW p \in (Objects \cap log[h])',
              ~ (o \in L /\ h = g /\ p = o)
       PROVE  /\ row'[h][p] = Rebuilt(log'[h], ev, p).row
              /\ conflicts'[h] \cap About(EventId, p)' = Rebuilt(log'[h], ev, p).refused
  <2> USE <1>4
  <2>1. p \in log[h]
    <3>1. CASE p = e /\ h = g
      <4>1. ev[e].verb = "created"
        BY <3>1 DEF Objects
      <4>2. Fitting(ev, e, Posted')
        BY <1>1 DEF HistInv, WellFormed
      <4>3. o = e
        BY <1>5, <4>1, <4>2 DEF Fitting
      <4> QED
        BY <1>16, <3>1, <4>3
    <3> QED
      BY <1>1, <3>1
  <2>2. p \in Objects /\ p \in EventId
    BY <1>2, <1>11, <2>1
  <2>3. row[h][p] = Rebuilt(log[h], event, p).row
        /\ conflicts[h] \cap About(EventId, p) = Rebuilt(log[h], event, p).refused
    BY <1>3, <2>1, <2>2 DEF RowsAreCurrent
  <2>4. row'[h][p] = row[h][p]
    BY <1>14, <1>16, <2>2
  <2>5. h = g => e \in log[h] \/ ev[e].about # p
    <3> SUFFICES ASSUME h = g
                 PROVE  ev[e].about # p
      OBVIOUS
    <3>1. o # p
      BY <1>16, <2>1
    <3> QED
      BY <1>5, <3>1
  <2>6. \A x \in log'[h] \ log[h] : ev[x].about # p
    BY <1>1, <2>5
  <2>7. Orderable(log'[h], ev)
    <3>1. CASE h = g
      BY <1>1, <1>9, <3>1
    <3>2. CASE h # g
      <4>1. log[h] \in SUBSET Posted
        BY <1>2
      <4>2. Orderable(log[h], event)
        BY <4>1, LogOrderable
      <4>3. Orderable(log[h], ev)
        BY <1>2, <4>2, OrderableSub
      <4> QED
        BY <1>1, <3>2, <4>3
    <3> QED
      BY <3>1, <3>2
  <2>8. \A x \in log[h] : ev[x] = event[x]
    BY <1>2
  <2>9. \A x \in log[h] : ev[x].parents \cap log'[h] \subseteq log[h]
    BY <2>8 DEF HistInv, CausallyClosed
  <2>10. log[h] \in SUBSET log'[h]
    BY <1>11
  <2>11. PICK K : K = log'[h]
    OBVIOUS
  <2>12. /\ Rebuilt(K, ev, p).row = Rebuilt(log[h], event, p).row
         /\ Rebuilt(K, ev, p).refused = Rebuilt(log[h], event, p).refused
    BY <2>1, <2>6, <2>7, <2>8, <2>9, <2>10, <2>11, RebuiltFromPart
  <2>13. conflicts'[h] \cap About(EventId, p)' = conflicts[h] \cap About(EventId, p)
    <3>1. conflicts[h] \subseteq log[h] /\ conflicts \in [Gateways -> SUBSET EventId]
      BY <1>3 DEF ConflictsLogged
    <3>2. \A x \in conflicts[h] : ev[x] = event[x] /\ x \in EventId
      BY <1>2, <3>1
    <3>3. conflicts[h] \cap About(EventId, p)' = conflicts[h] \cap About(EventId, p)
      BY <3>2 DEF About
    <3>4. CASE conflicts' = conflicts \/ h # g
      <4>1. conflicts'[h] = conflicts[h]
        BY <1>7, <3>1, <3>4
      <4> QED
        BY <3>3, <4>1
    <3>5. CASE /\ o \in L /\ h = g
               /\ conflicts' = [conflicts EXCEPT ![g] = {x \in @ : ev[x].about # o} \cup b.refused]
      <4>1. conflicts'[h] = {x \in conflicts[h] : ev[x].about # o} \cup b.refused
        BY <3>1, <3>5
      <4>2. o # p
        BY <1>16, <3>5
      <4>3. About(EventId, p)' = {x \in EventId : ev[x].about = p}
        BY DEF About
      <4>4. b.refused \cap About(EventId, p)' = {}
        BY <1>10, <4>2, <4>3
      <4>5. {x \in conflicts[h] : ev[x].about # o} \cap About(EventId, p)'
              = conflicts[h] \cap About(EventId, p)'
        BY <4>2, <4>3
      <4> QED
        BY <3>3, <4>1, <4>4, <4>5
    <3> QED
      BY <1>7, <3>4, <3>5
  <2> QED
    BY <2>3, <2>4, <2>11, <2>12, <2>13
<1>17. o \in L => /\ row'[g][o] = Rebuilt(log'[g], ev, o).row
                  /\ conflicts'[g] \cap About(EventId, o)' = Rebuilt(log'[g], ev, o).refused
  <2> SUFFICES ASSUME o \in L
               PROVE  /\ row'[g][o] = b.row
                      /\ conflicts'[g] \cap About(EventId, o)' = b.refused
    BY <1>1, <1>6
  <2>1. conflicts'[g] = {x \in conflicts[g] : ev[x].about # o} \cup b.refused
    BY <1>1, <1>3, <1>7 DEF ConflictsLogged
  <2>2. About(EventId, o)' = {x \in EventId : ev[x].about = o}
    BY <1>4 DEF About
  <2>3. b.refused \subseteq About(EventId, o)'
    BY <1>8, <1>10, <2>2
  <2> QED
    BY <1>14, <2>1, <2>2, <2>3
<1>18. RowsAreCurrent'
  <2> SUFFICES ASSUME NEW h \in Gateways, NEW p \in (Objects \cap log[h])'
               PROVE  /\ row'[h][p] = Rebuilt(log'[h], event', p).row
                      /\ conflicts'[h] \cap About(EventId, p)' = Rebuilt(log'[h], event', p).refused
    BY Zenon DEF RowsAreCurrent
  <2>1. CASE o \in L /\ h = g /\ p = o
    BY <1>4, <1>17, <2>1
  <2>2. CASE ~ (o \in L /\ h = g /\ p = o)
    BY <1>4, <1>16, <2>2
  <2> QED
    BY <2>1, <2>2
<1> QED
  BY <1>13, <1>15, <1>18 DEF RowInv
-----------------------------------------------------------------------------
(* What a rebuild makes of the events.                                     *)

\* Of several options one has most votes and is the first of those that have.
LEMMA ResolutionTyped ==
  ASSUME NEW votes \in [Gateways -> 0..Options]
  PROVE  Resolution(votes) \in 0..Options
<1> DEFINE count(o) == Cardinality({a \in Gateways : votes[a] = o})
           winners == {o \in 1..Options : count(o) >= Threshold}
           Best(o) == \A q \in winners : count(o) > count(q) \/ (count(o) = count(q) /\ o <= q)
           n == Cardinality(Gateways)
<1>1. Options \in Nat /\ n \in Nat
  BY DecisionsAssumption, GatewaysFinite, FS_CardinalityType
<1>2. \A o \in winners : count(o) \in Nat /\ count(o) <= n
  <2> SUFFICES ASSUME NEW o \in winners
               PROVE  count(o) \in Nat /\ count(o) <= n
    OBVIOUS
  <2>1. {a \in Gateways : votes[a] = o} \in SUBSET Gateways
    OBVIOUS
  <2>2. IsFiniteSet({a \in Gateways : votes[a] = o}) /\ count(o) <= n
    BY <2>1, GatewaysFinite, FS_Subset
  <2> QED
    BY <2>2, FS_CardinalityType
<1>3. Resolution(votes) = IF winners = {} THEN 0 ELSE CHOOSE o \in winners : Best(o)
  BY DEF Resolution
<1> HIDE DEF count, n
<1>4. ASSUME winners # {}
      PROVE  \E o \in winners : Best(o)
  <2> DEFINE short == {n - count(o) : o \in winners}
  <2>1. short \in SUBSET Nat /\ short # {}
    BY <1>1, <1>2, <1>4
  <2>2. PICK m \in short : \A k \in short : m <= k
    BY <2>1, LeastElement
  <2>3. PICK w \in winners : m = n - count(w)
    OBVIOUS
  <2>4. \A q \in winners : count(w) >= count(q)
    BY <1>1, <1>2, <2>2, <2>3
  <2> DEFINE most == {o \in winners : count(o) = count(w)}
  <2>5. most \in SUBSET Nat /\ most # {}
    BY <1>1, <2>3
  <2>6. PICK o \in most : \A q \in most : o <= q
    BY <2>5, LeastElement
  <2>7. \A q \in winners : count(o) > count(q) \/ (count(o) = count(q) /\ o <= q)
    BY <1>2, <2>4, <2>6
  <2> QED
    BY <2>7
<1>5. CASE winners = {}
  BY <1>1, <1>3, <1>5
<1>6. CASE winners # {}
  <2> HIDE DEF Best
  <2>1. Resolution(votes) \in winners
    BY <1>3, <1>4, <1>6
  <2> QED
    BY <1>1, <2>1
<1> QED
  BY <1>5, <1>6

\* A row of an object of a kind, its version still unbounded.
RowOf(kind) ==
  [status : ValidStatus(kind), assignee : SUBSET Gateways, version : Nat, updated : EventId,
   votes : [Gateways -> 0..Options], resolution : 0..Options]

Versioned == {"task", "commitment"}

\* A new object's row is typed.
LEMMA NewRowTyped ==
  ASSUME NEW o \in EventId, NEW kind \in Kinds
  PROVE  /\ NewRow(o, kind) \in RowOf(kind)
         /\ NewRow(o, kind).version = IF kind \in Versioned THEN 1 ELSE 0
         /\ NewRow(o, kind).votes = [a \in Gateways |-> 0]
<1>1. "open" \in ValidStatus(kind)
  BY KindsAssumption DEF ValidStatus
<1>2. Options \in Nat
  BY DecisionsAssumption
<1>3. [a \in Gateways |-> 0] \in [Gateways -> 0..Options]
  BY <1>2
<1>4. PICK zero, v : zero = [a \in Gateways |-> 0] /\ v = IF kind \in Versioned THEN 1 ELSE 0
  OBVIOUS
<1>5. PICK q : q = NoRow(o)
  OBVIOUS
<1>6. NewRow(o, kind) = [q EXCEPT !.status = "open", !.version = v]
  BY <1>4, <1>5 DEF NewRow, Versioned
<1>7. q = [status |-> "none", assignee |-> {}, version |-> 0, updated |-> o, votes |-> zero,
           resolution |-> 0]
  BY <1>4, <1>5 DEF NoRow
<1>8. zero \in [Gateways -> 0..Options] /\ v \in Nat /\ 0 \in 0..Options
  BY <1>2, <1>3, <1>4
<1> DEFINE Wide == [status : ValidStatus(kind) \cup {"none"}, assignee : SUBSET Gateways,
                    version : Nat, updated : EventId, votes : [Gateways -> 0..Options],
                    resolution : 0..Options]
           new == [q EXCEPT !.status = "open", !.version = v]
<1>9. q \in Wide
  BY <1>7, <1>8
<1>10. new \in Wide /\ new.status = "open" /\ new.version = v /\ new.votes = q.votes
  BY <1>1, <1>8, <1>9
<1> HIDE DEF new
<1>11. new \in RowOf(kind)
  BY <1>1, <1>10 DEF RowOf
<1>12. q.votes = zero
  BY <1>7
<1> QED
  BY <1>4, <1>6, <1>10, <1>11, <1>12 DEF new

\* An event of a kind leaves a row of that kind, and a versioned row shows it as a
\* version unless it is refused.
LEMMA StepTyped ==
  ASSUME NEW kind \in Kinds, NEW r \in RowOf(kind), NEW e \in EventId, NEW ev,
         ev[e].kind = kind, ev[e].verb = "claimed" => kind = "task",
         ev[e].choice \in Nat
  PROVE  LET s == Step(r, e, ev) IN
         /\ s.row \in RowOf(kind) /\ s.conflict \in BOOLEAN
         /\ s.row.version = IF kind \in Versioned /\ ~s.conflict THEN r.version + 1 ELSE r.version
<1> DEFINE c == ev[e]
<1>1. Author(e) \in Gateways
  BY DEF EventId, Author
<1>2. Refused(r).row = r /\ Refused(r).conflict = TRUE
  BY DEF Refused
<1>3. \A q : Applied(q).row = q /\ Applied(q).conflict = FALSE
  BY DEF Applied
<1>4. CASE kind \in Versioned
  <2>1. Step(r, e, ev) = VersionedStep(r, e, c)
    BY <1>4 DEF Step, Versioned
  <2>0. PICK v : v = r.version + 1
    OBVIOUS
  <2> DEFINE claimed == [r EXCEPT !.status = "claimed", !.assignee = {Author(e)},
                                  !.version = v, !.updated = e]
             updated == [r EXCEPT !.status = c.status, !.version = v, !.updated = e]
  <2>9. v \in Nat
    BY <2>0 DEF RowOf
  <2>2. \/ VersionedStep(r, e, c) = Refused(r)
        \/ c.verb = "claimed" /\ VersionedStep(r, e, c) = Applied(claimed)
        \/ c.status \in ValidStatus(kind) /\ VersionedStep(r, e, c) = Applied(updated)
    BY <2>0 DEF VersionedStep
  <2>3. CASE VersionedStep(r, e, c) = Refused(r)
    BY <1>2, <2>1, <2>3
  <2>4. CASE c.verb = "claimed" /\ VersionedStep(r, e, c) = Applied(claimed)
    <3>1. "claimed" \in ValidStatus(kind)
      BY <2>4 DEF ValidStatus
    <3>2. claimed \in RowOf(kind) /\ claimed.version = v
      BY <1>1, <2>9, <3>1 DEF RowOf
    <3> HIDE DEF claimed
    <3> QED
      BY <1>3, <1>4, <2>0, <2>1, <2>4, <3>2
  <2>5. CASE c.status \in ValidStatus(kind) /\ VersionedStep(r, e, c) = Applied(updated)
    <3>1. updated \in RowOf(kind) /\ updated.version = v
      BY <2>5, <2>9 DEF RowOf
    <3> HIDE DEF updated
    <3> QED
      BY <1>3, <1>4, <2>0, <2>1, <2>5, <3>1
  <2> QED
    BY <2>2, <2>3, <2>4, <2>5
<1>5. CASE kind = "decision"
  <2>1. Step(r, e, ev) = VoteStep(r, e, c)
    BY <1>5 DEF Step
  <2>2. CASE c.choice \notin 1..Options
    BY <1>2, <1>5, <2>1, <2>2 DEF VoteStep, Versioned
  <2>3. CASE c.choice \in 1..Options
    <3> DEFINE votes == [r.votes EXCEPT ![Author(e)] = c.choice]
               voted == [r EXCEPT !.votes = votes, !.updated = e, !.resolution = Resolution(votes),
                                  !.status = IF Resolution(votes) = 0 THEN "open" ELSE "decided"]
    <3>1. VoteStep(r, e, c) = Applied(voted)
      BY <2>3 DEF VoteStep
    <3>2. votes \in [Gateways -> 0..Options]
      BY <1>1, <2>3, DecisionsAssumption DEF RowOf
    <3>3. Resolution(votes) \in 0..Options
      BY <3>2, ResolutionTyped
    <3>4. {"open", "decided"} \subseteq ValidStatus(kind)
      BY <1>5 DEF ValidStatus
    <3> HIDE DEF votes
    <3>5. voted \in RowOf(kind) /\ voted.version = r.version
      BY <3>2, <3>3, <3>4 DEF RowOf
    <3>6. Step(r, e, ev) = Applied(voted)
      BY <2>1, <3>1
    <3> HIDE DEF voted
    <3> QED
      BY <1>3, <1>5, <3>5, <3>6 DEF Versioned
  <2> QED
    BY <2>2, <2>3
<1>6. CASE kind = "document"
  <2>1. Step(r, e, ev) = FieldStep(r, e, c.about)
    BY <1>6 DEF Step
  <2>2. \/ FieldStep(r, e, c.about) = Applied(r)
        \/ FieldStep(r, e, c.about) = Applied([r EXCEPT !.updated = e])
    BY DEF FieldStep
  <2>3. [r EXCEPT !.updated = e] \in RowOf(kind) /\ [r EXCEPT !.updated = e].version = r.version
    BY DEF RowOf
  <2>4. kind \notin Versioned
    BY <1>6 DEF Versioned
  <2>5. CASE FieldStep(r, e, c.about) = Applied(r)
    BY <1>3, <2>1, <2>4, <2>5
  <2>6. CASE FieldStep(r, e, c.about) = Applied([r EXCEPT !.updated = e])
    <3> DEFINE dated == [r EXCEPT !.updated = e]
    <3> HIDE DEF dated
    <3>1. Step(r, e, ev) = Applied(dated)
      BY <2>1, <2>6 DEF dated
    <3>2. dated \in RowOf(kind) /\ dated.version = r.version
      BY <2>3 DEF dated
    <3> QED
      BY <1>3, <2>4, <3>1, <3>2
  <2> QED
    BY <2>2, <2>5, <2>6
<1> QED
  BY <1>4, <1>5, <1>6, KindsAssumption DEF Versioned

\* One round of a rebuild takes an event that is not out but whose parents are.
LEMMA Round ==
  ASSUME NEW L, NEW ev, NEW o, Orderable(L, ev), NEW n \in Nat, n + 1 <= Cardinality(L)
  PROVE  \E e \in L \ Replay(L, ev, o)[n].done :
           /\ ev[e].parents \cap L \subseteq Replay(L, ev, o)[n].done
           /\ Replay(L, ev, o)[n + 1] = Taken(Replay(L, ev, o)[n], e, ev, o)
           /\ Replay(L, ev, o)[n + 1].done = Replay(L, ev, o)[n].done \cup {e}
<1> DEFINE N == Cardinality(L)
           F == Replay(L, ev, o)
<1>1. N \in Nat /\ IsFiniteSet(L)
  BY FS_CardinalityType DEF Orderable
<1>2. n \in 0..N /\ n # N /\ n + 1 \in 1..N /\ (n + 1) - 1 = n
  BY <1>1
<1>3. PICK e : e = NextOut(F[n].done, L, ev)
  OBVIOUS
<1>4. F[n + 1] = Taken(F[n], e, ev, o)
  BY <1>1, <1>2, <1>3, ReplayUnfolds
<1>5. ~ (L \subseteq F[n].done)
  <2>1. F[n].done \subseteq L /\ Cardinality(F[n].done) = n
    BY <1>1, <1>2, OutSoFar
  <2> HIDE DEF F
  <2>2. F[n].done # L
    BY <1>2, <2>1
  <2> QED
    BY <2>1, <2>2
<1> HIDE DEF F
<1>6. e \in Ready(F[n].done, L, ev)
  BY <1>3, <1>5, NextOutIsReady
<1>7. F[n + 1].done = F[n].done \cup {e}
  BY <1>4 DEF Taken
<1> QED
  BY <1>4, <1>6, <1>7 DEF F, Ready

\* What a rebuild makes of an object is a row of its kind, and every event about a
\* versioned object has made a version of it or is refused.
LEMMA RebuiltCounts ==
  ASSUME NEW L \in SUBSET EventId, NEW ev, NEW o \in L, Orderable(L, ev),
         ev[o].about = o, ev[o].kind \in Kinds,
         \A e \in L : ev[e].about = o =>
           /\ ev[e].kind = ev[o].kind /\ ev[e].choice \in Nat
           /\ ev[e].verb = "claimed" => ev[e].kind = "task"
  PROVE  LET b == Rebuilt(L, ev, o)
             A == {e \in L : ev[e].about = o} IN
         /\ b.row \in RowOf(ev[o].kind)
         /\ IF ev[o].kind \in Versioned
            THEN b.row.version + Cardinality(b.refused) = Cardinality(A)
            ELSE b.row.version = 0
         /\ IsFiniteSet(b.refused)
<1> DEFINE N == Cardinality(L)
           F == Replay(L, ev, o)
           A == {e \in L : ev[e].about = o}
           kind == ev[o].kind
           Out(n) == (F[n].done \cap A) \cup {o}
           P(n) == /\ F[n].row \in RowOf(kind)
                   /\ IsFiniteSet(F[n].refused) /\ F[n].refused \subseteq F[n].done
                   /\ IF kind \in Versioned
                      THEN F[n].row.version + Cardinality(F[n].refused) = Cardinality(Out(n))
                      ELSE F[n].row.version = 0
           Good == {n \in Nat : n <= N => P(n)}
<1>1. N \in Nat /\ IsFiniteSet(L)
  BY FS_CardinalityType DEF Orderable
<1>2. F[0] = Fresh(o, ev)
  BY <1>1, ReplayUnfolds
<1>3. F[N].done = L
  BY AllOut DEF Rebuilt
<1>4. \A n \in Nat : n + 1 <= N =>
        \E e \in L \ F[n].done : /\ F[n + 1] = Taken(F[n], e, ev, o)
                                /\ F[n + 1].done = F[n].done \cup {e}
  BY Round
<1>5. \A n : IsFiniteSet(Out(n)) /\ Cardinality(Out(n)) \in Nat
  <2> SUFFICES ASSUME NEW n
               PROVE  IsFiniteSet(Out(n)) /\ Cardinality(Out(n)) \in Nat
    OBVIOUS
  <2>1. Out(n) \in SUBSET L
    OBVIOUS
  <2> HIDE DEF Out
  <2> QED
    BY <1>1, <2>1, FS_Subset, FS_CardinalityType
<1> HIDE DEF F
<1>6. 0 \in Good
  <2>1. F[0].done = {} /\ F[0].row = NewRow(o, kind) /\ F[0].refused = {}
    BY <1>2 DEF Fresh
  <2>2. Out(0) = {o} /\ Cardinality({o}) = 1
    BY <2>1, FS_Singleton
  <2>3. IsFiniteSet({}) /\ Cardinality({}) = 0
    BY FS_EmptySet
  <2>4. o \in EventId
    OBVIOUS
  <2>5. NewRow(o, kind) \in RowOf(kind)
        /\ NewRow(o, kind).version = IF kind \in Versioned THEN 1 ELSE 0
    BY <2>4, NewRowTyped
  <2> HIDE DEF Out, kind
  <2>6. F[0].row \in RowOf(kind) /\ F[0].row.version = IF kind \in Versioned THEN 1 ELSE 0
    BY <2>1, <2>5
  <2>7. Cardinality(Out(0)) = 1 /\ Cardinality(F[0].refused) = 0 /\ IsFiniteSet(F[0].refused)
    BY <2>1, <2>2, <2>3
  <2>8. F[0].refused \subseteq F[0].done
    BY <2>1
  <2>9. P(0)
    BY <2>6, <2>7, <2>8
  <2> HIDE DEF P
  <2> QED
    BY <2>9
<1>7. ASSUME NEW n \in Nat, n \in Good
      PROVE  n + 1 \in Good
  <2> SUFFICES ASSUME n + 1 <= N
               PROVE  P(n + 1)
    OBVIOUS
  <2>1. P(n)
    BY <1>1, <1>7
  <2>2. PICK e \in L \ F[n].done : F[n + 1] = Taken(F[n], e, ev, o)
                                 /\ F[n + 1].done = F[n].done \cup {e}
    BY <1>4
  <2>3. CASE ev[e].about # o \/ e = o
    <3>1. F[n + 1].row = F[n].row /\ F[n + 1].refused = F[n].refused
      BY <2>2, <2>3 DEF Taken, Applied
    <3>2. Out(n + 1) = Out(n)
      BY <2>2, <2>3
    <3> HIDE DEF Out
    <3> QED
      BY <2>1, <2>2, <3>1, <3>2
  <2>4. CASE ev[e].about = o /\ e # o
    <3>1. PICK s : s = Step(F[n].row, e, ev)
      OBVIOUS
    <3>2. /\ F[n + 1].row = s.row
          /\ F[n + 1].refused = IF s.conflict THEN F[n].refused \cup {e} ELSE F[n].refused
      BY <2>2, <2>4, <3>1 DEF Taken
    <3>3. /\ s.row \in RowOf(kind) /\ s.conflict \in BOOLEAN
          /\ s.row.version = IF kind \in Versioned /\ ~s.conflict
                             THEN F[n].row.version + 1 ELSE F[n].row.version
      <4>1. /\ e \in EventId /\ ev[e].kind = kind /\ ev[e].choice \in Nat
            /\ ev[e].verb = "claimed" => kind = "task"
        BY <2>4
      <4> HIDE DEF kind
      <4> QED
        BY <2>1, <3>1, <4>1, StepTyped DEF kind
    <3>4. Out(n + 1) = Out(n) \cup {e} /\ e \notin Out(n)
      BY <2>2, <2>4
    <3>5. Cardinality(Out(n + 1)) = Cardinality(Out(n)) + 1
      <4> HIDE DEF Out
      <4> QED
        BY <1>5, <3>4, FS_AddElement
    <3>6. e \notin F[n].refused
      BY <2>1, <2>2
    <3>7. /\ IsFiniteSet(F[n].refused \cup {e})
          /\ Cardinality(F[n].refused \cup {e}) = Cardinality(F[n].refused) + 1
          /\ Cardinality(F[n].refused) \in Nat
      BY <2>1, <3>6, FS_AddElement, FS_CardinalityType
    <3>8. F[n].row.version \in Nat
      BY <2>1 DEF RowOf
    <3>9. F[n + 1].refused \subseteq F[n + 1].done /\ IsFiniteSet(F[n + 1].refused)
      BY <2>1, <2>2, <3>2, <3>7
    <3>10. PICK v, w, k, m : /\ v = F[n].row.version /\ w = F[n + 1].row.version
                            /\ k = Cardinality(F[n].refused) /\ m = Cardinality(F[n + 1].refused)
      OBVIOUS
    <3>11. CASE kind \in Versioned
      <4>1. v + k = Cardinality(Out(n)) /\ v \in Nat /\ k \in Nat
        BY <2>1, <3>7, <3>8, <3>10, <3>11
      <4>2. CASE s.conflict
        <5>1. w = v /\ m = k + 1
          BY <3>2, <3>3, <3>7, <3>10, <4>2
        <5>2. w + m = Cardinality(Out(n + 1))
          <6> HIDE DEF Out
          <6> QED
            BY <3>5, <4>1, <5>1
        <5> HIDE DEF Out, kind
        <5> QED
          BY <3>2, <3>3, <3>9, <3>10, <3>11, <5>2
      <4>3. CASE ~s.conflict
        <5>1. w = v + 1 /\ m = k
          BY <3>2, <3>3, <3>10, <3>11, <4>3
        <5>2. w + m = Cardinality(Out(n + 1))
          <6> HIDE DEF Out
          <6> QED
            BY <3>5, <4>1, <5>1
        <5> HIDE DEF Out, kind
        <5> QED
          BY <3>2, <3>3, <3>9, <3>10, <3>11, <5>2
      <4> QED
        BY <4>2, <4>3
    <3>12. CASE kind \notin Versioned
      BY <2>1, <3>2, <3>3, <3>9, <3>12
    <3> QED
      BY <3>11, <3>12
  <2> QED
    BY <2>3, <2>4
<1>8. P(N)
  <2>1. N \in Good
    <3> HIDE DEF Good
    <3> QED
      BY <1>1, <1>6, <1>7, NatSetInduction
  <2> HIDE DEF P
  <2> QED
    BY <1>1, <2>1
<1>9. Out(N) = A
  BY <1>3
<1> HIDE DEF Out, A
<1>10. /\ F[N].row \in RowOf(kind)
       /\ IF kind \in Versioned
          THEN F[N].row.version + Cardinality(F[N].refused) = Cardinality(A)
          ELSE F[N].row.version = 0
       /\ IsFiniteSet(F[N].refused)
  BY <1>8, <1>9
<1>11. Rebuilt(L, ev, o) = F[N]
  BY DEF Rebuilt, F
<1> HIDE DEF N
<1> QED
  BY <1>10, <1>11 DEF A

\* V holds the valid votes of a on the decision o in the log L, and every vote of a
\* has a's earlier votes among its ancestors.
VotesInOrder(L, ev, o, a, V) ==
  /\ Orderable(L, ev) /\ L \subseteq EventId /\ o \in L /\ a \in Gateways
  /\ ev[o].kind = "decision" /\ "decision" \in Kinds /\ ev[o].verb = "created"
  /\ \A e \in L : ev[e].about = o =>
       /\ ev[e].kind = "decision" /\ ev[e].choice \in Nat
       /\ e # o => ev[e].verb = "voted" /\ ev[e].choice > 0
  /\ V \subseteq L
  /\ \A e \in L : e \in V <=> /\ ev[e].about = o /\ ev[e].verb = "voted"
                            /\ Author(e) = a /\ ev[e].choice <= Options
  /\ \A e, f \in V : AuthorSeq(e) < AuthorSeq(f) =>
       \A D \in SUBSET L :
         (\A x \in D : ev[x].parents \cap L \subseteq D) /\ f \in D => e \in D

\* Then the row of a rebuild counts the last of them.
LEMMA RebuiltLastVote ==
  ASSUME NEW L, NEW ev, NEW o, NEW a, NEW V, VotesInOrder(L, ev, o, a, V), V # {}
  PROVE  \E e \in V : /\ \A f \in V : AuthorSeq(f) <= AuthorSeq(e)
                      /\ Rebuilt(L, ev, o).row.votes[a] = ev[e].choice
<1> USE DEF VotesInOrder
<1> DEFINE N == Cardinality(L)
           F == Replay(L, ev, o)
           Last(n) == \E e \in V \cap F[n].done :
                        /\ \A f \in V \cap F[n].done : AuthorSeq(f) <= AuthorSeq(e)
                        /\ F[n].row.votes[a] = ev[e].choice
           P(n) == /\ F[n].row \in RowOf("decision")
                   /\ V \cap F[n].done # {} => Last(n)
           Good == {n \in Nat : n <= N => P(n)}
<1>1. N \in Nat /\ IsFiniteSet(L)
  BY FS_CardinalityType DEF Orderable
<1>2. F[0] = Fresh(o, ev)
  BY <1>1, ReplayUnfolds
<1>3. F[N].done = L
  BY AllOut DEF Rebuilt
<1>4. \A n \in Nat : n + 1 <= N =>
        \E e \in L \ F[n].done : /\ F[n + 1] = Taken(F[n], e, ev, o)
                                /\ F[n + 1].done = F[n].done \cup {e}
  BY Round
<1>5. \A n \in 0..N : /\ F[n].done \in SUBSET L
                      /\ \A x \in F[n].done : ev[x].parents \cap L \subseteq F[n].done
  BY OutSoFar
<1> HIDE DEF F
<1>6. 0 \in Good
  <2>1. F[0].done = {} /\ F[0].row = NewRow(o, "decision")
    BY <1>2 DEF Fresh
  <2>2. NewRow(o, "decision") \in RowOf("decision")
    <3>1. o \in EventId
      OBVIOUS
    <3> QED
      BY <3>1, NewRowTyped
  <2>3. P(0)
    BY <2>1, <2>2
  <2> HIDE DEF P
  <2> QED
    BY <2>3
<1>7. ASSUME NEW n \in Nat, n \in Good
      PROVE  n + 1 \in Good
  <2> SUFFICES ASSUME n + 1 <= N
               PROVE  P(n + 1)
    OBVIOUS
  <2>1. P(n)
    BY <1>1, <1>7
  <2>2. PICK e \in L \ F[n].done : F[n + 1] = Taken(F[n], e, ev, o)
                                 /\ F[n + 1].done = F[n].done \cup {e}
    BY <1>4
  <2>3. ASSUME F[n + 1].row = F[n].row, e \notin V
        PROVE  P(n + 1)
    <3>1. V \cap F[n + 1].done = V \cap F[n].done
      BY <2>2, <2>3
    <3> QED
      BY <2>1, <2>3, <3>1
  <2>4. CASE ev[e].about # o \/ e = o
    <3>1. F[n + 1].row = F[n].row
      BY <2>2, <2>4 DEF Taken, Applied
    <3> QED
      BY <2>3, <2>4, <3>1
  <2>5. CASE ev[e].about = o /\ e # o
    <3>1. /\ ev[e].kind = "decision" /\ ev[e].choice \in Nat
          /\ ev[e].verb = "voted" /\ ev[e].choice > 0
      BY <2>5
    <3>2. F[n + 1].row = Step(F[n].row, e, ev).row
      BY <2>2, <2>5 DEF Taken
    <3>3. Step(F[n].row, e, ev) = VoteStep(F[n].row, e, ev[e])
      BY <3>1 DEF Step
    <3>4. CASE ev[e].choice \notin 1..Options
      <4>1. F[n + 1].row = F[n].row
        BY <3>2, <3>3, <3>4 DEF VoteStep, Refused
      <4>2. e \notin V
        BY <3>1, <3>4, DecisionsAssumption
      <4> QED
        BY <2>3, <4>1, <4>2
    <3>5. CASE ev[e].choice \in 1..Options
      <4>1. PICK r : r = F[n].row
        OBVIOUS
      <4>2. r \in RowOf("decision") /\ r.votes \in [Gateways -> 0..Options]
        BY <2>1, <4>1 DEF RowOf
      <4>3. F[n + 1].row.votes = [r.votes EXCEPT ![Author(e)] = ev[e].choice]
        BY <3>2, <3>3, <3>5, <4>1, <4>2 DEF VoteStep, Applied, RowOf
      <4>4. F[n + 1].row \in RowOf("decision")
        <5>1. e \in EventId /\ ev[e].verb = "claimed" => "decision" = "task"
          BY <3>1
        <5> QED
          BY <3>1, <3>2, <4>1, <4>2, <5>1, StepTyped
      <4>5. CASE Author(e) # a
        <5>1. F[n + 1].row.votes[a] = F[n].row.votes[a]
          BY <4>1, <4>2, <4>3, <4>5
        <5>2. e \notin V
          BY <4>5
        <5>3. V \cap F[n + 1].done = V \cap F[n].done
          BY <2>2, <5>2
        <5> QED
          BY <2>1, <4>4, <5>1, <5>3
      <4>6. CASE Author(e) = a
        <5>1. e \in V
          BY <2>5, <3>1, <3>5, <4>6
        <5>2. F[n + 1].row.votes[a] = ev[e].choice
          BY <4>2, <4>3, <4>6
        <5>3. ASSUME NEW f \in V \cap F[n + 1].done
              PROVE  AuthorSeq(f) <= AuthorSeq(e)
          <6>1. AuthorSeq(e) \in Nat /\ AuthorSeq(f) \in Nat
            BY DEF EventId, AuthorSeq
          <6>2. CASE f = e
            BY <6>1, <6>2
          <6>3. CASE f # e
            <7>1. f \in F[n].done /\ n \in 0..N
              BY <1>1, <2>2, <5>3, <6>3
            <7>2. ~ (AuthorSeq(e) < AuthorSeq(f))
              <8>1. PICK D : D = F[n].done
                OBVIOUS
              <8>2. D \in SUBSET L /\ (\A x \in D : ev[x].parents \cap L \subseteq D) /\ f \in D
                BY <1>5, <7>1, <8>1
              <8> QED
                BY <2>2, <5>1, <5>3, <8>1, <8>2
            <7> QED
              BY <6>1, <7>2
          <6> QED
            BY <6>2, <6>3
        <5>4. Last(n + 1)
          BY <2>2, <5>1, <5>2, <5>3
        <5> QED
          BY <4>4, <5>4
      <4> QED
        BY <4>5, <4>6
    <3> QED
      BY <3>4, <3>5
  <2> QED
    BY <2>4, <2>5
<1>8. P(N)
  <2>1. N \in Good
    <3> HIDE DEF Good
    <3> QED
      BY <1>1, <1>6, <1>7, NatSetInduction
  <2> HIDE DEF P
  <2> QED
    BY <1>1, <2>1
<1>9. V \cap L = V
  OBVIOUS
<1>10. \E e \in V : /\ \A f \in V : AuthorSeq(f) <= AuthorSeq(e)
                    /\ F[N].row.votes[a] = ev[e].choice
  BY <1>3, <1>8, <1>9
<1> QED
  BY <1>10 DEF Rebuilt, F
-----------------------------------------------------------------------------
(* The theorems.                                                           *)

\* Empty logs have no history and no rows.
LEMMA ProjInit ==
  ASSUME Init
  PROVE  ProjInv
<1>1. /\ log = [g \in Gateways |-> {}] /\ event = [e \in EventId |-> Unposted]
      /\ row = [g \in Gateways |-> [o \in EventId |-> NoRow(o)]]
      /\ conflicts = [g \in Gateways |-> {}]
  BY DEF Init
<1>2. Posted = {} /\ Objects = {}
  <2>1. \A e \in EventId : log[Author(e)] = {}
    BY <1>1 DEF EventId, Author
  <2>2. Posted = {}
    BY <2>1 DEF Posted
  <2> QED
    BY <2>2 DEF Objects
<1>3. Shape
  <2>1. ASSUME NEW e \in EventId
        PROVE  Unposted \in WorkContent
    <3>1. (CHOOSE s \in Spaces : TRUE) \in Spaces
      BY SpacesAssumption
    <3>2. (CHOOSE x \in EventId : TRUE) \in EventId
      BY <2>1
    <3>3. 0 \in 0..MaxEvents /\ 0 \in 0..MaxVersion /\ 0 \in 0..(Options + 1)
      BY BoundsAssumption, DecisionsAssumption
    <3> QED
      BY <3>1, <3>2, <3>3 DEF Unposted, WorkContent
  <2>2. event \in [EventId -> WorkContent]
    BY <1>1, <2>1
  <2> QED
    BY <1>1, <2>2 DEF Shape
<1>4. Prefixes
  <2> SUFFICES ASSUME NEW g \in Gateways, NEW a \in Gateways
               PROVE  \E n \in 0..MaxSeq : SeqsBy(log[g], a) = 1..n
    BY DEF Prefixes
  <2>1. log[g] = {}
    BY <1>1
  <2>2. SeqsBy({}, a) = {}
    BY DEF SeqsBy
  <2>3. 1..0 = {} /\ 0 \in 0..MaxSeq
    BY MaxSeqAssumption
  <2> QED
    BY <2>1, <2>2, <2>3
<1>5. CausallyClosed
  BY <1>1 DEF CausallyClosed
<1>6. DistinctIds /\ Acyclic /\ WellFormed /\ OwnPastIsAncestral
  BY <1>2 DEF DistinctIds, Acyclic, WellFormed, OwnPastIsAncestral
<1>7. RowInv
  <2>1. ConflictsLogged
    BY <1>1 DEF ConflictsLogged
  <2>2. RowsStart
    BY <1>1 DEF RowsStart
  <2>3. RowsAreCurrent
    BY <1>2 DEF RowsAreCurrent
  <2> QED
    BY <2>1, <2>2, <2>3 DEF RowInv
<1> QED
  BY <1>3, <1>4, <1>5, <1>6, <1>7 DEF ProjInv, HistInv

\* Every step keeps histories and rows.
LEMMA ProjStep ==
  ASSUME ProjInv, [Next]_vars
  PROVE  ProjInv'
<1>1. CASE Next
  <2>1. HistInv /\ RowInv
    BY DEF ProjInv
  <2>2. PICK g, e : Appends(g, e)
    BY <1>1, <2>1, NextAppends
  <2>3. HistInv'
    BY <2>1, <2>2, AppendHist
  <2>4. RowInv'
    BY <2>1, <2>2, <2>3, AppendRows
  <2> QED
    BY <2>3, <2>4 DEF ProjInv
<1>2. CASE UNCHANGED vars
  <2> USE <1>2 DEF vars
  <2>1. Posted' = Posted /\ Objects' = Objects
    BY DEF Posted, Objects
  <2>2. Shape' /\ Prefixes' /\ CausallyClosed'
    BY <2>1 DEF ProjInv, HistInv, Shape, Prefixes, CausallyClosed
  <2>3. DistinctIds' /\ Acyclic'
    BY <2>1 DEF ProjInv, HistInv, DistinctIds, Acyclic
  <2>4. WellFormed'
    BY <2>1 DEF ProjInv, HistInv, WellFormed, Fitting
  <2>5. OwnPastIsAncestral'
    BY <2>1 DEF ProjInv, HistInv, OwnPastIsAncestral, ClosedUnderParents
  <2>6. ConflictsLogged' /\ RowsStart'
    BY <2>1 DEF ProjInv, RowInv, ConflictsLogged, RowsStart
  <2>7. RowsAreCurrent'
    BY <2>1 DEF ProjInv, RowInv, RowsAreCurrent, About
  <2> QED
    BY <2>2, <2>3, <2>4, <2>5, <2>6, <2>7 DEF ProjInv, HistInv, RowInv
<1> QED
  BY <1>1, <1>2

\* The inductive invariant holds in every behaviour.
THEOREM ProjectionInvariant == Spec => []ProjInv
<1>1. Init => ProjInv
  BY ProjInit
<1>2. ProjInv /\ [Next]_vars => ProjInv'
  BY ProjStep
<1> QED
  BY <1>1, <1>2, PTL DEF Spec

\* The row and the conflicts a gateway shows for an object are those a rebuild from its
\* log of that moment returns, in whatever order the events came in.
THEOREM CurrentRows == Spec => []RowsAreCurrent
<1>1. ProjInv => RowsAreCurrent
  BY DEF ProjInv, RowInv
<1> QED
  BY <1>1, ProjectionInvariant, PTL

\* The rebuild from either log equals the rebuild from what the two have in common.
LEMMA Converging ==
  ASSUME ProjInv
  PROVE  SameHistorySameRow
<1> SUFFICES ASSUME NEW g \in Gateways, NEW h \in Gateways, NEW o \in Objects \cap log[g],
                    About(log[g], o) = About(log[h], o)
             PROVE  /\ row[g][o] = row[h][o]
                    /\ conflicts[g] \cap About(EventId, o) = conflicts[h] \cap About(EventId, o)
  BY DEF SameHistorySameRow
<1> DEFINE M == log[g] \cap log[h]
<1>1. HistInv /\ RowsAreCurrent /\ CausallyClosed /\ WellFormed
  BY DEF ProjInv, RowInv, HistInv
<1>2. log[g] \in SUBSET Posted /\ log[h] \in SUBSET Posted
  BY <1>1 DEF CausallyClosed
<1>3. event[o].about = o
  BY <1>1 DEF Objects, WellFormed, Fitting
<1>4. o \in M
  BY <1>3 DEF About
<1>5. Orderable(log[g], event) /\ Orderable(log[h], event)
  BY <1>1, <1>2, LogOrderable
<1>6. \A e \in M : event[e].parents \cap log[g] \subseteq M /\ event[e].parents \cap log[h] \subseteq M
  BY <1>1 DEF CausallyClosed
<1>7. (\A e \in log[g] \ M : event[e].about # o) /\ (\A e \in log[h] \ M : event[e].about # o)
  BY DEF About
<1>8. M \in SUBSET log[g] /\ M \in SUBSET log[h]
  OBVIOUS
<1> HIDE DEF M
<1>9. /\ Rebuilt(log[g], event, o).row = Rebuilt(M, event, o).row
      /\ Rebuilt(log[g], event, o).refused = Rebuilt(M, event, o).refused
  BY <1>4, <1>5, <1>6, <1>7, <1>8, RebuiltFromPart
<1>10. /\ Rebuilt(log[h], event, o).row = Rebuilt(M, event, o).row
       /\ Rebuilt(log[h], event, o).refused = Rebuilt(M, event, o).refused
  BY <1>4, <1>5, <1>6, <1>7, <1>8, RebuiltFromPart
<1>11. o \in log[h]
  BY <1>4 DEF M
<1> QED
  BY <1>1, <1>9, <1>10, <1>11 DEF RowsAreCurrent

\* Gateways that hold the same events of an object show the same row and the same
\* conflicts for it, whatever else they hold.
THEOREM Convergence == Spec => []SameHistorySameRow
<1>1. ProjInv => SameHistorySameRow
  BY Converging
<1> QED
  BY <1>1, ProjectionInvariant, PTL

\* RebuiltCounts about the log of a gateway.
LEMMA RowCounts ==
  ASSUME ProjInv, NEW g \in Gateways, NEW o \in Objects \cap log[g]
  PROVE  /\ row[g][o] \in RowOf(event[o].kind) /\ event[o].kind \in Kinds
         /\ IF event[o].kind \in Versioned
            THEN row[g][o].version + Cardinality(conflicts[g] \cap About(EventId, o))
                   = Cardinality(About(log[g], o))
            ELSE row[g][o].version = 0
         /\ IsFiniteSet(conflicts[g] \cap About(EventId, o))
         /\ row[g][o].version \in Nat /\ row[g][o].version <= MaxEvents
<1>1. /\ HistInv /\ RowsAreCurrent /\ CausallyClosed /\ WellFormed /\ Shape
  BY DEF ProjInv, RowInv, HistInv
<1>2. PICK L : L = log[g]
  OBVIOUS
<1>3. L \in SUBSET Posted /\ L \in SUBSET EventId /\ o \in L
  BY <1>1, <1>2 DEF CausallyClosed, Shape
<1>4. Orderable(L, event) /\ Cardinality(L) \in Nat /\ Cardinality(L) <= MaxEvents
  BY <1>1, <1>3, LogOrderable
<1>5. event[o].about = o /\ event[o].kind \in Kinds /\ event[o].verb = "created"
  BY <1>1 DEF Objects, WellFormed, Fitting
<1>6. ASSUME NEW e \in L, event[e].about = o
      PROVE  /\ event[e].kind = event[o].kind /\ event[e].choice \in Nat
             /\ event[e].verb = "claimed" => event[e].kind = "task"
  <2>1. Fitting(event, e, Posted)
    BY <1>1, <1>3 DEF WellFormed
  <2>2. event[e].choice \in 0..(Options + 1)
    BY <1>1, <1>3 DEF Shape, WorkContent
  <2>3. event[e].choice \in Nat
    BY <2>2, DecisionsAssumption
  <2>4. event[e].kind = event[o].kind
    BY <1>6, <2>1 DEF Fitting
  <2>5. event[e].verb = "claimed" => event[e].kind = "task"
    BY <2>1 DEF Fitting
  <2> QED
    BY <2>3, <2>4, <2>5
<1>7. PICK b : b = Rebuilt(L, event, o)
  OBVIOUS
<1>8. PICK A : A = {e \in L : event[e].about = o}
  OBVIOUS
<1>9. /\ b.row \in RowOf(event[o].kind)
      /\ IF event[o].kind \in Versioned
         THEN b.row.version + Cardinality(b.refused) = Cardinality(A)
         ELSE b.row.version = 0
      /\ IsFiniteSet(b.refused)
  BY <1>3, <1>4, <1>5, <1>6, <1>7, <1>8, RebuiltCounts
<1>10. About(log[g], o) = A
  BY <1>2, <1>8 DEF About
<1>11. row[g][o] = b.row /\ conflicts[g] \cap About(EventId, o) = b.refused
  BY <1>1, <1>2, <1>7 DEF RowsAreCurrent
<1>12. b.row.version \in Nat
  BY <1>9 DEF RowOf
<1>13. b.row.version <= MaxEvents
  <2>1. IsFiniteSet(L) /\ A \in SUBSET L
    BY <1>4, <1>8 DEF Orderable
  <2>2. Cardinality(A) \in Nat /\ Cardinality(A) <= Cardinality(L)
    BY <2>1, FS_Subset, FS_CardinalityType
  <2>3. Cardinality(b.refused) \in Nat
    BY <1>9, FS_CardinalityType
  <2> QED
    BY <1>4, <1>9, <1>12, <2>2, <2>3, BoundsAssumption
<1> QED
  BY <1>5, <1>9, <1>10, <1>11, <1>12, <1>13

\* A gateway's row counts every event about a versioned object: those it applied in
\* the version, those it refused among the conflicts.
THEOREM NothingDropped == Spec => []NothingSilentlyDropped
<1>1. ProjInv => NothingSilentlyDropped
  BY RowCounts DEF NothingSilentlyDropped, Versioned
<1> QED
  BY <1>1, ProjectionInvariant, PTL

\* What a rebuild returns is typed, and so is everything else.
LEMMA Typed ==
  ASSUME ProjInv
  PROVE  TypeOK
<1>1. Shape /\ ConflictsLogged /\ RowsStart
  BY DEF ProjInv, HistInv, RowInv
<1>2. ASSUME NEW g \in Gateways, NEW o \in EventId
      PROVE  /\ row[g][o] \in Rows
             /\ row[g][o].status = "none" \/ row[g][o].status \in ValidStatus(event[o].kind)
  <2>1. CASE o \in Objects \cap log[g]
    <3>1. PICK r : r = row[g][o]
      OBVIOUS
    <3>2. PICK kind \in Kinds : kind = event[o].kind
      BY <2>1, RowCounts
    <3>3. r \in RowOf(kind) /\ r.version \in 0..MaxEvents
      <4>1. row[g][o] \in RowOf(event[o].kind)
        BY <2>1, RowCounts
      <4>2. row[g][o].version \in Nat /\ row[g][o].version <= MaxEvents
        BY <2>1, RowCounts
      <4> QED
        BY <3>1, <3>2, <4>1, <4>2, BoundsAssumption
    <3>4. r.status \in ValidStatus(kind)
      BY <3>3 DEF RowOf
    <3>5. r.status \in {"none"} \cup UNION {ValidStatus(k) : k \in Kinds}
      BY <3>4
    <3>6. r \in Rows
      BY <3>3, <3>5 DEF RowOf, Rows
    <3> QED
      BY <3>1, <3>2, <3>4, <3>6
  <2>2. CASE o \notin Objects \cap log[g]
    <3>1. row[g][o] = NoRow(o)
      BY <1>1, <2>2 DEF RowsStart
    <3>2. 0 \in 0..MaxEvents /\ 0 \in 0..Options
      BY BoundsAssumption, DecisionsAssumption
    <3>3. [a \in Gateways |-> 0] \in [Gateways -> 0..Options]
      BY <3>2
    <3>4. NoRow(o) \in Rows /\ NoRow(o).status = "none"
      BY <3>2, <3>3 DEF NoRow, Rows
    <3> QED
      BY <3>1, <3>4
  <2> QED
    BY <2>1, <2>2
<1>3. row \in [Gateways -> [EventId -> Rows]]
  <2>1. row = [g \in Gateways |-> [o \in EventId |-> row[g][o]]]
    BY <1>1 DEF RowsStart
  <2>2. [g \in Gateways |-> [o \in EventId |-> row[g][o]]] \in [Gateways -> [EventId -> Rows]]
    BY <1>2
  <2> QED
    BY <2>1, <2>2
<1> QED
  BY <1>1, <1>2, <1>3 DEF TypeOK, Shape, ConflictsLogged

\* The projections keep their types, for any gateways, kinds, objects and bounds.
THEOREM TypeCorrect == Spec => []TypeOK
<1>1. ProjInv => TypeOK
  BY Typed
<1> QED
  BY <1>1, ProjectionInvariant, PTL

\* A rebuild takes the votes of an author in the order in which they were cast.
LEMMA LastVote ==
  ASSUME ProjInv
  PROVE  LastVoteCounts
<1> SUFFICES ASSUME NEW g \in Gateways, NEW a \in Gateways, NEW o \in Objects \cap log[g]
             PROVE  LET V == {e \in About(log[g], o) :
                                event[e].verb = "voted" /\ Author(e) = a /\ event[e].choice <= Options} IN
                    V # {} /\ (\A e, f \in V : event[e].space = event[f].space) =>
                      \E e \in V : /\ \A f \in V : AuthorSeq(f) <= AuthorSeq(e)
                                   /\ row[g][o].votes[a] = event[e].choice
  BY Zenon DEF LastVoteCounts
<1> DEFINE V == {e \in About(log[g], o) :
                   event[e].verb = "voted" /\ Author(e) = a /\ event[e].choice <= Options}
<1> SUFFICES ASSUME V # {}, \A e, f \in V : event[e].space = event[f].space
             PROVE  \E e \in V : /\ \A f \in V : AuthorSeq(f) <= AuthorSeq(e)
                                /\ row[g][o].votes[a] = event[e].choice
  OBVIOUS
<1>1. /\ HistInv /\ RowsAreCurrent /\ CausallyClosed /\ WellFormed /\ Shape /\ OwnPastIsAncestral
  BY DEF ProjInv, RowInv, HistInv
<1>2. PICK L : L = log[g]
  OBVIOUS
<1>3. L \in SUBSET Posted /\ L \in SUBSET EventId /\ o \in L
  BY <1>1, <1>2 DEF CausallyClosed, Shape
<1>4. Orderable(L, event)
  BY <1>1, <1>3, LogOrderable
<1>5. event[o].about = o /\ event[o].kind \in Kinds /\ event[o].verb = "created"
  BY <1>1 DEF Objects, WellFormed, Fitting
<1>6. /\ V \in SUBSET L
      /\ \A e \in L : e \in V <=> /\ event[e].about = o /\ event[e].verb = "voted"
                                 /\ Author(e) = a /\ event[e].choice <= Options
  BY <1>2 DEF About
<1> HIDE DEF V
<1>7. event[o].kind = "decision"
  <2>1. PICK e \in V : TRUE
    OBVIOUS
  <2>2. Fitting(event, e, Posted) /\ event[e].about = o /\ event[e].verb = "voted"
    BY <1>1, <1>3, <1>6, <2>1 DEF WellFormed
  <2> QED
    BY <2>2 DEF Fitting
<1>8. ASSUME NEW e \in L, event[e].about = o
      PROVE  /\ event[e].kind = "decision" /\ event[e].choice \in Nat
             /\ e # o => event[e].verb = "voted" /\ event[e].choice > 0
  <2>1. Fitting(event, e, Posted)
    BY <1>1, <1>3 DEF WellFormed
  <2>2. event[e].choice \in 0..(Options + 1)
    BY <1>1, <1>3 DEF Shape, WorkContent
  <2>3. event[e].choice \in Nat
    BY <2>2, DecisionsAssumption
  <2> QED
    BY <1>7, <1>8, <2>1, <2>3 DEF Fitting
<1>9. ASSUME NEW e \in V, NEW f \in V, AuthorSeq(e) < AuthorSeq(f), NEW D \in SUBSET L,
             \A x \in D : event[x].parents \cap L \subseteq D, f \in D
      PROVE  e \in D
  <2>1. ClosedUnderParents(event, D)
    BY <1>1, <1>2, <1>9 DEF CausallyClosed, ClosedUnderParents
  <2>2. D \in SUBSET Posted /\ e \in Posted /\ Author(e) = Author(f)
    BY <1>3, <1>6
  <2> QED
    BY <1>1, <1>9, <2>1, <2>2 DEF OwnPastIsAncestral
<1>10. \E e \in V : /\ \A f \in V : AuthorSeq(f) <= AuthorSeq(e)
                    /\ Rebuilt(L, event, o).row.votes[a] = event[e].choice
  <2>1. \A e \in L : event[e].about = o =>
          /\ event[e].kind = "decision" /\ event[e].choice \in Nat
          /\ e # o => event[e].verb = "voted" /\ event[e].choice > 0
    BY <1>8
  <2>2. \A e, f \in V : AuthorSeq(e) < AuthorSeq(f) =>
          \A D \in SUBSET L :
            (\A x \in D : event[x].parents \cap L \subseteq D) /\ f \in D => e \in D
    BY <1>9
  <2>3. "decision" \in Kinds /\ V # {}
    BY <1>5, <1>7
  <2>4. VotesInOrder(L, event, o, a, V)
    BY <1>3, <1>4, <1>5, <1>6, <1>7, <2>1, <2>2, <2>3 DEF VotesInOrder
  <2> QED
    BY <2>3, <2>4, RebuiltLastVote
<1>11. row[g][o] = Rebuilt(L, event, o).row
  BY <1>1, <1>2 DEF RowsAreCurrent
<1> QED
  BY <1>10, <1>11

\* The vote that counts of an author is its last one, in the order the author cast
\* them, if it cast them all in one space.
THEOREM LastVoteIsHeard == Spec => []LastVoteCounts
<1>1. ProjInv => LastVoteCounts
  BY LastVote
<1> QED
  BY <1>1, ProjectionInvariant, PTL
=============================================================================
