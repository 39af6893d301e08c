----------------------------- MODULE Projection -----------------------------
(***************************************************************************)
(* The work projections: rows for tasks, decisions, commitments and        *)
(* documents that every gateway rebuilds from its own log whenever an      *)
(* event about the object is appended.  An object is named by the event    *)
(* that creates it (its identifier is random); its later events may be     *)
(* posted to any space, as space_id is an argument of every call. Posting  *)
(* and admission are atomic here: EventLog has their steps, and any copy   *)
(* of a posted event may reach any gateway at any time or never.           *)
(***************************************************************************)
EXTENDS EventOps

CONSTANTS
  Kinds,      \* kinds of objects agents create
  Statuses,   \* statuses agents give in updates, valid ones and others
  Options,    \* how many options every decision has: 1..Options as sorted() has them
  Threshold,  \* the threshold of every decision
  Rank,       \* Rank[g]: the order of agent identifiers
  MaxVersion, \* bound: versions agents name in claims and updates
  MaxEvents,  \* bound: events in all logs together
  Scopes      \* bound: which events logs hold together; see Within

ASSUME GatewaysFinite == IsFiniteSet(Gateways)
ASSUME KindsAssumption == Kinds \subseteq {"task", "decision", "commitment", "document"}
ASSUME DecisionsAssumption == Options \in Nat \ {0, 1} /\ Threshold \in Nat \ {0}
ASSUME RankAssumption ==
  /\ Rank \in [Gateways -> Nat]
  /\ \A g, h \in Gateways : g # h => Rank[g] # Rank[h]
ASSUME BoundsAssumption ==
  /\ MaxVersion \in Nat /\ MaxEvents \in Nat
  /\ \A b \in Scopes : /\ b.gateways \subseteq Gateways /\ b.spaces \subseteq Spaces
                       /\ b.statuses \subseteq Statuses
                       /\ b.events \in 0..MaxEvents

VARIABLES
  log,       \* log[g]: the events table of g
  event,     \* event[e]: the signed content
  row,       \* row[g][o]: g's row for object o in the table of its kind
  conflicts  \* conflicts[g]: the events in g's projection_conflicts

vars == <<log, event, row, conflicts>>

\* id is the place of the event's digest among all digests, any order being
\* possible; choice is an option, or Options + 1 for what is not one.
WorkContent ==
  [space : Spaces, parents : SUBSET EventId, id : 0..MaxEvents, kind : Kinds \cup {"none"},
   verb : {"created", "claimed", "updated", "voted", "field_set"}, about : EventId,
   expected : 0..MaxVersion, status : Statuses \cup {"none"}, choice : 0..(Options + 1)]

Unposted ==
  [space |-> CHOOSE s \in Spaces : TRUE, parents |-> {}, id |-> 0, kind |-> "none",
   verb |-> "created", about |-> CHOOSE e \in EventId : TRUE,
   expected |-> 0, status |-> "none", choice |-> 0]

ValidStatus(kind) ==
  CASE kind = "task" -> {"open", "claimed", "submitted", "verified", "blocked", "released"}
    [] kind = "commitment" -> {"open", "in_progress", "fulfilled", "failed", "cancelled"}
    [] kind = "decision" -> {"open", "decided"}
    [] kind = "document" -> {"open"}

\* The columns of the four tables that later events change.  updated is also the
\* winning event of a document's field (one field stands for all, they do not
\* interact); votes[a] and resolution are 0 where there is none.
NoRow(o) ==
  [status |-> "none", assignee |-> {}, version |-> 0, updated |-> o,
   votes |-> [a \in Gateways |-> 0], resolution |-> 0]

Rows ==
  [status : {"none"} \cup UNION {ValidStatus(k) : k \in Kinds},
   assignee : SUBSET Gateways, version : 0..MaxEvents, updated : EventId,
   votes : [Gateways -> 0..Options], resolution : 0..Options]

TypeOK ==
  /\ log \in [Gateways -> SUBSET EventId]
  /\ event \in [EventId -> WorkContent]
  /\ row \in [Gateways -> [EventId -> Rows]]
  /\ \A g \in Gateways, o \in EventId :
       row[g][o].status = "none" \/ row[g][o].status \in ValidStatus(event[o].kind)
  /\ conflicts \in [Gateways -> SUBSET EventId]

Init ==
  /\ log = [g \in Gateways |-> {}]
  /\ event = [e \in EventId |-> Unposted]
  /\ row = [g \in Gateways |-> [o \in EventId |-> NoRow(o)]]
  /\ conflicts = [g \in Gateways |-> {}]
-----------------------------------------------------------------------------
(* The deterministic order of a log.                                       *)

LeastId(S, ev) == CHOOSE e \in S : \A x \in S : ev[e].id <= ev[x].id

\* Faulty variant of NextOut: by identifier alone.
NextOutById(done, L, ev) == LeastId(L \ done, ev)

\* _causally_ordered_events after the events in done: the least identifier among
\* the events all of whose parents are out.
NextOut(done, L, ev) ==
  LeastId({e \in L \ done : ev[e].parents \cap L \subseteq done}, ev)
-----------------------------------------------------------------------------
(* One event taken into a row.  r.conflict says whether it was refused.    *)

Applied(r) == [row |-> r, conflict |-> FALSE]
Refused(r) == [row |-> r, conflict |-> TRUE]

\* Faulty variant of VersionedStep: any status is taken.
VersionedStepUnchecked(r, e, c) ==
  IF c.expected # r.version THEN Refused(r)
  ELSE IF c.verb = "claimed"
       THEN IF r.status \in {"open", "released"}
            THEN Applied([r EXCEPT !.status = "claimed", !.assignee = {Author(e)},
                                   !.version = @ + 1, !.updated = e])
            ELSE Refused(r)
  ELSE Applied([r EXCEPT !.status = c.status, !.version = @ + 1, !.updated = e])

\* The loops of _rebuild_task and _rebuild_commitment.  update_task sends no assignee,
\* so an update never sets one.  The evidence list of a commitment is left out: it
\* grows with each applied update that brings some.
VersionedStep(r, e, c) ==
  IF c.expected # r.version THEN Refused(r)
  ELSE IF c.verb = "claimed" /\ r.status \in {"open", "released"}
       THEN Applied([r EXCEPT !.status = "claimed", !.assignee = {Author(e)},
                              !.version = @ + 1, !.updated = e])
  ELSE IF c.verb = "updated" /\ c.status \in ValidStatus(c.kind)
       THEN Applied([r EXCEPT !.status = c.status, !.version = @ + 1, !.updated = e])
  ELSE Refused(r)

\* The option with most votes among those that reach the threshold, the first of
\* them in sorted order; 0 if none does.
Resolution(votes) ==
  LET count(o) == Cardinality({a \in Gateways : votes[a] = o})
      winners == {o \in 1..Options : count(o) >= Threshold} IN
  IF winners = {} THEN 0
  ELSE CHOOSE o \in winners :
         \A p \in winners : count(o) > count(p) \/ (count(o) = count(p) /\ o <= p)

\* The loop of _rebuild_decision.
VoteStep(r, e, c) ==
  IF c.choice \notin 1..Options THEN Refused(r)
  ELSE LET votes == [r.votes EXCEPT ![Author(e)] = c.choice] IN
       Applied([r EXCEPT !.votes = votes, !.updated = e, !.resolution = Resolution(votes),
                         !.status = IF Resolution(votes) = 0 THEN "open" ELSE "decided"])

\* The stamp of _rebuild_document: author_seq, author, event_id.
Later(e, f) ==
  \/ AuthorSeq(e) > AuthorSeq(f)
  \/ AuthorSeq(e) = AuthorSeq(f) /\ Rank[Author(e)] > Rank[Author(f)]

\* The loop of _rebuild_document.
FieldStep(r, e, o) ==
  Applied(IF r.updated = o \/ Later(e, r.updated) THEN [r EXCEPT !.updated = e] ELSE r)

Step(r, e, ev) ==
  LET c == ev[e] IN
  IF c.kind \in {"task", "commitment"} THEN VersionedStep(r, e, c)
  ELSE IF c.kind = "decision" THEN VoteStep(r, e, c)
  ELSE FieldStep(r, e, c.about)

NewRow(o, kind) ==
  [NoRow(o) EXCEPT !.status = "open",
                   !.version = IF kind \in {"task", "commitment"} THEN 1 ELSE 0]

\* One event comes out.  Of an object with a random identifier there is one
\* creation, and the loops skip it.
Taken(acc, e, ev, o) ==
  LET s == IF ev[e].about # o \/ e = o THEN Applied(acc.row) ELSE Step(acc.row, e, ev) IN
  [done |-> acc.done \cup {e}, row |-> s.row,
   refused |-> IF s.conflict THEN acc.refused \cup {e} ELSE acc.refused]

\* The row of o and the events refused on the way after each number of events of L.
Replay(L, ev, o) ==
  LET after[n \in 0..Cardinality(L)] ==
        IF n = 0 THEN [done |-> {}, row |-> NewRow(o, ev[o].kind), refused |-> {}]
        ELSE LET acc == after[n - 1] IN Taken(acc, NextOut(acc.done, L, ev), ev, o) IN
  after

\* _rebuild_task, _rebuild_decision, _rebuild_commitment, _rebuild_document: what
\* there is when all of L is out.
Rebuilt(L, ev, o) == Replay(L, ev, o)[Cardinality(L)]
-----------------------------------------------------------------------------
(* Appending an event.                                                     *)

\* Faulty variants of Project: the event is applied to the row as it stands, the old
\* conflicts of the object are not deleted, and those of every object are.
ProjectIncrementally(g, L, ev, e) ==
  LET o == ev[e].about
      s == Step(row[g][o], e, ev) IN
  IF o \notin L THEN UNCHANGED <<row, conflicts>>
  ELSE /\ row' = [row EXCEPT ![g] = [@ EXCEPT ![o] = IF e = o THEN NewRow(o, ev[o].kind) ELSE s.row]]
       /\ conflicts' = [conflicts EXCEPT ![g] = IF e # o /\ s.conflict THEN @ \cup {e} ELSE @]

ProjectKeepingConflicts(g, L, ev, e) ==
  LET o == ev[e].about
      b == Rebuilt(L, ev, o) IN
  IF o \notin L THEN UNCHANGED <<row, conflicts>>
  ELSE /\ row' = [row EXCEPT ![g] = [@ EXCEPT ![o] = b.row]]
       /\ conflicts' = [conflicts EXCEPT ![g] = @ \cup b.refused]

ProjectClearingConflicts(g, L, ev, e) ==
  LET o == ev[e].about
      b == Rebuilt(L, ev, o) IN
  IF o \notin L THEN UNCHANGED <<row, conflicts>>
  ELSE /\ row' = [row EXCEPT ![g] = [@ EXCEPT ![o] = b.row]]
       /\ conflicts' = [conflicts EXCEPT ![g] = b.refused]

\* _apply_projection once e is in the log L of g: the row of its object and the
\* object's conflicts are replaced, unless its creation has not arrived.
Project(g, L, ev, e) ==
  LET o == ev[e].about
      b == Rebuilt(L, ev, o) IN
  IF o \notin L THEN UNCHANGED <<row, conflicts>>
  ELSE /\ row' = [row EXCEPT ![g] = [@ EXCEPT ![o] = b.row]]
       /\ conflicts' = [conflicts EXCEPT ![g] = {x \in @ : ev[x].about # o} \cup b.refused]

\* append_event.
AppendEvent(g, e, ev) ==
  /\ log' = [log EXCEPT ![g] = @ \cup {e}]
  /\ Project(g, log[g] \cup {e}, ev, e)

Posted == {e \in EventId : e \in log[Author(e)]}

Objects == {o \in Posted : event[o].verb = "created"}

NewEvent(g) == <<g, NextSeq(log[g], g)>>

\* What _post_event does for every call below: c lacks what it adds.
Post(g, s, id, c) ==
  LET e == NewEvent(g)
      ev == [event EXCEPT ![e] =
              [space |-> s, parents |-> Heads(log[g], event, s), id |-> id, kind |-> c.kind,
               verb |-> c.verb, about |-> c.about, expected |-> c.expected,
               status |-> c.status, choice |-> c.choice]] IN
  /\ AuthorSeq(e) <= MaxSeq
  /\ event' = ev
  /\ AppendEvent(g, e, ev)

Body(kind, verb, o, v, s, x) ==
  [kind |-> kind, verb |-> verb, about |-> o, expected |-> v, status |-> s, choice |-> x]

\* create_task, propose_decision, create_commitment, create_document; one object of
\* a kind is the bound.
Create(g, s, id, kind) ==
  /\ \A o \in Objects : event[o].kind # kind
  /\ Post(g, s, id, Body(kind, "created", NewEvent(g), 0, "none", 0))

\* claim_task, update_task and update_commitment: expected_version is an argument,
\* usually a version the agent has seen, which may be stale or revised.
Claim(g, s, id, o, v) == Post(g, s, id, Body("task", "claimed", o, v, "none", 0))

Advance(g, s, id, o, v, st) ==
  Post(g, s, id, Body(event[o].kind, "updated", o, v, st, 0))

Vote(g, s, id, o, x) == Post(g, s, id, Body("decision", "voted", o, 0, "none", x))

SetField(g, s, id, o) == Post(g, s, id, Body("document", "field_set", o, 0, "none", 0))

\* A copy of a posted event arrives that _accept_group_event admits.
Accept(g, e) ==
  /\ Verdict(log[g], event, e) = "accept"
  /\ AppendEvent(g, e, event)
  /\ UNCHANGED event

\* The bounds, each b of Scopes a combination of them: the gateways that hold events,
\* the spaces and statuses of events, and the number of events, in all and about the
\* object of each kind.
Within(b) ==
  /\ \A g \in Gateways \ b.gateways : log[g] = {}
  /\ \A e \in Posted : /\ event[e].space \in b.spaces
                       /\ event[e].status \in b.statuses \cup {"none"}
                       /\ event[e].id <= b.events
  /\ \A k \in Kinds : Cardinality({e \in Posted : event[e].kind = k}) <= b.about[k]

FreshIds(b) == (1..b.events) \ {event[x].id : x \in Posted}

Room(b) == {k \in Kinds : Cardinality({e \in Posted : event[e].kind = k}) < b.about[k]}

\* The objects of a kind a call can name.  It posts first and looks for its own row
\* after that, so the event goes out also where the creation has not arrived.
Known(b, kind) == {o \in Objects : event[o].kind = kind /\ kind \in Room(b)}

Next ==
  \E b \in Scopes :
    /\ Within(b)
    /\ \/ \E g \in b.gateways, id \in FreshIds(b), s \in b.spaces :
            \/ \E kind \in Room(b) : Create(g, s, id, kind)
            \/ \E o \in Known(b, "task"), v \in 1..MaxVersion : Claim(g, s, id, o, v)
            \/ \E o \in Known(b, "task") \cup Known(b, "commitment"),
                  v \in 1..MaxVersion, st \in b.statuses : Advance(g, s, id, o, v, st)
            \/ \E o \in Known(b, "decision"), x \in 1..(Options + 1) : Vote(g, s, id, o, x)
            \/ \E o \in Known(b, "document") : SetField(g, s, id, o)
       \/ \E g \in b.gateways, e \in Posted : Accept(g, e)

Spec == Init /\ [][Next]_vars
-----------------------------------------------------------------------------
About(L, o) == {e \in L : event[e].about = o}

\* A stored row and its conflicts are what a rebuild from the whole log would
\* give now, although it was last rebuilt when the log was smaller.
RowsAreCurrent ==
  \A g \in Gateways : \A o \in Objects \cap log[g] :
    LET b == Rebuilt(log[g], event, o) IN
    row[g][o] = b.row /\ conflicts[g] \cap About(EventId, o) = b.refused

\* Gateways that hold the same events about an object show the same row and the
\* same conflicts, in whatever order they came and whatever else the two logs
\* hold (README: deterministic projections; tests/test_work.py: converges).
SameHistorySameRow ==
  \A g, h \in Gateways : \A o \in Objects \cap log[g] :
    About(log[g], o) = About(log[h], o) =>
      /\ row[g][o] = row[h][o]
      /\ conflicts[g] \cap About(EventId, o) = conflicts[h] \cap About(EventId, o)

\* Every event about a versioned object counts once: it made a version of the
\* row or it is listed as a conflict, also after an earlier outcome was revised.
NothingSilentlyDropped ==
  \A g \in Gateways : \A o \in Objects \cap log[g] :
    event[o].kind \in {"task", "commitment"} =>
      row[g][o].version + Cardinality(conflicts[g] \cap About(EventId, o))
        = Cardinality(About(log[g], o))

\* Who changes their mind is heard: of the valid votes an agent posted to one
\* space the row counts the last, although author_seq plays no part in the order.
LastVoteCounts ==
  \A g, a \in Gateways : \A o \in Objects \cap log[g] :
    LET V == {e \in About(log[g], o) :
                event[e].verb = "voted" /\ Author(e) = a /\ event[e].choice <= Options} IN
    V # {} /\ (\A e, f \in V : event[e].space = event[f].space) =>
      \E e \in V : /\ \A f \in V : AuthorSeq(f) <= AuthorSeq(e)
                   /\ row[g][o].votes[a] = event[e].choice
=============================================================================
