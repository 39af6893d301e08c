------------------------------ MODULE EventOps ------------------------------
(***************************************************************************)
(* The signed events of one collective and the questions a gateway's store *)
(* answers about them.  An event is named by its author and author_seq;    *)
(* the digest the code uses as event_id names the same thing, because an   *)
(* author's store never reuses a sequence number.  A log L is the set of   *)
(* event names in one events table, ev maps a name to the signed content.  *)
(***************************************************************************)
EXTENDS Naturals, FiniteSets, FiniteSetsExt

CONSTANTS
  Gateways,   \* the members' gateways
  Spaces,     \* space identifiers of the collective
  MaxSeq      \* bound: events per author

ASSUME GatewaysAssumption == Gateways # {}
ASSUME SpacesAssumption == Spaces # {}
ASSUME MaxSeqAssumption == MaxSeq \in Nat

EventId == Gateways \X (1..MaxSeq)
Author(e) == e[1]
AuthorSeq(e) == e[2]

Content == [space : Spaces, parents : SUBSET EventId, audience : SUBSET Gateways]

\* GatewayStore.next_author_seq: COALESCE(MAX(author_seq), 0) + 1.
SeqsBy(L, a) == {AuthorSeq(e) : e \in {x \in L : Author(x) = a}}

\* Faulty variants: the COALESCE default without + 1, and a MAX without + 1.
NextSeqFromZero(L, a) == IF SeqsBy(L, a) = {} THEN 0 ELSE Max(SeqsBy(L, a)) + 1
NextSeqReused(L, a) == IF SeqsBy(L, a) = {} THEN 1 ELSE Max(SeqsBy(L, a))

NextSeq(L, a) == IF SeqsBy(L, a) = {} THEN 1 ELSE Max(SeqsBy(L, a)) + 1

\* GatewayStore.heads: the events of a space that no event of it has as parent.
Heads(L, ev, s) ==
  {e \in L : /\ ev[e].space = s
             /\ \A c \in L : ev[c].space = s => e \notin ev[c].parents}

\* Faulty variants: the gap check dropped, the missing-parent check dropped, and any
\* other number than the next one taken for a conflict.
VerdictIgnoringGaps(L, ev, e) ==
  IF e \in L THEN "duplicate"
  ELSE IF AuthorSeq(e) < NextSeq(L, Author(e)) THEN "conflict"
  ELSE IF ev[e].parents \subseteq L THEN "accept" ELSE "missing"

VerdictIgnoringParents(L, ev, e) ==
  IF e \in L THEN "duplicate"
  ELSE IF AuthorSeq(e) > NextSeq(L, Author(e)) THEN "gap"
  ELSE IF AuthorSeq(e) < NextSeq(L, Author(e)) THEN "conflict"
  ELSE "accept"

VerdictUnequal(L, ev, e) ==
  IF e \in L THEN "duplicate"
  ELSE IF AuthorSeq(e) # NextSeq(L, Author(e)) THEN "conflict"
  ELSE IF ev[e].parents \subseteq L THEN "accept" ELSE "missing"

\* Gateway._accept_group_event, after decryption and signature: the checks in
\* the order of the code.  "gap" and "missing" raise CausalError (the envelope
\* stays pending), "conflict" raises ProtocolError (rejected for good).
Verdict(L, ev, e) ==
  IF e \in L THEN "duplicate"
  ELSE IF AuthorSeq(e) > NextSeq(L, Author(e)) THEN "gap"
  ELSE IF AuthorSeq(e) < NextSeq(L, Author(e)) THEN "conflict"
  ELSE IF ev[e].parents \subseteq L THEN "accept" ELSE "missing"
=============================================================================
