--------------------------- MODULE EventOpsProofs ---------------------------
(***************************************************************************)
(* What the store's questions return on a log that holds a prefix 1..n of  *)
(* an author's events: the facts every proof about a log rests on.         *)
(***************************************************************************)
EXTENDS EventOps, TLAPS

\* next_author_seq continues a prefix 1..n with n + 1.
LEMMA NextSeqOfPrefix ==
  ASSUME NEW L, NEW a, NEW n \in Nat, SeqsBy(L, a) = 1..n
  PROVE  NextSeq(L, a) = n + 1
<1>1. CASE n = 0
  <2>1. 1..n = {}
    BY <1>1
  <2> QED
    BY <1>1, <2>1 DEF NextSeq
<1>2. CASE n # 0
  <2>0. n \in 1..n
    BY <1>2
  <2>1. 1..n # {} /\ n \in 1..n /\ \A y \in 1..n : y \in Int /\ n >= y
    BY <2>0
  <2>2. \A x \in 1..n : (\A y \in 1..n : x >= y) => x = n
    BY <2>1
  <2>3. Max(1..n) = n
    BY <2>1, <2>2 DEF Max
  <2> QED
    BY <2>1, <2>3 DEF NextSeq
<1> QED
  BY <1>1, <1>2

\* Appending an event adds its number to its author's numbers and no other's.
LEMMA SeqsByAppend ==
  ASSUME NEW L, NEW e, NEW a
  PROVE  SeqsBy(L \cup {e}, a) =
           IF Author(e) = a THEN SeqsBy(L, a) \cup {AuthorSeq(e)} ELSE SeqsBy(L, a)
  BY DEF SeqsBy

\* In a log of event names, an author's number is there exactly when its event is.
LEMMA SeqsByMember ==
  ASSUME NEW L \in SUBSET EventId, NEW e \in EventId
  PROVE  e \in L <=> AuthorSeq(e) \in SeqsBy(L, Author(e))
  BY DEF SeqsBy, EventId, Author, AuthorSeq

\* Heads are events of the log.
LEMMA HeadsInLog ==
  ASSUME NEW L, NEW ev, NEW s
  PROVE  Heads(L, ev, s) \subseteq L
  BY DEF Heads

\* Adding an event that is next for its author keeps a log a set of prefixes.
LEMMA PrefixExtends ==
  ASSUME NEW L \in SUBSET EventId, NEW e \in EventId, NEW n \in Nat,
         SeqsBy(L, Author(e)) = 1..n, AuthorSeq(e) = n + 1,
         NEW a, \E k \in 0..MaxSeq : SeqsBy(L, a) = 1..k
  PROVE  \E k \in 0..MaxSeq : SeqsBy(L \cup {e}, a) = 1..k
<1>1. CASE Author(e) = a
  <2>1. SeqsBy(L \cup {e}, a) = (1..n) \cup {n + 1}
    BY <1>1, SeqsByAppend
  <2>2. (1..n) \cup {n + 1} = 1..(n + 1)
    OBVIOUS
  <2>3. n + 1 \in 0..MaxSeq
    BY MaxSeqAssumption DEF EventId, AuthorSeq
  <2> QED
    BY <2>1, <2>2, <2>3
<1>2. CASE Author(e) # a
  BY <1>2, SeqsByAppend
<1> QED
  BY <1>1, <1>2

\* What the verdict "accept" of _accept_group_event has established.
LEMMA AcceptedIsNext ==
  ASSUME NEW L, NEW ev, NEW e \in EventId, NEW n \in Nat,
         SeqsBy(L, Author(e)) = 1..n, Verdict(L, ev, e) = "accept"
  PROVE  e \notin L /\ AuthorSeq(e) = n + 1
<1>1. NextSeq(L, Author(e)) = n + 1
  BY NextSeqOfPrefix
<1>2. AuthorSeq(e) \in Nat
  BY MaxSeqAssumption DEF EventId, AuthorSeq
<1> QED
  BY <1>1, <1>2 DEF Verdict
=============================================================================
