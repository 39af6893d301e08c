---------------------------- MODULE MCProjection ----------------------------
(***************************************************************************)
(* A small instance of Projection for TLC.                                 *)
(***************************************************************************)
EXTENDS Projection

CONSTANTS alpha, beta, gamma, main, side

ThreeGateways == {alpha, beta, gamma}
TwoSpaces == {main, side}
AlphaFirst == [g \in Gateways |-> IF g = alpha THEN 1 ELSE IF g = beta THEN 2 ELSE 3]
AllKinds == {"task", "decision", "commitment", "document"}
SomeStatuses == {"released", "fulfilled"}

\* Three events about the one object of a kind.
AboutOne(gateways, spaces, statuses, kind) ==
  [gateways |-> gateways, spaces |-> spaces, statuses |-> statuses, events |-> 3,
   about |-> [k \in AllKinds |-> IF k = kind THEN 3 ELSE 0]]

\* The same and the creation of a document before, between or after them.
AndAnother(b) == [b EXCEPT !.events = 4, !.about = [@ EXCEPT !["document"] = 1]]

SomeScopes ==
  {AboutOne(ThreeGateways, {main}, {"released"}, "task"),
   AboutOne(ThreeGateways, {main}, {"fulfilled"}, "commitment"),
   AboutOne(ThreeGateways, {main}, {}, "decision"),
   AboutOne(ThreeGateways, TwoSpaces, {}, "document"),
   AboutOne({alpha, beta}, TwoSpaces, {"released", "fulfilled"}, "task"),
   AboutOne({alpha, beta}, TwoSpaces, {}, "decision"),
   AndAnother(AboutOne({alpha, beta}, {main}, {"fulfilled"}, "commitment")),
   AndAnother(AboutOne({alpha, beta}, {main}, {}, "decision"))}
=============================================================================
