------------------------------ MODULE MCRoutes ------------------------------
(***************************************************************************)
(* Small instances of Routes for TLC.                                      *)
(***************************************************************************)
EXTENDS Routes

CONSTANTS alpha, beta, gamma

ThreeGateways == {alpha, beta, gamma}
TwoGateways == {alpha, beta}
Nobody == {}

\* beta and gamma both find alpha's card.
BothToAlpha == {<<beta, alpha>>, <<gamma, alpha>>}
BetaToAlpha == {<<beta, alpha>>}
\* alpha and beta reach for each other at the same time.
EachToTheOther == {<<alpha, beta>>, <<beta, alpha>>}
=============================================================================
