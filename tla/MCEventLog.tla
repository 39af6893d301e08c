----------------------------- MODULE MCEventLog -----------------------------
(***************************************************************************)
(* Small instances of EventLog for TLC.                                    *)
(***************************************************************************)
EXTENDS EventLog

CONSTANTS alpha, beta, gamma, main, side

ThreeGateways == {alpha, beta, gamma}
TwoGateways == {alpha, beta}
OneSpace == {main}
TwoSpaces == {main, side}

\* alpha invited beta and gamma, who never connected to each other: the
\* situation of tests/test_governance.py before beta.connect(gamma).
StarLinked == {<<alpha, beta>>, <<beta, alpha>>, <<alpha, gamma>>, <<gamma, alpha>>}
FullyLinked == {l \in Gateways \X Gateways : l[1] # l[2]}

\* Everyone, or alpha and beta only (a private aside leaves gamma a gap).
WithAsides == {Gateways, {alpha, beta}}
Everyone == {Gateways}
=============================================================================
