----------------------------- MODULE MCExchange -----------------------------
(***************************************************************************)
(* Small instances of Exchange for TLC.                                    *)
(***************************************************************************)
EXTENDS Exchange

CONSTANTS alpha, beta, gamma, main, side

ThreeGateways == {alpha, beta, gamma}
TwoGateways == {alpha, beta}
OneSpace == {main}
TwoSpaces == {main, side}

\* beta and gamma have alpha's connect() but not each other's or a way back,
\* beta also reaches gamma: an event of alpha and beta's answer to it come to
\* gamma over two routes.
RelayedLinked == {<<alpha, beta>>, <<alpha, gamma>>, <<beta, gamma>>}
FullyLinked == {l \in Gateways \X Gateways : l[1] # l[2]}
Everyone == {Gateways}
=============================================================================
