---------------------------- MODULE MCMembership ----------------------------
(***************************************************************************)
(* Small instances of Membership for TLC.                                  *)
(***************************************************************************)
EXTENDS Membership

CONSTANTS alpha, beta, gamma, main

ThreeMembers == {alpha, beta, gamma}
OneSpace == {main}
AlphaLeads == {alpha}
AlphaAndBetaLead == {alpha, beta}
AlphaAndGammaLead == {alpha, gamma}
GammaGoes == {gamma}
One == {1}
Two == {2}
=============================================================================
