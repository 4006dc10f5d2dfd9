------------------------ MODULE MCIntegrationConnection ------------------------
(***************************************************************************)
(* The instances of IntegrationConnection that TLC checks.                 *)
(***************************************************************************)
EXTENDS IntegrationConnection, TLC

Symmetry == Permutations(Connections)
=============================================================================
