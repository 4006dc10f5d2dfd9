---------------------------- MODULE MCGovernance ----------------------------
(* Instances of Governance for TLC.                                        *)
EXTENDS Governance, TLC

CONSTANTS u1, u2, t1, t2, q1

(* Every workspace is founded by the same account.                         *)
OneFounder == [t \in Tenants |-> u1]


=============================================================================
