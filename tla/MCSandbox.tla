----------------------------- MODULE MCSandbox -----------------------------
(* Instances of Sandbox for TLC.                                           *)
EXTENDS Sandbox, TLC

CONSTANTS r1, r2, t1, t2, d1

Symmetry == Permutations(Requests) \cup Permutations(Threads)

(* Not two of the sessions, the environments and the files all at once.    *)
StaysWithinAScope == Len(sessions') + Len(environments') + Len(files') <= 4
=============================================================================
