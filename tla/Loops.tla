-------------------------------- MODULE Loops --------------------------------
(***************************************************************************)
(* A loop over a sequence.                                                 *)
(***************************************************************************)
EXTENDS Integers, Sequences

\* What a loop over a sequence ends with, as a recursive function.
Folded(Step(_, _), base, s) ==
    LET after[n \in 0..Len(s)] == IF n = 0 THEN base ELSE Step(after[n - 1], s[n])
    IN  after[Len(s)]
=============================================================================
