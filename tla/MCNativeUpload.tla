---------------------------- MODULE MCNativeUpload ----------------------------
(***************************************************************************)
(* The instances of NativeUpload that TLC checks.                          *)
(***************************************************************************)
EXTENDS NativeUpload, TLC

\* Requests are interchangeable, and so are worker slots.
Symmetry == Permutations(Requests \ Catalog) \cup Permutations(Workers)

=============================================================================
