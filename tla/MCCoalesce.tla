------------------------------ MODULE MCCoalesce ------------------------------
(***************************************************************************)
(* Small instances of Coalesce: two or three requests for one or two keys. *)
(***************************************************************************)
EXTENDS Coalesce, TLC

CONSTANTS k1, k2, r1, r2, r3

\* Requests and keys are only compared, and no safety property tells one from
\* another.
MCSymmetry == Permutations(Requests) \cup Permutations(Keys)

=============================================================================
