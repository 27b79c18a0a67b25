-------------------------- MODULE MCIdentityGating --------------------------
(***************************************************************************)
(* IdentityGating on small sets of model values, for TLC.                  *)
(***************************************************************************)
EXTENDS IdentityGating, TLC

\* Handlers, customers and sessions are interchangeable, and every formula of the
\* safety runs is symmetric in them.  The liveness run does not use symmetry.
Interchangeable ==
  Permutations(Handlers) \cup Permutations(Customers) \cup Permutations(Sessions)
=============================================================================
