----------------------------- MODULE MCAdminPage -----------------------------
(* AdminPage for TLC. *)
EXTENDS AdminPage, TLC

Sym == Permutations(Customers) \cup Permutations(Shipments)
=============================================================================
