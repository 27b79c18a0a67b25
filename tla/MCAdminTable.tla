---------------------------- MODULE MCAdminTable ----------------------------
(* AdminTable for TLC. *)
EXTENDS AdminTable

AllTables == {"customers", "shipments", "packages", "sessions"}

\* The dialogs are the same in the tables that write: they run in one that has no
\* controls once it is filtered, and in one whose filter can be taken off.
Writes == [t \in AllTables |-> IF t \in {"customers", "packages"} THEN 1 ELSE 0]
=============================================================================
