---------------------------- MODULE MCRequestLayer ----------------------------
(* RequestLayer for TLC. *)
EXTENDS RequestLayer

\* Calls that share a url or could be mistaken for it: the chat and the restore
\* next to it, and a list.
FewCalls == {Chat, RestoreSession, ListPackages({"limit"})}
=============================================================================
