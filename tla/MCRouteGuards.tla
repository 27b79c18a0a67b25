---------------------------- MODULE MCRouteGuards ----------------------------
(* RouteGuards for TLC. *)
EXTENDS RouteGuards
=============================================================================
