----------------------------- MODULE MCGuestToken -----------------------------
(* Small instances of GuestToken for TLC. *)
EXTENDS GuestToken

CONSTANTS c1, c2, c3, tab
OneTab == [c \in Calls |-> tab]
=============================================================================
