--------------------------- MODULE MCGuestSessions ---------------------------
(* Small instances of GuestSessions for TLC. *)
EXTENDS GuestSessions, TLC

Symmetry == Permutations(Procs) \cup Permutations(Sessions)
              \cup Permutations(Meetings) \cup Permutations(Docs)
=============================================================================
