---------------------------- MODULE AtomHistory ----------------------------
(***************************************************************************)
(* What an app's version history promises, whatever crashes, conflicts or  *)
(* overlaps: the current version changes only to a version never used      *)
(* before, which remembers the one it replaces, or back to an older one,   *)
(* after which there is nothing left to go back to.                        *)
(***************************************************************************)
EXTENDS Integers

VARIABLES current, previous, newest

history == <<current, previous, newest>>

Init == current = 0 /\ previous = 0 /\ newest = 0

Promote ==
  /\ newest' = newest + 1
  /\ current' = newest + 1
  /\ previous' = current

Revert ==
  /\ newest' = newest
  /\ current' \in 0..(newest - 1)
  /\ previous' = 0

Spec == Init /\ [][Promote \/ Revert]_history
=============================================================================
