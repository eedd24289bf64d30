---------------------------- MODULE SnapshotFile ----------------------------
(***************************************************************************)
(* What internal/persist promises a store: its snapshot file always holds  *)
(* a state the store was in, and each write moves it forward, never past    *)
(* the state in memory and never back.  Locks, marks, the wake-up channel,  *)
(* the loop and Close are how Flusher keeps that promise.                   *)
(***************************************************************************)
EXTENDS Integers

VARIABLES
  latest,   \* version of the state in memory
  file      \* version of the snapshot file

(* A store is loaded from its file; loading may already have changed it.    *)
Init == latest \in {0, 1} /\ file = 0

Mutate == latest' = latest + 1 /\ UNCHANGED file

(* A write replaces the file by a version captured since the last write.    *)
Write == file' \in file..latest /\ UNCHANGED latest

Next == Mutate \/ Write

Spec == Init /\ [][Next]_<<latest, file>>
=============================================================================
