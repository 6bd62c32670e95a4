----------------------------- MODULE StoredFile -----------------------------
(***************************************************************************)
(* What atomicWriteFile promises of a file: while a single write is under  *)
(* way nothing is seen of it, and it ends by replacing the whole content   *)
(* or none of it; neither a failure nor a crash touches the file.  Writes  *)
(* that overlap are promised nothing, until one has run alone again.       *)
(***************************************************************************)
CONSTANTS
  Data,            \* what may be written
  NoFile,          \* the file does not exist
  Unreadable       \* contents that are none of the data

VARIABLES
  file,            \* its content
  mode,            \* the writes under way: none ("idle"), a single one, which
                   \* is "alone" or "failed", or several that are "shared"
  next,            \* what a single write is to leave in the file, or NoFile
  trust            \* "current": the file is what was last to be written,
                   \* "stale" after a failure, "overlapped" if nothing is known

vars == <<file, mode, next, trust>>

Contents == Data \cup Unreadable \cup {NoFile}

Init ==
  /\ file = NoFile
  /\ mode = "idle"
  /\ next = NoFile
  /\ trust = "current"

Start ==
  /\ mode = "idle"
  /\ mode' = "alone"
  /\ next' \in Data
  /\ UNCHANGED <<file, trust>>

\* A write starts beside another, or two start together.
Overlap ==
  /\ mode' = "shared"
  /\ next' = NoFile
  /\ trust' = "overlapped"
  /\ UNCHANGED file

Commit ==
  /\ mode = "alone"
  /\ mode' = "idle"
  /\ file' = next
  /\ next' = NoFile
  /\ trust' = "current"

Fail ==
  /\ mode = "alone"
  /\ mode' = "failed"
  /\ next' = NoFile
  /\ UNCHANGED <<file, trust>>

GiveUp ==
  /\ mode = "failed"
  /\ mode' = "idle"
  /\ trust' = IF trust = "current" THEN "stale" ELSE trust
  /\ UNCHANGED <<file, next>>

\* Writes that overlap do what they like, and may end.
Disturb ==
  /\ mode = "shared"
  /\ mode' \in {"shared", "idle"}
  /\ file' \in Contents
  /\ UNCHANGED <<next, trust>>

Crash ==
  /\ mode' = "idle"
  /\ next' = NoFile
  /\ UNCHANGED <<file, trust>>

Next == Start \/ Overlap \/ Commit \/ Fail \/ GiveUp \/ Disturb \/ Crash

Spec == Init /\ [][Next]_vars
=============================================================================
