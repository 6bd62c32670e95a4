---------------------------- MODULE AtomicWrite -----------------------------
(***************************************************************************)
(* atomicWriteFile of src/atomicWrite.ts: a file is replaced by writing a  *)
(* temporary file beside it and renaming that.  Every write of one file    *)
(* uses the same temporary name, so writes that overlap share it: opening  *)
(* it truncates what another write put there, both may write to one file,  *)
(* and the first rename takes it away from the second.                     *)
(*                                                                         *)
(* A handle is what the write's open file has become: the temporary file,  *)
(* the file itself after a rename, or neither.  A write to a file that     *)
(* another one wrote since it was truncated leaves the longer text's tail  *)
(* behind, or nothing of it: either may happen.                            *)
(***************************************************************************)
CONSTANTS
  Writers,         \* bound: the writes under way at a time
  Data,            \* what may be written
  NoFile,          \* the file does not exist
  Empty, Torn      \* contents that are none of the data

Unreadable == {Empty, Torn}

VARIABLES
  file,            \* content of the file, or NoFile
  tmp,             \* content of the temporary file, or NoFile
  writer,          \* [Writers -> Writer]
  trust            \* for the properties: "overlapped" from when two writes
                   \* were under way until one has run alone, "stale" after
                   \* a failed write, "current" after a complete one

fileVars == <<file, tmp, writer, trust>>

Idle == [phase |-> "idle", handle |-> "none", data |-> NoFile, alone |-> FALSE]
Writer ==
  [phase : {"idle", "start", "opened", "written", "failed"},
   handle : {"none", "tmp", "file"}, data : Data \cup {NoFile}, alone : BOOLEAN]

Busy(ws) == {w \in Writers : ws[w].phase # "idle"}
Free == Writers \ Busy(writer)

FilesInit ==
  /\ file = NoFile
  /\ tmp = NoFile
  /\ writer = [w \in Writers |-> Idle]
  /\ trust = "current"

\* A call of atomicWriteFile: the writers, when w is to write data.
Started(ws, w, data) ==
  [v \in Writers |->
    IF v = w THEN [phase |-> "start", handle |-> "none", data |-> data,
                   alone |-> Busy(ws) = {}]
    ELSE [ws[v] EXCEPT !.alone = FALSE]]

TrustAfterStart(ws) == IF Busy(ws) = {} THEN trust ELSE "overlapped"

\* fs.promises.writeFile opens the file with "w".
Open(w) ==
  /\ writer[w].phase = "start"
  /\ tmp' = Empty
  /\ writer' = [writer EXCEPT ![w].phase = "opened", ![w].handle = "tmp"]
  /\ UNCHANGED <<file, trust>>

\* writeFile closes the file when it is done with it.
Closed(w, phase) ==
  [writer EXCEPT ![w] = [phase |-> phase, handle |-> "none", data |-> NoFile,
                         alone |-> @.alone]]

Written(content, data) == IF content = Empty THEN {data} ELSE {data, Torn}

WriteData(w) ==
  /\ writer[w].phase = "opened"
  /\ \/ /\ writer[w].handle = "tmp"
        /\ tmp' \in Written(tmp, writer[w].data)
        /\ UNCHANGED file
     \/ /\ writer[w].handle = "file"
        /\ file' \in Written(file, writer[w].data)
        /\ UNCHANGED tmp
     \/ writer[w].handle = "none" /\ UNCHANGED <<file, tmp>>
  /\ writer' = Closed(w, "written")
  /\ UNCHANGED trust

\* The write fails, with some of the data in the temporary file.
WriteFails(w) ==
  /\ writer[w].phase = "opened"
  /\ \/ writer[w].handle = "tmp" /\ tmp' = Torn /\ UNCHANGED file
     \/ writer[w].handle = "file" /\ file' = Torn /\ UNCHANGED tmp
     \/ writer[w].handle = "none" /\ UNCHANGED <<file, tmp>>
  /\ writer' = Closed(w, "failed")
  /\ UNCHANGED trust

\* What the open files of the other writes become when the temporary file
\* takes the file's place, or is removed.
AfterRename(w) ==
  [v \in Writers |->
    IF v = w THEN Idle
    ELSE [writer[v] EXCEPT !.handle = IF @ = "tmp" THEN "file" ELSE "none"]]
AfterUnlink(w) ==
  [v \in Writers |->
    IF v = w THEN Idle
    ELSE [writer[v] EXCEPT !.handle = IF @ = "tmp" THEN "none" ELSE @]]

\* Faulty variant: the file is published before it is written.
RenameEarly(w) ==
  /\ writer[w].phase \in {"opened", "written"}
  /\ tmp # NoFile
  /\ file' = tmp
  /\ tmp' = NoFile
  /\ writer' = AfterRename(w)
  /\ trust' = IF writer[w].alone THEN "current" ELSE trust

Rename(w) ==
  /\ writer[w].phase = "written"
  /\ tmp # NoFile
  /\ file' = tmp
  /\ tmp' = NoFile
  /\ writer' = AfterRename(w)
  /\ trust' = IF writer[w].alone THEN "current" ELSE trust

\* Another write has renamed the temporary file.
RenameFails(w) ==
  /\ writer[w].phase = "written"
  /\ tmp = NoFile
  /\ writer' = [writer EXCEPT ![w].phase = "failed"]
  /\ UNCHANGED <<file, tmp, trust>>

\* The failed write removes the temporary file, whose ever it is by now.
Unlink(w) ==
  /\ writer[w].phase = "failed"
  /\ tmp' = NoFile
  /\ writer' = AfterUnlink(w)
  /\ trust' = IF trust = "current" THEN "stale" ELSE trust
  /\ UNCHANGED file

FilesStep(w) ==
  \/ Open(w) \/ WriteData(w) \/ WriteFails(w)
  \/ Rename(w) \/ RenameFails(w) \/ Unlink(w)

\* The process dies: the file stays as it is on disk.  What is left of the
\* temporary file is dropped: whoever opens it next truncates it.
FilesCrash ==
  /\ writer' = [w \in Writers |-> Idle]
  /\ tmp' = NoFile
  /\ UNCHANGED <<file, trust>>

FilesTypeOK ==
  /\ file \in Data \cup Unreadable \cup {NoFile}
  /\ tmp \in Data \cup Unreadable \cup {NoFile}
  /\ writer \in [Writers -> Writer]
  /\ trust \in {"current", "stale", "overlapped"}

\* The writes under way as StoredFile sees them: all of them together, and the
\* content that a write has to itself until it is renamed or fails.
WriteMode ==
  IF Busy(writer) = {} THEN "idle"
  ELSE IF \A w \in Writers : ~writer[w].alone THEN "shared"
  ELSE IF \A w \in Writers : writer[w].alone => writer[w].phase = "failed" THEN "failed"
  ELSE "alone"

Sole == CHOOSE w \in Writers : writer[w].alone

NextContent ==
  IF WriteMode # "alone" THEN NoFile
  ELSE IF writer[Sole].phase = "written" THEN tmp ELSE writer[Sole].data

\* A write that runs alone replaces the file as a whole or leaves it as it
\* was, wherever it fails or the process dies: the file is never half written
\* unless writes overlapped.
FileIsWhole == trust # "overlapped" => file \notin Unreadable
=============================================================================
