---------------------------- MODULE CourseProofs ----------------------------
(***************************************************************************)
(* Proofs about Course and the AtomicWrite it stores its file with: the    *)
(* invariants that course.cfg checks on a small instance hold for any set  *)
(* of external sources and of writers.                                     *)
(***************************************************************************)
EXTENDS Course, TLAPS

(* The file.  A write that runs alone has the temporary file to itself, and *)
(* unless writes overlapped every write runs alone.                        *)

SoleWrites ==
  /\ \A w \in Writers : writer[w].alone => Busy(writer) = {w}
  /\ trust # "overlapped" => \A w \in Busy(writer) : writer[w].alone

\* What a sole write does to the temporary file.
SoleContent(w) ==
  /\ writer[w].phase \in {"start", "opened"} => writer[w].data \in Courses
  /\ writer[w].phase = "opened" => writer[w].handle = "tmp" /\ tmp = Empty
  /\ writer[w].phase = "written" => tmp \in Courses

FilesInv ==
  /\ FilesTypeOK
  /\ SoleWrites
  /\ \A w \in Writers : writer[w].alone => SoleContent(w)
  /\ FileIsWhole

\* What a sole write leaves in the file, or has left there, is a course to p.
Saves(p) ==
  /\ \A w \in Writers : writer[w].alone =>
       /\ writer[w].phase \in {"start", "opened"} => writer[w].data.nextPoint = p
       /\ writer[w].phase = "written" => tmp.nextPoint = p
  /\ Free = Writers /\ trust = "current" => file \in Courses /\ file.nextPoint = p

-----------------------------------------------------------------------------
LEMMA Distinct == NoFile \notin Courses /\ Empty \notin Courses /\ Torn \notin Courses
  BY CourseAssumption

LEMMA InitialFiles == FilesInit => FilesInv
  <1> SUFFICES ASSUME FilesInit PROVE FilesInv
    OBVIOUS
  <1>1. Busy(writer) = {} /\ \A w \in Writers : ~writer[w].alone
    BY DEF FilesInit, Busy, Idle
  <1> QED
    BY <1>1, CourseAssumption
    DEF FilesInit, FilesInv, FilesTypeOK, SoleWrites, FileIsWhole, Unreadable, Writer, Idle

\* What a call of store.write does to the writers: the new one is alone if it is
\* the only one, and the others are not alone any more.
LEMMA PersistStartsOne ==
  ASSUME NEW c \in Courses, FilesInv, Persist(c)
  PROVE  \E w \in Writers \ Busy(writer) :
           /\ writer' = Started(writer, w, c)
           /\ writer'[w].phase = "start" /\ writer'[w].data = c
           /\ writer'[w].alone <=> Busy(writer) = {}
           /\ \A v \in Writers \ {w} :
                ~writer'[v].alone /\ writer'[v].phase = writer[v].phase
  <1> DEFINE w == CHOOSE v \in Free : TRUE
  <1>1. w \in Writers \ Busy(writer)
    BY DEF Persist, Free
  <1>2. writer' = Started(writer, w, c)
    BY DEF Persist
  <1> HIDE DEF w
  <1>3. writer'[w] = [phase |-> "start", handle |-> "none", data |-> c,
                      alone |-> Busy(writer) = {}]
    BY <1>1, <1>2 DEF Started
  <1>4. writer'[w].alone <=> Busy(writer) = {}
    <2> DEFINE r == [phase |-> "start", handle |-> "none", data |-> c,
                     alone |-> Busy(writer) = {}]
    <2>1. r.alone = (Busy(writer) = {})
      BY Zenon
    <2> HIDE DEF r
    <2>2. writer'[w] = r
      BY <1>3 DEF r
    <2> QED
      BY <2>1, <2>2
  <1>5. \A v \in Writers \ {w} : writer'[v] = [writer[v] EXCEPT !.alone = FALSE]
    BY <1>1, <1>2 DEF Started
  <1>6. \A v \in Writers \ {w} : ~writer'[v].alone /\ writer'[v].phase = writer[v].phase
    <2> TAKE v \in Writers \ {w}
    <2>1. writer[v] \in Writer
      BY DEF FilesInv, FilesTypeOK
    <2> QED
      BY <1>5, <2>1 DEF Writer
  <1>7. writer'[w].phase = "start" /\ writer'[w].data = c
    BY <1>3
  <1> QED
    BY <1>1, <1>2, <1>4, <1>6, <1>7

\* What a call of store.write has started: c is what a sole write will leave.
LEMMA PersistStarts ==
  ASSUME NEW c \in Courses, FilesInv, Persist(c)
  PROVE  FilesInv' /\ Saves(c.nextPoint)'
  <1> PICK w \in Writers \ Busy(writer) :
        /\ writer' = Started(writer, w, c)
        /\ writer'[w].phase = "start" /\ writer'[w].data = c
        /\ writer'[w].alone <=> Busy(writer) = {}
        /\ \A v \in Writers \ {w} :
             ~writer'[v].alone /\ writer'[v].phase = writer[v].phase
    BY PersistStartsOne
  <1>1. w \in Writers /\ w \notin Busy(writer)
    OBVIOUS
  <1>2. trust' = TrustAfterStart(writer) /\ file' = file /\ tmp' = tmp
    BY DEF Persist
  <1>3. FilesTypeOK'
    BY <1>1, <1>2 DEF FilesInv, FilesTypeOK, Started, TrustAfterStart, Writer, Idle
  <1>4. writer'[w].phase = "start" /\ writer'[w].data = c
    OBVIOUS
  <1>6. writer'[w].alone <=> Busy(writer) = {}
    OBVIOUS
  <1>7. \A v \in Writers \ {w} : ~writer'[v].alone /\ writer'[v].phase = writer[v].phase
    OBVIOUS
  <1>8. Busy(writer') = Busy(writer) \cup {w}
    BY <1>1, <1>4, <1>7 DEF Busy
  <1>9. SoleWrites'
    <2>1. \A v \in Writers : writer'[v].alone => Busy(writer') = {v}
      <3> TAKE v \in Writers
      <3> HAVE writer'[v].alone
      <3>1. v = w
        BY <1>7
      <3>2. Busy(writer) = {}
        BY <3>1, <1>6
      <3> QED
        BY <3>1, <3>2, <1>8
    <2>2. trust' # "overlapped" => Busy(writer) = {}
      BY <1>2 DEF TrustAfterStart
    <2>3. trust' # "overlapped" => \A v \in Busy(writer') : writer'[v].alone
      <3> SUFFICES ASSUME trust' # "overlapped" PROVE writer'[w].alone /\ Busy(writer') = {w}
        OBVIOUS
      <3> QED
        BY <2>2, <1>6, <1>8
    <2> QED
      BY <2>1, <2>3 DEF SoleWrites
  <1>10. \A v \in Writers : writer'[v].alone => SoleContent(v)'
    <2> SUFFICES ASSUME NEW v \in Writers, writer'[v].alone PROVE SoleContent(v)'
      OBVIOUS
    <2>1. v = w
      BY <1>7
    <2> QED
      BY <2>1, <1>4 DEF SoleContent
  <1>11. FileIsWhole'
    BY <1>2 DEF FilesInv, FileIsWhole, TrustAfterStart
  <1>12. Saves(c.nextPoint)'
    <2>1. Free' # Writers'
      BY <1>1, <1>8 DEF Free
    <2> QED
      BY <2>1, <1>4, <1>7 DEF Saves
  <1> QED
    BY <1>3, <1>9, <1>10, <1>11, <1>12 DEF FilesInv

\* Whatever step a write takes, a write that runs alone is that write.
LEMMA OnlyTheStepping ==
  ASSUME FilesInv, NEW w \in Writers, writer[w].phase # "idle",
         NEW v \in Writers, writer[v].alone
  PROVE  v = w
  <1>1. w \in Busy(writer)
    BY DEF Busy
  <1>2. Busy(writer) = {v}
    BY DEF FilesInv, SoleWrites
  <1> QED
    BY <1>1, <1>2

LEMMA OpenKeeps ==
  ASSUME FilesInv, NEW w \in Writers, Open(w), NEW p
  PROVE  FilesInv' /\ (Saves(p) => Saves(p)')
  <1>1. /\ writer' = [writer EXCEPT ![w].phase = "opened", ![w].handle = "tmp"]
        /\ writer[w].phase = "start" /\ tmp' = Empty /\ file' = file /\ trust' = trust
    BY DEF Open
  <1>2. writer \in [Writers -> Writer]
    BY DEF FilesInv, FilesTypeOK
  <1>3. FilesTypeOK'
    BY <1>1, <1>2 DEF FilesInv, FilesTypeOK, Writer, Unreadable
  <1>4. \A v \in Writers : writer'[v].alone = writer[v].alone /\ writer'[v].data = writer[v].data
    BY <1>1, <1>2 DEF Writer
  <1>5. /\ writer'[w].phase = "opened" /\ writer'[w].handle = "tmp"
        /\ \A v \in Writers \ {w} : writer'[v] = writer[v]
    BY <1>1, <1>2 DEF Writer
  <1>6. Busy(writer') = Busy(writer)
    BY <1>1, <1>5 DEF Busy
  <1>7. SoleWrites'
    BY <1>1, <1>4, <1>6 DEF FilesInv, SoleWrites, Busy
  <1>8. \A v \in Writers : writer'[v].alone => v = w
    BY <1>1, <1>4, OnlyTheStepping
  <1>9. writer'[w].alone => SoleContent(w)'
    BY <1>1, <1>4, <1>5 DEF FilesInv, SoleContent
  <1>10. \A v \in Writers : writer'[v].alone => SoleContent(v)'
    BY <1>8, <1>9
  <1>11. FileIsWhole'
    BY <1>1 DEF FilesInv, FileIsWhole
  <1>12. ASSUME Saves(p) PROVE Saves(p)'
    <2>1. Free' # Writers'
      BY <1>1, <1>6 DEF Free, Busy
    <2>2. writer'[w].alone => writer'[w].data.nextPoint = p
      BY <1>1, <1>4, <1>12 DEF Saves
    <2> QED
      BY <2>1, <2>2, <1>5, <1>8 DEF Saves
  <1> QED
    BY <1>3, <1>7, <1>10, <1>11, <1>12 DEF FilesInv

\* A write that is under way runs alone unless writes overlapped.
LEMMA SteppingIsAlone ==
  ASSUME FilesInv, NEW w \in Writers, writer[w].phase # "idle", trust # "overlapped"
  PROVE  writer[w].alone
  BY DEF FilesInv, SoleWrites, Busy

\* The end of the write itself, in success and in failure.
LEMMA CloseKeeps ==
  ASSUME FilesInv, NEW w \in Writers, WriteData(w) \/ WriteFails(w), NEW p
  PROVE  FilesInv' /\ (Saves(p) => Saves(p)')
  <1> PICK phase \in {"written", "failed"} :
        /\ writer' = Closed(w, phase)
        /\ phase = "written" => WriteData(w)
    BY DEF WriteData, WriteFails
  <1>1. writer[w].phase = "opened" /\ trust' = trust
    BY DEF WriteData, WriteFails
  <1>2. writer \in [Writers -> Writer]
    BY DEF FilesInv, FilesTypeOK
  <1>3. FilesTypeOK'
    <2>1. writer' \in [Writers -> Writer]
      BY <1>2 DEF Closed, Writer
    <2>2. writer[w].data \in Courses \cup {NoFile}
      BY <1>2 DEF Writer
    <2> QED
      BY <1>1, <2>1, <2>2
      DEF FilesInv, FilesTypeOK, WriteData, WriteFails, Written, Unreadable
  <1>4. /\ writer'[w].alone = writer[w].alone /\ writer'[w].phase = phase
        /\ \A v \in Writers \ {w} : writer'[v] = writer[v]
    BY <1>2 DEF Closed, Writer
  <1>5. Busy(writer') = Busy(writer)
    BY <1>1, <1>4 DEF Busy
  <1>6. SoleWrites'
    BY <1>1, <1>4, <1>5 DEF FilesInv, SoleWrites, Busy
  <1>7. \A v \in Writers : writer'[v].alone => v = w
    BY <1>1, <1>4, OnlyTheStepping
  <1>8. writer[w].alone =>
          /\ writer[w].handle = "tmp" /\ writer[w].data \in Courses /\ tmp = Empty
          /\ file' = file
          /\ phase = "written" => tmp' = writer[w].data
    BY <1>1 DEF FilesInv, SoleContent, WriteData, WriteFails, Written
  <1>9. writer'[w].alone => SoleContent(w)'
    BY <1>4, <1>8 DEF SoleContent
  <1>10. \A v \in Writers : writer'[v].alone => SoleContent(v)'
    BY <1>7, <1>9
  <1>11. FileIsWhole'
    BY <1>1, <1>8, SteppingIsAlone DEF FilesInv, FileIsWhole
  <1>12. ASSUME Saves(p) PROVE Saves(p)'
    <2>1. Free' # Writers'
      BY <1>1, <1>5 DEF Free, Busy
    <2>2. writer[w].alone => writer[w].data.nextPoint = p
      BY <1>1, <1>12 DEF Saves
    <2> QED
      BY <2>1, <2>2, <1>4, <1>7, <1>8 DEF Saves
  <1> QED
    BY <1>3, <1>6, <1>10, <1>11, <1>12 DEF FilesInv

\* A write that is over leaves nothing behind but the file.
LEMMA OverKeeps ==
  ASSUME FilesInv, NEW w \in Writers, Rename(w) \/ Unlink(w), NEW p
  PROVE  FilesInv' /\ (Saves(p) => Saves(p)')
  <1>1. writer[w].phase \in {"written", "failed"}
    BY DEF Rename, Unlink
  <1>2. writer \in [Writers -> Writer]
    BY DEF FilesInv, FilesTypeOK
  <1>3. /\ writer'[w].phase = "idle" /\ ~writer'[w].alone
        /\ \A v \in Writers \ {w} : /\ writer'[v].phase = writer[v].phase
                                     /\ writer'[v].alone = writer[v].alone
    BY <1>2 DEF Rename, Unlink, AfterRename, AfterUnlink, Idle, Writer
  <1>4. FilesTypeOK'
    <2>1. writer' \in [Writers -> Writer]
      <3>1. Idle \in Writer
        BY DEF Idle, Writer
      <3>2. \A v \in Writers : \A h \in {"none", "tmp", "file"} :
              [writer[v] EXCEPT !.handle = h] \in Writer
        BY <1>2 DEF Writer
      <3>3. \A v \in Writers : writer[v].handle \in {"none", "tmp", "file"}
        BY <1>2 DEF Writer
      <3>4. CASE Rename(w)
        BY <3>1, <3>2, <3>4 DEF Rename, AfterRename
      <3>5. CASE Unlink(w)
        BY <3>1, <3>2, <3>3, <3>5 DEF Unlink, AfterUnlink
      <3> QED
        BY <3>4, <3>5
    <2> QED
      BY <2>1 DEF FilesInv, FilesTypeOK, Rename, Unlink
  <1>5. \A v \in Writers : ~writer'[v].alone
    BY <1>1, <1>3, OnlyTheStepping
  <1>6. Busy(writer') = Busy(writer) \ {w}
    BY <1>3 DEF Busy
  <1>7. trust' # "overlapped" => writer[w].alone
    BY <1>1, SteppingIsAlone DEF Rename, Unlink
  <1>8. writer[w].alone => Busy(writer') = {}
    BY <1>6 DEF FilesInv, SoleWrites
  <1>9. SoleWrites'
    BY <1>5, <1>7, <1>8 DEF SoleWrites
  <1>10. Rename(w) /\ writer[w].alone => file' = tmp /\ tmp \in Courses
    BY DEF Rename, FilesInv, SoleContent
  <1>11. FileIsWhole'
    BY <1>7, <1>10, Distinct DEF FilesInv, FileIsWhole, Rename, Unlink, Unreadable
  <1>12. ASSUME Saves(p) PROVE Saves(p)'
    <2>1. Rename(w) /\ writer[w].alone => tmp.nextPoint = p
      BY <1>12 DEF Saves, Rename
    <2>2. trust' = "current" => Rename(w) /\ writer[w].alone
      BY <1>7 DEF Rename, Unlink
    <2> QED
      BY <2>1, <2>2, <1>5, <1>10 DEF Saves
  <1> QED
    BY <1>4, <1>5, <1>9, <1>11, <1>12 DEF FilesInv

\* A write that runs alone finds its temporary file again.
LEMMA RenameFailsKeeps ==
  ASSUME FilesInv, NEW w \in Writers, RenameFails(w), NEW p
  PROVE  FilesInv' /\ (Saves(p) => Saves(p)')
  <1>1. /\ writer' = [writer EXCEPT ![w].phase = "failed"] /\ writer[w].phase = "written"
        /\ tmp = NoFile /\ tmp' = tmp /\ file' = file /\ trust' = trust
    BY DEF RenameFails
  <1>2. writer \in [Writers -> Writer]
    BY DEF FilesInv, FilesTypeOK
  <1>3. ~writer[w].alone
    BY <1>1, Distinct DEF FilesInv, SoleContent
  <1>4. /\ writer'[w].phase = "failed"
        /\ \A v \in Writers : writer'[v].alone = writer[v].alone
    BY <1>1, <1>2 DEF Writer
  <1>5. \A v \in Writers : ~writer'[v].alone
    BY <1>1, <1>3, <1>4, OnlyTheStepping
  <1>6. trust' = "overlapped"
    BY <1>1, <1>3, SteppingIsAlone
  <1>7. FilesTypeOK'
    BY <1>1, <1>2 DEF FilesInv, FilesTypeOK, Writer
  <1> QED
    BY <1>5, <1>6, <1>7 DEF FilesInv, SoleWrites, FileIsWhole, Saves

LEMMA FilesStepKeeps ==
  ASSUME FilesInv, NEW w \in Writers, FilesStep(w), NEW p
  PROVE  FilesInv' /\ (Saves(p) => Saves(p)')
  BY OpenKeeps, CloseKeeps, OverKeeps, RenameFailsKeeps DEF FilesStep

\* After a crash no write is under way.
LEMMA CrashKeeps ==
  ASSUME FilesInv, FilesCrash
  PROVE  FilesInv' /\ \A w \in Writers : ~writer'[w].alone
  <1>1. \A w \in Writers : writer'[w] = Idle
    BY DEF FilesCrash
  <1>2. \A w \in Writers : writer'[w].phase = "idle" /\ ~writer'[w].alone
    BY <1>1 DEF Idle
  <1>3. Busy(writer') = {}
    BY <1>2 DEF Busy
  <1>4. FilesTypeOK'
    BY DEF FilesInv, FilesTypeOK, FilesCrash, Idle, Writer
  <1> QED
    BY <1>2, <1>3, <1>4 DEF FilesInv, SoleWrites, FileIsWhole, FilesCrash

-----------------------------------------------------------------------------
(* What is stored.  Only the API follows routes and waypoints, in the file *)
(* as in memory, so that whatever a restart accepts is a course of its own. *)

Proper(c) ==
  /\ c.activeRoute # NoRoute => c.nextPoint = RoutePoint
  /\ c.nextPoint.kind = "waypoint" => c.nextPoint.by = "API"

ProperCourses == {c \in Courses : Proper(c)}

StoredAreProper ==
  /\ file \in Courses => Proper(file)
  /\ tmp \in Courses => Proper(tmp)
  /\ \A w \in Writers : writer[w].data \in Courses => Proper(writer[w].data)

LEMMA FilesStepKeepsProper ==
  ASSUME FilesInv, StoredAreProper, NEW w \in Writers, FilesStep(w)
  PROVE  StoredAreProper'
  <1>1. writer \in [Writers -> Writer]
    BY DEF FilesInv, FilesTypeOK
  <1>2. NoFile \notin Courses /\ Empty \notin Courses /\ Torn \notin Courses
    BY Distinct
  <1>3. \A v \in Writers : writer'[v].data \in {writer[v].data, NoFile}
    <2>1. CASE Open(w) \/ RenameFails(w)
      BY <1>1, <2>1 DEF Open, RenameFails, Writer
    <2>2. CASE WriteData(w) \/ WriteFails(w)
      BY <1>1, <2>2 DEF WriteData, WriteFails, Closed, Writer
    <2>3. CASE Rename(w)
      BY <1>1, <2>3 DEF Rename, AfterRename, Idle, Writer
    <2>4. CASE Unlink(w)
      BY <1>1, <2>4 DEF Unlink, AfterUnlink, Idle, Writer
    <2> QED
      BY <2>1, <2>2, <2>3, <2>4 DEF FilesStep
  <1>4. file' \in {file, tmp, writer[w].data, Torn}
    BY DEF FilesStep, Open, WriteData, WriteFails, Rename, RenameFails, Unlink, Written
  <1>5. tmp' \in {tmp, writer[w].data, Empty, Torn, NoFile}
    BY DEF FilesStep, Open, WriteData, WriteFails, Rename, RenameFails, Unlink, Written
  <1>6. \A v \in Writers : writer'[v].data \in Courses => Proper(writer'[v].data)
    BY <1>2, <1>3 DEF StoredAreProper
  <1>7. file' \in Courses => Proper(file')
    BY <1>2, <1>4 DEF StoredAreProper
  <1>8. tmp' \in Courses => Proper(tmp')
    BY <1>2, <1>5 DEF StoredAreProper
  <1> QED
    BY <1>6, <1>7, <1>8 DEF StoredAreProper

LEMMA StartedData ==
  ASSUME NEW ws \in [Writers -> Writer], NEW w \in Writers, NEW c
  PROVE  /\ Started(ws, w, c)[w].data = c
         /\ \A v \in Writers \ {w} : Started(ws, w, c)[v].data = ws[v].data
  BY DEF Started, Writer

LEMMA PersistKeepsProper ==
  ASSUME FilesInv, StoredAreProper, NEW c \in ProperCourses, Persist(c)
  PROVE  StoredAreProper'
  <1> DEFINE w == CHOOSE v \in Free : TRUE
  <1>1. w \in Writers /\ writer' = Started(writer, w, c) /\ file' = file /\ tmp' = tmp
    BY DEF Persist, Free
  <1> HIDE DEF w
  <1>2. writer \in [Writers -> Writer]
    BY DEF FilesInv, FilesTypeOK
  <1>3. /\ writer'[w].data = c
        /\ \A v \in Writers \ {w} : writer'[v].data = writer[v].data
    BY <1>1, <1>2, StartedData
  <1> QED
    BY <1>1, <1>3 DEF StoredAreProper, ProperCourses

\* Both writes of a takeover overlap: nothing is said of what they leave.
LEMMA PersistBothStarts ==
  ASSUME FilesInv, StoredAreProper, NEW c \in ProperCourses, NEW d \in ProperCourses,
         PersistBoth(c, d), NEW p
  PROVE  /\ FilesInv' /\ StoredAreProper' /\ Saves(p)'
         /\ trust' = "overlapped" /\ file' = file
         /\ Busy(writer') # {} /\ \A u \in Writers : ~writer'[u].alone
  <1> PICK w \in Free, v \in Free :
        /\ w # v
        /\ writer' = Started(Started(writer, w, c), v, d)
        /\ trust' = "overlapped"
        /\ file' = file /\ tmp' = tmp
    BY DEF PersistBoth
  <1> DEFINE ws == Started(writer, w, c)
  <1>1. writer \in [Writers -> Writer] /\ w \in Writers /\ v \in Writers
    BY DEF FilesInv, FilesTypeOK, Free
  <1>2. c \in Courses /\ d \in Courses
    BY DEF ProperCourses
  <1>3. ws \in [Writers -> Writer]
    BY <1>1, <1>2 DEF Started, Writer
  <1>4. ws[w].phase = "start"
    BY <1>1 DEF Started
  <1>5. w \in Busy(ws)
    BY <1>1, <1>4 DEF Busy
  <1>6. /\ ws[w].data = c
        /\ \A u \in Writers \ {w} : ws[u].data = writer[u].data
    BY <1>1, StartedData
  <1> HIDE DEF ws
  <1>7. writer' = Started(ws, v, d)
    BY DEF ws
  <1>9. writer'[v] = [phase |-> "start", handle |-> "none", data |-> d, alone |-> FALSE]
    <2>1. (Busy(ws) = {}) = FALSE
      BY <1>5
    <2> QED
      BY <1>1, <1>7, <2>1 DEF Started
  <1>10. \A u \in Writers \ {v} : writer'[u] = [ws[u] EXCEPT !.alone = FALSE]
    BY <1>1, <1>7 DEF Started
  <1>8. \A u \in Writers : writer'[u] \in Writer /\ ~writer'[u].alone
    <2> TAKE u \in Writers
    <2>1. CASE u = v
      <3>1. [phase |-> "start", handle |-> "none", data |-> d, alone |-> FALSE] \in Writer
        BY <1>2, Zenon DEF Writer
      <3>2. ~writer'[u].alone
        BY <1>9, <2>1
      <3> QED
        BY <3>1, <3>2, <1>9, <2>1
    <2>2. CASE u # v
      <3>1. ws[u] \in Writer
        BY <1>3
      <3>2. writer'[u] = [ws[u] EXCEPT !.alone = FALSE]
        BY <1>10, <2>2
      <3>3. writer'[u] \in Writer
        BY <3>1, <3>2 DEF Writer
      <3>4. ~writer'[u].alone
        BY <3>1, <3>2 DEF Writer
      <3> QED
        BY <3>3, <3>4
    <2> QED
      BY <2>1, <2>2
  <1>11. writer' \in [Writers -> Writer]
    <2>1. writer' = [u \in Writers |-> writer'[u]]
      BY <1>7 DEF Started
    <2> QED
      BY <1>8, <2>1
  <1>13. /\ writer'[v].data = d
         /\ \A u \in Writers \ {v} : writer'[u].data = ws[u].data
    BY <1>1, <1>3, <1>7, StartedData
  <1>14. FilesInv'
    BY <1>8, <1>11 DEF FilesInv, FilesTypeOK, SoleWrites, FileIsWhole
  <1>15. StoredAreProper'
    BY <1>6, <1>13 DEF StoredAreProper, ProperCourses
  <1>16. Saves(p)'
    BY <1>8 DEF Saves
  <1>17. Busy(writer') # {}
    BY <1>1, <1>9 DEF Busy
  <1> QED
    BY <1>8, <1>14, <1>15, <1>16, <1>17

-----------------------------------------------------------------------------
(* The invariant: the course, its owner, the timer and the mode agree, and *)
(* the file is or becomes the course of the API.                           *)

CourseTypeOK ==
  /\ course \in ProperCourses
  /\ cmdSource \in Owners \cup {NoSource}
  /\ navTimer \in BOOLEAN
  /\ apiOnly \in BOOLEAN
  /\ fetching \subseteq {"routeAction", "routeUpdate", "waypointUpdate"}

OwnerInv == cmdSource = course.nextPoint.by /\ ExternalCourseIsTimed

CourseInv == CourseTypeOK /\ OwnerInv

StoreInv ==
  /\ FilesInv
  /\ StoredAreProper
  /\ cmdSource = "API" => Saves(course.nextPoint)

Inv == CourseInv /\ StoreInv

\* What the store needs of a step that writes nothing, the course, or both.
LEMMA StoreOfNoWrite ==
  ASSUME StoreInv, NoWrite,
         cmdSource' = "API" => cmdSource = "API" /\ course'.nextPoint = course.nextPoint
  PROVE  StoreInv'
  <1>1. file' = file /\ tmp' = tmp /\ writer' = writer /\ trust' = trust
    BY DEF NoWrite
  <1>2. FilesInv'
    BY <1>1 DEF StoreInv, FilesInv, FilesTypeOK, SoleWrites, SoleContent, FileIsWhole, Busy
  <1>3. StoredAreProper'
    BY <1>1 DEF StoreInv, StoredAreProper
  <1>4. ASSUME cmdSource' = "API" PROVE Saves(course.nextPoint)'
    <2>1. Saves(course.nextPoint) /\ course'.nextPoint = course.nextPoint
      BY <1>4 DEF StoreInv
    <2> QED
      BY <1>1, <2>1 DEF Saves, Free, Busy
  <1> QED
    BY <1>2, <1>3, <1>4 DEF StoreInv

LEMMA StoreOfPersist ==
  ASSUME StoreInv, NEW c \in ProperCourses, Persist(c),
         cmdSource' = "API" => course'.nextPoint = c.nextPoint
  PROVE  StoreInv'
  <1>1. FilesInv' /\ Saves(c.nextPoint)'
    BY PersistStarts DEF StoreInv, ProperCourses
  <1>2. StoredAreProper'
    BY PersistKeepsProper DEF StoreInv
  <1>3. cmdSource' = "API" => Saves(course.nextPoint)'
    BY <1>1 DEF Saves
  <1> QED
    BY <1>1, <1>2, <1>3 DEF StoreInv

LEMMA StoreOfEmit ==
  ASSUME StoreInv, course' \in ProperCourses, EmitCourseInfo
  PROVE  StoreInv'
  <1>1. CASE cmdSource' = "API"
    <2> DEFINE c == course'
    <2>1. c \in ProperCourses /\ Persist(c) /\ course'.nextPoint = c.nextPoint
      BY <1>1 DEF EmitCourseInfo
    <2> HIDE DEF c
    <2> QED
      BY <2>1, StoreOfPersist
  <1>2. CASE cmdSource' # "API"
    BY <1>2, StoreOfNoWrite DEF EmitCourseInfo
  <1> QED
    BY <1>1, <1>2

LEMMA StoreOfTakeover ==
  ASSUME StoreInv, course' \in ProperCourses, PersistBoth(NoCourseInfo, course')
  PROVE  StoreInv'
  <1>1. NoCourseInfo \in ProperCourses
    BY DEF NoCourseInfo, NoPoint, ProperCourses, Courses, Points, Proper
  <1> DEFINE d == course'
  <1>2. d \in ProperCourses /\ PersistBoth(NoCourseInfo, d)
    OBVIOUS
  <1> HIDE DEF d
  <1>3. FilesInv' /\ StoredAreProper' /\ \A q : Saves(q)'
    BY <1>1, <1>2, PersistBothStarts DEF StoreInv
  <1>4. Saves(course.nextPoint)'
    BY <1>3 DEF Saves
  <1> QED
    BY <1>3, <1>4 DEF StoreInv

-----------------------------------------------------------------------------
LEMMA Constants ==
  /\ "API" \in Owners /\ NoSource \notin Owners /\ "API" \notin Externals
  /\ Externals \subseteq Owners /\ NoRoute \notin Indices /\ Indices \subseteq Int
  BY CourseAssumption DEF Owners, Indices

LEMMA ProperPoints ==
  /\ NoCourseInfo \in ProperCourses
  /\ \A kind \in {"location", "waypoint"}, src \in Owners :
       kind = "location" \/ src = "API" =>
         [nextPoint |-> [kind |-> kind, by |-> src], activeRoute |-> NoRoute] \in ProperCourses
  /\ \A index \in Indices :
       [nextPoint |-> RoutePoint, activeRoute |-> index] \in ProperCourses
  <1>1. NoCourseInfo \in ProperCourses
    BY DEF NoCourseInfo, NoPoint, ProperCourses, Courses, Points, Proper
  <1>2. ASSUME NEW kind \in {"location", "waypoint"}, NEW src \in Owners,
               kind = "location" \/ src = "API"
        PROVE  [nextPoint |-> [kind |-> kind, by |-> src], activeRoute |-> NoRoute]
                 \in ProperCourses
    BY <1>2 DEF ProperCourses, Courses, Points, Proper
  <1>3. ASSUME NEW index \in Indices
        PROVE  [nextPoint |-> RoutePoint, activeRoute |-> index] \in ProperCourses
    BY Constants DEF ProperCourses, Courses, Points, Proper, RoutePoint
  <1> QED
    BY <1>1, <1>2, <1>3

\* parsePointIndex: the result is a point of the route.
LEMMA ParsePointIndexInRange ==
  ASSUME NEW index \in Int, NEW length \in 1..MaxLen
  PROVE  ParsePointIndex(index, length) \in 0..(length - 1)
  BY CourseAssumption DEF ParsePointIndex

\* Clearing the course, and setting one.
LEMMA NoCourseKeeps ==
  ASSUME CourseInv, NoCourse, apiOnly' \in BOOLEAN
  PROVE  CourseInv' /\ cmdSource' # "API"
  BY ProperPoints, Constants
  DEF CourseInv, CourseTypeOK, OwnerInv, NoCourse, NoCourseInfo, NoPoint,
      ExternalCourseIsTimed, IsExternal, Owners

LEMMA ClearDestinationKeeps ==
  ASSUME Inv, ClearDestination, apiOnly' \in BOOLEAN
  PROVE  Inv'
  <1>1. CourseInv'
    BY NoCourseKeeps DEF Inv, ClearDestination
  <1>2. NoCourseInfo \in ProperCourses /\ Persist(NoCourseInfo)
        /\ course'.nextPoint = NoCourseInfo.nextPoint
    BY ProperPoints DEF ClearDestination, NoCourse
  <1>3. StoreInv'
    BY <1>2, StoreOfPersist DEF Inv
  <1> QED
    BY <1>1, <1>3 DEF Inv

LEMMA SetCourseKeeps ==
  ASSUME Inv, NEW c \in ProperCourses, NEW src \in Owners, SetCourse(c, src),
         c.nextPoint.by = src, UNCHANGED apiOnly
  PROVE  Inv'
  <1>1. course' = c /\ cmdSource' = src /\ (navTimer' <=> IsExternal(src))
        /\ fetching' = fetching
    BY DEF SetCourse
  <1>2. CourseInv'
    <2>1. navTimer' \in BOOLEAN
      BY DEF SetCourse, IsExternal
    <2> QED
      BY <1>1, <2>1
      DEF Inv, CourseInv, CourseTypeOK, OwnerInv, ExternalCourseIsTimed,
          IsExternal
  <1>3. CASE IsSourceChange(src)
    <2>1. course' \in ProperCourses /\ PersistBoth(NoCourseInfo, course')
      BY <1>1, <1>3 DEF SetCourse
    <2> QED
      BY <1>2, <2>1, StoreOfTakeover DEF Inv
  <1>4. CASE ~IsSourceChange(src)
    <2>1. course' \in ProperCourses /\ EmitCourseInfo
      BY <1>1, <1>4 DEF SetCourse
    <2> QED
      BY <1>2, <2>1, StoreOfEmit DEF Inv
  <1> QED
    BY <1>3, <1>4

\* A step that leaves owner, timer and next point as they are.
LEMMA CourseInvOfRouteStep ==
  ASSUME CourseInv, course' \in ProperCourses, course'.nextPoint.by = course.nextPoint.by,
         UNCHANGED <<cmdSource, navTimer, apiOnly>>,
         fetching' \subseteq {"routeAction", "routeUpdate", "waypointUpdate"}
  PROVE  CourseInv'
  BY DEF CourseInv, CourseTypeOK, OwnerInv, ExternalCourseIsTimed, IsExternal

LEMMA OnRoute ==
  ASSUME CourseInv, course.activeRoute # NoRoute, NEW index \in Indices
  PROVE  /\ course.nextPoint = RoutePoint /\ course.activeRoute \in Indices
         /\ [course EXCEPT !.activeRoute = index] \in ProperCourses
         /\ [course EXCEPT !.activeRoute = index, !.nextPoint = RoutePoint] \in ProperCourses
         /\ [course EXCEPT !.nextPoint = RoutePoint] \in ProperCourses
         /\ [course EXCEPT !.activeRoute = index].nextPoint = RoutePoint
         /\ [course EXCEPT !.activeRoute = index, !.nextPoint = RoutePoint].nextPoint = RoutePoint
         /\ [course EXCEPT !.nextPoint = RoutePoint].nextPoint = RoutePoint
  BY Constants DEF CourseInv, CourseTypeOK, ProperCourses, Courses, Points, Proper, RoutePoint

-----------------------------------------------------------------------------
LEMMA InitInv == Init => Inv
  <1> SUFFICES ASSUME Init PROVE Inv
    OBVIOUS
  <1>1. FilesInv
    BY InitialFiles DEF Init
  <1>2. CourseInv
    BY ProperPoints, Constants
    DEF Init, CourseInv, CourseTypeOK, OwnerInv, ExternalCourseIsTimed,
        IsExternal, NoCourseInfo, NoPoint, Owners
  <1>3. StoredAreProper
    BY Distinct DEF Init, FilesInit, StoredAreProper, Idle
  <1>4. cmdSource # "API"
    BY Constants DEF Init
  <1> QED
    BY <1>1, <1>2, <1>3, <1>4 DEF Inv, StoreInv

LEMMA RequestsKeep ==
  ASSUME Inv,
         \/ PutDestination \/ PutActiveRoute \/ DeleteCourse \/ ClearUnsaved
         \/ PutAttribute \/ PostApiOnly \/ DeleteApiOnly \/ PutSettings
  PROVE  Inv'
  <1>1. CASE PutDestination
    <2> PICK kind \in {"location", "waypoint"} : SetDestination(kind, "API")
      BY <1>1 DEF PutDestination
    <2> DEFINE c == [nextPoint |-> [kind |-> kind, by |-> "API"], activeRoute |-> NoRoute]
    <2>1. c \in ProperCourses /\ c.nextPoint.by = "API" /\ SetCourse(c, "API")
      BY ProperPoints, Constants DEF SetDestination
    <2> HIDE DEF c
    <2> QED
      BY <1>1, <2>1, Constants, SetCourseKeeps DEF PutDestination
  <1>2. CASE PutActiveRoute
    <2> PICK index \in Indices, length \in 1..MaxLen : ActivateRoute(index, length)
      BY <1>2 DEF PutActiveRoute
    <2> DEFINE i == ParsePointIndex(index, length)
               c == [nextPoint |-> RoutePoint, activeRoute |-> i]
    <2>1. index \in Int
      BY Constants
    <2>2. i \in 0..(length - 1)
      BY <2>1, ParsePointIndexInRange
    <2> HIDE DEF i
    <2>3. i \in Indices
      BY <2>2, CourseAssumption DEF Indices
    <2>4. c \in ProperCourses /\ c.nextPoint.by = "API"
      BY <2>3, ProperPoints DEF RoutePoint
    <2>5. SetCourse(c, "API")
      BY DEF ActivateRoute, i
    <2> HIDE DEF c
    <2> QED
      BY <1>2, <2>4, <2>5, Constants, SetCourseKeeps DEF PutActiveRoute
  <1>3. CASE DeleteCourse
    BY <1>3, ClearDestinationKeeps DEF DeleteCourse, Inv, CourseInv, CourseTypeOK
  <1>4. CASE PutAttribute
    <2>1. course' = course /\ cmdSource' = cmdSource /\ Persist(course)
          /\ course \in ProperCourses
      BY <1>4 DEF PutAttribute, courseVars, Inv, CourseInv, CourseTypeOK
    <2>2. CourseInv'
      BY <1>4, <2>1, CourseInvOfRouteStep
      DEF PutAttribute, courseVars, Inv, CourseInv, CourseTypeOK
    <2>3. StoreInv'
      <3> PICK c \in ProperCourses : c = course
        BY <2>1
      <3>1. Persist(c) /\ course'.nextPoint = c.nextPoint
        BY <2>1 DEF Persist
      <3> QED
        BY <3>1, StoreOfPersist DEF Inv
    <2> QED
      BY <2>2, <2>3 DEF Inv
  <1>5. CASE PostApiOnly
    <2>1. CASE cmdSource = "API"
      <3>1. NoWrite /\ UNCHANGED <<course, cmdSource, navTimer, fetching>>
            /\ apiOnly' = TRUE
        BY <1>5, <2>1 DEF PostApiOnly
      <3>2. CourseInv'
        BY <2>1, <3>1, Constants
        DEF Inv, CourseInv, CourseTypeOK, OwnerInv, ExternalCourseIsTimed,
            IsExternal
      <3> QED
        BY <3>1, <3>2, StoreOfNoWrite DEF Inv
    <2>2. CASE cmdSource # "API"
      BY <1>5, <2>2, ClearDestinationKeeps DEF PostApiOnly
    <2> QED
      BY <2>1, <2>2
  <1>6. CASE DeleteApiOnly
    <2>1. CourseInv'
      BY <1>6
      DEF DeleteApiOnly, Inv, CourseInv, CourseTypeOK, OwnerInv, ExternalCourseIsTimed, IsExternal
    <2> QED
      BY <1>6, <2>1, StoreOfNoWrite DEF DeleteApiOnly, Inv
  <1>7. CASE PutSettings
    <2>1. CourseInv'
      BY <1>7
      DEF PutSettings, Inv, CourseInv, CourseTypeOK, OwnerInv, ExternalCourseIsTimed, IsExternal
    <2> QED
      BY <1>7, <2>1, StoreOfNoWrite DEF PutSettings, Inv
  <1>8. CASE ClearUnsaved
    <2>1. NoCourse /\ NoWrite /\ apiOnly' \in BOOLEAN
      BY <1>8 DEF ClearUnsaved, Inv, CourseInv, CourseTypeOK
    <2> QED
      BY <2>1, NoCourseKeeps, StoreOfNoWrite DEF Inv
  <1> QED
    BY <1>1, <1>2, <1>3, <1>4, <1>5, <1>6, <1>7, <1>8

LEMMA RouteActionsKeep ==
  ASSUME Inv, RouteAction
  PROVE  Inv'
  <1>1. fetching' \subseteq {"routeAction", "routeUpdate", "waypointUpdate"}
        /\ UNCHANGED <<cmdSource, navTimer, apiOnly>>
    BY DEF RouteAction, StartRouteAction, StartFetch, EndFetch, RouteActionFails, StepRoute,
           ReverseRoute, RefreshRoute, RouteActionEnds, RouteActionBreaksOff,
           Inv, CourseInv, CourseTypeOK
  <1> 0 \in Indices
    BY CourseAssumption DEF Indices
  <1>2. CASE StartRouteAction \/ RouteActionFails
    <2>1. course' = course /\ NoWrite /\ course \in ProperCourses
      BY <1>2 DEF StartRouteAction, RouteActionFails, Inv, CourseInv, CourseTypeOK
    <2> QED
      BY <1>1, <2>1, CourseInvOfRouteStep, StoreOfNoWrite DEF Inv
  <1>3. ASSUME NEW index \in Indices, course.activeRoute # NoRoute,
               RouteActionEnds(index) \/ RouteActionBreaksOff(index)
        PROVE  Inv'
    <2>1. course.nextPoint = RoutePoint
      BY <1>3, OnRoute DEF Inv
    <2>2. course' \in ProperCourses /\ course'.nextPoint = RoutePoint
      BY <1>3, OnRoute DEF Inv, RouteActionEnds, RouteActionBreaksOff
    <2>3. CourseInv'
      BY <1>1, <2>1, <2>2, CourseInvOfRouteStep DEF Inv
    <2>4. EmitCourseInfo \/ NoWrite
      BY <1>3 DEF RouteActionEnds, RouteActionBreaksOff
    <2> QED
      BY <1>1, <2>1, <2>2, <2>3, <2>4, StoreOfEmit, StoreOfNoWrite DEF Inv
  <1>4. CASE StepRoute
    <2>0. course.activeRoute # NoRoute
      BY <1>4 DEF StepRoute
    <2>1. course.activeRoute # NoRoute /\ course.activeRoute \in Int
      BY <2>0, OnRoute, Constants DEF Inv
    <2> PICK length \in 1..MaxLen,
             to \in Indices \cup {course.activeRoute + 1, course.activeRoute - 1} :
               \/ RouteActionEnds(ParsePointIndex(to, length))
               \/ RouteActionBreaksOff(ParsePointIndex(to, length))
      BY <1>4 DEF StepRoute
    <2>2. to \in Int
      BY <2>1, Constants
    <2>3. ParsePointIndex(to, length) \in Indices
      BY <2>2, ParsePointIndexInRange, CourseAssumption DEF Indices
    <2> QED
      BY <1>3, <2>1, <2>3
  <1>5. CASE ReverseRoute
    BY <1>3, <1>5 DEF ReverseRoute
  <1>6. CASE RefreshRoute
    <2>0. course.activeRoute # NoRoute
      BY <1>6 DEF RefreshRoute
    <2>1. course.activeRoute # NoRoute /\ course.activeRoute \in Indices
      BY <2>0, OnRoute DEF Inv
    <2> PICK index \in {course.activeRoute} \cup 0..(MaxLen - 1) :
          course' = [course EXCEPT !.activeRoute = index]
      BY <1>6 DEF RefreshRoute
    <2>2. index \in Indices
      BY <2>1, CourseAssumption DEF Indices
    <2>3. course' \in ProperCourses /\ course'.nextPoint = RoutePoint
          /\ course.nextPoint = RoutePoint
      BY <2>1, <2>2, OnRoute DEF Inv
    <2> QED
      BY <1>1, <1>6, <2>3, CourseInvOfRouteStep, StoreOfEmit DEF RefreshRoute, Inv
  <1> QED
    BY <1>2, <1>4, <1>5, <1>6 DEF RouteAction

LEMMA ResourceUpdatesKeep ==
  ASSUME Inv, ResourceUpdate
  PROVE  Inv'
  <1>1. fetching' \subseteq {"routeAction", "routeUpdate", "waypointUpdate"}
        /\ UNCHANGED <<cmdSource, navTimer, apiOnly>>
    BY DEF ResourceUpdate, StartResourceUpdate, StartFetch, EndFetch, RouteUpdate,
           WaypointUpdate, ResourceUpdateFails, Inv, CourseInv, CourseTypeOK
  <1>2. course' \in ProperCourses /\ course'.nextPoint = course.nextPoint
    <2>1. CASE RouteUpdate
      <3>1. course.activeRoute # NoRoute /\ 0 \in Indices
        BY <2>1, CourseAssumption DEF RouteUpdate, Indices
      <3> QED
        BY <2>1, <3>1, OnRoute DEF RouteUpdate, Inv
    <2>2. CASE ~RouteUpdate
      BY <2>2
      DEF ResourceUpdate, StartResourceUpdate, WaypointUpdate, ResourceUpdateFails,
          Inv, CourseInv, CourseTypeOK
    <2> QED
      BY <2>1, <2>2
  <1>3. EmitCourseInfo \/ NoWrite
    BY DEF ResourceUpdate, StartResourceUpdate, RouteUpdate, WaypointUpdate,
           ResourceUpdateFails
  <1> QED
    BY <1>1, <1>2, <1>3, CourseInvOfRouteStep, StoreOfEmit, StoreOfNoWrite DEF Inv

LEMMA ExternalsKeep ==
  ASSUME Inv, ExternalDelta \/ NavTimeout
  PROVE  Inv'
  <1>1. ASSUME NEW e \in Externals, ExternalPosition(e) PROVE Inv'
    <2> DEFINE c == [nextPoint |-> [kind |-> "location", by |-> e], activeRoute |-> NoRoute]
    <2>1. c \in ProperCourses /\ c.nextPoint.by = e /\ e \in Owners
      BY ProperPoints, Constants
    <2>2. SetCourse(c, e)
      BY <1>1 DEF ExternalPosition, SetDestination
    <2> HIDE DEF c
    <2> QED
      BY <1>1, <2>1, <2>2, SetCourseKeeps DEF ExternalPosition
  <1>2. ASSUME NEW e \in Externals, ExternalEnds(e) PROVE Inv'
    BY <1>2, ClearDestinationKeeps DEF ExternalEnds, Inv, CourseInv, CourseTypeOK
  <1>3. CASE NavTimeout
    BY <1>3, ClearDestinationKeeps DEF NavTimeout, Inv, CourseInv, CourseTypeOK
  <1> QED
    BY <1>1, <1>2, <1>3 DEF ExternalDelta

\* What a restart accepts of the file is a course of the API.
LEMMA RestartKeeps ==
  ASSUME Inv, Restart
  PROVE  Inv'
  <1> PICK c \in {NoCourseInfo} \cup ({file} \cap Courses) :
        /\ c = NoCourseInfo \/ IsValidCourse(c)
        /\ course' = c
        /\ cmdSource' = IF c.nextPoint = NoPoint THEN NoSource ELSE "API"
    BY DEF Restart
  <1>1. FilesInv' /\ (\A w \in Writers : ~writer'[w].alone)
    BY CrashKeeps DEF Restart, Inv, StoreInv
  <1>2. c \in ProperCourses
    BY ProperPoints DEF Inv, StoreInv, StoredAreProper, ProperCourses
  <1>3. c.nextPoint.by = IF c.nextPoint = NoPoint THEN NoSource ELSE "API"
    <2>1. CASE c = NoCourseInfo
      BY <2>1 DEF NoCourseInfo, NoPoint
    <2>2. CASE IsValidCourse(c)
      <3>1. c.nextPoint.kind \in {"routePoint", "waypoint"} /\ c.nextPoint.by = "API"
        BY <1>2, <2>2 DEF IsValidCourse, ProperCourses, Proper, RoutePoint
      <3> QED
        BY <3>1 DEF NoPoint
    <2> QED
      BY <2>1, <2>2
  <1>4. CourseInv'
    <2>1. navTimer' = FALSE /\ apiOnly' \in BOOLEAN /\ fetching' = {}
      BY DEF Restart
    <2>2. cmdSource' \in {NoSource, "API"} /\ cmdSource' = course'.nextPoint.by
      BY <1>3
    <2> QED
      BY <1>2, <2>1, <2>2, Constants
      DEF Inv, CourseInv, CourseTypeOK, OwnerInv, ExternalCourseIsTimed,
          IsExternal, Owners
  <1>5. StoredAreProper'
    <2>1. tmp' = NoFile /\ file' = file /\ \A w \in Writers : writer'[w].data = NoFile
      BY DEF Restart, FilesCrash, Idle
    <2> QED
      BY <2>1, Distinct DEF Inv, StoreInv, StoredAreProper
  <1>6. ASSUME cmdSource' = "API" PROVE Saves(course.nextPoint)'
    <2>1. c # NoCourseInfo
      BY <1>6, CourseAssumption DEF NoCourseInfo
    <2>2. c = file /\ file' = file /\ file \in Courses
      BY <2>1 DEF Restart, FilesCrash
    <2> QED
      BY <1>1, <2>2 DEF Saves
  <1> QED
    BY <1>1, <1>4, <1>5, <1>6 DEF Inv, StoreInv

LEMMA NextKeeps == Inv /\ [Next]_vars => Inv'
  <1> SUFFICES ASSUME Inv, [Next]_vars PROVE Inv'
    OBVIOUS
  <1>1. ASSUME NEW w \in Writers, FilesStep(w), UNCHANGED courseVars
        PROVE  Inv'
    <2>1. CourseInv'
      BY <1>1
      DEF courseVars, Inv, CourseInv, CourseTypeOK, OwnerInv, ExternalCourseIsTimed, IsExternal
    <2> PICK p : p = course.nextPoint
      OBVIOUS
    <2>2. FilesInv' /\ StoredAreProper' /\ (Saves(p) => Saves(p)')
      BY <1>1, FilesStepKeeps, FilesStepKeepsProper DEF Inv, StoreInv
    <2>3. cmdSource' = "API" => Saves(course.nextPoint)'
      <3>1. cmdSource' = cmdSource /\ course'.nextPoint = p
        BY <1>1 DEF courseVars
      <3>2. cmdSource = "API" => Saves(p)
        BY DEF Inv, StoreInv, Saves
      <3> QED
        BY <2>2, <3>1, <3>2 DEF Saves
    <2> QED
      BY <2>1, <2>2, <2>3 DEF Inv, StoreInv
  <1>2. CASE UNCHANGED vars
    <2>1. CourseInv' /\ NoWrite
      BY <1>2
      DEF vars, courseVars, NoWrite, Inv, CourseInv, CourseTypeOK, OwnerInv,
          ExternalCourseIsTimed, IsExternal
    <2> QED
      BY <1>2, <2>1, StoreOfNoWrite DEF vars, courseVars, Inv
  <1> QED
    BY <1>1, <1>2, RequestsKeep, RouteActionsKeep, ResourceUpdatesKeep, ExternalsKeep,
       RestartKeeps DEF Next

LEMMA InvHolds == Spec => []Inv
  BY InitInv, NextKeeps, PTL DEF Spec

-----------------------------------------------------------------------------
(* The theorems.                                                           *)

\* Every state of the course, its modes and its file has its type.
THEOREM CourseTypeCorrect == Spec => []TypeOK
  <1>1. Inv => TypeOK
    BY DEF Inv, CourseInv, CourseTypeOK, ProperCourses, StoreInv, FilesInv, TypeOK
  <1> QED
    BY <1>1, InvHolds, PTL

\* Destination and owner come and go together, through any interleaving of
\* requests, fetches, external sources, crashes and restarts.
THEOREM CourseIsOwned == Spec => []OwnedCourse
  <1>1. Inv => OwnedCourse
    BY DEF Inv, CourseInv, CourseTypeOK, OwnerInv, ProperCourses, Proper, OwnedCourse
  <1> QED
    BY <1>1, InvHolds, PTL

\* The timer of external navigation runs exactly while its course is followed.
THEOREM ExternalCoursesAreTimed == Spec => []ExternalCourseIsTimed
  <1>1. Inv => ExternalCourseIsTimed
    BY DEF Inv, CourseInv, OwnerInv
  <1> QED
    BY <1>1, InvHolds, PTL

\* The file is never half written unless writes overlapped, wherever a write
\* fails or the server dies.
THEOREM StoredCourseIsWhole == Spec => []FileIsWhole
  <1>1. Inv => FileIsWhole
    BY DEF Inv, StoreInv, FilesInv
  <1> QED
    BY <1>1, InvHolds, PTL

\* When its writes are done the file holds the destination the API set, unless
\* one failed or overlapped another.
THEOREM ApiCoursesArePersisted == Spec => []ApiCourseIsPersisted
  <1>1. Inv => ApiCourseIsPersisted
    BY DEF Inv, StoreInv, Saves, ApiCourseIsPersisted
  <1> QED
    BY <1>1, InvHolds, PTL

\* An external source takes over from nobody, and not at all in apiOnly mode.
OwnerStep == cmdSource' # cmdSource /\ IsExternal(cmdSource') => cmdSource = NoSource /\ ~apiOnly

LEMMA StepKeepsOwner ==
  ASSUME Inv, Next
  PROVE  OwnerStep
  <1> SUFFICES ASSUME cmdSource' # cmdSource, IsExternal(cmdSource')
               PROVE  cmdSource = NoSource /\ ~apiOnly
    BY DEF OwnerStep
  <1>1. ASSUME NEW c, SetCourse(c, "API") PROVE FALSE
    BY <1>1, Constants DEF SetCourse, IsExternal
  <1>2. ~ClearDestination /\ ~ClearUnsaved
    BY CourseAssumption DEF ClearDestination, ClearUnsaved, NoCourse, IsExternal
  <1>3. ~Restart
    BY Constants, CourseAssumption DEF Restart, IsExternal
  <1>4. ASSUME NEW e \in Externals, ExternalPosition(e) PROVE cmdSource = NoSource /\ ~apiOnly
    BY <1>4 DEF ExternalPosition, ListensTo, SetDestination, SetCourse
  <1> QED
    BY <1>1, <1>2, <1>3, <1>4
    DEF Next, PutDestination, SetDestination, PutActiveRoute, ActivateRoute, DeleteCourse,
        PutAttribute, PostApiOnly, DeleteApiOnly, PutSettings, RouteAction,
        StartRouteAction, RouteActionFails, StepRoute, ReverseRoute, RefreshRoute,
        RouteActionEnds, RouteActionBreaksOff, ResourceUpdate, StartResourceUpdate,
        RouteUpdate, WaypointUpdate, ResourceUpdateFails, ExternalDelta, ExternalEnds,
        NavTimeout, courseVars

THEOREM NobodyIsOverridden == Spec => NoTakeover
  <1>1. Inv /\ [Next]_vars => [OwnerStep]_vars
    BY StepKeepsOwner
  <1>2. [OwnerStep]_vars <=>
          [cmdSource' # cmdSource /\ IsExternal(cmdSource')
             => cmdSource = NoSource /\ ~apiOnly]_vars
    BY DEF OwnerStep
  <1> QED
    BY <1>1, <1>2, InvHolds, PTL DEF Spec, NoTakeover

\* The apiOnly mode is obeyed as long as no PUT of the settings switches it on
\* in front of an external course: requests of the course API, deltas, fetches
\* and restarts never break it.
SwitchedUnderExternal == ~apiOnly /\ apiOnly' /\ IsExternal(cmdSource) /\ PutSettings

THEOREM ApiOnlyHoldsElsewhere ==
  Init /\ [][Next /\ ~SwitchedUnderExternal]_vars => []ApiOnlyIsObeyed
  <1>1. Init => Inv /\ ApiOnlyIsObeyed
    BY InitInv, CourseAssumption DEF Init, ApiOnlyIsObeyed, IsExternal
  <1>2. Inv /\ ApiOnlyIsObeyed /\ [Next /\ ~SwitchedUnderExternal]_vars
          => Inv' /\ ApiOnlyIsObeyed'
    <2> SUFFICES ASSUME Inv, ApiOnlyIsObeyed, Next, ~SwitchedUnderExternal
                 PROVE  ApiOnlyIsObeyed'
      BY NextKeeps DEF vars, courseVars, ApiOnlyIsObeyed, IsExternal
    <2> SUFFICES ASSUME apiOnly', IsExternal(cmdSource') PROVE FALSE
      BY DEF ApiOnlyIsObeyed, IsExternal
    <2>1. cmdSource' = cmdSource \/ (cmdSource = NoSource /\ ~apiOnly)
      BY StepKeepsOwner DEF OwnerStep
    <2>2. ~apiOnly
      BY <2>1 DEF ApiOnlyIsObeyed, IsExternal
    <2>3. PostApiOnly \/ PutSettings \/ Restart
      BY <2>2
      DEF Next, PutDestination, SetDestination, PutActiveRoute, DeleteCourse, ClearUnsaved,
          PutAttribute, DeleteApiOnly, RouteAction, StartRouteAction, RouteActionFails,
          StepRoute, ReverseRoute, RefreshRoute, ResourceUpdate, StartResourceUpdate,
          RouteUpdate, WaypointUpdate, ResourceUpdateFails, ExternalDelta, ExternalEnds,
          ExternalPosition, NavTimeout, courseVars
    <2>4. CASE PostApiOnly
      BY <2>4, Constants, CourseAssumption
      DEF PostApiOnly, ClearDestination, NoCourse, IsExternal
    <2>5. CASE PutSettings
      BY <2>2, <2>5 DEF SwitchedUnderExternal, PutSettings
    <2>6. CASE Restart
      BY <2>6, Constants, CourseAssumption DEF Restart, IsExternal
    <2> QED
      BY <2>3, <2>4, <2>5, <2>6
  <1> QED
    BY <1>1, <1>2, PTL

-----------------------------------------------------------------------------
(* The file as a StoredFile.                                               *)

\* The mode of the file, and what is to be its content, by the writers.
ModeFacts ==
  /\ Busy(writer) = {} => WriteMode = "idle" /\ NextContent = NoFile
  /\ Busy(writer) # {} /\ (\A w \in Writers : ~writer[w].alone) =>
       WriteMode = "shared" /\ NextContent = NoFile
  /\ \A w \in Writers : writer[w].alone =>
       IF writer[w].phase = "failed" THEN WriteMode = "failed" /\ NextContent = NoFile
       ELSE /\ WriteMode = "alone"
            /\ NextContent = IF writer[w].phase = "written" THEN tmp ELSE writer[w].data

LEMMA ModeOfWriters == FilesInv => ModeFacts
  <1> SUFFICES ASSUME FilesInv PROVE ModeFacts
    OBVIOUS
  <1>1. \A v, w \in Writers : writer[v].alone /\ writer[w].alone => v = w
    BY DEF FilesInv, SoleWrites
  <1>2. \A w \in Writers : writer[w].alone => Busy(writer) # {}
    BY DEF FilesInv, SoleWrites
  <1>3. ASSUME NEW w \in Writers, writer[w].alone, writer[w].phase # "failed"
        PROVE  /\ WriteMode = "alone"
               /\ NextContent = IF writer[w].phase = "written" THEN tmp ELSE writer[w].data
    <2>1. WriteMode = "alone"
      BY <1>2, <1>3 DEF WriteMode
    <2>2. Sole = w
      BY <1>1, <1>3 DEF Sole
    <2> QED
      BY <2>1, <2>2 DEF NextContent
  <1>4. ASSUME NEW w \in Writers, writer[w].alone, writer[w].phase = "failed"
        PROVE  WriteMode = "failed" /\ NextContent = NoFile
    <2>1. WriteMode = "failed"
      BY <1>1, <1>2, <1>4 DEF WriteMode
    <2> QED
      BY <2>1 DEF NextContent
  <1>5. Busy(writer) = {} => WriteMode = "idle" /\ NextContent = NoFile
    BY DEF WriteMode, NextContent
  <1>6. Busy(writer) # {} /\ (\A w \in Writers : ~writer[w].alone) =>
          WriteMode = "shared" /\ NextContent = NoFile
    BY DEF WriteMode, NextContent
  <1> QED
    BY <1>3, <1>4, <1>5, <1>6 DEF ModeFacts

LEMMA PersistIsStored ==
  ASSUME FilesInv, ModeFacts, ModeFacts', NEW c \in Courses, Persist(c)
  PROVE  Stored!Next
  <1> PICK w \in Writers \ Busy(writer) :
        /\ writer'[w].phase = "start" /\ writer'[w].data = c
        /\ writer'[w].alone <=> Busy(writer) = {}
        /\ \A v \in Writers \ {w} : ~writer'[v].alone
    BY PersistStartsOne
  <1>1. file' = file /\ trust' = TrustAfterStart(writer)
    BY DEF Persist
  <1>2. CASE Busy(writer) = {}
    <2>1. WriteMode' = "alone" /\ NextContent' = c
      BY <1>2 DEF ModeFacts
    <2> QED
      BY <1>1, <1>2, <2>1 DEF ModeFacts, TrustAfterStart, Stored!Next, Stored!Start
  <1>3. CASE Busy(writer) # {}
    <2>1. Busy(writer') # {}
      BY DEF Busy
    <2>2. WriteMode' = "shared" /\ NextContent' = NoFile
      BY <1>3, <2>1 DEF ModeFacts
    <2> QED
      BY <1>1, <1>3, <2>2 DEF TrustAfterStart, Stored!Next, Stored!Overlap
  <1> QED
    BY <1>2, <1>3

LEMMA PersistBothIsStored ==
  ASSUME FilesInv, StoredAreProper, ModeFacts', NEW c \in ProperCourses,
         NEW d \in ProperCourses, PersistBoth(c, d)
  PROVE  Stored!Next
  <1>1. /\ trust' = "overlapped" /\ file' = file
        /\ Busy(writer') # {} /\ \A u \in Writers : ~writer'[u].alone
    BY PersistBothStarts
  <1> QED
    BY <1>1 DEF ModeFacts, Stored!Next, Stored!Overlap

\* The steps of a write that runs alone.
LEMMA SoleStepIsStored ==
  ASSUME FilesInv, ModeFacts, ModeFacts', NEW w \in Writers, FilesStep(w), writer[w].alone
  PROVE  Stored!Next \/ UNCHANGED Stored!vars
  <1>1. writer \in [Writers -> Writer]
    BY DEF FilesInv, FilesTypeOK
  <1>2. SoleContent(w) /\ Busy(writer) = {w}
    BY DEF FilesInv, SoleWrites
  <1>3. CASE Open(w)
    <2>1. /\ writer'[w].alone /\ writer'[w].phase = "opened"
          /\ writer'[w].data = writer[w].data /\ writer[w].phase = "start"
          /\ file' = file /\ trust' = trust
      BY <1>1, <1>3 DEF Open, Writer
    <2>2. WriteMode' = WriteMode /\ NextContent' = NextContent
      BY <2>1 DEF ModeFacts
    <2> QED
      BY <2>1, <2>2 DEF Stored!vars
  <1>4. CASE WriteData(w)
    <2>1. /\ writer'[w].alone /\ writer'[w].phase = "written"
          /\ writer[w].phase = "opened"
          /\ tmp' = writer[w].data /\ file' = file /\ trust' = trust
      BY <1>1, <1>2, <1>4 DEF WriteData, Closed, SoleContent, Written, Writer
    <2>2. WriteMode' = WriteMode /\ NextContent' = NextContent
      BY <2>1 DEF ModeFacts
    <2> QED
      BY <2>1, <2>2 DEF Stored!vars
  <1>5. CASE WriteFails(w)
    <2>1. /\ writer'[w].alone /\ writer'[w].phase = "failed"
          /\ writer[w].phase = "opened" /\ file' = file /\ trust' = trust
      BY <1>1, <1>2, <1>5 DEF WriteFails, Closed, SoleContent, Writer
    <2> QED
      BY <2>1 DEF ModeFacts, Stored!Next, Stored!Fail
  <1>6. ASSUME Rename(w) \/ Unlink(w)
        PROVE  WriteMode' = "idle" /\ NextContent' = NoFile
    <2>1. /\ writer'[w].phase = "idle"
          /\ \A v \in Writers \ {w} : writer'[v].phase = writer[v].phase
      BY <1>1, <1>6 DEF Rename, Unlink, AfterRename, AfterUnlink, Idle, Writer
    <2>2. Busy(writer') = {}
      BY <1>2, <2>1 DEF Busy
    <2> QED
      BY <2>2 DEF ModeFacts
  <1>7. CASE Rename(w)
    <2>1. /\ writer[w].phase = "written" /\ file' = tmp /\ trust' = "current"
      BY <1>7 DEF Rename
    <2>2. WriteMode = "alone" /\ NextContent = tmp
      BY <2>1 DEF ModeFacts
    <2> QED
      BY <1>6, <1>7, <2>1, <2>2 DEF Stored!Next, Stored!Commit
  <1>8. CASE RenameFails(w)
    BY <1>2, <1>8, Distinct DEF RenameFails, SoleContent
  <1>9. CASE Unlink(w)
    <2>1. /\ writer[w].phase = "failed" /\ file' = file
          /\ trust' = IF trust = "current" THEN "stale" ELSE trust
      BY <1>9 DEF Unlink
    <2>2. WriteMode = "failed" /\ NextContent = NoFile
      BY <2>1 DEF ModeFacts
    <2> QED
      BY <1>6, <1>9, <2>1, <2>2 DEF Stored!Next, Stored!GiveUp
  <1> QED
    BY <1>3, <1>4, <1>5, <1>7, <1>8, <1>9 DEF FilesStep

\* A write that is not alone steps among others, or was left by them.
LEMMA SharedStepIsStored ==
  ASSUME FilesInv, FilesInv', ModeFacts, ModeFacts',
         NEW w \in Writers, FilesStep(w), ~writer[w].alone
  PROVE  Stored!Next
  <1>1. writer[w].phase # "idle" /\ w \in Busy(writer)
    BY DEF FilesStep, Open, WriteData, WriteFails, Rename, RenameFails, Unlink, Busy
  <1>2. \A v \in Writers : ~writer[v].alone
    BY <1>1, OnlyTheStepping
  <1>3. WriteMode = "shared" /\ NextContent = NoFile
    BY <1>1, <1>2 DEF ModeFacts
  <1>4. trust = "overlapped"
    BY <1>1, SteppingIsAlone
  <1>5. trust' = trust
    BY <1>4
    DEF FilesStep, Open, WriteData, WriteFails, Rename, RenameFails, Unlink
  <1>6. \A v \in Writers : ~writer'[v].alone
    <2>1. writer \in [Writers -> Writer]
      BY DEF FilesInv, FilesTypeOK
    <2>2. CASE Open(w) \/ RenameFails(w)
      BY <1>2, <2>1, <2>2 DEF Open, RenameFails, Writer
    <2>3. CASE WriteData(w) \/ WriteFails(w)
      BY <1>2, <2>1, <2>3 DEF WriteData, WriteFails, Closed, Writer
    <2>4. CASE Rename(w)
      BY <1>2, <2>1, <2>4 DEF Rename, AfterRename, Idle, Writer
    <2>5. CASE Unlink(w)
      BY <1>2, <2>1, <2>5 DEF Unlink, AfterUnlink, Idle, Writer
    <2> QED
      BY <2>2, <2>3, <2>4, <2>5 DEF FilesStep
  <1>7. WriteMode' \in {"shared", "idle"} /\ NextContent' = NoFile
    BY <1>6 DEF ModeFacts
  <1>8. file' \in Stored!Contents
    BY DEF FilesInv, FilesTypeOK, Stored!Contents
  <1> QED
    BY <1>3, <1>5, <1>7, <1>8 DEF Stored!Next, Stored!Disturb

\* What a step of the server does to the file.
LEMMA WritesOfNext ==
  ASSUME Inv, Inv', Next
  PROVE  \/ NoWrite
         \/ \E c \in ProperCourses : Persist(c)
         \/ \E c, d \in ProperCourses : PersistBoth(c, d)
         \/ \E w \in Writers : FilesStep(w)
         \/ FilesCrash
  <1> DEFINE G == \/ NoWrite
                  \/ \E c \in ProperCourses : Persist(c)
                  \/ \E c, d \in ProperCourses : PersistBoth(c, d)
                  \/ \E w \in Writers : FilesStep(w)
                  \/ FilesCrash
  <1> SUFFICES G
    OBVIOUS
  <1>1. /\ course \in ProperCourses /\ course' \in ProperCourses
        /\ NoCourseInfo \in ProperCourses
    BY ProperPoints DEF Inv, CourseInv, CourseTypeOK
  <1>2. EmitCourseInfo => G
    BY <1>1 DEF EmitCourseInfo
  <1>3. ClearDestination => G
    BY <1>1 DEF ClearDestination, NoCourse
  <1>4. ASSUME NEW c, NEW src, SetCourse(c, src) PROVE G
    <2>1. PersistBoth(NoCourseInfo, course') \/ EmitCourseInfo
      BY <1>4 DEF SetCourse
    <2> QED
      BY <1>1, <1>2, <2>1
  <1>5. CASE PutDestination \/ PutActiveRoute \/ ExternalDelta
    BY <1>3, <1>4, <1>5
    DEF PutDestination, PutActiveRoute, ActivateRoute, ExternalDelta, ExternalPosition,
        ExternalEnds, SetDestination
  <1>6. CASE DeleteCourse \/ ClearUnsaved \/ PutAttribute \/ PostApiOnly \/ DeleteApiOnly
             \/ PutSettings \/ NavTimeout
    BY <1>1, <1>3, <1>6
    DEF DeleteCourse, ClearUnsaved, PutAttribute, PostApiOnly, DeleteApiOnly, PutSettings,
        NavTimeout
  <1>7. CASE RouteAction
    BY <1>2, <1>7
    DEF RouteAction, StartRouteAction, RouteActionFails, StepRoute, ReverseRoute,
        RefreshRoute, RouteActionEnds, RouteActionBreaksOff
  <1>8. CASE ResourceUpdate
    BY <1>2, <1>8
    DEF ResourceUpdate, StartResourceUpdate, RouteUpdate, WaypointUpdate, ResourceUpdateFails
  <1>9. CASE Restart
    BY <1>9 DEF Restart
  <1> QED
    BY <1>5, <1>6, <1>7, <1>8, <1>9 DEF Next

LEMMA StepIsStored ==
  ASSUME Inv, Inv', ModeFacts, ModeFacts', [Next]_vars
  PROVE  Stored!Next \/ UNCHANGED Stored!vars
  <1> USE DEF Inv, StoreInv
  <1>1. CASE NoWrite \/ UNCHANGED vars
    <2>1. UNCHANGED <<file, tmp, writer, trust>>
      BY <1>1 DEF NoWrite, vars
    <2>2. WriteMode' = WriteMode
      BY <2>1 DEF WriteMode, Busy
    <2>3. NextContent' = NextContent
      BY <2>1, <2>2 DEF NextContent, Sole
    <2> QED
      BY <2>1, <2>2, <2>3 DEF Stored!vars
  <1>2. ASSUME NEW c \in ProperCourses, Persist(c) PROVE Stored!Next
    BY <1>2, PersistIsStored DEF ProperCourses
  <1>3. ASSUME NEW c \in ProperCourses, NEW d \in ProperCourses, PersistBoth(c, d)
        PROVE  Stored!Next
    BY <1>3, PersistBothIsStored
  <1>4. ASSUME NEW w \in Writers, FilesStep(w) PROVE Stored!Next \/ UNCHANGED Stored!vars
    BY <1>4, SoleStepIsStored, SharedStepIsStored
  <1>5. CASE FilesCrash
    <2>1. Busy(writer') = {}
      BY <1>5 DEF FilesCrash, Busy, Idle
    <2> QED
      BY <1>5, <2>1 DEF FilesCrash, ModeFacts, Stored!Next, Stored!Crash
  <1> QED
    BY <1>1, <1>2, <1>3, <1>4, <1>5, WritesOfNext

\* The course file implements StoredFile: a write that runs alone replaces it as
\* a whole, by what the API was given and in one step, or leaves it as it was,
\* wherever it fails or the server dies.
THEOREM CourseFileIsAtomic == Spec => FileIsAtomic
  <1>1. Init => Stored!Init
    <2> SUFFICES ASSUME Init PROVE Stored!Init
      OBVIOUS
    <2>1. Busy(writer) = {} /\ file = NoFile /\ trust = "current"
      BY DEF Init, FilesInit, Busy, Idle
    <2>2. ModeFacts
      BY InitialFiles, ModeOfWriters DEF Init
    <2> QED
      BY <2>1, <2>2 DEF ModeFacts, Stored!Init
  <1>2. Inv => ModeFacts
    BY ModeOfWriters DEF Inv, StoreInv
  <1>3. Inv' => ModeFacts'
    BY <1>2, PTL
  <1>4. Inv /\ Inv' /\ [Next]_vars => [Stored!Next]_(Stored!vars)
    BY <1>2, <1>3, StepIsStored
  <1> QED
    BY <1>1, <1>4, InvHolds, PTL DEF Spec, FileIsAtomic, Stored!Spec
=============================================================================
