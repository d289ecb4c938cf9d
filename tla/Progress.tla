------------------------------ MODULE Progress ------------------------------
(***************************************************************************)
(* What a plugin's progress callback is told of a download: the byte       *)
(* counts of ProgressCallback, the throttle of PostProgress and the cells  *)
(* of DispatchProgress (src/src/s3job.cpp, src/src/extension.cpp), on top  *)
(* of Download.                                                            *)
(*                                                                         *)
(* libcurl calls ProgressCallback at any time while a transfer runs and    *)
(* once more when it ends, with the bytes of this answer received so far   *)
(* and the bytes its headers announce.                                     *)
(***************************************************************************)
EXTENDS Download

CONSTANTS
  Bytes,       \* Bytes[n] is the size of the first n chunks of any version
  ErrorBytes,  \* the size of an error body
  Announced,   \* whether answers carry a Content-Length
  CellMax      \* the greatest cell, 2^31 - 1 in the code

ASSUME ProgressAssumption ==
  /\ \A v \in Versions : \A n \in 0..Sizes[v] : Bytes[n] \in Nat
  /\ \A v \in Versions : \A m, n \in 0..Sizes[v] : m < n => Bytes[m] < Bytes[n]
  /\ Bytes[0] = 0
  /\ ErrorBytes \in Nat /\ CellMax \in Nat
  /\ Announced \in BOOLEAN

VARIABLE progress  \* [Calls -> m_lastProgressValue, and the cells last shown to the plugin]

progressVars == <<downloadVars, progress>>

Unreported == -1
ProgressInit ==
  /\ DownloadInit
  /\ progress = [c \in Calls |-> [last |-> Unreported, shown |-> <<0, 0>>]]

\* Mutant: a value too great wraps, as a plain conversion to a cell would.
ClampToCellWrapping(n) == ((n + CellMax + 1) % (2 * (CellMax + 1))) - (CellMax + 1)
ClampToCell(n) ==
  IF n > CellMax THEN CellMax ELSE IF n < -(CellMax + 1) THEN -(CellMax + 1) ELSE n

\* Mutant: the last bytes are throttled like any others.
IsDueIfStep(p, transferred, total) ==
  total > 0 /\ p.last >= 0 /\ (transferred - p.last) * 100 >= total

\* Whether PostProgress posts at once: everything has arrived, or one percent more.
IsDue(p, transferred, total) ==
  \/ total > 0 /\ transferred >= total
  \/ total > 0 /\ p.last >= 0 /\ (transferred - p.last) * 100 >= total

\* PostProgress, and in time HandleProgress.  Without a report in this attempt
\* m_lastProgressPost is the clock's epoch; otherwise 100 ms may have passed or not.
PostProgress(c, transferred, total) ==
  LET p == progress[c]
      posted == [last |-> transferred, shown |-> <<ClampToCell(transferred), ClampToCell(total)>>]
  IN IF (transferred <= 0 /\ total <= 0) \/ transferred = p.last
     THEN UNCHANGED progress
     ELSE \/ progress' = [progress EXCEPT ![c] = posted]
          \/ /\ ~IsDue(p, transferred, total) /\ p.last # Unreported
             /\ UNCHANGED progress

-----------------------------------------------------------------------------
Whole == Bytes[Sizes[version]]

\* Where in the object the body of the answer begins.
BodyStart(s) == IF s.http = "206" THEN Bytes[s.offset] ELSE 0

\* The dlnow and dltotal of libcurl (external), for the object and for error bodies.
Received(s) ==
  CASE s.http \in {"200", "206"} -> {Bytes[Sizes[version] - Len(s.body)] - BodyStart(s)}
    [] s.http = "none" -> {0}
    [] OTHER -> {0, ErrorBytes}
Expected(s) ==
  CASE ~Announced \/ s.http = "none" -> 0
    [] Announced /\ s.http \in {"200", "206"} -> Whole - BodyStart(s)
    [] OTHER -> ErrorBytes

\* Mutant: the bytes of earlier attempts are not counted.
TransferredNow(s, dlnow) == dlnow
Transferred(s, dlnow) == dlnow + Bytes[s.offset]

ProgressCallback(c, s, dlnow) ==
  PostProgress(c, Transferred(s, dlnow),
               IF Expected(s) > 0 THEN Expected(s) + Bytes[s.offset] ELSE 0)

Progresses(c) ==
  /\ Running(c)
  /\ \E dlnow \in Received(job[c]) : ProgressCallback(c, job[c], dlnow)
  /\ UNCHANGED downloadVars

\* ResetAttemptState.
BeginAttemptAfresh(c) ==
  /\ BeginAttempt(c)
  /\ progress' = [progress EXCEPT ![c].last = Unreported]

\* libcurl reports once more before CURLMSG_DONE, unless it never had a connection.
Completes(c) ==
  /\ Finalize(c) \/ TransportFails(c)
  /\ \E dlnow \in Received(job[c]) : ProgressCallback(c, job[c], dlnow)

NeverConnects(c) == TransportFails(c) /\ job[c].http = "none" /\ UNCHANGED progress

ErrorCompletes(c) ==
  /\ HttpFails(c)
  /\ ProgressCallback(c, job[c], ErrorBytes)

\* A restart clears m_resumeOffset before the file turns out not to take the data.
WriteFailing(c) ==
  /\ WriteFails(c) \/ RestartFails(c)
  /\ \E dlnow \in Received(job[c]) : ProgressCallback(c, Restarted(job[c]), dlnow)

\* Cancel raises m_cancelRequested first, so the last callback reports nothing.
Silent(c) ==
  /\ \/ \E resume \in BOOLEAN : GetFile(c, resume)
     \/ OpenFails(c) \/ Respond(c) \/ WriteChunk(c) \/ Cancel(c)
  /\ UNCHANGED progress

ProgressNext ==
  \/ (Overwrite \/ AllOver) /\ UNCHANGED progress
  \/ \E c \in Calls :
       \/ Silent(c) \/ BeginAttemptAfresh(c) \/ Progresses(c)
       \/ Completes(c) \/ NeverConnects(c) \/ ErrorCompletes(c) \/ WriteFailing(c)

ProgressSpec == ProgressInit /\ [][ProgressNext]_progressVars

-----------------------------------------------------------------------------
(***************************************************************************)
(* Correctness.                                                            *)
(***************************************************************************)

\* What a call shows the plugin in this step, if anything.
Shows(c) == progress'[c] # progress[c] /\ progress'[c].last # Unreported

\* Until an error answer, progress tells how much of the object the part file holds, through
\* retries, resumes and restarts, and of how many bytes: of none where that is not known.
\* The total is wrong only between a 200 to a Range request and the first chunk.
ProgressTruthful ==
  [][\A c \in Calls :
       Shows(c) /\ job[c].http \in {"none", "200", "206"} /\ job'[c].result # "IoError" =>
         LET shown == progress'[c].shown
         IN /\ shown[1] = ClampToCell(Bytes[Len(inodes[job[c].file])])
            /\ IgnoredRange(job[c]) \/ shown[2] \in {0, ClampToCell(Whole)}]_progressVars

\* The throttle never swallows the end: a download that succeeds has shown its last byte.
FinalProgressShown ==
  [][\A c \in Calls :
       job[c].result = "none" /\ job'[c].result = "Ok" =>
         progress'[c].shown[1] = ClampToCell(Whole)]_progressVars

\* README.md:140: cells clamp.  A plugin can always divide what it is shown: nothing
\* negative, and never more than the total when there is one.
ProgressInCells ==
  \A c \in Calls :
    LET shown == progress[c].shown
    IN /\ 0 <= shown[1] /\ shown[1] <= CellMax
       /\ shown[2] # 0 => shown[1] <= shown[2]
=============================================================================
