--------------------------- MODULE ProgressProofs ---------------------------
(***************************************************************************)
(* Proofs about Progress, for any object sizes and any cell: for calls one *)
(* after the other, what the plugin is shown is what the part file holds,  *)
(* fits a cell, never exceeds its total and ends with the last byte.       *)
(***************************************************************************)
EXTENDS DownloadProofs, Progress

Cell == 0..CellMax

\* What is shown fits and is in order, and m_lastProgressValue is what was shown last.
Shown(p) ==
  /\ p.shown[2] # 0 => p.shown[1] <= p.shown[2]
  /\ p.last # Unreported => p.shown[1] = ClampToCell(p.last)

ProgressState == [last : Nat \cup {Unreported}, shown : Cell \X Cell]

CellsInv ==
  /\ progress \in [Calls -> ProgressState]
  /\ \A c \in Calls : Shown(progress[c])

\* The inductive invariant of what undisturbed downloads report.
ProgressInv == DownloadInv /\ CellsInv

-----------------------------------------------------------------------------
(***************************************************************************)
(* Sizes and cells.                                                        *)
(***************************************************************************)

LEMMA BytesAreMonotone ==
  ASSUME NEW v \in Versions, NEW m \in 0..Sizes[v], NEW n \in 0..Sizes[v], m <= n
  PROVE  /\ Bytes[m] \in Nat /\ Bytes[n] \in Nat /\ Bytes[m] <= Bytes[n]
         /\ m < n => Bytes[m] < Bytes[n]
<1>1. Bytes[m] \in Nat /\ Bytes[n] \in Nat /\ (m < n => Bytes[m] < Bytes[n])
  BY ProgressAssumption
<1>2. m < n \/ m = n
  BY SMT
<1> QED BY <1>1, <1>2, SMT

LEMMA ClampIs ==
  ASSUME NEW n \in Nat
  PROVE  ClampToCell(n) \in Cell /\ ClampToCell(n) = IF n > CellMax THEN CellMax ELSE n
BY ProgressAssumption, SMT DEF ClampToCell, Cell

LEMMA ClampIsMonotone ==
  ASSUME NEW m \in Nat, NEW n \in Nat, m <= n
  PROVE  ClampToCell(m) <= ClampToCell(n)
BY ClampIs, ProgressAssumption, SMT

\* PostProgress of counts that are in order shows them, clamped, or leaves what was shown.
LEMMA PostStep ==
  ASSUME CellsInv, NEW c \in Calls, NEW n \in Nat, NEW total \in Nat,
         total # 0 => n <= total, PostProgress(c, n, total)
  PROVE  /\ CellsInv' /\ \A d \in Calls \ {c} : progress'[d] = progress[d]
         /\ \/ progress' = progress
            \/ progress'[c].shown = <<ClampToCell(n), ClampToCell(total)>>
<1>1. CASE progress' = progress
  BY <1>1 DEF CellsInv, Shown
<1>2. CASE progress' = [progress EXCEPT ![c] =
             [last |-> n, shown |-> <<ClampToCell(n), ClampToCell(total)>>]]
  <2> PICK p : p = [last |-> n, shown |-> <<ClampToCell(n), ClampToCell(total)>>]
    OBVIOUS
  <2>1. ClampToCell(n) \in Cell /\ ClampToCell(total) \in Cell
    BY ClampIs
  <2>2. p \in ProgressState
    BY <2>1 DEF ProgressState
  <2>3. p.last = n /\ p.shown = <<ClampToCell(n), ClampToCell(total)>>
    OBVIOUS
  <2>4. ClampToCell(total) # 0 => ClampToCell(n) <= ClampToCell(total)
    <3>1. total = 0 => ClampToCell(total) = 0
      BY ClampIs, ProgressAssumption, SMT
    <3> QED BY <3>1, ClampIsMonotone
  <2>5. Shown(p)
    BY <2>3, <2>4 DEF Shown
  <2>6. /\ progress' \in [Calls -> ProgressState] /\ progress'[c] = p
        /\ \A d \in Calls \ {c} : progress'[d] = progress[d]
    BY <1>2, <2>2 DEF CellsInv
  <2>7. CellsInv'
    BY <2>5, <2>6 DEF CellsInv, Shown
  <2> QED BY <2>3, <2>6, <2>7
<1> QED BY <1>1, <1>2 DEF PostProgress

-----------------------------------------------------------------------------
(***************************************************************************)
(* What libcurl counts and announces while an attempt runs.                *)
(***************************************************************************)

Total(s) == IF Expected(s) > 0 THEN Expected(s) + Bytes[s.offset] ELSE 0

\* The offset of an attempt and the length of the part file are positions in the object.
LEMMA Positions ==
  ASSUME DownloadInv, NEW c \in Calls, Running(c)
  PROVE  /\ version \in Versions /\ Sizes[version] \in Nat /\ job[c].file = part
         /\ job[c] \in CallState /\ AttemptInv(job[c])
         /\ Len(inodes[part]) \in 0..Sizes[version] /\ job[c].offset \in 0..Len(inodes[part])
         /\ job[c].offset \in 0..Sizes[version] /\ 0 \in 0..Sizes[version]
<1>1. TypeInv /\ AttemptInv(job[c]) /\ PartInv
  BY DEF DownloadInv
<1>2. /\ version \in Versions /\ Sizes[version] \in Nat /\ job[c] \in CallState
      /\ job[c].offset \in Nat /\ job[c].offset <= Len(inodes[part]) /\ part # NoFile
      /\ job[c].file = part
  BY <1>1, ObjectIs DEF TypeInv, CallState, AttemptInv
<1>3. Len(inodes[part]) \in Nat /\ Len(inodes[part]) <= Sizes[version]
  BY <1>1, <1>2, PartIsInode DEF PartInv, Begins
<1> QED BY <1>1, <1>2, <1>3, SMT

\* The counts of an attempt are in order; short of an error answer they are those of the part
\* file, out of the whole object once the answer is known to be for the offset.
LEMMA CountsOfAttempt ==
  ASSUME DownloadInv, NEW c \in Calls, Running(c), NEW dlnow \in Received(job[c])
  PROVE  LET s == job[c]
             n == Transferred(s, dlnow)
         IN /\ n \in Nat /\ Total(s) \in Nat
            /\ Total(s) # 0 => n <= Total(s)
            /\ s.http \in {"none", "200", "206"} =>
                 /\ n = Bytes[Len(inodes[s.file])]
                 /\ IgnoredRange(s) \/ Total(s) \in {0, Whole}
<1> PICK s : s = job[c]
  OBVIOUS
<1> DEFINE size == Sizes[version]
           len == Len(inodes[part])
           n == Transferred(s, dlnow)
<1>1. /\ version \in Versions /\ size \in Nat /\ s.file = part /\ s \in CallState
      /\ AttemptInv(s) /\ len \in 0..size /\ s.offset \in 0..len /\ s.offset \in 0..size
      /\ 0 \in 0..size /\ size \in 0..size
  BY Positions, SMT
<1>2. /\ Bytes[s.offset] \in Nat /\ Bytes[len] \in Nat /\ Whole \in Nat /\ Bytes[0] = 0
      /\ Bytes[s.offset] <= Bytes[len] /\ Bytes[len] <= Whole
  <2>1. s.offset <= len /\ len <= size
    BY <1>1, SMT
  <2> QED BY <1>1, <2>1, BytesAreMonotone, ProgressAssumption DEF Whole
<1>3. CASE s.http = "none"
  <2>1. s.offset = len
    BY <1>1, <1>3, EmptySeq DEF AttemptInv
  <2>2. dlnow = 0 /\ Expected(s) = 0
    BY <1>3 DEF Received, Expected
  <2>3. n = Bytes[len] /\ Total(s) = 0
    BY <1>2, <2>1, <2>2, SMT DEF Transferred, Total
  <2> QED BY <1>1, <1>2, <1>3, <2>3
<1>4. CASE s.http \in {"200", "206"}
  <2> DEFINE start == BodyStart(s)
             pos == size - Len(s.body)
  <2>1. dlnow = Bytes[pos] - start
    BY <1>4 DEF Received
  <2>2. Expected(s) = IF Announced THEN Whole - start ELSE 0
    BY <1>4, ProgressAssumption DEF Expected
  <2>3. CASE IgnoredRange(s)
    <3>1. s.http = "200" /\ start = 0
      BY <2>3 DEF IgnoredRange, BodyStart
    <3>2. s.offset = len /\ Len(s.body) = size - 0
      BY <1>1, <1>4, <2>3 DEF AttemptInv, Continued
    <3>3. pos = 0
      BY <1>1, <3>2, SMT
    <3>4. dlnow = 0 /\ n = Bytes[len]
      BY <1>2, <2>1, <3>1, <3>2, <3>3, SMT DEF Transferred
    <3>5. Total(s) \in Nat /\ (Total(s) # 0 => n <= Total(s))
      <4> HIDE DEF n, start, len
      <4> QED BY <1>2, <2>2, <3>1, <3>2, <3>4, SMT DEF Total
    <3> QED BY <1>1, <1>2, <2>3, <3>4, <3>5
  <2>4. CASE ~IgnoredRange(s)
    <3>1. start = Bytes[s.offset]
      BY <1>1, <1>2, <1>4, <2>4 DEF AttemptInv, BodyStart
    <3>2. Len(s.body) = size - len
      BY <1>1, <1>4, <2>4 DEF AttemptInv, Continued
    <3>3. pos = len
      BY <1>1, <3>2, SMT
    <3> HIDE DEF start, len, pos
    <3>4. n = Bytes[len]
      BY <1>2, <2>1, <3>1, <3>3, SMT DEF Transferred
    <3>5. Total(s) \in {0, Whole}
      BY <1>2, <2>2, <3>1, SMT DEF Total
    <3>6. Total(s) \in Nat /\ (Total(s) # 0 => n <= Total(s))
      BY <1>2, <3>4, <3>5
    <3> QED BY <1>1, <1>2, <3>4, <3>5, <3>6 DEF len
  <2> QED BY <2>3, <2>4
<1>5. CASE s.http \notin {"none", "200", "206"}
  <2>1. dlnow \in {0, ErrorBytes} /\ Expected(s) \in {0, ErrorBytes}
    BY <1>5 DEF Received, Expected
  <2>2. ErrorBytes \in Nat
    BY ProgressAssumption
  <2>3. n \in Nat /\ Total(s) \in Nat /\ (Total(s) # 0 => n <= Total(s))
    BY <1>2, <2>1, <2>2, SMT DEF Transferred, Total
  <2> QED BY <1>5, <2>3
<1> QED BY <1>3, <1>4, <1>5

\* A restart whose file does not take the data reports with the offset already cleared.
LEMMA CountsOfRestart ==
  ASSUME DownloadInv, NEW c \in Calls, Running(c), NEW dlnow \in Received(job[c]),
         IgnoredRange(job[c]), NEW s, s = Restarted(job[c])
  PROVE  /\ Transferred(s, dlnow) \in Nat /\ Total(s) \in Nat
         /\ Total(s) # 0 => Transferred(s, dlnow) <= Total(s)
<1>1. /\ version \in Versions /\ Sizes[version] \in Nat /\ job[c] \in CallState
      /\ AttemptInv(job[c]) /\ 0 \in 0..Sizes[version] /\ Sizes[version] \in 0..Sizes[version]
  BY Positions, SMT
<1>2. s.offset = 0 /\ s.http = job[c].http /\ s.http = "200"
  BY <1>1 DEF CallState, IgnoredRange, Restarted
<1>3. Len(job[c].body) = Sizes[version] - 0
  BY <1>1, <1>2 DEF AttemptInv, Continued
<1>4. Sizes[version] - Len(job[c].body) = 0
  BY <1>1, <1>3, SMT
<1>5. Bytes[0] = 0 /\ Whole \in Nat
  BY <1>1, ProgressAssumption DEF Whole
<1>6. dlnow = 0 /\ Expected(s) = IF Announced THEN Whole ELSE 0
  BY <1>2, <1>4, <1>5, ProgressAssumption, SMT DEF Received, Expected, BodyStart
<1> QED BY <1>2, <1>5, <1>6, SMT DEF Transferred, Total

-----------------------------------------------------------------------------
(***************************************************************************)
(* The steps.                                                              *)
(***************************************************************************)

\* A step that reports the counts of the attempt as they were.
Reports(c) ==
  /\ Running(c)
  /\ \E dlnow \in Received(job[c]) : ProgressCallback(c, job[c], dlnow)

LEMMA ReportStep ==
  ASSUME ProgressInv, NEW c \in Calls, Reports(c)
  PROVE  /\ CellsInv' /\ \A d \in Calls \ {c} : progress'[d] = progress[d]
         /\ \/ progress' = progress
            \/ job[c].http \in {"none", "200", "206"} =>
                 /\ progress'[c].shown[1] = ClampToCell(Bytes[Len(inodes[job[c].file])])
                 /\ IgnoredRange(job[c]) \/ progress'[c].shown[2] \in {0, ClampToCell(Whole)}
<1>1. PICK dlnow \in Received(job[c]) : PostProgress(c, Transferred(job[c], dlnow), Total(job[c]))
  BY DEF Reports, ProgressCallback, Total
<1> PICK n : n = Transferred(job[c], dlnow)
  OBVIOUS
<1> PICK total : total = Total(job[c])
  OBVIOUS
<1>2. /\ n \in Nat /\ total \in Nat /\ (total # 0 => n <= total)
      /\ job[c].http \in {"none", "200", "206"} =>
           n = Bytes[Len(inodes[job[c].file])] /\ (IgnoredRange(job[c]) \/ total \in {0, Whole})
  BY CountsOfAttempt DEF ProgressInv, Reports
<1>3. /\ CellsInv' /\ \A d \in Calls \ {c} : progress'[d] = progress[d]
      /\ \/ progress' = progress
         \/ progress'[c].shown = <<ClampToCell(n), ClampToCell(total)>>
  BY <1>1, <1>2, PostStep DEF ProgressInv
<1>4. ClampToCell(0) = 0
  BY ProgressAssumption, SMT DEF ClampToCell
<1> QED BY <1>2, <1>3, <1>4

LEMMA WriteFailingStep ==
  ASSUME ProgressInv, NEW c \in Calls, WriteFailing(c)
  PROVE  CellsInv' /\ \A d \in Calls \ {c} : progress'[d] = progress[d]
<1>1. PICK dlnow \in Received(job[c]) : ProgressCallback(c, Restarted(job[c]), dlnow)
  BY DEF WriteFailing
<1> PICK s : s = Restarted(job[c])
  OBVIOUS
<1>2. Running(c) /\ DownloadInv /\ CellsInv
  BY DEF WriteFailing, WriteFails, RestartFails, ProgressInv
<1>3. PostProgress(c, Transferred(s, dlnow), Total(s))
  BY <1>1 DEF ProgressCallback, Total
<1>4. /\ Transferred(s, dlnow) \in Nat /\ Total(s) \in Nat
      /\ Total(s) # 0 => Transferred(s, dlnow) <= Total(s)
  <2>1. CASE IgnoredRange(job[c])
    BY <1>2, <2>1, CountsOfRestart
  <2>2. CASE ~IgnoredRange(job[c])
    <3>1. s = job[c]
      BY <2>2 DEF Restarted
    <3> QED BY <1>2, <3>1, CountsOfAttempt
  <2> QED BY <2>1, <2>2
<1> QED BY <1>2, <1>3, <1>4, PostStep

\* The steps by what they report, and as steps of Download.
LEMMA StepsOfProgress ==
  ASSUME ProgressNext
  PROVE  \/ UNCHANGED progress
         \/ \E c \in Calls : BeginAttemptAfresh(c) \/ Reports(c) \/ WriteFailing(c)
<1>1. ASSUME NEW c \in Calls, Completes(c) PROVE Reports(c)
  BY <1>1 DEF Completes, Finalize, TransportFails, Reports
<1>2. ASSUME NEW c \in Calls, ErrorCompletes(c) PROVE Reports(c)
  <2>1. Running(c) /\ job[c].http \notin {"none", "200", "206"}
        /\ ProgressCallback(c, job[c], ErrorBytes)
    BY <1>2 DEF ErrorCompletes, HttpFails, ClientErrors
  <2>2. ErrorBytes \in Received(job[c])
    BY <2>1 DEF Received
  <2> QED BY <2>1, <2>2 DEF Reports
<1>3. ASSUME NEW c \in Calls, Progresses(c) PROVE Reports(c)
  BY <1>3 DEF Progresses, Reports
<1>4. ASSUME NEW c \in Calls, Silent(c) \/ NeverConnects(c) PROVE UNCHANGED progress
  BY <1>4 DEF Silent, NeverConnects
<1> QED BY <1>1, <1>2, <1>3, <1>4 DEF ProgressNext

LEMMA StepsOfDownload ==
  ASSUME ProgressNext
  PROVE  [DownloadNext]_downloadVars
<1>1. ASSUME NEW c \in Calls,
             \/ Silent(c) \/ BeginAttemptAfresh(c) \/ Progresses(c)
             \/ Completes(c) \/ NeverConnects(c) \/ ErrorCompletes(c) \/ WriteFailing(c)
      PROVE  [DownloadNext]_downloadVars
  <2>1. CASE Silent(c)
    BY <2>1 DEF Silent, DownloadNext
  <2>2. CASE Progresses(c)
    BY <2>2 DEF Progresses
  <2>3. CASE BeginAttemptAfresh(c) \/ Completes(c) \/ NeverConnects(c) \/ ErrorCompletes(c)
               \/ WriteFailing(c)
    BY <2>3 DEF BeginAttemptAfresh, Completes, NeverConnects, ErrorCompletes, WriteFailing,
                DownloadNext
  <2> QED BY <1>1, <2>1, <2>2, <2>3
<1> QED BY <1>1 DEF ProgressNext, DownloadNext

LEMMA ProgressInitInv == ProgressInit => ProgressInv
<1> SUFFICES ASSUME ProgressInit PROVE ProgressInv
  OBVIOUS
<1> PICK p : p = [last |-> Unreported, shown |-> <<0, 0>>]
  OBVIOUS
<1>1. p.last = Unreported /\ p.shown = <<0, 0>> /\ 0 \in Cell
  BY ProgressAssumption, SMT DEF Cell
<1>2. p \in ProgressState /\ Shown(p)
  BY <1>1 DEF ProgressState, Shown
<1>3. progress = [c \in Calls |-> p]
  BY DEF ProgressInit
<1> QED BY <1>2, <1>3, DownloadInitInv DEF ProgressInit, ProgressInv, CellsInv

LEMMA ProgressNextInv ==
  ASSUME Undisturbed, ProgressInv, [ProgressNext]_progressVars
  PROVE  ProgressInv'
<1>1. DownloadInv'
  BY StepsOfDownload, DownloadNextInv DEF ProgressInv, progressVars, downloadVars
<1>2. ASSUME UNCHANGED progress PROVE CellsInv'
  BY <1>2 DEF ProgressInv, CellsInv, Shown
<1>3. ASSUME NEW c \in Calls, BeginAttemptAfresh(c) PROVE CellsInv'
  <2>1. progress[c] \in ProgressState /\ Shown(progress[c])
    BY DEF ProgressInv, CellsInv
  <2> PICK p : p = [progress[c] EXCEPT !.last = Unreported]
    OBVIOUS
  <2>2. p \in ProgressState /\ p.last = Unreported /\ p.shown = progress[c].shown
    BY <2>1 DEF ProgressState
  <2>3. Shown(p)
    BY <2>1, <2>2 DEF Shown
  <2>4. progress' = [progress EXCEPT ![c] = p]
    BY <1>3 DEF BeginAttemptAfresh
  <2> QED BY <2>2, <2>3, <2>4 DEF ProgressInv, CellsInv, Shown
<1>4. CellsInv'
  BY <1>2, <1>3, StepsOfProgress, ReportStep, WriteFailingStep
     DEF ProgressInv, CellsInv, Shown, progressVars
<1> QED BY <1>1, <1>4 DEF ProgressInv

-----------------------------------------------------------------------------
(***************************************************************************)
(* The theorems.                                                           *)
(***************************************************************************)

\* A plugin can always divide what it is shown: nothing negative, nothing beyond a cell, and
\* never more than the total when there is one.
THEOREM ProgressFitsCells == Undisturbed /\ ProgressSpec => []ProgressInCells
<1> SUFFICES ASSUME Undisturbed PROVE ProgressSpec => []ProgressInCells
  OBVIOUS
<1>1. ProgressInit => ProgressInv
  BY ProgressInitInv
<1>2. ProgressInv /\ [ProgressNext]_progressVars => ProgressInv'
  BY ProgressNextInv
<1>3. ProgressInv => ProgressInCells
  <2> SUFFICES ASSUME ProgressInv, NEW c \in Calls
               PROVE  LET shown == progress[c].shown
                      IN /\ 0 <= shown[1] /\ shown[1] <= CellMax
                         /\ shown[2] # 0 => shown[1] <= shown[2]
    BY DEF ProgressInCells
  <2>1. Shown(progress[c]) /\ progress[c].shown[1] \in Cell
    BY DEF ProgressInv, CellsInv, ProgressState
  <2>2. 0 <= progress[c].shown[1] /\ progress[c].shown[1] <= CellMax
    BY <2>1, ProgressAssumption, SMT DEF Cell
  <2> QED BY <2>1, <2>2 DEF Shown
<1> QED BY <1>1, <1>2, <1>3, PTL DEF ProgressSpec

\* Until an error answer, what is shown is how much of the object the part file holds, through
\* retries, resumes and restarts, out of the whole object or of an unknown total.
THEOREM ProgressIsTruthful == Undisturbed /\ ProgressSpec => ProgressTruthful
<1> SUFFICES ASSUME Undisturbed PROVE ProgressSpec => ProgressTruthful
  OBVIOUS
<1>1. ProgressInit => ProgressInv
  BY ProgressInitInv
<1>2. ProgressInv /\ [ProgressNext]_progressVars => ProgressInv'
  BY ProgressNextInv
<1>3. ASSUME ProgressInv, [ProgressNext]_progressVars, NEW c \in Calls, Shows(c),
             job[c].http \in {"none", "200", "206"}, job'[c].result # "IoError"
      PROVE  LET shown == progress'[c].shown
             IN /\ shown[1] = ClampToCell(Bytes[Len(inodes[job[c].file])])
                /\ IgnoredRange(job[c]) \/ shown[2] \in {0, ClampToCell(Whole)}
  <2>1. progress'[c] # progress[c] /\ progress'[c].last # Unreported /\ progress' # progress
    BY <1>3 DEF Shows
  <2>2. PICK d \in Calls : BeginAttemptAfresh(d) \/ Reports(d) \/ WriteFailing(d)
    BY <1>3, <2>1, StepsOfProgress DEF progressVars
  <2>3. ~BeginAttemptAfresh(c)
    <3> SUFFICES ASSUME BeginAttemptAfresh(c) PROVE FALSE
      OBVIOUS
    <3>1. progress[c] \in ProgressState
      BY <1>3 DEF ProgressInv, CellsInv
    <3>2. progress'[c].last = Unreported
      BY <1>3, <3>1 DEF BeginAttemptAfresh, ProgressInv, CellsInv, ProgressState
    <3> QED BY <2>1, <3>2
  <2>4. ~WriteFailing(c)
    <3> SUFFICES ASSUME WriteFailing(c) PROVE FALSE
      OBVIOUS
    <3>1. job \in [Calls -> CallState]
      BY <1>3 DEF ProgressInv, DownloadInv, TypeInv
    <3>2. Restarted(job[c]) \in CallState /\ Over(c, Restarted(job[c]), "IoError")
      BY <3>1, RestartedType DEF WriteFailing, WriteFails, RestartFails
    <3>3. job'[c].result = "IoError"
      BY <3>1, <3>2 DEF Over, CallState
    <3> QED BY <1>3, <3>3
  <2>5. d = c
    <3> SUFFICES ASSUME d # c PROVE progress'[c] = progress[c]
      BY <2>1
    <3>1. CASE BeginAttemptAfresh(d)
      BY <1>3, <3>1 DEF BeginAttemptAfresh, ProgressInv, CellsInv
    <3>2. CASE Reports(d)
      BY <1>3, <3>2, ReportStep
    <3>3. CASE WriteFailing(d)
      BY <1>3, <3>3, WriteFailingStep
    <3> QED BY <2>2, <3>1, <3>2, <3>3
  <2>6. Reports(c)
    BY <2>2, <2>3, <2>4, <2>5
  <2> QED BY <1>3, <2>1, <2>6, ReportStep
<1>4. ProgressInv /\ [ProgressNext]_progressVars
        => [\A c \in Calls :
              Shows(c) /\ job[c].http \in {"none", "200", "206"} /\ job'[c].result # "IoError" =>
                LET shown == progress'[c].shown
                IN /\ shown[1] = ClampToCell(Bytes[Len(inodes[job[c].file])])
                   /\ IgnoredRange(job[c]) \/ shown[2] \in {0, ClampToCell(Whole)}]_progressVars
  BY <1>3
<1> QED BY <1>1, <1>2, <1>4, PTL DEF ProgressSpec, ProgressTruthful

\* Only Finalize ends a call with Ok, and libcurl reports once more as it does.
LEMMA OkIsComplete ==
  ASSUME TypeInv, [ProgressNext]_progressVars, NEW c \in Calls,
         job[c].result = "none", job'[c].result = "Ok"
  PROVE  Completes(c) /\ Finalize(c)
<1>1. job' # job
  OBVIOUS
<1>2. PICK d \in Calls :
        \/ Silent(d) \/ BeginAttemptAfresh(d) \/ Completes(d) \/ NeverConnects(d)
        \/ ErrorCompletes(d) \/ WriteFailing(d)
  BY <1>1 DEF ProgressNext, Progresses, Overwrite, AllOver, progressVars, downloadVars
<1>3. ASSUME NEW e \in Calls, TypeInv', job'[e].phase \in {"due", "running"}
      PROVE  job'[e].result # "Ok"
  <2>1. job'[e].result = "none"
    BY <1>3 DEF TypeInv, CallInv
  <2> QED BY <2>1
<1>4. ASSUME NEW e \in Calls,
             \/ \E resume \in BOOLEAN : GetFile(e, resume)
             \/ BeginAttempt(e) \/ Respond(e) \/ WriteChunk(e) \/ Ends(e) \/ RestartFails(e)
      PROVE  job'[e].result # "Ok" /\ \A f \in Calls \ {e} : job'[f] = job[f]
  <2>1. CASE \E resume \in BOOLEAN : GetFile(e, resume)
    BY <1>3, <2>1, GetFileStep
  <2>2. CASE BeginAttempt(e)
    BY <1>3, <2>2, BeginStep
  <2>3. CASE Respond(e)
    <3>1. job[e].phase = "running"
      BY <2>3 DEF Respond, Running
    <3>2. TypeInv' /\ job'[e].phase = job[e].phase /\ \A f \in Calls \ {e} : job'[f] = job[f]
      BY <2>3, RespondStep
    <3> QED BY <1>3, <3>1, <3>2
  <2>4. CASE WriteChunk(e)
    BY <1>3, <2>4, WriteStep
  <2>5. CASE Ends(e)
    BY <2>5, EndStep
  <2>6. CASE RestartFails(e)
    BY <2>6, RestartFailsStep
  <2> QED BY <1>4, <2>1, <2>2, <2>3, <2>4, <2>5, <2>6
<1>5. CASE Finalize(d) /\ Completes(d)
  <2>1. \A f \in Calls \ {d} : job'[f] = job[f]
    BY <1>5, FinalizeStep
  <2>2. c = d
    BY <2>1
  <2> QED BY <1>5, <2>2
<1>6. \/ \E resume \in BOOLEAN : GetFile(d, resume)
      \/ BeginAttempt(d) \/ Respond(d) \/ WriteChunk(d) \/ Ends(d) \/ RestartFails(d)
      \/ Finalize(d) /\ Completes(d)
  BY <1>2 DEF Silent, BeginAttemptAfresh, Completes, NeverConnects, ErrorCompletes, WriteFailing,
              Ends
<1>7. CASE \/ \E resume \in BOOLEAN : GetFile(d, resume)
           \/ BeginAttempt(d) \/ Respond(d) \/ WriteChunk(d) \/ Ends(d) \/ RestartFails(d)
  <2>1. job'[d].result # "Ok" /\ \A f \in Calls \ {d} : job'[f] = job[f]
    BY <1>4, <1>7
  <2> QED BY <2>1
<1> QED BY <1>5, <1>6, <1>7

\* The throttle never swallows the end: a download of an object that is not empty and whose
\* size was announced has shown its last byte when it succeeds.
THEOREM FinalProgressIsShown ==
  Undisturbed /\ Announced /\ (\A v \in Versions : Sizes[v] > 0) /\ ProgressSpec
    => FinalProgressShown
<1> SUFFICES ASSUME Undisturbed, Announced, \A v \in Versions : Sizes[v] > 0
             PROVE  ProgressSpec => FinalProgressShown
  OBVIOUS
<1>1. ProgressInit => ProgressInv
  BY ProgressInitInv
<1>2. ProgressInv /\ [ProgressNext]_progressVars => ProgressInv'
  BY ProgressNextInv
<1>3. ASSUME ProgressInv, [ProgressNext]_progressVars, NEW c \in Calls,
             job[c].result = "none", job'[c].result = "Ok"
      PROVE  progress'[c].shown[1] = ClampToCell(Whole)
  <2>1. DownloadInv /\ CellsInv /\ TypeInv
    BY <1>3 DEF ProgressInv, DownloadInv
  <2>2. Completes(c) /\ Finalize(c) /\ Running(c)
    BY <1>3, <2>1, OkIsComplete DEF Finalize
  <2>3. PICK dlnow \in Received(job[c]) :
          PostProgress(c, Transferred(job[c], dlnow), Total(job[c]))
    BY <2>2 DEF Completes, ProgressCallback, Total
  <2> PICK s : s = job[c]
    OBVIOUS
  <2>4. /\ version \in Versions /\ Sizes[version] \in Nat /\ s.file = part /\ s \in CallState
        /\ AttemptInv(s) /\ Len(inodes[part]) \in 0..Sizes[version]
        /\ s.offset \in 0..Sizes[version] /\ 0 \in 0..Sizes[version]
    BY <2>1, <2>2, Positions
  <2>5. s.http \in {"200", "206"} /\ s.body = <<>>
    BY <2>2 DEF Finalize
  <2>6. ~IgnoredRange(s) /\ Len(inodes[part]) = Sizes[version]
    <3>1. ~IgnoredRange(s) /\ Continued(s.body, Len(inodes[part]), version)
      BY <2>4, <2>5 DEF AttemptInv
    <3>2. 0 = Sizes[version] - Len(inodes[part])
      BY <2>5, <3>1 DEF Continued
    <3> QED BY <2>4, <3>1, <3>2, SMT
  <2>7. Sizes[version] > 0 /\ Sizes[version] \in 0..Sizes[version]
    BY <2>4, SMT
  <2>8. /\ Bytes[s.offset] \in Nat /\ Whole \in Nat /\ Whole > 0 /\ Bytes[0] = 0
        /\ s.http = "206" => Bytes[s.offset] < Whole
        /\ s.http = "200" => s.offset = 0
    <3>1. /\ s.http = "206" => s.offset < Sizes[version]
          /\ s.http = "200" => s.offset = 0
      BY <2>4, <2>6 DEF AttemptInv
    <3>2. Bytes[0] = 0 /\ Bytes[0] < Whole /\ Whole \in Nat /\ Bytes[s.offset] \in Nat
      BY <2>4, <2>7, ProgressAssumption DEF Whole
    <3>3. s.http = "206" => Bytes[s.offset] < Whole
      BY <2>4, <2>7, <3>1, ProgressAssumption DEF Whole
    <3> QED BY <3>1, <3>2, <3>3, SMT
  <2>9. Expected(s) = Whole - BodyStart(s) /\ Expected(s) > 0 /\ Total(s) = Whole
    <3>1. Expected(s) = Whole - BodyStart(s)
      BY <2>5 DEF Expected
    <3>2. BodyStart(s) = Bytes[s.offset] /\ BodyStart(s) < Whole
      BY <2>5, <2>8, SMT DEF BodyStart
    <3> QED BY <2>8, <3>1, <3>2, SMT DEF Total
  <2>10. Transferred(s, dlnow) = Whole
    BY <2>1, <2>2, <2>4, <2>5, <2>6, CountsOfAttempt DEF Whole
  <2>11. PostProgress(c, Whole, Whole)
    BY <2>3, <2>9, <2>10
  <2>12. IsDue(progress[c], Whole, Whole)
    BY <2>8, SMT DEF IsDue
  <2>13. ~(Whole <= 0)
    BY <2>8, SMT
  <2>14. \/ Whole = progress[c].last /\ progress' = progress
         \/ progress' = [progress EXCEPT ![c] =
              [last |-> Whole, shown |-> <<ClampToCell(Whole), ClampToCell(Whole)>>]]
    BY <2>11, <2>12, <2>13 DEF PostProgress
  <2>15. CASE Whole = progress[c].last /\ progress' = progress
    <3>1. progress[c].last # Unreported
      BY <2>8, <2>15, SMT DEF Unreported
    <3> QED BY <2>1, <2>15, <3>1 DEF CellsInv, Shown
  <2>16. CASE progress' = [progress EXCEPT ![c] =
                [last |-> Whole, shown |-> <<ClampToCell(Whole), ClampToCell(Whole)>>]]
    BY <2>1, <2>16 DEF CellsInv
  <2> QED BY <2>14, <2>15, <2>16
<1>4. ProgressInv /\ [ProgressNext]_progressVars
        => [\A c \in Calls :
              job[c].result = "none" /\ job'[c].result = "Ok" =>
                progress'[c].shown[1] = ClampToCell(Whole)]_progressVars
  BY <1>3
<1> QED BY <1>1, <1>2, <1>4, PTL DEF ProgressSpec, FinalProgressShown
=============================================================================
