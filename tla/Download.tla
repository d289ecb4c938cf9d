------------------------------ MODULE Download ------------------------------
(***************************************************************************)
(* GetFile and the file system: how the body of an object gets into        *)
(* "<path>.part", across attempts, resumed calls, servers that ignore the  *)
(* Range header, and calls for one path that overlap (src/src/s3job.cpp).  *)
(*                                                                         *)
(* A file is a sequence of chunks and lives in an inode.  A FILE* keeps    *)
(* its inode through a rename or an unlink of the name, and the part file  *)
(* is always looked up by name: that is all the sharing between two jobs.  *)
(* Chunk i of version v of the object is <<v, i>>.                         *)
(***************************************************************************)
EXTENDS Integers, Sequences, FiniteSets

CONSTANTS
  Calls,         \* calls of GetFile, all for the same key and path
  Sizes,         \* Sizes[v] is the length of version v of the object; 1 comes first
  RangeSupport,  \* SUBSET BOOLEAN: whether the server may honour, or ignore, Range
  Statuses,      \* what the server may answer besides the object
  MaxRetries,    \* config.maxRetries
  Overlap,       \* whether a call may start before the previous one is over
  StaleParts,    \* whether the object may be replaced while a part file of it is left
  LossyClose     \* whether the data fclose flushes may fail to reach the disk

ASSUME DownloadAssumption ==
  /\ Sizes \in Seq(Nat) /\ Len(Sizes) > 0
  /\ RangeSupport \subseteq BOOLEAN /\ RangeSupport # {}
  /\ Statuses \subseteq {"3xx", "4xx", "429", "5xx"}
  /\ MaxRetries \in Int
  /\ Overlap \in BOOLEAN /\ StaleParts \in BOOLEAN /\ LossyClose \in BOOLEAN

VARIABLES
  job,      \* [Calls -> the S3Job members that steer the download]
  inodes,   \* the contents of every inode made so far (external)
  part,     \* the inode "<path>.part" names, or NoFile (external)
  dest,     \* the inode the path names, or NoFile (external)
  version   \* the version of the object the server holds (external)

downloadVars == <<job, inodes, part, dest, version>>

NoFile == 0
Versions == 1..Len(Sizes)
Object(v) == [i \in 1..Sizes[v] |-> <<v, i>>]

\* What a file shows where a write beyond its end left a gap.
Hole == <<0, 0>>

\* A call is idle, due for an attempt, running one, or over.
NewCall ==
  [phase |-> "idle", resume |-> FALSE, attempt |-> 0, file |-> NoFile, append |-> FALSE,
   pos |-> 0, offset |-> 0, restarted |-> FALSE, http |-> "none", body |-> <<>>,
   result |-> "none"]

DownloadInit ==
  /\ job = [c \in Calls |-> NewCall]
  /\ inodes = <<>>
  /\ part = NoFile
  /\ dest = NoFile
  /\ version = 1

Running(c) == job[c].phase = "running"
Over(c, s, result) ==
  job' = [job EXCEPT ![c] = [s EXCEPT !.phase = "over", !.file = NoFile, !.result = result]]

\* FileSizeOf of the part file.  Mutant: one more than it holds.
PartSizeAndOne == IF part = NoFile THEN -1 ELSE Len(inodes[part]) + 1
PartSize == IF part = NoFile THEN -1 ELSE Len(inodes[part])

\* fopen and freopen with "wb": the inode the name stands for is emptied, or a new one made.
OpenTruncating ==
  IF part = NoFile
  THEN /\ inodes' = Append(inodes, <<>>)
       /\ part' = Len(inodes) + 1
  ELSE /\ inodes' = [inodes EXCEPT ![part] = <<>>]
       /\ UNCHANGED part

-----------------------------------------------------------------------------
GetFile(c, resume) ==
  /\ job[c].phase = "idle"
  /\ Overlap \/ \A d \in Calls : job[d].phase \in {"idle", "over"}
  /\ job' = [job EXCEPT ![c].phase = "due", ![c].resume = resume]
  /\ UNCHANGED <<inodes, part, dest, version>>

\* Whether OpenFiles appends to the part file.  Mutant: a retry starts all over.
ContinuesFirst(s) == s.resume /\ PartSize > 0 /\ s.attempt = 1
Continues(s) == s.resume /\ PartSize > 0

\* A FILE* opened with "ab" writes at the end of the file, one opened with "wb" at pos.
BeginAttempt(c) ==
  LET s == [job[c] EXCEPT !.phase = "running", !.attempt = @ + 1, !.restarted = FALSE,
                          !.http = "none", !.body = <<>>, !.pos = 0]
  IN /\ job[c].phase = "due"
     /\ IF Continues(s)
        THEN /\ job' = [job EXCEPT ![c] =
                  [s EXCEPT !.file = part, !.append = TRUE, !.offset = PartSize]]
             /\ UNCHANGED <<inodes, part>>
        ELSE /\ OpenTruncating
             /\ job' = [job EXCEPT ![c] =
                  [s EXCEPT !.file = part', !.append = FALSE, !.offset = 0]]
     /\ UNCHANGED <<dest, version>>

\* OpenFiles fails.
OpenFails(c) ==
  /\ job[c].phase = "due"
  /\ Over(c, [job[c] EXCEPT !.attempt = @ + 1], "IoError")
  /\ UNCHANGED <<inodes, part, dest, version>>

\* The server's answer (external): the object, the rest of it, or 416 past its end.
Respond(c) ==
  LET o == Object(version)
      r == job[c].offset
      Answer(http, body) == job' = [job EXCEPT ![c].http = http, ![c].body = body]
  IN /\ Running(c)
     /\ job[c].http = "none"
     /\ \/ \E honours \in RangeSupport :
             IF r > 0 /\ honours
             THEN IF r < Len(o)
                  THEN Answer("206", SubSeq(o, r + 1, Len(o)))
                  ELSE Answer("416", <<>>)
             ELSE Answer("200", o)
        \/ \E http \in Statuses : Answer(http, <<>>)
     /\ UNCHANGED <<inodes, part, dest, version>>

\* fwrite of one chunk through the FILE* of s, to the file system the open left behind.
Written(content, s, chunk) ==
  IF s.append
  THEN Append(content, chunk)
  ELSE [i \in 1..(IF s.pos < Len(content) THEN Len(content) ELSE s.pos + 1) |->
          IF i = s.pos + 1 THEN chunk
          ELSE IF i <= Len(content) THEN content[i] ELSE Hole]

\* serverIgnoredRange.  Mutant: the answer to a Range is never a whole object.
NeverIgnoredRange(s) == FALSE
IgnoredRange(s) == s.http = "200" /\ s.offset > 0 /\ ~s.restarted

\* WriteCallback of the next chunk of a 2xx body.
WriteChunk(c) ==
  LET s == job[c]
  IN /\ Running(c)
     /\ s.http \in {"200", "206"} /\ s.body # <<>>
     /\ IF IgnoredRange(s)
        THEN /\ part' = IF part = NoFile THEN Len(inodes) + 1 ELSE part
             /\ inodes' = IF part = NoFile
                          THEN Append(inodes, <<Head(s.body)>>)
                          ELSE [inodes EXCEPT ![part] = <<Head(s.body)>>]
             /\ job' = [job EXCEPT ![c] =
                  [s EXCEPT !.body = Tail(@), !.restarted = TRUE, !.offset = 0,
                            !.append = FALSE, !.pos = 1, !.file = part']]
        ELSE /\ inodes' = [inodes EXCEPT ![s.file] = Written(@, s, Head(s.body))]
             /\ job' = [job EXCEPT ![c] = [s EXCEPT !.body = Tail(@), !.pos = @ + 1]]
             /\ UNCHANGED part
     /\ UNCHANGED <<dest, version>>

\* fclose: what it flushes may be lost, and its result is not looked at.
CloseFile(s) ==
  inodes' \in {inodes} \cup
    (IF LossyClose /\ s.file # NoFile /\ inodes[s.file] # <<>>
     THEN {[inodes EXCEPT ![s.file] = SubSeq(@, 1, Len(@) - 1)]} ELSE {})

\* Mutant: one attempt too many.
CanRetryOnceMore(s) == s.attempt <= MaxRetries + 1
CanRetry(s) == s.attempt <= MaxRetries

\* ScheduleRetry and, later, StartDueRetries.
Retry(c, s) == job' = [job EXCEPT ![c] = [s EXCEPT !.phase = "due", !.file = NoFile]]

\* OnAttemptDone of a transfer that broke off or stalled.
TransportFails(c) ==
  /\ Running(c)
  /\ IF CanRetry(job[c]) THEN Retry(c, job[c]) ELSE Over(c, job[c], "NetworkError")
  /\ CloseFile(job[c])
  /\ UNCHANGED <<part, dest, version>>

\* What serverIgnoredRange makes of a job before the file is reopened.
Restarted(s) == IF IgnoredRange(s) THEN [s EXCEPT !.restarted = TRUE, !.offset = 0] ELSE s

\* WriteCallback could not write, or could not reopen, the part file.
WriteFails(c) ==
  /\ Running(c)
  /\ job[c].http \in {"200", "206"} /\ job[c].body # <<>>
  /\ Over(c, Restarted(job[c]), "IoError")
  /\ CloseFile(job[c])
  /\ UNCHANGED <<part, dest, version>>

\* WriteCallback reopened the part file, which empties it, and could not write then.
RestartFails(c) ==
  /\ Running(c)
  /\ IgnoredRange(job[c]) /\ job[c].body # <<>>
  /\ OpenTruncating
  /\ Over(c, Restarted(job[c]), "IoError")
  /\ UNCHANGED <<dest, version>>

\* Mutant: the file gets its second name but keeps the first.
FinalizeLinking(c) ==
  /\ Running(c)
  /\ job[c].http \in {"200", "206"} /\ job[c].body = <<>>
  /\ CloseFile(job[c])
  /\ part # NoFile
  /\ dest' = part
  /\ Over(c, job[c], "Ok")
  /\ UNCHANGED <<part, version>>

\* The whole body of a 2xx has been received: FinalizeDownload renames the part file,
\* which fails when nothing has that name any more, or for reasons of its own.
Finalize(c) ==
  /\ Running(c)
  /\ job[c].http \in {"200", "206"} /\ job[c].body = <<>>
  /\ CloseFile(job[c])
  /\ \/ /\ part # NoFile
        /\ dest' = part
        /\ part' = NoFile
        /\ Over(c, job[c], "Ok")
     \/ /\ Over(c, job[c], "IoError")
        /\ UNCHANGED <<part, dest>>
  /\ UNCHANGED version

\* ShouldRetryStatus, and what HandleHttpFailure calls a client error.
RetriedStatuses == {"429", "5xx"}
ClientErrors == {"416", "4xx", "429"}

\* HandleHttpFailure: a client error removes the part file, whoever is writing it.
HttpFails(c) ==
  /\ Running(c)
  /\ job[c].http \in {"3xx", "5xx"} \cup ClientErrors
  /\ CloseFile(job[c])
  /\ IF job[c].http \in RetriedStatuses /\ CanRetry(job[c])
     THEN Retry(c, job[c]) /\ UNCHANGED part
     ELSE /\ Over(c, job[c], "HttpError")
          /\ part' = IF job[c].http \in ClientErrors THEN NoFile ELSE part
  /\ UNCHANGED <<dest, version>>

\* S3Job::Cancel, or the end of the process: the part file stays for a later call.
Cancel(c) ==
  /\ job[c].phase \in {"due", "running"}
  /\ Over(c, job[c], "Cancelled")
  /\ CloseFile(job[c])
  /\ UNCHANGED <<part, dest, version>>

\* Someone puts a new version of the object (external).
Overwrite ==
  /\ version + 1 \in Versions
  /\ StaleParts \/ part = NoFile
  /\ version' = version + 1
  /\ UNCHANGED <<job, inodes, part, dest>>

AllOver == (\A c \in Calls : job[c].phase = "over") /\ UNCHANGED downloadVars

DownloadNext ==
  \/ Overwrite \/ AllOver
  \/ \E c \in Calls :
       \/ \E resume \in BOOLEAN : GetFile(c, resume)
       \/ BeginAttempt(c) \/ OpenFails(c) \/ Respond(c) \/ WriteChunk(c)
       \/ TransportFails(c) \/ WriteFails(c) \/ RestartFails(c) \/ Finalize(c)
       \/ HttpFails(c) \/ Cancel(c)

DownloadSpec == DownloadInit /\ [][DownloadNext]_downloadVars

-----------------------------------------------------------------------------
(***************************************************************************)
(* Correctness.                                                            *)
(***************************************************************************)

Results == {"none", "Ok", "IoError", "NetworkError", "HttpError", "Cancelled"}

DownloadTypeOK ==
  /\ \A c \in Calls :
       LET s == job[c]
       IN /\ s.phase \in {"idle", "due", "running", "over"}
          /\ s.attempt \in 0..(1 + (IF MaxRetries > 0 THEN MaxRetries ELSE 0))
          /\ s.file \in 0..Len(inodes) /\ s.offset \in Nat /\ s.pos \in Nat
          /\ s.result \in Results
          /\ s.phase = "over" <=> s.result # "none"
  /\ part \in 0..Len(inodes) /\ dest \in 0..Len(inodes)
  /\ version \in Versions

\* README.md:133 and s3.inc:178: the path only ever names a whole object, whatever was
\* resumed, restarted, retried or cancelled on the way.
PathIsWhole == dest # NoFile => \E v \in Versions : inodes[dest] = Object(v)

\* While one call runs at a time and the object is not replaced under a part file, the part
\* file is at every moment a prefix of the object, so that a resume at its length fits.
PartIsPrefix ==
  part # NoFile =>
    /\ Len(inodes[part]) <= Sizes[version]
    /\ inodes[part] = SubSeq(Object(version), 1, Len(inodes[part]))

\* No job still writes to the file that the path names.
NoWriterBehindPath == \A c \in Calls : Running(c) => job[c].file # dest

\* The two places where a call starts over: OpenFiles of a call made without resume, which
\* empties the part file for every attempt, retries included, and the first chunk of an
\* answer that ignored Range.
StartsOver(c) ==
  \/ job[c].phase = "due" /\ job'[c].phase = "running" /\ ~job[c].resume
  \/ IgnoredRange(job[c]) /\ job'[c].restarted

\* Nothing else takes bytes from the part file while it has its name: a retry of a call with
\* resume keeps what the attempts before it stored, whatever answers, breaks or is cancelled.
OnlyStartingOverShrinks ==
  [][part # NoFile /\ part' = part /\ Len(inodes'[part]) < Len(inodes[part]) =>
       \E c \in Calls : StartsOver(c)]_downloadVars

\* README.md:133: calling GetFile again with resume continues an interrupted download;
\* it does not fail because nothing was left to fetch.
ResumeContinues ==
  \A c \in Calls : job[c].result = "HttpError" => job[c].http # "416"
=============================================================================
