------------------------------- MODULE Upload -------------------------------
(***************************************************************************)
(* PutFile, the local file and the server: what ends up as the object when *)
(* the file changes while it is sent, and across attempts                  *)
(* (src/src/s3job.cpp).                                                    *)
(*                                                                         *)
(* Each attempt opens the path, asks for the size of what the path names   *)
(* by then, and promises the server that many bytes.  A file is a sequence *)
(* of chunks in an inode, as in Download; chunk i of version v is <<v, i>>.*)
(***************************************************************************)
EXTENDS Integers, Sequences

CONSTANTS
  Calls,        \* calls of PutFile, all for the same path and key
  Writers,      \* how others may change the file
  Lengths,      \* Lengths[v] is how long version v of the file is when it appears
  MaxLength,    \* bound of the model: how long a version may grow
  MaxRetries    \* config.maxRetries

ASSUME UploadAssumption ==
  /\ Writers \subseteq {"append", "rewrite", "replace", "delete"}
  /\ MaxLength \in Nat
  /\ Lengths \in Seq(0..MaxLength) /\ Len(Lengths) > 0
  /\ MaxRetries \in Int

VARIABLES
  job,      \* [Calls -> the S3Job members that steer the upload]
  inodes,   \* the contents of every inode made so far (external)
  path,     \* the inode the path names, or NoFile (external)
  newest,   \* the last version of the file there was (external)
  object,   \* what the server stores under the key, or NoObject (external)
  seen,     \* history: [Calls -> the contents the path had since the call]
  torn      \* history: [Calls -> whether the file was changed under the call's attempt so
            \* that it may read parts of two files]

uploadVars == <<job, inodes, path, newest, object, seen, torn>>

NoFile == 0
NoObject == <<"none">>
Version(v, n) == [i \in 1..n |-> <<v, i>>]

\* A call is idle, due for an attempt, between fopen and FileSizeOf, sending, or over.
NewUpload ==
  [phase |-> "idle", attempt |-> 0, file |-> NoFile, size |-> 0, sent |-> <<>>,
   stored |-> FALSE, result |-> "none"]

UploadInit ==
  /\ job = [c \in Calls |-> NewUpload]
  /\ inodes = <<Version(1, Lengths[1])>>
  /\ path = 1
  /\ newest = 1
  /\ object = NoObject
  /\ seen = [c \in Calls |-> {}]
  /\ torn = [c \in Calls |-> FALSE]

Contents(p) == IF p = NoFile THEN {} ELSE {inodes[p]}
Sending(c) == job[c].phase = "sending"
\* OpenFiles runs to its end before the transfer thread turns to another job.
HasThread(c) == \A d \in Calls \ {c} : job[d].phase # "opening"
Over(c, result) ==
  job' = [job EXCEPT ![c].phase = "over", ![c].file = NoFile, ![c].result = result]

-----------------------------------------------------------------------------
PutFile(c) ==
  /\ job[c].phase = "idle"
  /\ job' = [job EXCEPT ![c].phase = "due"]
  /\ seen' = [seen EXCEPT ![c] = Contents(path)]
  /\ UNCHANGED <<inodes, path, newest, object, torn>>

\* OpenFiles up to fopen with "rb".
OpenFile(c) ==
  /\ job[c].phase = "due"
  /\ IF path # NoFile
     THEN job' = [job EXCEPT ![c].phase = "opening", ![c].attempt = @ + 1, ![c].file = path]
     ELSE Over(c, "IoError")
  /\ UNCHANGED <<inodes, path, newest, object, seen, torn>>

\* Mutant: the size is asked for once per request.
SizeOfFirst(s) == IF s.attempt > 1 THEN s.size ELSE IF path = NoFile THEN 0 ELSE Len(inodes[path])
\* FileSizeOf the path, not of the FILE*: 0 when the path names nothing any more.
SizeOf(s) == IF path = NoFile THEN 0 ELSE Len(inodes[path])

\* The rest of OpenFiles and the request: INFILESIZE_LARGE is m_uploadSize.
BeginAttempt(c) ==
  /\ job[c].phase = "opening"
  /\ job' = [job EXCEPT ![c].phase = "sending", ![c].size = SizeOf(job[c]), ![c].sent = <<>>,
                        ![c].stored = FALSE]
  /\ torn' = [torn EXCEPT ![c] = path # job[c].file]
  /\ UNCHANGED <<inodes, path, newest, object, seen>>

\* Where ReadCallback reads on.  Mutant: a retry skips what the first attempt began with.
PositionNotRewound(s) == Len(s.sent) + (IF s.attempt > 1 THEN 1 ELSE 0)
Position(s) == Len(s.sent)

\* ReadCallback, from whatever the inode holds by now: libcurl asks for no more than the
\* size it was given.
SendChunk(c) ==
  LET s == job[c]
      file == inodes[s.file]
  IN /\ Sending(c)
     /\ Len(s.sent) < s.size
     /\ Position(s) < Len(file)
     /\ job' = [job EXCEPT ![c].sent = Append(@, file[Position(s) + 1])]
     /\ UNCHANGED <<inodes, path, newest, object, seen, torn>>

\* Mutant: the first attempt is not counted.
CanRetryOnceMore(s) == s.attempt <= MaxRetries + 1
CanRetry(s) == s.attempt <= MaxRetries

\* ScheduleRetry after CloseFiles, or the end of the request when no attempt is left.
RetryOr(c, result) ==
  IF CanRetry(job[c])
  THEN job' = [job EXCEPT ![c].phase = "due", ![c].file = NoFile]
  ELSE Over(c, result)

\* The file ends before its size: libcurl fails the read, or the server waits in vain.
EndsEarly(c) ==
  LET s == job[c]
  IN /\ Sending(c)
     /\ Len(s.sent) < s.size
     /\ Position(s) >= Len(inodes[s.file])
     /\ Over(c, "IoError") \/ RetryOr(c, "Timeout")
     /\ UNCHANGED <<inodes, path, newest, object, seen, torn>>

\* The server has the whole body (external): the object is replaced at one stroke.
StoreObject(c) ==
  LET s == job[c]
  IN /\ Sending(c)
     /\ Len(s.sent) = s.size
     /\ ~s.stored
     /\ object' = s.sent
     /\ job' = [job EXCEPT ![c].stored = TRUE]
     /\ UNCHANGED <<inodes, path, newest, seen, torn>>

\* OnAttemptDone of a 2xx answer, of one that is not retried, and of a 429, a 5xx or an
\* answer that never comes, whether or not the server had stored the object by then.
AttemptDone(c) ==
  /\ Sending(c)
  /\ \/ job[c].stored /\ Over(c, "Ok")
     \/ ~job[c].stored /\ Over(c, "HttpError")
     \/ \E result \in {"HttpError", "NetworkError", "Timeout"} : RetryOr(c, result)
  /\ UNCHANGED <<inodes, path, newest, object, seen, torn>>

Cancel(c) ==
  /\ job[c].phase \in {"due", "sending"}
  /\ Over(c, "Cancelled")
  /\ UNCHANGED <<inodes, path, newest, object, seen, torn>>

-----------------------------------------------------------------------------
(***************************************************************************)
(* Whoever else uses the file (external): a recorder that appends to it, a *)
(* program that truncates it or writes over a part of it, one that renames *)
(* a new file onto it, an administrator who deletes it.                    *)
(***************************************************************************)

Appends ==
  /\ "append" \in Writers
  /\ path # NoFile /\ Len(inodes[path]) < MaxLength
  /\ inodes' = [inodes EXCEPT ![path] = Append(@, <<newest, Len(@) + 1>>)]
  /\ UNCHANGED <<path, newest, torn>>

\* The inode stays, and with it the FILE* of an attempt that is sending it.
Rewrites ==
  /\ "rewrite" \in Writers
  /\ path # NoFile /\ newest < Len(Lengths)
  /\ newest' = newest + 1
  /\ \E i \in DOMAIN inodes[path] :
       inodes' \in {[inodes EXCEPT ![path] = SubSeq(@, 1, i - 1)],
                   [inodes EXCEPT ![path][i] = <<newest', i>>]}
  /\ torn' = [c \in Calls |-> torn[c] \/ (Sending(c) /\ job[c].file = path)]
  /\ UNCHANGED path

Replaces ==
  /\ "replace" \in Writers
  /\ newest < Len(Lengths)
  /\ newest' = newest + 1
  /\ inodes' = Append(inodes, Version(newest', Lengths[newest']))
  /\ path' = Len(inodes')
  /\ UNCHANGED torn

Deletes ==
  /\ "delete" \in Writers
  /\ path # NoFile
  /\ path' = NoFile
  /\ UNCHANGED <<inodes, newest, torn>>

ChangeFile ==
  /\ Appends \/ Rewrites \/ Replaces \/ Deletes
  /\ seen' = [c \in Calls |->
       IF job[c].phase \in {"idle", "over"} \/ path' = NoFile THEN seen[c]
       ELSE seen[c] \cup {inodes'[path']}]
  /\ UNCHANGED <<job, object>>

AllOver == (\A c \in Calls : job[c].phase = "over") /\ UNCHANGED uploadVars

UploadNext ==
  \/ ChangeFile \/ AllOver
  \/ \E c \in Calls :
       \/ PutFile(c) \/ StoreObject(c)
       \/ HasThread(c) /\ (OpenFile(c) \/ BeginAttempt(c) \/ SendChunk(c) \/ EndsEarly(c)
                            \/ AttemptDone(c) \/ Cancel(c))

UploadSpec == UploadInit /\ [][UploadNext]_uploadVars

-----------------------------------------------------------------------------
(***************************************************************************)
(* Correctness.                                                            *)
(***************************************************************************)

Results == {"none", "Ok", "HttpError", "NetworkError", "Timeout", "IoError", "Cancelled"}

UploadTypeOK ==
  /\ \A c \in Calls :
       LET s == job[c]
       IN /\ s.phase \in {"idle", "due", "opening", "sending", "over"}
          /\ s.attempt \in Nat /\ s.attempt <= 1 + (IF MaxRetries > 0 THEN MaxRetries ELSE 0)
          /\ s.file \in 0..Len(inodes) /\ s.size \in 0..MaxLength
          /\ s.stored \in BOOLEAN /\ s.result \in Results
          /\ s.file # NoFile <=> s.phase \in {"opening", "sending"}
  /\ path \in 0..Len(inodes) /\ newest \in 1..Len(Lengths)
  /\ torn \in [Calls -> BOOLEAN]

\* "Uploads a local file": what a call stores is the file as it was at one moment since the
\* call, not parts of two versions or the length of another one, however the file grew, was
\* replaced or deleted and however many attempts it takes.  There are two ways to miss it
\* (torn): the file is rewritten in place while the attempt sends it, or its name goes to
\* another file or to none between the attempt's fopen and its FileSizeOf.
StoresSnapshot ==
  [][\A c \in Calls :
       ~job[c].stored /\ job'[c].stored /\ ~torn[c] => object' \in seen[c]]_uploadVars

\* Even then no byte is made up or out of its place: each chunk of what is stored stood at
\* its position in the file at some moment since the call, after any number of attempts.
ChunksFromFile ==
  [][\A c \in Calls :
       ~job[c].stored /\ job'[c].stored =>
         \A i \in DOMAIN object' :
           \E content \in seen[c] : i \in DOMAIN content /\ content[i] = object'[i]]_uploadVars
=============================================================================
