------------------------------- MODULE S3Job -------------------------------
(***************************************************************************)
(* One request: the attempt / retry / finish state machine of              *)
(* src/src/s3job.cpp, with the easy handle libcurl runs for it.            *)
(*                                                                         *)
(* The record job[j] holds the S3Job members that steer control.  The      *)
(* record transfer[j] is libcurl's side of the easy handle (external):     *)
(* whether the multi handle runs it, the response code it has seen, and    *)
(* the result it will report.  transfer[j].http outlives the handle, as    *)
(* the history of what the last attempt received.                          *)
(*                                                                         *)
(* HTTP statuses are the classes the code tells apart.  URLs, headers,     *)
(* bodies and file contents are left to other modules.                     *)
(***************************************************************************)
EXTENDS Integers, MainThreadQueue

CONSTANTS
  Jobs,        \* job ids
  Ops,         \* the operations requests may ask for
  Responses,   \* the response classes the server may send
  MaxRetries,  \* config.maxRetries: any cell a plugin set, negative included
  MaxProgress  \* bound of the model: progress events of one attempt

AllOps == {"Head", "Get", "Put", "Delete", "Copy", "List"}
HttpClasses == {"2xx", "3xx", "4xx", "429", "5xx"}

ASSUME JobAssumption ==
  /\ Ops \subseteq AllOps /\ Ops # {}
  /\ Responses \subseteq HttpClasses
  /\ MaxRetries \in Int
  /\ MaxProgress \in Nat

VARIABLES job, transfer

jobVars == <<job, transfer>>

NoResponse == "none"   \* m_httpStatus = 0
S3Status == {"Ok", "HttpError", "NetworkError", "Timeout", "IoError", "Cancelled"}
CurlCodes == {"OK", "ABORTED", "WRITE_ERROR", "READ_ERROR", "TIMEDOUT", "OTHER"}

\* The operations that stream from or to a file.
FileOps == {"Get", "Put"}

NewJob(op) ==
  [op |-> op, easy |-> "none", file |-> FALSE, attempt |-> 0, waiting |-> FALSE,
   finished |-> FALSE, cancelRequested |-> FALSE, httpStatus |-> NoResponse,
   lastProgress |-> -1]

NoTransfer == [phase |-> "none", http |-> NoResponse, code |-> "OK"]

JobInit ==
  /\ job = [j \in Jobs |-> NewJob(CHOOSE op \in Ops : TRUE)]
  /\ transfer = [j \in Jobs |-> NoTransfer]

-----------------------------------------------------------------------------
\* TransferEvent: a progress event keeps the struct's default status.
CompleteEvent(j, status, http) ==
  [kind |-> "Complete", job |-> j, status |-> status, http |-> http]

ProgressEvent(j) ==
  [kind |-> "Progress", job |-> j, status |-> "Ok", http |-> NoResponse]

\* Mutant: m_finished is never set.
FinishForgetting(j, s, status) ==
  /\ job' = [job EXCEPT ![j] = [s EXCEPT !.waiting = FALSE]]
  /\ Post(CompleteEvent(j, status, s.httpStatus))

\* Finish: the first call marks the job and posts its completion, a later one does nothing.
Finish(j, s, status) ==
  IF s.finished
  THEN /\ job' = [job EXCEPT ![j] = s]
       /\ UNCHANGED queueVars
  ELSE /\ job' = [job EXCEPT ![j] = [s EXCEPT !.finished = TRUE, !.waiting = FALSE]]
       /\ Post(CompleteEvent(j, status, s.httpStatus))

\* Mutant: m_waitingForRetry is not set.
ScheduleNoRetry(j, s) ==
  /\ job' = [job EXCEPT ![j] = s]
  /\ UNCHANGED queueVars

ScheduleRetry(j, s) ==
  /\ job' = [job EXCEPT ![j] = [s EXCEPT !.waiting = TRUE]]
  /\ UNCHANGED queueVars

ResetAttemptState(s) ==
  [s EXCEPT !.httpStatus = NoResponse, !.lastProgress = -1, !.waiting = FALSE]

\* Mutants: the file stays open; the handle stays in the multi handle.
ReleasedButOpen(s) == [s EXCEPT !.easy = "none"]
ReleaseNothing(j) == UNCHANGED transfer

\* CloseFiles and ReleaseCurl: the handle leaves the multi handle and is freed.
Released(s) == [s EXCEPT !.file = FALSE, !.easy = "none"]
ReleaseTransfer(j) == transfer' = [transfer EXCEPT ![j].phase = "none"]

-----------------------------------------------------------------------------
\* BeginAttempt: each early return finishes the job with the handle it got so far.
BeginAttempt(j) ==
  LET s == ResetAttemptState([job[j] EXCEPT !.attempt = @ + 1])
      created == [s EXCEPT !.easy = "created"]
      opened == [created EXCEPT !.file = s.op \in FileOps]
      Fail(t, status) ==
        /\ Finish(j, t, status)
        /\ transfer' = [transfer EXCEPT ![j] = NoTransfer]
  IN IF s.cancelRequested
     THEN Fail(s, "Cancelled")
     ELSE \/ Fail(s, "NetworkError")                               \* curl_easy_init
          \/ s.op \in FileOps /\ Fail(created, "IoError")          \* OpenFiles
          \/ Fail(opened, "NetworkError")                          \* curl_multi_add_handle
          \/ /\ job' = [job EXCEPT ![j] = [opened EXCEPT !.easy = "attached"]]
             /\ transfer' = [transfer EXCEPT ![j] = [NoTransfer EXCEPT !.phase = "running"]]
             /\ UNCHANGED queueVars

ShouldRetryStatus(http) == http \in {"429", "5xx"}

\* Mutant: a redirect counts as a success.
IsSuccessOrRedirect(http) == http \in {"2xx", "3xx"}
IsSuccess(http) == http = "2xx"

\* Mutant: a curl code leaks out as the status.
HandleTransportFailureRaw(j, s, code, canRetry) ==
  IF canRetry THEN ScheduleRetry(j, s) ELSE Finish(j, s, code)

HandleTransportFailure(j, s, code, canRetry) ==
  CASE code = "ABORTED" -> Finish(j, s, "Cancelled")
    [] code \in {"WRITE_ERROR", "READ_ERROR"} -> Finish(j, s, "IoError")
    [] code \in {"TIMEDOUT", "OTHER"} /\ canRetry -> ScheduleRetry(j, s)
    [] code = "TIMEDOUT" /\ ~canRetry -> Finish(j, s, "Timeout")
    [] code = "OTHER" /\ ~canRetry -> Finish(j, s, "NetworkError")

\* FinalizeDownload renames the .part file, which may fail.
HandleHttpSuccess(j, s) ==
  \/ Finish(j, s, "Ok")
  \/ s.op = "Get" /\ Finish(j, s, "IoError")

HandleHttpFailure(j, s, canRetry) ==
  IF ShouldRetryStatus(s.httpStatus) /\ canRetry
  THEN ScheduleRetry(j, s)
  ELSE Finish(j, s, "HttpError")

\* Mutant: one attempt too many.
CanRetryOnceMore(s) == s.attempt <= MaxRetries + 1
CanRetry(s) == s.attempt <= MaxRetries

OnAttemptDone(j, code) ==
  LET s == Released([job[j] EXCEPT !.httpStatus = transfer[j].http])
  IN /\ ReleaseTransfer(j)
     /\ IF s.cancelRequested
        THEN Finish(j, s, "Cancelled")
        ELSE IF code # "OK"
             THEN HandleTransportFailure(j, s, code, CanRetry(s))
             ELSE IF IsSuccess(s.httpStatus)
                  THEN HandleHttpSuccess(j, s)
                  ELSE HandleHttpFailure(j, s, CanRetry(s))

\* Cancel raises m_cancelRequested before it releases the handle, so the progress
\* callback libcurl may still run then aborts without posting.
CancelJob(j) ==
  /\ ReleaseTransfer(j)
  /\ Finish(j, Released([job[j] EXCEPT !.cancelRequested = TRUE]), "Cancelled")

\* The destructor closes the file and frees the handle, and posts nothing.
DestroyJobs(S) ==
  /\ job' = [j \in Jobs |-> IF j \in S THEN Released(job[j]) ELSE job[j]]
  /\ transfer' = [j \in Jobs |-> IF j \in S THEN [transfer[j] EXCEPT !.phase = "none"]
                                            ELSE transfer[j]]

-----------------------------------------------------------------------------
(***************************************************************************)
(* What curl_multi_perform may do with a handle it runs.                   *)
(***************************************************************************)

\* Response headers arrive.
CurlRespond(j, http) ==
  /\ transfer[j].phase = "running"
  /\ transfer[j].http = NoResponse
  /\ transfer' = [transfer EXCEPT ![j].http = http]
  /\ UNCHANGED <<job, queueVars>>

\* ProgressCallback: a streaming job reports that more bytes have moved.
CurlProgress(j) ==
  /\ transfer[j].phase = "running"
  /\ ~job[j].cancelRequested
  /\ job[j].op \in FileOps
  /\ job[j].lastProgress < MaxProgress - 1
  /\ job' = [job EXCEPT ![j].lastProgress = @ + 1]
  /\ Post(ProgressEvent(j))
  /\ UNCHANGED transfer

\* The transfer ends.  CURLE_OK needs a response, an abort a progress callback that
\* saw the cancellation, a write error a response body and a read error a request body.
CurlDone(j, code) ==
  /\ transfer[j].phase = "running"
  /\ code = "OK" => transfer[j].http # NoResponse
  /\ code = "ABORTED" => job[j].cancelRequested
  /\ code = "WRITE_ERROR" => job[j].op = "Get" /\ IsSuccess(transfer[j].http)
  /\ code = "READ_ERROR" => job[j].op = "Put"
  /\ transfer' = [transfer EXCEPT ![j].phase = "done", ![j].code = code]
  /\ UNCHANGED <<job, queueVars>>

-----------------------------------------------------------------------------
JobState ==
  [op : AllOps, easy : {"none", "created", "attached"}, file : BOOLEAN, attempt : Nat,
   waiting : BOOLEAN, finished : BOOLEAN, cancelRequested : BOOLEAN,
   httpStatus : HttpClasses \cup {NoResponse}, lastProgress : Int]

TransferState ==
  [phase : {"none", "running", "done"}, http : HttpClasses \cup {NoResponse},
   code : CurlCodes]

Event ==
  [kind : {"Complete", "Progress"}, job : Jobs, status : S3Status,
   http : HttpClasses \cup {NoResponse}]
=============================================================================
