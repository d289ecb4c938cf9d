--------------------------- MODULE TransferThread ---------------------------
(***************************************************************************)
(* The transfer thread (src/src/transfer_thread.cpp) and the calls the     *)
(* game thread makes on it.                                                *)
(*                                                                         *)
(* Two processes interleave.  The transfer thread goes round the loop of   *)
(* Run, one step per iteration of an inner loop; pc is the inner loop it   *)
(* is in.  The caller is the game thread: Enqueue and Cancel push under    *)
(* m_mutex and, in a later step, call curl_multi_wakeup; Stop clears       *)
(* m_running, wakes the loop, joins it and tears the jobs down.            *)
(*                                                                         *)
(* A job is owned by one unique_ptr, so one variable, place, says which    *)
(* container holds it.  The order of jobs inside m_incoming and m_active,  *)
(* and of ids inside m_cancelRequests, is abstracted: every iteration of a *)
(* loop touches one job only, and a second cancel of a job is a no-op.     *)
(* Time is abstracted: a retry may be due at any pass once it is waiting.  *)
(***************************************************************************)
EXTENDS S3Job

VARIABLES
  place,           \* [Jobs -> Places]
  cancelRequests,  \* m_cancelRequests
  cancelTaken,     \* Run's local cancelRequests
  wakeup,          \* the sticky wakeup of the multi handle (external)
  running,         \* m_running
  pc,              \* where the transfer thread is
  caller           \* where the game thread is inside this API

threadVars == <<place, cancelRequests, cancelTaken, wakeup, running, pc, caller>>
vars == <<queueVars, jobVars, threadVars>>

\* "admitting" is Run's local vector incoming.
Places == {"unused", "incoming", "admitting", "active", "destroyed"}
ThreadPCs == {"unborn", "top", "take", "admit", "cancel", "retry", "perform", "reap",
              "remove", "poll", "exited"}
CallerPCs == {"unstarted", "free", "waking", "stopWaking", "joining", "stopped"}

At(where) == {j \in Jobs : place[j] = where}

ThreadInit ==
  /\ QueueInit
  /\ JobInit
  /\ place = [j \in Jobs |-> "unused"]
  /\ cancelRequests = {}
  /\ cancelTaken = {}
  /\ wakeup = FALSE
  /\ running = FALSE
  /\ pc = "unborn"
  /\ caller = "unstarted"

-----------------------------------------------------------------------------
(***************************************************************************)
(* The transfer thread.                                                    *)
(***************************************************************************)

\* The thread leaves Post before it does anything else.
InLoop(where) == pc = where /\ posting = <<>>

GoTo(where) ==
  /\ pc' = where
  /\ UNCHANGED <<queueVars, jobVars, place, cancelRequests, cancelTaken, wakeup, running,
                 caller>>

FinishPost ==
  /\ CommitPost
  /\ UNCHANGED <<jobVars, threadVars>>

\* Mutant: the loop does not look at m_running.
LoopForever ==
  /\ InLoop("top")
  /\ GoTo("take")

CheckRunning ==
  /\ InLoop("top")
  /\ GoTo(IF running THEN "take" ELSE "exited")

\* Mutant: cancellations are applied before the jobs taken with them are admitted.
TakePendingCancelFirst ==
  /\ InLoop("take")
  /\ place' = [j \in Jobs |-> IF place[j] = "incoming" THEN "admitting" ELSE place[j]]
  /\ cancelTaken' = cancelRequests
  /\ cancelRequests' = {}
  /\ pc' = IF cancelRequests = {} THEN "admit" ELSE "cancel"
  /\ UNCHANGED <<queueVars, jobVars, wakeup, running, caller>>

\* Mutant: the cancellations swapped out are not handed to ApplyCancellations.
TakePendingLosingCancels ==
  /\ InLoop("take")
  /\ place' = [j \in Jobs |-> IF place[j] = "incoming" THEN "admitting" ELSE place[j]]
  /\ cancelRequests' = {}
  /\ pc' = "admit"
  /\ UNCHANGED <<queueVars, jobVars, cancelTaken, wakeup, running, caller>>

\* One critical section swaps both vectors out.
TakePending ==
  /\ InLoop("take")
  /\ place' = [j \in Jobs |-> IF place[j] = "incoming" THEN "admitting" ELSE place[j]]
  /\ cancelTaken' = cancelRequests
  /\ cancelRequests' = {}
  /\ pc' = "admit"
  /\ UNCHANGED <<queueVars, jobVars, wakeup, running, caller>>

\* An attempt that fails at once leaves a finished job in m_active.
AdmitIncoming(j) ==
  /\ InLoop("admit")
  /\ place[j] = "admitting"
  /\ BeginAttempt(j)
  /\ place' = [place EXCEPT ![j] = "active"]
  /\ UNCHANGED <<cancelRequests, cancelTaken, wakeup, running, pc, caller>>

EndAdmit ==
  /\ InLoop("admit")
  /\ At("admitting") = {}
  /\ GoTo("cancel")

ApplyCancellation(j) ==
  /\ InLoop("cancel")
  /\ j \in cancelTaken
  /\ cancelTaken' = cancelTaken \ {j}
  /\ IF place[j] = "active" /\ ~job[j].finished
     THEN CancelJob(j)
     ELSE UNCHANGED <<queueVars, jobVars>>
  /\ UNCHANGED <<place, cancelRequests, wakeup, running, pc, caller>>

EndCancel ==
  /\ InLoop("cancel")
  /\ cancelTaken = {}
  /\ GoTo("retry")

StartDueRetry(j) ==
  /\ InLoop("retry")
  /\ place[j] = "active"
  /\ job[j].waiting
  /\ BeginAttempt(j)
  /\ UNCHANGED threadVars

EndRetry ==
  /\ InLoop("retry")
  /\ GoTo("perform")

\* curl_multi_perform calls back for any number of events of any handle it runs.
PerformData(j) ==
  /\ InLoop("perform")
  /\ (\E http \in Responses : CurlRespond(j, http)) \/ CurlProgress(j)
  /\ UNCHANGED threadVars

PerformDone(j) ==
  /\ InLoop("perform")
  /\ \E code \in CurlCodes : CurlDone(j, code)
  /\ UNCHANGED threadVars

EndPerform ==
  /\ InLoop("perform")
  /\ GoTo("reap")

\* CURLMSG_DONE messages are read until there is none.
ReapCompleted(j) ==
  /\ InLoop("reap")
  /\ transfer[j].phase = "done"
  /\ OnAttemptDone(j, transfer[j].code)
  /\ UNCHANGED threadVars

EndReap ==
  /\ InLoop("reap")
  /\ \A j \in Jobs : transfer[j].phase # "done"
  /\ GoTo("remove")

Removable == {j \in At("active") : job[j].finished}

RemoveFinished ==
  /\ InLoop("remove")
  /\ place' = [j \in Jobs |-> IF j \in Removable THEN "destroyed" ELSE place[j]]
  /\ DestroyJobs(Removable)
  /\ pc' = "poll"
  /\ UNCHANGED <<queueVars, cancelRequests, cancelTaken, wakeup, running, caller>>

\* curl_multi_poll returns on a wakeup, on socket activity, or after ComputeWaitMs.
PollReturn ==
  /\ InLoop("poll")
  /\ pc' = "top"
  /\ wakeup' = FALSE
  /\ UNCHANGED <<queueVars, jobVars, place, cancelRequests, cancelTaken, running, caller>>

ThreadNext ==
  \/ FinishPost \/ CheckRunning \/ TakePending
  \/ EndAdmit \/ EndCancel \/ EndRetry \/ EndPerform \/ EndReap
  \/ RemoveFinished \/ PollReturn
  \/ \E j \in Jobs : \/ AdmitIncoming(j) \/ ApplyCancellation(j) \/ StartDueRetry(j)
                     \/ PerformData(j) \/ PerformDone(j) \/ ReapCompleted(j)

-----------------------------------------------------------------------------
(***************************************************************************)
(* The game thread's calls.                                                *)
(***************************************************************************)

Start ==
  /\ caller = "unstarted"
  /\ caller' = "free"
  /\ running' = TRUE
  /\ pc' = "top"
  /\ UNCHANGED <<queueVars, jobVars, place, cancelRequests, cancelTaken, wakeup>>

\* Mutant: Enqueue does not wake the thread.
EnqueueSilently(j, op) ==
  /\ caller = "free"
  /\ place[j] = "unused"
  /\ place' = [place EXCEPT ![j] = "incoming"]
  /\ job' = [job EXCEPT ![j] = NewJob(op)]
  /\ UNCHANGED <<queueVars, transfer, cancelRequests, cancelTaken, wakeup, running, pc,
                 caller>>

Enqueue(j, op) ==
  /\ caller = "free"
  /\ place[j] = "unused"
  /\ place' = [place EXCEPT ![j] = "incoming"]
  /\ job' = [job EXCEPT ![j] = NewJob(op)]
  /\ caller' = "waking"
  /\ UNCHANGED <<queueVars, transfer, cancelRequests, cancelTaken, wakeup, running, pc>>

Cancel(j) ==
  /\ caller = "free"
  /\ cancelRequests' = cancelRequests \cup {j}
  /\ caller' = "waking"
  /\ UNCHANGED <<queueVars, jobVars, place, cancelTaken, wakeup, running, pc>>

Wakeup ==
  /\ caller \in {"waking", "stopWaking"}
  /\ caller' = IF caller = "waking" THEN "free" ELSE "joining"
  /\ wakeup' = TRUE
  /\ UNCHANGED <<queueVars, jobVars, place, cancelRequests, cancelTaken, running, pc>>

Stop ==
  /\ caller = "free"
  /\ running
  /\ running' = FALSE
  /\ caller' = "stopWaking"
  /\ UNCHANGED <<queueVars, jobVars, place, cancelRequests, cancelTaken, wakeup, pc>>

\* The loop of Stop after the join: Cancel each job that is still active.
StopCancel(j) ==
  /\ caller = "joining"
  /\ pc = "exited"
  /\ posting = <<>>
  /\ place[j] = "active"
  /\ ~job[j].cancelRequested
  /\ CancelJob(j)
  /\ UNCHANGED threadVars

\* m_active.clear and m_incoming.clear: a job never admitted is destroyed unfinished.
StopClear ==
  /\ caller = "joining"
  /\ pc = "exited"
  /\ posting = <<>>
  /\ \A j \in At("active") : job[j].cancelRequested
  /\ caller' = "stopped"
  /\ LET dead == At("active") \cup At("incoming")
     IN /\ place' = [j \in Jobs |-> IF j \in dead THEN "destroyed" ELSE place[j]]
        /\ DestroyJobs(dead)
  /\ UNCHANGED <<queueVars, cancelRequests, cancelTaken, wakeup, running, pc>>

-----------------------------------------------------------------------------
(***************************************************************************)
(* The component on its own: the game thread makes any legal sequence of   *)
(* calls, drains the queue between them, and shuts down the way            *)
(* SDK_OnUnload does, disabling the queue before it stops the thread.      *)
(***************************************************************************)

Submit(j) == enabled /\ \E op \in Ops : Enqueue(j, op)

RequestCancel(j) == enabled /\ place[j] # "unused" /\ Cancel(j)

GameFrame ==
  /\ caller = "free"
  /\ hasEvents
  /\ Drain
  /\ UNCHANGED <<jobVars, threadVars>>

DisableQueue ==
  /\ caller = "free"
  /\ enabled
  /\ SetEnabled(FALSE)
  /\ UNCHANGED <<jobVars, threadVars>>

Shutdown == ~enabled /\ Stop

Stopped == caller = "stopped" /\ UNCHANGED vars

CallerNext ==
  \/ Start \/ Wakeup \/ GameFrame \/ DisableQueue \/ Shutdown \/ StopClear \/ Stopped
  \/ \E j \in Jobs : Submit(j) \/ RequestCancel(j) \/ StopCancel(j)

ThreadSpecNext == ThreadNext \/ CallerNext

ThreadSafetySpec == ThreadInit /\ [][ThreadSpecNext]_vars

\* Both threads are scheduled, and a call that has begun returns.  Nothing is assumed
\* of the network, nor that anyone calls.
ControlFairness ==
  /\ WF_vars(ThreadNext)
  /\ WF_vars(Wakeup)
  /\ WF_vars(StopClear \/ \E j \in Jobs : StopCancel(j))

\* libcurl's connect and stall timeouts end every transfer, and time passes every
\* retry deadline.
NetworkFairness ==
  \A j \in Jobs : SF_vars(PerformDone(j)) /\ SF_vars(StartDueRetry(j))

ControlSpec == ThreadSafetySpec /\ ControlFairness

-----------------------------------------------------------------------------
(***************************************************************************)
(* TransferThread implements TransferService.                              *)
(***************************************************************************)

PhaseOf(j) ==
  CASE place[j] = "unused" -> "unused"
    [] place[j] # "unused" /\ job[j].finished -> "ended"
    [] place[j] = "destroyed" /\ ~job[j].finished -> "lost"
    [] OTHER -> "live"

ModeOf ==
  CASE caller = "unstarted" -> "down"
    [] caller \in {"free", "waking"} -> "up"
    [] caller \in {"stopWaking", "joining"} -> "stopping"
    [] caller = "stopped" -> "stopped"

\* The service's events say nothing of HTTP.
Plain(q) == [i \in DOMAIN q |-> [kind |-> q[i].kind, job |-> q[i].job, status |-> q[i].status]]

Service == INSTANCE TransferService WITH
  Outcomes <- S3Status \ {"Cancelled"},
  events <- Plain(events),
  posting <- Plain(posting),
  phase <- [j \in Jobs |-> PhaseOf(j)],
  asked <- cancelRequests \cup cancelTaken,
  mode <- ModeOf

-----------------------------------------------------------------------------
(***************************************************************************)
(* Correctness.                                                            *)
(***************************************************************************)

ThreadTypeOK ==
  /\ events \in Seq(Event)
  /\ posting \in {<<>>} \cup {<<e>> : e \in Event}
  /\ hasEvents \in BOOLEAN /\ enabled \in BOOLEAN
  /\ job \in [Jobs -> JobState]
  /\ transfer \in [Jobs -> TransferState]
  /\ place \in [Jobs -> Places]
  /\ cancelRequests \subseteq Jobs
  /\ cancelTaken \subseteq Jobs
  /\ wakeup \in BOOLEAN /\ running \in BOOLEAN
  /\ pc \in ThreadPCs
  /\ caller \in CallerPCs

\* A job in m_active is finished, or its handle is in the multi handle, or it waits for
\* its retry, and never two of these: a job that is none of them would never be looked
\* at again and its callback would never run.  Once the thread sleeps in
\* curl_multi_poll no finished job is left behind.
NoStrandedJob ==
  \A j \in At("active") :
    LET attached == job[j].easy = "attached"
    IN /\ job[j].finished \/ attached \/ job[j].waiting
       /\ ~(job[j].finished /\ attached)
       /\ ~(job[j].waiting /\ (attached \/ job[j].finished))
       /\ pc = "poll" => ~job[j].finished

\* The multi handle runs, and reports, handles of live jobs only: ReapCompleted follows
\* CURLINFO_PRIVATE to a job that is still in m_active and still wants the result.
ReapsLiveJobs ==
  \A j \in Jobs :
    transfer[j].phase # "none" <=> /\ job[j].easy = "attached"
                                  /\ place[j] = "active"
                                  /\ ~job[j].finished

\* The events of a job end with its Complete: no second Complete and no late Progress
\* follows it, whatever mix of retries, cancellations and shutdown produced it.
CompleteIsLast ==
  \A i \in DOMAIN Stream :
    Stream[i].kind = "Complete" =>
      \A k \in DOMAIN Stream : k > i => Stream[k].job # Stream[i].job

\* When ApplyCancellations looks for a job, the job is where it looks: a Cancel that
\* follows its Enqueue never finds the job still in a queue of incoming jobs.
CancelFindsJob ==
  pc = "cancel" =>
    \A j \in cancelTaken : /\ place[j] \in {"active", "destroyed"}
                           /\ place[j] = "destroyed" => job[j].finished

\* The thread never sleeps on work it was given: while it polls, a pending job, a
\* pending cancellation or a stop request comes with a wakeup, sent or about to be.
NoMissedWakeup ==
  pc = "poll" /\ (At("incoming") # {} \/ cancelRequests # {} \/ ~running) =>
    wakeup \/ caller \in {"waking", "stopWaking"}

\* "Retries per request": at most MaxRetries attempts follow the first, and a negative
\* setting means none.
RetryBudget ==
  \A j \in Jobs : job[j].attempt <= 1 + (IF MaxRetries > 0 THEN MaxRetries ELSE 0)

\* A completion tells what the last attempt met: Ok only after a 2xx answer, HttpError
\* only after another answer, and a retryable answer or a stall only once the budget is
\* spent.
OutcomeJustified ==
  \A i \in DOMAIN Stream :
    LET e == Stream[i]
        t == transfer[e.job]
    IN e.kind = "Complete" =>
         CASE e.status = "Ok" -> t.code = "OK" /\ t.http = "2xx"
           [] e.status = "HttpError" ->
                /\ t.code = "OK" /\ t.http \notin {"2xx", NoResponse}
                /\ ShouldRetryStatus(t.http) => ~CanRetry(job[e.job])
           [] e.status = "Timeout" -> t.code = "TIMEDOUT" /\ ~CanRetry(job[e.job])
           [] e.status = "Cancelled" -> job[e.job].cancelRequested
           [] OTHER -> TRUE

\* pawn/scripting/include/s3.inc:27: a completion reports the "HTTP status code of the last
\* attempt, or 0 if no response was received", however the attempt ended.
ReportsHttpStatus ==
  \A i \in DOMAIN Stream :
    Stream[i].kind = "Complete" => Stream[i].http = transfer[Stream[i].job].http

\* A stream to or from disk is open exactly while its transfer is attached, or until the
\* job that failed to attach is destroyed: no attempt leaks the previous one's FILE.
FilesFollowTransfers ==
  \A j \in Jobs :
    /\ job[j].easy = "attached" => (job[j].file <=> job[j].op \in FileOps)
    /\ job[j].file /\ job[j].easy # "attached" => job[j].finished /\ place[j] = "active"

\* Every admitted request ends and is freed, stalls, retries and shutdown included, if the
\* network lets every transfer end.
EveryJobEnds ==
  NetworkFairness => \A j \in Jobs : place[j] = "incoming" ~> place[j] = "destroyed"

\* A cancellation ends its job whatever the network does.
CancelTakesEffect ==
  \A j \in Jobs : j \in cancelRequests ~> (job[j].finished \/ caller = "stopped")

\* Stop returns whatever the network does.
StopReturns == caller = "stopWaking" ~> caller = "stopped"

\* Each step of the thread and of its callers is a step of the service or none at all:
\* one completion per request, events in order and never after it, and a cancellation
\* that is dropped only when its request has already ended.
ImplementsService == Service!ServiceSafety

\* And if the network lets every transfer end, it keeps the service's liveness promises.
KeepsServiceFairness == NetworkFairness => Service!ServiceFairness
=============================================================================
