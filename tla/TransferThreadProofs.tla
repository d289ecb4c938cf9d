------------------------ MODULE TransferThreadProofs ------------------------
(***************************************************************************)
(* Safety of the transfer thread for any number of jobs, any set of        *)
(* operations and answers, and any retry setting.                          *)
(***************************************************************************)
EXTENDS TransferThread, SequenceTheorems, TLAPS

QueueTypeOK ==
  /\ events \in Seq(Event)
  /\ posting \in {<<>>} \cup {<<e>> : e \in Event}
  /\ hasEvents \in BOOLEAN /\ enabled \in BOOLEAN

Budget == 1 + (IF MaxRetries > 0 THEN MaxRetries ELSE 0)

\* A job that BeginAttempt has not seen yet.
Fresh(s, t) ==
  /\ s.easy = "none" /\ t.phase = "none"
  /\ ~s.finished /\ ~s.waiting /\ ~s.file /\ s.attempt = 0

\* A job in m_active, between two steps of the thread.
Settled(s, t) ==
  /\ s.finished \/ s.easy = "attached" \/ s.waiting
  /\ ~(s.finished /\ s.easy = "attached")
  /\ ~(s.waiting /\ s.finished)
  /\ t.phase # "none" <=> s.easy = "attached"
  /\ s.waiting => s.easy = "none" /\ s.attempt <= MaxRetries
  /\ s.attempt <= Budget
  /\ s.easy = "attached" => (s.file <=> s.op \in FileOps)
  /\ s.file /\ s.easy # "attached" => s.finished

\* What is left of a job whose unique_ptr is gone.
Dead(s, t) ==
  /\ s.easy = "none" /\ t.phase = "none" /\ ~s.file
  /\ s.attempt <= Budget

Lifecycle ==
  \A j \in Jobs :
    /\ place[j] \in {"unused", "incoming", "admitting"} => Fresh(job[j], transfer[j])
    /\ place[j] = "active" => Settled(job[j], transfer[j])
    /\ place[j] = "destroyed" => Dead(job[j], transfer[j])

\* The two local vectors of Run hold something only in the loops that empty them, and a
\* cancellation never overtakes the job it names.
Handover ==
  /\ \A j \in Jobs : place[j] = "admitting" => pc = "admit"
  /\ cancelTaken # {} => pc \in {"admit", "cancel"}
  /\ \A j \in cancelRequests : place[j] # "unused"
  /\ \A j \in cancelTaken : place[j] \in {"admitting", "active", "destroyed"}
  /\ \A j \in Jobs : place[j] = "destroyed" => job[j].finished \/ caller = "stopped"
  /\ pc = "poll" => \A j \in At("active") : ~job[j].finished

\* The life of the thread object.
RunState ==
  /\ running <=> caller \in {"free", "waking"}
  /\ pc = "unborn" <=> caller = "unstarted"
  /\ caller = "stopped" => pc = "exited"

\* From the moment the thread has taken its work, newer work comes with a wakeup.
WakeupInv ==
  LET signalled == wakeup \/ caller \in {"waking", "stopWaking"}
  IN /\ pc \in {"admit", "cancel", "retry", "perform", "reap", "remove", "poll"}
          /\ (At("incoming") # {} \/ cancelRequests # {}) => signalled
     /\ pc \notin {"unborn", "top", "exited"} /\ ~running => signalled

\* The inductive invariant.
ThreadInv == ThreadTypeOK /\ Lifecycle /\ Handover /\ RunState /\ WakeupInv

-----------------------------------------------------------------------------
(***************************************************************************)
(* What the operations of a job do to its record.                          *)
(***************************************************************************)

\* Post accepts any event of the type and keeps the queue's type.
LEMMA PostType ==
  ASSUME QueueTypeOK, NEW e \in Event, Post(e)
  PROVE  QueueTypeOK'
BY DEF QueueTypeOK, Post

\* Completions and progress reports of a job are events.
LEMMA EventTypes ==
  ASSUME NEW j \in Jobs, NEW status \in S3Status,
         NEW http \in HttpClasses \cup {NoResponse}
  PROVE  CompleteEvent(j, status, http) \in Event /\ ProgressEvent(j) \in Event
BY DEF CompleteEvent, ProgressEvent, Event, S3Status, NoResponse

\* The record of job j becomes one that satisfies the predicate the caller needs.
Becomes(j, s) == job' = [job EXCEPT ![j] = s]

\* Finish keeps the queue's type and leaves a finished record that differs in nothing
\* else from the one it was given, apart from no longer waiting.
LEMMA FinishEffect ==
  ASSUME QueueTypeOK, NEW j \in Jobs, NEW s \in JobState, NEW status \in S3Status,
         Finish(j, s, status), ~s.finished
  PROVE  /\ QueueTypeOK'
         /\ Becomes(j, [s EXCEPT !.finished = TRUE, !.waiting = FALSE])
         /\ [s EXCEPT !.finished = TRUE, !.waiting = FALSE] \in JobState
<1>1. Post(CompleteEvent(j, status, s.httpStatus))
  BY DEF Finish
<1>2. CompleteEvent(j, status, s.httpStatus) \in Event
  BY EventTypes DEF JobState
<1>3. QueueTypeOK'
  BY <1>1, <1>2, PostType
<1>4. QED
  BY <1>3 DEF Finish, Becomes, JobState

\* BeginAttempt, on a job that is new or due, leaves it settled: attached to the multi
\* handle, or finished by whichever step of the set-up failed.
LEMMA BeginAttemptEffect ==
  ASSUME QueueTypeOK, NEW j \in Jobs, job[j] \in JobState, transfer[j] \in TransferState,
         ~job[j].finished, job[j].easy = "none", ~job[j].file,
         job[j].attempt + 1 <= Budget,
         BeginAttempt(j)
  PROVE  /\ QueueTypeOK'
         /\ \E s \in JobState, t \in TransferState :
              /\ Settled(s, t)
              /\ Becomes(j, s)
              /\ transfer' = [transfer EXCEPT ![j] = t]
<1> DEFINE s == ResetAttemptState([job[j] EXCEPT !.attempt = @ + 1])
           created == [s EXCEPT !.easy = "created"]
           opened == [created EXCEPT !.file = s.op \in FileOps]
           Fail(t, status) == /\ Finish(j, t, status)
                              /\ transfer' = [transfer EXCEPT ![j] = NoTransfer]
<1>1. /\ s \in JobState /\ ~s.finished /\ s.easy = "none" /\ ~s.waiting /\ ~s.file
      /\ s.attempt <= Budget
  <2> DEFINE r == [job[j] EXCEPT !.attempt = @ + 1]
  <2>1. /\ r \in JobState /\ ~r.finished /\ r.easy = "none" /\ ~r.file
        /\ r.attempt <= Budget
    BY DEF JobState
  <2>2. s = [r EXCEPT !.httpStatus = NoResponse, !.lastProgress = -1, !.waiting = FALSE]
    BY DEF ResetAttemptState
  <2>3. NoResponse \in HttpClasses \cup {NoResponse} /\ -1 \in Int
    OBVIOUS
  <2> DEFINE r1 == [r EXCEPT !.httpStatus = NoResponse]
             r2 == [r1 EXCEPT !.lastProgress = -1]
  <2>4. /\ r1 \in JobState /\ ~r1.finished /\ r1.easy = "none" /\ ~r1.file
        /\ r1.attempt <= Budget
    BY <2>1, <2>3 DEF JobState
  <2>5. /\ r2 \in JobState /\ ~r2.finished /\ r2.easy = "none" /\ ~r2.file
        /\ r2.attempt <= Budget
    BY <2>3, <2>4 DEF JobState
  <2>6. s = [r2 EXCEPT !.waiting = FALSE]
    BY <2>2
  <2> HIDE DEF r, r1, r2, s
  <2>7. QED
    BY <2>5, <2>6 DEF JobState
<1>2. /\ created \in JobState /\ ~created.finished /\ ~created.file
      /\ created.attempt <= Budget /\ created.easy = "created"
  BY <1>1 DEF JobState
<1>3. /\ opened \in JobState /\ ~opened.finished /\ opened.attempt <= Budget
      /\ opened.easy = "created"
  <2> DEFINE streams == s.op \in FileOps
  <2>1. streams \in BOOLEAN
    OBVIOUS
  <2>2. opened = [created EXCEPT !.file = streams]
    OBVIOUS
  <2> HIDE DEF created, opened, streams
  <2>3. QED
    BY <1>2, <2>1, <2>2 DEF JobState
<1>4. NoTransfer \in TransferState /\ NoTransfer.phase = "none"
  BY DEF NoTransfer, TransferState, NoResponse, CurlCodes
<1>5. ASSUME NEW t \in JobState, NEW status \in S3Status,
             ~t.finished, t.attempt <= Budget, t.easy # "attached", Fail(t, status)
      PROVE  /\ QueueTypeOK'
             /\ \E u \in JobState, v \in TransferState :
                  /\ Settled(u, v)
                  /\ Becomes(j, u)
                  /\ transfer' = [transfer EXCEPT ![j] = v]
  <2> DEFINE u == [t EXCEPT !.finished = TRUE, !.waiting = FALSE]
  <2>1. QueueTypeOK' /\ Becomes(j, u) /\ u \in JobState
    BY <1>5, FinishEffect
  <2>2. Settled(u, NoTransfer)
    BY <1>4, <1>5 DEF Settled, JobState
  <2>3. QED
    BY <1>4, <1>5, <2>1, <2>2
<1>6. CASE s.cancelRequested
  BY <1>1, <1>5, <1>6 DEF BeginAttempt, S3Status
<1>7. CASE ~s.cancelRequested
  <2>1. CASE Fail(s, "NetworkError")
    BY <1>1, <1>5, <2>1 DEF S3Status
  <2>2. CASE s.op \in FileOps /\ Fail(created, "IoError")
    BY <1>2, <1>5, <2>2 DEF S3Status
  <2>3. CASE Fail(opened, "NetworkError")
    BY <1>3, <1>5, <2>3 DEF S3Status
  <2>4. CASE /\ job' = [job EXCEPT ![j] = [opened EXCEPT !.easy = "attached"]]
             /\ transfer' = [transfer EXCEPT ![j] = [NoTransfer EXCEPT !.phase = "running"]]
             /\ UNCHANGED queueVars
    <3> DEFINE u == [opened EXCEPT !.easy = "attached"]
               v == [NoTransfer EXCEPT !.phase = "running"]
    <3>1. u \in JobState /\ v \in TransferState
      BY <1>3, <1>4 DEF JobState, TransferState
    <3>2. Settled(u, v)
      BY <1>1, <1>3 DEF Settled, JobState, NoTransfer
    <3>3. QueueTypeOK'
      BY <2>4 DEF QueueTypeOK, queueVars
    <3>4. QED
      BY <2>4, <3>1, <3>2, <3>3 DEF Becomes
  <2>5. QED
    BY <1>7, <2>1, <2>2, <2>3, <2>4 DEF BeginAttempt
<1>8. QED
  BY <1>6, <1>7

\* OnAttemptDone, on a settled job whose transfer is over, leaves it settled: finished, or
\* waiting with an attempt to spare.
LEMMA OnAttemptDoneEffect ==
  ASSUME JobAssumption, QueueTypeOK, NEW j \in Jobs, job[j] \in JobState,
         transfer[j] \in TransferState,
         Settled(job[j], transfer[j]), transfer[j].phase = "done",
         OnAttemptDone(j, transfer[j].code)
  PROVE  /\ QueueTypeOK'
         /\ \E s \in JobState, t \in TransferState :
              /\ Settled(s, t)
              /\ Becomes(j, s)
              /\ transfer' = [transfer EXCEPT ![j] = t]
<1> DEFINE s == Released([job[j] EXCEPT !.httpStatus = transfer[j].http])
           t == [transfer[j] EXCEPT !.phase = "none"]
           Goal == /\ QueueTypeOK'
                   /\ \E u \in JobState, v \in TransferState :
                        /\ Settled(u, v)
                        /\ Becomes(j, u)
                        /\ transfer' = [transfer EXCEPT ![j] = v]
<1>1. /\ s \in JobState /\ ~s.finished /\ ~s.waiting /\ ~s.file /\ s.easy = "none"
      /\ s.attempt <= Budget
  BY DEF Settled, Released, JobState, TransferState
<1>2. t \in TransferState /\ t.phase = "none" /\ transfer' = [transfer EXCEPT ![j] = t]
  BY DEF OnAttemptDone, ReleaseTransfer, TransferState
<1>3. ASSUME NEW status \in S3Status, Finish(j, s, status)
      PROVE  Goal
  <2> DEFINE u == [s EXCEPT !.finished = TRUE, !.waiting = FALSE]
  <2>1. QueueTypeOK' /\ Becomes(j, u) /\ u \in JobState
    BY <1>1, <1>3, FinishEffect
  <2>2. Settled(u, t)
    BY <1>1, <1>2 DEF Settled, JobState
  <2>3. QED
    BY <1>2, <2>1, <2>2
<1>4. ASSUME ScheduleRetry(j, s), CanRetry(s)
      PROVE  Goal
  <2> DEFINE u == [s EXCEPT !.waiting = TRUE]
  <2>1. QueueTypeOK' /\ Becomes(j, u) /\ u \in JobState
    BY <1>1, <1>4 DEF ScheduleRetry, QueueTypeOK, queueVars, Becomes, JobState
  <2>2. Settled(u, t)
    BY <1>1, <1>2, <1>4 DEF Settled, JobState, CanRetry
  <2>3. QED
    BY <1>2, <2>1, <2>2
<1>5. CASE s.cancelRequested
  BY <1>3, <1>5 DEF OnAttemptDone, S3Status
<1>6. CASE ~s.cancelRequested /\ transfer[j].code # "OK"
  <2>1. HandleTransportFailure(j, s, transfer[j].code, CanRetry(s))
    BY <1>6 DEF OnAttemptDone
  <2>2. transfer[j].code \in CurlCodes
    BY DEF TransferState
  <2>3. QED
    BY <1>3, <1>4, <1>6, <2>1, <2>2 DEF HandleTransportFailure, CurlCodes, S3Status
<1>7. CASE ~s.cancelRequested /\ transfer[j].code = "OK"
  <2>1. CASE IsSuccess(s.httpStatus)
    BY <1>3, <1>7, <2>1 DEF OnAttemptDone, HandleHttpSuccess, S3Status
  <2>2. CASE ~IsSuccess(s.httpStatus)
    BY <1>3, <1>4, <1>7, <2>2 DEF OnAttemptDone, HandleHttpFailure, S3Status
  <2>3. QED
    BY <2>1, <2>2
<1>8. QED
  BY <1>5, <1>6, <1>7

\* Cancel leaves an unfinished job finished and off the multi handle.
LEMMA CancelEffect ==
  ASSUME QueueTypeOK, NEW j \in Jobs, job[j] \in JobState, transfer[j] \in TransferState,
         ~job[j].finished, job[j].attempt <= Budget, CancelJob(j)
  PROVE  /\ QueueTypeOK'
         /\ \E s \in JobState, t \in TransferState :
              /\ Settled(s, t) /\ s.finished
              /\ Becomes(j, s)
              /\ transfer' = [transfer EXCEPT ![j] = t]
<1> DEFINE s == Released([job[j] EXCEPT !.cancelRequested = TRUE])
           t == [transfer[j] EXCEPT !.phase = "none"]
           u == [s EXCEPT !.finished = TRUE, !.waiting = FALSE]
<1>1. /\ s \in JobState /\ ~s.finished /\ ~s.file /\ s.easy = "none"
      /\ s.attempt <= Budget
  BY DEF Released, JobState
<1>2. t \in TransferState /\ t.phase = "none" /\ transfer' = [transfer EXCEPT ![j] = t]
  BY DEF CancelJob, ReleaseTransfer, TransferState
<1>3. QueueTypeOK' /\ Becomes(j, u) /\ u \in JobState
  <2>1. Finish(j, s, "Cancelled")
    BY DEF CancelJob
  <2>2. QED
    BY <1>1, <2>1, FinishEffect DEF S3Status
<1>4. Settled(u, t) /\ u.finished
  BY <1>1, <1>2 DEF Settled, JobState
<1>5. QED
  BY <1>2, <1>3, <1>4

-----------------------------------------------------------------------------
(***************************************************************************)
(* The inductive invariant.                                                *)
(***************************************************************************)

\* The initial state satisfies the inductive invariant.
LEMMA InitInv == ThreadInit => ThreadInv
<1> SUFFICES ASSUME ThreadInit PROVE ThreadInv
  OBVIOUS
<1> USE DEF ThreadInit, QueueInit, JobInit
<1>1. (CHOOSE op \in Ops : TRUE) \in AllOps
  BY JobAssumption
<1>2. NewJob(CHOOSE op \in Ops : TRUE) \in JobState
  BY <1>1 DEF NewJob, JobState, NoResponse
<1>3. NoTransfer \in TransferState
  BY DEF NoTransfer, TransferState, NoResponse, CurlCodes
<1>4. ThreadTypeOK
  <2>1. job \in [Jobs -> JobState] /\ transfer \in [Jobs -> TransferState]
    BY <1>2, <1>3
  <2>2. events \in Seq(Event) /\ place \in [Jobs -> Places]
    BY DEF Places
  <2>3. QED
    BY <2>1, <2>2 DEF ThreadTypeOK, ThreadPCs, CallerPCs
<1>5. Lifecycle
  BY DEF Lifecycle, Fresh, NewJob, NoTransfer
<1>6. Handover /\ RunState /\ WakeupInv
  BY DEF Handover, RunState, WakeupInv, At
<1>7. QED
  BY <1>4, <1>5, <1>6 DEF ThreadInv

\* A step that only rewrites the record and the transfer of one active job keeps the
\* invariant, provided it leaves the job settled and finishes none while the thread polls.
LEMMA ActiveJobStep ==
  ASSUME ThreadInv, NEW j \in Jobs, place[j] = "active",
         NEW s \in JobState, NEW t \in TransferState,
         Settled(s, t), s.finished => pc # "poll",
         QueueTypeOK', Becomes(j, s), transfer' = [transfer EXCEPT ![j] = t],
         UNCHANGED threadVars
  PROVE  ThreadInv'
<1> USE DEF ThreadInv, threadVars
<1>1. ThreadTypeOK'
  BY DEF ThreadTypeOK, QueueTypeOK, Becomes
<1>2. /\ job'[j] = s /\ transfer'[j] = t
      /\ \A k \in Jobs \ {j} : job'[k] = job[k] /\ transfer'[k] = transfer[k]
  BY DEF ThreadTypeOK, Becomes
<1>3. Lifecycle'
  BY <1>2 DEF Lifecycle
<1>4. Handover'
  BY <1>2 DEF Handover, At
<1>5. RunState' /\ WakeupInv'
  BY DEF RunState, WakeupInv, At
<1>6. QED
  BY <1>1, <1>3, <1>4, <1>5

\* A step of the caller, or of the thread's own control, that touches neither jobs nor
\* the queue keeps the typing of both and the lifecycle.
LEMMA ControlStep ==
  ASSUME ThreadInv, UNCHANGED <<queueVars, jobVars, place>>
  PROVE  QueueTypeOK' /\ Lifecycle'
BY DEF ThreadInv, ThreadTypeOK, QueueTypeOK, queueVars, jobVars, Lifecycle

\* Every step of the thread keeps the invariant.
LEMMA ThreadNextInv ==
  ASSUME ThreadInv, ThreadNext
  PROVE  ThreadInv'
<1> USE DEF ThreadInv
<1>0. JobAssumption /\ ThreadTypeOK /\ QueueTypeOK /\ posting \in {<<>>} \cup {<<e>> : e \in Event}
  BY JobAssumption DEF ThreadTypeOK, QueueTypeOK
<1>a. ASSUME NEW where \in ThreadPCs, NEW next \in ThreadPCs, InLoop(where), GoTo(next),
             <<where, next>> \in {<<"top", "take">>, <<"top", "exited">>, <<"admit", "cancel">>,
               <<"cancel", "retry">>, <<"retry", "perform">>, <<"perform", "reap">>,
               <<"reap", "remove">>},
             where = "top" => (running <=> next = "take"),
             where = "admit" => At("admitting") = {},
             where = "cancel" => cancelTaken = {}
      PROVE  ThreadInv'
  <2> USE <1>a DEF GoTo, InLoop
  <2>1. QueueTypeOK' /\ Lifecycle'
    BY ControlStep
  <2>2. ThreadTypeOK'
    BY <2>1 DEF ThreadTypeOK, QueueTypeOK, jobVars
  <2>3. Handover'
    BY DEF Handover, At, jobVars
  <2>4. RunState'
    BY DEF RunState
  <2>5. WakeupInv'
    BY DEF WakeupInv, At
  <2>6. QED
    BY <2>1, <2>2, <2>3, <2>4, <2>5
<1>1. CASE FinishPost
  <2>1. QueueTypeOK'
    BY <1>0, <1>1 DEF FinishPost, CommitPost, QueueTypeOK
  <2>2. UNCHANGED <<jobVars, threadVars>>
    BY <1>1 DEF FinishPost
  <2>3. QED
    BY <2>1, <2>2 DEF jobVars, threadVars, ThreadTypeOK, QueueTypeOK, Lifecycle, Handover,
                      RunState, WakeupInv, At
<1>2. CASE CheckRunning
  <2>1. CASE running
    BY <1>a, <1>2, <2>1 DEF CheckRunning, ThreadPCs
  <2>2. CASE ~running
    BY <1>a, <1>2, <2>2 DEF CheckRunning, ThreadPCs
  <2>3. QED
    BY <2>1, <2>2
<1>3. CASE TakePending
  <2> USE <1>3 DEF TakePending, InLoop
  <2>1. ThreadTypeOK'
    BY DEF ThreadTypeOK, queueVars, jobVars, Places, ThreadPCs
  <2>2. Lifecycle'
    BY DEF Lifecycle, jobVars, ThreadTypeOK
  <2>3. Handover'
    BY DEF Handover, At, jobVars, ThreadTypeOK, Places
  <2>4. RunState' /\ WakeupInv'
    BY DEF RunState, WakeupInv, At, ThreadTypeOK
  <2>5. QED
    BY <2>1, <2>2, <2>3, <2>4
<1>4. CASE EndAdmit
  BY <1>a, <1>4 DEF EndAdmit, ThreadPCs
<1>5. CASE EndCancel
  BY <1>a, <1>5 DEF EndCancel, ThreadPCs
<1>6. CASE EndRetry
  BY <1>a, <1>6 DEF EndRetry, ThreadPCs
<1>7. CASE EndPerform
  BY <1>a, <1>7 DEF EndPerform, ThreadPCs
<1>8. CASE EndReap
  BY <1>a, <1>8 DEF EndReap, ThreadPCs
<1>9. CASE RemoveFinished
  <2> USE <1>9 DEF RemoveFinished, InLoop, DestroyJobs, Removable, At
  <2>1. ThreadTypeOK'
    <3>1. \A k \in Jobs : Released(job[k]) \in JobState
      BY DEF ThreadTypeOK, Released, JobState
    <3>2. \A k \in Jobs : [transfer[k] EXCEPT !.phase = "none"] \in TransferState
      BY DEF ThreadTypeOK, TransferState
    <3>3. job' \in [Jobs -> JobState] /\ transfer' \in [Jobs -> TransferState]
      BY <3>1, <3>2 DEF ThreadTypeOK
    <3>4. place' \in [Jobs -> Places]
      BY DEF ThreadTypeOK, Places
    <3>5. QED
      BY <3>3, <3>4 DEF ThreadTypeOK, queueVars, ThreadPCs
  <2>2. \A k \in Jobs : k \notin Removable =>
           job'[k] = job[k] /\ transfer'[k] = transfer[k] /\ place'[k] = place[k]
    BY DEF ThreadTypeOK
  <2>3. \A k \in Removable :
           place'[k] = "destroyed" /\ Dead(job'[k], transfer'[k]) /\ job'[k].finished
    <3> SUFFICES ASSUME NEW k \in Removable
                 PROVE  place'[k] = "destroyed" /\ Dead(job'[k], transfer'[k]) /\ job'[k].finished
      OBVIOUS
    <3>1. /\ place'[k] = "destroyed" /\ job'[k] = Released(job[k])
          /\ transfer'[k] = [transfer[k] EXCEPT !.phase = "none"]
      BY DEF ThreadTypeOK
    <3>2. /\ job[k] \in JobState /\ transfer[k] \in TransferState
          /\ job[k].finished /\ job[k].attempt <= Budget
      BY DEF ThreadTypeOK, Lifecycle, Settled
    <3>3. QED
      BY <3>1, <3>2 DEF Dead, Released, JobState, TransferState
  <2>4. Lifecycle'
    BY <2>2, <2>3 DEF Lifecycle
  <2>5. Handover'
    BY <2>2, <2>3 DEF Handover, ThreadTypeOK
  <2>6. RunState' /\ WakeupInv'
    BY <2>2, <2>3 DEF RunState, WakeupInv
  <2>7. QED
    BY <2>1, <2>4, <2>5, <2>6
<1>10. CASE PollReturn
  <2> USE <1>10 DEF PollReturn, InLoop
  <2>1. QueueTypeOK' /\ Lifecycle'
    BY ControlStep
  <2>2. ThreadTypeOK'
    BY <2>1 DEF ThreadTypeOK, QueueTypeOK, jobVars, ThreadPCs
  <2>3. Handover' /\ RunState' /\ WakeupInv'
    BY DEF Handover, RunState, WakeupInv, At, jobVars
  <2>4. QED
    BY <2>1, <2>2, <2>3
<1>11. ASSUME NEW j \in Jobs, AdmitIncoming(j)
       PROVE  ThreadInv'
  <2> USE <1>11 DEF AdmitIncoming, InLoop
  <2>1. Fresh(job[j], transfer[j]) /\ job[j] \in JobState /\ transfer[j] \in TransferState
    BY DEF Lifecycle, ThreadTypeOK
  <2>2. PICK s \in JobState, t \in TransferState :
           /\ QueueTypeOK'
           /\ Settled(s, t)
           /\ Becomes(j, s)
           /\ transfer' = [transfer EXCEPT ![j] = t]
    <3>1. job[j].attempt + 1 <= Budget
      BY <1>0, <2>1 DEF Fresh, Budget, JobAssumption
    <3>2. QED
      BY <1>0, <2>1, <3>1, BeginAttemptEffect DEF Fresh
  <2>3. /\ job'[j] = s /\ transfer'[j] = t /\ place'[j] = "active"
        /\ \A k \in Jobs \ {j} :
             job'[k] = job[k] /\ transfer'[k] = transfer[k] /\ place'[k] = place[k]
    BY <2>2 DEF ThreadTypeOK, Becomes
  <2>4. ThreadTypeOK'
    BY <2>2 DEF ThreadTypeOK, QueueTypeOK, Becomes, Places
  <2>5. Lifecycle'
    BY <2>2, <2>3 DEF Lifecycle
  <2>6. Handover'
    BY <2>3 DEF Handover, At
  <2>7. RunState' /\ WakeupInv'
    BY <2>3 DEF RunState, WakeupInv, At
  <2>8. QED
    BY <2>4, <2>5, <2>6, <2>7
<1>12. ASSUME NEW j \in Jobs, ApplyCancellation(j)
       PROVE  ThreadInv'
  <2> USE <1>12 DEF ApplyCancellation, InLoop
  <2>1. CASE place[j] = "active" /\ ~job[j].finished
    <3>1. PICK s \in JobState, t \in TransferState :
             /\ QueueTypeOK'
             /\ Settled(s, t) /\ s.finished
             /\ Becomes(j, s)
             /\ transfer' = [transfer EXCEPT ![j] = t]
      <4>1. job[j].attempt <= Budget /\ job[j] \in JobState /\ transfer[j] \in TransferState
        BY <2>1 DEF Lifecycle, Settled, ThreadTypeOK
      <4>2. QED
        BY <1>0, <2>1, <4>1, CancelEffect
    <3>2. /\ job'[j] = s /\ transfer'[j] = t
          /\ \A k \in Jobs \ {j} : job'[k] = job[k] /\ transfer'[k] = transfer[k]
      BY <3>1 DEF ThreadTypeOK, Becomes
    <3>3. ThreadTypeOK'
      BY <3>1 DEF ThreadTypeOK, QueueTypeOK, Becomes
    <3>4. Lifecycle'
      BY <2>1, <3>1, <3>2 DEF Lifecycle
    <3>5. Handover' /\ RunState' /\ WakeupInv'
      BY <2>1, <3>2 DEF Handover, RunState, WakeupInv, At
    <3>6. QED
      BY <3>3, <3>4, <3>5
  <2>2. CASE ~(place[j] = "active" /\ ~job[j].finished)
    <3>1. QueueTypeOK' /\ Lifecycle'
      BY <2>2, ControlStep
    <3>2. ThreadTypeOK'
      BY <2>2, <3>1 DEF ThreadTypeOK, QueueTypeOK, jobVars
    <3>3. Handover' /\ RunState' /\ WakeupInv'
      BY <2>2 DEF Handover, RunState, WakeupInv, At, jobVars
    <3>4. QED
      BY <3>1, <3>2, <3>3
  <2>3. QED
    BY <2>1, <2>2
<1>13. ASSUME NEW j \in Jobs, StartDueRetry(j)
       PROVE  ThreadInv'
  <2> USE <1>13 DEF StartDueRetry, InLoop
  <2>1. /\ Settled(job[j], transfer[j]) /\ job[j] \in JobState
        /\ transfer[j] \in TransferState
    BY DEF Lifecycle, ThreadTypeOK
  <2>2. PICK s \in JobState, t \in TransferState :
           /\ QueueTypeOK'
           /\ Settled(s, t)
           /\ Becomes(j, s)
           /\ transfer' = [transfer EXCEPT ![j] = t]
    <3>1. job[j].attempt + 1 <= Budget
      BY <1>0, <2>1 DEF Settled, Budget, JobAssumption, JobState
    <3>2. job[j].easy # "attached" /\ ~job[j].finished
      BY <2>1 DEF Settled
    <3>3. QED
      BY <1>0, <2>1, <3>1, <3>2, BeginAttemptEffect DEF Settled
  <2>3. QED
    BY <2>2, ActiveJobStep
<1>14. ASSUME NEW j \in Jobs, PerformData(j) \/ PerformDone(j)
       PROVE  ThreadInv'
  <2> DEFINE Goal == \E s \in JobState, t \in TransferState :
                       /\ QueueTypeOK'
                       /\ Settled(s, t) /\ ~s.finished
                       /\ Becomes(j, s)
                       /\ transfer' = [transfer EXCEPT ![j] = t]
  <2>1. /\ place[j] = "active" /\ job[j].easy = "attached" /\ ~job[j].finished
        /\ Settled(job[j], transfer[j])
        /\ job[j] \in JobState /\ transfer[j] \in TransferState
        /\ UNCHANGED threadVars /\ pc = "perform"
    <3>1. transfer[j].phase = "running" /\ UNCHANGED threadVars /\ pc = "perform"
      BY <1>14 DEF PerformData, PerformDone, CurlRespond, CurlProgress, CurlDone, InLoop
    <3>2. place[j] = "active"
      BY <3>1 DEF Lifecycle, Fresh, Dead, ThreadTypeOK, Places
    <3>3. QED
      BY <3>1, <3>2 DEF Lifecycle, Settled, ThreadTypeOK
  <2>2. Goal
    <3>1. ASSUME NEW http \in Responses, CurlRespond(j, http)
          PROVE  Goal
      <4> DEFINE t == [transfer[j] EXCEPT !.http = http]
      <4>1. t \in TransferState /\ t.phase = transfer[j].phase
        BY <1>0, <2>1 DEF TransferState, JobAssumption
      <4>2. Settled(job[j], t)
        BY <2>1, <4>1 DEF Settled
      <4>3. QueueTypeOK' /\ Becomes(j, job[j]) /\ transfer' = [transfer EXCEPT ![j] = t]
        BY <1>0, <3>1 DEF CurlRespond, QueueTypeOK, queueVars, Becomes, ThreadTypeOK
      <4>4. QED
        BY <2>1, <4>1, <4>2, <4>3
    <3>2. ASSUME CurlProgress(j)
          PROVE  Goal
      <4> DEFINE s == [job[j] EXCEPT !.lastProgress = @ + 1]
      <4>1. s \in JobState /\ ~s.finished
        BY <2>1 DEF JobState
      <4>2. Settled(s, transfer[j])
        BY <2>1 DEF Settled, JobState
      <4>3. QueueTypeOK'
        <5>1. ProgressEvent(j) \in Event
          BY EventTypes DEF S3Status, NoResponse
        <5>2. QED
          BY <1>0, <3>2, <5>1, PostType DEF CurlProgress
      <4>4. Becomes(j, s) /\ transfer' = [transfer EXCEPT ![j] = transfer[j]]
        BY <3>2 DEF CurlProgress, Becomes, ThreadTypeOK
      <4>5. QED
        BY <2>1, <4>1, <4>2, <4>3, <4>4
    <3>3. ASSUME NEW code \in CurlCodes, CurlDone(j, code)
          PROVE  Goal
      <4> DEFINE t == [transfer[j] EXCEPT !.phase = "done", !.code = code]
      <4>1. t \in TransferState /\ t.phase = "done" /\ transfer[j].phase = "running"
        BY <2>1, <3>3 DEF TransferState, CurlDone
      <4>2. Settled(job[j], t)
        BY <2>1, <4>1 DEF Settled
      <4>3. QueueTypeOK' /\ Becomes(j, job[j]) /\ transfer' = [transfer EXCEPT ![j] = t]
        BY <1>0, <3>3 DEF CurlDone, QueueTypeOK, queueVars, Becomes, ThreadTypeOK
      <4>4. QED
        BY <2>1, <4>1, <4>2, <4>3
    <3>4. QED
      BY <1>14, <3>1, <3>2, <3>3 DEF PerformData, PerformDone
  <2>3. QED
    BY <2>1, <2>2, ActiveJobStep
<1>15. ASSUME NEW j \in Jobs, ReapCompleted(j)
       PROVE  ThreadInv'
  <2> USE <1>15 DEF ReapCompleted, InLoop
  <2>1. place[j] = "active" /\ Settled(job[j], transfer[j])
    BY DEF Lifecycle, Fresh, Dead, ThreadTypeOK, Places
  <2>2. PICK s \in JobState, t \in TransferState :
           /\ QueueTypeOK'
           /\ Settled(s, t)
           /\ Becomes(j, s)
           /\ transfer' = [transfer EXCEPT ![j] = t]
    BY <1>0, <2>1, OnAttemptDoneEffect DEF ThreadTypeOK
  <2>3. QED
    BY <2>1, <2>2, ActiveJobStep
<1>16. QED
  BY <1>1, <1>2, <1>3, <1>4, <1>5, <1>6, <1>7, <1>8, <1>9, <1>10, <1>11, <1>12, <1>13,
     <1>14, <1>15 DEF ThreadNext

\* Every call of the game thread keeps the invariant.
LEMMA CallerNextInv ==
  ASSUME ThreadInv, CallerNext
  PROVE  ThreadInv'
<1> USE DEF ThreadInv
<1>0. ThreadTypeOK /\ QueueTypeOK
  BY DEF ThreadTypeOK, QueueTypeOK
<1>1. CASE Start
  <2> USE <1>1 DEF Start
  <2>1. QueueTypeOK' /\ Lifecycle'
    BY ControlStep
  <2>2. ThreadTypeOK'
    BY <2>1 DEF ThreadTypeOK, QueueTypeOK, jobVars, ThreadPCs, CallerPCs
  <2>3. Handover' /\ RunState' /\ WakeupInv'
    BY DEF Handover, RunState, WakeupInv, At, jobVars
  <2>4. QED
    BY <2>1, <2>2, <2>3
<1>2. CASE Wakeup
  <2> USE <1>2 DEF Wakeup
  <2>1. QueueTypeOK' /\ Lifecycle'
    BY ControlStep
  <2>2. ThreadTypeOK'
    BY <2>1 DEF ThreadTypeOK, QueueTypeOK, jobVars, CallerPCs
  <2>3. Handover' /\ RunState' /\ WakeupInv'
    BY DEF Handover, RunState, WakeupInv, At, jobVars
  <2>4. QED
    BY <2>1, <2>2, <2>3
<1>3. CASE GameFrame \/ DisableQueue
  <2>1. QueueTypeOK' /\ UNCHANGED <<jobVars, threadVars>>
    <3>1. CASE GameFrame
      <4>1. <<>> \in Seq(Event)
        OBVIOUS
      <4>2. QED
        BY <1>0, <3>1, <4>1 DEF GameFrame, Drain, QueueTypeOK
    <3>2. CASE DisableQueue
      BY <1>0, <3>2 DEF DisableQueue, SetEnabled, QueueTypeOK
    <3>3. QED
      BY <1>3, <3>1, <3>2
  <2>2. QED
    BY <2>1 DEF jobVars, threadVars, ThreadTypeOK, QueueTypeOK, Lifecycle, Handover,
                RunState, WakeupInv, At
<1>4. CASE Shutdown
  <2> USE <1>4 DEF Shutdown, Stop
  <2>1. QueueTypeOK' /\ Lifecycle'
    BY ControlStep
  <2>2. ThreadTypeOK'
    BY <2>1 DEF ThreadTypeOK, QueueTypeOK, jobVars, CallerPCs
  <2>3. Handover' /\ RunState' /\ WakeupInv'
    BY DEF Handover, RunState, WakeupInv, At, jobVars
  <2>4. QED
    BY <2>1, <2>2, <2>3
<1>5. CASE StopClear
  <2> DEFINE dead == At("active") \cup At("incoming")
  <2>1. /\ \A k \in Jobs : Released(job[k]) \in JobState
        /\ \A k \in Jobs : [transfer[k] EXCEPT !.phase = "none"] \in TransferState
    <3>1. \A k \in Jobs : Released(job[k]) \in JobState
      BY ZenonT(30) DEF ThreadTypeOK, Released, JobState
    <3>2. \A k \in Jobs : [transfer[k] EXCEPT !.phase = "none"] \in TransferState
      BY DEF ThreadTypeOK, TransferState
    <3>3. QED
      BY <3>1, <3>2
  <2> USE <1>5 DEF StopClear, DestroyJobs, At
  <2>2. ThreadTypeOK'
    <3>1. job' \in [Jobs -> JobState] /\ transfer' \in [Jobs -> TransferState]
      BY <2>1 DEF ThreadTypeOK
    <3>2. place' \in [Jobs -> Places]
      BY DEF ThreadTypeOK, Places
    <3>3. QED
      BY <3>1, <3>2 DEF ThreadTypeOK, queueVars, CallerPCs
  <2>3. \A k \in Jobs \ dead :
           job'[k] = job[k] /\ transfer'[k] = transfer[k] /\ place'[k] = place[k]
    BY DEF ThreadTypeOK
  <2>4. \A k \in dead : place'[k] = "destroyed" /\ Dead(job'[k], transfer'[k])
    <3> SUFFICES ASSUME NEW k \in dead
                 PROVE  place'[k] = "destroyed" /\ Dead(job'[k], transfer'[k])
      OBVIOUS
    <3>1. /\ place'[k] = "destroyed" /\ job'[k] = Released(job[k])
          /\ transfer'[k] = [transfer[k] EXCEPT !.phase = "none"]
      BY DEF ThreadTypeOK
    <3>2. /\ job[k] \in JobState /\ transfer[k] \in TransferState
          /\ job[k].attempt <= Budget
      BY JobAssumption DEF ThreadTypeOK, Lifecycle, Settled, Fresh, Budget, JobAssumption
    <3>3. QED
      BY <3>1, <3>2 DEF Dead, Released, JobState, TransferState
  <2>5. Lifecycle'
    BY <2>3, <2>4 DEF Lifecycle
  <2>6. Handover'
    BY <2>3, <2>4 DEF Handover, ThreadTypeOK
  <2>7. RunState' /\ WakeupInv'
    BY DEF RunState, WakeupInv
  <2>8. QED
    BY <2>2, <2>5, <2>6, <2>7
<1>6. CASE Stopped
  BY <1>6 DEF Stopped, vars, queueVars, jobVars, threadVars, ThreadTypeOK, Lifecycle,
              Handover, RunState, WakeupInv, At
<1>7. ASSUME NEW j \in Jobs, Submit(j)
      PROVE  ThreadInv'
  <2>1. PICK op \in Ops : Enqueue(j, op)
    BY <1>7 DEF Submit
  <2> USE <2>1 DEF Enqueue
  <2>2. /\ job'[j] = NewJob(op) /\ place'[j] = "incoming" /\ transfer'[j] = transfer[j]
        /\ \A k \in Jobs \ {j} :
             job'[k] = job[k] /\ transfer'[k] = transfer[k] /\ place'[k] = place[k]
    BY DEF ThreadTypeOK
  <2>3. NewJob(op) \in JobState
    BY JobAssumption DEF JobAssumption, NewJob, JobState, NoResponse
  <2>4. ThreadTypeOK'
    BY <2>3 DEF ThreadTypeOK, queueVars, Places, CallerPCs
  <2>5. Lifecycle'
    BY <2>2 DEF Lifecycle, Fresh, NewJob
  <2>6. Handover'
    BY <2>2 DEF Handover, At, ThreadTypeOK
  <2>7. RunState' /\ WakeupInv'
    BY DEF RunState, WakeupInv, At
  <2>8. QED
    BY <2>4, <2>5, <2>6, <2>7
<1>8. ASSUME NEW j \in Jobs, RequestCancel(j)
      PROVE  ThreadInv'
  <2> USE <1>8 DEF RequestCancel, Cancel
  <2>1. QueueTypeOK' /\ Lifecycle'
    BY ControlStep
  <2>2. ThreadTypeOK'
    BY <2>1 DEF ThreadTypeOK, QueueTypeOK, jobVars, CallerPCs
  <2>3. Handover' /\ RunState' /\ WakeupInv'
    BY DEF Handover, RunState, WakeupInv, At, jobVars
  <2>4. QED
    BY <2>1, <2>2, <2>3
<1>9. ASSUME NEW j \in Jobs, StopCancel(j)
      PROVE  ThreadInv'
  <2> USE <1>9 DEF StopCancel
  <2>1. /\ job[j] \in JobState /\ transfer[j] \in TransferState
        /\ job[j].attempt <= Budget
    BY DEF Lifecycle, Settled, ThreadTypeOK
  <2>2. CASE ~job[j].finished
    <3>1. PICK s \in JobState, t \in TransferState :
             /\ QueueTypeOK'
             /\ Settled(s, t) /\ s.finished
             /\ Becomes(j, s)
             /\ transfer' = [transfer EXCEPT ![j] = t]
      BY <1>0, <2>1, <2>2, CancelEffect
    <3>2. QED
      BY <3>1, ActiveJobStep
  <2>3. CASE job[j].finished
    <3> DEFINE s == Released([job[j] EXCEPT !.cancelRequested = TRUE])
               t == [transfer[j] EXCEPT !.phase = "none"]
    <3>1. s \in JobState /\ t \in TransferState /\ Settled(s, t)
      BY <2>1, <2>3 DEF Lifecycle, Settled, Released, JobState, TransferState
    <3>2. QueueTypeOK' /\ Becomes(j, s) /\ transfer' = [transfer EXCEPT ![j] = t]
      BY <1>0, <2>3, <3>1
         DEF CancelJob, Finish, ReleaseTransfer, QueueTypeOK, queueVars, Becomes, Released
    <3>3. QED
      BY <3>1, <3>2, ActiveJobStep
  <2>4. QED
    BY <2>2, <2>3
<1>10. QED
  BY <1>1, <1>2, <1>3, <1>4, <1>5, <1>6, <1>7, <1>8, <1>9 DEF CallerNext

-----------------------------------------------------------------------------
(***************************************************************************)
(* The theorems.                                                           *)
(***************************************************************************)

\* The inductive invariant holds of every reachable state.
THEOREM InvHolds == ThreadSafetySpec => []ThreadInv
<1>1. ThreadInv /\ [ThreadSpecNext]_vars => ThreadInv'
  <2> SUFFICES ASSUME ThreadInv, [ThreadSpecNext]_vars PROVE ThreadInv'
    OBVIOUS
  <2>1. CASE ThreadNext
    BY <2>1, ThreadNextInv
  <2>2. CASE CallerNext
    BY <2>2, CallerNextInv
  <2>3. CASE UNCHANGED vars
    BY <2>3 DEF vars, queueVars, jobVars, threadVars, ThreadInv, ThreadTypeOK, Lifecycle,
                Handover, RunState, WakeupInv, At
  <2>4. QED
    BY <2>1, <2>2, <2>3 DEF ThreadSpecNext
<1>2. QED
  BY <1>1, InitInv, PTL DEF ThreadSafetySpec

\* Type correctness of the thread, its queue and its jobs.
THEOREM TypeCorrect == ThreadSafetySpec => []ThreadTypeOK
<1>1. ThreadInv => ThreadTypeOK
  BY DEF ThreadInv
<1>2. QED
  BY <1>1, InvHolds, PTL

\* No job is ever left in m_active with nothing that would bring the thread back to it,
\* and none is left finished while the thread sleeps.
THEOREM NoJobStranded == ThreadSafetySpec => []NoStrandedJob
<1>1. ThreadInv => NoStrandedJob
  BY DEF ThreadInv, NoStrandedJob, Lifecycle, Settled, Handover, At
<1>2. QED
  BY <1>1, InvHolds, PTL

\* libcurl never holds, and never reports, the handle of a finished or destroyed job.
THEOREM OnlyLiveJobsReaped == ThreadSafetySpec => []ReapsLiveJobs
<1>1. ThreadInv => ReapsLiveJobs
  BY DEF ThreadInv, ReapsLiveJobs, Lifecycle, Settled, Fresh, Dead, ThreadTypeOK, Places
<1>2. QED
  BY <1>1, InvHolds, PTL

\* A cancellation never reaches ApplyCancellations before the job it names.
THEOREM CancelFollowsJob == ThreadSafetySpec => []CancelFindsJob
<1>1. ThreadInv => CancelFindsJob
  BY DEF ThreadInv, CancelFindsJob, Handover, RunState, ThreadTypeOK
<1>2. QED
  BY <1>1, InvHolds, PTL

\* No wakeup is lost between TakePending and curl_multi_poll.
THEOREM WakeupNotMissed == ThreadSafetySpec => []NoMissedWakeup
<1>1. ThreadInv => NoMissedWakeup
  BY DEF ThreadInv, NoMissedWakeup, WakeupInv
<1>2. QED
  BY <1>1, InvHolds, PTL

\* No request makes more than one attempt and MaxRetries retries.
THEOREM RetriesBounded == ThreadSafetySpec => []RetryBudget
<1>1. ThreadInv => RetryBudget
  BY JobAssumption DEF ThreadInv, RetryBudget, Lifecycle, Settled, Fresh, Dead, Budget,
     ThreadTypeOK, Places, JobAssumption
<1>2. QED
  BY <1>1, InvHolds, PTL

\* A FILE is open only for the transfer that streams it.
THEOREM FilesTracked == ThreadSafetySpec => []FilesFollowTransfers
<1>1. ThreadInv => FilesFollowTransfers
  BY DEF ThreadInv, FilesFollowTransfers, Lifecycle, Settled, Fresh, Dead, ThreadTypeOK,
     Places
<1>2. QED
  BY <1>1, InvHolds, PTL

-----------------------------------------------------------------------------
(***************************************************************************)
(* The events the transfer thread posts: a job posts its completion once,  *)
(* nothing after it, and the completion says what the job's last attempt   *)
(* met.  With that, TransferThread implements TransferService.             *)
(***************************************************************************)

\* A cancellation finishes its job at once, so what curl_multi_perform reports is never an
\* abort, and CURLE_OK comes with a response.
Reported(s, t) ==
  /\ s.cancelRequested => s.finished
  /\ t.phase = "done" => t.code # "ABORTED" /\ (t.code = "OK" => t.http # NoResponse)

\* What a completion with this status says of its job.
Justified(status, s, t) ==
  CASE status = "Ok" -> t.code = "OK" /\ t.http = "2xx"
    [] status = "HttpError" ->
         /\ t.code = "OK" /\ t.http \notin {"2xx", NoResponse}
         /\ ShouldRetryStatus(t.http) => ~CanRetry(s)
    [] status = "Timeout" -> t.code = "TIMEDOUT" /\ ~CanRetry(s)
    [] status = "Cancelled" -> s.cancelRequested
    [] OTHER -> TRUE

AttemptInv == \A j \in Jobs : Reported(job[j], transfer[j])

\* A completion is on its way only for a job that is finished.
CompletionInv ==
  \A i \in DOMAIN Stream : Stream[i].kind = "Complete" => job[Stream[i].job].finished

\* The inductive invariant.
EventsInv == ThreadInv /\ AttemptInv /\ CompletionInv /\ CompleteIsLast /\ OutcomeJustified

\* What is known of a finished job stays as it is.
Keeps(s, t, u, v) ==
  s.finished => /\ u.finished /\ u.attempt = s.attempt
                /\ s.cancelRequested => u.cancelRequested
                /\ v.http = t.http /\ v.code = t.code

\* A step may complete an unfinished job, or report its progress, or change it silently.
JobSteps(j) ==
  /\ ~job[j].finished
  /\ \A k \in Jobs \ {j} : job'[k] = job[k] /\ transfer'[k] = transfer[k]
  /\ Reported(job'[j], transfer'[j])
  /\ \/ \E status \in S3Status, http \in HttpClasses \cup {NoResponse} :
          /\ posting = <<>> /\ Post(CompleteEvent(j, status, http))
          /\ job'[j].finished /\ Justified(status, job'[j], transfer'[j])
          /\ status = "Cancelled" <=> job'[j].cancelRequested
     \/ /\ posting = <<>> /\ Post(ProgressEvent(j))
        /\ ~job'[j].finished
     \/ UNCHANGED queueVars /\ ~job'[j].finished

-----------------------------------------------------------------------------
(***************************************************************************)
(* The steps that touch a job.                                             *)
(***************************************************************************)

\* Records keep what they say of a job's end when it finishes or is released.
LEMMA FinishedRecord ==
  ASSUME NEW s \in JobState, NEW u, u = [s EXCEPT !.finished = TRUE, !.waiting = FALSE]
  PROVE  u.finished /\ u.attempt = s.attempt /\ u.cancelRequested = s.cancelRequested
BY DEF JobState

LEMMA ReleasedRecord ==
  ASSUME NEW s \in JobState
  PROVE  /\ Released(s) \in JobState /\ Released(s).finished = s.finished
         /\ Released(s).attempt = s.attempt /\ Released(s).cancelRequested = s.cancelRequested
         /\ Released(s).httpStatus = s.httpStatus /\ Released(s).op = s.op
BY DEF JobState, Released

\* Finishing a job that was not finished completes it.
LEMMA FinishSteps ==
  ASSUME ThreadTypeOK, NEW j \in Jobs, ~job[j].finished, posting = <<>>,
         NEW s \in JobState, ~s.finished, NEW status \in S3Status, Finish(j, s, status),
         NEW t \in TransferState, t.phase = "none", transfer' = [transfer EXCEPT ![j] = t],
         Justified(status, s, t), status = "Cancelled" <=> s.cancelRequested
  PROVE  JobSteps(j) /\ (job'[j].cancelRequested <=> s.cancelRequested)
<1> DEFINE u == [s EXCEPT !.finished = TRUE, !.waiting = FALSE]
<1>1. /\ Post(CompleteEvent(j, status, s.httpStatus)) /\ job' = [job EXCEPT ![j] = u]
      /\ s.httpStatus \in HttpClasses \cup {NoResponse}
  BY DEF Finish, JobState
<1>2. u.finished /\ u.attempt = s.attempt /\ u.cancelRequested = s.cancelRequested
  BY FinishedRecord
<1> HIDE DEF u
<1>3. /\ job'[j] = u /\ transfer'[j] = t
      /\ \A k \in Jobs \ {j} : job'[k] = job[k] /\ transfer'[k] = transfer[k]
  BY <1>1 DEF ThreadTypeOK
<1>4. Justified(status, u, t) /\ Reported(u, t)
  BY <1>2 DEF Justified, CanRetry, Reported
<1> QED BY <1>1, <1>2, <1>3, <1>4 DEF JobSteps

\* The record at the start of an attempt.
LEMMA AttemptRecord ==
  ASSUME NEW r \in JobState,
         NEW s, s = ResetAttemptState([r EXCEPT !.attempt = @ + 1])
  PROVE  /\ s \in JobState /\ s.finished = r.finished
         /\ s.cancelRequested = r.cancelRequested
<1> DEFINE r1 == [r EXCEPT !.attempt = @ + 1]
           r2 == [r1 EXCEPT !.httpStatus = NoResponse]
           r3 == [r2 EXCEPT !.lastProgress = -1]
<1>1. r1 \in JobState /\ r1.finished = r.finished /\ r1.cancelRequested = r.cancelRequested
  BY DEF JobState
<1>2. r2 \in JobState /\ r2.finished = r.finished /\ r2.cancelRequested = r.cancelRequested
  BY <1>1 DEF JobState
<1>3. r3 \in JobState /\ r3.finished = r.finished /\ r3.cancelRequested = r.cancelRequested
  <2> HIDE DEF r2
  <2>1. -1 \in Int
    OBVIOUS
  <2> QED BY <1>2, <2>1 DEF JobState
<1>4. s = [r3 EXCEPT !.waiting = FALSE]
  BY DEF ResetAttemptState
<1> HIDE DEF r1, r2, r3
<1> QED BY <1>3, <1>4 DEF JobState

LEMMA BeginAttemptSteps ==
  ASSUME ThreadTypeOK, NEW j \in Jobs, ~job[j].finished, Reported(job[j], transfer[j]),
         posting = <<>>, BeginAttempt(j)
  PROVE  JobSteps(j) /\ ~job'[j].cancelRequested
<1> DEFINE s == ResetAttemptState([job[j] EXCEPT !.attempt = @ + 1])
           created == [s EXCEPT !.easy = "created"]
           opened == [created EXCEPT !.file = s.op \in FileOps]
           u == [opened EXCEPT !.easy = "attached"]
           v == [NoTransfer EXCEPT !.phase = "running"]
           Fail(r, status) == /\ Finish(j, r, status)
                              /\ transfer' = [transfer EXCEPT ![j] = NoTransfer]
<1>1. s \in JobState /\ ~s.finished /\ ~s.cancelRequested
  <2>1. job[j] \in JobState /\ ~job[j].cancelRequested
    BY DEF ThreadTypeOK, Reported
  <2> HIDE DEF s
  <2>2. s = ResetAttemptState([job[j] EXCEPT !.attempt = @ + 1])
    BY DEF s
  <2> QED BY <2>1, <2>2, AttemptRecord
<1>2. \/ Fail(s, "NetworkError")
      \/ Fail(created, "IoError")
      \/ Fail(opened, "NetworkError")
      \/ /\ job' = [job EXCEPT ![j] = u]
         /\ transfer' = [transfer EXCEPT ![j] = v]
         /\ UNCHANGED queueVars
  BY <1>1 DEF BeginAttempt
<1>3. created \in JobState /\ ~created.finished /\ ~created.cancelRequested
  <2> HIDE DEF s
  <2> QED BY <1>1 DEF JobState
<1>4. opened \in JobState /\ ~opened.finished /\ ~opened.cancelRequested
  <2> DEFINE streams == s.op \in FileOps
  <2>1. streams \in BOOLEAN /\ opened = [created EXCEPT !.file = streams]
    OBVIOUS
  <2> HIDE DEF s, created, opened, streams
  <2> QED BY <1>3, <2>1 DEF JobState
<1>5. u \in JobState /\ ~u.finished /\ ~u.cancelRequested
  <2> HIDE DEF opened
  <2> QED BY <1>4 DEF JobState
<1>6. /\ NoTransfer \in TransferState /\ NoTransfer.phase = "none"
      /\ v \in TransferState /\ v.phase = "running"
  BY DEF NoTransfer, TransferState, NoResponse, CurlCodes
<1> HIDE DEF s, created, opened, u, v
<1>7. ASSUME NEW r \in JobState, ~r.finished, ~r.cancelRequested,
             NEW status \in {"NetworkError", "IoError"}, Fail(r, status)
      PROVE  JobSteps(j) /\ ~job'[j].cancelRequested
  <2>1. status \in S3Status /\ status # "Cancelled" /\ Justified(status, r, NoTransfer)
    BY <1>7 DEF S3Status, Justified
  <2> QED BY <1>6, <1>7, <2>1, FinishSteps
<1>8. ASSUME job' = [job EXCEPT ![j] = u], transfer' = [transfer EXCEPT ![j] = v],
             UNCHANGED queueVars
      PROVE  JobSteps(j) /\ ~job'[j].cancelRequested
  <2>1. /\ job'[j] = u /\ transfer'[j] = v
        /\ \A k \in Jobs \ {j} : job'[k] = job[k] /\ transfer'[k] = transfer[k]
    BY <1>8 DEF ThreadTypeOK
  <2> QED BY <1>5, <1>6, <1>8, <2>1 DEF JobSteps, Reported
<1> QED BY <1>1, <1>2, <1>3, <1>4, <1>7, <1>8

LEMMA OnAttemptDoneSteps ==
  ASSUME ThreadTypeOK, NEW j \in Jobs, ~job[j].finished, Reported(job[j], transfer[j]),
         transfer[j].phase = "done", posting = <<>>, OnAttemptDone(j, transfer[j].code)
  PROVE  JobSteps(j) /\ ~job'[j].cancelRequested
<1> DEFINE r == [job[j] EXCEPT !.httpStatus = transfer[j].http]
           s == Released(r)
           t == [transfer[j] EXCEPT !.phase = "none"]
<1>1. /\ s \in JobState /\ ~s.finished /\ ~s.cancelRequested
      /\ s.httpStatus = transfer[j].http
  <2>1. /\ r \in JobState /\ ~r.finished /\ ~r.cancelRequested
        /\ r.httpStatus = transfer[j].http
    BY ZenonT(30) DEF ThreadTypeOK, JobState, TransferState, Reported
  <2> HIDE DEF r
  <2> QED BY <2>1, ReleasedRecord
<1>2. /\ t \in TransferState /\ t.phase = "none"
      /\ t.http = transfer[j].http /\ t.code = transfer[j].code
      /\ transfer' = [transfer EXCEPT ![j] = t]
  BY DEF OnAttemptDone, ReleaseTransfer, ThreadTypeOK, TransferState
<1>3. /\ transfer[j].code \in CurlCodes /\ transfer[j].code # "ABORTED"
      /\ transfer[j].code = "OK" => transfer[j].http # NoResponse
  BY DEF ThreadTypeOK, TransferState, Reported
<1>4. IF transfer[j].code # "OK"
      THEN HandleTransportFailure(j, s, transfer[j].code, CanRetry(s))
      ELSE IF IsSuccess(s.httpStatus)
           THEN HandleHttpSuccess(j, s)
           ELSE HandleHttpFailure(j, s, CanRetry(s))
  BY <1>1 DEF OnAttemptDone
<1> HIDE DEF r, s, t
<1>5. ASSUME NEW status \in S3Status \ {"Cancelled"}, Finish(j, s, status), Justified(status, s, t)
      PROVE  JobSteps(j) /\ ~job'[j].cancelRequested
  BY <1>1, <1>2, <1>5, FinishSteps
<1>6. ASSUME ScheduleRetry(j, s)
      PROVE  JobSteps(j) /\ ~job'[j].cancelRequested
  <2> DEFINE u == [s EXCEPT !.waiting = TRUE]
  <2>1. job' = [job EXCEPT ![j] = u] /\ UNCHANGED queueVars
    BY <1>6 DEF ScheduleRetry
  <2>2. ~u.finished /\ ~u.cancelRequested
    BY <1>1 DEF JobState
  <2> HIDE DEF u
  <2>3. /\ job'[j] = u /\ transfer'[j] = t
        /\ \A k \in Jobs \ {j} : job'[k] = job[k] /\ transfer'[k] = transfer[k]
    BY <1>2, <2>1 DEF ThreadTypeOK
  <2> QED BY <1>2, <2>1, <2>2, <2>3 DEF JobSteps, Reported
<1>7. CASE transfer[j].code # "OK"
  <2>1. CASE transfer[j].code \in {"WRITE_ERROR", "READ_ERROR"}
    BY <1>4, <1>5, <1>7, <2>1 DEF HandleTransportFailure, S3Status, Justified
  <2>2. CASE transfer[j].code \in {"TIMEDOUT", "OTHER"} /\ CanRetry(s)
    BY <1>4, <1>6, <1>7, <2>2 DEF HandleTransportFailure
  <2>3. CASE transfer[j].code = "TIMEDOUT" /\ ~CanRetry(s)
    BY <1>2, <1>4, <1>5, <1>7, <2>3 DEF HandleTransportFailure, S3Status, Justified
  <2>4. CASE transfer[j].code = "OTHER" /\ ~CanRetry(s)
    BY <1>4, <1>5, <1>7, <2>4 DEF HandleTransportFailure, S3Status, Justified
  <2> QED BY <1>3, <1>7, <2>1, <2>2, <2>3, <2>4 DEF CurlCodes
<1>8. CASE transfer[j].code = "OK" /\ IsSuccess(s.httpStatus)
  <2>1. Justified("Ok", s, t) /\ Justified("IoError", s, t)
    BY <1>1, <1>2, <1>8 DEF Justified, IsSuccess
  <2> QED BY <1>4, <1>5, <1>8, <2>1 DEF HandleHttpSuccess, S3Status
<1>9. CASE transfer[j].code = "OK" /\ ~IsSuccess(s.httpStatus)
  <2>1. CASE ShouldRetryStatus(s.httpStatus) /\ CanRetry(s)
    BY <1>4, <1>6, <1>9, <2>1 DEF HandleHttpFailure
  <2>2. CASE ~(ShouldRetryStatus(s.httpStatus) /\ CanRetry(s))
    <3>1. Justified("HttpError", s, t)
      BY <1>1, <1>2, <1>3, <1>9, <2>2 DEF Justified, IsSuccess
    <3> QED BY <1>4, <1>5, <1>9, <2>2, <3>1 DEF HandleHttpFailure, S3Status
  <2> QED BY <2>1, <2>2
<1> QED BY <1>7, <1>8, <1>9

LEMMA CancelSteps ==
  ASSUME ThreadTypeOK, NEW j \in Jobs, ~job[j].finished, posting = <<>>, CancelJob(j)
  PROVE  JobSteps(j) /\ job'[j].cancelRequested
<1> DEFINE r == [job[j] EXCEPT !.cancelRequested = TRUE]
           s == Released(r)
           t == [transfer[j] EXCEPT !.phase = "none"]
<1>1. s \in JobState /\ ~s.finished /\ s.cancelRequested
  <2>1. r \in JobState /\ ~r.finished /\ r.cancelRequested
    BY DEF ThreadTypeOK, JobState
  <2> HIDE DEF r
  <2> QED BY <2>1, ReleasedRecord
<1>2. t \in TransferState /\ t.phase = "none" /\ transfer' = [transfer EXCEPT ![j] = t]
  BY DEF CancelJob, ReleaseTransfer, ThreadTypeOK, TransferState
<1>3. Finish(j, s, "Cancelled")
  BY DEF CancelJob
<1> HIDE DEF r, s, t
<1> QED BY <1>1, <1>2, <1>3, FinishSteps DEF S3Status, Justified

LEMMA CurlSteps ==
  ASSUME ThreadTypeOK, NEW j \in Jobs, ~job[j].finished, Reported(job[j], transfer[j]),
         PerformData(j) \/ PerformDone(j)
  PROVE  JobSteps(j) /\ ~job'[j].cancelRequested
<1>1. posting = <<>>
  BY DEF PerformData, PerformDone, InLoop
<1>2. job[j] \in JobState /\ transfer[j] \in TransferState /\ ~job[j].cancelRequested
  BY DEF ThreadTypeOK, Reported
<1>3. ASSUME NEW http \in Responses, CurlRespond(j, http)
      PROVE  JobSteps(j) /\ ~job'[j].cancelRequested
  <2>1. transfer[j].phase = "running" /\ transfer' = [transfer EXCEPT ![j].http = http]
        /\ UNCHANGED <<job, queueVars>>
    BY <1>3 DEF CurlRespond
  <2>2. /\ transfer'[j].phase = "running"
        /\ \A k \in Jobs \ {j} : transfer'[k] = transfer[k]
    BY <1>2, <2>1 DEF ThreadTypeOK, TransferState
  <2> QED BY <1>2, <2>1, <2>2 DEF JobSteps, Reported
<1>4. ASSUME CurlProgress(j)
      PROVE  JobSteps(j) /\ ~job'[j].cancelRequested
  <2>1. /\ transfer[j].phase = "running" /\ UNCHANGED transfer
        /\ job' = [job EXCEPT ![j].lastProgress = @ + 1]
        /\ Post(ProgressEvent(j))
    BY <1>4 DEF CurlProgress
  <2>2. /\ ~job'[j].finished /\ ~job'[j].cancelRequested
        /\ \A k \in Jobs \ {j} : job'[k] = job[k]
    BY <1>2, <2>1 DEF ThreadTypeOK, JobState
  <2> QED BY <1>1, <2>1, <2>2 DEF JobSteps, Reported
<1>5. ASSUME NEW code \in CurlCodes, CurlDone(j, code)
      PROVE  JobSteps(j) /\ ~job'[j].cancelRequested
  <2>1. /\ transfer' = [transfer EXCEPT ![j].phase = "done", ![j].code = code]
        /\ UNCHANGED <<job, queueVars>>
        /\ code = "OK" => transfer[j].http # NoResponse
        /\ code # "ABORTED"
    BY <1>2, <1>5 DEF CurlDone
  <2>2. /\ transfer'[j].code = code /\ transfer'[j].http = transfer[j].http
        /\ \A k \in Jobs \ {j} : transfer'[k] = transfer[k]
    BY <1>2, <2>1 DEF ThreadTypeOK, TransferState
  <2> QED BY <1>2, <2>1, <2>2 DEF JobSteps, Reported
<1> QED BY <1>3, <1>4, <1>5 DEF PerformData, PerformDone

-----------------------------------------------------------------------------
(***************************************************************************)
(* What a step does to the stream of events.                               *)
(***************************************************************************)

LEMMA StreamType ==
  ASSUME QueueTypeOK
  PROVE  /\ posting \in Seq(Event) /\ events \in Seq(Event) /\ Stream \in Seq(Event)
         /\ DOMAIN Stream = 1..Len(Stream) /\ Len(Stream) \in Nat
<1>1. posting \in Seq(Event) /\ events \in Seq(Event)
  <2>1. <<>> \in Seq(Event) /\ \A e \in Event : <<e>> \in Seq(Event)
    OBVIOUS
  <2> QED BY <2>1 DEF QueueTypeOK
<1>2. Stream \in Seq(Event)
  BY <1>1, ConcatProperties DEF Stream
<1> QED BY <1>1, <1>2, LenProperties

LEMMA StreamElements ==
  ASSUME QueueTypeOK, NEW i \in DOMAIN Stream
  PROVE  Stream[i] \in Event
<1>1. Stream \in Seq(Event) /\ i \in 1..Len(Stream)
  BY StreamType
<1> QED BY <1>1, ElementOfSeq

\* Post adds its event at the end, unless the queue is disabled.
LEMMA StreamGrows ==
  ASSUME QueueTypeOK, posting = <<>>, NEW e \in Event, Post(e)
  PROVE  Stream' = IF enabled THEN Append(Stream, e) ELSE Stream
<1>1. events \in Seq(Event) /\ Stream = events
  BY StreamType, ConcatEmptySeq DEF Stream
<1>2. CASE enabled
  <2>1. Stream' = events \o <<e>>
    BY <1>2 DEF Stream, Post
  <2> QED BY <1>1, <1>2, <2>1, AppendIsConcat
<1>3. CASE ~enabled
  BY <1>1, <1>3, ConcatEmptySeq DEF Stream, Post
<1> QED BY <1>2, <1>3

\* The critical section of Post moves the event without changing the order.
LEMMA StreamCommitted ==
  ASSUME QueueTypeOK, CommitPost
  PROVE  Stream' = Stream
<1>1. events \o posting \in Seq(Event)
  BY StreamType DEF Stream
<1>2. Stream' = (events \o posting) \o <<>>
  BY DEF CommitPost, Stream
<1> QED BY <1>1, <1>2, ConcatEmptySeq DEF Stream

\* Drain leaves what is being posted.
LEMMA StreamDrained ==
  ASSUME QueueTypeOK, Drain
  PROVE  /\ Stream' \in Seq(Event) /\ Len(Stream') \in {0, 1}
         /\ \A i \in DOMAIN Stream' : \E k \in DOMAIN Stream : Stream[k] = Stream'[i]
<1>1. Stream' = posting
  <2>1. Stream' = <<>> \o posting
    BY DEF Drain, Stream
  <2> QED BY <2>1, StreamType, ConcatEmptySeq
<1>2. posting \in Seq(Event) /\ Len(posting) \in {0, 1} /\ DOMAIN posting = 1..Len(posting)
  <2>1. Len(posting) \in {0, 1}
    BY DEF QueueTypeOK
  <2> QED BY <2>1, StreamType, LenProperties
<1>3. ASSUME NEW i \in DOMAIN posting
      PROVE  \E k \in DOMAIN Stream : Stream[k] = posting[i]
  <2>1. i \in 1..Len(posting) /\ Len(events) \in Nat
    BY <1>2, <1>3, StreamType, LenProperties
  <2>2. /\ Len(Stream) = Len(events) + Len(posting)
        /\ Stream[Len(events) + i] = posting[i]
    BY <1>2, <2>1, StreamType, ConcatProperties DEF Stream
  <2>3. Len(events) + i \in DOMAIN Stream
    BY <1>2, <2>1, <2>2, StreamType
  <2> QED BY <2>2, <2>3
<1> QED BY <1>1, <1>2, <1>3

LEMMA OutcomeIs ==
  /\ OutcomeJustified <=>
       \A i \in DOMAIN Stream : Stream[i].kind = "Complete" =>
         Justified(Stream[i].status, job[Stream[i].job], transfer[Stream[i].job])
  /\ OutcomeJustified' <=>
       \A i \in DOMAIN Stream' : Stream'[i].kind = "Complete" =>
         Justified(Stream'[i].status, job'[Stream'[i].job], transfer'[Stream'[i].job])
BY DEF OutcomeJustified, Justified

\* What justified a completion goes on justifying it.
LEMMA StaysJustified ==
  ASSUME NEW s, NEW t, NEW u, NEW v, NEW status,
         Justified(status, s, t), Keeps(s, t, u, v), s.finished
  PROVE  Justified(status, u, v)
BY DEF Justified, Keeps, CanRetry

-----------------------------------------------------------------------------
(***************************************************************************)
(* The inductive invariant.                                                *)
(***************************************************************************)

\* A step that posts nothing.
LEMMA QuietStepInv ==
  ASSUME EventsInv, ThreadInv',
         \A j \in Jobs : /\ Keeps(job[j], transfer[j], job'[j], transfer'[j])
                         /\ Reported(job'[j], transfer'[j]),
         Stream' = Stream \/ Drain
  PROVE  EventsInv'
<1>0. QueueTypeOK
  BY DEF EventsInv, ThreadInv, ThreadTypeOK, QueueTypeOK
<1>1. /\ \A i \in DOMAIN Stream' : \E k \in DOMAIN Stream : Stream[k] = Stream'[i]
      /\ CompleteIsLast'
  <2>1. CASE Stream' = Stream
    BY <2>1 DEF EventsInv, CompleteIsLast
  <2>2. CASE Drain
    <3>1. DOMAIN Stream' \subseteq {1}
      BY <1>0, <2>2, StreamDrained, LenProperties
    <3>2. CompleteIsLast'
      BY <3>1 DEF CompleteIsLast
    <3> QED BY <1>0, <2>2, <3>2, StreamDrained
  <2> QED BY <2>1, <2>2
<1>2. \A i \in DOMAIN Stream : Stream[i].job \in Jobs
  BY <1>0, StreamElements DEF Event
<1>3. AttemptInv'
  BY DEF AttemptInv
<1>4. CompletionInv'
  <2>1. \A i \in DOMAIN Stream : Stream[i].kind = "Complete" => job'[Stream[i].job].finished
    BY <1>2 DEF EventsInv, CompletionInv, Keeps
  <2> QED BY <1>1, <2>1 DEF CompletionInv
<1>5. OutcomeJustified'
  <2>1. ASSUME NEW i \in DOMAIN Stream, Stream[i].kind = "Complete"
        PROVE  Justified(Stream[i].status, job'[Stream[i].job], transfer'[Stream[i].job])
    <3>1. /\ Justified(Stream[i].status, job[Stream[i].job], transfer[Stream[i].job])
          /\ job[Stream[i].job].finished
      BY <2>1, OutcomeIs DEF EventsInv, CompletionInv
    <3> QED BY <1>2, <3>1, StaysJustified
  <2> QED BY <1>1, <2>1, OutcomeIs
<1> QED BY <1>1, <1>3, <1>4, <1>5 DEF EventsInv

\* A step of one unfinished job.
LEMMA JobStepInv ==
  ASSUME EventsInv, ThreadInv', NEW j \in Jobs, JobSteps(j)
  PROVE  EventsInv'
<1>0. QueueTypeOK
  BY DEF EventsInv, ThreadInv, ThreadTypeOK, QueueTypeOK
<1>1. \A i \in DOMAIN Stream : Stream[i].job \in Jobs
  BY <1>0, StreamElements DEF Event
<1>2. \A k \in Jobs : /\ Keeps(job[k], transfer[k], job'[k], transfer'[k])
                      /\ Reported(job'[k], transfer'[k])
  BY DEF JobSteps, Keeps, EventsInv, AttemptInv
<1>3. CASE Stream' = Stream
  BY <1>2, <1>3, QuietStepInv
<1>4. ASSUME NEW e \in Event, e.job = j, Stream' = Append(Stream, e),
             e.kind = "Complete" =>
               job'[j].finished /\ Justified(e.status, job'[j], transfer'[j])
      PROVE  EventsInv'
  <2>1. /\ Len(Stream) \in Nat /\ DOMAIN Stream = 1..Len(Stream)
        /\ DOMAIN Stream' = 1..(Len(Stream) + 1)
        /\ Stream'[Len(Stream) + 1] = e
        /\ \A i \in 1..Len(Stream) : Stream'[i] = Stream[i]
    <3>1. Stream \in Seq(Event)
      BY <1>0, StreamType
    <3> QED BY <1>0, <1>4, <3>1, StreamType, AppendProperties
  <2>2. \A i \in DOMAIN Stream : Stream[i].kind = "Complete" => Stream[i].job # j
    BY DEF JobSteps, EventsInv, CompletionInv
  <2>3. CompletionInv'
    <3>1. \A i \in DOMAIN Stream : Stream[i].kind = "Complete" => job'[Stream[i].job].finished
      BY <1>1, <1>2 DEF EventsInv, CompletionInv, Keeps
    <3> QED BY <1>4, <2>1, <3>1 DEF CompletionInv
  <2>4. CompleteIsLast'
    <3> SUFFICES ASSUME NEW i \in DOMAIN Stream', Stream'[i].kind = "Complete",
                        NEW k \in DOMAIN Stream', k > i
                 PROVE  Stream'[k].job # Stream'[i].job
      BY DEF CompleteIsLast
    <3>1. i \in DOMAIN Stream /\ Stream'[i] = Stream[i]
      BY <2>1
    <3>2. CASE k \in DOMAIN Stream
      BY <2>1, <3>1, <3>2 DEF EventsInv, CompleteIsLast
    <3>3. CASE k \notin DOMAIN Stream
      <4>1. Stream'[k] = e
        BY <2>1, <3>3
      <4> QED BY <1>4, <2>2, <3>1, <4>1
    <3> QED BY <3>2, <3>3
  <2>5. OutcomeJustified'
    <3>1. ASSUME NEW i \in DOMAIN Stream, Stream[i].kind = "Complete"
          PROVE  Justified(Stream[i].status, job'[Stream[i].job], transfer'[Stream[i].job])
      <4>1. /\ Justified(Stream[i].status, job[Stream[i].job], transfer[Stream[i].job])
            /\ job[Stream[i].job].finished
        BY <3>1, OutcomeIs DEF EventsInv, CompletionInv
      <4> QED BY <1>1, <1>2, <4>1, StaysJustified
    <3>2. ASSUME NEW i \in DOMAIN Stream', Stream'[i].kind = "Complete"
          PROVE  Justified(Stream'[i].status, job'[Stream'[i].job], transfer'[Stream'[i].job])
      <4>1. CASE i \in DOMAIN Stream
        BY <2>1, <3>1, <3>2, <4>1
      <4>2. CASE i \notin DOMAIN Stream
        <5>1. Stream'[i] = e
          BY <2>1, <4>2
        <5> QED BY <1>4, <3>2, <5>1
      <4> QED BY <4>1, <4>2
    <3> QED BY <3>2, OutcomeIs
  <2>6. AttemptInv'
    BY <1>2 DEF AttemptInv
  <2> QED BY <2>3, <2>4, <2>5, <2>6 DEF EventsInv
<1>5. ASSUME NEW status \in S3Status, NEW http \in HttpClasses \cup {NoResponse},
             posting = <<>>, Post(CompleteEvent(j, status, http)),
             job'[j].finished /\ Justified(status, job'[j], transfer'[j])
      PROVE  EventsInv'
  <2>1. /\ CompleteEvent(j, status, http) \in Event
        /\ CompleteEvent(j, status, http).job = j
        /\ CompleteEvent(j, status, http).status = status
    BY EventTypes DEF CompleteEvent
  <2> QED BY <1>0, <1>3, <1>4, <1>5, <2>1, StreamGrows
<1>6. ASSUME posting = <<>>, Post(ProgressEvent(j))
      PROVE  EventsInv'
  <2>1. /\ ProgressEvent(j) \in Event
        /\ ProgressEvent(j).job = j /\ ProgressEvent(j).kind # "Complete"
    BY EventTypes DEF ProgressEvent, S3Status
  <2> QED BY <1>0, <1>3, <1>4, <1>6, <2>1, StreamGrows
<1>7. CASE UNCHANGED queueVars
  BY <1>3, <1>7 DEF queueVars, Stream
<1> QED BY <1>5, <1>6, <1>7 DEF JobSteps

\* Jobs are destroyed as they are, with their transfers.
LEMMA DestroyedJobs ==
  ASSUME ThreadTypeOK, AttemptInv, NEW S, DestroyJobs(S), NEW j \in Jobs
  PROVE  /\ Keeps(job[j], transfer[j], job'[j], transfer'[j])
         /\ Reported(job'[j], transfer'[j])
         /\ job'[j].finished = job[j].finished
<1>1. job[j] \in JobState /\ transfer[j] \in TransferState /\ Reported(job[j], transfer[j])
  BY DEF ThreadTypeOK, AttemptInv
<1>2. CASE j \notin S
  <2>1. job'[j] = job[j] /\ transfer'[j] = transfer[j]
    BY <1>2 DEF DestroyJobs
  <2> QED BY <1>1, <2>1 DEF Keeps
<1>3. CASE j \in S
  <2>1. job'[j] = Released(job[j]) /\ transfer'[j] = [transfer[j] EXCEPT !.phase = "none"]
    BY <1>3 DEF DestroyJobs
  <2>2. /\ transfer'[j].phase = "none" /\ transfer'[j].http = transfer[j].http
        /\ transfer'[j].code = transfer[j].code
    BY <1>1, <2>1 DEF TransferState
  <2> QED BY <1>1, <2>1, <2>2, ReleasedRecord DEF Keeps, Reported
<1> QED BY <1>2, <1>3

\* The steps of the thread and its callers that change a job, by the job they change.
TouchesJob(j) ==
  \/ AdmitIncoming(j) \/ StartDueRetry(j) \/ PerformData(j) \/ PerformDone(j) \/ ReapCompleted(j)
  \/ (ApplyCancellation(j) /\ place[j] = "active" /\ ~job[j].finished)
  \/ (StopCancel(j) /\ ~job[j].finished)

LEMMA TouchedJobSteps ==
  ASSUME ThreadInv, AttemptInv, NEW j \in Jobs, TouchesJob(j)
  PROVE  /\ JobSteps(j)
         /\ job'[j].cancelRequested => ApplyCancellation(j) \/ StopCancel(j)
<1>1. ThreadTypeOK /\ Reported(job[j], transfer[j])
  BY DEF ThreadInv, AttemptInv
<1>2. transfer[j].phase # "none" => ~job[j].finished
  BY DEF ThreadInv, Lifecycle, Settled, Fresh, Dead, ThreadTypeOK, Places
<1>3. CASE AdmitIncoming(j)
  <2>1. ~job[j].finished
    BY <1>3 DEF AdmitIncoming, ThreadInv, Lifecycle, Fresh
  <2> QED BY <1>1, <1>3, <2>1, BeginAttemptSteps DEF AdmitIncoming, InLoop
<1>4. CASE StartDueRetry(j)
  <2>1. ~job[j].finished
    BY <1>4 DEF StartDueRetry, ThreadInv, Lifecycle, Settled
  <2> QED BY <1>1, <1>4, <2>1, BeginAttemptSteps DEF StartDueRetry, InLoop
<1>5. CASE PerformData(j) \/ PerformDone(j)
  <2>1. transfer[j].phase = "running"
    BY <1>5 DEF PerformData, PerformDone, CurlRespond, CurlProgress, CurlDone
  <2> QED BY <1>1, <1>2, <1>5, <2>1, CurlSteps
<1>6. CASE ReapCompleted(j)
  BY <1>1, <1>2, <1>6, OnAttemptDoneSteps DEF ReapCompleted, InLoop
<1>7. CASE ApplyCancellation(j) /\ place[j] = "active" /\ ~job[j].finished
  BY <1>1, <1>7, CancelSteps DEF ApplyCancellation, InLoop
<1>8. CASE StopCancel(j) /\ ~job[j].finished
  BY <1>1, <1>8, CancelSteps DEF StopCancel
<1> QED BY <1>3, <1>4, <1>5, <1>6, <1>7, <1>8 DEF TouchesJob

\* Cancelling a job that is finished only marks it.
LEMMA StopCancelFinished ==
  ASSUME ThreadTypeOK, AttemptInv, NEW j \in Jobs, StopCancel(j), job[j].finished
  PROVE  /\ UNCHANGED queueVars
         /\ \A k \in Jobs : /\ Keeps(job[k], transfer[k], job'[k], transfer'[k])
                            /\ Reported(job'[k], transfer'[k])
                            /\ job'[k].finished = job[k].finished
<1> DEFINE r == [job[j] EXCEPT !.cancelRequested = TRUE]
           s == Released(r)
           t == [transfer[j] EXCEPT !.phase = "none"]
<1>1. r \in JobState /\ r.finished /\ r.cancelRequested /\ r.attempt = job[j].attempt
  BY DEF ThreadTypeOK, JobState
<1>2. s.finished /\ s.cancelRequested /\ s.attempt = job[j].attempt
  <2> HIDE DEF r
  <2> QED BY <1>1, ReleasedRecord
<1>3. t.phase = "none" /\ t.http = transfer[j].http /\ t.code = transfer[j].code
  BY DEF ThreadTypeOK, TransferState
<1>4. /\ job' = [job EXCEPT ![j] = s] /\ transfer' = [transfer EXCEPT ![j] = t]
      /\ UNCHANGED queueVars
  BY <1>2, <1>3 DEF StopCancel, CancelJob, Finish, ReleaseTransfer
<1> HIDE DEF s, t
<1>5. /\ job'[j] = s /\ transfer'[j] = t
      /\ \A k \in Jobs \ {j} : job'[k] = job[k] /\ transfer'[k] = transfer[k]
  BY <1>4 DEF ThreadTypeOK
<1>6. /\ Keeps(job[j], transfer[j], job'[j], transfer'[j]) /\ Reported(job'[j], transfer'[j])
      /\ job'[j].finished = job[j].finished
  BY <1>2, <1>3, <1>5 DEF Keeps, Reported
<1>7. ASSUME NEW k \in Jobs \ {j}
      PROVE  /\ Keeps(job[k], transfer[k], job'[k], transfer'[k])
             /\ Reported(job'[k], transfer'[k])
             /\ job'[k].finished = job[k].finished
  BY <1>5 DEF Keeps, AttemptInv
<1> QED BY <1>4, <1>6, <1>7

LEMMA EventsNextInv ==
  ASSUME EventsInv, [ThreadSpecNext]_vars
  PROVE  EventsInv'
<1>0. /\ ThreadInv /\ AttemptInv /\ ThreadTypeOK /\ QueueTypeOK
      /\ \A j \in Jobs : Reported(job[j], transfer[j])
  BY DEF EventsInv, ThreadInv, ThreadTypeOK, QueueTypeOK, AttemptInv
<1>1. ThreadInv'
  <2>1. CASE UNCHANGED vars
    BY <1>0, <2>1 DEF vars, queueVars, jobVars, threadVars, ThreadInv, ThreadTypeOK, Lifecycle,
                      Handover, RunState, WakeupInv, At
  <2> QED BY <1>0, <2>1, ThreadNextInv, CallerNextInv DEF ThreadSpecNext
<1>2. ASSUME UNCHANGED jobVars, UNCHANGED queueVars \/ CommitPost \/ Drain \/ SetEnabled(FALSE)
      PROVE  EventsInv'
  <2>1. Stream' = Stream \/ Drain
    BY <1>0, <1>2, StreamCommitted DEF queueVars, SetEnabled, Stream
  <2>2. \A j \in Jobs : Keeps(job[j], transfer[j], job'[j], transfer'[j])
                        /\ Reported(job'[j], transfer'[j])
    BY <1>0, <1>2 DEF jobVars, Keeps
  <2> QED BY <1>1, <2>1, <2>2, QuietStepInv
<1>3. ASSUME NEW j \in Jobs, TouchesJob(j)
      PROVE  EventsInv'
  BY <1>0, <1>1, <1>3, TouchedJobSteps, JobStepInv
<1>4. ASSUME NEW S, DestroyJobs(S), UNCHANGED queueVars
      PROVE  EventsInv'
  <2>1. Stream' = Stream
    BY <1>4 DEF queueVars, Stream
  <2> QED BY <1>0, <1>1, <1>4, <2>1, DestroyedJobs, QuietStepInv
<1>5. ASSUME NEW j \in Jobs, Submit(j)
      PROVE  EventsInv'
  <2>1. PICK op \in Ops : Enqueue(j, op)
    BY <1>5 DEF Submit
  <2>2. /\ job'[j] = NewJob(op) /\ UNCHANGED transfer
        /\ \A k \in Jobs \ {j} : job'[k] = job[k]
        /\ ~job[j].finished /\ transfer[j].phase = "none"
    BY <1>0, <2>1 DEF Enqueue, ThreadTypeOK, ThreadInv, Lifecycle, Fresh
  <2>3. \A k \in Jobs : Keeps(job[k], transfer[k], job'[k], transfer'[k])
                        /\ Reported(job'[k], transfer'[k])
    BY <1>0, <2>2 DEF Keeps, Reported, NewJob
  <2>4. Stream' = Stream
    BY <2>1 DEF Enqueue, queueVars, Stream
  <2> QED BY <1>1, <2>3, <2>4, QuietStepInv
<1>6. ASSUME NEW j \in Jobs, StopCancel(j), job[j].finished
      PROVE  EventsInv'
  <2>1. Stream' = Stream
    BY <1>0, <1>6, StopCancelFinished DEF queueVars, Stream
  <2> QED BY <1>0, <1>1, <1>6, <2>1, StopCancelFinished, QuietStepInv
<1>7. CASE ThreadNext
  <2>1. CASE FinishPost \/ CheckRunning \/ TakePending \/ EndAdmit \/ EndCancel \/ EndRetry
             \/ EndPerform \/ EndReap \/ PollReturn
    BY <1>2, <2>1 DEF FinishPost, CheckRunning, TakePending, EndAdmit, EndCancel, EndRetry,
                      EndPerform, EndReap, PollReturn, GoTo, queueVars, jobVars
  <2>2. CASE RemoveFinished
    BY <1>4, <2>2 DEF RemoveFinished
  <2>3. ASSUME NEW j \in Jobs, ApplyCancellation(j)
        PROVE  EventsInv'
    BY <1>2, <1>3, <2>3 DEF ApplyCancellation, TouchesJob
  <2> QED BY <1>3, <1>7, <2>1, <2>2, <2>3 DEF ThreadNext, TouchesJob
<1>8. CASE CallerNext
  <2>1. CASE Start \/ Wakeup \/ GameFrame \/ DisableQueue \/ Shutdown \/ Stopped
    BY <1>2, <2>1 DEF Start, Wakeup, GameFrame, DisableQueue, Shutdown, Stop, Stopped, vars
  <2>2. CASE StopClear
    BY <1>4, <2>2 DEF StopClear
  <2>3. ASSUME NEW j \in Jobs, RequestCancel(j)
        PROVE  EventsInv'
    BY <1>2, <2>3 DEF RequestCancel, Cancel
  <2>4. ASSUME NEW j \in Jobs, StopCancel(j)
        PROVE  EventsInv'
    BY <1>3, <1>6, <2>4 DEF TouchesJob
  <2> QED BY <1>5, <1>8, <2>1, <2>2, <2>3, <2>4 DEF CallerNext
<1>9. CASE UNCHANGED vars
  BY <1>2, <1>9 DEF vars
<1> QED BY <1>7, <1>8, <1>9 DEF ThreadSpecNext

LEMMA EventsInitInv == ThreadInit => EventsInv
<1> SUFFICES ASSUME ThreadInit PROVE EventsInv
  OBVIOUS
<1>1. ThreadInv
  BY InitInv
<1>2. AttemptInv
  BY DEF ThreadInit, JobInit, AttemptInv, Reported, NewJob, NoTransfer
<1>3. DOMAIN Stream = {}
  <2>1. QueueTypeOK
    BY <1>1 DEF ThreadInv, ThreadTypeOK, QueueTypeOK
  <2>2. Stream = <<>> \o <<>>
    BY DEF ThreadInit, QueueInit, Stream
  <2>3. Stream = <<>>
    BY <2>2, ConcatEmptySeq, EmptySeq
  <2> QED BY <2>3
<1> QED BY <1>1, <1>2, <1>3 DEF EventsInv, CompletionInv, CompleteIsLast, OutcomeJustified

-----------------------------------------------------------------------------
(***************************************************************************)
(* The theorems.                                                           *)
(***************************************************************************)

\* The inductive invariant holds of every reachable state.
THEOREM EventsInvHolds == ThreadSafetySpec => []EventsInv
<1> QED BY EventsInitInv, EventsNextInv, PTL DEF ThreadSafetySpec

\* The completion of a job is its last event, and its only completion, whatever mix of
\* retries, cancellations and shutdown ends it.
THEOREM CompletionsAreLast == ThreadSafetySpec => []CompleteIsLast
<1>1. EventsInv => CompleteIsLast
  BY DEF EventsInv
<1> QED BY <1>1, EventsInvHolds, PTL

\* A completion tells what the last attempt met: Ok after a 2xx answer only, HttpError after
\* another, a retryable failure only when no attempt is left, and Cancelled only of a job
\* that was cancelled.
THEOREM OutcomesAreJustified == ThreadSafetySpec => []OutcomeJustified
<1>1. EventsInv => OutcomeJustified
  BY DEF EventsInv
<1> QED BY <1>1, EventsInvHolds, PTL

-----------------------------------------------------------------------------
(***************************************************************************)
(* TransferThread implements TransferService: each step of the thread and  *)
(* of its callers is, under the refinement mapping, one step of the        *)
(* service or none.                                                        *)
(***************************************************************************)

PlainEvent == [kind : {"Complete", "Progress"}, job : Jobs, status : S3Status]
PlainOf(e) == [kind |-> e.kind, job |-> e.job, status |-> e.status]

\* What the mapping says of the jobs and of the cancellations.
Phase == [j \in Jobs |-> PhaseOf(j)]
Asked == cancelRequests \cup cancelTaken

\* One step of the service, or none.
ServiceStep == [Service!ServiceNext]_(Service!allVars)

-----------------------------------------------------------------------------
(***************************************************************************)
(* The events without what they say of HTTP.                               *)
(***************************************************************************)

LEMMA PlainSequence ==
  ASSUME NEW q \in Seq(Event)
  PROVE  /\ Plain(q) \in Seq(PlainEvent) /\ Len(Plain(q)) = Len(q)
         /\ \A i \in 1..Len(q) : Plain(q)[i] = PlainOf(q[i])
<1>1. DOMAIN q = 1..Len(q) /\ Len(q) \in Nat
  BY LenProperties
<1>2. \A i \in 1..Len(q) : PlainOf(q[i]) \in PlainEvent
  <2> SUFFICES ASSUME NEW i \in 1..Len(q) PROVE PlainOf(q[i]) \in PlainEvent
    OBVIOUS
  <2>1. q[i] \in Event
    BY ElementOfSeq
  <2> QED BY <2>1 DEF Event, PlainOf, PlainEvent
<1>3. Plain(q) = [i \in 1..Len(q) |-> PlainOf(q[i])]
  BY <1>1 DEF Plain, PlainOf
<1>4. Plain(q) \in [1..Len(q) -> PlainEvent]
  BY <1>2, <1>3
<1>5. Plain(q) \in Seq(PlainEvent)
  BY <1>1, <1>4, SeqDef
<1>6. Len(Plain(q)) = Len(q)
  BY <1>1, <1>4, <1>5, LenProperties
<1> QED BY <1>3, <1>5, <1>6

LEMMA PlainEmpty ==
  ASSUME NEW q \in Seq(Event)
  PROVE  Plain(q) = <<>> <=> q = <<>>
<1>1. Plain(q) \in Seq(PlainEvent) /\ Len(Plain(q)) = Len(q)
  BY PlainSequence
<1> QED BY <1>1, EmptySeq

LEMMA PlainConcat ==
  ASSUME NEW q \in Seq(Event), NEW r \in Seq(Event)
  PROVE  Plain(q \o r) = Plain(q) \o Plain(r)
<1>1. /\ q \o r \in Seq(Event) /\ Len(q \o r) = Len(q) + Len(r)
      /\ \A i \in 1..Len(q) + Len(r) : (q \o r)[i] = IF i <= Len(q) THEN q[i] ELSE r[i - Len(q)]
  BY ConcatProperties
<1>2. /\ Plain(q) \in Seq(PlainEvent) /\ Plain(r) \in Seq(PlainEvent)
      /\ Len(Plain(q)) = Len(q) /\ Len(Plain(r)) = Len(r)
      /\ Len(q) \in Nat /\ Len(r) \in Nat
      /\ \A i \in 1..Len(q) : Plain(q)[i] = PlainOf(q[i])
      /\ \A i \in 1..Len(r) : Plain(r)[i] = PlainOf(r[i])
  BY PlainSequence, LenProperties
<1>3. /\ Plain(q \o r) \in Seq(PlainEvent) /\ Len(Plain(q \o r)) = Len(q) + Len(r)
      /\ \A i \in 1..Len(q) + Len(r) : Plain(q \o r)[i] = PlainOf((q \o r)[i])
  BY <1>1, PlainSequence
<1>4. /\ Plain(q) \o Plain(r) \in Seq(PlainEvent)
      /\ Len(Plain(q) \o Plain(r)) = Len(q) + Len(r)
      /\ \A i \in 1..Len(q) + Len(r) : (Plain(q) \o Plain(r))[i] =
           IF i <= Len(q) THEN Plain(q)[i] ELSE Plain(r)[i - Len(q)]
  <2>a. Plain(q) \in Seq(PlainEvent) /\ Plain(r) \in Seq(PlainEvent)
    BY <1>2
  <2>1. /\ Plain(q) \o Plain(r) \in Seq(PlainEvent)
        /\ Len(Plain(q) \o Plain(r)) = Len(Plain(q)) + Len(Plain(r))
        /\ \A i \in 1..Len(Plain(q)) + Len(Plain(r)) : (Plain(q) \o Plain(r))[i] =
             IF i <= Len(Plain(q)) THEN Plain(q)[i] ELSE Plain(r)[i - Len(Plain(q))]
    BY ONLY <2>a, ConcatProperties
  <2> QED BY <1>2, <2>1
<1>5. ASSUME NEW i \in 1..Len(q) + Len(r)
      PROVE  Plain(q \o r)[i] = (Plain(q) \o Plain(r))[i]
  <2>1. CASE i <= Len(q)
    BY <1>1, <1>2, <1>3, <1>4, <2>1
  <2>2. CASE ~(i <= Len(q))
    <3>1. i - Len(q) \in 1..Len(r)
      BY <1>2, <2>2
    <3> QED BY <1>1, <1>2, <1>3, <1>4, <2>2, <3>1
  <2> QED BY <2>1, <2>2
<1> QED BY <1>3, <1>4, <1>5, SeqEqual

LEMMA PlainOne ==
  ASSUME NEW e \in Event
  PROVE  Plain(<<e>>) = <<PlainOf(e)>>
<1>1. <<e>> \in Seq(Event) /\ Len(<<e>>) = 1 /\ <<e>>[1] = e
  OBVIOUS
<1>2. /\ Plain(<<e>>) \in Seq(PlainEvent) /\ Len(Plain(<<e>>)) = 1
      /\ Plain(<<e>>)[1] = PlainOf(e)
  <2> DEFINE q == <<e>>
  <2>1. q \in Seq(Event) /\ Len(q) = 1 /\ q[1] = e
    BY <1>1
  <2> HIDE DEF q
  <2>2. Plain(q) \in Seq(PlainEvent) /\ Len(Plain(q)) = 1 /\ Plain(q)[1] = PlainOf(q[1])
    BY <2>1, PlainSequence
  <2> QED BY <2>1, <2>2 DEF q
<1>3. PlainOf(e) \in PlainEvent
  BY DEF PlainOf, PlainEvent, Event
<1>4. /\ <<PlainOf(e)>> \in Seq(PlainEvent)
      /\ Len(<<PlainOf(e)>>) = 1 /\ <<PlainOf(e)>>[1] = PlainOf(e)
  BY <1>3
<1> QED BY <1>2, <1>4, SeqEqual

\* The queue of the thread is the queue of the service.
LEMMA PlainPost ==
  ASSUME QueueTypeOK, posting = <<>>, NEW e \in Event, Post(e)
  PROVE  Service!Post(PlainOf(e)) /\ Plain(posting) = <<>>
<1>1. <<>> \in Seq(Event)
  OBVIOUS
<1>2. Plain(<<>>) = <<>>
  BY <1>1, PlainEmpty
<1>3. Plain(posting)' = IF enabled THEN <<PlainOf(e)>> ELSE <<>>
  <2>1. Plain(posting') = IF enabled THEN <<PlainOf(e)>> ELSE <<>>
    BY <1>2, PlainOne DEF Post
  <2> QED BY <2>1 DEF Plain
<1>4. Plain(events)' = Plain(events)
  BY DEF Post, Plain
<1> QED BY <1>2, <1>3, <1>4 DEF Post, Service!Post

LEMMA PlainCommit ==
  ASSUME QueueTypeOK, CommitPost
  PROVE  Service!CommitPost
<1>1. <<>> \in Seq(Event) /\ events \in Seq(Event) /\ posting \in Seq(Event)
  BY StreamType, EmptySeq
<1>2. Plain(posting) # <<>>
  BY <1>1, PlainEmpty DEF CommitPost
<1>3. Plain(events)' = Plain(events) \o Plain(posting)
  <2>1. Plain(events') = Plain(events) \o Plain(posting)
    BY <1>1, PlainConcat DEF CommitPost
  <2> QED BY <2>1 DEF Plain
<1>4. Plain(posting)' = <<>>
  <2>1. Plain(posting') = <<>>
    BY <1>1, PlainEmpty DEF CommitPost
  <2> QED BY <2>1 DEF Plain
<1> QED BY <1>2, <1>3, <1>4 DEF CommitPost, Service!CommitPost

LEMMA PlainDrain ==
  ASSUME Drain
  PROVE  Service!Drain
<1>1. Plain(events)' = <<>>
  <2>1. <<>> \in Seq(Event)
    OBVIOUS
  <2>2. Plain(events') = <<>>
    BY <2>1, PlainEmpty DEF Drain
  <2> QED BY <2>2 DEF Plain
<1>2. Plain(posting)' = Plain(posting)
  BY DEF Drain, Plain
<1> QED BY <1>1, <1>2 DEF Drain, Service!Drain

LEMMA PlainUnchanged ==
  ASSUME UNCHANGED queueVars
  PROVE  UNCHANGED Service!queueVars
BY DEF queueVars, Service!queueVars, Plain

-----------------------------------------------------------------------------
(***************************************************************************)
(* The steps.                                                              *)
(***************************************************************************)

\* A step that changes nothing that the mapping looks at is no step of the service.
LEMMA Stutters ==
  ASSUME UNCHANGED queueVars, UNCHANGED <<Phase, Asked, ModeOf>>
  PROVE  ServiceStep
BY PlainUnchanged DEF ServiceStep, Service!allVars, Service!serviceVars, Phase, Asked

\* A request changes its phase only with its place or the end of its job.
LEMMA SamePhase ==
  ASSUME NEW j \in Jobs, job'[j].finished <=> job[j].finished,
         place'[j] = "unused" <=> place[j] = "unused",
         ~job[j].finished => (place'[j] = "destroyed" <=> place[j] = "destroyed")
  PROVE  PhaseOf(j)' = PhaseOf(j)
BY DEF PhaseOf

\* While the thread is in its loop, or Stop in its own, the service is at work.
LEMMA WorkMode ==
  ASSUME ThreadInv, pc \notin {"unborn", "exited"} \/ caller = "joining"
  PROVE  ModeOf \in {"up", "stopping"}
BY DEF ThreadInv, RunState, ThreadTypeOK, CallerPCs, ModeOf

\* A step of a job is the end of its request, a report of its progress, or nothing.
LEMMA JobStepMaps ==
  ASSUME ThreadInv, NEW j \in Jobs, JobSteps(j), place[j] \in {"admitting", "active"},
         place'[j] = "active", \A k \in Jobs \ {j} : place'[k] = place[k],
         UNCHANGED ModeOf, ModeOf \in {"up", "stopping"},
         IF job'[j].cancelRequested
         THEN Asked' \in {Asked, Asked \ {j}} /\ (j \in Asked \/ ModeOf = "stopping")
         ELSE UNCHANGED Asked
  PROVE  ServiceStep
<1>0. QueueTypeOK
  BY DEF ThreadInv, ThreadTypeOK, QueueTypeOK
<1>1. PhaseOf(j) = "live"
  BY DEF JobSteps, PhaseOf
<1>2. \A k \in Jobs \ {j} : PhaseOf(k)' = PhaseOf(k)
  BY SamePhase DEF JobSteps
<1>3. ASSUME NEW status \in S3Status, NEW http \in HttpClasses \cup {NoResponse},
             posting = <<>>, Post(CompleteEvent(j, status, http)), job'[j].finished,
             status = "Cancelled" <=> job'[j].cancelRequested
      PROVE  ServiceStep
  <2>1. /\ CompleteEvent(j, status, http) \in Event
        /\ PlainOf(CompleteEvent(j, status, http)) = Service!Complete(j, status)
    BY EventTypes DEF CompleteEvent, PlainOf, Service!Complete
  <2>2. Service!Post(Service!Complete(j, status)) /\ Plain(posting) = <<>>
    BY <1>0, <1>3, <2>1, PlainPost
  <2>3. PhaseOf(j)' = "ended"
    BY <1>3 DEF PhaseOf
  <2>4. Phase' = [Phase EXCEPT ![j] = "ended"]
    BY <1>2, <2>3 DEF Phase
  <2>5. CASE status # "Cancelled"
    <3>1. Service!EndJob(j)
      BY <1>1, <1>3, <2>2, <2>4, <2>5 DEF Service!EndJob, Service!Working, Phase, Asked
    <3> QED BY <3>1 DEF ServiceStep, Service!ServiceNext, Service!WorkNext
  <2>6. CASE status = "Cancelled"
    <3>1. Service!EndCancelled(j)
      BY <1>1, <1>3, <2>2, <2>4, <2>6 DEF Service!EndCancelled, Service!Working, Phase, Asked
    <3> QED BY <3>1 DEF ServiceStep, Service!ServiceNext, Service!WorkNext
  <2> QED BY <2>5, <2>6
<1>4. ASSUME ~job'[j].finished
      PROVE  UNCHANGED <<Phase, Asked>>
  <2>1. PhaseOf(j)' = PhaseOf(j)
    BY <1>4, SamePhase DEF JobSteps
  <2>2. ~job'[j].cancelRequested
    BY <1>4 DEF JobSteps, Reported
  <2> QED BY <1>2, <2>1, <2>2 DEF Phase
<1>5. ASSUME posting = <<>>, Post(ProgressEvent(j)), ~job'[j].finished
      PROVE  ServiceStep
  <2>1. /\ ProgressEvent(j) \in Event
        /\ PlainOf(ProgressEvent(j)) = Service!Progress(j)
    BY EventTypes DEF ProgressEvent, PlainOf, Service!Progress, S3Status
  <2>2. Service!Post(Service!Progress(j)) /\ Plain(posting) = <<>>
    BY <1>0, <1>5, <2>1, PlainPost
  <2>3. Service!ReportProgress(j)
    BY <1>1, <1>4, <1>5, <2>2
       DEF Service!ReportProgress, Service!Working, Service!serviceVars, Phase, Asked
  <2> QED BY <2>3 DEF ServiceStep, Service!ServiceNext, Service!WorkNext
<1>6. CASE UNCHANGED queueVars /\ ~job'[j].finished
  BY <1>4, <1>6, Stutters
<1> QED BY <1>3, <1>5, <1>6 DEF JobSteps

\* A cancellation that finds its job finished is forgotten, unless it was asked for again.
LEMMA ForgetMaps ==
  ASSUME EventsInv, NEW j \in Jobs, ApplyCancellation(j), ~(place[j] = "active" /\ ~job[j].finished)
  PROVE  ServiceStep
<1> USE DEF ApplyCancellation
<1>1. UNCHANGED <<Phase, ModeOf>> /\ UNCHANGED queueVars
  BY DEF jobVars, Phase, PhaseOf, ModeOf
<1>2. CASE j \in cancelRequests
  BY <1>1, <1>2, Stutters DEF Asked
<1>3. CASE j \notin cancelRequests
  <2>1. PhaseOf(j) # "live"
    BY DEF EventsInv, ThreadInv, Handover, RunState, InLoop, PhaseOf
  <2>2. Asked' = Asked \ {j} /\ j \in Asked
    BY <1>3 DEF Asked
  <2>3. Plain(posting) = <<>>
    <3>1. <<>> \in Seq(Event)
      OBVIOUS
    <3> QED BY <3>1, PlainEmpty DEF InLoop
  <2>4. ModeOf \in {"up", "stopping"}
    BY WorkMode DEF InLoop, EventsInv
  <2>5. Service!ForgetCancel(j)
    BY <1>1, <2>1, <2>2, <2>3, <2>4, PlainUnchanged
       DEF Service!ForgetCancel, Service!Working, Service!queueVars, Phase, Asked
  <2> QED BY <2>5 DEF ServiceStep, Service!ServiceNext, Service!WorkNext
<1> QED BY <1>2, <1>3

LEMMA TouchMaps ==
  ASSUME EventsInv, NEW j \in Jobs, TouchesJob(j)
  PROVE  ServiceStep
<1>0. ThreadInv /\ AttemptInv
  BY DEF EventsInv
<1>1. JobSteps(j) /\ (job'[j].cancelRequested => ApplyCancellation(j) \/ StopCancel(j))
  BY <1>0, TouchedJobSteps
<1>2. /\ place[j] \in {"admitting", "active"} /\ place'[j] = "active"
      /\ \A k \in Jobs \ {j} : place'[k] = place[k]
      /\ UNCHANGED caller
      /\ pc \notin {"unborn", "exited"} \/ caller = "joining"
  <2>1. CASE AdmitIncoming(j)
    BY <1>0, <2>1 DEF AdmitIncoming, InLoop, ThreadInv, ThreadTypeOK
  <2>2. CASE StartDueRetry(j) \/ ApplyCancellation(j) \/ StopCancel(j)
    BY <2>2 DEF TouchesJob, StartDueRetry, ApplyCancellation, StopCancel, InLoop, threadVars,
                AdmitIncoming, PerformData, PerformDone, ReapCompleted
  <2>3. CASE PerformData(j) \/ PerformDone(j) \/ ReapCompleted(j)
    <3>1. transfer[j].phase # "none"
      BY <2>3 DEF PerformData, PerformDone, CurlRespond, CurlProgress, CurlDone, ReapCompleted
    <3>2. place[j] = "active"
      BY <1>0, <3>1 DEF ThreadInv, Lifecycle, Fresh, Dead, ThreadTypeOK, Places
    <3> QED BY <2>3, <3>2 DEF PerformData, PerformDone, ReapCompleted, InLoop, threadVars
  <2> QED BY <2>1, <2>2, <2>3 DEF TouchesJob
<1>3. UNCHANGED ModeOf /\ ModeOf \in {"up", "stopping"}
  BY <1>0, <1>2, WorkMode DEF ModeOf
<1>4. CASE ApplyCancellation(j)
  <2>1. Asked' \in {Asked, Asked \ {j}} /\ j \in Asked
    BY <1>4 DEF ApplyCancellation, Asked
  <2>2. place[j] = "active" /\ ~job[j].finished /\ posting = <<>>
    BY <1>0, <1>1, <1>2, <1>4 DEF ApplyCancellation, JobSteps, InLoop, ThreadInv, Handover
  <2>3. CancelJob(j)
    BY <1>4, <2>2 DEF ApplyCancellation
  <2>4. job'[j].cancelRequested
    BY <1>0, <2>2, <2>3, CancelSteps DEF ThreadInv
  <2> QED BY <1>0, <1>1, <1>2, <1>3, <2>1, <2>4, JobStepMaps
<1>5. CASE StopCancel(j)
  <2>1. UNCHANGED Asked /\ ModeOf = "stopping"
    BY <1>5 DEF StopCancel, threadVars, Asked, ModeOf
  <2> QED BY <1>0, <1>1, <1>2, <1>3, <2>1, JobStepMaps
<1>6. CASE ~ApplyCancellation(j) /\ ~StopCancel(j)
  <2>1. UNCHANGED Asked
    BY <1>6 DEF TouchesJob, AdmitIncoming, StartDueRetry, PerformData, PerformDone, ReapCompleted,
                threadVars, Asked
  <2> QED BY <1>0, <1>1, <1>2, <1>3, <1>6, <2>1, JobStepMaps
<1> QED BY <1>4, <1>5, <1>6

\* What the loop does besides touching jobs.
LEMMA ThreadMaps ==
  ASSUME EventsInv, EventsInv', ThreadNext
  PROVE  ServiceStep
<1>0. ThreadInv /\ ThreadTypeOK /\ QueueTypeOK /\ AttemptInv
  BY DEF EventsInv, ThreadInv, ThreadTypeOK, QueueTypeOK
<1>1. CASE FinishPost
  <2>1. Service!CommitPost /\ UNCHANGED <<Phase, Asked, ModeOf>>
    BY <1>0, <1>1, PlainCommit DEF FinishPost, jobVars, threadVars, Phase, PhaseOf, Asked, ModeOf
  <2>2. Service!DeliverPost
    BY <2>1 DEF Service!DeliverPost, Service!serviceVars, Phase, Asked
  <2> QED BY <2>2 DEF ServiceStep, Service!ServiceNext, Service!WorkNext
<1>2. CASE CheckRunning \/ EndAdmit \/ EndCancel \/ EndRetry \/ EndPerform \/ EndReap \/ PollReturn
  BY <1>2, Stutters DEF CheckRunning, EndAdmit, EndCancel, EndRetry, EndPerform, EndReap,
     PollReturn, GoTo, jobVars, Phase, PhaseOf, Asked, ModeOf
<1>3. CASE TakePending
  <2>1. UNCHANGED <<Asked, ModeOf>>
    BY <1>0, <1>3 DEF TakePending, InLoop, ThreadInv, Handover, Asked, ModeOf
  <2>2. \A j \in Jobs : PhaseOf(j)' = PhaseOf(j)
    BY <1>3, SamePhase DEF TakePending, jobVars
  <2> QED BY <1>3, <2>1, <2>2, Stutters DEF TakePending, Phase
<1>4. CASE RemoveFinished
  <2>1. UNCHANGED <<Asked, ModeOf>> /\ UNCHANGED queueVars
    BY <1>4 DEF RemoveFinished, Asked, ModeOf
  <2>2. ASSUME NEW j \in Jobs PROVE PhaseOf(j)' = PhaseOf(j)
    <3>1. job'[j].finished <=> job[j].finished
      BY <1>0, <1>4, DestroyedJobs DEF RemoveFinished
    <3>2. place'[j] = IF j \in Removable THEN "destroyed" ELSE place[j]
      BY <1>4 DEF RemoveFinished
    <3> QED BY <3>1, <3>2, SamePhase DEF Removable, At
  <2> QED BY <2>1, <2>2, Stutters DEF Phase
<1>5. ASSUME NEW j \in Jobs, ApplyCancellation(j)
      PROVE  ServiceStep
  BY <1>5, ForgetMaps, TouchMaps DEF TouchesJob
<1> QED BY <1>1, <1>2, <1>3, <1>4, <1>5, TouchMaps DEF ThreadNext, TouchesJob

\* What the callers do besides cancelling the jobs that Stop finds.
LEMMA CallerMaps ==
  ASSUME EventsInv, EventsInv', CallerNext
  PROVE  ServiceStep
<1>0. ThreadInv /\ ThreadTypeOK /\ QueueTypeOK /\ AttemptInv
  BY DEF EventsInv, ThreadInv, ThreadTypeOK, QueueTypeOK
<1>1. CASE Start
  <2>1. Service!StartService
    BY <1>1, PlainUnchanged
       DEF Start, jobVars, Service!StartService, Service!queueVars, ModeOf, PhaseOf
  <2> QED BY <2>1 DEF ServiceStep, Service!ServiceNext
<1>2. CASE Wakeup \/ Stopped
  BY <1>2, Stutters DEF Wakeup, Stopped, vars, jobVars, threadVars, Phase, PhaseOf, Asked, ModeOf
<1>3. CASE GameFrame
  <2>1. Service!DrainEvents
    BY <1>3, PlainDrain
       DEF GameFrame, jobVars, threadVars, Service!DrainEvents, Service!serviceVars, ModeOf, PhaseOf
  <2> QED BY <2>1 DEF ServiceStep, Service!ServiceNext
<1>4. CASE DisableQueue
  <2>1. Service!Disable
    BY <1>4 DEF DisableQueue, SetEnabled, jobVars, threadVars, Service!Disable, Service!SetEnabled,
                Service!serviceVars, ModeOf, PhaseOf, Plain
  <2> QED BY <2>1 DEF ServiceStep, Service!ServiceNext
<1>5. CASE Shutdown
  <2>1. Service!StopService
    BY <1>5, PlainUnchanged
       DEF Shutdown, Stop, jobVars, Service!StopService, Service!queueVars, ModeOf, PhaseOf
  <2> QED BY <2>1 DEF ServiceStep, Service!ServiceNext
<1>6. CASE StopClear
  <2>1. /\ UNCHANGED queueVars /\ UNCHANGED Asked /\ ModeOf = "stopping" /\ ModeOf' = "stopped"
        /\ posting = <<>> /\ pc = "exited"
    BY <1>6 DEF StopClear, Asked, ModeOf
  <2>2. Plain(posting) = <<>>
    <3>1. <<>> \in Seq(Event)
      OBVIOUS
    <3> QED BY <2>1, <3>1, PlainEmpty
  <2>3. ASSUME NEW j \in Jobs
        PROVE  PhaseOf(j)' = IF PhaseOf(j) = "live" THEN "lost" ELSE PhaseOf(j)
    <3>1. job'[j].finished <=> job[j].finished
      BY <1>0, <1>6, DestroyedJobs DEF StopClear
    <3>2. place'[j] = IF place[j] \in {"active", "incoming"} THEN "destroyed" ELSE place[j]
      BY <1>6 DEF StopClear, At
    <3>3. place[j] = "active" => job[j].finished
      BY <1>0, <1>6 DEF StopClear, At, AttemptInv, Reported
    <3>4. place[j] \in {"unused", "incoming", "active", "destroyed"}
      BY <1>0, <2>1 DEF ThreadInv, Handover, ThreadTypeOK, Places
    <3> QED BY <3>1, <3>2, <3>3, <3>4 DEF PhaseOf
  <2>4. Phase' = [j \in Jobs |-> IF Phase[j] = "live" THEN "lost" ELSE Phase[j]]
    BY <2>3 DEF Phase
  <2>5. Service!StopReturned
    BY <2>1, <2>2, <2>4, PlainUnchanged DEF Service!StopReturned, Service!queueVars, Phase, Asked
  <2> QED BY <2>5 DEF ServiceStep, Service!ServiceNext
<1>7. ASSUME NEW j \in Jobs, Submit(j)
      PROVE  ServiceStep
  <2>1. PICK op \in Ops : Enqueue(j, op)
    BY <1>7 DEF Submit
  <2>2. /\ job'[j] = NewJob(op) /\ place[j] = "unused" /\ place'[j] = "incoming"
        /\ \A k \in Jobs \ {j} : job'[k] = job[k] /\ place'[k] = place[k]
        /\ UNCHANGED queueVars /\ UNCHANGED Asked /\ ModeOf = "up" /\ ModeOf' = "up"
    BY <1>0, <2>1 DEF Enqueue, ThreadTypeOK, Asked, ModeOf
  <2>3. PhaseOf(j) = "unused" /\ PhaseOf(j)' = "live"
    BY <2>2 DEF PhaseOf, NewJob
  <2>4. \A k \in Jobs \ {j} : PhaseOf(k)' = PhaseOf(k)
    BY <2>2, SamePhase
  <2>5. Phase' = [Phase EXCEPT ![j] = "live"]
    BY <2>3, <2>4 DEF Phase
  <2>6. Service!EnqueueJob(j)
    BY <2>2, <2>3, <2>5, PlainUnchanged DEF Service!EnqueueJob, Service!queueVars, Phase, Asked
  <2> QED BY <2>6 DEF ServiceStep, Service!ServiceNext
<1>8. ASSUME NEW j \in Jobs, RequestCancel(j)
      PROVE  ServiceStep
  <2>1. /\ Asked' = Asked \cup {j} /\ UNCHANGED Phase /\ ModeOf = "up" /\ ModeOf' = "up"
        /\ UNCHANGED queueVars
    BY <1>8 DEF RequestCancel, Cancel, jobVars, Asked, Phase, PhaseOf, ModeOf
  <2>2. Service!AskCancel(j)
    BY <2>1, PlainUnchanged DEF Service!AskCancel, Service!queueVars, Phase, Asked
  <2> QED BY <2>2 DEF ServiceStep, Service!ServiceNext
<1>9. ASSUME NEW j \in Jobs, StopCancel(j)
      PROVE  ServiceStep
  <2>1. CASE ~job[j].finished
    BY <1>9, <2>1, TouchMaps DEF TouchesJob
  <2>2. CASE job[j].finished
    <3>1. /\ UNCHANGED queueVars
          /\ \A k \in Jobs : job'[k].finished <=> job[k].finished
      BY <1>0, <1>9, <2>2, StopCancelFinished
    <3>2. UNCHANGED <<place, Asked, ModeOf>>
      BY <1>9 DEF StopCancel, threadVars, Asked, ModeOf
    <3>3. \A k \in Jobs : PhaseOf(k)' = PhaseOf(k)
      BY <3>1, <3>2, SamePhase
    <3> QED BY <3>1, <3>2, <3>3, Stutters DEF Phase
  <2> QED BY <2>1, <2>2
<1> QED BY <1>1, <1>2, <1>3, <1>4, <1>5, <1>6, <1>7, <1>8, <1>9 DEF CallerNext

LEMMA InitMaps == ThreadInit => Service!ServiceInit
<1> SUFFICES ASSUME ThreadInit PROVE Service!ServiceInit
  OBVIOUS
<1> USE DEF ThreadInit, QueueInit, JobInit
<1>1. Plain(events) = <<>> /\ Plain(posting) = <<>>
  <2>1. <<>> \in Seq(Event)
    OBVIOUS
  <2> QED BY <2>1, PlainEmpty
<1>2. \A j \in Jobs : PhaseOf(j) = "unused"
  BY DEF PhaseOf
<1> QED BY <1>1, <1>2 DEF Service!ServiceInit, Service!QueueInit, ModeOf

-----------------------------------------------------------------------------
\* The thread does what the extension relies on: every request that is taken ends with one
\* completion unless Stop throws it away, events keep their order and none follows the
\* completion, a request ends Cancelled only if a cancellation was asked for or Stop is under
\* way, and a cancellation is dropped only when its request has ended.
THEOREM ThreadImplementsService == ThreadSafetySpec => ImplementsService
<1>1. EventsInv /\ EventsInv' /\ [ThreadSpecNext]_vars => ServiceStep
  <2> SUFFICES ASSUME EventsInv, EventsInv', [ThreadSpecNext]_vars PROVE ServiceStep
    OBVIOUS
  <2>1. CASE UNCHANGED vars
    BY <2>1, Stutters DEF vars, jobVars, threadVars, Phase, PhaseOf, Asked, ModeOf
  <2> QED BY <2>1, ThreadMaps, CallerMaps DEF ThreadSpecNext
<1> QED BY <1>1, InitMaps, EventsInvHolds, PTL
        DEF ThreadSafetySpec, ImplementsService, Service!ServiceSafety, ServiceStep
=============================================================================
