----------------------------- MODULE RetryTimer -----------------------------
(***************************************************************************)
(* When a retry is tried: the delay ScheduleRetry draws, the deadline it   *)
(* sets, and the loop that sleeps in curl_multi_poll until the next one    *)
(* (src/src/s3job.cpp, src/src/transfer_thread.cpp).                       *)
(*                                                                         *)
(* Time is counted in ticks.  A pass of the loop takes at most PassTime of *)
(* them (disk writes and callbacks block it), and poll at most what        *)
(* ComputeWaitMs allows; it may return before that for any socket or       *)
(* wakeup.  remaining is m_retryAt less the present, negative when late.   *)
(***************************************************************************)
EXTENDS Integers, FiniteSetsExt

CONSTANTS
  Jobs,         \* jobs that fail and are tried again
  MaxRetries,   \* [Jobs -> config.maxRetries]
  BackoffBase,  \* kBackoffBaseMs
  BackoffCap,   \* kBackoffCapMs
  MaxWait,      \* kMaxWaitMs
  PassTime      \* bound of the model: how long a pass of the loop may take

ASSUME RetryTimerAssumption ==
  /\ MaxRetries \in [Jobs -> Int]
  /\ BackoffBase \in Nat \ {0} /\ BackoffCap \in Nat /\ BackoffBase <= BackoffCap
  /\ MaxWait \in Nat /\ PassTime \in Nat

\* Arithmetic the provers do not know: what the shifts of ScheduleRetry are.
ASSUME ShiftAssumption ==
  /\ 2^0 = 1
  /\ \A n \in 0..10 : 2^n \in Nat
  /\ \A n \in 0..9 : 2^(n + 1) = 2 * 2^n

VARIABLES
  timer,     \* [Jobs -> the S3Job members of the retry, and since]
  pc,        \* where Run is
  wait,      \* what is left of the timeout of curl_multi_poll
  passTime   \* ticks spent in this pass

retryVars == <<timer, pc, wait, passTime>>

\* since is a history: the ticks since the last attempt ended.
NewTimer == [phase |-> "attempt", attempt |-> 1, remaining |-> 0, since |-> 0]

RetryInit ==
  /\ timer = [j \in Jobs |-> NewTimer]
  /\ pc = "take" /\ wait = 0 /\ passTime = 0

Waiting == {j \in Jobs : timer[j].phase = "waiting"}

-----------------------------------------------------------------------------
\* Mutant: the exponent counts the attempt that is to come.
BackoffFromNext(attempt) ==
  LET exponent == Min({attempt, 10})
  IN Min({BackoffCap, BackoffBase * 2^exponent})
\* The base of the delay.  In ms the product is at most 1000 * 2^10 and fits a 32-bit long.
Backoff(attempt) ==
  LET exponent == Min({attempt - 1, 10})
  IN Min({BackoffCap, BackoffBase * 2^exponent})

\* The base, more or less a quarter of it.
Delays(attempt) ==
  LET base == Backoff(attempt)
  IN {base + jitter : jitter \in -(base \div 4)..(base \div 4)}

\* Mutant: one attempt too many.
CanRetryOnceMore(j) == timer[j].attempt <= MaxRetries[j] + 1
CanRetry(j) == timer[j].attempt <= MaxRetries[j]

\* OnAttemptDone: ScheduleRetry after a failure that can be retried, or the end.
AttemptDone(j) ==
  /\ pc = "perform"
  /\ timer[j].phase = "attempt"
  /\ \/ /\ CanRetry(j)
        /\ \E delay \in Delays(timer[j].attempt) :
             timer' = [timer EXCEPT ![j] =
                         [phase |-> "waiting", attempt |-> @.attempt, remaining |-> delay,
                          since |-> 0]]
     \/ timer' = [timer EXCEPT ![j].phase = "over"]
  /\ UNCHANGED <<pc, wait, passTime>>

\* ApplyCancellations takes a waiting job like any other.
Cancel(j) ==
  /\ pc = "take"
  /\ timer[j].phase # "over"
  /\ timer' = [timer EXCEPT ![j].phase = "over"]
  /\ UNCHANGED <<pc, wait, passTime>>

IsRetryDue(j) == j \in Waiting /\ timer[j].remaining <= 0

\* One reading of the clock serves every job; BeginAttempt may fail and end its job.
StartDueRetries ==
  /\ pc = "take"
  /\ \E failed \in SUBSET {j \in Jobs : IsRetryDue(j)} :
       timer' = [j \in Jobs |->
         IF IsRetryDue(j)
         THEN [timer[j] EXCEPT !.phase = IF j \in failed THEN "over" ELSE "attempt",
                               !.attempt = @ + 1]
         ELSE timer[j]]
  /\ pc' = "perform"
  /\ UNCHANGED <<wait, passTime>>

\* Mutant: the latest deadline decides.
ComputeWaitOfLatest ==
  IF Waiting = {} THEN MaxWait
  ELSE Min({MaxWait, Max({0} \cup {timer[j].remaining : j \in Waiting})})
\* ComputeWaitMs: until the first deadline, but no longer than kMaxWaitMs.
ComputeWait == Min({MaxWait} \cup {Max({0, timer[j].remaining}) : j \in Waiting})

EnterPoll ==
  /\ pc = "perform"
  /\ pc' = "poll"
  /\ wait' = ComputeWait
  /\ UNCHANGED <<timer, passTime>>

PollReturn ==
  /\ pc = "poll"
  /\ pc' = "take"
  /\ wait' = 0 /\ passTime' = 0
  /\ UNCHANGED timer

\* The steady clock runs for every job that waits.
Elapse ==
  timer' = [j \in Jobs |->
    IF j \in Waiting THEN [timer[j] EXCEPT !.remaining = @ - 1, !.since = @ + 1]
    ELSE timer[j]]

\* A tick, in poll until it has to return, in a pass while the pass may last.
Tick ==
  /\ Elapse
  /\ IF pc = "poll"
     THEN wait > 0 /\ wait' = wait - 1 /\ UNCHANGED passTime
     ELSE passTime < PassTime /\ passTime' = passTime + 1 /\ UNCHANGED wait
  /\ UNCHANGED pc

RetryNext ==
  \/ StartDueRetries \/ EnterPoll \/ PollReturn \/ Tick
  \/ \E j \in Jobs : AttemptDone(j) \/ Cancel(j)

RetrySpec == RetryInit /\ [][RetryNext]_retryVars

-----------------------------------------------------------------------------
(***************************************************************************)
(* Correctness.                                                            *)
(***************************************************************************)

Lateness == 2 * PassTime

RetryTypeOK ==
  /\ \A j \in Jobs :
       LET t == timer[j]
       IN /\ t.phase \in {"attempt", "waiting", "over"}
          /\ t.attempt \in Nat \ {0} /\ t.attempt <= 1 + Max({0, MaxRetries[j]})
          /\ t.remaining \in Int /\ t.since \in Nat
  /\ pc \in {"take", "perform", "poll"}
  /\ wait \in 0..MaxWait /\ passTime \in 0..PassTime

\* A retry is late by the rest of one pass and the start of the next at most: the thread
\* never sleeps past a deadline, whichever of several jobs has the earliest and whatever
\* attempts fail or begin in the pass.
RetriesOnTime == \A j \in Waiting : timer[j].remaining >= -Lateness

\* The reference: the delay doubles with every attempt that failed, up to the cap.
Doubled[n \in Nat \ {0}] ==
  IF n = 1 THEN BackoffBase ELSE Min({BackoffCap, 2 * Doubled[n - 1]})

\* "Automatic retries with exponential backoff": the time from the end of an attempt to the
\* beginning of the next is the doubled delay, up to a quarter of it and the lateness, and
\* a job that is cancelled or out of retries begins none.
BacksOff ==
  [][\A j \in Jobs :
       timer'[j].attempt # timer[j].attempt =>
         LET t == timer[j]
             due == Doubled[t.attempt]
         IN /\ t.phase = "waiting"
            /\ t.attempt <= MaxRetries[j]
            /\ t.since \in (due - due \div 4)..(due + due \div 4 + Lateness)]_retryVars
=============================================================================
