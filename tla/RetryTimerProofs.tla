------------------------- MODULE RetryTimerProofs -------------------------
(***************************************************************************)
(* No retry is late by more than two passes, whatever number of jobs there *)
(* are, whatever their settings and however long a pass may take.          *)
(***************************************************************************)
EXTENDS RetryTimer, FiniteSetTheorems, TLAPS

-----------------------------------------------------------------------------
(***************************************************************************)
(* Least and greatest elements.                                            *)
(***************************************************************************)

\* Any set of naturals has a least element: of the initial segments below its elements,
\* those within the segment of one of them are finite, and one is minimal.
LEMMA LeastNatural ==
  ASSUME NEW S, S \subseteq Nat, S # {}
  PROVE  \E x \in S : \A y \in S : x <= y
<1> PICK top \in S : TRUE
  OBVIOUS
<1> DEFINE I == 0..top
           Below(y) == {z \in I : z < y}
           T == {Below(y) : y \in S \cap I}
<1>1. IsFiniteSet(I)
  <2>1. 0 \in Int /\ top \in Int
    OBVIOUS
  <2> QED BY <2>1, FS_Interval
<1>2. T \subseteq SUBSET I
  OBVIOUS
<1>3. T \subseteq FiniteSubsetsOf(I)
  <2>1. FiniteSubsetsOf(I) = SUBSET I
    BY <1>1, FS_FiniteSubsetsOfFinite
  <2> HIDE DEF T
  <2> QED BY <1>2, <2>1
<1>4. T # {}
  <2>1. top \in S \cap I
    OBVIOUS
  <2> QED BY <2>1
<1>5. IsWellFoundedOn(StrictSubsetOrdering(I), FiniteSubsetsOf(I))
  BY FS_StrictSubsetOrderingWellFounded
<1>6. \E L \in T : \A M \in T : ~(<<M, L>> \in StrictSubsetOrdering(I))
  <2> HIDE DEF T, I
  <2> QED BY <1>3, <1>4, <1>5, WFMin
<1>7. PICK x \in S \cap I : \A M \in T : ~(<<M, Below(x)>> \in StrictSubsetOrdering(I))
  BY <1>6
<1>8. ASSUME NEW y \in S, y < x
      PROVE  FALSE
  <2>1. y \in S \cap I /\ y \in Below(x) /\ y \notin Below(y)
    BY <1>8
  <2>2. Below(y) \subseteq Below(x)
    BY <1>8
  <2>3. Below(y) \in SUBSET I /\ Below(x) \in SUBSET I
    OBVIOUS
  <2>4. Below(y) \in T
    BY <2>1
  <2>5. <<Below(y), Below(x)>> \in StrictSubsetOrdering(I)
    <3> HIDE DEF Below, I
    <3> QED BY <2>1, <2>2, <2>3 DEF StrictSubsetOrdering
  <2> QED BY <1>7, <2>4, <2>5
<1>9. x \in Nat /\ \A y \in S : y \in Nat /\ ~(y < x)
  BY <1>8
<1> QED BY <1>9

\* What Min returns for a set of naturals.
LEMMA MinIsLeast ==
  ASSUME NEW S, S \subseteq Nat, S # {}
  PROVE  Min(S) \in S /\ \A y \in S : Min(S) <= y
BY LeastNatural DEF Min

\* What Max returns for zero and an integer.
LEMMA MaxWithZero ==
  ASSUME NEW n \in Int
  PROVE  Max({0, n}) = IF n >= 0 THEN n ELSE 0
<1>1. \E x \in {0, n} : \A y \in {0, n} : x >= y
  <2>1. CASE n >= 0
    BY <2>1
  <2>2. CASE n < 0
    BY <2>2
  <2> QED BY <2>1, <2>2
<1>2. Max({0, n}) \in {0, n} /\ \A y \in {0, n} : Max({0, n}) >= y
  BY <1>1 DEF Max
<1> QED BY <1>2

-----------------------------------------------------------------------------
(***************************************************************************)
(* Delays and sleeps.                                                      *)
(***************************************************************************)

\* No delay is negative, jitter included.
LEMMA DelayIsNatural ==
  ASSUME NEW n \in Nat \ {0}, NEW delay \in Delays(n)
  PROVE  delay \in Nat
<1> DEFINE e == Min({n - 1, 10})
           base == Min({BackoffCap, BackoffBase * 2^e})
<1>1. e \in 0..10
  <2>1. {n - 1, 10} \subseteq Nat /\ {n - 1, 10} # {}
    OBVIOUS
  <2>2. e \in {n - 1, 10} /\ e <= 10
    BY <2>1, MinIsLeast
  <2> QED BY <2>2
<1>2. 2^e \in Nat
  BY <1>1, ShiftAssumption
<1>3. BackoffBase * 2^e \in Nat /\ BackoffCap \in Nat
  <2> HIDE DEF e
  <2>1. \A m \in Nat : BackoffBase * m \in Nat
    BY RetryTimerAssumption
  <2> QED BY <1>2, <2>1, RetryTimerAssumption
<1>4. base \in Nat
  <2> DEFINE S == {BackoffCap, BackoffBase * 2^e}
  <2>1. S \subseteq Nat /\ S # {}
    BY <1>3
  <2> HIDE DEF S
  <2>2. Min(S) \in S
    BY <2>1, MinIsLeast
  <2> QED BY <2>1, <2>2 DEF S
<1>5. PICK jitter \in -(base \div 4)..(base \div 4) : delay = base + jitter
  BY DEF Delays, Backoff
<1> HIDE DEF base
<1> QED BY <1>4, <1>5

\* ComputeWaitMs returns a time that is over no later than any deadline, or none at all.
LEMMA WaitEndsInTime ==
  ASSUME \A j \in Waiting : timer[j].remaining \in Int
  PROVE  /\ ComputeWait \in 0..MaxWait
         /\ \A j \in Waiting :
              ComputeWait <= IF timer[j].remaining >= 0 THEN timer[j].remaining ELSE 0
<1> DEFINE left(j) == Max({0, timer[j].remaining})
           S == {MaxWait} \cup {left(j) : j \in Waiting}
<1>1. \A j \in Waiting :
        left(j) = IF timer[j].remaining >= 0 THEN timer[j].remaining ELSE 0
  BY MaxWithZero
<1>2. \A j \in Waiting : left(j) \in Nat
  BY <1>1
<1>3. S \subseteq Nat /\ S # {} /\ MaxWait \in S
  BY <1>2, RetryTimerAssumption
<1>4. \A j \in Waiting : left(j) \in S
  OBVIOUS
<1>5. ComputeWait = Min(S)
  BY DEF ComputeWait
<1>6. Min(S) \in S /\ \A y \in S : Min(S) <= y
  <2> HIDE DEF S
  <2> QED BY <1>3, MinIsLeast
<1>7. \A j \in Waiting : ComputeWait <= left(j)
  BY <1>4, <1>5, <1>6
<1>8. ComputeWait \in Nat /\ ComputeWait <= MaxWait
  BY <1>3, <1>5, <1>6
<1>9. ComputeWait \in 0..MaxWait
  BY <1>8, RetryTimerAssumption
<1> HIDE DEF left
<1> QED BY <1>1, <1>7, <1>9

-----------------------------------------------------------------------------
(***************************************************************************)
(* The inductive invariant.  What a deadline is missed by is bounded at    *)
(* each place of the loop by the time since the last look at the deadlines *)
(* and, in poll, by the time that is still to be slept.                    *)
(***************************************************************************)

Timer ==
  [phase : {"attempt", "waiting", "over"}, attempt : Nat \ {0}, remaining : Int, since : Nat]

TimerTypes ==
  /\ timer \in [Jobs -> Timer]
  /\ pc \in {"take", "perform", "poll"}
  /\ wait \in 0..MaxWait
  /\ passTime \in 0..PassTime

Budget ==
  \A j \in Jobs :
    /\ timer[j].attempt <= 1 + IF MaxRetries[j] >= 0 THEN MaxRetries[j] ELSE 0
    /\ timer[j].phase = "waiting" => timer[j].attempt <= MaxRetries[j]

Earliest ==
  CASE pc = "take" -> -(PassTime + passTime)
    [] pc = "perform" -> -passTime
    [] pc = "poll" -> wait - passTime

Deadlines ==
  \A j \in Jobs : timer[j].phase = "waiting" => timer[j].remaining >= Earliest

RetryInv == TimerTypes /\ Budget /\ Deadlines

\* At the beginning no job has failed.
LEMMA InitInv == RetryInit => RetryInv
  BY RetryTimerAssumption
     DEF RetryInit, RetryInv, TimerTypes, Timer, Budget, Deadlines, NewTimer

LEMMA StutterInv == RetryInv /\ UNCHANGED retryVars => RetryInv'
  BY DEF RetryInv, TimerTypes, Budget, Deadlines, Earliest, retryVars

\* The bound is an integer, and its times are numbers.
LEMMA Numbers ==
  ASSUME TimerTypes
  PROVE  /\ PassTime \in Nat /\ MaxWait \in Nat /\ wait \in Nat /\ passTime \in Nat
         /\ Earliest \in Int
  BY RetryTimerAssumption DEF TimerTypes, Earliest

\* A step that changes one job, and neither the loop nor its clocks, is judged by that job.
LEMMA OneJobInv ==
  ASSUME RetryInv, NEW j \in Jobs, NEW t \in Timer,
         timer' = [timer EXCEPT ![j] = t],
         UNCHANGED <<pc, wait, passTime>>,
         t.attempt = timer[j].attempt,
         t.phase = "waiting" => t.attempt <= MaxRetries[j] /\ t.remaining >= Earliest
  PROVE  RetryInv'
<1>1. /\ timer' \in [Jobs -> Timer]
      /\ \A i \in Jobs : timer'[i] = IF i = j THEN t ELSE timer[i]
  BY DEF RetryInv, TimerTypes
<1>2. TimerTypes' /\ Earliest' = Earliest
  BY <1>1 DEF RetryInv, TimerTypes, Earliest
<1>3. Budget'
  BY <1>1 DEF RetryInv, Budget
<1>4. Deadlines'
  BY <1>1, <1>2 DEF RetryInv, Deadlines
<1> QED BY <1>2, <1>3, <1>4 DEF RetryInv

LEMMA AttemptDoneInv ==
  ASSUME RetryInv, NEW j \in Jobs, AttemptDone(j)
  PROVE  RetryInv'
<1>1. timer[j] \in Timer /\ timer \in [Jobs -> Timer]
  BY DEF RetryInv, TimerTypes
<1>2. UNCHANGED <<pc, wait, passTime>> /\ pc = "perform"
  BY DEF AttemptDone
<1>3. CASE timer' = [timer EXCEPT ![j].phase = "over"]
  <2> DEFINE t == [timer[j] EXCEPT !.phase = "over"]
  <2>1. t \in Timer /\ t.attempt = timer[j].attempt /\ t.phase = "over"
    BY <1>1 DEF Timer
  <2>2. timer' = [timer EXCEPT ![j] = t]
    BY <1>1, <1>3
  <2> HIDE DEF t
  <2> QED BY <1>2, <2>1, <2>2, OneJobInv
<1>4. ASSUME CanRetry(j), NEW delay \in Delays(timer[j].attempt),
             timer' = [timer EXCEPT ![j] =
                         [phase |-> "waiting", attempt |-> @.attempt, remaining |-> delay,
                          since |-> 0]]
      PROVE  RetryInv'
  <2> DEFINE t == [phase |-> "waiting", attempt |-> timer[j].attempt, remaining |-> delay,
                   since |-> 0]
  <2>1. delay \in Nat
    BY <1>1, DelayIsNatural DEF Timer
  <2>2. t \in Timer /\ t.attempt = timer[j].attempt /\ t.remaining = delay
    BY <1>1, <2>1 DEF Timer
  <2>3. timer' = [timer EXCEPT ![j] = t]
    BY <1>1, <1>4
  <2>4. t.attempt <= MaxRetries[j]
    BY <1>4, <2>2 DEF CanRetry
  <2>5. delay >= Earliest
    BY <1>2, <2>1, Numbers DEF RetryInv, Earliest
  <2> HIDE DEF t
  <2> QED BY <1>2, <2>2, <2>3, <2>4, <2>5, OneJobInv
<1> QED BY <1>3, <1>4 DEF AttemptDone

LEMMA CancelInv ==
  ASSUME RetryInv, NEW j \in Jobs, Cancel(j)
  PROVE  RetryInv'
<1> DEFINE t == [timer[j] EXCEPT !.phase = "over"]
<1>1. timer[j] \in Timer /\ timer \in [Jobs -> Timer]
  BY DEF RetryInv, TimerTypes
<1>2. t \in Timer /\ t.attempt = timer[j].attempt /\ t.phase = "over"
  BY <1>1 DEF Timer
<1>3. timer' = [timer EXCEPT ![j] = t] /\ UNCHANGED <<pc, wait, passTime>>
  BY <1>1 DEF Cancel
<1> HIDE DEF t
<1> QED BY <1>2, <1>3, OneJobInv

\* Every deadline that was missed is dealt with, so those that are left lie ahead.
LEMMA StartDueRetriesInv ==
  ASSUME RetryInv, StartDueRetries
  PROVE  RetryInv'
<1>1. timer \in [Jobs -> Timer] /\ Budget
  BY DEF RetryInv, TimerTypes
<1>2. PICK failed \in SUBSET {j \in Jobs : IsRetryDue(j)} :
        timer' = [j \in Jobs |->
           IF IsRetryDue(j)
           THEN [timer[j] EXCEPT !.phase = IF j \in failed THEN "over" ELSE "attempt",
                                 !.attempt = @ + 1]
           ELSE timer[j]]
  BY DEF StartDueRetries
<1>3. pc' = "perform" /\ UNCHANGED <<wait, passTime>>
  BY DEF StartDueRetries
<1>4. ASSUME NEW j \in Jobs, IsRetryDue(j)
      PROVE  /\ timer'[j] \in Timer
             /\ timer'[j].phase # "waiting"
             /\ timer'[j].attempt = timer[j].attempt + 1
             /\ timer[j].attempt <= MaxRetries[j]
  <2>1. timer[j] \in Timer /\ timer[j].phase = "waiting"
    BY <1>1, <1>4 DEF IsRetryDue, Waiting
  <2>2. timer'[j] = [timer[j] EXCEPT !.phase = IF j \in failed THEN "over" ELSE "attempt",
                                     !.attempt = @ + 1]
    BY <1>2, <1>4
  <2>3. timer[j].attempt <= MaxRetries[j]
    BY <1>1, <2>1 DEF Budget
  <2>4. timer'[j] = [phase |-> IF j \in failed THEN "over" ELSE "attempt",
                     attempt |-> timer[j].attempt + 1,
                     remaining |-> timer[j].remaining, since |-> timer[j].since]
    BY <2>1, <2>2 DEF Timer
  <2> QED BY <2>1, <2>3, <2>4 DEF Timer
<1>5. ASSUME NEW j \in Jobs, ~IsRetryDue(j)
      PROVE  timer'[j] = timer[j]
  BY <1>2, <1>5
<1>6. timer' \in [Jobs -> Timer]
  <2>1. \A j \in Jobs : timer'[j] \in Timer
    BY <1>1, <1>4, <1>5
  <2>2. timer' = [j \in Jobs |-> timer'[j]]
    BY <1>2
  <2> QED BY <2>1, <2>2
<1>7. TimerTypes'
  BY <1>3, <1>6 DEF RetryInv, TimerTypes
<1>8. Budget'
  <2> SUFFICES ASSUME NEW j \in Jobs
               PROVE  /\ timer'[j].attempt
                           <= 1 + IF MaxRetries[j] >= 0 THEN MaxRetries[j] ELSE 0
                      /\ timer'[j].phase = "waiting" => timer'[j].attempt <= MaxRetries[j]
    BY DEF Budget
  <2>1. MaxRetries[j] \in Int /\ timer[j].attempt \in Nat \ {0}
    BY <1>1, RetryTimerAssumption DEF Timer
  <2>2. CASE IsRetryDue(j)
    BY <1>4, <2>1, <2>2
  <2>3. CASE ~IsRetryDue(j)
    BY <1>1, <1>5, <2>3 DEF Budget
  <2> QED BY <2>2, <2>3
<1>9. Deadlines'
  <2> SUFFICES ASSUME NEW j \in Jobs, timer'[j].phase = "waiting"
               PROVE  timer'[j].remaining >= Earliest'
    BY DEF Deadlines
  <2>1. ~IsRetryDue(j) /\ timer'[j] = timer[j]
    BY <1>4, <1>5
  <2>2. timer[j].remaining \in Int /\ timer[j].remaining > 0
    BY <1>1, <2>1 DEF IsRetryDue, Waiting, Timer
  <2>3. Earliest' = -passTime
    BY <1>3 DEF Earliest
  <2> QED BY <2>1, <2>2, <2>3, Numbers DEF RetryInv
<1> QED BY <1>7, <1>8, <1>9 DEF RetryInv

LEMMA EnterPollInv ==
  ASSUME RetryInv, EnterPoll
  PROVE  RetryInv'
<1>1. timer \in [Jobs -> Timer] /\ Budget /\ Deadlines
  BY DEF RetryInv, TimerTypes
<1>2. pc = "perform" /\ pc' = "poll" /\ wait' = ComputeWait /\ UNCHANGED <<timer, passTime>>
  BY DEF EnterPoll
<1>3. /\ ComputeWait \in 0..MaxWait
      /\ \A j \in Waiting :
           ComputeWait <= IF timer[j].remaining >= 0 THEN timer[j].remaining ELSE 0
  BY <1>1, WaitEndsInTime DEF Waiting, Timer
<1>4. TimerTypes' /\ Budget'
  BY <1>2, <1>3 DEF RetryInv, TimerTypes, Budget
<1>5. Deadlines'
  <2> SUFFICES ASSUME NEW j \in Jobs, timer[j].phase = "waiting"
               PROVE  timer[j].remaining >= Earliest'
    BY <1>2 DEF Deadlines
  <2>1. Earliest' = ComputeWait - passTime /\ Earliest = -passTime
    BY <1>2 DEF Earliest
  <2>2. timer[j].remaining \in Int /\ timer[j].remaining >= -passTime
    BY <1>1, <2>1 DEF Timer, Deadlines
  <2>3. ComputeWait \in Nat /\ passTime \in Nat
    BY <1>3, Numbers DEF RetryInv
  <2>4. ComputeWait <= IF timer[j].remaining >= 0 THEN timer[j].remaining ELSE 0
    BY <1>3 DEF Waiting
  <2> HIDE DEF ComputeWait
  <2> QED BY <2>1, <2>2, <2>3, <2>4
<1> QED BY <1>4, <1>5 DEF RetryInv

\* What a pass may have missed is what it still had to sleep, and the time it took.
LEMMA PollReturnInv ==
  ASSUME RetryInv, PollReturn
  PROVE  RetryInv'
<1>1. /\ pc = "poll" /\ pc' = "take" /\ wait' = 0 /\ passTime' = 0
      /\ UNCHANGED timer
  BY DEF PollReturn
<1>2. PassTime \in Nat /\ MaxWait \in Nat /\ wait \in Nat /\ passTime \in 0..PassTime
  BY Numbers DEF RetryInv, TimerTypes
<1>3. TimerTypes' /\ Budget'
  BY <1>1, <1>2 DEF RetryInv, TimerTypes, Budget
<1>4. Deadlines'
  <2> SUFFICES ASSUME NEW j \in Jobs, timer[j].phase = "waiting"
               PROVE  timer[j].remaining >= Earliest'
    BY <1>1 DEF Deadlines
  <2>1. Earliest = wait - passTime /\ Earliest' = -(PassTime + 0)
    BY <1>1 DEF Earliest
  <2>2. timer[j].remaining \in Int /\ timer[j].remaining >= Earliest
    BY DEF RetryInv, TimerTypes, Timer, Deadlines
  <2> QED BY <1>2, <2>1, <2>2
<1> QED BY <1>3, <1>4 DEF RetryInv

\* A tick brings every deadline nearer, and the bound as well.
LEMMA TickInv ==
  ASSUME RetryInv, Tick
  PROVE  RetryInv'
<1>1. timer \in [Jobs -> Timer] /\ Budget /\ Deadlines
  BY DEF RetryInv, TimerTypes
<1>2. /\ timer' = [j \in Jobs |->
          IF j \in Waiting THEN [timer[j] EXCEPT !.remaining = @ - 1, !.since = @ + 1]
          ELSE timer[j]]
      /\ UNCHANGED pc
  BY DEF Tick, Elapse
<1>3. ASSUME NEW j \in Jobs
      PROVE  /\ timer'[j] \in Timer
             /\ timer'[j].phase = timer[j].phase
             /\ timer'[j].attempt = timer[j].attempt
             /\ timer[j].phase = "waiting" => timer'[j].remaining = timer[j].remaining - 1
  <2>1. timer[j] \in Timer
    BY <1>1
  <2>2. CASE j \in Waiting
    <3>1. timer'[j] = [timer[j] EXCEPT !.remaining = @ - 1, !.since = @ + 1]
      BY <1>2, <2>2
    <3>2. timer'[j] = [phase |-> timer[j].phase, attempt |-> timer[j].attempt,
                       remaining |-> timer[j].remaining - 1, since |-> timer[j].since + 1]
      BY <2>1, <3>1 DEF Timer
    <3> QED BY <2>1, <3>2 DEF Timer
  <2>3. CASE j \notin Waiting
    BY <1>2, <2>1, <2>3 DEF Waiting
  <2> QED BY <2>2, <2>3
<1>4. timer' \in [Jobs -> Timer]
  <2>1. timer' = [j \in Jobs |-> timer'[j]]
    BY <1>2
  <2> QED BY <1>3, <2>1
<1>5. /\ wait' \in 0..MaxWait /\ passTime' \in 0..PassTime
      /\ Earliest' = Earliest - 1
  <2>1. /\ PassTime \in Nat /\ MaxWait \in Nat
        /\ wait \in 0..MaxWait /\ passTime \in 0..PassTime /\ pc' = pc
        /\ pc \in {"take", "perform", "poll"}
    BY <1>2, Numbers DEF RetryInv, TimerTypes
  <2>2. CASE pc = "poll"
    <3>1. wait > 0 /\ wait' = wait - 1 /\ passTime' = passTime
      BY <2>2 DEF Tick
    <3>2. Earliest = wait - passTime /\ Earliest' = wait' - passTime'
      BY <2>1, <2>2 DEF Earliest
    <3> QED BY <2>1, <3>1, <3>2
  <2>3. CASE pc # "poll"
    <3>1. passTime < PassTime /\ passTime' = passTime + 1 /\ wait' = wait
      BY <2>3 DEF Tick
    <3>2. \/ Earliest = -(PassTime + passTime) /\ Earliest' = -(PassTime + passTime')
          \/ Earliest = -passTime /\ Earliest' = -passTime'
      BY <2>1, <2>3 DEF Earliest
    <3> QED BY <2>1, <3>1, <3>2
  <2> QED BY <2>2, <2>3
<1>6. TimerTypes'
  BY <1>2, <1>4, <1>5 DEF RetryInv, TimerTypes
<1>7. Budget'
  BY <1>1, <1>3 DEF Budget
<1>8. Deadlines'
  <2> SUFFICES ASSUME NEW j \in Jobs, timer'[j].phase = "waiting"
               PROVE  timer'[j].remaining >= Earliest'
    BY DEF Deadlines
  <2>1. timer[j].phase = "waiting" /\ timer'[j].remaining = timer[j].remaining - 1
    BY <1>3
  <2>2. timer[j].remaining \in Int /\ timer[j].remaining >= Earliest
    BY <1>1, <2>1 DEF Timer, Deadlines
  <2> QED BY <1>5, <2>1, <2>2, Numbers DEF RetryInv
<1> QED BY <1>6, <1>7, <1>8 DEF RetryInv

-----------------------------------------------------------------------------
(***************************************************************************)
(* Backoff.  The exponent ScheduleRetry computes is limited to 10; where    *)
(* the cap is reached by then, the shift is the delay that doubles.        *)
(***************************************************************************)

CapIsReached == BackoffCap <= BackoffBase * 2^10

LEMMA MinOfTwo ==
  ASSUME NEW a \in Nat, NEW b \in Nat
  PROVE  Min({a, b}) = IF a <= b THEN a ELSE b
<1> DEFINE S == {a, b}
<1>1. S \subseteq Nat /\ S # {} /\ a \in S /\ b \in S
  OBVIOUS
<1>2. Min(S) \in S /\ \A y \in S : Min(S) <= y
  <2> HIDE DEF S
  <2> QED BY <1>1, MinIsLeast
<1>3. Min(S) \in {a, b} /\ Min(S) <= a /\ Min(S) <= b
  BY <1>1, <1>2
<1> QED BY <1>3

\* The base of the delay, without Min.
LEMMA BackoffIs ==
  ASSUME NEW n \in Nat \ {0}
  PROVE  LET e == IF n <= 11 THEN n - 1 ELSE 10
         IN /\ e \in 0..10 /\ BackoffBase * 2^e \in Nat
            /\ Backoff(n) = IF BackoffCap <= BackoffBase * 2^e THEN BackoffCap
                            ELSE BackoffBase * 2^e
            /\ Backoff(n) \in Nat
<1> DEFINE e == IF n <= 11 THEN n - 1 ELSE 10
<1>1. e \in 0..10 /\ Min({n - 1, 10}) = e
  BY MinOfTwo
<1>2. 2^e \in Nat
  BY <1>1, ShiftAssumption
<1>3. BackoffBase * 2^e \in Nat /\ BackoffCap \in Nat
  <2> HIDE DEF e
  <2>1. \A m \in Nat : BackoffBase * m \in Nat
    BY RetryTimerAssumption
  <2> QED BY <1>2, <2>1, RetryTimerAssumption
<1>4. Backoff(n) = Min({BackoffCap, BackoffBase * 2^e})
  BY <1>1 DEF Backoff
<1> HIDE DEF e
<1>5. Backoff(n) = IF BackoffCap <= BackoffBase * 2^e THEN BackoffCap ELSE BackoffBase * 2^e
  BY <1>3, <1>4, MinOfTwo
<1>6. Backoff(n) \in Nat
  BY <1>3, <1>5
<1> USE DEF e
<1> QED BY <1>1, <1>3, <1>5, <1>6

LEMMA BackoffDoubles ==
  ASSUME CapIsReached, NEW n \in Nat \ {0}
  PROVE  Backoff(n) = IF n = 1 THEN BackoffBase ELSE Min({BackoffCap, 2 * Backoff(n - 1)})
<1>1. BackoffBase \in Nat /\ BackoffCap \in Nat /\ BackoffBase <= BackoffCap
  BY RetryTimerAssumption
<1>2. CASE n = 1
  <2>1. BackoffBase * 2^0 = BackoffBase
    BY <1>1, ShiftAssumption
  <2>2. Backoff(n) = IF BackoffCap <= BackoffBase * 2^0 THEN BackoffCap ELSE BackoffBase * 2^0
    <3>1. (IF n <= 11 THEN n - 1 ELSE 10) = 0
      BY <1>2
    <3> QED BY <3>1, BackoffIs, Zenon
  <2> QED BY <1>1, <1>2, <2>1, <2>2
<1>3. CASE n \in 2..11
  <2>1. n - 1 \in Nat \ {0} /\ n - 2 \in 0..9 /\ (n - 1) - 1 = n - 2 /\ (n - 2) + 1 = n - 1
        /\ n # 1 /\ n \in Nat \ {0} /\ n <= 11 /\ n - 1 <= 11
    BY <1>3
  <2>2. 2^(n - 1) = 2 * 2^(n - 2) /\ 2^(n - 2) \in Nat
    <3>1. 2^((n - 2) + 1) = 2 * 2^(n - 2)
      BY <2>1, ShiftAssumption, Zenon
    <3>2. n - 2 \in 0..10
      BY <2>1
    <3> QED BY <2>1, <3>1, <3>2, ShiftAssumption, Zenon
  <2>3. BackoffBase * 2^(n - 1) = 2 * (BackoffBase * 2^(n - 2))
    <3>1. \A p \in Nat : BackoffBase * (2 * p) = 2 * (BackoffBase * p)
      BY <1>1
    <3> QED BY <2>2, <3>1
  <2>4. PICK a : a = BackoffBase * 2^(n - 2)
    OBVIOUS
  <2>5. a \in Nat /\ Backoff(n - 1) = IF BackoffCap <= a THEN BackoffCap ELSE a
    BY <2>1, <2>4, BackoffIs
  <2>6. Backoff(n) = IF BackoffCap <= 2 * a THEN BackoffCap ELSE 2 * a
    BY <2>1, <2>3, <2>4, BackoffIs
  <2>7. 2 * Backoff(n - 1) \in Nat
    BY <1>1, <2>5
  <2>8. Min({BackoffCap, 2 * Backoff(n - 1)})
          = IF BackoffCap <= 2 * Backoff(n - 1) THEN BackoffCap ELSE 2 * Backoff(n - 1)
    BY <1>1, <2>7, MinOfTwo
  <2>9. PICK m : m = Backoff(n - 1)
    OBVIOUS
  <2>10. Backoff(n) = IF BackoffCap <= 2 * m THEN BackoffCap ELSE 2 * m
    BY <1>1, <2>5, <2>6, <2>9
  <2> QED BY <2>1, <2>8, <2>9, <2>10
<1>4. CASE n > 11
  <2>1. n - 1 \in Nat \ {0} /\ (n - 1 <= 11 => (n - 1) - 1 = 10) /\ n # 1 /\ ~(n <= 11)
    BY <1>4
  <2>2. Backoff(n) = BackoffCap
    BY <2>1, BackoffIs DEF CapIsReached
  <2>3. Backoff(n - 1) = BackoffCap
    BY <2>1, BackoffIs DEF CapIsReached
  <2>4. Min({BackoffCap, 2 * BackoffCap}) = BackoffCap
    BY <1>1, MinOfTwo
  <2> QED BY <2>1, <2>2, <2>3, <2>4
<1>5. n = 1 \/ n \in 2..11 \/ n > 11
  OBVIOUS
<1> QED BY <1>2, <1>3, <1>4, <1>5

\* The reference is defined by recursion: such a function exists, for the shift is one, and
\* two of them differ nowhere, for they would differ at a least number first.
LEMMA DoubledIsBackoff ==
  ASSUME CapIsReached, NEW n \in Nat \ {0}
  PROVE  Doubled[n] = Backoff(n)
<1> DEFINE P == Nat \ {0}
           Step(f, i) == IF i = 1 THEN BackoffBase ELSE Min({BackoffCap, 2 * f[i - 1]})
           Solves(f) == f = [i \in P |-> Step(f, i)]
           Shift == [i \in P |-> Backoff(i)]
<1>1. Solves(Shift)
  <2>1. ASSUME NEW i \in P PROVE Backoff(i) = Step(Shift, i)
    <3>1. i # 1 => i - 1 \in P
      OBVIOUS
    <3>2. i # 1 => Shift[i - 1] = Backoff(i - 1)
      BY <3>1
    <3> HIDE DEF Shift
    <3> QED BY <3>2, BackoffDoubles
  <2> HIDE DEF Step
  <2> QED BY <2>1
<1>2. Doubled = CHOOSE f : Solves(f)
  BY DEF Doubled
<1>3. Solves(Doubled)
  <2> HIDE DEF Solves
  <2> QED BY <1>1, <1>2
<1>4. \A i \in P : Doubled[i] = Step(Doubled, i)
  <2> HIDE DEF Step
  <2> QED BY <1>3
<1> DEFINE Differ == {i \in P : Doubled[i] # Backoff(i)}
<1>5. ASSUME Differ # {} PROVE FALSE
  <2>1. Differ \subseteq Nat
    OBVIOUS
  <2>2. PICK i \in Differ : \A k \in Differ : i <= k
    <3> HIDE DEF Differ
    <3> QED BY <1>5, <2>1, LeastNatural
  <2>3. i \in P /\ Doubled[i] # Backoff(i)
    OBVIOUS
  <2>4. CASE i = 1
    BY <1>4, <2>3, <2>4, BackoffDoubles
  <2>5. CASE i # 1
    <3>1. i - 1 \in P /\ ~(i <= i - 1)
      BY <2>3, <2>5
    <3>2. Doubled[i - 1] = Backoff(i - 1)
      BY <2>2, <3>1
    <3>3. Doubled[i] = Min({BackoffCap, 2 * Doubled[i - 1]})
      BY <1>4, <2>3, <2>5
    <3> QED BY <2>3, <2>5, <3>2, <3>3, BackoffDoubles
  <2> QED BY <2>4, <2>5
<1> QED BY <1>5

\* A waiting job's delay was drawn for its attempt, and is what is left and what went by.
DelayInv ==
  \A j \in Waiting : timer[j].remaining + timer[j].since \in Delays(timer[j].attempt)

LEMMA DelayRange ==
  ASSUME NEW n \in Nat \ {0}, NEW delay \in Delays(n)
  PROVE  LET base == Backoff(n)
             jitter == base \div 4
         IN base \in Nat /\ jitter \in Nat /\ delay \in (base - jitter)..(base + jitter)
<1>1. Backoff(n) \in Nat
  BY BackoffIs
<1>2. PICK x \in -(Backoff(n) \div 4)..(Backoff(n) \div 4) : delay = Backoff(n) + x
  BY DEF Delays
<1> PICK base : base = Backoff(n)
  OBVIOUS
<1>3. base \in Nat /\ base \div 4 \in Nat
  BY <1>1
<1> QED BY <1>1, <1>2, <1>3

LEMMA DelayNextInv ==
  ASSUME RetryInv, DelayInv, [RetryNext]_retryVars
  PROVE  DelayInv'
<1>1. timer \in [Jobs -> Timer]
  BY DEF RetryInv, TimerTypes
<1>2. SUFFICES ASSUME NEW i \in Jobs, timer'[i].phase = "waiting"
               PROVE  timer'[i].remaining + timer'[i].since \in Delays(timer'[i].attempt)
  BY DEF DelayInv, Waiting
<1>3. timer[i] \in Timer
  BY <1>1
<1>4. CASE timer'[i] = timer[i]
  BY <1>2, <1>4 DEF DelayInv, Waiting
<1>5. ASSUME NEW j \in Jobs, AttemptDone(j) PROVE timer'[i] = timer[i] \/
        timer'[i].remaining + timer'[i].since \in Delays(timer'[i].attempt)
  <2>1. CASE timer' = [timer EXCEPT ![j].phase = "over"]
    BY <1>1, <1>2, <2>1
  <2>2. ASSUME NEW delay \in Delays(timer[j].attempt),
               timer' = [timer EXCEPT ![j] =
                           [phase |-> "waiting", attempt |-> @.attempt, remaining |-> delay,
                            since |-> 0]]
        PROVE  timer'[i] = timer[i] \/
               timer'[i].remaining + timer'[i].since \in Delays(timer'[i].attempt)
    <3>1. CASE i # j
      BY <1>1, <2>2, <3>1
    <3>2. CASE i = j
      <4>1. /\ timer'[i].remaining = delay /\ timer'[i].since = 0
            /\ timer'[i].attempt = timer[j].attempt
        BY <1>1, <2>2, <3>2
      <4>2. delay + 0 = delay
        BY <1>1, DelayIsNatural DEF Timer
      <4> QED BY <2>2, <4>1, <4>2
    <3> QED BY <3>1, <3>2
  <2> QED BY <1>5, <2>1, <2>2 DEF AttemptDone
<1>6. ASSUME NEW j \in Jobs, Cancel(j) PROVE timer'[i] = timer[i]
  BY <1>1, <1>2, <1>6 DEF Cancel
<1>7. CASE StartDueRetries
  <2>1. PICK failed \in SUBSET {j \in Jobs : IsRetryDue(j)} :
          timer' = [j \in Jobs |->
             IF IsRetryDue(j)
             THEN [timer[j] EXCEPT !.phase = IF j \in failed THEN "over" ELSE "attempt",
                                   !.attempt = @ + 1]
             ELSE timer[j]]
    BY <1>7 DEF StartDueRetries
  <2>2. ~IsRetryDue(i)
    <3> SUFFICES ASSUME IsRetryDue(i) PROVE FALSE
      OBVIOUS
    <3> DEFINE phase == IF i \in failed THEN "over" ELSE "attempt"
    <3>1. timer'[i] = [timer[i] EXCEPT !.phase = phase, !.attempt = @ + 1]
      BY <2>1
    <3>2. timer'[i].phase = phase
      BY <1>3, <3>1 DEF Timer
    <3> QED BY <1>2, <3>2
  <2> QED BY <1>4, <2>1, <2>2
<1>8. CASE Tick
  <2>1. timer'[i] = IF i \in Waiting THEN [timer[i] EXCEPT !.remaining = @ - 1, !.since = @ + 1]
                    ELSE timer[i]
    BY <1>8 DEF Tick, Elapse
  <2>2. CASE i \in Waiting
    <3>1. /\ timer'[i].remaining = timer[i].remaining - 1
          /\ timer'[i].since = timer[i].since + 1 /\ timer'[i].attempt = timer[i].attempt
      BY <1>3, <2>1, <2>2 DEF Timer
    <3>2. timer'[i].remaining + timer'[i].since = timer[i].remaining + timer[i].since
      BY <1>3, <3>1 DEF Timer
    <3> QED BY <2>2, <3>1, <3>2 DEF DelayInv
  <2> QED BY <1>4, <2>1, <2>2
<1>9. CASE EnterPoll \/ PollReturn \/ UNCHANGED retryVars
  BY <1>4, <1>9 DEF EnterPoll, PollReturn, retryVars
<1> QED BY <1>4, <1>5, <1>6, <1>7, <1>8, <1>9 DEF RetryNext

\* A step that counts an attempt is StartDueRetries, of a job that is due.
LEMMA AttemptsCounted ==
  ASSUME RetryInv, [RetryNext]_retryVars, NEW i \in Jobs,
         timer'[i].attempt # timer[i].attempt
  PROVE  pc = "take" /\ IsRetryDue(i)
<1>1. timer \in [Jobs -> Timer] /\ timer[i] \in Timer
  BY DEF RetryInv, TimerTypes
<1>2. ASSUME NEW j \in Jobs, AttemptDone(j) \/ Cancel(j) PROVE FALSE
  <2>1. CASE \E phase : timer' = [timer EXCEPT ![j].phase = phase]
    BY <1>1, <2>1 DEF Timer
  <2>2. CASE \E delay \in Delays(timer[j].attempt) :
               timer' = [timer EXCEPT ![j] =
                           [phase |-> "waiting", attempt |-> @.attempt, remaining |-> delay,
                            since |-> 0]]
    BY <1>1, <2>2
  <2> QED BY <1>2, <2>1, <2>2 DEF AttemptDone, Cancel
<1>3. CASE Tick
  <2>1. timer'[i] = IF i \in Waiting THEN [timer[i] EXCEPT !.remaining = @ - 1, !.since = @ + 1]
                    ELSE timer[i]
    BY <1>3 DEF Tick, Elapse
  <2> QED BY <1>1, <2>1 DEF Timer
<1>4. CASE StartDueRetries
  <2>1. IsRetryDue(i) \/ timer'[i] = timer[i]
    BY <1>4 DEF StartDueRetries
  <2> QED BY <1>4, <2>1 DEF StartDueRetries
<1>5. ~(EnterPoll \/ PollReturn \/ UNCHANGED retryVars)
  BY DEF EnterPoll, PollReturn, retryVars
<1> QED BY <1>2, <1>3, <1>4, <1>5 DEF RetryNext

-----------------------------------------------------------------------------
(***************************************************************************)
(* The theorems.                                                           *)
(***************************************************************************)

\* The invariant holds in every state, for any jobs and any length of a pass.
THEOREM RetryInvHolds == RetrySpec => []RetryInv
<1>1. RetryInit => RetryInv
  BY InitInv
<1>2. RetryInv /\ [RetryNext]_retryVars => RetryInv'
  BY AttemptDoneInv, CancelInv, StartDueRetriesInv, EnterPollInv, PollReturnInv, TickInv,
     StutterInv DEF RetryNext
<1> QED BY <1>1, <1>2, PTL DEF RetrySpec

\* The jobs, the loop and its clocks keep their types, and no job begins more attempts than
\* its settings allow: none after the first for a negative one.
THEOREM RetryTypeCorrect == RetrySpec => []RetryTypeOK
<1>1. RetryInv => RetryTypeOK
  <2> SUFFICES ASSUME RetryInv
               PROVE  RetryTypeOK
    OBVIOUS
  <2>1. pc \in {"take", "perform", "poll"} /\ wait \in 0..MaxWait /\ passTime \in 0..PassTime
    BY DEF RetryInv, TimerTypes
  <2>2. ASSUME NEW j \in Jobs
        PROVE  /\ timer[j].phase \in {"attempt", "waiting", "over"}
               /\ timer[j].attempt \in Nat \ {0}
               /\ timer[j].attempt <= 1 + Max({0, MaxRetries[j]})
               /\ timer[j].remaining \in Int /\ timer[j].since \in Nat
    <3>1. Max({0, MaxRetries[j]}) = IF MaxRetries[j] >= 0 THEN MaxRetries[j] ELSE 0
      BY MaxWithZero, RetryTimerAssumption
    <3>2. timer[j] \in Timer
      BY DEF RetryInv, TimerTypes
    <3> QED BY <3>1, <3>2 DEF RetryInv, Budget, Timer
  <2> QED BY <2>1, <2>2 DEF RetryTypeOK
<1> QED BY <1>1, RetryInvHolds, PTL

\* ComputeWaitMs and StartDueRetries together: no retry is late by more than two passes.
THEOREM RetriesNotLate == RetrySpec => []RetriesOnTime
<1>1. RetryInv => RetriesOnTime
  <2> SUFFICES ASSUME RetryInv, NEW j \in Waiting
               PROVE  timer[j].remaining >= -Lateness
    BY DEF RetriesOnTime
  <2>1. timer[j].remaining \in Int /\ timer[j].remaining >= Earliest
    BY DEF RetryInv, TimerTypes, Timer, Waiting, Deadlines
  <2>2. Earliest >= -Lateness
    BY Numbers DEF RetryInv, TimerTypes, Earliest, Lateness
  <2> QED BY <2>1, <2>2, Numbers DEF RetryInv, Lateness
<1> QED BY <1>1, RetryInvHolds, PTL
\* Where the cap is reached within ten doublings, as kBackoffCapMs is, every attempt after
\* the first begins the doubled delay after the end of the one before, up to a quarter of it
\* and two passes, for any retry setting, and none begins for a job that may not retry.
THEOREM RetriesBackOff == CapIsReached /\ RetrySpec => BacksOff
<1> SUFFICES ASSUME CapIsReached PROVE RetrySpec => BacksOff
  OBVIOUS
<1>1. RetryInit => DelayInv
  BY DEF RetryInit, DelayInv, Waiting, NewTimer
<1>2. RetryInv /\ DelayInv /\ [RetryNext]_retryVars => DelayInv'
  BY DelayNextInv
<1>3. RetryInv /\ DelayInv /\ [RetryNext]_retryVars =>
        [\A j \in Jobs :
           timer'[j].attempt # timer[j].attempt =>
             LET t == timer[j]
                 due == Doubled[t.attempt]
             IN /\ t.phase = "waiting"
                /\ t.attempt <= MaxRetries[j]
                /\ t.since \in (due - due \div 4)..(due + due \div 4 + Lateness)]_retryVars
  <2> SUFFICES ASSUME RetryInv, DelayInv, [RetryNext]_retryVars, NEW j \in Jobs,
                      timer'[j].attempt # timer[j].attempt
               PROVE  LET t == timer[j]
                          due == Doubled[t.attempt]
                      IN /\ t.phase = "waiting"
                         /\ t.attempt <= MaxRetries[j]
                         /\ t.since \in (due - due \div 4)..(due + due \div 4 + Lateness)
    OBVIOUS
  <2>1. pc = "take" /\ IsRetryDue(j)
    BY AttemptsCounted
  <2>2. timer[j] \in Timer /\ timer[j].phase = "waiting" /\ timer[j].attempt <= MaxRetries[j]
    BY <2>1 DEF RetryInv, TimerTypes, Budget, IsRetryDue, Waiting
  <2>3. /\ timer[j].remaining \in Int /\ timer[j].since \in Nat
        /\ timer[j].attempt \in Nat \ {0} /\ timer[j].remaining <= 0
    BY <2>1, <2>2 DEF IsRetryDue, Timer
  <2>4. timer[j].remaining >= -Lateness /\ Lateness \in Nat
    <3>1. timer[j].remaining >= -(PassTime + passTime)
      BY <2>1, <2>2 DEF RetryInv, Deadlines, Earliest
    <3>2. PassTime \in Nat /\ passTime \in Nat /\ passTime <= PassTime
      BY Numbers DEF RetryInv, TimerTypes
    <3> QED BY <2>3, <3>1, <3>2 DEF Lateness
  <2> DEFINE due == Backoff(timer[j].attempt)
             jitter == due \div 4
  <2>5. due = Doubled[timer[j].attempt]
    BY <2>3, DoubledIsBackoff
  <2>6. timer[j].remaining + timer[j].since \in Delays(timer[j].attempt)
    BY <2>1 DEF DelayInv, IsRetryDue
  <2>7. /\ due \in Nat /\ jitter \in Nat
        /\ timer[j].remaining + timer[j].since \in (due - jitter)..(due + jitter)
    BY <2>3, <2>6, DelayRange
  <2>8. timer[j].since \in (due - jitter)..(due + jitter + Lateness)
    <3> HIDE DEF due, jitter
    <3> QED BY <2>3, <2>4, <2>7
  <2> HIDE DEF due
  <2> QED BY <2>2, <2>5, <2>8
<1> QED BY <1>1, <1>2, <1>3, RetryInvHolds, PTL DEF RetrySpec, BacksOff
=============================================================================
