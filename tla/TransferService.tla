-------------------------- MODULE TransferService --------------------------
(***************************************************************************)
(* What the transfer thread promises the game thread, without saying how:  *)
(* the abstract specification that TransferThread implements and that the  *)
(* extension relies on.                                                    *)
(*                                                                         *)
(* A request is live from Enqueue until it posts its one completion, or    *)
(* until Stop throws it away.  A cancellation that was asked for is        *)
(* pending in asked; it ends a live request, or is forgotten once the      *)
(* request has ended on its own.  Progress and completion events travel    *)
(* through MainThreadQueue.                                                *)
(***************************************************************************)
EXTENDS MainThreadQueue

CONSTANTS
  Jobs,      \* job ids
  Outcomes   \* the statuses a request may end with on its own

VARIABLES
  phase,   \* [Jobs -> Phases]
  asked,   \* the cancellations not yet applied
  mode     \* the thread's life as the game thread sees it

serviceVars == <<phase, asked, mode>>
allVars == <<queueVars, serviceVars>>

Phases == {"unused", "live", "ended", "lost"}
Modes == {"down", "up", "stopping", "stopped"}

Complete(j, status) == [kind |-> "Complete", job |-> j, status |-> status]
Progress(j) == [kind |-> "Progress", job |-> j, status |-> "Ok"]

ServiceInit ==
  /\ QueueInit
  /\ phase = [j \in Jobs |-> "unused"]
  /\ asked = {}
  /\ mode = "down"

\* The thread works from Start until Stop returns.
Working == mode \in {"up", "stopping"} /\ posting = <<>>

StartService ==
  /\ mode = "down"
  /\ mode' = "up"
  /\ UNCHANGED <<queueVars, phase, asked>>

EnqueueJob(j) ==
  /\ mode = "up"
  /\ phase[j] = "unused"
  /\ phase' = [phase EXCEPT ![j] = "live"]
  /\ UNCHANGED <<queueVars, asked, mode>>

\* Mutant: the cancellation is not passed on.
AskNothing(j) == mode = "up" /\ UNCHANGED allVars

AskCancel(j) ==
  /\ mode = "up"
  /\ asked' = asked \cup {j}
  /\ UNCHANGED <<queueVars, phase, mode>>

ReportProgress(j) ==
  /\ Working
  /\ phase[j] = "live"
  /\ Post(Progress(j))
  /\ UNCHANGED serviceVars

\* The request ends on its own, whether or not a cancellation is pending.
EndJob(j) ==
  /\ Working
  /\ phase[j] = "live"
  /\ phase' = [phase EXCEPT ![j] = "ended"]
  /\ \E status \in Outcomes : Post(Complete(j, status))
  /\ UNCHANGED <<asked, mode>>

\* A pending cancellation, or Stop, ends a live request.
EndCancelled(j) ==
  /\ Working
  /\ phase[j] = "live"
  /\ j \in asked \/ mode = "stopping"
  /\ phase' = [phase EXCEPT ![j] = "ended"]
  /\ Post(Complete(j, "Cancelled"))
  /\ asked' \in {asked, asked \ {j}}
  /\ UNCHANGED mode

\* Only a cancellation of a request that already ended is dropped.
ForgetCancel(j) ==
  /\ Working
  /\ j \in asked
  /\ phase[j] # "live"
  /\ asked' = asked \ {j}
  /\ UNCHANGED <<queueVars, phase, mode>>

DeliverPost == CommitPost /\ UNCHANGED serviceVars

\* A frame drains while the thread runs, and SDK_OnUnload once more after Stop.
DrainEvents == mode \in {"up", "stopped"} /\ Drain /\ UNCHANGED serviceVars

Disable == SetEnabled(FALSE) /\ UNCHANGED serviceVars

StopService ==
  /\ mode = "up"
  /\ mode' = "stopping"
  /\ UNCHANGED <<queueVars, phase, asked>>

\* Stop returns once nothing is being posted; what it did not cancel is lost.
StopReturned ==
  /\ mode = "stopping"
  /\ posting = <<>>
  /\ mode' = "stopped"
  /\ phase' = [j \in Jobs |-> IF phase[j] = "live" THEN "lost" ELSE phase[j]]
  /\ UNCHANGED <<queueVars, asked>>

\* What the thread does by itself.
WorkNext ==
  \/ DeliverPost
  \/ \E j \in Jobs : ReportProgress(j) \/ EndJob(j) \/ EndCancelled(j) \/ ForgetCancel(j)

ServiceNext ==
  \/ WorkNext \/ StartService \/ DrainEvents \/ Disable \/ StopService \/ StopReturned
  \/ \E j \in Jobs : EnqueueJob(j) \/ AskCancel(j)

ServiceSafety == ServiceInit /\ [][ServiceNext]_allVars

\* Posts are delivered, Stop returns, and every request ends.
ServiceFairness ==
  /\ WF_allVars(DeliverPost)
  /\ SF_allVars(StopReturned)
  /\ \A j \in Jobs : SF_allVars(EndJob(j) \/ EndCancelled(j))

ServiceSpec == ServiceSafety /\ ServiceFairness
=============================================================================
