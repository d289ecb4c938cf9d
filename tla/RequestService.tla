--------------------------- MODULE RequestService ---------------------------
(***************************************************************************)
(* What a plugin is promised, without saying how: the abstract             *)
(* specification that S3Extension implements.                              *)
(*                                                                         *)
(* A request is pending from the native that submits it until its          *)
(* completed callback starts, once, or until it is silenced: at one stroke *)
(* with the closing of its client, the unloading of its plugin or of the   *)
(* plugin that owns its client, and the unloading of the extension.  Only  *)
(* pending requests reach plugin code.                                     *)
(***************************************************************************)
CONSTANTS
  Jobs,      \* request ids
  Plugins,
  Clients,   \* S3Client handles
  Statuses   \* the statuses a request may complete with, "Cancelled" among them

VARIABLES
  stage,      \* whether the extension is down, up or gone
  running,    \* the plugins that are loaded
  owns,       \* [Clients -> the plugin that owns the handle, "unborn" or "freed"]
  request,    \* [Jobs -> the request under that id]
  cancelled,  \* the requests whose Cancel returned true
  active,     \* the callback being executed
  answer      \* [Jobs -> the status the completed callback was given]

requestVars == <<stage, running, owns, request, cancelled, active, answer>>

Unused == [state |-> "unused"]
Done == [state |-> "done"]
Silenced == [state |-> "silenced"]
Pending(p, c) == [state |-> "pending", owner |-> p, client |-> c]
IsPending(j) == request[j].state = "pending"

NoCall == [kind |-> "none"]
NoAnswer == "nothing"

RequestInit ==
  /\ stage = "down"
  /\ running = Plugins
  /\ owns = [c \in Clients |-> "unborn"]
  /\ request = [j \in Jobs |-> Unused]
  /\ cancelled = {}
  /\ active = NoCall
  /\ answer = [j \in Jobs |-> NoAnswer]

Silence(S) == request' = [j \in Jobs |-> IF IsPending(j) /\ j \in S THEN Silenced ELSE request[j]]
Using(C) == {j \in Jobs : IsPending(j) /\ request[j].client \in C}
OwnedBy(p) == {j \in Jobs : IsPending(j) /\ request[j].owner = p}
ClientsOf(p) == {c \in Clients : owns[c] = p}

Load ==
  /\ stage = "down"
  /\ stage' = "up"
  /\ UNCHANGED <<running, owns, request, cancelled, active, answer>>

OpenClient(p, c) ==
  /\ stage = "up" /\ p \in running
  /\ owns[c] = "unborn"
  /\ owns' = [owns EXCEPT ![c] = p]
  /\ UNCHANGED <<stage, running, request, cancelled, active, answer>>

Submit(p, c, j) ==
  /\ request[j] = Unused
  /\ stage = "up" /\ p \in running
  /\ owns[c] \in running
  /\ request' = [request EXCEPT ![j] = Pending(p, c)]
  /\ UNCHANGED <<stage, running, owns, cancelled, active, answer>>

\* The request runs on: how it completes is up to the transfer.
CancelRequest(j) ==
  /\ stage = "up"
  /\ request[j] \notin {Unused, Done}
  /\ cancelled' = cancelled \cup {j}
  /\ UNCHANGED <<stage, running, owns, request, active, answer>>

CloseClient(c) ==
  /\ stage = "up"
  /\ owns[c] \in running
  /\ owns' = [owns EXCEPT ![c] = "freed"]
  /\ Silence(Using({c}))
  /\ UNCHANGED <<stage, running, cancelled, active, answer>>

\* A plugin that executes is unloaded later.
Unload(p) ==
  /\ stage = "up" /\ p \in running
  /\ active # NoCall => active.owner # p
  /\ running' = running \ {p}
  /\ owns' = [c \in Clients |-> IF c \in ClientsOf(p) THEN "freed" ELSE owns[c]]
  /\ Silence(OwnedBy(p) \cup Using(ClientsOf(p)))
  /\ UNCHANGED <<stage, cancelled, active, answer>>

Call(kind, j) ==
  /\ active = NoCall
  /\ IsPending(j)
  /\ active' = [kind |-> kind, job |-> j, client |-> request[j].client,
                owner |-> request[j].owner]

Report(j) ==
  /\ stage = "up"
  /\ Call("Progress", j)
  /\ UNCHANGED <<stage, running, owns, request, cancelled, answer>>

\* Nothing but its owner's Cancel makes a request report that it was cancelled.
Complete(j) ==
  /\ stage = "up"
  /\ Call("Complete", j)
  /\ request' = [request EXCEPT ![j] = Done]
  /\ \E s \in Statuses :
       /\ s = "Cancelled" => j \in cancelled
       /\ answer' = [answer EXCEPT ![j] = s]
  /\ UNCHANGED <<stage, running, owns, cancelled>>

Return ==
  /\ active # NoCall
  /\ active' = NoCall
  /\ UNCHANGED <<stage, running, owns, request, cancelled, answer>>

\* No handle can be created for the callback's arguments.
GiveUp(j) ==
  /\ stage = "up"
  /\ active = NoCall
  /\ IsPending(j)
  /\ Silence({j})
  /\ UNCHANGED <<stage, running, owns, cancelled, active, answer>>

ShutDown ==
  /\ stage = "up"
  /\ active = NoCall
  /\ stage' = "gone"
  /\ owns' = [c \in Clients |-> IF owns[c] \in Plugins THEN "freed" ELSE owns[c]]
  /\ Silence(Jobs)
  /\ UNCHANGED <<running, cancelled, active, answer>>

\* Most of what an implementation does is hidden from plugins.
Hidden == UNCHANGED requestVars

RequestNext ==
  \/ Hidden \/ Load \/ Return \/ ShutDown
  \/ \E p \in running : Unload(p) \/ \E c \in Clients : OpenClient(p, c)
  \/ \E c \in Clients : CloseClient(c)
  \/ \E j \in Jobs :
       \/ CancelRequest(j) \/ Report(j) \/ Complete(j) \/ GiveUp(j)
       \/ \E c \in Clients, p \in running : Submit(p, c, j)

RequestSafety == RequestInit /\ [][RequestNext]_requestVars
=============================================================================
