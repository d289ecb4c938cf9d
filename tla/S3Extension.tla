---------------------------- MODULE S3Extension ----------------------------
(***************************************************************************)
(* The extension on the game thread (src/src/extension.cpp and the request *)
(* natives of src/src/natives.cpp), composed with TransferService, which   *)
(* stands for the transfer thread.                                         *)
(*                                                                         *)
(* Everything here runs on the game thread, so an action is interrupted    *)
(* only by the transfer thread.  Plugin code runs between frames, or       *)
(* inside a callback that the frame's event loop executes; there it may    *)
(* submit, cancel, close a client, or unload another plugin.               *)
(*                                                                         *)
(* A job's forwards are counted, so that a release too many would show.    *)
(***************************************************************************)
EXTENDS Integers, FiniteSets, TransferService

CONSTANTS
  Plugins,     \* plugin identities; an unloaded plugin that is loaded again is a new one
  Clients,     \* S3Client handles, each used once
  MaxProgress  \* bound of the model: progress events of one job waiting in the queue

\* The words the model uses in their place are neither plugins nor outcomes.
ASSUME ExtensionAssumption ==
  /\ Plugins \cap {"unborn", "freed"} = {}
  /\ Outcomes \cap {"nothing", "Cancelled"} = {}

VARIABLES
  life,      \* how far SDK_OnLoad and SDK_OnUnload have come
  loaded,    \* the plugins SourceMod runs (external)
  clients,   \* [Clients -> the plugin that owns the handle, "unborn" or "freed"]
  records,   \* m_jobs
  dropping,  \* the records a DropJob loop has still to drop
  forwards,  \* [Jobs -> how many of its forward sets are held]
  batch,     \* the drained events OnGameFrame has still to handle
  callback,  \* the plugin callback being executed
  acked,     \* history: the jobs for which S3Client.Cancel returned true
  told       \* history: [Jobs -> the status its completed callback was given]

extensionVars ==
  <<life, loaded, clients, records, dropping, forwards, batch, callback, acked, told>>
gameVars == <<allVars, extensionVars>>

NoRecord == [owner |-> "none"]
NoCallback == [kind |-> "none"]
Nothing == "nothing"

HasRecord(j) == records[j] # NoRecord
Open(c) == clients[c] \in Plugins

\* A new JobRecord.  Mutant: its owner is never filled in.
NewRecordUnowned(p, c, progress) ==
  [owner |-> "none", client |-> c, progress |-> progress, dispatching |-> FALSE,
   dropped |-> FALSE]
NewRecord(p, c, progress) ==
  [owner |-> p, client |-> c, progress |-> progress, dispatching |-> FALSE,
   dropped |-> FALSE]

\* The records CancelJobsForClient drops.  Mutant: those in use are passed over.
RecordsUsingIdly(c) ==
  {j \in Jobs : HasRecord(j) /\ records[j].client = c /\ ~records[j].dispatching}
RecordsUsing(c) == {j \in Jobs : HasRecord(j) /\ records[j].client = c}

\* The records OnPluginUnloaded drops.  Mutant: it asks who owns the client.
RecordsOfClientOwner(p) == {j \in Jobs : HasRecord(j) /\ clients[records[j].client] = p}
RecordsOwnedBy(p) == {j \in Jobs : HasRecord(j) /\ records[j].owner = p}

\* Mutant: DropJob takes no notice of a progress callback under way.
InUseNever(j) == FALSE
InUse(j) == records[j].dispatching

\* Handles of an unloaded plugin, which SourceMod frees before anything else runs.
Orphans == {c \in Clients : Open(c) /\ clients[c] \notin loaded}

ExtensionInit ==
  /\ ServiceInit
  /\ life = "loading"
  /\ loaded = Plugins
  /\ clients = [c \in Clients |-> "unborn"]
  /\ records = [j \in Jobs |-> NoRecord]
  /\ dropping = {}
  /\ forwards = [j \in Jobs |-> 0]
  /\ batch = <<>>
  /\ callback = NoCallback
  /\ acked = {}
  /\ told = [j \in Jobs |-> Nothing]

-----------------------------------------------------------------------------
(***************************************************************************)
(* Natives, called by plugin code.                                         *)
(***************************************************************************)

\* No loop of the extension, and no clean-up of SourceMod's, is under way.
AtRest == dropping = {} /\ Orphans = {}

\* Plugin code runs between frames or inside a callback; PluginCalls says so once for the
\* calls of a loaded plugin.
PluginRuns == life = "loaded" /\ (batch = <<>> \/ callback # NoCallback)

CreateClient(p, c) ==
  /\ clients[c] = "unborn"
  /\ clients' = [clients EXCEPT ![c] = p]
  /\ UNCHANGED <<allVars, life, loaded, records, dropping, forwards, batch, callback,
                 acked, told>>

\* Any plugin may use a client handle it was given; the request belongs to the caller.
SubmitJob(p, c, j) ==
  /\ Open(c)
  /\ EnqueueJob(j)
  /\ \E progress \in BOOLEAN :
       records' = [records EXCEPT ![j] = NewRecord(p, c, progress)]
  /\ forwards' = [forwards EXCEPT ![j] = @ + 1]
  /\ UNCHANGED <<life, loaded, clients, dropping, batch, callback, acked, told>>

\* S3Client.Cancel returns true; for an unknown id or another's request it does nothing.
CancelJob(p, j) ==
  /\ HasRecord(j) /\ records[j].owner = p
  /\ AskCancel(j)
  /\ acked' = acked \cup {j}
  /\ UNCHANGED <<life, loaded, clients, records, dropping, forwards, batch, callback, told>>

\* OnHandleDestroy of a client: its owner closed it, or SourceMod cleans up after the owner.
FreeClient(c) ==
  /\ PluginRuns
  /\ dropping = {}
  /\ Open(c)
  /\ Orphans = {} \/ c \in Orphans
  /\ clients' = [clients EXCEPT ![c] = "freed"]
  /\ dropping' = RecordsUsing(c)
  /\ UNCHANGED <<allVars, life, loaded, records, forwards, batch, callback, acked, told>>

\* OnPluginUnloaded.  SourceMod defers the unloading of a plugin that is executing.
UnloadPlugin(p) ==
  /\ callback # NoCallback => callback.owner # p
  /\ loaded' = loaded \ {p}
  /\ dropping' = RecordsOwnedBy(p)
  /\ UNCHANGED <<allVars, life, clients, records, forwards, batch, callback, acked, told>>

\* ReleaseRecord.  Mutant: the forwards are leaked.
ReleaseNothing(S) == UNCHANGED forwards
Release(S) == forwards' = [j \in Jobs |-> forwards[j] - (IF j \in S THEN 1 ELSE 0)]

\* One iteration of the loops over DropJob: a record in use is only marked.
DropJob(j) ==
  /\ j \in dropping
  /\ AskCancel(j)
  /\ dropping' = dropping \ {j}
  /\ IF InUse(j)
     THEN /\ records' = [records EXCEPT ![j].dropped = TRUE]
          /\ UNCHANGED forwards
     ELSE /\ records' = [records EXCEPT ![j] = NoRecord]
          /\ Release({j})
  /\ UNCHANGED <<life, loaded, clients, batch, callback, acked, told>>

-----------------------------------------------------------------------------
(***************************************************************************)
(* OnGameFrame.                                                            *)
(***************************************************************************)

OnGameFrame ==
  /\ life = "loaded"
  /\ AtRest
  /\ batch = <<>> /\ callback = NoCallback
  /\ hasEvents
  /\ batch' = events
  /\ DrainEvents
  /\ UNCHANGED <<life, loaded, clients, records, dropping, forwards, callback, acked, told>>

\* The loop of OnGameFrame takes its next event.
NextEvent(kind) ==
  /\ life = "loaded"
  /\ callback = NoCallback
  /\ batch # <<>>
  /\ AtRest
  /\ kind = Head(batch).kind
  /\ batch' = Tail(batch)
  /\ UNCHANGED <<allVars, life, loaded, clients, dropping, acked>>

Execute(kind, j) ==
  callback' = [kind |-> kind, job |-> j, client |-> records[j].client,
               owner |-> records[j].owner]

\* HandleEvent of a job that is no longer in m_jobs.
IgnoreEvent ==
  /\ \E kind \in {"Progress", "Complete"} : NextEvent(kind)
  /\ ~HasRecord(Head(batch).job)
  /\ UNCHANGED <<records, forwards, callback, told>>

\* HandleProgress up to the callback; without a progress forward there is none.
HandleProgress ==
  LET j == Head(batch).job
  IN /\ NextEvent("Progress")
     /\ HasRecord(j)
     /\ IF records[j].progress
        THEN /\ records' = [records EXCEPT ![j].dispatching = TRUE]
             /\ Execute("Progress", j)
        ELSE UNCHANGED <<records, callback>>
     /\ UNCHANGED <<forwards, told>>

\* HandleProgress after the callback returned.
EndProgress ==
  LET j == callback.job
  IN /\ callback.kind = "Progress"
     /\ AtRest
     /\ callback' = NoCallback
     /\ IF records[j].dropped
        THEN /\ Release({j})
             /\ records' = [records EXCEPT ![j] = NoRecord]
        ELSE /\ records' = [records EXCEPT ![j].dispatching = FALSE]
             /\ UNCHANGED forwards
     /\ UNCHANGED <<allVars, life, loaded, clients, dropping, batch, acked, told>>

\* A completion erases the record before DispatchComplete, which gives up when it cannot
\* create the response handle, or the list handle of a listing.
HandleComplete ==
  LET e == Head(batch)
  IN /\ NextEvent("Complete")
     /\ HasRecord(e.job)
     /\ records' = [records EXCEPT ![e.job] = NoRecord]
     /\ \/ /\ Execute("Complete", e.job)
           /\ told' = [told EXCEPT ![e.job] = e.status]
           /\ UNCHANGED forwards
        \/ /\ Release({e.job})
           /\ UNCHANGED <<callback, told>>

\* The completed callback returned: its handles and forwards go.
EndComplete ==
  /\ callback.kind = "Complete"
  /\ AtRest
  /\ callback' = NoCallback
  /\ Release({callback.job})
  /\ UNCHANGED <<allVars, life, loaded, clients, records, dropping, batch, acked, told>>

-----------------------------------------------------------------------------
(***************************************************************************)
(* SDK_OnLoad and SDK_OnUnload.                                            *)
(***************************************************************************)

OnLoad ==
  /\ life = "loading"
  /\ StartService
  /\ life' = "loaded"
  /\ UNCHANGED <<loaded, clients, records, dropping, forwards, batch, callback, acked, told>>

\* The hooks go first, so that no frame handles an event from here on.
BeginUnload ==
  /\ life = "loaded"
  /\ AtRest
  /\ batch = <<>> /\ callback = NoCallback
  /\ Disable
  /\ life' = "disabled"
  /\ UNCHANGED <<loaded, clients, records, dropping, forwards, batch, callback, acked, told>>

StopThread ==
  /\ life = "disabled"
  /\ StopService
  /\ life' = "stopping"
  /\ UNCHANGED <<loaded, clients, records, dropping, forwards, batch, callback, acked, told>>

\* Mutant: Drain is not called again after Stop.
DrainNever ==
  /\ life = "stopping"
  /\ mode = "stopped"
  /\ life' = "drained"
  /\ UNCHANGED <<allVars, loaded, clients, records, dropping, forwards, batch, callback,
                 acked, told>>

DrainLast ==
  /\ life = "stopping"
  /\ mode = "stopped"
  /\ DrainEvents
  /\ life' = "drained"
  /\ UNCHANGED <<loaded, clients, records, dropping, forwards, batch, callback, acked, told>>

ReleaseRecords ==
  /\ life = "drained"
  /\ Release({j \in Jobs : HasRecord(j)})
  /\ records' = [j \in Jobs |-> NoRecord]
  /\ life' = "released"
  /\ UNCHANGED <<allVars, loaded, clients, dropping, batch, callback, acked, told>>

\* RemoveType destroys every client still open, which drops what m_jobs holds for it.
RemoveTypes ==
  /\ life = "released"
  /\ clients' = [c \in Clients |-> IF Open(c) THEN "freed" ELSE clients[c]]
  /\ dropping' = UNION {RecordsUsing(c) : c \in {d \in Clients : Open(d)}}
  /\ life' = "unloaded"
  /\ UNCHANGED <<allVars, loaded, records, forwards, batch, callback, acked, told>>

Unloaded == life = "unloaded" /\ dropping = {} /\ UNCHANGED gameVars

-----------------------------------------------------------------------------
ProgressWaiting(j) == {i \in DOMAIN Stream : Stream[i] = Progress(j)}

Thread ==
  /\ WorkNext \/ StopReturned
  /\ \A j \in Jobs : Cardinality(ProgressWaiting(j)') <= MaxProgress
  /\ UNCHANGED extensionVars

\* What the game thread does of its own accord, whatever plugins ask for.
Frame == OnGameFrame \/ IgnoreEvent \/ HandleProgress \/ HandleComplete

\* What must happen once it has begun.
Carry ==
  \/ EndProgress \/ EndComplete
  \/ StopThread \/ DrainLast \/ ReleaseRecords \/ RemoveTypes
  \/ \E j \in Jobs : DropJob(j)
  \/ \E c \in Orphans : FreeClient(c)

PluginCalls ==
  /\ PluginRuns /\ AtRest
  /\ \E p \in loaded :
       \/ UnloadPlugin(p)
       \/ \E c \in Clients : CreateClient(p, c) \/ \E j \in Jobs : SubmitJob(p, c, j)
       \/ \E j \in Jobs : CancelJob(p, j)

ExtensionNext ==
  \/ Thread \/ Frame \/ Carry \/ PluginCalls
  \/ OnLoad \/ BeginUnload \/ Unloaded
  \/ \E c \in Clients : FreeClient(c)

ExtensionSafety == ExtensionInit /\ [][ExtensionNext]_gameVars

\* The service keeps its promises, frames keep coming, and a callback returns.
ExtensionFairness ==
  /\ WF_gameVars(DeliverPost /\ UNCHANGED extensionVars)
  /\ SF_gameVars(StopReturned /\ UNCHANGED extensionVars)
  /\ \A j \in Jobs : SF_gameVars((EndJob(j) \/ EndCancelled(j)) /\ UNCHANGED extensionVars)
  /\ WF_gameVars(Frame)
  /\ SF_gameVars(Carry)

ExtensionSpec == ExtensionSafety /\ ExtensionFairness

-----------------------------------------------------------------------------
(***************************************************************************)
(* S3Extension implements RequestService.                                  *)
(***************************************************************************)

StageOf ==
  CASE life = "loading" -> "down"
    [] life = "loaded" -> "up"
    [] OTHER -> "gone"

\* A client is gone as soon as its plugin, or the extension, is.
OwnerOf(c) ==
  IF clients[c] \in Plugins /\ (clients[c] \notin loaded \/ StageOf = "gone")
  THEN "freed" ELSE clients[c]

\* A record that a loop has still to drop, or that is marked, belongs to no request.
RequestOf(j) ==
  LET r == records[j]
  IN IF phase[j] = "unused" THEN [state |-> "unused"]
     ELSE IF told[j] # Nothing THEN [state |-> "done"]
     ELSE IF /\ r # NoRecord /\ StageOf # "gone"
             /\ ~r.dropped /\ j \notin dropping /\ clients[r.client] \in loaded
     THEN [state |-> "pending", owner |-> r.owner, client |-> r.client]
     ELSE [state |-> "silenced"]

Requests == INSTANCE RequestService WITH
  Statuses <- Outcomes \cup {"Cancelled"},
  stage <- StageOf,
  running <- loaded,
  owns <- [c \in Clients |-> OwnerOf(c)],
  request <- [j \in Jobs |-> RequestOf(j)],
  cancelled <- acked,
  active <- callback,
  answer <- told

-----------------------------------------------------------------------------
(***************************************************************************)
(* Correctness.                                                            *)
(***************************************************************************)

Record ==
  [owner : Plugins, client : Clients, progress : BOOLEAN, dispatching : BOOLEAN,
   dropped : BOOLEAN]

ExtensionTypeOK ==
  /\ life \in {"loading", "loaded", "disabled", "stopping", "drained", "released", "unloaded"}
  /\ loaded \subseteq Plugins
  /\ clients \in [Clients -> Plugins \cup {"unborn", "freed"}]
  /\ records \in [Jobs -> Record \cup {NoRecord}]
  /\ dropping \subseteq Jobs /\ acked \subseteq Jobs
  /\ forwards \in [Jobs -> Int]
  /\ callback \in {NoCallback} \cup
       [kind : {"Progress", "Complete"}, job : Jobs, client : Clients, owner : Plugins]
  /\ told \in [Jobs -> Outcomes \cup {Nothing, "Cancelled"}]

\* The forwards of a request are held exactly as long as its record is in m_jobs or its
\* completed callback runs: never leaked, never released twice, never used after.
ForwardsBalanced ==
  \A j \in Jobs :
    forwards[j] =
      IF HasRecord(j) \/ (callback # NoCallback /\ callback.kind = "Complete" /\ callback.job = j)
      THEN 1 ELSE 0

\* HandleProgress holds a reference into m_jobs across the callback: whatever the plugin
\* does there, closing the client included, the record stays until the callback returns.
RecordOutlivesCallback ==
  /\ callback # NoCallback /\ callback.kind = "Progress" => HasRecord(callback.job)
  /\ \A j \in Jobs : HasRecord(j) /\ records[j].dispatching =>
       callback # NoCallback /\ callback.kind = "Progress" /\ callback.job = j

\* Between two loops every record belongs to a loaded plugin and an open client, or is
\* marked as dropped.
RecordsHaveOwners ==
  AtRest /\ life = "loaded" =>
    \A j \in Jobs : HasRecord(j) =>
      records[j].dropped \/ (records[j].owner \in loaded /\ Open(records[j].client))

\* A transfer nobody waits for any more has a cancellation on its way.
NoOrphanTransfer ==
  mode = "up" =>
    \A j \in Jobs : phase[j] = "live" /\ (HasRecord(j) => records[j].dropped) => j \in asked

\* Until the queue is disabled, the completion of a request that has ended and still has
\* its record is where a frame will find it.
NoLostCompletion ==
  LET pending == batch \o Stream
  IN /\ events # <<>> => hasEvents
     /\ enabled => \A j \in Jobs : phase[j] = "ended" /\ HasRecord(j) =>
          \E i \in DOMAIN pending : pending[i].job = j /\ pending[i].kind = "Complete"

\* After SDK_OnUnload nothing is left that would call into the extension or its thread.
CleanUnload ==
  life = "unloaded" =>
    /\ mode = "stopped" /\ events = <<>> /\ posting = <<>> /\ dropping = {}
    /\ \A j \in Jobs : ~HasRecord(j) /\ forwards[j] = 0
    /\ \A c \in Clients : ~Open(c)

\* Each step of the extension, its loops cut up by the transfer thread and its callbacks
\* re-entered by plugins, is a step of the abstract service or none at all: a request
\* completes once, is silenced for good by the closing of its client and by the unloading of
\* either plugin, and reports Cancelled only if its owner asked for that.
ImplementsRequests == Requests!RequestSafety

\* Every request's record is eventually gone: completed, dropped or unloaded.
RequestsResolved == \A j \in Jobs : HasRecord(j) ~> ~HasRecord(j)

\* README.md:51 and s3.inc:197 on Cancel: the callback of a request it accepted runs with
\* S3Status_Cancelled.
CancelHonoured == \A j \in acked : told[j] \in {Nothing, "Cancelled"}
=============================================================================
