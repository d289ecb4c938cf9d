------------------------- MODULE S3ExtensionProofs -------------------------
(***************************************************************************)
(* Safety of the extension, and that it implements RequestService, for any *)
(* number of plugins, clients and requests.                                *)
(***************************************************************************)
EXTENDS S3Extension, SequenceTheorems, TLAPS

ServiceEvent ==
  [kind : {"Complete"}, job : Jobs, status : Outcomes \cup {"Cancelled"}]
    \cup [kind : {"Progress"}, job : Jobs, status : {"Ok"}]

ServiceTypeOK ==
  /\ events \in Seq(ServiceEvent)
  /\ posting \in {<<>>} \cup {<<e>> : e \in ServiceEvent}
  /\ batch \in Seq(ServiceEvent)
  /\ hasEvents \in BOOLEAN /\ enabled \in BOOLEAN
  /\ phase \in [Jobs -> Phases]
  /\ asked \subseteq Jobs
  /\ mode \in Modes

\* The events that a frame handles, has still to drain, or that are being posted.
Underway == Range(batch) \cup Range(events) \cup Range(posting)

\* How far loading and unloading have come, on both sides.
LifeInv ==
  /\ life = "loading" <=> mode = "down"
  /\ life = "loading" => \A j \in Jobs : phase[j] = "unused"
  /\ life \in {"loaded", "disabled"} <=> mode = "up"
  /\ life \in {"drained", "released", "unloaded"} => mode = "stopped" /\ events = <<>>
  /\ mode = "stopped" => posting = <<>>
  /\ enabled <=> life \in {"loading", "loaded"}
  /\ life # "loaded" =>
       batch = <<>> /\ callback = NoCallback /\ dropping = {} /\ Orphans = {}
  /\ life \in {"released", "unloaded"} => \A j \in Jobs : ~HasRecord(j)
  /\ life = "unloaded" => \A c \in Clients : ~Open(c)

\* A record is that of a submitted request that has not completed.  It is marked only
\* while its progress callback runs, and a cancellation pending for a record that is not
\* was asked for by its owner.
RecordInv ==
  \A j \in Jobs : HasRecord(j) =>
    LET r == records[j]
    IN /\ phase[j] # "unused" /\ told[j] = Nothing
       /\ clients[r.client] # "unborn"
       /\ r.dropped => r.dispatching
       /\ r.dispatching => callback # NoCallback /\ callback.kind = "Progress" /\ callback.job = j
       /\ r.dropped \/ j \in dropping \/ (r.owner \in loaded /\ Open(r.client))
       /\ j \in asked /\ ~r.dropped => j \in acked

\* Nothing is known of a request before it is submitted.
UnusedInv == \A j \in Jobs : phase[j] = "unused" => told[j] = Nothing /\ j \notin asked

CallbackInv ==
  callback # NoCallback =>
    /\ phase[callback.job] # "unused"
    /\ callback.kind = "Progress" => HasRecord(callback.job) /\ records[callback.job].dispatching
    /\ callback.kind = "Complete" => ~HasRecord(callback.job)

DroppingInv == \A j \in dropping : HasRecord(j)

\* A completion under way is that of a request that has ended, and says Cancelled only of
\* one whose owner asked for it or whose record is gone or marked.
EventInv ==
  \A e \in Underway : e.kind = "Complete" =>
    /\ phase[e.job] = "ended"
    /\ e.status = "Cancelled" /\ HasRecord(e.job) =>
         records[e.job].dropped \/ e.job \in acked

\* Until the queue is disabled, the completion of a record that has ended is under way.
CompletionInv ==
  /\ events # <<>> => hasEvents
  /\ enabled => \A j \in Jobs : phase[j] = "ended" /\ HasRecord(j) =>
       \E e \in Underway : e.kind = "Complete" /\ e.job = j

\* The inductive invariant.
ExtensionInv ==
  /\ ServiceTypeOK /\ ExtensionTypeOK /\ LifeInv
  /\ RecordInv /\ UnusedInv /\ CallbackInv /\ DroppingInv /\ ForwardsBalanced
  /\ NoOrphanTransfer /\ EventInv /\ CompletionInv

LEMMA RecordIsNotNone == \A r \in Record : r # NoRecord
<1> SUFFICES ASSUME NEW r \in Record, r = NoRecord PROVE FALSE
  OBVIOUS
<1>1. "client" \in DOMAIN r
  BY DEF Record
<1>2. "client" \notin DOMAIN NoRecord
  BY DEF NoRecord
<1> QED BY <1>1, <1>2

LEMMA RecordType ==
  ASSUME ExtensionTypeOK, NEW j \in Jobs, HasRecord(j)
  PROVE  records[j] \in Record
BY DEF ExtensionTypeOK, HasRecord

LEMMA MarkedRecord ==
  ASSUME NEW r \in Record, NEW b \in BOOLEAN
  PROVE  /\ [r EXCEPT !.dropped = b] \in Record
         /\ [r EXCEPT !.dropped = b].dropped = b
         /\ [r EXCEPT !.dropped = b].dispatching = r.dispatching
         /\ [r EXCEPT !.dropped = b].owner = r.owner
         /\ [r EXCEPT !.dropped = b].client = r.client
         /\ [r EXCEPT !.dispatching = b] \in Record
         /\ [r EXCEPT !.dispatching = b].dropped = r.dropped
         /\ [r EXCEPT !.dispatching = b].dispatching = b
         /\ [r EXCEPT !.dispatching = b].owner = r.owner
         /\ [r EXCEPT !.dispatching = b].client = r.client
BY DEF Record

LEMMA RecordUpdate ==
  ASSUME ExtensionTypeOK, NEW j \in Jobs, NEW r \in Record \cup {NoRecord},
         records' = [records EXCEPT ![j] = r]
  PROVE  /\ records' \in [Jobs -> Record \cup {NoRecord}]
         /\ records'[j] = r /\ (HasRecord(j)' <=> r # NoRecord)
         /\ \A k \in Jobs \ {j} : records'[k] = records[k] /\ (HasRecord(k)' <=> HasRecord(k))
BY DEF ExtensionTypeOK, HasRecord

LEMMA RecordErasure ==
  ASSUME ExtensionTypeOK, NEW j \in Jobs, records' = [records EXCEPT ![j] = NoRecord]
  PROVE  /\ records' \in [Jobs -> Record \cup {NoRecord}]
         /\ ~HasRecord(j)'
         /\ \A k \in Jobs \ {j} : records'[k] = records[k] /\ (HasRecord(k)' <=> HasRecord(k))
BY DEF ExtensionTypeOK, HasRecord

LEMMA RangeOfOne == \A e : Range(<<e>>) = {e}
BY DEF Range

LEMMA RangeOfNone == Range(<<>>) = {}
BY DEF Range

LEMMA RangeOfTail ==
  ASSUME NEW S, NEW q \in Seq(S), q # <<>>
  PROVE  /\ Head(q) \in S /\ Tail(q) \in Seq(S)
         /\ Range(q) = Range(Tail(q)) \cup {Head(q)}
<1>1. /\ Head(q) \in S /\ Tail(q) \in Seq(S)
      /\ Len(Tail(q)) = Len(q) - 1
      /\ \A i \in 1..Len(Tail(q)) : Tail(q)[i] = q[i + 1]
  BY HeadTailProperties
<1>2. Range(q) = {q[i] : i \in 1..Len(q)} /\ Range(Tail(q)) = {Tail(q)[i] : i \in 1..Len(Tail(q))}
  BY <1>1, RangeEquality
<1>3. Head(q) = q[1] /\ Len(q) \in Nat /\ Len(q) >= 1
  BY EmptySeq
<1>4. ASSUME NEW i \in 1..Len(q) PROVE q[i] \in Range(Tail(q)) \cup {Head(q)}
  <2>1. CASE i = 1
    BY <1>3, <2>1
  <2>2. CASE i # 1
    <3>1. i - 1 \in 1..Len(Tail(q)) /\ Tail(q)[i - 1] = q[i]
      BY <1>1, <1>3, <2>2
    <3> QED BY <1>2, <3>1
  <2> QED BY <2>1, <2>2
<1>5. ASSUME NEW i \in 1..Len(Tail(q)) PROVE Tail(q)[i] \in Range(q)
  <2>1. i + 1 \in 1..Len(q) /\ Tail(q)[i] = q[i + 1]
    BY <1>1, <1>3
  <2> QED BY <1>2, <2>1
<1>6. Head(q) \in Range(q)
  BY <1>2, <1>3
<1> QED BY <1>2, <1>4, <1>5, <1>6

LEMMA UnderwayType ==
  ASSUME ServiceTypeOK, NEW e \in Underway
  PROVE  e \in ServiceEvent /\ e.job \in Jobs
<1>1. Range(batch) \subseteq ServiceEvent /\ Range(events) \subseteq ServiceEvent
  BY RangeOfSeq DEF ServiceTypeOK
<1>2. Range(posting) \subseteq ServiceEvent
  BY RangeOfOne, RangeOfNone DEF ServiceTypeOK
<1> QED BY <1>1, <1>2 DEF Underway, ServiceEvent

LEMMA PostEffect ==
  ASSUME ServiceTypeOK, NEW e \in ServiceEvent, posting = <<>>, Post(e), UNCHANGED batch
  PROVE  /\ events' \in Seq(ServiceEvent) /\ batch' \in Seq(ServiceEvent)
         /\ posting' \in {<<>>} \cup {<<f>> : f \in ServiceEvent}
         /\ Underway' = Underway \cup (IF enabled THEN {e} ELSE {})
BY RangeOfOne, RangeOfNone DEF ServiceTypeOK, Post, Underway

LEMMA CommitEffect ==
  ASSUME ServiceTypeOK, CommitPost, UNCHANGED batch
  PROVE  /\ events' \in Seq(ServiceEvent) /\ batch' \in Seq(ServiceEvent)
         /\ posting' = <<>>
         /\ Underway' = Underway
<1>1. posting \in Seq(ServiceEvent) /\ events \in Seq(ServiceEvent)
  <2>1. \A e \in ServiceEvent : <<e>> \in Seq(ServiceEvent)
    OBVIOUS
  <2>2. <<>> \in Seq(ServiceEvent)
    OBVIOUS
  <2> QED BY <2>1, <2>2 DEF ServiceTypeOK
<1>2. Range(events \o posting) = Range(events) \cup Range(posting)
  BY <1>1, RangeConcatenation
<1>3. events' \in Seq(ServiceEvent)
  BY <1>1, ConcatProperties DEF CommitPost
<1> QED BY <1>2, <1>3, RangeOfNone DEF ServiceTypeOK, CommitPost, Underway

-----------------------------------------------------------------------------
LEMMA CreateClientInv ==
  ASSUME ExtensionInv, PluginRuns, AtRest, NEW p \in loaded, NEW c \in Clients, CreateClient(p, c)
  PROVE  ExtensionInv'
<1> USE DEF ExtensionInv, CreateClient, allVars, queueVars, serviceVars
<1>1. p \in Plugins /\ p # "unborn"
  BY ExtensionAssumption DEF ExtensionTypeOK
<1>2. ServiceTypeOK' /\ EventInv' /\ CompletionInv'
  BY DEF ServiceTypeOK, EventInv, CompletionInv, Underway, HasRecord
<1>3. ExtensionTypeOK' /\ UnusedInv' /\ CallbackInv' /\ DroppingInv' /\ ForwardsBalanced' /\ NoOrphanTransfer'
  BY <1>1 DEF ExtensionTypeOK, UnusedInv, CallbackInv, DroppingInv, ForwardsBalanced, NoOrphanTransfer, HasRecord
<1>4. LifeInv'
  BY <1>1 DEF LifeInv, PluginRuns, HasRecord, Open
<1>5. RecordInv'
  BY <1>1 DEF RecordInv, HasRecord, Open, ExtensionTypeOK
<1> QED BY <1>2, <1>3, <1>4, <1>5

LEMMA SubmitJobInv ==
  ASSUME ExtensionInv, PluginRuns, AtRest, NEW p \in loaded, NEW c \in Clients, NEW j \in Jobs,
         SubmitJob(p, c, j)
  PROVE  ExtensionInv'
<1> USE DEF ExtensionInv, SubmitJob, EnqueueJob, allVars, queueVars, serviceVars
<1>0. PICK progress \in BOOLEAN : records' = [records EXCEPT ![j] = NewRecord(p, c, progress)]
  BY DEF SubmitJob
<1>1. /\ p \in Plugins
      /\ NewRecord(p, c, progress) \in Record
      /\ ~HasRecord(j) /\ phase[j] = "unused" /\ clients[c] \in Plugins
      /\ clients[c] # "unborn"
  BY ExtensionAssumption DEF ExtensionTypeOK, NewRecord, Record, RecordInv, Open
<1>2. /\ HasRecord(j)' /\ records'[j] = NewRecord(p, c, progress)
      /\ phase'[j] = "live"
      /\ \A k \in Jobs \ {j} : records'[k] = records[k] /\ phase'[k] = phase[k]
                                 /\ forwards'[k] = forwards[k]
  BY <1>0, <1>1, RecordIsNotNone DEF HasRecord, ExtensionTypeOK, ServiceTypeOK
<1>3. ServiceTypeOK'
  BY DEF ServiceTypeOK, Phases
<1>4. EventInv'
  BY <1>1, <1>2 DEF EventInv, Underway, HasRecord, ServiceTypeOK
<1>5. CompletionInv'
  BY <1>1, <1>2 DEF CompletionInv, Underway, HasRecord
<1>6. ExtensionTypeOK'
  BY <1>0, <1>1 DEF ExtensionTypeOK
<1>7. LifeInv'
  BY DEF LifeInv, PluginRuns, Orphans, Open
<1>8. RecordInv'
  BY <1>1, <1>2 DEF RecordInv, UnusedInv, HasRecord, Open, NewRecord
<1>9. UnusedInv' /\ CallbackInv' /\ DroppingInv'
  BY <1>1, <1>2 DEF UnusedInv, CallbackInv, DroppingInv, HasRecord, ExtensionTypeOK
<1>10. ForwardsBalanced'
  BY <1>1, <1>2 DEF ForwardsBalanced, CallbackInv, HasRecord, ExtensionTypeOK
<1>11. NoOrphanTransfer'
  BY <1>1, <1>2 DEF NoOrphanTransfer, HasRecord, NewRecord
<1> QED BY <1>3, <1>4, <1>5, <1>6, <1>7, <1>8, <1>9, <1>10, <1>11

LEMMA CancelJobInv ==
  ASSUME ExtensionInv, PluginRuns, AtRest, NEW p \in loaded, NEW j \in Jobs, CancelJob(p, j)
  PROVE  ExtensionInv'
<1> USE DEF ExtensionInv, CancelJob, AskCancel, queueVars
<1>1. ServiceTypeOK' /\ EventInv' /\ CompletionInv'
  BY DEF ServiceTypeOK, EventInv, CompletionInv, Underway, HasRecord
<1>2. ExtensionTypeOK' /\ LifeInv' /\ CallbackInv' /\ DroppingInv' /\ ForwardsBalanced'
  BY DEF ExtensionTypeOK, LifeInv, CallbackInv, DroppingInv, ForwardsBalanced, HasRecord, Open, Orphans
<1>3. RecordInv' /\ UnusedInv' /\ NoOrphanTransfer'
  BY DEF RecordInv, UnusedInv, NoOrphanTransfer, HasRecord, Open
<1> QED BY <1>1, <1>2, <1>3

LEMMA FreeClientInv ==
  ASSUME ExtensionInv, NEW c \in Clients, FreeClient(c)
  PROVE  ExtensionInv'
<1> USE DEF ExtensionInv, FreeClient, allVars, queueVars, serviceVars
<1>1. ServiceTypeOK' /\ EventInv' /\ CompletionInv'
  BY DEF ServiceTypeOK, EventInv, CompletionInv, Underway, HasRecord
<1>2. ExtensionTypeOK' /\ DroppingInv'
  BY DEF ExtensionTypeOK, DroppingInv, HasRecord, RecordsUsing
<1>3. LifeInv'
  BY DEF LifeInv, PluginRuns
<1>4. RecordInv'
  BY DEF RecordInv, HasRecord, Open, RecordsUsing, ExtensionTypeOK
<1>5. UnusedInv' /\ CallbackInv' /\ ForwardsBalanced' /\ NoOrphanTransfer'
  BY DEF UnusedInv, CallbackInv, ForwardsBalanced, NoOrphanTransfer, HasRecord
<1> QED BY <1>1, <1>2, <1>3, <1>4, <1>5

LEMMA UnloadPluginInv ==
  ASSUME ExtensionInv, PluginRuns, AtRest, NEW p \in loaded, UnloadPlugin(p)
  PROVE  ExtensionInv'
<1> USE DEF ExtensionInv, UnloadPlugin, allVars, queueVars, serviceVars
<1>1. ServiceTypeOK' /\ EventInv' /\ CompletionInv'
  BY DEF ServiceTypeOK, EventInv, CompletionInv, Underway, HasRecord
<1>2. ExtensionTypeOK' /\ DroppingInv'
  BY DEF ExtensionTypeOK, DroppingInv, HasRecord, RecordsOwnedBy
<1>3. LifeInv'
  BY DEF LifeInv, PluginRuns
<1>4. RecordInv'
  BY DEF RecordInv, HasRecord, Open, RecordsOwnedBy, AtRest
<1>5. UnusedInv' /\ CallbackInv' /\ ForwardsBalanced' /\ NoOrphanTransfer'
  BY DEF UnusedInv, CallbackInv, ForwardsBalanced, NoOrphanTransfer, HasRecord
<1> QED BY <1>1, <1>2, <1>3, <1>4, <1>5

LEMMA DropJobInv ==
  ASSUME ExtensionInv, NEW j \in Jobs, DropJob(j)
  PROVE  ExtensionInv'
<1> USE DEF ExtensionInv, DropJob, AskCancel, queueVars
<1>1. HasRecord(j) /\ records[j] \in Record /\ phase[j] # "unused"
  BY RecordType DEF DroppingInv, RecordInv
<1>2. CASE InUse(j)
  <2> DEFINE r == [records[j] EXCEPT !.dropped = TRUE]
  <2>1. /\ r \in Record /\ r.dropped /\ r.dispatching
        /\ r.owner = records[j].owner /\ r.client = records[j].client
    <3> HIDE DEF DropJob, ExtensionInv, AskCancel
    <3>1. records[j].dispatching
      BY <1>2 DEF InUse
    <3>2. r \in Record /\ r.dropped
      BY <1>1, MarkedRecord
    <3>3. r.dispatching = records[j].dispatching
      BY <1>1, MarkedRecord
    <3>4. r.owner = records[j].owner /\ r.client = records[j].client
      BY <1>1, MarkedRecord
    <3> QED BY <3>1, <3>2, <3>3, <3>4
  <2>2. records' = [records EXCEPT ![j] = r] /\ UNCHANGED forwards
    BY <1>2 DEF ExtensionTypeOK
  <2> HIDE DEF r
  <2>3. /\ records' \in [Jobs -> Record \cup {NoRecord}]
        /\ \A k \in Jobs : HasRecord(k)' <=> HasRecord(k)
        /\ \A k \in Jobs \ {j} : records'[k] = records[k]
        /\ records'[j] = r
    <3> HIDE DEF DropJob
    <3> QED BY <1>1, <2>1, <2>2, RecordIsNotNone, RecordUpdate
  <2>4. ServiceTypeOK' /\ CompletionInv'
    BY <2>3 DEF ServiceTypeOK, CompletionInv, Underway
  <2>5. EventInv'
    BY <2>1, <2>3, UnderwayType DEF EventInv, Underway
  <2>6. ExtensionTypeOK' /\ LifeInv' /\ DroppingInv' /\ ForwardsBalanced'
    BY <2>2, <2>3 DEF ExtensionTypeOK, LifeInv, DroppingInv, ForwardsBalanced, Open, Orphans
  <2>7. CallbackInv'
    BY <1>1, <2>1, <2>3 DEF CallbackInv, ExtensionTypeOK
  <2>8. RecordInv'
    <3> SUFFICES ASSUME NEW k \in Jobs, HasRecord(k)
                 PROVE  RecordInv!(k)!2'
      BY <2>3 DEF RecordInv
    <3> QED BY <1>1, <1>2, <2>1, <2>3 DEF RecordInv, Open, InUse
  <2>9. UnusedInv' /\ NoOrphanTransfer'
    BY <1>1, <2>1, <2>3 DEF UnusedInv, NoOrphanTransfer
  <2> QED BY <2>4, <2>5, <2>6, <2>7, <2>8, <2>9
<1>3. CASE ~InUse(j)
  <2>1. records' = [records EXCEPT ![j] = NoRecord] /\ Release({j})
    BY <1>3
  <2>2. /\ ~HasRecord(j)'
        /\ \A k \in Jobs \ {j} : records'[k] = records[k] /\ (HasRecord(k)' <=> HasRecord(k))
        /\ records' \in [Jobs -> Record \cup {NoRecord}]
    <3> HIDE DEF DropJob
    <3> QED BY <2>1, RecordUpdate
  <2>3. /\ forwards'[j] = forwards[j] - 1 /\ forwards' \in [Jobs -> Int]
        /\ \A k \in Jobs \ {j} : forwards'[k] = forwards[k]
    BY <2>1 DEF Release, ExtensionTypeOK
  <2>4. ServiceTypeOK' /\ EventInv' /\ CompletionInv'
    BY <2>2, UnderwayType DEF ServiceTypeOK, EventInv, CompletionInv, Underway
  <2>5. ExtensionTypeOK' /\ LifeInv' /\ DroppingInv'
    BY <2>2, <2>3 DEF ExtensionTypeOK, LifeInv, DroppingInv, Open, Orphans
  <2>6. CallbackInv' /\ ForwardsBalanced'
    BY <1>1, <1>3, <2>2, <2>3 DEF CallbackInv, ExtensionTypeOK, InUse, ForwardsBalanced
  <2>7. RecordInv' /\ UnusedInv' /\ NoOrphanTransfer'
    BY <1>1, <2>2 DEF RecordInv, UnusedInv, NoOrphanTransfer, Open
  <2> QED BY <2>4, <2>5, <2>6, <2>7
<1> QED BY <1>2, <1>3

LEMMA OnGameFrameInv ==
  ASSUME ExtensionInv, OnGameFrame
  PROVE  ExtensionInv'
<1> USE DEF ExtensionInv, OnGameFrame, DrainEvents, Drain, serviceVars
<1>1. ServiceTypeOK'
  BY DEF ServiceTypeOK
<1>2. Underway' = Underway
  BY RangeOfNone DEF Underway
<1>3. EventInv' /\ CompletionInv'
  BY <1>2 DEF EventInv, CompletionInv, HasRecord
<1>4. ExtensionTypeOK' /\ LifeInv' /\ RecordInv' /\ UnusedInv' /\ CallbackInv' /\ DroppingInv'
  BY DEF ExtensionTypeOK, LifeInv, RecordInv, UnusedInv, CallbackInv, DroppingInv, HasRecord,
         Open, Orphans
<1>5. ForwardsBalanced' /\ NoOrphanTransfer'
  BY DEF ForwardsBalanced, NoOrphanTransfer, HasRecord
<1> QED BY <1>1, <1>3, <1>4, <1>5

LEMMA NextEventEffect ==
  ASSUME ExtensionInv, NEW kind, NextEvent(kind)
  PROVE  /\ ServiceTypeOK' /\ Head(batch) \in ServiceEvent /\ Head(batch).kind = kind
         /\ Underway = Underway' \cup {Head(batch)}
         /\ callback = NoCallback /\ dropping = {} /\ Orphans = {} /\ life = "loaded"
         /\ mode = "up"
<1> USE DEF ExtensionInv, NextEvent, allVars, queueVars, serviceVars, AtRest
<1>1. /\ batch' \in Seq(ServiceEvent) /\ Head(batch) \in ServiceEvent
      /\ Range(batch) = Range(batch') \cup {Head(batch)}
  BY RangeOfTail DEF ServiceTypeOK
<1> QED BY <1>1 DEF ServiceTypeOK, Underway, LifeInv

LEMMA IgnoreEventInv ==
  ASSUME ExtensionInv, IgnoreEvent
  PROVE  ExtensionInv'
<1> PICK kind \in {"Progress", "Complete"} : NextEvent(kind)
  BY DEF IgnoreEvent
<1> USE DEF ExtensionInv, IgnoreEvent
<1>1. /\ ServiceTypeOK' /\ Head(batch) \in ServiceEvent
      /\ Underway = Underway' \cup {Head(batch)}
  BY NextEventEffect
<1>2. EventInv'
  BY <1>1 DEF EventInv, NextEvent, HasRecord, allVars, serviceVars
<1>3. CompletionInv'
  BY <1>1 DEF CompletionInv, NextEvent, HasRecord, allVars, queueVars, serviceVars
<1>4. ExtensionTypeOK' /\ LifeInv' /\ RecordInv' /\ UnusedInv' /\ CallbackInv' /\ DroppingInv'
  BY DEF NextEvent, allVars, queueVars, serviceVars, ExtensionTypeOK, LifeInv, RecordInv, UnusedInv,
         CallbackInv, DroppingInv, HasRecord, Open, Orphans
<1>5. ForwardsBalanced' /\ NoOrphanTransfer'
  BY DEF NextEvent, allVars, serviceVars, ForwardsBalanced, NoOrphanTransfer, HasRecord
<1> QED BY <1>1, <1>2, <1>3, <1>4, <1>5

LEMMA HandleProgressInv ==
  ASSUME ExtensionInv, HandleProgress
  PROVE  ExtensionInv'
<1> DEFINE j == Head(batch).job
<1> USE DEF ExtensionInv
<1>1. /\ ServiceTypeOK' /\ j \in Jobs /\ HasRecord(j)
      /\ Head(batch).kind = "Progress"
      /\ Underway = Underway' \cup {Head(batch)}
      /\ callback = NoCallback /\ dropping = {} /\ Orphans = {} /\ life = "loaded"
      /\ UNCHANGED <<allVars, life, loaded, clients, dropping, acked, forwards, told>>
  BY NextEventEffect DEF HandleProgress, NextEvent, ServiceEvent
<1>2. records[j] \in Record /\ phase[j] # "unused"
  BY <1>1, RecordType DEF RecordInv
<1>3. CASE records[j].progress
  <2> DEFINE r == [records[j] EXCEPT !.dispatching = TRUE]
  <2>1. /\ r \in Record /\ r.dropped = records[j].dropped /\ r.dispatching
        /\ r.owner = records[j].owner /\ r.client = records[j].client
    BY <1>2, MarkedRecord
  <2>2. /\ records' = [records EXCEPT ![j] = r]
        /\ callback' = [kind |-> "Progress", job |-> j, client |-> records[j].client,
                        owner |-> records[j].owner]
    BY <1>3 DEF HandleProgress, Execute, ExtensionTypeOK
  <2> HIDE DEF r, j
  <2>3. /\ records' \in [Jobs -> Record \cup {NoRecord}]
        /\ \A k \in Jobs : HasRecord(k)' <=> HasRecord(k)
        /\ \A k \in Jobs \ {j} : records'[k] = records[k]
        /\ records'[j] = r
    BY <1>1, <2>1, <2>2, RecordIsNotNone, RecordUpdate
  <2>4. CompletionInv'
    BY <1>1, <2>3 DEF CompletionInv, allVars, queueVars, serviceVars
  <2>5. EventInv'
    BY <1>1, <2>1, <2>3, UnderwayType DEF EventInv, allVars, serviceVars
  <2>6. ExtensionTypeOK'
    BY <1>1, <1>2, <2>3, <2>2 DEF ExtensionTypeOK, Record
  <2>7. LifeInv' /\ DroppingInv'
    BY <1>1, <2>3 DEF LifeInv, DroppingInv, allVars, queueVars, serviceVars
  <2>8. CallbackInv' /\ ForwardsBalanced'
    BY <1>1, <1>2, <2>1, <2>2, <2>3 DEF CallbackInv, ForwardsBalanced, allVars, serviceVars
  <2>9. RecordInv'
    BY <1>1, <1>2, <2>1, <2>2, <2>3 DEF RecordInv, Open, allVars, serviceVars, NoCallback
  <2>10. UnusedInv' /\ NoOrphanTransfer'
    BY <1>1, <2>1, <2>3 DEF UnusedInv, NoOrphanTransfer, allVars, serviceVars
  <2> QED BY <1>1, <2>4, <2>5, <2>6, <2>7, <2>8, <2>9, <2>10
<1>4. CASE ~records[j].progress
  <2>1. UNCHANGED <<records, callback>>
    BY <1>4 DEF HandleProgress
  <2>2. EventInv' /\ CompletionInv'
    BY <1>1, <2>1 DEF EventInv, CompletionInv, HasRecord, allVars, queueVars, serviceVars
  <2>3. ExtensionTypeOK' /\ LifeInv' /\ RecordInv' /\ UnusedInv' /\ CallbackInv' /\ DroppingInv'
    BY <1>1, <2>1 DEF allVars, queueVars, serviceVars, ExtensionTypeOK, LifeInv, RecordInv, UnusedInv,
           CallbackInv, DroppingInv, HasRecord, Open, Orphans
  <2>4. ForwardsBalanced' /\ NoOrphanTransfer'
    BY <1>1, <2>1 DEF allVars, serviceVars, ForwardsBalanced, NoOrphanTransfer, HasRecord
  <2> QED BY <1>1, <2>2, <2>3, <2>4
<1> QED BY <1>3, <1>4

LEMMA EndProgressInv ==
  ASSUME ExtensionInv, EndProgress
  PROVE  ExtensionInv'
<1> USE DEF ExtensionInv
<1>0. PICK j \in Jobs : j = callback.job
  BY DEF EndProgress, NoCallback, ExtensionTypeOK
<1>1. /\ callback # NoCallback /\ callback.kind = "Progress" /\ callback' = NoCallback
      /\ HasRecord(j) /\ records[j] \in Record /\ records[j].dispatching
      /\ phase[j] # "unused" /\ dropping = {} /\ life = "loaded"
      /\ UNCHANGED <<allVars, life, loaded, clients, dropping, batch, acked, told>>
  <2>1. callback # NoCallback
    BY DEF EndProgress, NoCallback
  <2> QED BY <1>0, <2>1, RecordType DEF EndProgress, CallbackInv, AtRest, LifeInv
<1>2. ServiceTypeOK' /\ Underway' = Underway
  BY <1>1 DEF ServiceTypeOK, Underway, allVars, queueVars, serviceVars
<1>3. CASE records[j].dropped
  <2>1. records' = [records EXCEPT ![j] = NoRecord] /\ Release({j})
    BY <1>0, <1>3 DEF EndProgress
  <2>2. /\ ~HasRecord(j)'
        /\ \A k \in Jobs \ {j} : records'[k] = records[k] /\ (HasRecord(k)' <=> HasRecord(k))
        /\ records' \in [Jobs -> Record \cup {NoRecord}]
    <3>1. ExtensionTypeOK
      OBVIOUS
    <3> HIDE DEF ExtensionInv
    <3> QED BY <1>1, <2>1, <3>1, RecordErasure
  <2>3. /\ forwards'[j] = forwards[j] - 1 /\ forwards' \in [Jobs -> Int]
        /\ \A k \in Jobs \ {j} : forwards'[k] = forwards[k]
    BY <1>1, <2>1 DEF Release, ExtensionTypeOK
  <2>4. EventInv' /\ CompletionInv'
    BY <1>1, <1>2, <2>2, UnderwayType DEF EventInv, CompletionInv, allVars, queueVars, serviceVars
  <2>5. ExtensionTypeOK' /\ LifeInv' /\ DroppingInv'
    BY <1>1, <2>2, <2>3 DEF ExtensionTypeOK, LifeInv, DroppingInv, allVars, queueVars, serviceVars
  <2>6. CallbackInv' /\ ForwardsBalanced'
    BY <1>0, <1>1, <2>2, <2>3 DEF CallbackInv, ForwardsBalanced
  <2>7. RecordInv'
    BY <1>0, <1>1, <2>2 DEF RecordInv, Open, allVars, serviceVars
  <2>8. UnusedInv' /\ NoOrphanTransfer'
    BY <1>1, <1>3, <2>2 DEF UnusedInv, NoOrphanTransfer, allVars, serviceVars
  <2> QED BY <1>2, <2>4, <2>5, <2>6, <2>7, <2>8
<1>4. CASE ~records[j].dropped
  <2> DEFINE r == [records[j] EXCEPT !.dispatching = FALSE]
  <2>1. /\ r \in Record /\ r.dropped = records[j].dropped /\ ~r.dispatching
        /\ r.owner = records[j].owner /\ r.client = records[j].client
    BY <1>1, MarkedRecord
  <2>2. records' = [records EXCEPT ![j] = r] /\ UNCHANGED forwards
    BY <1>0, <1>4 DEF EndProgress, ExtensionTypeOK
  <2> HIDE DEF r
  <2>3. /\ records' \in [Jobs -> Record \cup {NoRecord}]
        /\ \A k \in Jobs : HasRecord(k)' <=> HasRecord(k)
        /\ \A k \in Jobs \ {j} : records'[k] = records[k]
        /\ records'[j] = r
    BY <1>1, <2>1, <2>2, RecordIsNotNone, RecordUpdate
  <2>4. CompletionInv'
    BY <1>1, <1>2, <2>3 DEF CompletionInv, allVars, queueVars, serviceVars
  <2>5. EventInv'
    BY <1>1, <1>2, <2>1, <2>3, UnderwayType DEF EventInv, allVars, serviceVars
  <2>6. ExtensionTypeOK' /\ LifeInv' /\ DroppingInv'
    BY <1>1, <2>2, <2>3 DEF ExtensionTypeOK, LifeInv, DroppingInv, allVars, queueVars, serviceVars
  <2>7. CallbackInv' /\ ForwardsBalanced'
    BY <1>0, <1>1, <2>2, <2>3 DEF CallbackInv, ForwardsBalanced
  <2>8. RecordInv'
    BY <1>0, <1>1, <1>4, <2>1, <2>3 DEF RecordInv, Open, allVars, serviceVars
  <2>9. UnusedInv' /\ NoOrphanTransfer'
    BY <1>1, <2>1, <2>3 DEF UnusedInv, NoOrphanTransfer, allVars, serviceVars
  <2> QED BY <1>2, <2>4, <2>5, <2>6, <2>7, <2>8, <2>9
<1> QED BY <1>3, <1>4

LEMMA HandleCompleteInv ==
  ASSUME ExtensionInv, HandleComplete
  PROVE  ExtensionInv'
<1> USE DEF ExtensionInv
<1>0. PICK e \in ServiceEvent : e = Head(batch)
  BY NextEventEffect DEF HandleComplete
<1> DEFINE j == e.job
<1>1. /\ ServiceTypeOK' /\ e.kind = "Complete" /\ e \in Underway
      /\ Underway = Underway' \cup {e}
      /\ callback = NoCallback /\ dropping = {} /\ Orphans = {} /\ life = "loaded"
      /\ UNCHANGED <<allVars, life, loaded, clients, dropping, acked>>
      /\ HasRecord(j) /\ records' = [records EXCEPT ![j] = NoRecord]
  BY <1>0, NextEventEffect DEF HandleComplete, NextEvent
<1>2. /\ j \in Jobs /\ e.status \in Outcomes \cup {"Cancelled"}
      /\ records[j] \in Record /\ phase[j] = "ended"
  BY <1>1, RecordType DEF ServiceEvent, EventInv
<1>3. \/ /\ callback' = [kind |-> "Complete", job |-> j, client |-> records[j].client,
                        owner |-> records[j].owner]
         /\ told' = [told EXCEPT ![j] = e.status]
         /\ UNCHANGED forwards
      \/ Release({j}) /\ UNCHANGED <<callback, told>>
  BY <1>0 DEF HandleComplete, Execute
<1> HIDE DEF j
<1>4. /\ ~HasRecord(j)'
      /\ \A k \in Jobs \ {j} : records'[k] = records[k] /\ (HasRecord(k)' <=> HasRecord(k))
      /\ records' \in [Jobs -> Record \cup {NoRecord}]
  <2>1. ExtensionTypeOK
    OBVIOUS
  <2> HIDE DEF ExtensionInv
  <2> QED BY <1>1, <1>2, <2>1, RecordErasure
<1>5. EventInv' /\ CompletionInv'
  BY <1>1, <1>2, <1>4, UnderwayType
     DEF EventInv, CompletionInv, allVars, queueVars, serviceVars, j
<1>6. ExtensionTypeOK'
  BY <1>1, <1>2, <1>3, <1>4 DEF ExtensionTypeOK, Record, Release
<1>7. LifeInv' /\ DroppingInv'
  BY <1>1, <1>4 DEF LifeInv, DroppingInv, allVars, queueVars, serviceVars
<1>8. CallbackInv'
  BY <1>1, <1>2, <1>3, <1>4 DEF CallbackInv, allVars, serviceVars
<1>9. ForwardsBalanced'
  BY <1>1, <1>2, <1>3, <1>4 DEF ForwardsBalanced, Release, ExtensionTypeOK, NoCallback
<1>10. RecordInv'
  BY <1>1, <1>2, <1>3, <1>4 DEF RecordInv, Open, allVars, serviceVars, ExtensionTypeOK
<1>11. UnusedInv' /\ NoOrphanTransfer'
  BY <1>1, <1>2, <1>3, <1>4 DEF UnusedInv, NoOrphanTransfer, allVars, serviceVars, ExtensionTypeOK
<1> QED BY <1>1, <1>5, <1>6, <1>7, <1>8, <1>9, <1>10, <1>11

LEMMA EndCompleteInv ==
  ASSUME ExtensionInv, EndComplete
  PROVE  ExtensionInv'
<1> USE DEF ExtensionInv, EndComplete, allVars, queueVars, serviceVars
<1>1. callback # NoCallback /\ callback.job \in Jobs /\ ~HasRecord(callback.job)
  BY DEF NoCallback, ExtensionTypeOK, CallbackInv
<1>2. ServiceTypeOK' /\ EventInv' /\ CompletionInv'
  BY DEF ServiceTypeOK, EventInv, CompletionInv, Underway, HasRecord
<1>3. ExtensionTypeOK' /\ LifeInv' /\ DroppingInv' /\ CallbackInv' /\ UnusedInv' /\ NoOrphanTransfer'
  BY DEF ExtensionTypeOK, LifeInv, DroppingInv, CallbackInv, UnusedInv, NoOrphanTransfer,
         HasRecord, Open, Orphans, Release
<1>4. RecordInv'
  BY <1>1 DEF RecordInv, HasRecord, Open
<1>5. ForwardsBalanced'
  BY <1>1 DEF ForwardsBalanced, Release, HasRecord, ExtensionTypeOK
<1> QED BY <1>2, <1>3, <1>4, <1>5

LEMMA OnLoadInv ==
  ASSUME ExtensionInv, OnLoad
  PROVE  ExtensionInv'
<1> USE DEF ExtensionInv, OnLoad, StartService, queueVars
<1>1. ServiceTypeOK' /\ EventInv' /\ CompletionInv'
  BY DEF ServiceTypeOK, EventInv, CompletionInv, Underway, HasRecord, Modes
<1>2. ExtensionTypeOK' /\ DroppingInv' /\ CallbackInv' /\ UnusedInv' /\ ForwardsBalanced'
  BY DEF ExtensionTypeOK, DroppingInv, CallbackInv, UnusedInv, ForwardsBalanced, HasRecord
<1>3. LifeInv' /\ RecordInv'
  BY DEF LifeInv, RecordInv, HasRecord, Open
<1>4. NoOrphanTransfer'
  BY DEF NoOrphanTransfer, LifeInv
<1> QED BY <1>1, <1>2, <1>3, <1>4

LEMMA UnloadingInv ==
  ASSUME ExtensionInv, BeginUnload \/ StopThread \/ DrainLast
  PROVE  ExtensionInv'
<1> USE DEF ExtensionInv, queueVars, serviceVars
<1>1. CASE BeginUnload
  <2> USE <1>1 DEF BeginUnload, Disable, SetEnabled
  <2>1. ServiceTypeOK' /\ EventInv' /\ CompletionInv'
    BY DEF ServiceTypeOK, EventInv, CompletionInv, Underway, HasRecord
  <2>2. ExtensionTypeOK' /\ DroppingInv' /\ CallbackInv' /\ UnusedInv' /\ ForwardsBalanced'
    BY DEF ExtensionTypeOK, DroppingInv, CallbackInv, UnusedInv, ForwardsBalanced, HasRecord
  <2>3. LifeInv' /\ RecordInv' /\ NoOrphanTransfer'
    BY DEF LifeInv, AtRest, RecordInv, NoOrphanTransfer, HasRecord, Open, Orphans
  <2> QED BY <2>1, <2>2, <2>3
<1>2. CASE StopThread
  <2> USE <1>2 DEF StopThread, StopService
  <2>1. ServiceTypeOK' /\ EventInv' /\ CompletionInv'
    BY DEF ServiceTypeOK, EventInv, CompletionInv, Underway, HasRecord, Modes
  <2>2. ExtensionTypeOK' /\ DroppingInv' /\ CallbackInv' /\ UnusedInv' /\ ForwardsBalanced'
    BY DEF ExtensionTypeOK, DroppingInv, CallbackInv, UnusedInv, ForwardsBalanced, HasRecord
  <2>3. LifeInv' /\ RecordInv' /\ NoOrphanTransfer'
    BY DEF LifeInv, RecordInv, NoOrphanTransfer, HasRecord, Open, Orphans
  <2> QED BY <2>1, <2>2, <2>3
<1>3. CASE DrainLast
  <2> USE <1>3 DEF DrainLast, DrainEvents, Drain
  <2>1. Underway' \subseteq Underway /\ ServiceTypeOK'
    <3>1. events' = <<>> /\ UNCHANGED <<posting, batch, enabled, phase, asked, mode>> /\ hasEvents' = FALSE
      BY DEF DrainLast, serviceVars
    <3>2. <<>> \in Seq(ServiceEvent)
      OBVIOUS
    <3> HIDE DEF DrainLast, DrainEvents, Drain
    <3> QED BY <3>1, <3>2, RangeOfNone DEF Underway, ServiceTypeOK
  <2>2. EventInv' /\ CompletionInv'
    BY <2>1 DEF EventInv, CompletionInv, LifeInv, HasRecord
  <2>3. ExtensionTypeOK' /\ DroppingInv' /\ CallbackInv' /\ UnusedInv' /\ ForwardsBalanced'
    BY DEF ExtensionTypeOK, DroppingInv, CallbackInv, UnusedInv, ForwardsBalanced, HasRecord
  <2>4. LifeInv' /\ RecordInv' /\ NoOrphanTransfer'
    BY DEF LifeInv, RecordInv, NoOrphanTransfer, HasRecord, Open, Orphans
  <2> QED BY <2>1, <2>2, <2>3, <2>4
<1> QED BY <1>1, <1>2, <1>3

LEMMA ReleaseRecordsInv ==
  ASSUME ExtensionInv, ReleaseRecords
  PROVE  ExtensionInv'
<1> USE DEF ExtensionInv, ReleaseRecords, allVars, queueVars, serviceVars
<1>1. \A j \in Jobs : ~HasRecord(j)'
  BY DEF HasRecord
<1>2. ServiceTypeOK' /\ EventInv' /\ CompletionInv'
  BY <1>1, UnderwayType DEF ServiceTypeOK, EventInv, CompletionInv, Underway
<1>3. ExtensionTypeOK' /\ LifeInv'
  BY <1>1 DEF ExtensionTypeOK, Release, LifeInv, Open, Orphans
<1>4. RecordInv' /\ DroppingInv' /\ CallbackInv' /\ UnusedInv' /\ NoOrphanTransfer'
  BY <1>1 DEF RecordInv, DroppingInv, CallbackInv, UnusedInv, NoOrphanTransfer, LifeInv
<1>5. ForwardsBalanced'
  BY <1>1 DEF ForwardsBalanced, Release, LifeInv, ExtensionTypeOK
<1> QED BY <1>2, <1>3, <1>4, <1>5

LEMMA RemoveTypesInv ==
  ASSUME ExtensionInv, RemoveTypes
  PROVE  ExtensionInv'
<1> USE DEF ExtensionInv, RemoveTypes, allVars, queueVars, serviceVars
<1>1. /\ \A j \in Jobs : ~HasRecord(j) /\ ~HasRecord(j)'
      /\ dropping' = {}
  BY DEF LifeInv, RecordsUsing, HasRecord
<1>2. ServiceTypeOK' /\ EventInv' /\ CompletionInv'
  BY <1>1, UnderwayType DEF ServiceTypeOK, EventInv, CompletionInv, Underway
<1>3. ExtensionTypeOK'
  BY <1>1 DEF ExtensionTypeOK
<1>4. LifeInv'
  BY <1>1, ExtensionAssumption DEF LifeInv, Open, Orphans, ExtensionTypeOK
<1>5. RecordInv' /\ DroppingInv' /\ CallbackInv' /\ UnusedInv' /\ NoOrphanTransfer' /\ ForwardsBalanced'
  BY <1>1 DEF RecordInv, DroppingInv, CallbackInv, UnusedInv, NoOrphanTransfer, LifeInv, ForwardsBalanced
<1> QED BY <1>2, <1>3, <1>4, <1>5

LEMMA GameStutterInv ==
  ASSUME ExtensionInv, UNCHANGED gameVars
  PROVE  ExtensionInv'
<1> USE DEF ExtensionInv, gameVars, extensionVars, allVars, queueVars, serviceVars
<1>1. ServiceTypeOK' /\ EventInv' /\ CompletionInv'
  BY DEF ServiceTypeOK, EventInv, CompletionInv, Underway, HasRecord
<1>2. ExtensionTypeOK' /\ LifeInv' /\ RecordInv' /\ UnusedInv' /\ CallbackInv' /\ DroppingInv'
  BY DEF ExtensionTypeOK, LifeInv, RecordInv, UnusedInv, CallbackInv, DroppingInv, HasRecord, Open, Orphans
<1>3. ForwardsBalanced' /\ NoOrphanTransfer'
  BY DEF ForwardsBalanced, NoOrphanTransfer, HasRecord
<1> QED BY <1>1, <1>2, <1>3

\* What the transfer thread may do to what the extension relies on.
LEMMA ThreadInv ==
  ASSUME ExtensionInv, Thread
  PROVE  ExtensionInv'
<1> USE DEF ExtensionInv
<1>0. UNCHANGED <<life, loaded, clients, records, dropping, forwards, batch, callback, acked, told>>
  BY DEF Thread, extensionVars
<1>a. ExtensionTypeOK' /\ DroppingInv' /\ ForwardsBalanced'
  BY <1>0 DEF ExtensionTypeOK, DroppingInv, ForwardsBalanced, HasRecord
<1>1. CASE DeliverPost
  <2> USE <1>1 DEF DeliverPost, serviceVars
  <2>1. /\ Underway' = Underway /\ posting' = <<>> /\ hasEvents' /\ UNCHANGED enabled
        /\ ServiceTypeOK'
    BY <1>0, CommitEffect DEF ServiceTypeOK, CommitPost
  <2>2. EventInv' /\ CompletionInv'
    BY <1>0, <2>1 DEF EventInv, CompletionInv, HasRecord
  <2>3. LifeInv'
    BY <1>0, <2>1 DEF LifeInv, HasRecord, Open, Orphans, CommitPost
  <2>4. RecordInv' /\ UnusedInv' /\ CallbackInv' /\ NoOrphanTransfer'
    BY <1>0 DEF RecordInv, UnusedInv, CallbackInv, NoOrphanTransfer, HasRecord, Open
  <2> QED BY <1>a, <2>1, <2>2, <2>3, <2>4
<1>2. ASSUME NEW j \in Jobs, ReportProgress(j)
      PROVE  ExtensionInv'
  <2> USE <1>2 DEF ReportProgress, Working, serviceVars
  <2>1. Progress(j) \in ServiceEvent /\ Progress(j).kind = "Progress"
    BY DEF Progress, ServiceEvent
  <2>2. /\ ServiceTypeOK' /\ UNCHANGED <<events, hasEvents, enabled>>
        /\ Underway' = Underway \cup (IF enabled THEN {Progress(j)} ELSE {})
    BY <1>0, <2>1, PostEffect DEF ServiceTypeOK, Post
  <2>3. EventInv' /\ CompletionInv'
    BY <1>0, <2>1, <2>2 DEF EventInv, CompletionInv, HasRecord
  <2>4. LifeInv'
    BY <1>0, <2>2 DEF LifeInv, HasRecord, Open, Orphans
  <2>5. RecordInv' /\ UnusedInv' /\ CallbackInv' /\ NoOrphanTransfer'
    BY <1>0 DEF RecordInv, UnusedInv, CallbackInv, NoOrphanTransfer, HasRecord, Open
  <2> QED BY <1>a, <2>2, <2>3, <2>4, <2>5
<1>3. ASSUME NEW j \in Jobs, NEW status \in Outcomes \cup {"Cancelled"},
             Working, phase[j] = "live",
             status = "Cancelled" => j \in asked \/ mode = "stopping",
             phase' = [phase EXCEPT ![j] = "ended"],
             Post(Complete(j, status)),
             asked' \in {asked, asked \ {j}}, UNCHANGED mode
      PROVE  ExtensionInv'
  <2> USE <1>3 DEF Working
  <2>1. /\ Complete(j, status) \in ServiceEvent /\ Complete(j, status).kind = "Complete"
        /\ Complete(j, status).job = j /\ Complete(j, status).status = status
    BY DEF Complete, ServiceEvent
  <2>2. /\ UNCHANGED <<events, hasEvents, enabled>>
        /\ Underway' = Underway \cup (IF enabled THEN {Complete(j, status)} ELSE {})
        /\ ServiceTypeOK'
    BY <1>0, <2>1, PostEffect DEF ServiceTypeOK, Post, Phases
  <2>3. phase'[j] = "ended" /\ \A k \in Jobs \ {j} : phase'[k] = phase[k]
    BY DEF ServiceTypeOK
  <2>4. EventInv'
    <3>1. enabled /\ status = "Cancelled" /\ HasRecord(j) => records[j].dropped \/ j \in acked
      BY DEF LifeInv, RecordInv
    <3> QED BY <1>0, <2>1, <2>2, <2>3, <3>1, UnderwayType DEF EventInv, HasRecord
  <2>5. CompletionInv'
    BY <1>0, <2>1, <2>2, <2>3 DEF CompletionInv, HasRecord
  <2>6. LifeInv'
    BY <1>0, <2>2 DEF LifeInv, HasRecord, Open, Orphans
  <2>7. RecordInv' /\ UnusedInv' /\ NoOrphanTransfer'
    BY <1>0, <2>3 DEF RecordInv, UnusedInv, NoOrphanTransfer, HasRecord, Open
  <2>8. CallbackInv'
    BY <1>0, <2>3 DEF CallbackInv, HasRecord, ExtensionTypeOK
  <2> QED BY <1>a, <2>2, <2>4, <2>5, <2>6, <2>7, <2>8
<1>4. ASSUME NEW j \in Jobs, EndJob(j) \/ EndCancelled(j)
      PROVE  ExtensionInv'
  <2>1. CASE EndJob(j)
    <3>1. PICK status \in Outcomes : Post(Complete(j, status))
      BY <2>1 DEF EndJob
    <3>2. status # "Cancelled"
      BY ExtensionAssumption
    <3> QED BY <2>1, <3>1, <3>2, <1>3 DEF EndJob
  <2>2. CASE EndCancelled(j)
    BY <2>2, <1>3 DEF EndCancelled
  <2> QED BY <1>4, <2>1, <2>2
<1>5. ASSUME NEW j \in Jobs, ForgetCancel(j)
      PROVE  ExtensionInv'
  <2> USE <1>5 DEF ForgetCancel, queueVars
  <2>1. ServiceTypeOK' /\ EventInv' /\ CompletionInv'
    BY <1>0 DEF ServiceTypeOK, EventInv, CompletionInv, Underway, HasRecord
  <2>2. LifeInv' /\ RecordInv' /\ UnusedInv' /\ CallbackInv' /\ NoOrphanTransfer'
    BY <1>0 DEF LifeInv, RecordInv, UnusedInv, CallbackInv, NoOrphanTransfer, HasRecord, Open, Orphans
  <2> QED BY <1>a, <2>1, <2>2
<1>6. CASE StopReturned
  <2> USE <1>6 DEF StopReturned, queueVars
  <2>1. /\ phase' \in [Jobs -> Phases]
        /\ \A j \in Jobs : /\ phase'[j] = "ended" <=> phase[j] = "ended"
                           /\ phase'[j] = "unused" <=> phase[j] = "unused"
    BY DEF ServiceTypeOK, Phases
  <2>2. ServiceTypeOK' /\ EventInv' /\ CompletionInv'
    BY <1>0, <2>1, UnderwayType DEF ServiceTypeOK, EventInv, CompletionInv, Underway, HasRecord, Modes
  <2>3. LifeInv' /\ RecordInv' /\ UnusedInv' /\ NoOrphanTransfer'
    BY <1>0, <2>1 DEF LifeInv, RecordInv, UnusedInv, NoOrphanTransfer, HasRecord, Open, Orphans
  <2>4. CallbackInv'
    BY <1>0, <2>1 DEF CallbackInv, HasRecord, ExtensionTypeOK
  <2> QED BY <1>a, <2>2, <2>3, <2>4
<1> QED BY <1>1, <1>2, <1>4, <1>5, <1>6 DEF Thread, WorkNext

LEMMA ExtensionInitInv == ExtensionInit => ExtensionInv
<1> SUFFICES ASSUME ExtensionInit PROVE ExtensionInv
  OBVIOUS
<1> USE DEF ExtensionInit, ServiceInit, QueueInit
<1>1. ServiceTypeOK
  <2>1. <<>> \in Seq(ServiceEvent)
    OBVIOUS
  <2> QED BY <2>1 DEF ServiceTypeOK, Phases, Modes
<1>2. ExtensionTypeOK
  BY DEF ExtensionTypeOK
<1>3. LifeInv /\ RecordInv /\ UnusedInv /\ CallbackInv /\ DroppingInv /\ ForwardsBalanced /\ NoOrphanTransfer
  BY ExtensionAssumption DEF LifeInv, RecordInv, UnusedInv, CallbackInv, DroppingInv, ForwardsBalanced, NoOrphanTransfer,
         HasRecord, Orphans, Open
<1>4. EventInv /\ CompletionInv
  BY RangeOfNone DEF EventInv, CompletionInv, Underway, HasRecord
<1> QED BY <1>1, <1>2, <1>3, <1>4 DEF ExtensionInv

LEMMA ExtensionNextInv ==
  ASSUME ExtensionInv, [ExtensionNext]_gameVars
  PROVE  ExtensionInv'
<1>1. CASE PluginCalls
  <2>1. PICK p \in loaded :
          \/ UnloadPlugin(p)
          \/ \E c \in Clients : CreateClient(p, c) \/ \E j \in Jobs : SubmitJob(p, c, j)
          \/ \E j \in Jobs : CancelJob(p, j)
    BY <1>1 DEF PluginCalls
  <2>2. PluginRuns /\ AtRest
    BY <1>1 DEF PluginCalls
  <2> QED BY <2>1, <2>2, UnloadPluginInv, CreateClientInv, SubmitJobInv, CancelJobInv
<1>2. CASE Frame
  BY <1>2, OnGameFrameInv, IgnoreEventInv, HandleProgressInv, HandleCompleteInv DEF Frame
<1>3. CASE Carry
  BY <1>3, EndProgressInv, EndCompleteInv, UnloadingInv, ReleaseRecordsInv, RemoveTypesInv, DropJobInv,
     FreeClientInv DEF Carry, Orphans
<1>4. CASE Unloaded \/ UNCHANGED gameVars
  BY <1>4, GameStutterInv DEF Unloaded
<1> QED BY <1>1, <1>2, <1>3, <1>4, ThreadInv, OnLoadInv, UnloadingInv, FreeClientInv DEF ExtensionNext

-----------------------------------------------------------------------------
(***************************************************************************)
(* The theorems.                                                           *)
(***************************************************************************)

\* The inductive invariant holds of every state the loaded extension can reach.
THEOREM ExtensionInvHolds == ExtensionSafety => []ExtensionInv
<1>1. ExtensionInit => ExtensionInv
  BY ExtensionInitInv
<1>2. ExtensionInv /\ [ExtensionNext]_gameVars => ExtensionInv'
  BY ExtensionNextInv
<1> QED BY <1>1, <1>2, PTL DEF ExtensionSafety

\* Every variable of the extension keeps its type.
THEOREM ExtensionTypes == ExtensionSafety => []ExtensionTypeOK
<1>1. ExtensionInv => ExtensionTypeOK
  BY DEF ExtensionInv
<1> QED BY <1>1, ExtensionInvHolds, PTL

\* Whatever plugins do, and wherever the transfer thread interrupts the loops, the forwards
\* of a request are released once: with its record, or after its completed callback.
THEOREM ForwardsAreBalanced == ExtensionSafety => []ForwardsBalanced
<1>1. ExtensionInv => ForwardsBalanced
  BY DEF ExtensionInv
<1> QED BY <1>1, ExtensionInvHolds, PTL

\* The record that HandleProgress holds a reference to is in m_jobs until its callback
\* returned, and no record is left in use without a callback.
THEOREM RecordsOutliveCallbacks == ExtensionSafety => []RecordOutlivesCallback
<1>1. ExtensionInv => RecordOutlivesCallback
  BY DEF ExtensionInv, CallbackInv, RecordInv, RecordOutlivesCallback
<1> QED BY <1>1, ExtensionInvHolds, PTL

\* Once the loops over DropJob have ended, no record of an unloaded plugin or of a closed
\* client is left that a callback could still be made for.
THEOREM RecordsAreOwned == ExtensionSafety => []RecordsHaveOwners
<1>1. ExtensionInv => RecordsHaveOwners
  BY DEF ExtensionInv, RecordInv, RecordsHaveOwners, AtRest
<1> QED BY <1>1, ExtensionInvHolds, PTL

\* Dropping a record always asks the thread to cancel its transfer.
THEOREM NoOrphans == ExtensionSafety => []NoOrphanTransfer
<1>1. ExtensionInv => NoOrphanTransfer
  BY DEF ExtensionInv
<1> QED BY <1>1, ExtensionInvHolds, PTL

\* No completion is lost between the thread and the frame that handles it.
THEOREM NoCompletionIsLost == ExtensionSafety => []NoLostCompletion
<1>1. ASSUME ExtensionInv PROVE NoLostCompletion
  <2>1. /\ batch \in Seq(ServiceEvent) /\ events \in Seq(ServiceEvent)
        /\ posting \in Seq(ServiceEvent)
    <3>1. <<>> \in Seq(ServiceEvent) /\ \A e \in ServiceEvent : <<e>> \in Seq(ServiceEvent)
      OBVIOUS
    <3> QED BY <1>1, <3>1 DEF ExtensionInv, ServiceTypeOK
  <2>2. Stream \in Seq(ServiceEvent) /\ Range(Stream) = Range(events) \cup Range(posting)
    BY <2>1, RangeConcatenation, ConcatProperties DEF Stream
  <2>3. /\ batch \o Stream \in Seq(ServiceEvent)
        /\ Range(batch \o Stream) = Underway
    BY <2>1, <2>2, RangeConcatenation, ConcatProperties DEF Underway
  <2>4. \A e \in Underway : \E i \in DOMAIN (batch \o Stream) : (batch \o Stream)[i] = e
    BY <2>3 DEF Range
  <2> QED BY <1>1, <2>4 DEF ExtensionInv, CompletionInv, NoLostCompletion
<1> QED BY <1>1, ExtensionInvHolds, PTL

\* SDK_OnUnload leaves no record, forward or open client behind, nothing in the queue, and
\* no thread that could post to it.
THEOREM UnloadsCleanly == ExtensionSafety => []CleanUnload
<1>1. ExtensionInv => CleanUnload
  BY DEF ExtensionInv, LifeInv, ForwardsBalanced, CleanUnload
<1> QED BY <1>1, ExtensionInvHolds, PTL

-----------------------------------------------------------------------------
(***************************************************************************)
(* The refinement: each step of the extension is, under the mapping of     *)
(* S3Extension, one step of RequestService or none.                        *)
(***************************************************************************)

\* A record whose request is still pending.
Live(j) ==
  /\ HasRecord(j) /\ StageOf # "gone"
  /\ ~records[j].dropped /\ j \notin dropping /\ clients[records[j].client] \in loaded

\* What the mapping says of the requests and the handles.
Request == [j \in Jobs |-> RequestOf(j)]
Owns == [c \in Clients |-> OwnerOf(c)]

\* One step of the abstract service, or none.
ServiceStep == [Requests!RequestNext]_(Requests!requestVars)

-----------------------------------------------------------------------------
LEMMA RequestStates ==
  /\ Requests!Unused.state = "unused" /\ Requests!Done.state = "done"
  /\ Requests!Silenced.state = "silenced"
  /\ \A p, c : /\ Requests!Pending(p, c).state = "pending"
               /\ Requests!Pending(p, c).owner = p
               /\ Requests!Pending(p, c).client = c
BY DEF Requests!Unused, Requests!Done, Requests!Silenced, Requests!Pending

\* The state of a request, by the record, the submission and the completion behind it.
LEMMA RequestIs ==
  ASSUME ExtensionInv, NEW j \in Jobs
  PROVE  /\ Live(j) => RequestOf(j) = Requests!Pending(records[j].owner, records[j].client)
         /\ ~Live(j) /\ phase[j] = "unused" => RequestOf(j) = Requests!Unused
         /\ ~Live(j) /\ phase[j] # "unused" /\ told[j] # Nothing => RequestOf(j) = Requests!Done
         /\ ~Live(j) /\ phase[j] # "unused" /\ told[j] = Nothing =>
              RequestOf(j) = Requests!Silenced
BY DEF RequestOf, Live, HasRecord, ExtensionInv, RecordInv, UnusedInv,
       Requests!Unused, Requests!Done, Requests!Silenced, Requests!Pending

LEMMA RequestWillBe ==
  ASSUME ExtensionInv', NEW j \in Jobs
  PROVE  /\ Live(j)' => RequestOf(j)' = Requests!Pending(records'[j].owner, records'[j].client)
         /\ ~Live(j)' /\ phase'[j] = "unused" => RequestOf(j)' = Requests!Unused
         /\ ~Live(j)' /\ phase'[j] # "unused" /\ told'[j] # Nothing =>
              RequestOf(j)' = Requests!Done
         /\ ~Live(j)' /\ phase'[j] # "unused" /\ told'[j] = Nothing =>
              RequestOf(j)' = Requests!Silenced
BY DEF RequestOf, Live, HasRecord, ExtensionInv, RecordInv, UnusedInv,
       Requests!Unused, Requests!Done, Requests!Silenced, Requests!Pending

\* No request changes in a step that leaves the records alone, and what is known of them.
LEMMA SameRequests ==
  ASSUME ExtensionInv, ExtensionInv', UNCHANGED told,
         \A j \in Jobs : /\ Live(j)' <=> Live(j)
                         /\ Live(j) => /\ records'[j].owner = records[j].owner
                                       /\ records'[j].client = records[j].client
                         /\ phase'[j] = "unused" <=> phase[j] = "unused"
  PROVE  UNCHANGED Request
<1>1. ASSUME NEW j \in Jobs PROVE RequestOf(j)' = RequestOf(j)
  BY RequestIs, RequestWillBe
<1> QED BY <1>1 DEF Request

\* A step that changes nothing else that the mapping looks at is no step of the service.
LEMMA Stutters ==
  ASSUME UNCHANGED <<StageOf, loaded, acked, callback, told>>, UNCHANGED Request,
         \A c \in Clients : OwnerOf(c)' = OwnerOf(c)
  PROVE  ServiceStep
<1>1. UNCHANGED Owns
  BY DEF Owns
<1> QED BY <1>1 DEF ServiceStep, Requests!requestVars, Request, Owns

LEMMA Pendings ==
  ASSUME ExtensionInv
  PROVE  /\ \A j \in Jobs : Requests!IsPending(j) <=> Live(j)
         /\ \A j \in Jobs : Live(j) => /\ Request[j].owner = records[j].owner
                                       /\ Request[j].client = records[j].client
         /\ \A C : Requests!Using(C) = {j \in Jobs : Live(j) /\ records[j].client \in C}
         /\ \A p : Requests!OwnedBy(p) = {j \in Jobs : Live(j) /\ records[j].owner = p}
         /\ \A p : Requests!ClientsOf(p) = {c \in Clients : OwnerOf(c) = p}
<1>1. ASSUME NEW j \in Jobs
      PROVE  /\ RequestOf(j).state = "pending" <=> Live(j)
             /\ Live(j) => /\ RequestOf(j).owner = records[j].owner
                           /\ RequestOf(j).client = records[j].client
  BY RequestIs, RequestStates
<1>2. \A j \in Jobs : Requests!IsPending(j) <=> Live(j)
  BY <1>1 DEF Requests!IsPending
<1> QED BY <1>1, <1>2 DEF Request, Requests!Using, Requests!OwnedBy, Requests!ClientsOf

\* A step that ends the pending requests of a set, and touches no other, silences the set.
LEMMA Silences ==
  ASSUME ExtensionInv, ExtensionInv', UNCHANGED told, NEW S,
         \A j \in Jobs : /\ Live(j)' <=> Live(j) /\ j \notin S
                         /\ Live(j)' => /\ records'[j].owner = records[j].owner
                                        /\ records'[j].client = records[j].client
                         /\ phase'[j] = "unused" <=> phase[j] = "unused"
  PROVE  Requests!Silence(S)
<1>1. ASSUME NEW j \in Jobs
      PROVE  RequestOf(j)' = IF Live(j) /\ j \in S THEN Requests!Silenced ELSE RequestOf(j)
  <2>1. Live(j) => phase[j] # "unused" /\ told[j] = Nothing
    BY DEF ExtensionInv, RecordInv, Live
  <2> QED BY <2>1, RequestIs, RequestWillBe
<1>2. ASSUME NEW j \in Jobs
      PROVE  RequestOf(j)' =
               IF Requests!IsPending(j) /\ j \in S THEN Requests!Silenced ELSE Request[j]
  BY <1>1, Pendings DEF Request
<1>3. Request' = [j \in Jobs |-> IF Requests!IsPending(j) /\ j \in S
                                 THEN Requests!Silenced ELSE Request[j]]
  BY <1>2 DEF Request
<1> QED BY <1>3 DEF Requests!Silence, Request

\* While the extension is up, the handle of a loaded plugin is open and no other is.
LEMMA OwnerWhenUp ==
  ASSUME ExtensionInv, life = "loaded", NEW c \in Clients
  PROVE  /\ StageOf = "up"
         /\ OwnerOf(c) = IF clients[c] \in Plugins /\ clients[c] \notin loaded
                         THEN "freed" ELSE clients[c]
         /\ OwnerOf(c) \in loaded <=> clients[c] \in loaded
         /\ OwnerOf(c) = "unborn" <=> clients[c] = "unborn"
BY ExtensionAssumption DEF OwnerOf, StageOf, ExtensionInv, ExtensionTypeOK

-----------------------------------------------------------------------------
LEMMA CreateClientStep ==
  ASSUME ExtensionInv, ExtensionInv', PluginRuns, AtRest,
         NEW p \in loaded, NEW c \in Clients, CreateClient(p, c)
  PROVE  Requests!OpenClient(p, c)
<1> USE DEF CreateClient, allVars, serviceVars
<1>1. life = "loaded" /\ StageOf = "up" /\ StageOf' = "up" /\ p \in Plugins
  BY DEF PluginRuns, StageOf, ExtensionInv, ExtensionTypeOK
<1>2. OwnerOf(c) = "unborn"
  BY <1>1, OwnerWhenUp
<1>3. ASSUME NEW d \in Clients
      PROVE  OwnerOf(d)' = IF d = c THEN p ELSE OwnerOf(d)
  BY <1>1 DEF OwnerOf, ExtensionInv, ExtensionTypeOK
<1>4. Owns' = [Owns EXCEPT ![c] = p]
  BY <1>3 DEF Owns
<1>5. UNCHANGED Request
  <2>1. \A j \in Jobs : HasRecord(j) => records[j].client # c /\ records[j].client \in Clients
    BY RecordType DEF ExtensionInv, RecordInv, Record
  <2>2. \A j \in Jobs : Live(j)' <=> Live(j)
    BY <1>1, <2>1 DEF Live, HasRecord
  <2> QED BY <2>2, SameRequests
<1> QED BY <1>1, <1>2, <1>4, <1>5 DEF Requests!OpenClient, Owns, Request

LEMMA SubmitJobStep ==
  ASSUME ExtensionInv, ExtensionInv', PluginRuns, AtRest,
         NEW p \in loaded, NEW c \in Clients, NEW j \in Jobs, SubmitJob(p, c, j)
  PROVE  Requests!Submit(p, c, j)
<1> USE DEF SubmitJob, EnqueueJob, queueVars
<1>0. PICK progress \in BOOLEAN : records' = [records EXCEPT ![j] = NewRecord(p, c, progress)]
  BY DEF SubmitJob
<1>1. /\ life = "loaded" /\ StageOf = "up" /\ StageOf' = "up" /\ p \in Plugins
      /\ clients[c] \in loaded /\ dropping = {}
      /\ NewRecord(p, c, progress) \in Record
  BY DEF PluginRuns, StageOf, ExtensionInv, ExtensionTypeOK, AtRest, Orphans, Open, NewRecord, Record
<1>2. OwnerOf(c) \in loaded
  BY <1>1, OwnerWhenUp
<1>3. /\ HasRecord(j)' /\ records'[j] = NewRecord(p, c, progress)
      /\ phase[j] = "unused" /\ phase'[j] = "live"
      /\ \A k \in Jobs \ {j} : records'[k] = records[k] /\ phase'[k] = phase[k]
  BY <1>0, <1>1, RecordIsNotNone DEF HasRecord, ExtensionInv, ExtensionTypeOK, ServiceTypeOK
<1>4. ~Live(j) /\ RequestOf(j) = Requests!Unused
  <2>1. ~HasRecord(j)
    BY <1>3 DEF ExtensionInv, RecordInv
  <2> QED BY <1>3, <2>1, RequestIs DEF Live
<1>5. Live(j)' /\ RequestOf(j)' = Requests!Pending(p, c)
  <2>1. Live(j)'
    BY <1>1, <1>3 DEF Live, NewRecord
  <2> QED BY <1>3, <2>1, RequestWillBe DEF NewRecord
<1>6. ASSUME NEW k \in Jobs, k # j PROVE RequestOf(k)' = RequestOf(k)
  BY <1>1, <1>3, <1>6, RequestIs, RequestWillBe DEF Live, HasRecord
<1>7. Request' = [Request EXCEPT ![j] = Requests!Pending(p, c)]
  BY <1>5, <1>6 DEF Request
<1>8. UNCHANGED Owns
  BY <1>1 DEF Owns, OwnerOf
<1> QED BY <1>1, <1>2, <1>4, <1>7, <1>8 DEF Requests!Submit, Owns, Request

LEMMA CancelJobStep ==
  ASSUME ExtensionInv, ExtensionInv', PluginRuns, AtRest,
         NEW p \in loaded, NEW j \in Jobs, CancelJob(p, j)
  PROVE  Requests!CancelRequest(j)
<1> USE DEF CancelJob, AskCancel, queueVars
<1>1. StageOf = "up" /\ StageOf' = StageOf
  BY DEF PluginRuns, StageOf
<1>2. RequestOf(j).state \in {"pending", "silenced"}
  <2>1. phase[j] # "unused" /\ told[j] = Nothing
    BY DEF ExtensionInv, RecordInv
  <2> QED BY <2>1, RequestIs, RequestStates
<1>3. RequestOf(j) \notin {Requests!Unused, Requests!Done}
  BY <1>2, RequestStates
<1>4. UNCHANGED <<Request, Owns>>
  <2>1. \A k \in Jobs : Live(k)' <=> Live(k)
    BY <1>1 DEF Live, HasRecord
  <2> QED BY <1>1, <2>1, SameRequests DEF Owns, OwnerOf
<1> QED BY <1>1, <1>3, <1>4 DEF Requests!CancelRequest, Request, Owns

\* Its owner closes a client, and the requests that use it go with it; freeing the client
\* of a plugin that is gone changes nothing that a plugin could see.
LEMMA FreeClientStep ==
  ASSUME ExtensionInv, ExtensionInv', NEW c \in Clients, FreeClient(c)
  PROVE  Requests!CloseClient(c) \/ ServiceStep
<1> USE DEF FreeClient, allVars, serviceVars
<1>1. /\ life = "loaded" /\ StageOf = "up" /\ StageOf' = "up" /\ clients[c] \in Plugins
      /\ "freed" \notin Plugins /\ loaded \subseteq Plugins
  BY ExtensionAssumption DEF PluginRuns, StageOf, Open, ExtensionInv, ExtensionTypeOK
<1>2. \A d \in Clients : clients'[d] = IF d = c THEN "freed" ELSE clients[d]
  BY DEF ExtensionInv, ExtensionTypeOK
<1>3. \A j \in Jobs : HasRecord(j) => records[j].client \in Clients
  BY RecordType DEF ExtensionInv, Record
<1>4. \A j \in Jobs : Live(j)' <=> Live(j) /\ records[j].client # c
  BY <1>1, <1>2, <1>3 DEF Live, HasRecord, RecordsUsing
<1>5. CASE clients[c] \in loaded
  <2>1. OwnerOf(c) \in loaded
    BY <1>1, <1>5, OwnerWhenUp
  <2>2. Owns' = [Owns EXCEPT ![c] = "freed"]
    <3>1. \A d \in Clients : OwnerOf(d)' = IF d = c THEN "freed" ELSE OwnerOf(d)
      BY <1>1, <1>2 DEF OwnerOf
    <3> QED BY <3>1 DEF Owns
  <2>3. Requests!Silence(Requests!Using({c}))
    <3>1. Requests!Using({c}) = {j \in Jobs : Live(j) /\ records[j].client \in {c}}
      BY Pendings
    <3> HIDE DEF FreeClient
    <3>2. UNCHANGED <<told, records, phase>>
      BY DEF FreeClient
    <3> QED BY <1>4, <3>1, <3>2, Silences
  <2> QED BY <1>1, <2>1, <2>2, <2>3 DEF Requests!CloseClient, Owns, Request
<1>6. CASE clients[c] \notin loaded
  <2>1. \A d \in Clients : OwnerOf(d)' = OwnerOf(d)
    BY <1>1, <1>2, <1>6 DEF OwnerOf
  <2>2. \A j \in Jobs : Live(j)' <=> Live(j)
    BY <1>4, <1>6 DEF Live
  <2>3. UNCHANGED Request
    BY <2>2, SameRequests
  <2> QED BY <1>1, <2>1, <2>3, Stutters
<1> QED BY <1>5, <1>6

LEMMA UnloadPluginStep ==
  ASSUME ExtensionInv, ExtensionInv', PluginRuns, AtRest, NEW p \in loaded, UnloadPlugin(p)
  PROVE  Requests!Unload(p)
<1> USE DEF UnloadPlugin, allVars, serviceVars
<1>1. /\ life = "loaded" /\ StageOf = "up" /\ StageOf' = "up" /\ dropping = {}
      /\ "freed" \notin Plugins /\ loaded \subseteq Plugins /\ p \in Plugins
      /\ \A c \in Clients : clients[c] \in Plugins => clients[c] \in loaded
  BY ExtensionAssumption DEF PluginRuns, AtRest, Orphans, Open, StageOf, ExtensionInv, ExtensionTypeOK
<1>2. \A c \in Clients : OwnerOf(c) = clients[c]
  BY <1>1, OwnerWhenUp
<1>3. \A c \in Clients : OwnerOf(c)' = IF clients[c] = p THEN "freed" ELSE clients[c]
  BY <1>1 DEF OwnerOf
<1>4. Owns' = [c \in Clients |-> IF c \in Requests!ClientsOf(p) THEN "freed" ELSE Owns[c]]
  BY <1>2, <1>3, Pendings DEF Owns
<1>5. \A j \in Jobs : Live(j)' <=> Live(j) /\ records[j].owner # p /\ clients[records[j].client] # p
  BY <1>1 DEF Live, HasRecord, RecordsOwnedBy
<1>6. Requests!Silence(Requests!OwnedBy(p) \cup Requests!Using(Requests!ClientsOf(p)))
  <2>1. \A j \in Jobs : HasRecord(j) => records[j].client \in Clients
    BY RecordType DEF ExtensionInv, Record
  <2>2. /\ Requests!OwnedBy(p) = {j \in Jobs : Live(j) /\ records[j].owner = p}
        /\ Requests!Using(Requests!ClientsOf(p)) =
             {j \in Jobs : Live(j) /\ records[j].client \in {c \in Clients : OwnerOf(c) = p}}
    BY Pendings
  <2>3. \A j \in Jobs : Live(j)' <=>
          Live(j) /\ j \notin Requests!OwnedBy(p) \cup Requests!Using(Requests!ClientsOf(p))
    BY <1>2, <1>5, <2>1, <2>2 DEF Live
  <2> QED BY <2>3, Silences
<1> QED BY <1>1, <1>4, <1>6 DEF Requests!Unload, Requests!NoCall, NoCallback, Owns, Request

\* DropJob only takes away what is silenced already.
LEMMA DropJobStep ==
  ASSUME ExtensionInv, ExtensionInv', NEW j \in Jobs, DropJob(j)
  PROVE  ServiceStep
<1> USE DEF DropJob, AskCancel, queueVars
<1>1. ~Live(j) /\ ~Live(j)'
  <2>1. HasRecord(j) /\ records[j] \in Record
    BY RecordType DEF ExtensionInv, DroppingInv
  <2>2. CASE InUse(j)
    <3>1. records'[j].dropped = TRUE
      BY <2>1, <2>2 DEF ExtensionInv, ExtensionTypeOK, Record
    <3> QED BY <3>1 DEF Live
  <2>3. CASE ~InUse(j)
    <3>1. ~HasRecord(j)'
      BY <2>3 DEF ExtensionInv, ExtensionTypeOK, HasRecord
    <3> QED BY <3>1 DEF Live
  <2> QED BY <2>2, <2>3
<1>2. \A k \in Jobs \ {j} : records'[k] = records[k] /\ (Live(k)' <=> Live(k))
  <2>1. \A k \in Jobs \ {j} : records'[k] = records[k]
    BY DEF ExtensionInv, ExtensionTypeOK
  <2> QED BY <2>1 DEF Live, HasRecord, StageOf
<1>3. UNCHANGED Request
  BY <1>1, <1>2, SameRequests
<1> QED BY <1>3, Stutters DEF OwnerOf, StageOf

\* Beginning and ending a progress callback change nothing of a record that counts.
LEMMA Redispatched ==
  ASSUME NEW r \in Record, NEW b \in BOOLEAN, NEW s, s = [r EXCEPT !.dispatching = b]
  PROVE  s \in Record /\ s.dropped = r.dropped /\ s.owner = r.owner /\ s.client = r.client
BY DEF Record

\* Between two events every record in m_jobs is that of a pending request.
LEMMA LiveBetweenEvents ==
  ASSUME ExtensionInv, NEW j \in Jobs, HasRecord(j),
         callback = NoCallback, dropping = {}, Orphans = {}, life = "loaded"
  PROVE  Live(j)
<1>1. ~records[j].dropped
  BY DEF ExtensionInv, RecordInv
<1>2. clients[records[j].client] \in loaded
  <2>1. Open(records[j].client)
    BY <1>1 DEF ExtensionInv, RecordInv
  <2>2. records[j].client \in Clients
    BY RecordType DEF ExtensionInv, Record
  <2> QED BY <2>1, <2>2 DEF Orphans
<1> QED BY <1>1, <1>2 DEF Live, StageOf

LEMMA HandleProgressStep ==
  ASSUME ExtensionInv, ExtensionInv', HandleProgress
  PROVE  (\E j \in Jobs : Requests!Report(j)) \/ ServiceStep
<1>0. PICK e \in ServiceEvent : e = Head(batch)
  BY NextEventEffect DEF HandleProgress
<1> DEFINE j == e.job
<1>1. /\ j \in Jobs /\ HasRecord(j) /\ records[j] \in Record
      /\ callback = NoCallback /\ dropping = {} /\ Orphans = {} /\ life = "loaded"
      /\ UNCHANGED <<allVars, life, loaded, clients, dropping, acked, told>>
  BY <1>0, NextEventEffect, RecordType DEF HandleProgress, NextEvent, ServiceEvent, ExtensionInv
<1>2. StageOf = "up" /\ StageOf' = "up" /\ UNCHANGED Owns
  BY <1>1 DEF StageOf, Owns, OwnerOf
<1>3. Live(j)
  BY <1>1, LiveBetweenEvents
<1>4. CASE records[j].progress
  <2>1. /\ records' = [records EXCEPT ![j].dispatching = TRUE]
        /\ callback' = [kind |-> "Progress", job |-> j, client |-> records[j].client,
                        owner |-> records[j].owner]
    BY <1>0, <1>4 DEF HandleProgress, Execute
  <2>2. \A k \in Jobs \ {j} : records'[k] = records[k] /\ (Live(k)' <=> Live(k))
    <3>1. \A k \in Jobs \ {j} : records'[k] = records[k]
      BY <2>1 DEF ExtensionInv, ExtensionTypeOK
    <3> QED BY <1>1, <3>1 DEF Live, HasRecord, StageOf
  <2>3. /\ records'[j] \in Record /\ records'[j].dropped = records[j].dropped
        /\ records'[j].owner = records[j].owner /\ records'[j].client = records[j].client
    <3>1. records'[j] = [records[j] EXCEPT !.dispatching = TRUE]
      BY <1>1, <2>1 DEF ExtensionInv, ExtensionTypeOK
    <3> HIDE DEF j
    <3> QED BY <1>1, <3>1, Redispatched
  <2>4. HasRecord(j)'
    BY <2>3, RecordIsNotNone DEF HasRecord
  <2>5. Live(j)'
    BY <1>1, <1>2, <1>3, <2>3, <2>4 DEF Live
  <2>6. UNCHANGED Request
    BY <1>1, <1>3, <2>2, <2>3, <2>5, SameRequests DEF allVars, serviceVars
  <2>7. Requests!IsPending(j) /\ Request[j].client = records[j].client
                              /\ Request[j].owner = records[j].owner
    BY <1>1, <1>3, Pendings
  <2>8. Requests!Report(j)
    BY <1>1, <1>2, <2>1, <2>6, <2>7
       DEF Requests!Report, Requests!Call, Requests!NoCall, NoCallback, Request, Owns
  <2> QED BY <1>1, <2>8
<1>5. CASE ~records[j].progress
  <2>1. UNCHANGED <<records, callback>>
    BY <1>0, <1>5 DEF HandleProgress
  <2>2. UNCHANGED Request
    BY <1>1, <2>1, SameRequests DEF Live, HasRecord, StageOf, allVars, serviceVars
  <2> QED BY <1>1, <1>2, <2>1, <2>2, Stutters DEF OwnerOf
<1> QED BY <1>4, <1>5

LEMMA EndProgressStep ==
  ASSUME ExtensionInv, ExtensionInv', EndProgress
  PROVE  Requests!Return
<1>0. PICK j \in Jobs : j = callback.job
  BY DEF EndProgress, NoCallback, ExtensionInv, ExtensionTypeOK
<1>1. /\ callback # NoCallback /\ callback' = NoCallback
      /\ HasRecord(j) /\ records[j] \in Record
      /\ UNCHANGED <<allVars, life, loaded, clients, dropping, batch, acked, told>>
  <2>1. callback # NoCallback
    BY DEF EndProgress, NoCallback
  <2> QED BY <1>0, <2>1, RecordType DEF EndProgress, ExtensionInv, CallbackInv
<1>2. UNCHANGED <<StageOf, Owns>>
  BY <1>1 DEF StageOf, Owns, OwnerOf
<1>3. \A k \in Jobs \ {j} : records'[k] = records[k] /\ (Live(k)' <=> Live(k))
  <2>1. \A k \in Jobs \ {j} : records'[k] = records[k]
    BY <1>0 DEF EndProgress, ExtensionInv, ExtensionTypeOK
  <2> QED BY <1>1, <2>1 DEF Live, HasRecord, StageOf
<1>4. CASE records[j].dropped
  <2>1. records' = [records EXCEPT ![j] = NoRecord]
    BY <1>0, <1>4 DEF EndProgress
  <2>2. ~HasRecord(j)'
    BY <2>1, RecordErasure DEF ExtensionInv
  <2>3. ~Live(j) /\ ~Live(j)'
    BY <1>4, <2>2 DEF Live
  <2>4. UNCHANGED Request
    BY <1>1, <1>3, <2>3, SameRequests DEF allVars, serviceVars
  <2> QED BY <1>1, <1>2, <2>4 DEF Requests!Return, Requests!NoCall, NoCallback, Owns, Request
<1>5. CASE ~records[j].dropped
  <2>1. records'[j] = [records[j] EXCEPT !.dispatching = FALSE]
    BY <1>0, <1>5 DEF EndProgress, ExtensionInv, ExtensionTypeOK
  <2>2. /\ records'[j] \in Record /\ records'[j].dropped = records[j].dropped
        /\ records'[j].owner = records[j].owner /\ records'[j].client = records[j].client
    BY <1>1, <2>1, Redispatched
  <2>3. HasRecord(j)'
    BY <2>2, RecordIsNotNone DEF HasRecord
  <2>4. Live(j)' <=> Live(j)
    BY <1>1, <2>2, <2>3 DEF Live, StageOf
  <2>5. UNCHANGED Request
    BY <1>1, <1>3, <2>2, <2>4, SameRequests DEF allVars, serviceVars
  <2> QED BY <1>1, <1>2, <2>5 DEF Requests!Return, Requests!NoCall, NoCallback, Owns, Request
<1> QED BY <1>4, <1>5

\* A completion is told once, and a cancelled one only to an owner who asked for it; or the
\* extension gives up.
LEMMA HandleCompleteStep ==
  ASSUME ExtensionInv, ExtensionInv', HandleComplete
  PROVE  \E j \in Jobs : Requests!Complete(j) \/ Requests!GiveUp(j)
<1>0. PICK e \in ServiceEvent : e = Head(batch)
  BY NextEventEffect DEF HandleComplete
<1> DEFINE j == e.job
<1>1. /\ e.kind = "Complete" /\ e \in Underway
      /\ j \in Jobs /\ HasRecord(j) /\ records[j] \in Record
      /\ callback = NoCallback /\ dropping = {} /\ Orphans = {} /\ life = "loaded"
      /\ UNCHANGED <<allVars, life, loaded, clients, dropping, acked>>
      /\ records' = [records EXCEPT ![j] = NoRecord]
  BY <1>0, NextEventEffect, RecordType DEF HandleComplete, NextEvent, ServiceEvent, ExtensionInv
<1>2. StageOf = "up" /\ StageOf' = "up" /\ UNCHANGED Owns
  BY <1>1 DEF StageOf, Owns, OwnerOf
<1>3. Live(j)
  BY <1>1, LiveBetweenEvents
<1>4. /\ Requests!IsPending(j) /\ Request[j].client = records[j].client
      /\ Request[j].owner = records[j].owner
  BY <1>1, <1>3, Pendings
<1>5. ~Live(j)' /\ \A k \in Jobs \ {j} : records'[k] = records[k] /\ (Live(k)' <=> Live(k))
  <2> HIDE DEF j
  <2>1. ASSUME NEW i \in Jobs, records' = [records EXCEPT ![i] = NoRecord]
        PROVE  ~Live(i)' /\ \A k \in Jobs \ {i} : records'[k] = records[k] /\ (HasRecord(k)' <=> HasRecord(k))
    BY <2>1, RecordErasure DEF ExtensionInv, Live
  <2>2. \A k \in Jobs \ {j} : records'[k] = records[k] /\ (HasRecord(k)' <=> HasRecord(k))
    BY <1>1, <2>1
  <2>3. ~Live(j)'
    BY <1>1, <2>1 DEF j
  <2> QED BY <1>1, <2>2, <2>3 DEF Live, StageOf
<1>6. phase[j] # "unused" /\ phase'[j] # "unused"
  BY <1>1 DEF ExtensionInv, RecordInv, allVars, serviceVars
<1> HIDE DEF j
<1>7. ASSUME callback' = [kind |-> "Complete", job |-> j, client |-> records[j].client,
                          owner |-> records[j].owner],
             told' = [told EXCEPT ![j] = e.status]
      PROVE  Requests!Complete(j)
  <2>1. /\ e.status \in Outcomes \cup {"Cancelled"} /\ e.status # Nothing
        /\ e.status = "Cancelled" => j \in acked
    BY <1>1, <1>3, ExtensionAssumption DEF ServiceEvent, Nothing, ExtensionInv, EventInv, Live, j
  <2>2. told'[j] # Nothing /\ \A k \in Jobs \ {j} : told'[k] = told[k]
    BY <1>1, <1>7, <2>1 DEF ExtensionInv, ExtensionTypeOK
  <2>3. ASSUME NEW k \in Jobs
        PROVE  RequestOf(k)' = IF k = j THEN Requests!Done ELSE RequestOf(k)
    <3>1. CASE k = j
      <4>1. ~Live(k)' /\ phase'[k] # "unused" /\ told'[k] # Nothing
        BY <1>5, <1>6, <2>2, <3>1 DEF j
      <4> QED BY <3>1, <4>1, RequestWillBe
    <3>2. CASE k # j
      BY <1>1, <1>5, <2>2, <3>2, RequestIs, RequestWillBe DEF allVars, serviceVars
    <3> QED BY <3>1, <3>2
  <2>4. Request' = [Request EXCEPT ![j] = Requests!Done]
    BY <2>3 DEF Request
  <2> QED BY <1>1, <1>2, <1>4, <1>7, <2>1, <2>4
          DEF Requests!Complete, Requests!Call, Requests!NoCall, NoCallback, Request, Owns
<1>8. ASSUME UNCHANGED <<callback, told>>
      PROVE  Requests!GiveUp(j)
  <2>1. Requests!Silence({j})
    BY <1>1, <1>3, <1>5, <1>8, Silences DEF allVars, serviceVars, j
  <2> QED BY <1>1, <1>2, <1>4, <1>8, <2>1
          DEF Requests!GiveUp, Requests!NoCall, NoCallback, Owns
<1> QED BY <1>0, <1>1, <1>7, <1>8 DEF HandleComplete, Execute, j

LEMMA EndCompleteStep ==
  ASSUME ExtensionInv, ExtensionInv', EndComplete
  PROVE  Requests!Return
<1> USE DEF EndComplete, allVars, serviceVars
<1>1. callback # NoCallback /\ UNCHANGED <<StageOf, Owns>>
  BY DEF NoCallback, StageOf, Owns, OwnerOf
<1>2. UNCHANGED Request
  <2>1. \A j \in Jobs : Live(j)' <=> Live(j)
    BY DEF Live, HasRecord, StageOf
  <2> QED BY <2>1, SameRequests
<1> QED BY <1>1, <1>2 DEF Requests!Return, Requests!NoCall, NoCallback, Owns, Request

LEMMA OnLoadStep ==
  ASSUME ExtensionInv, ExtensionInv', OnLoad
  PROVE  Requests!Load
<1> USE DEF OnLoad, StartService
<1>1. StageOf = "down" /\ StageOf' = "up" /\ UNCHANGED Owns
  BY DEF StageOf, Owns, OwnerOf
<1>2. UNCHANGED Request
  <2>1. \A j \in Jobs : Live(j)' <=> Live(j)
    BY <1>1 DEF Live, HasRecord
  <2> QED BY <2>1, SameRequests
<1> QED BY <1>1, <1>2 DEF Requests!Load, Owns, Request

\* Removing the hooks silences everything at once.
LEMMA BeginUnloadStep ==
  ASSUME ExtensionInv, ExtensionInv', BeginUnload
  PROVE  Requests!ShutDown
<1> USE DEF BeginUnload, Disable, SetEnabled, serviceVars
<1>1. StageOf = "up" /\ StageOf' = "gone"
  BY DEF StageOf
<1>2. Owns' = [c \in Clients |-> IF Owns[c] \in Plugins THEN "freed" ELSE Owns[c]]
  <2>1. ASSUME NEW c \in Clients
        PROVE  OwnerOf(c)' = IF OwnerOf(c) \in Plugins THEN "freed" ELSE OwnerOf(c)
    BY <1>1 DEF OwnerOf
  <2> QED BY <2>1 DEF Owns
<1>3. Requests!Silence(Jobs)
  <2>1. \A j \in Jobs : ~Live(j)'
    BY <1>1 DEF Live
  <2> QED BY <2>1, Silences
<1> QED BY <1>1, <1>2, <1>3 DEF Requests!ShutDown, Requests!NoCall, NoCallback, Owns, Request

\* Nothing that follows can be seen by a plugin.
LEMMA UnloadingStep ==
  ASSUME ExtensionInv, ExtensionInv', StopThread \/ DrainLast \/ ReleaseRecords \/ RemoveTypes
  PROVE  ServiceStep
<1>1. /\ StageOf = "gone" /\ StageOf' = "gone"
      /\ UNCHANGED <<loaded, acked, callback, told, phase>>
  BY DEF StageOf, StopThread, StopService, DrainLast, DrainEvents, serviceVars, ReleaseRecords,
         RemoveTypes, allVars
<1>2. \A c \in Clients : OwnerOf(c)' = OwnerOf(c)
  <2>1. CASE RemoveTypes
    BY <1>1, <2>1, ExtensionAssumption DEF RemoveTypes, OwnerOf, Open
  <2>2. CASE StopThread \/ DrainLast \/ ReleaseRecords
    BY <1>1, <2>2 DEF StopThread, DrainLast, ReleaseRecords, OwnerOf
  <2> QED BY <2>1, <2>2
<1>3. UNCHANGED Request
  <2>1. \A j \in Jobs : ~Live(j) /\ ~Live(j)'
    BY <1>1 DEF Live
  <2> QED BY <1>1, <2>1, SameRequests
<1> QED BY <1>1, <1>2, <1>3, Stutters

\* Steps of the thread, and of the frame that handles no record, are not seen by plugins.
LEMMA HiddenStep ==
  ASSUME ExtensionInv, ExtensionInv',
         UNCHANGED <<life, loaded, clients, records, dropping, callback, acked, told>>,
         \A j \in Jobs : phase'[j] = "unused" <=> phase[j] = "unused"
  PROVE  ServiceStep
<1>1. UNCHANGED Request
  <2>1. \A j \in Jobs : Live(j)' <=> Live(j)
    BY DEF Live, HasRecord, StageOf
  <2> QED BY <2>1, SameRequests
<1> QED BY <1>1, Stutters DEF StageOf, OwnerOf

LEMMA ThreadStep ==
  ASSUME ExtensionInv, ExtensionInv', Thread
  PROVE  ServiceStep
<1>1. UNCHANGED <<life, loaded, clients, records, dropping, callback, acked, told>>
  BY DEF Thread, extensionVars
<1>2. \A j \in Jobs : phase'[j] = "unused" <=> phase[j] = "unused"
  <2> USE DEF ExtensionInv, ServiceTypeOK
  <2>1. CASE WorkNext
    BY <2>1 DEF WorkNext, DeliverPost, ReportProgress, EndJob, EndCancelled, ForgetCancel, serviceVars
  <2>2. CASE StopReturned
    BY <2>2 DEF StopReturned
  <2> QED BY <2>1, <2>2 DEF Thread
<1> QED BY <1>1, <1>2, HiddenStep

LEMMA StepMaps ==
  ASSUME ExtensionInv, ExtensionInv', [ExtensionNext]_gameVars
  PROVE  ServiceStep
<1>1. CASE PluginCalls
  <2>1. PICK p \in loaded :
          \/ UnloadPlugin(p)
          \/ \E c \in Clients : CreateClient(p, c) \/ \E j \in Jobs : SubmitJob(p, c, j)
          \/ \E j \in Jobs : CancelJob(p, j)
    BY <1>1 DEF PluginCalls
  <2>2. PluginRuns /\ AtRest
    BY <1>1 DEF PluginCalls
  <2>3. CASE UnloadPlugin(p)
    BY <2>2, <2>3, UnloadPluginStep DEF ServiceStep, Requests!RequestNext
  <2>4. ASSUME NEW c \in Clients, CreateClient(p, c) PROVE ServiceStep
    BY <2>2, <2>4, CreateClientStep DEF ServiceStep, Requests!RequestNext
  <2>5. ASSUME NEW c \in Clients, NEW j \in Jobs, SubmitJob(p, c, j) PROVE ServiceStep
    BY <2>2, <2>5, SubmitJobStep DEF ServiceStep, Requests!RequestNext
  <2>6. ASSUME NEW j \in Jobs, CancelJob(p, j) PROVE ServiceStep
    BY <2>2, <2>6, CancelJobStep DEF ServiceStep, Requests!RequestNext
  <2> QED BY <2>1, <2>3, <2>4, <2>5, <2>6
<1>2. CASE OnGameFrame \/ IgnoreEvent
  BY <1>2, HiddenStep DEF OnGameFrame, DrainEvents, IgnoreEvent, NextEvent, allVars, serviceVars
<1>3. CASE HandleProgress
  BY <1>3, HandleProgressStep DEF ServiceStep, Requests!RequestNext
<1>4. CASE HandleComplete
  BY <1>4, HandleCompleteStep DEF ServiceStep, Requests!RequestNext
<1>5. CASE EndProgress \/ EndComplete
  BY <1>5, EndProgressStep, EndCompleteStep DEF ServiceStep, Requests!RequestNext
<1>6. ASSUME NEW j \in Jobs, DropJob(j) PROVE ServiceStep
  BY <1>6, DropJobStep
<1>7. ASSUME NEW c \in Clients, FreeClient(c) PROVE ServiceStep
  BY <1>7, FreeClientStep DEF ServiceStep, Requests!RequestNext
<1>8. CASE OnLoad \/ BeginUnload
  BY <1>8, OnLoadStep, BeginUnloadStep DEF ServiceStep, Requests!RequestNext
<1>9. CASE Unloaded \/ UNCHANGED gameVars
  BY <1>9, HiddenStep DEF Unloaded, gameVars, extensionVars, allVars, serviceVars
<1>10. CASE Frame
  BY <1>2, <1>3, <1>4, <1>10 DEF Frame
<1>11. CASE Carry
  BY <1>5, <1>6, <1>7, <1>11, UnloadingStep DEF Carry, Orphans
<1> QED BY <1>1, <1>7, <1>8, <1>9, <1>10, <1>11, ThreadStep DEF ExtensionNext

LEMMA InitMaps == ExtensionInit => Requests!RequestInit
<1> SUFFICES ASSUME ExtensionInit PROVE Requests!RequestInit
  OBVIOUS
<1> USE DEF ExtensionInit, ServiceInit
<1>1. StageOf = "down" /\ \A c \in Clients : OwnerOf(c) = "unborn"
  BY ExtensionAssumption DEF StageOf, OwnerOf
<1>2. \A j \in Jobs : RequestOf(j) = Requests!Unused
  BY DEF RequestOf, Requests!Unused
<1> QED BY <1>1, <1>2
        DEF Requests!RequestInit, Requests!NoCall, NoCallback, Requests!NoAnswer, Nothing

-----------------------------------------------------------------------------
\* The extension keeps what it promises plugins: every request that is submitted completes
\* at most once, its callbacks run only while it is pending, closing a client and unloading
\* either plugin silence it at one stroke, although the code does so in loops that callbacks
\* re-enter, and only its owner's Cancel makes it report S3Status_Cancelled.
THEOREM ExtensionImplementsRequests == ExtensionSafety => ImplementsRequests
<1>1. ExtensionInv /\ ExtensionInv' /\ [ExtensionNext]_gameVars => ServiceStep
  BY StepMaps
<1>2. ExtensionInit => Requests!RequestInit
  BY InitMaps
<1> QED BY <1>1, <1>2, ExtensionInvHolds, PTL
        DEF ExtensionSafety, ImplementsRequests, Requests!RequestSafety, ServiceStep
=============================================================================
