---------------------------- MODULE UploadProofs ----------------------------
(***************************************************************************)
(* Proofs about Upload, for any number of calls, versions and attempts:    *)
(* the types, that an attempt that is not torn stores the file as it was   *)
(* at one moment, and that any attempt stores chunks of the file.          *)
(***************************************************************************)
EXTENDS Upload, SequenceTheorems, TLAPS

Chunk == Nat \X Nat
Phases == {"idle", "due", "opening", "sending", "over"}
Retries == IF MaxRetries > 0 THEN MaxRetries ELSE 0

UploadState ==
  [phase : Phases, attempt : 0..(Retries + 1), file : Nat, size : 0..MaxLength,
   sent : Seq(Chunk), stored : BOOLEAN, result : Results]

\* Where a call stands: an attempt is left while it is due, and it has a file while it opens
\* or sends one.
UploadInv(s) ==
  /\ s.phase \in {"idle", "due"} => s.attempt <= Retries
  /\ s.file # NoFile <=> s.phase \in {"opening", "sending"}
  /\ s.file <= Len(inodes)

\* The inductive invariant of every upload.
TypeInv ==
  /\ job \in [Calls -> UploadState]
  /\ inodes \in Seq(Seq(Chunk)) /\ \A i \in 1..Len(inodes) : Len(inodes[i]) <= MaxLength
  /\ path \in 0..Len(inodes) /\ newest \in 1..Len(Lengths)
  /\ seen \in [Calls -> SUBSET Seq(Chunk)] /\ torn \in [Calls -> BOOLEAN]
  /\ \A c \in Calls : UploadInv(job[c])

-----------------------------------------------------------------------------
(***************************************************************************)
(* The steps of a call.                                                    *)
(***************************************************************************)

LEMMA RetriesType == Retries \in Nat /\ (MaxRetries <= Retries) /\ MaxLength \in Nat
BY UploadAssumption, SMT DEF Retries

LEMMA VersionIs ==
  ASSUME NEW v \in Nat, NEW n \in Nat
  PROVE  Version(v, n) \in Seq(Chunk) /\ Len(Version(v, n)) = n
<1>1. \A i \in 1..n : <<v, i>> \in Chunk
  BY SMT DEF Chunk
<1>2. Version(v, n) \in [1..n -> Chunk]
  BY <1>1 DEF Version
<1> QED BY <1>2

\* What the step of a call must show for the invariant to hold after it.
StepTo(c, t) ==
  /\ job' = [job EXCEPT ![c] = t] /\ UNCHANGED <<inodes, path, newest>>
  /\ seen' \in [Calls -> SUBSET Seq(Chunk)] /\ torn' \in [Calls -> BOOLEAN]
  /\ t.phase \in {"idle", "due"} => t.attempt <= Retries
  /\ t.file # NoFile <=> t.phase \in {"opening", "sending"}
  /\ t.file = NoFile \/ t.file = path \/ t.file = job[c].file

LEMMA TypeStep ==
  ASSUME TypeInv, NEW c \in Calls, NEW t \in UploadState, StepTo(c, t)
  PROVE  TypeInv' /\ job'[c] = t /\ \A d \in Calls \ {c} : job'[d] = job[d]
<1> USE DEF StepTo
<1>1. /\ job' \in [Calls -> UploadState] /\ job'[c] = t
      /\ \A d \in Calls \ {c} : job'[d] = job[d]
  BY DEF TypeInv
<1>2. t.file <= Len(inodes)
  <2>1. path \in 0..Len(inodes) /\ Len(inodes) \in Nat /\ job[c].file <= Len(inodes)
    BY DEF TypeInv, UploadInv
  <2> QED BY <2>1, SMT DEF NoFile
<1>3. \A d \in Calls : UploadInv(job[d])'
  BY <1>1, <1>2 DEF TypeInv, UploadInv
<1> QED BY <1>1, <1>3 DEF TypeInv

\* A call that ends.
LEMMA OverStep ==
  ASSUME TypeInv, NEW c \in Calls, job[c].phase # "idle", NEW r \in Results, Over(c, r),
         UNCHANGED <<inodes, path, newest, seen, torn>>
  PROVE  /\ TypeInv' /\ \A d \in Calls \ {c} : job'[d] = job[d]
         /\ job'[c].phase = "over" /\ (job'[c].stored <=> job[c].stored)
<1> PICK s \in UploadState : s = job[c]
  BY DEF TypeInv
<1> PICK t : t = [s EXCEPT !.phase = "over", !.file = NoFile, !.result = r]
  OBVIOUS
<1>1. /\ t \in UploadState /\ t.phase = "over" /\ t.file = NoFile
      /\ (t.stored <=> s.stored)
  BY DEF UploadState, Phases, NoFile
<1>2. /\ job' = [job EXCEPT ![c] = t]
      /\ seen' \in [Calls -> SUBSET Seq(Chunk)] /\ torn' \in [Calls -> BOOLEAN]
  BY DEF Over, TypeInv
<1>3. t.phase \notin {"idle", "due"} /\ t.phase \notin {"opening", "sending"}
  BY <1>1
<1>4. StepTo(c, t)
  BY <1>1, <1>2, <1>3 DEF StepTo
<1>5. TypeInv' /\ job'[c] = t /\ \A d \in Calls \ {c} : job'[d] = job[d]
  BY <1>1, <1>4, TypeStep
<1> QED BY <1>1, <1>5

\* A failed attempt: the call waits for the next one, or ends.
LEMMA RetryStep ==
  ASSUME TypeInv, NEW c \in Calls, job[c].phase # "idle", NEW r \in Results, RetryOr(c, r),
         UNCHANGED <<inodes, path, newest, seen, torn>>
  PROVE  /\ TypeInv' /\ \A d \in Calls \ {c} : job'[d] = job[d]
         /\ job'[c].phase \in {"due", "over"} /\ (job'[c].stored <=> job[c].stored)
<1>1. CASE ~CanRetry(job[c])
  BY <1>1, OverStep DEF RetryOr
<1>2. CASE CanRetry(job[c])
  <2> PICK s \in UploadState : s = job[c]
    BY DEF TypeInv
  <2> PICK t : t = [s EXCEPT !.phase = "due", !.file = NoFile]
    OBVIOUS
  <2>1. /\ t \in UploadState /\ t.phase = "due" /\ t.file = NoFile /\ t.attempt = s.attempt
        /\ (t.stored <=> s.stored)
    BY DEF UploadState, Phases, NoFile
  <2>2. s.attempt \in Nat /\ s.attempt <= MaxRetries
    BY <1>2, RetriesType, SMT DEF CanRetry, UploadState
  <2>3. t.attempt <= Retries
    BY <2>1, <2>2, RetriesType, UploadAssumption, SMT
  <2>4. /\ job' = [job EXCEPT ![c] = t]
        /\ seen' \in [Calls -> SUBSET Seq(Chunk)] /\ torn' \in [Calls -> BOOLEAN]
    BY <1>2 DEF RetryOr, TypeInv
  <2>5. StepTo(c, t)
    BY <2>1, <2>3, <2>4 DEF StepTo
  <2>6. TypeInv' /\ job'[c] = t /\ \A d \in Calls \ {c} : job'[d] = job[d]
    BY <2>1, <2>5, TypeStep
  <2> QED BY <2>1, <2>6
<1> QED BY <1>1, <1>2

LEMMA PutFileStep ==
  ASSUME TypeInv, NEW c \in Calls, PutFile(c)
  PROVE  /\ TypeInv' /\ \A d \in Calls \ {c} : job'[d] = job[d]
         /\ job'[c].phase = "due" /\ (job'[c].stored <=> job[c].stored)
         /\ UNCHANGED <<inodes, path, newest, torn>> /\ seen'[c] = Contents(path)
         /\ \A d \in Calls \ {c} : seen'[d] = seen[d]
<1> PICK s \in UploadState : s = job[c]
  BY DEF TypeInv
<1> PICK t : t = [s EXCEPT !.phase = "due"]
  OBVIOUS
<1>1. s.phase = "idle" /\ UploadInv(s)
  BY DEF PutFile, TypeInv
<1>2. /\ t \in UploadState /\ t.phase = "due" /\ t.file = s.file /\ t.attempt = s.attempt
      /\ (t.stored <=> s.stored)
  BY DEF UploadState, Phases
<1>3. job' = [job EXCEPT ![c] = t] /\ UNCHANGED <<inodes, path, newest, torn>>
  BY DEF PutFile
<1>4. Contents(path) \in SUBSET Seq(Chunk)
  <2>1. path \in 0..Len(inodes) /\ inodes \in Seq(Seq(Chunk)) /\ Len(inodes) \in Nat
    BY DEF TypeInv
  <2>2. path # NoFile => path \in 1..Len(inodes)
    BY <2>1, SMT DEF NoFile
  <2> QED BY <2>1, <2>2, ElementOfSeq DEF Contents
<1>5. /\ seen' \in [Calls -> SUBSET Seq(Chunk)] /\ torn' \in [Calls -> BOOLEAN]
      /\ seen'[c] = Contents(path)
      /\ \A d \in Calls \ {c} : seen'[d] = seen[d]
  BY <1>4 DEF PutFile, TypeInv
<1>6. t.phase \notin {"opening", "sending"} /\ t.attempt <= Retries /\ t.file = NoFile
  BY <1>1, <1>2 DEF UploadInv
<1>7. StepTo(c, t)
  BY <1>2, <1>3, <1>5, <1>6 DEF StepTo
<1>8. TypeInv' /\ job'[c] = t /\ \A d \in Calls \ {c} : job'[d] = job[d]
  BY <1>2, <1>7, TypeStep
<1> QED BY <1>2, <1>3, <1>5, <1>8

LEMMA OpenFileStep ==
  ASSUME TypeInv, NEW c \in Calls, OpenFile(c)
  PROVE  /\ TypeInv' /\ \A d \in Calls \ {c} : job'[d] = job[d]
         /\ UNCHANGED <<inodes, path, newest, seen, torn>> /\ job[c].phase = "due"
         /\ \/ job'[c].phase = "opening" /\ job'[c].file = path
            \/ job'[c].phase = "over"
         /\ job'[c].stored <=> job[c].stored
<1>1. job[c].phase = "due" /\ UNCHANGED <<inodes, path, newest, seen, torn>>
  BY DEF OpenFile
<1>2. CASE path = NoFile
  <2>1. Over(c, "IoError") /\ "IoError" \in Results
    BY <1>2 DEF OpenFile, Results
  <2> QED BY <1>1, <2>1, OverStep
<1>3. CASE path # NoFile
  <2> PICK s \in UploadState : s = job[c]
    BY DEF TypeInv
  <2>1. s.attempt + 1 \in 0..(Retries + 1) /\ path \in Nat
    <3>1. s.attempt <= Retries /\ s.attempt \in 0..(Retries + 1) /\ path \in 0..Len(inodes)
      BY <1>1 DEF TypeInv, UploadInv, UploadState
    <3> QED BY <3>1, RetriesType, SMT
  <2> PICK t : t = [s EXCEPT !.phase = "opening", !.attempt = @ + 1, !.file = path]
    OBVIOUS
  <2>2. /\ t \in UploadState /\ t.phase = "opening" /\ t.file = path
        /\ (t.stored <=> s.stored)
    BY <2>1 DEF UploadState, Phases
  <2>3. /\ job' = [job EXCEPT ![c] = t]
        /\ seen' \in [Calls -> SUBSET Seq(Chunk)] /\ torn' \in [Calls -> BOOLEAN]
    BY <1>1, <1>3 DEF OpenFile, TypeInv
  <2>4. t.phase \notin {"idle", "due"} /\ t.phase \in {"opening", "sending"} /\ t.file # NoFile
    BY <1>3, <2>2
  <2>5. StepTo(c, t)
    BY <1>1, <2>2, <2>3, <2>4 DEF StepTo
  <2>6. TypeInv' /\ job'[c] = t /\ \A d \in Calls \ {c} : job'[d] = job[d]
    BY <2>2, <2>5, TypeStep
  <2> QED BY <1>1, <2>2, <2>6
<1> QED BY <1>2, <1>3

LEMMA BeginStep ==
  ASSUME TypeInv, NEW c \in Calls, BeginAttempt(c)
  PROVE  /\ TypeInv' /\ \A d \in Calls \ {c} : job'[d] = job[d]
         /\ UNCHANGED <<inodes, path, newest, seen>> /\ job[c].phase = "opening"
         /\ LET t == job'[c]
            IN /\ t.phase = "sending" /\ t.file = job[c].file /\ t.sent = <<>> /\ ~t.stored
               /\ path # NoFile => t.size = Len(inodes[path])
               /\ torn'[c] <=> path # t.file
<1> PICK s \in UploadState : s = job[c]
  BY DEF TypeInv
<1>1. s.phase = "opening" /\ UploadInv(s) /\ UNCHANGED <<inodes, path, newest, seen>>
  BY DEF BeginAttempt, TypeInv
<1>2. PICK n \in 0..MaxLength : n = SizeOf(s)
  <2>1. /\ path \in 0..Len(inodes) /\ inodes \in Seq(Seq(Chunk)) /\ Len(inodes) \in Nat
        /\ \A i \in 1..Len(inodes) : Len(inodes[i]) <= MaxLength
    BY DEF TypeInv
  <2>2. CASE path = NoFile
    BY <2>2, RetriesType, SMT DEF SizeOf
  <2>3. CASE path # NoFile
    <3>1. path \in 1..Len(inodes)
      BY <2>1, <2>3, SMT DEF NoFile
    <3>2. Len(inodes[path]) \in Nat /\ Len(inodes[path]) <= MaxLength
      BY <2>1, <3>1
    <3> QED BY <2>3, <3>2, RetriesType, SMT DEF SizeOf
  <2> QED BY <2>2, <2>3
<1> PICK u : u = [s EXCEPT !.phase = "sending", !.size = n]
  OBVIOUS
<1> PICK t : t = [u EXCEPT !.sent = <<>>, !.stored = FALSE]
  OBVIOUS
<1>3. <<>> \in Seq(Chunk)
  OBVIOUS
<1>4. u \in UploadState /\ u.phase = "sending" /\ u.size = n /\ u.file = s.file
  BY DEF UploadState, Phases
<1>5. /\ t \in UploadState /\ t.phase = "sending" /\ t.size = n /\ t.file = s.file
      /\ t.sent = <<>> /\ ~t.stored
  BY <1>3, <1>4 DEF UploadState
<1>6. /\ job' = [job EXCEPT ![c] = t]
      /\ seen' \in [Calls -> SUBSET Seq(Chunk)] /\ torn' \in [Calls -> BOOLEAN]
  BY <1>1, <1>2 DEF BeginAttempt, TypeInv
<1>7. t.phase \notin {"idle", "due"} /\ t.phase \in {"opening", "sending"} /\ t.file # NoFile
  BY <1>1, <1>5 DEF UploadInv
<1>8. path # NoFile => t.size = Len(inodes[path])
  BY <1>2, <1>5 DEF SizeOf
<1>9. StepTo(c, t)
  BY <1>1, <1>5, <1>6, <1>7 DEF StepTo
<1>10. TypeInv' /\ job'[c] = t /\ \A d \in Calls \ {c} : job'[d] = job[d]
  BY <1>5, <1>9, TypeStep
<1>11. torn'[c] <=> path # t.file
  BY <1>5 DEF BeginAttempt, TypeInv
<1> QED BY <1>1, <1>5, <1>8, <1>10, <1>11

LEMMA SendStep ==
  ASSUME TypeInv, NEW c \in Calls, SendChunk(c)
  PROVE  /\ TypeInv' /\ \A d \in Calls \ {c} : job'[d] = job[d]
         /\ UNCHANGED <<inodes, path, newest, seen, torn>> /\ Sending(c)
         /\ LET s == job[c]
                t == job'[c]
                file == inodes[s.file]
            IN /\ Len(s.sent) < s.size /\ Len(s.sent) < Len(file)
               /\ t.phase = "sending" /\ t.file = s.file /\ t.size = s.size
               /\ (t.stored <=> s.stored) /\ t.sent = Append(s.sent, file[Len(s.sent) + 1])
<1> PICK s \in UploadState : s = job[c]
  BY DEF TypeInv
<1> DEFINE file == inodes[s.file]
           k == file[Len(s.sent) + 1]
<1>1. /\ s.phase = "sending" /\ UploadInv(s) /\ Len(s.sent) < s.size /\ Len(s.sent) < Len(file)
      /\ UNCHANGED <<inodes, path, newest, seen, torn>>
  BY DEF SendChunk, Sending, Position, TypeInv
<1>2. /\ inodes \in Seq(Seq(Chunk)) /\ Len(inodes) \in Nat /\ s.file \in Nat
      /\ s.sent \in Seq(Chunk) /\ s.file # 0 /\ s.file <= Len(inodes)
  BY <1>1 DEF TypeInv, UploadInv, UploadState, NoFile
<1>3. s.file \in 1..Len(inodes)
  BY <1>2, SMT
<1>4. file \in Seq(Chunk) /\ Len(s.sent) \in Nat /\ Len(file) \in Nat
  BY <1>2, <1>3, ElementOfSeq, LenProperties
<1>5. k \in Chunk
  <2> HIDE DEF file
  <2>1. Len(s.sent) + 1 \in 1..Len(file)
    BY <1>1, <1>4, SMT
  <2> QED BY <1>4, <2>1, ElementOfSeq
<1> HIDE DEF k
<1>6. PICK sent \in Seq(Chunk) : sent = Append(s.sent, k)
  BY <1>2, <1>5, AppendProperties
<1> PICK t : t = [s EXCEPT !.sent = sent]
  OBVIOUS
<1>7. /\ t \in UploadState /\ t.phase = s.phase /\ t.file = s.file /\ t.size = s.size
      /\ (t.stored <=> s.stored) /\ t.sent = sent
  BY DEF UploadState
<1>8. /\ job' = [job EXCEPT ![c] = t]
      /\ seen' \in [Calls -> SUBSET Seq(Chunk)] /\ torn' \in [Calls -> BOOLEAN]
  BY <1>1, <1>6 DEF SendChunk, Position, TypeInv, k
<1>9. t.phase \notin {"idle", "due"} /\ t.phase \in {"opening", "sending"} /\ t.file # NoFile
  BY <1>1, <1>2, <1>7 DEF NoFile
<1>10. StepTo(c, t)
  BY <1>1, <1>7, <1>8, <1>9 DEF StepTo
<1>11. TypeInv' /\ job'[c] = t /\ \A d \in Calls \ {c} : job'[d] = job[d]
  BY <1>7, <1>10, TypeStep
<1> QED BY <1>1, <1>6, <1>7, <1>11 DEF Sending, k

LEMMA StoreStep ==
  ASSUME TypeInv, NEW c \in Calls, StoreObject(c)
  PROVE  /\ TypeInv' /\ \A d \in Calls \ {c} : job'[d] = job[d]
         /\ UNCHANGED <<inodes, path, newest, seen, torn>>
         /\ LET s == job[c]
                t == job'[c]
            IN /\ s.phase = "sending" /\ Len(s.sent) = s.size /\ object' = s.sent
               /\ t.phase = s.phase /\ t.file = s.file /\ t.size = s.size /\ t.sent = s.sent
<1> PICK s \in UploadState : s = job[c]
  BY DEF TypeInv
<1> PICK t : t = [s EXCEPT !.stored = TRUE]
  OBVIOUS
<1>1. /\ s.phase = "sending" /\ UploadInv(s) /\ Len(s.sent) = s.size /\ object' = s.sent
      /\ UNCHANGED <<inodes, path, newest, seen, torn>>
  BY DEF StoreObject, Sending, TypeInv
<1>2. /\ t \in UploadState /\ t.phase = s.phase /\ t.file = s.file /\ t.size = s.size
      /\ t.sent = s.sent
  BY DEF UploadState
<1>3. /\ job' = [job EXCEPT ![c] = t]
      /\ seen' \in [Calls -> SUBSET Seq(Chunk)] /\ torn' \in [Calls -> BOOLEAN]
  BY <1>1 DEF StoreObject, TypeInv
<1>4. t.phase \notin {"idle", "due"} /\ t.phase \in {"opening", "sending"} /\ t.file # NoFile
  BY <1>1, <1>2 DEF UploadInv
<1>5. StepTo(c, t)
  BY <1>1, <1>2, <1>3, <1>4 DEF StepTo
<1>6. TypeInv' /\ job'[c] = t /\ \A d \in Calls \ {c} : job'[d] = job[d]
  BY <1>2, <1>5, TypeStep
<1> QED BY <1>1, <1>2, <1>6

\* The end of an attempt, or of a call.
Ends(c) == EndsEarly(c) \/ AttemptDone(c) \/ Cancel(c)

LEMMA EndStep ==
  ASSUME TypeInv, NEW c \in Calls, Ends(c)
  PROVE  /\ TypeInv' /\ \A d \in Calls \ {c} : job'[d] = job[d]
         /\ UNCHANGED <<inodes, path, newest, seen, torn>>
         /\ job[c].phase \in {"due", "sending"} /\ job'[c].phase \in {"due", "over"}
         /\ job'[c].stored <=> job[c].stored
<1>1. /\ UNCHANGED <<inodes, path, newest, seen, torn>> /\ job[c].phase \in {"due", "sending"}
  BY DEF Ends, EndsEarly, AttemptDone, Cancel, Sending
<1>2. PICK r \in Results : Over(c, r) \/ RetryOr(c, r)
  BY DEF Ends, EndsEarly, AttemptDone, Cancel, Results
<1> QED BY <1>1, <1>2, OverStep, RetryStep

\* An inode still begins with what it held.
Keeps(i) ==
  Len(inodes[i]) <= Len(inodes'[i]) /\ \A n \in 1..Len(inodes[i]) : inodes'[i][n] = inodes[i][n]

\* What a change of the file leaves: sequences of chunks, inodes that stay but for the one
\* the path names, and that one begins as before or the attempts that send it are torn.
Changed ==
  /\ inodes' \in Seq(Seq(Chunk)) /\ Len(inodes') \in Nat /\ Len(inodes') >= Len(inodes)
  /\ \A i \in 1..Len(inodes') : Len(inodes'[i]) <= MaxLength
  /\ path' \in 0..Len(inodes') /\ newest' \in 1..Len(Lengths)
  /\ torn' \in [Calls -> BOOLEAN] /\ \A c \in Calls : torn[c] => torn'[c]
  /\ \A i \in 1..Len(inodes) :
       /\ inodes'[i] = inodes[i] \/ (i = path' /\ i # NoFile)
       /\ Keeps(i) \/ \A c \in Calls : Sending(c) /\ job[c].file = i => torn'[c]

LEMMA InodesAre ==
  ASSUME TypeInv
  PROVE  /\ inodes \in Seq(Seq(Chunk)) /\ Len(inodes) \in Nat /\ path \in 0..Len(inodes)
         /\ \A i \in 1..Len(inodes) :
              inodes[i] \in Seq(Chunk) /\ Len(inodes[i]) \in Nat /\ Len(inodes[i]) <= MaxLength
         /\ newest \in 1..Len(Lengths) /\ Len(Lengths) \in Nat /\ MaxLength \in Nat
         /\ path # NoFile => path \in 1..Len(inodes)
<1>1. path # NoFile /\ Len(inodes) \in Nat /\ path \in 0..Len(inodes) => path \in 1..Len(inodes)
  BY SMT DEF NoFile
<1> QED BY <1>1, UploadAssumption, ElementOfSeq, LenProperties DEF TypeInv

\* Another content of the inode that the path names.
LEMMA ContentStep ==
  ASSUME TypeInv, path # NoFile, NEW q \in Seq(Chunk), Len(q) <= MaxLength,
         inodes' = [inodes EXCEPT ![path] = q], UNCHANGED path,
         newest' \in 1..Len(Lengths),
         torn' \in [Calls -> BOOLEAN], \A c \in Calls : torn[c] => torn'[c],
         \/ Len(inodes[path]) <= Len(q) /\ \A n \in 1..Len(inodes[path]) : q[n] = inodes[path][n]
         \/ \A c \in Calls : Sending(c) /\ job[c].file = path => torn'[c]
  PROVE  Changed
<1>1. /\ inodes \in Seq(Seq(Chunk)) /\ Len(inodes) \in Nat /\ path \in 1..Len(inodes)
      /\ \A i \in 1..Len(inodes) :
           inodes[i] \in Seq(Chunk) /\ Len(inodes[i]) \in Nat /\ Len(inodes[i]) <= MaxLength
  BY InodesAre
<1>2. /\ inodes' \in Seq(Seq(Chunk)) /\ Len(inodes') = Len(inodes)
      /\ \A i \in 1..Len(inodes) : inodes'[i] = IF i = path THEN q ELSE inodes[i]
  BY <1>1, ExceptSeq
<1>3. \A i \in 1..Len(inodes) : Len(inodes'[i]) <= MaxLength
  BY <1>1, <1>2
<1>4. ASSUME NEW i \in 1..Len(inodes)
      PROVE  Keeps(i) \/ \A c \in Calls : Sending(c) /\ job[c].file = i => torn'[c]
  <2>1. CASE i = path
    BY <1>2, <2>1 DEF Keeps
  <2>2. CASE i # path
    <3>1. inodes'[i] = inodes[i] /\ Len(inodes[i]) \in Nat
      BY <1>1, <1>2, <2>2
    <3> QED BY <3>1, SMT DEF Keeps
  <2> QED BY <2>1, <2>2
<1>5. Len(inodes') \in Nat /\ Len(inodes') >= Len(inodes) /\ path' \in 0..Len(inodes')
  BY <1>1, <1>2, SMT
<1> QED BY <1>1, <1>2, <1>3, <1>4, <1>5 DEF Changed

LEMMA AppendsStep ==
  ASSUME TypeInv, Appends
  PROVE  Changed
<1>1. /\ path # NoFile /\ Len(inodes[path]) < MaxLength
      /\ inodes' = [inodes EXCEPT ![path] = Append(@, <<newest, Len(@) + 1>>)]
      /\ UNCHANGED <<path, newest, torn>>
  BY DEF Appends
<1>2. inodes[path] \in Seq(Chunk) /\ Len(inodes[path]) \in Nat
  BY <1>1, InodesAre
<1>3. <<newest, Len(inodes[path]) + 1>> \in Chunk
  <2>1. newest \in 1..Len(Lengths) /\ Len(Lengths) \in Nat
    BY InodesAre
  <2> QED BY <1>2, <2>1, SMT DEF Chunk
<1>4. PICK q \in Seq(Chunk) : q = Append(inodes[path], <<newest, Len(inodes[path]) + 1>>)
  BY <1>2, <1>3, AppendProperties
<1>5. Len(q) = Len(inodes[path]) + 1 /\ \A n \in 1..Len(inodes[path]) : q[n] = inodes[path][n]
  BY <1>2, <1>3, <1>4, AppendProperties
<1>6. Len(q) <= MaxLength /\ Len(inodes[path]) <= Len(q)
  BY <1>1, <1>2, <1>5, RetriesType, SMT
<1>7. /\ inodes' = [inodes EXCEPT ![path] = q] /\ newest' \in 1..Len(Lengths)
      /\ torn' \in [Calls -> BOOLEAN] /\ \A c \in Calls : torn[c] => torn'[c]
  BY <1>1, <1>4 DEF TypeInv
<1> QED BY <1>1, <1>5, <1>6, <1>7, ContentStep

LEMMA RewritesStep ==
  ASSUME TypeInv, Rewrites
  PROVE  Changed
<1>1. /\ path # NoFile /\ newest < Len(Lengths) /\ newest' = newest + 1 /\ UNCHANGED path
      /\ torn' = [c \in Calls |-> torn[c] \/ (Sending(c) /\ job[c].file = path)]
  BY DEF Rewrites
<1>2. PICK i \in DOMAIN inodes[path] :
        inodes' \in {[inodes EXCEPT ![path] = SubSeq(@, 1, i - 1)],
                    [inodes EXCEPT ![path][i] = <<newest', i>>]}
  BY DEF Rewrites
<1>3. PICK f \in Seq(Chunk) : f = inodes[path] /\ Len(f) \in Nat /\ Len(f) <= MaxLength
  BY <1>1, InodesAre
<1>4. i \in 1..Len(f) /\ i \in Nat
  BY <1>2, <1>3, LenProperties
<1>5. newest' \in 1..Len(Lengths) /\ newest' \in Nat
  <2>1. newest \in 1..Len(Lengths) /\ Len(Lengths) \in Nat
    BY InodesAre
  <2> QED BY <1>1, <2>1, SMT
<1>6. \E q \in Seq(Chunk) : Len(q) <= MaxLength /\ inodes' = [inodes EXCEPT ![path] = q]
  <2>1. CASE inodes' = [inodes EXCEPT ![path] = SubSeq(@, 1, i - 1)]
    <3>1. 1 \in 1..(Len(f) + 1) /\ i - 1 \in (1 - 1)..Len(f) /\ i - 1 <= MaxLength
      BY <1>3, <1>4, RetriesType, SMT
    <3>2. SubSeq(f, 1, i - 1) \in Seq(Chunk) /\ Len(SubSeq(f, 1, i - 1)) <= MaxLength
      <4>1. SubSeq(f, 1, i - 1) \in Seq(Chunk)
        BY <1>3, <1>4, SMT
      <4>2. Len(SubSeq(f, 1, i - 1)) = i - 1
        BY <1>3, <1>4, SMT
      <4> QED BY <3>1, <4>1, <4>2
    <3> QED BY <1>3, <2>1, <3>2
  <2>2. CASE inodes' = [inodes EXCEPT ![path][i] = <<newest', i>>]
    <3>1. <<newest', i>> \in Chunk
      BY <1>4, <1>5, SMT DEF Chunk
    <3>2. PICK q : q = [f EXCEPT ![i] = <<newest', i>>]
      OBVIOUS
    <3>3. q \in Seq(Chunk) /\ Len(q) = Len(f)
      BY <1>4, <3>1, <3>2, ExceptSeq
    <3>4. inodes' = [inodes EXCEPT ![path] = q]
      BY <1>3, <2>2, <3>2
    <3> QED BY <1>3, <3>3, <3>4
  <2> QED BY <1>2, <2>1, <2>2
<1>7. PICK q \in Seq(Chunk) : Len(q) <= MaxLength /\ inodes' = [inodes EXCEPT ![path] = q]
  BY <1>6
<1>8. /\ torn' \in [Calls -> BOOLEAN] /\ \A c \in Calls : torn[c] => torn'[c]
      /\ \A c \in Calls : Sending(c) /\ job[c].file = path => torn'[c]
  BY <1>1 DEF TypeInv
<1> QED BY <1>1, <1>5, <1>7, <1>8, ContentStep

LEMMA ReplacesStep ==
  ASSUME TypeInv, Replaces
  PROVE  Changed
<1>1. /\ newest < Len(Lengths) /\ newest' = newest + 1 /\ path' = Len(inodes')
      /\ inodes' = Append(inodes, Version(newest', Lengths[newest'])) /\ UNCHANGED torn
  BY DEF Replaces
<1>2. /\ inodes \in Seq(Seq(Chunk)) /\ Len(inodes) \in Nat
      /\ \A i \in 1..Len(inodes) : Len(inodes[i]) \in Nat /\ Len(inodes[i]) <= MaxLength
      /\ newest \in 1..Len(Lengths) /\ Len(Lengths) \in Nat /\ MaxLength \in Nat
  BY InodesAre
<1>3. newest' \in 1..Len(Lengths) /\ newest' \in Nat
  BY <1>1, <1>2, SMT
<1>4. Lengths[newest'] \in Nat /\ Lengths[newest'] <= MaxLength
  <2>1. Lengths[newest'] \in 0..MaxLength
    BY <1>3, UploadAssumption, ElementOfSeq
  <2> QED BY <1>2, <2>1, SMT
<1>5. PICK q \in Seq(Chunk) : q = Version(newest', Lengths[newest']) /\ Len(q) <= MaxLength
  BY <1>3, <1>4, VersionIs
<1>6. /\ inodes' \in Seq(Seq(Chunk)) /\ Len(inodes') = Len(inodes) + 1
      /\ \A i \in 1..Len(inodes) : inodes'[i] = inodes[i]
      /\ inodes'[Len(inodes) + 1] = q
  BY <1>1, <1>2, <1>5, AppendProperties
<1>7. ASSUME NEW i \in 1..Len(inodes') PROVE Len(inodes'[i]) <= MaxLength
  <2>1. i \in 1..Len(inodes) \/ i = Len(inodes) + 1
    BY <1>2, <1>6, SMT
  <2> QED BY <1>2, <1>5, <1>6, <2>1
<1>8. ASSUME NEW i \in 1..Len(inodes) PROVE Keeps(i)
  <2>1. inodes'[i] = inodes[i] /\ Len(inodes[i]) \in Nat
    BY <1>2, <1>6
  <2> QED BY <2>1, SMT DEF Keeps
<1>9. Len(inodes') \in Nat /\ Len(inodes') >= Len(inodes) /\ path' \in 0..Len(inodes')
  BY <1>1, <1>2, <1>6, SMT
<1>10. torn' \in [Calls -> BOOLEAN] /\ \A c \in Calls : torn[c] => torn'[c]
  BY <1>1 DEF TypeInv
<1> QED BY <1>3, <1>6, <1>7, <1>8, <1>9, <1>10 DEF Changed

LEMMA DeletesStep ==
  ASSUME TypeInv, Deletes
  PROVE  Changed
<1>1. path' = NoFile /\ UNCHANGED <<inodes, newest, torn>>
  BY DEF Deletes
<1>2. /\ inodes \in Seq(Seq(Chunk)) /\ Len(inodes) \in Nat
      /\ \A i \in 1..Len(inodes) : Len(inodes[i]) \in Nat /\ Len(inodes[i]) <= MaxLength
  BY InodesAre
<1>3. ASSUME NEW i \in 1..Len(inodes) PROVE Keeps(i) /\ inodes'[i] = inodes[i]
  <2>1. inodes'[i] = inodes[i] /\ Len(inodes[i]) \in Nat
    BY <1>1, <1>2
  <2> QED BY <2>1, SMT DEF Keeps
<1>4. Len(inodes') >= Len(inodes) /\ path' \in 0..Len(inodes')
  BY <1>1, <1>2, SMT DEF NoFile
<1> QED BY <1>1, <1>2, <1>3, <1>4 DEF Changed, TypeInv

\* Whoever else uses the file: calls that have begun see what the path names then.
LEMMA ChangeFileStep ==
  ASSUME TypeInv, ChangeFile
  PROVE  /\ TypeInv' /\ job' = job /\ Changed
         /\ \A i \in 1..Len(inodes) : i \in 1..Len(inodes')
         /\ \A c \in Calls : seen[c] \subseteq seen'[c]
         /\ path' # NoFile =>
              \A c \in Calls : job[c].phase \notin {"idle", "over"} => inodes'[path'] \in seen'[c]
<1>1. Len(inodes) \in Nat
  BY InodesAre
<1>2. Changed
  BY AppendsStep, RewritesStep, ReplacesStep, DeletesStep DEF ChangeFile
<1>3. path' # NoFile => path' \in 1..Len(inodes') /\ inodes'[path'] \in Seq(Chunk)
  <2>1. Len(inodes') \in Nat /\ path' \in 0..Len(inodes') /\ inodes' \in Seq(Seq(Chunk))
    BY <1>2 DEF Changed
  <2>2. path' # NoFile => path' \in 1..Len(inodes')
    BY <2>1, SMT DEF NoFile
  <2> QED BY <2>1, <2>2, ElementOfSeq
<1>4. /\ job' = job
      /\ seen' = [c \in Calls |->
           IF job[c].phase \in {"idle", "over"} \/ path' = NoFile THEN seen[c]
           ELSE seen[c] \cup {inodes'[path']}]
  BY DEF ChangeFile
<1>5. seen' \in [Calls -> SUBSET Seq(Chunk)]
  BY <1>3, <1>4 DEF TypeInv
<1>6. ASSUME NEW c \in Calls PROVE UploadInv(job[c])'
  <2>1. UploadInv(job[c]) /\ job[c].file \in Nat
    BY DEF TypeInv, UploadState
  <2>2. job[c].file <= Len(inodes')
    BY <1>1, <1>2, <2>1, SMT DEF UploadInv, Changed
  <2> QED BY <1>4, <2>1, <2>2 DEF UploadInv
<1>7. TypeInv'
  BY <1>2, <1>4, <1>5, <1>6 DEF TypeInv, Changed
<1>8. \A i \in 1..Len(inodes) : i \in 1..Len(inodes')
  <2>1. Len(inodes') \in Nat /\ Len(inodes') >= Len(inodes)
    BY <1>2 DEF Changed
  <2> QED BY <1>1, <2>1, SMT
<1> QED BY <1>2, <1>4, <1>7, <1>8

LEMMA StepsOfNext ==
  ASSUME UploadNext
  PROVE  \/ ChangeFile \/ AllOver
         \/ \E c \in Calls :
              \/ PutFile(c) \/ StoreObject(c) \/ OpenFile(c) \/ BeginAttempt(c) \/ SendChunk(c)
              \/ Ends(c)
BY DEF UploadNext, Ends

LEMMA TypeInitInv == UploadInit => TypeInv
<1> SUFFICES ASSUME UploadInit PROVE TypeInv
  OBVIOUS
<1>1. Lengths[1] \in Nat /\ Lengths[1] <= MaxLength /\ 1 \in 1..Len(Lengths)
  <2>1. Len(Lengths) \in Nat /\ Len(Lengths) > 0
    BY UploadAssumption, LenProperties
  <2>2. 1 \in 1..Len(Lengths)
    BY <2>1, SMT
  <2>3. Lengths[1] \in 0..MaxLength
    BY <2>2, UploadAssumption, ElementOfSeq
  <2> QED BY <2>2, <2>3, UploadAssumption, SMT
<1>2. PICK q \in Seq(Chunk) : q = Version(1, Lengths[1]) /\ Len(q) <= MaxLength
  BY <1>1, VersionIs
<1>3. inodes = <<q>>
  BY <1>2 DEF UploadInit
<1>4. inodes \in Seq(Seq(Chunk)) /\ Len(inodes) = 1 /\ inodes[1] = q
  BY <1>3
<1>5. \A i \in 1..Len(inodes) : Len(inodes[i]) <= MaxLength
  <2>1. \A i \in 1..Len(inodes) : i = 1
    BY <1>4, SMT
  <2> QED BY <1>2, <1>4, <2>1
<1>6. 0 \in 0..(Retries + 1) /\ 0 \in 0..MaxLength /\ <<>> \in Seq(Chunk)
  BY RetriesType, SMT
<1>7. NewUpload \in UploadState
  BY <1>6 DEF NewUpload, UploadState, Phases, Results, NoFile
<1>8. UploadInv(NewUpload)
  <2>1. 0 <= Retries /\ 0 <= Len(inodes)
    BY <1>4, RetriesType, SMT
  <2> QED BY <2>1 DEF NewUpload, UploadInv, NoFile
<1>9. \A c \in Calls : job[c] = NewUpload
  BY DEF UploadInit
<1>10. 1 \in 0..Len(inodes)
  BY <1>4, SMT
<1> QED BY <1>1, <1>4, <1>5, <1>7, <1>8, <1>9, <1>10 DEF UploadInit, TypeInv

LEMMA TypeNextInv == TypeInv /\ [UploadNext]_uploadVars => TypeInv'
<1> SUFFICES ASSUME TypeInv, [UploadNext]_uploadVars PROVE TypeInv'
  OBVIOUS
<1>1. CASE AllOver \/ UNCHANGED uploadVars
  BY <1>1 DEF AllOver, uploadVars, TypeInv, UploadInv
<1>2. ASSUME NEW c \in Calls,
             \/ PutFile(c) \/ StoreObject(c) \/ OpenFile(c) \/ BeginAttempt(c) \/ SendChunk(c)
             \/ Ends(c)
      PROVE  TypeInv'
  BY <1>2, PutFileStep, StoreStep, OpenFileStep, BeginStep, SendStep, EndStep
<1> QED BY <1>1, <1>2, ChangeFileStep, StepsOfNext

\* Every variable of an upload keeps its type, no call makes more attempts than it may, and
\* it has a file exactly while it opens or sends one.
THEOREM UploadTypes == UploadSpec => []UploadTypeOK
<1>1. UploadInit => TypeInv
  BY TypeInitInv
<1>2. TypeInv /\ [UploadNext]_uploadVars => TypeInv'
  BY TypeNextInv
<1>3. TypeInv => UploadTypeOK
  <2> SUFFICES ASSUME TypeInv PROVE UploadTypeOK
    OBVIOUS
  <2>1. ASSUME NEW c \in Calls
        PROVE  LET s == job[c]
               IN /\ s.phase \in {"idle", "due", "opening", "sending", "over"}
                  /\ s.attempt \in Nat
                  /\ s.attempt <= 1 + (IF MaxRetries > 0 THEN MaxRetries ELSE 0)
                  /\ s.file \in 0..Len(inodes) /\ s.size \in 0..MaxLength
                  /\ s.stored \in BOOLEAN /\ s.result \in Results
                  /\ s.file # NoFile <=> s.phase \in {"opening", "sending"}
    <3> PICK s \in UploadState : s = job[c]
      BY DEF TypeInv
    <3>1. UploadInv(s) /\ Len(inodes) \in Nat
      BY DEF TypeInv
    <3>2. s.attempt \in Nat /\ s.attempt <= 1 + (IF MaxRetries > 0 THEN MaxRetries ELSE 0)
      <4>1. s.attempt \in 0..(Retries + 1)
        BY DEF UploadState
      <4> QED BY <4>1, RetriesType, SMT DEF Retries
    <3>3. s.file \in 0..Len(inodes)
      BY <3>1, SMT DEF UploadInv, UploadState
    <3> QED BY <3>1, <3>2, <3>3 DEF UploadState, UploadInv, Phases
  <2> QED BY <2>1 DEF UploadTypeOK, TypeInv
<1> QED BY <1>1, <1>2, <1>3, PTL DEF UploadSpec

-----------------------------------------------------------------------------
(***************************************************************************)
(* What is stored.                                                         *)
(***************************************************************************)

\* The file of an attempt that sends begins with contents q that the call has seen, of the
\* promised length, and what was sent begins q.
Snapshot(q, s) ==
  /\ Len(q) = s.size /\ Len(s.sent) <= Len(q)
  /\ \A i \in 1..Len(q) : i \in 1..Len(inodes[s.file]) /\ inodes[s.file][i] = q[i]
  /\ \A i \in 1..Len(s.sent) : s.sent[i] = q[i]

\* Chunk k stood at position i of the file since the call.
Stood(c, k, i) == \E q \in seen[c] : i \in 1..Len(q) /\ q[i] = k

\* The call has seen what the path names and what its attempt reads from, and has sent only
\* what it has seen: of one and the same content unless the attempt is torn.
CallInv(c) ==
  /\ job[c].phase \notin {"idle", "over"} /\ path # NoFile => inodes[path] \in seen[c]
  /\ job[c].phase \in {"opening", "sending"} => inodes[job[c].file] \in seen[c]
  /\ Sending(c) => \A i \in 1..Len(job[c].sent) : Stood(c, job[c].sent[i], i)
  /\ Sending(c) /\ ~torn[c] => \E q \in seen[c] : Snapshot(q, job[c])

\* The inductive invariant of uploads.
SnapshotInv == TypeInv /\ \A c \in Calls : CallInv(c)

-----------------------------------------------------------------------------
\* The other calls do not notice a step that leaves the file alone.
LEMMA CallStep ==
  ASSUME SnapshotInv, TypeInv', NEW c \in Calls, \A d \in Calls \ {c} : job'[d] = job[d],
         UNCHANGED <<inodes, path>>, \A d \in Calls \ {c} : seen'[d] = seen[d],
         \A d \in Calls \ {c} : torn'[d] = torn[d], CallInv(c)'
  PROVE  SnapshotInv'
<1>1. ASSUME NEW d \in Calls \ {c} PROVE CallInv(d)'
  <2>1. /\ CallInv(d) /\ job'[d] = job[d] /\ seen'[d] = seen[d] /\ torn'[d] = torn[d]
        /\ inodes' = inodes /\ path' = path
    BY DEF SnapshotInv
  <2>2. \A q : Snapshot(q, job[d]) => Snapshot(q, job[d])'
    BY <2>1 DEF Snapshot
  <2>3. \A k, i : Stood(d, k, i) => Stood(d, k, i)'
    BY <2>1 DEF Stood
  <2> QED BY <2>1, <2>2, <2>3 DEF CallInv, Sending
<1> QED BY <1>1 DEF SnapshotInv

LEMMA SendingFile ==
  ASSUME TypeInv, NEW c \in Calls, job[c].phase \in {"opening", "sending"}
  PROVE  /\ job[c].file \in 1..Len(inodes) /\ inodes[job[c].file] \in Seq(Chunk)
         /\ job[c].sent \in Seq(Chunk) /\ Len(job[c].sent) \in Nat /\ job[c].file # NoFile
<1>1. /\ inodes \in Seq(Seq(Chunk)) /\ Len(inodes) \in Nat /\ job[c].file # 0
      /\ job[c].file \in Nat /\ job[c].file <= Len(inodes) /\ job[c].sent \in Seq(Chunk)
  BY DEF TypeInv, UploadInv, UploadState, NoFile
<1>2. job[c].file \in 1..Len(inodes)
  BY <1>1, SMT
<1> QED BY <1>1, <1>2, ElementOfSeq, LenProperties DEF NoFile

LEMMA BeginSnapshot ==
  ASSUME SnapshotInv, NEW c \in Calls, BeginAttempt(c)
  PROVE  SnapshotInv'
<1> PICK t : t = job'[c]
  OBVIOUS
<1>1. TypeInv /\ CallInv(c)
  BY DEF SnapshotInv
<1>2. /\ TypeInv' /\ (\A d \in Calls \ {c} : job'[d] = job[d])
      /\ UNCHANGED <<inodes, path, newest, seen>> /\ job[c].phase = "opening"
      /\ t.phase = "sending" /\ t.file = job[c].file /\ t.sent = <<>>
      /\ path # NoFile => t.size = Len(inodes[path])
      /\ torn'[c] <=> path # t.file
  BY <1>1, BeginStep
<1>3. \A d \in Calls \ {c} : torn'[d] = torn[d]
  BY <1>1 DEF BeginAttempt, TypeInv
<1>4. /\ t.file # NoFile /\ inodes[t.file] \in Seq(Chunk) /\ inodes[t.file] \in seen[c]
  BY <1>1, <1>2, SendingFile DEF CallInv
<1>5. ASSUME ~torn'[c] PROVE Snapshot(inodes[t.file], t)
  <2>1. path # NoFile /\ t.size = Len(inodes[t.file])
    BY <1>2, <1>4, <1>5
  <2> QED BY <1>2, <1>4, <2>1, SMT DEF Snapshot
<1>6. CallInv(c)'
  <2>1. Snapshot(inodes[t.file], t) => Snapshot(inodes[t.file], t)'
    BY <1>2 DEF Snapshot
  <2>2. 1..Len(t.sent) = {}
    BY <1>2, SMT
  <2> QED BY <1>1, <1>2, <1>4, <1>5, <2>1, <2>2 DEF CallInv, Sending
<1> QED BY <1>2, <1>3, <1>6, CallStep

LEMMA SendSnapshot ==
  ASSUME SnapshotInv, NEW c \in Calls, SendChunk(c)
  PROVE  SnapshotInv'
<1> PICK s : s = job[c]
  OBVIOUS
<1> PICK t : t = job'[c]
  OBVIOUS
<1>1. TypeInv /\ CallInv(c)
  BY DEF SnapshotInv
<1>2. /\ TypeInv' /\ (\A d \in Calls \ {c} : job'[d] = job[d])
      /\ UNCHANGED <<inodes, path, newest, seen, torn>> /\ s.phase = "sending" /\ Sending(c)
      /\ Len(s.sent) < s.size /\ Len(s.sent) < Len(inodes[s.file])
      /\ t.phase = "sending" /\ t.file = s.file /\ t.size = s.size
      /\ t.sent = Append(s.sent, inodes[s.file][Len(s.sent) + 1])
  BY <1>1, SendStep DEF Sending
<1>3. /\ s.sent \in Seq(Chunk) /\ Len(s.sent) \in Nat /\ inodes[s.file] \in Seq(Chunk)
      /\ Len(inodes[s.file]) \in Nat /\ inodes[s.file] \in seen[c]
  BY <1>1, <1>2, SendingFile, LenProperties DEF CallInv
<1> DEFINE n == Len(s.sent) + 1
           k == inodes[s.file][n]
<1>4. n \in 1..Len(inodes[s.file]) /\ k \in Chunk
  <2>1. n \in 1..Len(inodes[s.file])
    BY <1>2, <1>3, SMT
  <2> QED BY <1>3, <2>1, ElementOfSeq
<1>5. /\ Len(t.sent) = n /\ t.sent[n] = k
      /\ \A i \in 1..Len(s.sent) : t.sent[i] = s.sent[i]
  BY <1>2, <1>3, <1>4, AppendProperties
<1>6. \A i \in 1..Len(t.sent) : i \in 1..Len(s.sent) \/ i = n
  BY <1>3, <1>5, SMT
<1>7. ASSUME NEW i \in 1..Len(t.sent) PROVE Stood(c, t.sent[i], i)
  <2>1. CASE i = n
    BY <1>3, <1>4, <1>5, <2>1 DEF Stood
  <2>2. CASE i \in 1..Len(s.sent)
    BY <1>1, <1>2, <1>5, <2>2 DEF CallInv
  <2> QED BY <1>6, <2>1, <2>2
<1>8. ASSUME ~torn[c] PROVE \E q \in seen[c] : Snapshot(q, t)
  <2>1. PICK q \in seen[c] : Snapshot(q, s)
    BY <1>1, <1>2, <1>8 DEF CallInv
  <2>2. q \in Seq(Chunk) /\ Len(q) \in Nat /\ Len(q) = s.size
    BY <1>1, <2>1, LenProperties DEF TypeInv, Snapshot
  <2>3. n \in 1..Len(q) /\ n <= Len(q)
    BY <1>2, <1>3, <2>2, SMT
  <2>4. t.sent[n] = q[n]
    BY <1>5, <2>1, <2>3 DEF Snapshot
  <2>5. \A i \in 1..Len(t.sent) : t.sent[i] = q[i]
    BY <1>5, <1>6, <2>1, <2>4 DEF Snapshot
  <2>6. \A i \in 1..Len(q) : i \in 1..Len(inodes[s.file]) /\ inodes[s.file][i] = q[i]
    BY <2>1 DEF Snapshot
  <2>7. Len(q) = t.size /\ Len(t.sent) <= Len(q) /\ t.file = s.file
    BY <1>2, <1>5, <2>2, <2>3
  <2>8. Snapshot(q, t)
    BY <2>5, <2>6, <2>7 DEF Snapshot
  <2> QED BY <2>1, <2>8
<1>9. CallInv(c)'
  <2>1. \A q : Snapshot(q, t) => Snapshot(q, t)'
    BY <1>2 DEF Snapshot
  <2>2. \A i \in 1..Len(t.sent) : Stood(c, t.sent[i], i)'
    BY <1>2, <1>7 DEF Stood
  <2> QED BY <1>1, <1>2, <1>8, <2>1, <2>2 DEF CallInv, Sending
<1> QED BY <1>2, <1>9, CallStep

LEMMA ChangeSnapshot ==
  ASSUME SnapshotInv, ChangeFile
  PROVE  SnapshotInv'
<1>1. /\ TypeInv /\ TypeInv' /\ job' = job /\ Changed
      /\ \A i \in 1..Len(inodes) : i \in 1..Len(inodes')
      /\ \A c \in Calls : seen[c] \subseteq seen'[c]
      /\ path' # NoFile =>
           \A c \in Calls : job[c].phase \notin {"idle", "over"} => inodes'[path'] \in seen'[c]
  BY ChangeFileStep DEF SnapshotInv
<1>2. ASSUME NEW c \in Calls PROVE CallInv(c)'
  <2>1. CallInv(c) /\ seen[c] \subseteq seen'[c] /\ job'[c] = job[c] /\ (torn[c] => torn'[c])
    BY <1>1 DEF SnapshotInv, Changed
  <2> DEFINE f == job[c].file
  <2>2. ASSUME job[c].phase \in {"opening", "sending"} PROVE inodes'[f] \in seen'[c]
    <3>1. f \in 1..Len(inodes) /\ inodes[f] \in seen[c]
      BY <1>1, <2>1, <2>2, SendingFile DEF CallInv
    <3>2. inodes'[f] = inodes[f] \/ (f = path' /\ path' # NoFile)
      BY <1>1, <3>1 DEF Changed
    <3> QED BY <1>1, <2>1, <2>2, <3>1, <3>2
  <2>3. ASSUME Sending(c), ~torn'[c] PROVE \E q \in seen'[c] : Snapshot(q, job[c])'
    <3>1. PICK q \in seen[c] : Snapshot(q, job[c])
      BY <2>1, <2>3 DEF CallInv
    <3>2. f \in 1..Len(inodes) /\ inodes[f] \in Seq(Chunk)
      BY <1>1, <2>3, SendingFile DEF Sending
    <3>3. /\ Len(inodes[f]) <= Len(inodes'[f])
          /\ \A n \in 1..Len(inodes[f]) : inodes'[f][n] = inodes[f][n]
      BY <1>1, <2>3, <3>2 DEF Changed, Keeps
    <3>4. Len(inodes'[f]) \in Nat /\ Len(inodes[f]) \in Nat
      BY <1>1, <3>2, ElementOfSeq, LenProperties DEF TypeInv
    <3>5. ASSUME NEW i \in 1..Len(q)
          PROVE  i \in 1..Len(inodes'[f]) /\ inodes'[f][i] = q[i]
      <4>1. i \in 1..Len(inodes[f]) /\ inodes[f][i] = q[i]
        BY <3>1 DEF Snapshot
      <4>2. i \in 1..Len(inodes'[f])
        <5> HIDE DEF f
        <5> QED BY <3>3, <3>4, <4>1, SMT
      <4> QED BY <3>3, <4>1, <4>2
    <3>6. Snapshot(q, job[c])'
      BY <1>1, <3>1, <3>5 DEF Snapshot
    <3> QED BY <2>1, <3>1, <3>6
  <2>4. ASSUME Sending(c), NEW i \in 1..Len(job[c].sent) PROVE Stood(c, job[c].sent[i], i)'
    BY <2>1, <2>4 DEF CallInv, Stood
  <2> QED BY <1>1, <2>1, <2>2, <2>3, <2>4 DEF CallInv, Sending
<1> QED BY <1>1, <1>2 DEF SnapshotInv

LEMMA SnapshotNextInv ==
  ASSUME SnapshotInv, [UploadNext]_uploadVars
  PROVE  SnapshotInv'
<1>1. CASE AllOver \/ UNCHANGED uploadVars
  <2>1. UNCHANGED <<job, inodes, path, seen, torn>>
    BY <1>1 DEF AllOver, uploadVars
  <2>2. TypeInv'
    BY TypeNextInv DEF SnapshotInv
  <2> QED BY <2>1, <2>2 DEF SnapshotInv, CallInv, Sending, Snapshot, Stood
<1>2. ASSUME NEW c \in Calls, PutFile(c) PROVE SnapshotInv'
  <2>1. /\ TypeInv' /\ (\A d \in Calls \ {c} : job'[d] = job[d]) /\ job'[c].phase = "due"
        /\ UNCHANGED <<inodes, path, torn>> /\ seen'[c] = Contents(path)
        /\ \A d \in Calls \ {c} : seen'[d] = seen[d]
    BY <1>2, PutFileStep DEF SnapshotInv
  <2>2. CallInv(c)'
    BY <2>1 DEF CallInv, Sending, Contents
  <2> QED BY <2>1, <2>2, CallStep
<1>3. ASSUME NEW c \in Calls, OpenFile(c) PROVE SnapshotInv'
  <2>1. /\ TypeInv' /\ (\A d \in Calls \ {c} : job'[d] = job[d]) /\ job[c].phase = "due"
        /\ UNCHANGED <<inodes, path, seen, torn>> /\ CallInv(c)
        /\ \/ job'[c].phase = "opening" /\ job'[c].file = path
           \/ job'[c].phase = "over"
    BY <1>3, OpenFileStep DEF SnapshotInv
  <2>2. job'[c].phase = "opening" => path # NoFile
    BY <2>1 DEF TypeInv, UploadInv
  <2>3. CallInv(c)'
    BY <2>1, <2>2 DEF CallInv, Sending
  <2> QED BY <2>1, <2>3, CallStep
<1>4. ASSUME NEW c \in Calls, StoreObject(c) PROVE SnapshotInv'
  <2>1. /\ TypeInv' /\ (\A d \in Calls \ {c} : job'[d] = job[d])
        /\ UNCHANGED <<inodes, path, seen, torn>> /\ CallInv(c)
        /\ job[c].phase = "sending" /\ job'[c].phase = job[c].phase /\ job'[c].file = job[c].file
        /\ job'[c].size = job[c].size /\ job'[c].sent = job[c].sent
    BY <1>4, StoreStep DEF SnapshotInv
  <2>2. CallInv(c)'
    BY <2>1 DEF CallInv, Sending, Snapshot, Stood
  <2> QED BY <2>1, <2>2, CallStep
<1>5. ASSUME NEW c \in Calls, Ends(c) PROVE SnapshotInv'
  <2>1. /\ TypeInv' /\ (\A d \in Calls \ {c} : job'[d] = job[d])
        /\ UNCHANGED <<inodes, path, seen, torn>> /\ CallInv(c)
        /\ job[c].phase \in {"due", "sending"} /\ job'[c].phase \in {"due", "over"}
    BY <1>5, EndStep DEF SnapshotInv
  <2>2. CallInv(c)'
    BY <2>1 DEF CallInv, Sending
  <2> QED BY <2>1, <2>2, CallStep
<1> QED BY <1>1, <1>2, <1>3, <1>4, <1>5, BeginSnapshot, SendSnapshot, ChangeSnapshot, StepsOfNext

LEMMA SnapshotInitInv == UploadInit => SnapshotInv
<1> SUFFICES ASSUME UploadInit PROVE SnapshotInv
  OBVIOUS
<1>1. \A c \in Calls : CallInv(c)
  BY DEF UploadInit, NewUpload, CallInv, Sending
<1> QED BY <1>1, TypeInitInv DEF SnapshotInv

\* The step in which a call stores is its own StoreObject, and it stores what it sent.
LEMMA StoringStep ==
  ASSUME SnapshotInv, [UploadNext]_uploadVars, NEW c \in Calls, ~job[c].stored, job'[c].stored
  PROVE  /\ Sending(c) /\ Len(job[c].sent) = job[c].size /\ object' = job[c].sent
         /\ job[c].sent \in Seq(Chunk)
<1>1. TypeInv
  BY DEF SnapshotInv
<1>2. ~(AllOver \/ UNCHANGED uploadVars)
  BY DEF AllOver, uploadVars
<1>3. ~ChangeFile
  BY <1>1, ChangeFileStep
<1>4. PICK d \in Calls :
        \/ PutFile(d) \/ StoreObject(d) \/ OpenFile(d) \/ BeginAttempt(d) \/ SendChunk(d)
        \/ Ends(d)
  BY <1>2, <1>3, StepsOfNext
<1>5. \A e \in Calls \ {d} : job'[e] = job[e]
  BY <1>1, <1>4, PutFileStep, StoreStep, OpenFileStep, BeginStep, SendStep, EndStep
<1>6. c = d
  BY <1>5
<1>7. StoreObject(c)
  BY <1>1, <1>4, <1>6, PutFileStep, OpenFileStep, BeginStep, SendStep, EndStep
<1> QED BY <1>1, <1>7, StoreStep, SendingFile DEF Sending

LEMMA StoredIsSeen ==
  ASSUME SnapshotInv, [UploadNext]_uploadVars, NEW c \in Calls,
         ~job[c].stored, job'[c].stored, ~torn[c]
  PROVE  object' \in seen[c]
<1>1. /\ Sending(c) /\ Len(job[c].sent) = job[c].size /\ object' = job[c].sent
      /\ job[c].sent \in Seq(Chunk)
  BY StoringStep
<1>2. PICK q \in seen[c] : Snapshot(q, job[c])
  BY <1>1 DEF SnapshotInv, CallInv
<1>3. q \in Seq(Chunk)
  BY DEF SnapshotInv, TypeInv
<1>4. Len(job[c].sent) = Len(q) /\ \A i \in 1..Len(job[c].sent) : job[c].sent[i] = q[i]
  BY <1>1, <1>2 DEF Snapshot
<1>5. job[c].sent = q
  BY <1>1, <1>3, <1>4, SeqEqual
<1> QED BY <1>1, <1>5

LEMMA StoredStood ==
  ASSUME SnapshotInv, [UploadNext]_uploadVars, NEW c \in Calls,
         ~job[c].stored, job'[c].stored, NEW i \in DOMAIN object'
  PROVE  \E content \in seen[c] : i \in DOMAIN content /\ content[i] = object'[i]
<1>1. Sending(c) /\ object' = job[c].sent /\ job[c].sent \in Seq(Chunk)
  BY StoringStep
<1>2. i \in 1..Len(job[c].sent)
  BY <1>1, LenProperties
<1>3. Stood(c, job[c].sent[i], i)
  BY <1>1, <1>2 DEF SnapshotInv, CallInv
<1>4. \A q \in seen[c] : DOMAIN q = 1..Len(q)
  BY LenProperties DEF SnapshotInv, TypeInv
<1> QED BY <1>1, <1>3, <1>4 DEF Stood

LEMMA SnapshotInvHolds == UploadSpec => []SnapshotInv
<1>1. SnapshotInv /\ [UploadNext]_uploadVars => SnapshotInv'
  BY SnapshotNextInv
<1> QED BY <1>1, SnapshotInitInv, PTL DEF UploadSpec

\* A call stores the file as it was at one moment since the call, through growth,
\* replacement, deletion and any number of attempts, unless the attempt that stores it was
\* torn: the file rewritten in place while it was sent, or its name gone to another file or
\* to none between fopen and FileSizeOf.
THEOREM SnapshotsAreStored == UploadSpec => StoresSnapshot
<1>1. SnapshotInv /\ [UploadNext]_uploadVars =>
        [\A c \in Calls :
           ~job[c].stored /\ job'[c].stored /\ ~torn[c] => object' \in seen[c]]_uploadVars
  BY StoredIsSeen
<1> QED BY <1>1, SnapshotInvHolds, PTL DEF UploadSpec, StoresSnapshot

\* Whatever is done to the file, each chunk of what a call stores stood at its position in
\* the file at some moment since the call.
THEOREM StoredChunksStood == UploadSpec => ChunksFromFile
<1>1. SnapshotInv /\ [UploadNext]_uploadVars =>
        [\A c \in Calls :
           ~job[c].stored /\ job'[c].stored =>
             \A i \in DOMAIN object' :
               \E content \in seen[c] : i \in DOMAIN content /\ content[i] = object'[i]]_uploadVars
  BY StoredStood
<1> QED BY <1>1, SnapshotInvHolds, PTL DEF UploadSpec, ChunksFromFile
=============================================================================
