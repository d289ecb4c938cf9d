--------------------------- MODULE DownloadProofs ---------------------------
(***************************************************************************)
(* Proofs about Download, for any number of calls, any object sizes and    *)
(* any limit of retries: the types and the order of the attempts whatever  *)
(* overlaps or is lost, and, for calls one after the other, that the part  *)
(* file is a prefix of the object and the path only names whole objects.   *)
(***************************************************************************)
EXTENDS Download, SequenceTheorems, TLAPS

Chunk == Nat \X Nat
Phases == {"idle", "due", "running", "over"}
ErrorAnswers == {"3xx", "416", "4xx", "429", "5xx"}
Answers == {"none", "200", "206"} \cup ErrorAnswers
Retries == IF MaxRetries > 0 THEN MaxRetries ELSE 0

CallState ==
  [phase : Phases, resume : BOOLEAN, attempt : 0..(Retries + 1), file : Nat,
   append : BOOLEAN, pos : Nat, offset : Nat, restarted : BOOLEAN, http : Answers,
   body : Seq(Chunk), result : Results]

\* Where a call stands: it is due only while an attempt is left, it has a file while an
\* attempt runs, and a result when it is over.
CallInv(s) ==
  /\ s.phase = "idle" => s.attempt = 0
  /\ s.phase = "due" => s.attempt <= Retries
  /\ s.phase = "running" => s.file # NoFile
  /\ s.file <= Len(inodes)
  /\ s.phase = "over" <=> s.result # "none"

\* The inductive invariant of every download.
TypeInv ==
  /\ job \in [Calls -> CallState]
  /\ inodes \in Seq(Seq(Chunk))
  /\ part \in 0..Len(inodes) /\ dest \in 0..Len(inodes)
  /\ version \in Versions
  /\ \A c \in Calls : CallInv(job[c])

-----------------------------------------------------------------------------
(***************************************************************************)
(* Objects, files and what the operations do to them.                      *)
(***************************************************************************)

\* A limit below zero allows what a limit of zero does: the first attempt.
LEMMA RetriesType == Retries \in Nat /\ MaxRetries <= Retries
BY DownloadAssumption, SMT DEF Retries

LEMMA AnswersAre ==
  /\ ErrorAnswers \subseteq Answers /\ {"none", "200", "206"} \subseteq Answers
  /\ {"416"} \cup Statuses \subseteq ErrorAnswers
BY DownloadAssumption DEF Answers, ErrorAnswers

LEMMA FunctionIsSequence ==
  ASSUME NEW S, NEW n \in Nat, NEW f \in [1..n -> S]
  PROVE  f \in Seq(S) /\ Len(f) = n
OBVIOUS

LEMMA ObjectIs ==
  ASSUME NEW v \in Versions
  PROVE  /\ Sizes[v] \in Nat
         /\ Object(v) \in Seq(Chunk) /\ Len(Object(v)) = Sizes[v]
         /\ \A i \in 1..Sizes[v] : Object(v)[i] = <<v, i>>
<1>1. Sizes[v] \in Nat /\ v \in Nat
  BY DownloadAssumption, SMT DEF Versions
<1>2. Object(v) = [i \in 1..Sizes[v] |-> <<v, i>>]
  BY DEF Object
<1>3. \A i \in 1..Sizes[v] : <<v, i>> \in Chunk
  BY <1>1 DEF Chunk
<1> QED BY <1>1, <1>2, <1>3, SMT

\* Opening for "wb" leaves an empty part file and touches no other inode.
LEMMA Truncates ==
  ASSUME inodes \in Seq(Seq(Chunk)), part \in 0..Len(inodes), OpenTruncating
  PROVE  /\ inodes' \in Seq(Seq(Chunk)) /\ Len(inodes') >= Len(inodes)
         /\ part' \in 1..Len(inodes') /\ inodes'[part'] = <<>>
         /\ part # NoFile => part' = part
         /\ \A i \in 1..Len(inodes) : i # part => inodes'[i] = inodes[i] /\ i # part'
<1>0. <<>> \in Seq(Chunk)
  OBVIOUS
<1>1. CASE part = NoFile
  <2>1. inodes' = Append(inodes, <<>>) /\ part' = Len(inodes) + 1
    BY <1>1 DEF OpenTruncating
  <2>2. /\ inodes' \in Seq(Seq(Chunk)) /\ Len(inodes') = Len(inodes) + 1
        /\ \A i \in 1..Len(inodes) : inodes'[i] = inodes[i]
        /\ inodes'[Len(inodes) + 1] = <<>>
    BY <1>0, <2>1, AppendProperties
  <2>3. Len(inodes) \in Nat
    OBVIOUS
  <2> QED BY <1>1, <2>1, <2>2, <2>3, SMT
<1>2. CASE part # NoFile
  <2>1. inodes' = [inodes EXCEPT ![part] = <<>>] /\ part' = part /\ part \in 1..Len(inodes)
    BY <1>2, SMT DEF OpenTruncating, NoFile
  <2>2. /\ inodes' \in Seq(Seq(Chunk)) /\ Len(inodes') = Len(inodes)
        /\ \A i \in 1..Len(inodes) : inodes'[i] = IF i = part THEN <<>> ELSE inodes[i]
    BY <1>0, <2>1, ExceptSeq
  <2>3. Len(inodes) \in Nat
    OBVIOUS
  <2> QED BY <1>2, <2>1, <2>2, <2>3, SMT
<1> QED BY <1>1, <1>2

\* A write keeps the file's length or lets it grow, and at its end adds the chunk.
LEMMA WrittenIs ==
  ASSUME NEW q \in Seq(Chunk), NEW s \in CallState, NEW k \in Chunk
  PROVE  /\ Written(q, s, k) \in Seq(Chunk) /\ Len(Written(q, s, k)) >= Len(q)
         /\ s.append \/ s.pos = Len(q) =>
              /\ Len(Written(q, s, k)) = Len(q) + 1
              /\ \A i \in 1..Len(q) : Written(q, s, k)[i] = q[i]
              /\ Written(q, s, k)[Len(q) + 1] = k
<1>1. s.pos \in Nat /\ Hole \in Chunk
  BY DEF CallState, Hole, Chunk
<1>2. CASE s.append
  BY <1>2, SMT DEF Written
<1>3. CASE ~s.append
  <2> DEFINE n == IF s.pos < Len(q) THEN Len(q) ELSE s.pos + 1
             f == [i \in 1..n |-> IF i = s.pos + 1 THEN k
                                  ELSE IF i <= Len(q) THEN q[i] ELSE Hole]
  <2>1. Written(q, s, k) = f
    BY <1>3 DEF Written
  <2>2. n \in Nat /\ n >= Len(q) /\ (s.pos = Len(q) => n = Len(q) + 1)
    BY <1>1, SMT
  <2>3. \A i \in 1..n : f[i] \in Chunk
    BY <1>1, <2>2, SMT
  <2>4. f \in Seq(Chunk) /\ Len(f) = n
    <3>1. f \in [1..n -> Chunk]
      BY <2>3
    <3> HIDE DEF f, n
    <3> QED BY <3>1, <2>2, FunctionIsSequence
  <2>5. s.pos = Len(q) => (\A i \in 1..Len(q) : f[i] = q[i]) /\ f[Len(q) + 1] = k
    BY <1>1, <2>2, SMT
  <2> QED BY <1>3, <2>1, <2>2, <2>4, <2>5
<1> QED BY <1>2, <1>3

\* What fclose flushes may be lost; nothing else changes.
LEMMA CloseIs ==
  ASSUME inodes \in Seq(Seq(Chunk)), NEW s, s.file \in 0..Len(inodes), CloseFile(s)
  PROVE  /\ inodes' \in Seq(Seq(Chunk)) /\ Len(inodes') = Len(inodes)
         /\ ~LossyClose => inodes' = inodes
<1>1. CASE inodes' = inodes
  BY <1>1
<1>2. CASE /\ LossyClose /\ s.file # NoFile /\ inodes[s.file] # <<>>
           /\ inodes' = [inodes EXCEPT ![s.file] = SubSeq(@, 1, Len(@) - 1)]
  <2>1. inodes[s.file] \in Seq(Chunk)
    BY <1>2, SMT DEF NoFile
  <2>2. SubSeq(inodes[s.file], 1, Len(inodes[s.file]) - 1) \in Seq(Chunk)
    BY <1>2, <2>1, SMT
  <2>3. s.file \in 1..Len(inodes)
    BY <1>2, SMT DEF NoFile
  <2> QED BY <1>2, <2>2, <2>3, ExceptSeq
<1> QED BY <1>1, <1>2 DEF CloseFile

-----------------------------------------------------------------------------
(***************************************************************************)
(* The types, whatever overlaps, is replaced or is lost.                   *)
(***************************************************************************)

\* What one call's step must show for the invariant to hold after it.
LEMMA TypeStep ==
  ASSUME TypeInv, NEW c \in Calls, NEW t \in CallState, job' = [job EXCEPT ![c] = t],
         inodes' \in Seq(Seq(Chunk)), Len(inodes') >= Len(inodes),
         part' \in 0..Len(inodes'), dest' \in 0..Len(inodes'), version' = version,
         t.phase = "idle" => t.attempt = 0,
         t.phase = "due" => t.attempt <= Retries,
         t.phase = "running" => t.file # NoFile,
         t.file <= Len(inodes'),
         t.phase = "over" <=> t.result # "none"
  PROVE  TypeInv' /\ job'[c] = t /\ \A d \in Calls \ {c} : job'[d] = job[d]
<1>1. job' \in [Calls -> CallState] /\ job'[c] = t
  BY DEF TypeInv
<1>2. \A d \in Calls \ {c} : job'[d] = job[d]
  BY DEF TypeInv
<1>3. \A d \in Calls \ {c} : job[d].file \in Nat /\ job[d].file <= Len(inodes)
  BY DEF TypeInv, CallInv, CallState
<1>4. Len(inodes) \in Nat /\ Len(inodes') \in Nat
  BY DEF TypeInv
<1>5. \A d \in Calls \ {c} : job[d].file <= Len(inodes')
  BY <1>3, <1>4, SMT
<1>6. \A d \in Calls : CallInv(job[d])'
  BY <1>1, <1>2, <1>5 DEF TypeInv, CallInv
<1> QED BY <1>1, <1>2, <1>6 DEF TypeInv

\* A call that ends.
LEMMA OverStep ==
  ASSUME TypeInv, NEW c \in Calls, NEW s \in CallState, NEW r \in Results \ {"none"},
         Over(c, s, r), inodes' \in Seq(Seq(Chunk)), Len(inodes') >= Len(inodes),
         part' \in 0..Len(inodes'), dest' \in 0..Len(inodes'), version' = version
  PROVE  /\ TypeInv' /\ job'[c].phase = "over" /\ job'[c].result = r
         /\ \A d \in Calls \ {c} : job'[d] = job[d]
<1> DEFINE t == [s EXCEPT !.phase = "over", !.file = NoFile, !.result = r]
<1>1. t \in CallState /\ t.phase = "over" /\ t.file = 0 /\ t.result # "none" /\ t.result = r
  BY DEF CallState, Phases, NoFile
<1>2. job' = [job EXCEPT ![c] = t]
  BY DEF Over
<1>3. Len(inodes') \in Nat
  OBVIOUS
<1> HIDE DEF t
<1>4. t.file <= Len(inodes')
  BY <1>1, <1>3, SMT
<1> QED BY <1>1, <1>2, <1>4, TypeStep

\* A call whose attempt failed and that waits for the next one.
LEMMA RetryStep ==
  ASSUME TypeInv, NEW c \in Calls, Running(c), CanRetry(job[c]), Retry(c, job[c]),
         inodes' \in Seq(Seq(Chunk)), Len(inodes') >= Len(inodes),
         part' \in 0..Len(inodes'), dest' = dest, version' = version
  PROVE  TypeInv' /\ job'[c].phase = "due" /\ \A d \in Calls \ {c} : job'[d] = job[d]
<1> DEFINE t == [job[c] EXCEPT !.phase = "due", !.file = NoFile]
<1>1. job[c] \in CallState /\ CallInv(job[c])
  BY DEF TypeInv
<1>2. /\ t \in CallState /\ t.phase = "due" /\ t.file = 0 /\ t.attempt = job[c].attempt
      /\ t.result = job[c].result
  BY <1>1 DEF CallState, Phases, NoFile
<1>7. t.attempt \in Nat /\ t.attempt <= MaxRetries
  BY <1>1, <1>2 DEF CanRetry, CallState
<1>8. t.attempt <= Retries
  BY <1>7, RetriesType, DownloadAssumption, SMT
<1>3. t.attempt <= Retries /\ t.result = "none"
  BY <1>1, <1>2, <1>8 DEF CallInv, Running
<1>4. job' = [job EXCEPT ![c] = t]
  BY DEF Retry
<1>5. Len(inodes') \in Nat /\ Len(inodes) \in Nat /\ dest' \in 0..Len(inodes)
  BY DEF TypeInv
<1> HIDE DEF t
<1>6. t.file <= Len(inodes') /\ dest' \in 0..Len(inodes')
  BY <1>2, <1>5, SMT
<1> QED BY <1>2, <1>3, <1>4, <1>6, TypeStep

\* The fields of a call's record when an attempt begins.
LEMMA BegunRecord ==
  ASSUME NEW r \in CallState, r.attempt + 1 \in 0..(Retries + 1), NEW s,
         s = [r EXCEPT !.phase = "running", !.attempt = @ + 1, !.restarted = FALSE,
                       !.http = "none", !.body = <<>>, !.pos = 0]
  PROVE  /\ s \in CallState /\ s.phase = "running" /\ (s.resume <=> r.resume)
         /\ s.http = "none" /\ s.pos = 0 /\ ~s.restarted /\ s.result = r.result
<1> DEFINE a == [r EXCEPT !.phase = "running", !.attempt = @ + 1]
           b == [a EXCEPT !.restarted = FALSE, !.http = "none"]
           d == [b EXCEPT !.body = <<>>, !.pos = 0]
<1>1. <<>> \in Seq(Chunk)
  OBVIOUS
<1>2. a \in CallState
  BY DEF CallState, Phases
<1>3. b \in CallState
  <2> HIDE DEF a
  <2> QED BY <1>2, AnswersAre DEF CallState
<1>4. d \in CallState
  <2> HIDE DEF b
  <2> QED BY <1>1, <1>3 DEF CallState
<1>5. s = d
  OBVIOUS
<1>6. /\ s.phase = "running" /\ (s.resume <=> r.resume)
      /\ s.http = "none" /\ s.pos = 0 /\ ~s.restarted /\ s.result = r.result
  BY DEF CallState
<1> QED BY <1>4, <1>5, <1>6

\* OpenFiles keeps the part file of a call that resumes it, and empties it for any other.
LEMMA BeginStep ==
  ASSUME TypeInv, NEW c \in Calls, BeginAttempt(c)
  PROVE  /\ TypeInv' /\ \A d \in Calls \ {c} : job'[d] = job[d]
         /\ LET s == job'[c]
            IN /\ s.phase = "running" /\ (s.resume <=> job[c].resume) /\ s.http = "none"
               /\ s.pos = 0 /\ ~s.restarted /\ s.file = part'
               /\ \/ /\ s.append /\ part # NoFile /\ Len(inodes[part]) > 0 /\ s.resume
                     /\ s.offset = Len(inodes[part]) /\ UNCHANGED <<inodes, part>>
                  \/ /\ ~s.append /\ s.offset = 0 /\ OpenTruncating
                     /\ s.resume /\ part # NoFile => inodes[part] = <<>>
<1> DEFINE s == [job[c] EXCEPT !.phase = "running", !.attempt = @ + 1, !.restarted = FALSE,
                               !.http = "none", !.body = <<>>, !.pos = 0]
<1>1. job[c] \in CallState /\ CallInv(job[c]) /\ job[c].phase = "due"
  BY DEF TypeInv, BeginAttempt
<1>2. job[c].attempt \in Nat /\ job[c].attempt + 1 \in 0..(Retries + 1)
  <2>1. job[c].attempt \in 0..(Retries + 1) /\ job[c].attempt <= Retries
    BY <1>1 DEF CallState, CallInv
  <2> QED BY <2>1, RetriesType, SMT
<1>3. /\ s \in CallState /\ s.phase = "running" /\ (s.resume <=> job[c].resume)
      /\ s.http = "none" /\ s.pos = 0 /\ ~s.restarted /\ s.result = job[c].result
  BY <1>1, <1>2, BegunRecord
<1>4. s.result = "none"
  BY <1>1, <1>3 DEF CallInv
<1>5. \/ /\ Continues(s)
         /\ job' = [job EXCEPT ![c] = [s EXCEPT !.file = part, !.append = TRUE,
                                               !.offset = PartSize]]
         /\ UNCHANGED <<inodes, part>>
      \/ /\ ~Continues(s) /\ OpenTruncating
         /\ job' = [job EXCEPT ![c] = [s EXCEPT !.file = part', !.append = FALSE,
                                               !.offset = 0]]
  BY DEF BeginAttempt
<1>6. UNCHANGED <<dest, version>>
  BY DEF BeginAttempt
<1>7. part \in 0..Len(inodes) /\ inodes \in Seq(Seq(Chunk)) /\ dest \in 0..Len(inodes)
      /\ Len(inodes) \in Nat
  BY DEF TypeInv
<1> HIDE DEF s
<1>8. CASE /\ Continues(s)
           /\ job' = [job EXCEPT ![c] = [s EXCEPT !.file = part, !.append = TRUE,
                                                 !.offset = PartSize]]
           /\ UNCHANGED <<inodes, part>>
  <2> PICK t : t = [s EXCEPT !.file = part, !.append = TRUE, !.offset = PartSize]
    OBVIOUS
  <2>1. s.resume /\ PartSize > 0
    BY <1>8 DEF Continues
  <2>2. part # NoFile /\ PartSize = Len(inodes[part])
    BY <2>1, SMT DEF PartSize
  <2>3. part \in 1..Len(inodes) /\ PartSize \in Nat /\ Len(inodes[part]) > 0
    BY <1>7, <2>1, <2>2, SMT DEF NoFile
  <2>9. part \in Nat
    BY <1>7, SMT
  <2>4. /\ t \in CallState /\ t.phase = "running" /\ t.resume /\ t.http = "none"
        /\ t.pos = 0 /\ ~t.restarted /\ t.result = "none" /\ t.file = part /\ t.append
        /\ t.offset = PartSize
    BY <1>3, <1>4, <2>1, <2>3, <2>9 DEF CallState
  <2>5. job' = [job EXCEPT ![c] = t]
    BY <1>8
  <2>6. t.file <= Len(inodes') /\ Len(inodes') >= Len(inodes) /\ t.file # NoFile
    BY <1>7, <1>8, <2>3, <2>4, SMT DEF NoFile
  <2>7. TypeInv' /\ job'[c] = t /\ \A d \in Calls \ {c} : job'[d] = job[d]
    BY <1>6, <1>7, <1>8, <2>4, <2>5, <2>6, TypeStep
  <2>8. t.resume <=> job[c].resume
    BY <1>3, <2>1, <2>4
  <2> QED BY <1>8, <2>2, <2>3, <2>4, <2>7, <2>8
<1>9. CASE /\ ~Continues(s) /\ OpenTruncating
           /\ job' = [job EXCEPT ![c] = [s EXCEPT !.file = part', !.append = FALSE,
                                                 !.offset = 0]]
  <2> PICK t : t = [s EXCEPT !.file = part', !.append = FALSE, !.offset = 0]
    OBVIOUS
  <2>1. /\ inodes' \in Seq(Seq(Chunk)) /\ Len(inodes') >= Len(inodes)
        /\ part' \in 1..Len(inodes')
    BY <1>7, <1>9, Truncates
  <2>2. part' \in Nat /\ part' # NoFile /\ part' <= Len(inodes') /\ part' \in 0..Len(inodes')
        /\ dest' \in 0..Len(inodes')
    BY <1>6, <1>7, <2>1, SMT DEF NoFile
  <2>3. /\ t \in CallState /\ t.phase = "running" /\ (t.resume <=> s.resume) /\ t.http = "none"
        /\ t.pos = 0 /\ ~t.restarted /\ t.result = "none" /\ t.file = part' /\ ~t.append
        /\ t.offset = 0
    BY <1>3, <1>4, <2>2 DEF CallState
  <2>4. job' = [job EXCEPT ![c] = t]
    BY <1>9
  <2>5. TypeInv' /\ job'[c] = t /\ \A d \in Calls \ {c} : job'[d] = job[d]
    <3>1. t.file # NoFile /\ t.file <= Len(inodes') /\ t.file \in Nat
      BY <2>2, <2>3
    <3> QED BY <1>6, <2>1, <2>2, <2>3, <2>4, <3>1, TypeStep
  <2>6. ASSUME s.resume, part # NoFile PROVE inodes[part] = <<>>
    <3>1. part \in 1..Len(inodes)
      BY <1>7, <2>6, SMT DEF NoFile
    <3>2. inodes[part] \in Seq(Chunk) /\ ~(Len(inodes[part]) > 0)
      BY <1>7, <1>9, <2>6, <3>1 DEF Continues, PartSize
    <3> QED BY <3>2, EmptySeq, SMT
  <2> QED BY <1>3, <1>9, <2>3, <2>5, <2>6
<1> QED BY <1>5, <1>8, <1>9

\* A step that leaves the files alone.
LEMMA QuietStep ==
  ASSUME TypeInv, NEW c \in Calls, NEW t \in CallState, job' = [job EXCEPT ![c] = t],
         UNCHANGED <<inodes, part, dest, version>>, t.file = job[c].file,
         t.phase = "idle" => t.attempt = 0,
         t.phase = "due" => t.attempt <= Retries,
         t.phase = "running" => t.file # NoFile,
         t.phase = "over" <=> t.result # "none"
  PROVE  TypeInv' /\ job'[c] = t /\ \A d \in Calls \ {c} : job'[d] = job[d]
<1>1. Len(inodes) \in Nat /\ inodes \in Seq(Seq(Chunk)) /\ t.file <= Len(inodes)
  BY DEF TypeInv, CallInv
<1>2. inodes' = inodes /\ part' = part /\ dest' = dest /\ version' = version
  OBVIOUS
<1>3. Len(inodes') >= Len(inodes)
  BY <1>1, <1>2, SMT
<1>4. /\ inodes' \in Seq(Seq(Chunk)) /\ t.file <= Len(inodes')
      /\ part' \in 0..Len(inodes') /\ dest' \in 0..Len(inodes')
  BY <1>1, <1>2 DEF TypeInv
<1> QED BY <1>2, <1>3, <1>4, TypeStep

LEMMA GetFileStep ==
  ASSUME TypeInv, NEW c \in Calls, NEW resume \in BOOLEAN, GetFile(c, resume)
  PROVE  /\ TypeInv' /\ \A d \in Calls \ {c} : job'[d] = job[d]
         /\ job'[c].phase = "due" /\ (job'[c].resume <=> resume)
<1> PICK t : t = [job[c] EXCEPT !.phase = "due", !.resume = resume]
  OBVIOUS
<1>1. job[c] \in CallState /\ CallInv(job[c]) /\ job[c].phase = "idle"
  BY DEF TypeInv, GetFile
<1>2. /\ t \in CallState /\ t.phase = "due" /\ (t.resume <=> resume)
      /\ t.attempt = job[c].attempt /\ t.file = job[c].file /\ t.result = job[c].result
  BY <1>1 DEF CallState, Phases
<1>3. t.attempt <= Retries /\ t.result = "none"
  BY <1>1, <1>2, RetriesType, SMT DEF CallInv
<1>4. job' = [job EXCEPT ![c] = t] /\ UNCHANGED <<inodes, part, dest, version>>
  BY <1>1 DEF GetFile, TypeInv
<1> QED BY <1>2, <1>3, <1>4, QuietStep

\* What a server may answer to the attempt of s.
Answer(s, t) ==
  \/ /\ t.http = "206" /\ s.offset > 0 /\ s.offset < Sizes[version]
     /\ t.body = SubSeq(Object(version), s.offset + 1, Sizes[version])
  \/ t.http = "200" /\ t.body = Object(version)
  \/ t.http \in ErrorAnswers /\ t.body = <<>>

LEMMA RespondStep ==
  ASSUME TypeInv, NEW c \in Calls, Respond(c)
  PROVE  /\ TypeInv' /\ \A d \in Calls \ {c} : job'[d] = job[d]
         /\ UNCHANGED <<inodes, part, dest, version>>
         /\ LET s == job[c]
                t == job'[c]
            IN /\ s.http = "none" /\ t.phase = s.phase /\ (t.resume <=> s.resume)
               /\ t.file = s.file /\ (t.append <=> s.append) /\ t.pos = s.pos
               /\ t.offset = s.offset /\ (t.restarted <=> s.restarted) /\ Answer(s, t)
<1> DEFINE o == Object(version)
           r == job[c].offset
<1>1. job[c] \in CallState /\ CallInv(job[c]) /\ Running(c) /\ job[c].http = "none"
  BY DEF TypeInv, Respond
<1>2. /\ Sizes[version] \in Nat /\ o \in Seq(Chunk) /\ Len(o) = Sizes[version]
      /\ r \in Nat
  BY <1>1, ObjectIs DEF TypeInv, CallState
<1>3. \/ /\ r > 0 /\ r < Len(o)
         /\ job' = [job EXCEPT ![c].http = "206", ![c].body = SubSeq(o, r + 1, Len(o))]
      \/ job' = [job EXCEPT ![c].http = "200", ![c].body = o]
      \/ \E http \in {"416"} \cup Statuses :
           job' = [job EXCEPT ![c].http = http, ![c].body = <<>>]
  BY DEF Respond
<1>4. PICK http \in Answers, body \in Seq(Chunk) :
        /\ job' = [job EXCEPT ![c].http = http, ![c].body = body]
        /\ \/ http = "206" /\ r > 0 /\ r < Len(o) /\ body = SubSeq(o, r + 1, Len(o))
           \/ http = "200" /\ body = o
           \/ http \in ErrorAnswers /\ body = <<>>
  <2> HIDE DEF o, r
  <2>1. SubSeq(o, r + 1, Len(o)) \in Seq(Chunk)
    BY <1>2, SMT
  <2>2. <<>> \in Seq(Chunk) /\ o \in Seq(Chunk)
    BY <1>2
  <2>3. "200" \in Answers /\ "206" \in Answers /\ ErrorAnswers \subseteq Answers
    BY AnswersAre
  <2>4. {"416"} \cup Statuses \subseteq ErrorAnswers
    BY AnswersAre
  <2>5. CASE /\ r > 0 /\ r < Len(o)
             /\ job' = [job EXCEPT ![c].http = "206", ![c].body = SubSeq(o, r + 1, Len(o))]
    BY <2>1, <2>3, <2>5
  <2>6. CASE job' = [job EXCEPT ![c].http = "200", ![c].body = o]
    BY <2>2, <2>3, <2>6
  <2>7. CASE \E http \in {"416"} \cup Statuses :
               job' = [job EXCEPT ![c].http = http, ![c].body = <<>>]
    BY <2>2, <2>3, <2>4, <2>7
  <2> QED BY <1>3, <2>5, <2>6, <2>7
<1> PICK t : t = [job[c] EXCEPT !.http = http, !.body = body]
  OBVIOUS
<1>5. /\ t \in CallState /\ t.phase = job[c].phase /\ (t.resume <=> job[c].resume)
      /\ t.file = job[c].file /\ (t.append <=> job[c].append) /\ t.pos = job[c].pos
      /\ t.offset = job[c].offset /\ (t.restarted <=> job[c].restarted)
      /\ t.http = http /\ t.body = body /\ t.result = job[c].result
  BY <1>1 DEF CallState
<1>6. job' = [job EXCEPT ![c] = t] /\ UNCHANGED <<inodes, part, dest, version>>
  BY <1>1, <1>4 DEF Respond, TypeInv
<1>7. /\ t.phase = "running" /\ t.file # NoFile /\ t.result = "none"
  BY <1>1, <1>5 DEF CallInv, Running
<1>8. TypeInv' /\ job'[c] = t /\ \A d \in Calls \ {c} : job'[d] = job[d]
  BY <1>5, <1>6, <1>7, QuietStep
<1>9. Answer(job[c], t)
  BY <1>2, <1>4, <1>5 DEF Answer
<1> QED BY <1>1, <1>5, <1>6, <1>8, <1>9

\* Of a chunk that comes first in an answer that ignored Range: the part file holds it alone.
RestartedWith(s, t) ==
  /\ t.restarted /\ t.offset = 0 /\ ~t.append /\ t.pos = 1 /\ t.file = part'
  /\ part' \in 1..Len(inodes') /\ inodes'[part'] = <<Head(s.body)>>
  /\ part # NoFile => part' = part
  /\ \A i \in 1..Len(inodes) : i # part => inodes'[i] = inodes[i] /\ i # part'

LEMMA WriteStep ==
  ASSUME TypeInv, NEW c \in Calls, WriteChunk(c)
  PROVE  /\ TypeInv' /\ \A d \in Calls \ {c} : job'[d] = job[d]
         /\ UNCHANGED <<dest, version>>
         /\ LET s == job[c]
                t == job'[c]
            IN /\ s.http \in {"200", "206"} /\ s.body # <<>> /\ t.body = Tail(s.body)
               /\ Running(c) /\ t.phase = "running" /\ t.http = s.http
               /\ (t.resume <=> s.resume)
               /\ IF IgnoredRange(s) THEN RestartedWith(s, t)
                  ELSE /\ t.offset = s.offset /\ (t.append <=> s.append) /\ t.file = s.file
                       /\ (t.restarted <=> s.restarted) /\ t.pos = s.pos + 1 /\ part' = part
                       /\ inodes' = [inodes EXCEPT ![s.file] =
                                       Written(inodes[s.file], s, Head(s.body))]
<1>1. /\ job[c] \in CallState /\ CallInv(job[c]) /\ Running(c)
      /\ job[c].http \in {"200", "206"} /\ job[c].body # <<>>
      /\ UNCHANGED <<dest, version>>
  BY DEF TypeInv, WriteChunk
<1>2. /\ Head(job[c].body) \in Chunk /\ Tail(job[c].body) \in Seq(Chunk)
      /\ <<Head(job[c].body)>> \in Seq(Chunk)
  <2>1. job[c].body \in Seq(Chunk)
    BY <1>1 DEF CallState
  <2> QED BY <1>1, <2>1, HeadTailProperties
<1>3. /\ inodes \in Seq(Seq(Chunk)) /\ Len(inodes) \in Nat /\ part \in 0..Len(inodes)
      /\ dest \in 0..Len(inodes) /\ job[c].file \in 1..Len(inodes) /\ job[c].pos \in Nat
      /\ job[c].result = "none"
  <2>1. /\ inodes \in Seq(Seq(Chunk)) /\ Len(inodes) \in Nat /\ part \in 0..Len(inodes)
        /\ dest \in 0..Len(inodes)
    BY DEF TypeInv
  <2>2. /\ job[c].file \in Nat /\ job[c].file # 0 /\ job[c].file <= Len(inodes)
        /\ job[c].pos \in Nat /\ job[c].result = "none"
    BY <1>1 DEF CallInv, CallState, NoFile, Running
  <2> QED BY <2>1, <2>2, SMT
<1>4. CASE IgnoredRange(job[c])
  <2>1. /\ part' = IF part = NoFile THEN Len(inodes) + 1 ELSE part
        /\ inodes' = IF part = NoFile THEN Append(inodes, <<Head(job[c].body)>>)
                     ELSE [inodes EXCEPT ![part] = <<Head(job[c].body)>>]
        /\ job' = [job EXCEPT ![c] = [job[c] EXCEPT !.body = Tail(job[c].body),
                      !.restarted = TRUE, !.offset = 0, !.append = FALSE, !.pos = 1,
                      !.file = part']]
    BY <1>4 DEF WriteChunk
  <2>2. /\ inodes' \in Seq(Seq(Chunk)) /\ Len(inodes') >= Len(inodes)
        /\ part' \in 1..Len(inodes') /\ inodes'[part'] = <<Head(job[c].body)>>
        /\ part # NoFile => part' = part
        /\ \A i \in 1..Len(inodes) : i # part => inodes'[i] = inodes[i] /\ i # part'
    <3> DEFINE q == <<Head(job[c].body)>>
    <3> HIDE DEF q
    <3>0. q \in Seq(Chunk)
      BY <1>2 DEF q
    <3>1. CASE part = NoFile
      <4>1. inodes' = Append(inodes, q) /\ part' = Len(inodes) + 1
        BY <2>1, <3>1 DEF q
      <4>2. /\ inodes' \in Seq(Seq(Chunk)) /\ Len(inodes') = Len(inodes) + 1
            /\ \A i \in 1..Len(inodes) : inodes'[i] = inodes[i]
            /\ inodes'[Len(inodes) + 1] = q
        BY <1>3, <3>0, <4>1, AppendProperties
      <4> QED BY <1>3, <3>1, <4>1, <4>2, SMT DEF q
    <3>2. CASE part # NoFile
      <4>1. inodes' = [inodes EXCEPT ![part] = q] /\ part' = part /\ part \in 1..Len(inodes)
        BY <1>3, <2>1, <3>2, SMT DEF q, NoFile
      <4>2. /\ inodes' \in Seq(Seq(Chunk)) /\ Len(inodes') = Len(inodes)
            /\ \A i \in 1..Len(inodes) : inodes'[i] = IF i = part THEN q ELSE inodes[i]
        BY <1>3, <3>0, <4>1, ExceptSeq
      <4> QED BY <1>3, <3>2, <4>1, <4>2, SMT DEF q
    <3> QED BY <3>1, <3>2
  <2> PICK b : b = [job[c] EXCEPT !.body = Tail(job[c].body)]
    OBVIOUS
  <2> PICK a : a = [b EXCEPT !.restarted = TRUE, !.offset = 0]
    OBVIOUS
  <2>11. /\ b \in CallState /\ b.body = Tail(job[c].body)
         /\ b.phase = "running" /\ b.http = job[c].http /\ (b.resume <=> job[c].resume)
         /\ b.result = "none"
    <3>1. b \in CallState
      BY <1>1, <1>2 DEF CallState
    <3>2. b.body = Tail(job[c].body) /\ b.phase = "running" /\ b.http = job[c].http
      BY <1>1 DEF CallState, Running
    <3>3. b.resume <=> job[c].resume
      BY <1>1 DEF CallState
    <3>4. b.result = "none"
      BY <1>1, <1>3 DEF CallState
    <3> QED BY <3>1, <3>2, <3>3, <3>4
  <2> PICK t : t = [a EXCEPT !.append = FALSE, !.pos = 1, !.file = part']
    OBVIOUS
  <2>3. /\ a \in CallState /\ a.body = Tail(job[c].body) /\ a.restarted /\ a.offset = 0
        /\ a.phase = "running" /\ a.http = job[c].http /\ (a.resume <=> job[c].resume)
        /\ a.result = "none"
    BY <2>11 DEF CallState
  <2>4. part' \in Nat /\ part' # NoFile /\ part' \in 0..Len(inodes') /\ part' <= Len(inodes')
    BY <2>2, SMT DEF NoFile
  <2>5. /\ t \in CallState /\ t.body = Tail(job[c].body) /\ t.restarted /\ t.offset = 0
        /\ t.phase = "running" /\ t.http = job[c].http /\ (t.resume <=> job[c].resume)
        /\ t.result = "none" /\ ~t.append /\ t.pos = 1 /\ t.file = part'
    BY <2>3, <2>4, ZenonT(30) DEF CallState
  <2>6. job' = [job EXCEPT ![c] = t]
    BY <2>1
  <2>7. dest' \in 0..Len(inodes') /\ version' = version
    BY <1>1, <1>3, <2>2, SMT
  <2>8. t.file # NoFile /\ t.file <= Len(inodes')
    BY <2>4, <2>5
  <2>9. TypeInv' /\ job'[c] = t /\ \A d \in Calls \ {c} : job'[d] = job[d]
    BY <2>2, <2>4, <2>5, <2>6, <2>7, <2>8, TypeStep, ZenonT(30)
  <2>10. RestartedWith(job[c], t)
    BY <2>2, <2>5 DEF RestartedWith
  <2> QED BY <1>1, <1>4, <2>5, <2>9, <2>10
<1>5. CASE ~IgnoredRange(job[c])
  <2> DEFINE w == Written(inodes[job[c].file], job[c], Head(job[c].body))
  <2>1. /\ inodes' = [inodes EXCEPT ![job[c].file] = w] /\ part' = part
        /\ job' = [job EXCEPT ![c] = [job[c] EXCEPT !.body = Tail(job[c].body),
                                                    !.pos = job[c].pos + 1]]
    BY <1>5 DEF WriteChunk
  <2>2. inodes[job[c].file] \in Seq(Chunk)
    BY <1>3
  <2>3. w \in Seq(Chunk)
    BY <1>1, <1>2, <2>2, WrittenIs
  <2> HIDE DEF w
  <2>4. inodes' \in Seq(Seq(Chunk)) /\ Len(inodes') = Len(inodes)
    BY <1>3, <2>1, <2>3, ExceptSeq
  <2> PICK n \in Nat : n = job[c].pos + 1
    BY <1>3
  <2> PICK body \in Seq(Chunk) : body = Tail(job[c].body)
    BY <1>2
  <2> PICK s \in CallState : s = job[c]
    BY <1>1
  <2> PICK t : t = [s EXCEPT !.body = body, !.pos = n]
    OBVIOUS
  <2>9. /\ t \in CallState /\ t.body = body /\ t.pos = n /\ t.phase = s.phase
        /\ t.http = s.http /\ (t.resume <=> s.resume) /\ t.result = s.result
        /\ t.offset = s.offset /\ (t.append <=> s.append) /\ t.file = s.file
        /\ (t.restarted <=> s.restarted)
    BY DEF CallState
  <2>5. /\ t \in CallState /\ t.body = Tail(job[c].body) /\ t.pos = job[c].pos + 1
        /\ t.phase = "running" /\ t.http = job[c].http /\ (t.resume <=> job[c].resume)
        /\ t.result = "none" /\ t.offset = job[c].offset /\ (t.append <=> job[c].append)
        /\ t.file = job[c].file /\ (t.restarted <=> job[c].restarted)
    BY <1>1, <1>3, <2>9 DEF Running
  <2>6. job' = [job EXCEPT ![c] = t]
    BY <2>1
  <2>7. /\ Len(inodes') >= Len(inodes) /\ t.file # NoFile /\ t.file <= Len(inodes')
        /\ part' \in 0..Len(inodes') /\ dest' \in 0..Len(inodes') /\ version' = version
    BY <1>1, <1>3, <2>1, <2>4, <2>5, SMT DEF NoFile
  <2>8. TypeInv' /\ job'[c] = t /\ \A d \in Calls \ {c} : job'[d] = job[d]
    BY <2>4, <2>5, <2>6, <2>7, TypeStep
  <2> QED BY <1>1, <1>5, <2>1, <2>5, <2>8 DEF w
<1> QED BY <1>4, <1>5

\* Clearing m_resumeOffset keeps the types.
LEMMA RestartedType ==
  ASSUME NEW s \in CallState
  PROVE  Restarted(s) \in CallState
BY DEF Restarted, CallState

\* The end of an attempt leaves the files as they are, but for what the close loses and the
\* name a client error removes.
Ends(c) == OpenFails(c) \/ TransportFails(c) \/ WriteFails(c) \/ HttpFails(c) \/ Cancel(c)

LEMMA EndStep ==
  ASSUME TypeInv, NEW c \in Calls, Ends(c)
  PROVE  /\ TypeInv' /\ \A d \in Calls \ {c} : job'[d] = job[d]
         /\ job[c].phase \in {"due", "running"} /\ job'[c].phase \in {"due", "over"}
         /\ job'[c].result # "Ok"
         /\ UNCHANGED <<dest, version>> /\ part' \in {part, NoFile}
         /\ ~LossyClose => inodes' = inodes
<1>1. /\ job[c] \in CallState /\ inodes \in Seq(Seq(Chunk)) /\ Len(inodes) \in Nat
      /\ part \in 0..Len(inodes) /\ dest \in 0..Len(inodes) /\ 0 \in 0..Len(inodes)
      /\ job[c].file \in 0..Len(inodes)
  <2>1. /\ job[c] \in CallState /\ inodes \in Seq(Seq(Chunk)) /\ Len(inodes) \in Nat
        /\ part \in 0..Len(inodes) /\ dest \in 0..Len(inodes) /\ job[c].file <= Len(inodes)
    BY DEF TypeInv, CallInv
  <2>2. job[c].file \in Nat
    BY <2>1 DEF CallState
  <2> QED BY <2>1, <2>2, SMT
<1>2. ASSUME /\ UNCHANGED inodes \/ CloseFile(job[c])
             /\ UNCHANGED <<dest, version>> /\ part' \in {part, NoFile}
      PROVE  /\ inodes' \in Seq(Seq(Chunk)) /\ Len(inodes') >= Len(inodes)
             /\ part' \in 0..Len(inodes') /\ dest' \in 0..Len(inodes') /\ version' = version
             /\ dest' = dest /\ (~LossyClose => inodes' = inodes)
  <2>1. CASE UNCHANGED inodes
    BY <1>1, <1>2, <2>1, SMT DEF NoFile
  <2>2. CASE CloseFile(job[c])
    <3>1. /\ inodes' \in Seq(Seq(Chunk)) /\ Len(inodes') = Len(inodes)
          /\ ~LossyClose => inodes' = inodes
      BY <1>1, <2>2, CloseIs
    <3> QED BY <1>1, <1>2, <3>1, SMT DEF NoFile
  <2> QED BY <1>2, <2>1, <2>2
<1>3. CASE OpenFails(c)
  <2> PICK s : s = [job[c] EXCEPT !.attempt = @ + 1]
    OBVIOUS
  <2>1. job[c].attempt + 1 \in 0..(Retries + 1) /\ job[c].phase = "due"
    <3>1. /\ job[c].phase = "due" /\ job[c].attempt <= Retries
          /\ job[c].attempt \in 0..(Retries + 1)
      BY <1>1, <1>3 DEF OpenFails, TypeInv, CallInv, CallState
    <3> QED BY <3>1, RetriesType, SMT
  <2>2. s \in CallState
    BY <1>1, <2>1 DEF CallState
  <2>3. Over(c, s, "IoError") /\ UNCHANGED <<inodes, part, dest, version>>
    BY <1>3 DEF OpenFails
  <2>4. "IoError" \in Results \ {"none"}
    BY DEF Results
  <2>5. /\ TypeInv' /\ job'[c].phase = "over" /\ job'[c].result = "IoError"
        /\ \A d \in Calls \ {c} : job'[d] = job[d]
    BY <1>2, <2>2, <2>3, <2>4, OverStep
  <2> QED BY <2>1, <2>3, <2>5
<1>4. ASSUME NEW r \in Results \ {"none", "Ok"}, Over(c, job[c], r),
             UNCHANGED inodes \/ CloseFile(job[c]),
             UNCHANGED <<dest, version>>, part' \in {part, NoFile}
      PROVE  /\ TypeInv' /\ job'[c].phase = "over" /\ \A d \in Calls \ {c} : job'[d] = job[d]
             /\ job'[c].result # "Ok"
             /\ ~LossyClose => inodes' = inodes
  BY <1>1, <1>2, <1>4, OverStep
<1>5. ASSUME Running(c), CanRetry(job[c]), Retry(c, job[c]), CloseFile(job[c]),
             UNCHANGED <<part, dest, version>>
      PROVE  /\ TypeInv' /\ job'[c].phase = "due" /\ \A d \in Calls \ {c} : job'[d] = job[d]
             /\ job'[c].result # "Ok"
             /\ ~LossyClose => inodes' = inodes
  <2>1. /\ TypeInv' /\ job'[c].phase = "due" /\ \A d \in Calls \ {c} : job'[d] = job[d]
        /\ ~LossyClose => inodes' = inodes
    BY <1>1, <1>2, <1>5, RetryStep
  <2>2. job'[c].result = "none"
    BY <2>1 DEF TypeInv, CallInv
  <2> QED BY <2>1, <2>2
<1>6. {"NetworkError", "IoError", "HttpError", "Cancelled"} \subseteq Results \ {"none", "Ok"}
  BY DEF Results
<1>7. CASE TransportFails(c)
  BY <1>4, <1>5, <1>6, <1>7 DEF TransportFails, Running
<1>8. CASE WriteFails(c)
  <2>1. /\ Over(c, Restarted(job[c]), "IoError") /\ CloseFile(job[c]) /\ Running(c)
        /\ UNCHANGED <<part, dest, version>>
    BY <1>8 DEF WriteFails
  <2>2. Restarted(job[c]) \in CallState
    BY <1>1, RestartedType
  <2>3. "IoError" \in Results \ {"none"}
    BY DEF Results
  <2> QED BY <1>2, <2>1, <2>2, <2>3, OverStep DEF Running
<1>9. CASE HttpFails(c)
  BY <1>4, <1>5, <1>6, <1>9 DEF HttpFails, Running
<1>10. CASE Cancel(c)
  BY <1>4, <1>6, <1>10 DEF Cancel
<1> QED BY <1>3, <1>7, <1>8, <1>9, <1>10 DEF Ends

\* A restart that empties the part file and then cannot write to it.
LEMMA RestartFailsStep ==
  ASSUME TypeInv, NEW c \in Calls, RestartFails(c)
  PROVE  /\ TypeInv' /\ \A d \in Calls \ {c} : job'[d] = job[d]
         /\ Running(c) /\ IgnoredRange(job[c]) /\ OpenTruncating
         /\ job'[c].phase = "over" /\ job'[c].result = "IoError" /\ UNCHANGED <<dest, version>>
<1>1. /\ job[c] \in CallState /\ inodes \in Seq(Seq(Chunk)) /\ Len(inodes) \in Nat
      /\ part \in 0..Len(inodes) /\ dest \in 0..Len(inodes)
  BY DEF TypeInv
<1>2. /\ Running(c) /\ IgnoredRange(job[c]) /\ OpenTruncating
      /\ Over(c, Restarted(job[c]), "IoError") /\ UNCHANGED <<dest, version>>
  BY DEF RestartFails
<1>3. /\ inodes' \in Seq(Seq(Chunk)) /\ Len(inodes') >= Len(inodes)
      /\ part' \in 1..Len(inodes')
  BY <1>1, <1>2, Truncates
<1>4. part' \in 0..Len(inodes') /\ dest' \in 0..Len(inodes')
  BY <1>1, <1>2, <1>3, SMT
<1>5. Restarted(job[c]) \in CallState /\ "IoError" \in Results \ {"none"}
  BY <1>1, RestartedType DEF Results
<1> QED BY <1>2, <1>3, <1>4, <1>5, OverStep

LEMMA FinalizeStep ==
  ASSUME TypeInv, NEW c \in Calls, Finalize(c)
  PROVE  /\ TypeInv' /\ \A d \in Calls \ {c} : job'[d] = job[d]
         /\ Running(c) /\ job'[c].phase = "over" /\ version' = version
         /\ job[c].http \in {"200", "206"} /\ job[c].body = <<>>
         /\ \/ part # NoFile /\ dest' = part /\ part' = NoFile
            \/ UNCHANGED <<part, dest>>
         /\ ~LossyClose => inodes' = inodes
<1>1. /\ job[c] \in CallState /\ inodes \in Seq(Seq(Chunk)) /\ Len(inodes) \in Nat
      /\ part \in 0..Len(inodes) /\ dest \in 0..Len(inodes) /\ job[c].file \in 0..Len(inodes)
  <2>1. /\ job[c] \in CallState /\ inodes \in Seq(Seq(Chunk)) /\ Len(inodes) \in Nat
        /\ part \in 0..Len(inodes) /\ dest \in 0..Len(inodes) /\ job[c].file <= Len(inodes)
    BY DEF TypeInv, CallInv
  <2>2. job[c].file \in Nat
    BY <2>1 DEF CallState
  <2> QED BY <2>1, <2>2, SMT
<1>2. /\ inodes' \in Seq(Seq(Chunk)) /\ Len(inodes') = Len(inodes)
      /\ ~LossyClose => inodes' = inodes
  BY <1>1, CloseIs DEF Finalize
<1>3. PICK r \in {"Ok", "IoError"} :
        /\ Over(c, job[c], r)
        /\ \/ part # NoFile /\ dest' = part /\ part' = NoFile
           \/ UNCHANGED <<part, dest>>
  BY DEF Finalize
<1>4. /\ Len(inodes') >= Len(inodes) /\ part' \in 0..Len(inodes') /\ dest' \in 0..Len(inodes')
  BY <1>1, <1>2, <1>3, SMT DEF NoFile
<1>5. r \in Results \ {"none"}
  BY DEF Results
<1>6. Running(c) /\ version' = version /\ job[c].http \in {"200", "206"} /\ job[c].body = <<>>
  BY DEF Finalize
<1>7. TypeInv' /\ job'[c].phase = "over" /\ \A d \in Calls \ {c} : job'[d] = job[d]
  BY <1>1, <1>2, <1>3, <1>4, <1>5, <1>6, OverStep
<1> QED BY <1>2, <1>3, <1>6, <1>7

\* The steps of a call, as the proofs about them go.
LEMMA StepsOfNext ==
  ASSUME DownloadNext
  PROVE  \/ Overwrite \/ AllOver
         \/ \E c \in Calls :
              \/ \E resume \in BOOLEAN : GetFile(c, resume)
              \/ BeginAttempt(c) \/ Respond(c) \/ WriteChunk(c) \/ Ends(c)
              \/ RestartFails(c) \/ Finalize(c)
BY DEF DownloadNext, Ends

LEMMA TypeInitInv == DownloadInit => TypeInv
<1> SUFFICES ASSUME DownloadInit PROVE TypeInv
  OBVIOUS
<1>1. <<>> \in Seq(Chunk) /\ <<>> \in Seq(Seq(Chunk)) /\ Len(<<>>) = 0
  OBVIOUS
<1>2. 0 \in 0..(Retries + 1) /\ 1 \in Versions
  BY DownloadAssumption, RetriesType, SMT DEF Versions
<1>3. NewCall \in CallState
  BY <1>1, <1>2, AnswersAre DEF NewCall, CallState, Phases, Results, NoFile
<1>4. CallInv(NewCall)
  BY <1>1, SMT DEF DownloadInit, NewCall, CallInv, NoFile
<1>5. \A c \in Calls : job[c] = NewCall
  BY DEF DownloadInit
<1> QED BY <1>1, <1>2, <1>3, <1>4, <1>5 DEF DownloadInit, TypeInv, NoFile

LEMMA TypeNextInv == TypeInv /\ [DownloadNext]_downloadVars => TypeInv'
<1> SUFFICES ASSUME TypeInv, [DownloadNext]_downloadVars PROVE TypeInv'
  OBVIOUS
<1>1. CASE Overwrite
  BY <1>1 DEF Overwrite, TypeInv, CallInv
<1>2. CASE AllOver \/ UNCHANGED downloadVars
  BY <1>2 DEF AllOver, downloadVars, TypeInv, CallInv
<1>3. ASSUME NEW c \in Calls,
             \/ \E resume \in BOOLEAN : GetFile(c, resume)
             \/ BeginAttempt(c) \/ Respond(c) \/ WriteChunk(c) \/ Ends(c)
             \/ RestartFails(c) \/ Finalize(c)
      PROVE  TypeInv'
  BY <1>3, GetFileStep, BeginStep, RespondStep, WriteStep, EndStep, RestartFailsStep,
     FinalizeStep
<1> QED BY <1>1, <1>2, <1>3, StepsOfNext

\* The order of every call's attempts and their number, and the types, whatever overlaps.
THEOREM DownloadTypes == DownloadSpec => []DownloadTypeOK
<1>1. DownloadInit => TypeInv
  BY TypeInitInv
<1>2. TypeInv /\ [DownloadNext]_downloadVars => TypeInv'
  BY TypeNextInv
<1>3. TypeInv => DownloadTypeOK
  <2> SUFFICES ASSUME TypeInv PROVE DownloadTypeOK
    OBVIOUS
  <2>1. ASSUME NEW c \in Calls
        PROVE  /\ job[c].phase \in {"idle", "due", "running", "over"}
               /\ job[c].attempt \in 0..(1 + Retries)
               /\ job[c].file \in 0..Len(inodes) /\ job[c].offset \in Nat /\ job[c].pos \in Nat
               /\ job[c].result \in Results
               /\ job[c].phase = "over" <=> job[c].result # "none"
    <3>1. job[c] \in CallState /\ CallInv(job[c]) /\ Len(inodes) \in Nat
      BY DEF TypeInv
    <3>3. job[c].attempt \in 0..(1 + Retries)
      <4>1. job[c].attempt \in 0..(Retries + 1)
        BY <3>1 DEF CallState
      <4> QED BY <4>1, RetriesType, SMT
    <3>2. job[c].file \in 0..Len(inodes)
      BY <3>1, SMT DEF CallState, CallInv
    <3> QED BY <3>1, <3>2, <3>3 DEF CallState, CallInv, Phases
  <2> QED BY <2>1 DEF DownloadTypeOK, TypeInv, Retries
<1> QED BY <1>1, <1>2, <1>3, PTL DEF DownloadSpec

-----------------------------------------------------------------------------
(***************************************************************************)
(* What takes bytes from the part file, whatever overlaps.                 *)
(***************************************************************************)

LEMMA RestartFailsOver ==
  ASSUME TypeInv, NEW c \in Calls, RestartFails(c)
  PROVE  job'[c].restarted
<1>1. job[c] \in CallState /\ IgnoredRange(job[c])
  BY DEF TypeInv, RestartFails
<1> PICK s : s = Restarted(job[c])
  OBVIOUS
<1>2. s \in CallState /\ s.restarted
  BY <1>1 DEF Restarted, CallState
<1>3. job' = [job EXCEPT ![c] = [s EXCEPT !.phase = "over", !.file = NoFile,
                                         !.result = "IoError"]]
  BY DEF RestartFails, Over
<1> QED BY <1>2, <1>3 DEF TypeInv, CallState

LEMMA KeepsBytes ==
  ASSUME ~LossyClose, TypeInv, [DownloadNext]_downloadVars,
         ~\E c \in Calls : StartsOver(c), part # NoFile, part' = part
  PROVE  Len(inodes'[part]) >= Len(inodes[part])
<1>1. part \in 1..Len(inodes) /\ inodes \in Seq(Seq(Chunk))
  <2>1. part \in 0..Len(inodes) /\ inodes \in Seq(Seq(Chunk)) /\ Len(inodes) \in Nat
    BY DEF TypeInv
  <2> QED BY <2>1, SMT DEF NoFile
<1>2. inodes[part] \in Seq(Chunk) /\ Len(inodes[part]) \in Nat
  BY <1>1, ElementOfSeq, LenProperties
<1>3. CASE inodes' = inodes
  BY <1>2, <1>3, SMT
<1>4. CASE Overwrite \/ AllOver \/ UNCHANGED downloadVars
  BY <1>3, <1>4 DEF Overwrite, AllOver, downloadVars
<1>5. ASSUME NEW c \in Calls, NEW resume \in BOOLEAN, GetFile(c, resume)
      PROVE  Len(inodes'[part]) >= Len(inodes[part])
  BY <1>3, <1>5 DEF GetFile
<1>6. ASSUME NEW c \in Calls, BeginAttempt(c)
      PROVE  Len(inodes'[part]) >= Len(inodes[part])
  <2>1. job[c].resume
    <3>1. job[c].phase = "due" /\ job'[c].phase = "running"
      BY <1>6, BeginStep DEF BeginAttempt
    <3> QED BY <3>1 DEF StartsOver
  <2>2. CASE UNCHANGED <<inodes, part>>
    BY <1>3, <2>2
  <2>3. CASE /\ OpenTruncating
             /\ job'[c].resume /\ part # NoFile => inodes[part] = <<>>
    <3>1. job'[c].resume
      BY <1>6, <2>1, BeginStep
    <3>2. inodes[part] = <<>>
      BY <2>3, <3>1
    <3>3. inodes'[part] = <<>>
      BY <1>1, <2>3, Truncates DEF TypeInv
    <3> QED BY <1>2, <3>2, <3>3
  <2> QED BY <1>6, <2>2, <2>3, BeginStep
<1>7. ASSUME NEW c \in Calls, Respond(c)
      PROVE  Len(inodes'[part]) >= Len(inodes[part])
  BY <1>3, <1>7, RespondStep
<1>8. ASSUME NEW c \in Calls, WriteChunk(c)
      PROVE  Len(inodes'[part]) >= Len(inodes[part])
  <2>1. ~IgnoredRange(job[c]) /\ job[c] \in CallState /\ CallInv(job[c]) /\ Running(c)
    <3>1. IgnoredRange(job[c]) => job'[c].restarted
      BY <1>8, WriteStep DEF RestartedWith
    <3> QED BY <1>8, <3>1 DEF StartsOver, WriteChunk, TypeInv
  <2>2. /\ job[c].http \in {"200", "206"} /\ job[c].body # <<>> /\ job[c].body \in Seq(Chunk)
        /\ inodes' = [inodes EXCEPT ![job[c].file] =
                        Written(inodes[job[c].file], job[c], Head(job[c].body))]
    BY <1>8, <2>1 DEF WriteChunk, CallState
  <2> DEFINE w == Written(inodes[job[c].file], job[c], Head(job[c].body))
  <2>3. job[c].file \in 1..Len(inodes)
    <3>1. /\ Len(inodes) \in Nat /\ job[c].file \in Nat
          /\ job[c].file # 0 /\ job[c].file <= Len(inodes)
      BY <1>1, <2>1 DEF CallInv, CallState, Running, NoFile
    <3> QED BY <3>1, SMT
  <2>4. inodes[job[c].file] \in Seq(Chunk) /\ Head(job[c].body) \in Chunk
    BY <1>1, <2>2, <2>3, ElementOfSeq, HeadTailProperties
  <2>5. w \in Seq(Chunk) /\ Len(w) >= Len(inodes[job[c].file])
    BY <2>1, <2>4, WrittenIs
  <2>6. inodes'[part] = IF part = job[c].file THEN w ELSE inodes[part]
    <3> HIDE DEF w
    <3>1. inodes' = [inodes EXCEPT ![job[c].file] = w]
      BY <2>2 DEF w
    <3> QED BY <1>1, <2>3, <2>5, <3>1, ExceptSeq
  <2> QED BY <1>2, <2>5, <2>6, SMT
<1>9. ASSUME NEW c \in Calls, Ends(c) \/ Finalize(c)
      PROVE  Len(inodes'[part]) >= Len(inodes[part])
  BY <1>3, <1>9, EndStep, FinalizeStep
<1>10. ASSUME NEW c \in Calls, RestartFails(c)
       PROVE  Len(inodes'[part]) >= Len(inodes[part])
  <2>1. IgnoredRange(job[c]) /\ job[c] \in CallState
    BY <1>10 DEF RestartFails, TypeInv
  <2>2. job'[c].restarted
    BY <1>10, <2>1, RestartFailsOver
  <2> QED BY <2>1, <2>2 DEF StartsOver
<1> QED BY <1>4, <1>5, <1>6, <1>7, <1>8, <1>9, <1>10, StepsOfNext

\* Where closing loses nothing, only an attempt of a call made without resume and an answer
\* that ignored Range take bytes from the part file under its name: a retry of a call made
\* with resume keeps what was stored, however many calls write to the file at once.
THEOREM OnlyStartingOver == ~LossyClose /\ DownloadSpec => OnlyStartingOverShrinks
<1> SUFFICES ASSUME ~LossyClose PROVE DownloadSpec => OnlyStartingOverShrinks
  OBVIOUS
<1>1. DownloadInit => TypeInv
  BY TypeInitInv
<1>2. TypeInv /\ [DownloadNext]_downloadVars => TypeInv'
  BY TypeNextInv
<1>3. TypeInv /\ [DownloadNext]_downloadVars
        => [part # NoFile /\ part' = part /\ Len(inodes'[part]) < Len(inodes[part]) =>
              \E c \in Calls : StartsOver(c)]_downloadVars
  <2> SUFFICES ASSUME TypeInv, [DownloadNext]_downloadVars, part # NoFile, part' = part,
                      Len(inodes'[part]) < Len(inodes[part]),
                      ~\E c \in Calls : StartsOver(c)
               PROVE  FALSE
    OBVIOUS
  <2>1. Len(inodes'[part]) >= Len(inodes[part])
    BY KeepsBytes
  <2>2. Len(inodes'[part]) \in Nat /\ Len(inodes[part]) \in Nat
    <3>1. part \in 1..Len(inodes) /\ part \in 1..Len(inodes')
      BY TypeNextInv, SMT DEF TypeInv, NoFile
    <3>2. inodes \in Seq(Seq(Chunk)) /\ inodes' \in Seq(Seq(Chunk))
      BY TypeNextInv DEF TypeInv
    <3> QED BY <3>1, <3>2, ElementOfSeq, LenProperties
  <2> QED BY <2>1, <2>2, SMT
<1> QED BY <1>1, <1>2, <1>3, PTL DEF DownloadSpec, OnlyStartingOverShrinks

-----------------------------------------------------------------------------
(***************************************************************************)
(* Calls one after the other, of an object that is not replaced while a    *)
(* part file of it is left, on a disk that keeps what fclose flushes.      *)
(***************************************************************************)

Undisturbed == ~Overlap /\ ~StaleParts /\ ~LossyClose

Active(c) == job[c].phase \in {"due", "running"}

\* A file that holds the beginning of version v, and a body that holds its chunks after the nth.
Begins(q, v) == Len(q) <= Sizes[v] /\ \A i \in 1..Len(q) : q[i] = <<v, i>>
Continued(b, n, v) == Len(b) = Sizes[v] - n /\ \A i \in 1..Len(b) : b[i] = <<v, n + i>>

\* An attempt writes to the part file.  Until the answer, it is as the open left it; an answer
\* that ignored Range still has the whole object to come; and what is left of any other 2xx
\* fits at the end of the file, where the next write goes.  The offset is where the answer
\* begins, within the file.
AttemptInv(s) ==
  /\ s.file = part /\ part # NoFile
  /\ s.http = "none" =>
       /\ ~s.restarted
       /\ IF s.append THEN s.offset > 0 /\ s.offset = Len(inodes[part])
          ELSE s.offset = 0 /\ s.pos = 0 /\ inodes[part] = <<>>
  /\ s.http \in {"200", "206"} =>
       IF IgnoredRange(s)
       THEN /\ s.body # <<>> /\ Continued(s.body, 0, version)
            /\ s.offset = Len(inodes[part])
       ELSE /\ s.append \/ s.pos = Len(inodes[part])
            /\ Continued(s.body, Len(inodes[part]), version)
  /\ s.offset <= Len(inodes[part])
  /\ s.http = "200" => s.offset = 0 \/ IgnoredRange(s)
  /\ s.http = "206" => s.offset > 0 /\ s.offset < Sizes[version]

PartInv == part # NoFile => Begins(inodes[part], version)
DestInv == dest # NoFile => dest # part /\ \E v \in Versions : inodes[dest] = Object(v)

\* The inductive invariant of undisturbed downloads.
DownloadInv ==
  /\ TypeInv
  /\ \A c, d \in Calls : Active(c) /\ Active(d) => c = d
  /\ \A c \in Calls : Running(c) => AttemptInv(job[c])
  /\ PartInv /\ DestInv

-----------------------------------------------------------------------------
LEMMA PartIsInode ==
  ASSUME TypeInv, part # NoFile
  PROVE  /\ part \in 1..Len(inodes) /\ inodes[part] \in Seq(Chunk)
         /\ Len(inodes[part]) \in Nat
<1>1. part \in 0..Len(inodes) /\ inodes \in Seq(Seq(Chunk)) /\ Len(inodes) \in Nat
  BY DEF TypeInv
<1>2. part \in 1..Len(inodes)
  BY <1>1, SMT DEF NoFile
<1> QED BY <1>1, <1>2, ElementOfSeq, LenProperties

\* What is left of a version once it is all there is the version.
LEMMA WholeIs ==
  ASSUME NEW v \in Versions, NEW q \in Seq(Chunk), Begins(q, v), Continued(<<>>, Len(q), v)
  PROVE  q = Object(v)
<1>1. Sizes[v] \in Nat /\ Len(q) \in Nat /\ Len(<<>>) = 0
  BY ObjectIs
<1>2. Len(q) = Sizes[v]
  BY <1>1, SMT DEF Continued
<1>3. Object(v) \in Seq(Chunk) /\ Len(Object(v)) = Len(q)
  BY <1>2, ObjectIs
<1>4. \A i \in 1..Len(q) : q[i] = Object(v)[i]
  BY <1>2, ObjectIs DEF Begins
<1> QED BY <1>3, <1>4, SeqEqual

\* A call's step: no other call is active, and its part file and attempt are in order after it.
LEMMA CallStep ==
  ASSUME DownloadInv, TypeInv', NEW c \in Calls, \A d \in Calls \ {c} : job'[d] = job[d],
         \A d \in Calls \ {c} : ~Active(d),
         Running(c)' => AttemptInv(job[c])', PartInv', DestInv'
  PROVE  DownloadInv'
<1>1. \A d \in Calls \ {c} : ~Active(d)' /\ ~Running(d)'
  BY DEF Active, Running
<1>2. \A d \in Calls : Running(d)' => AttemptInv(job[d])'
  BY <1>1
<1> QED BY <1>1, <1>2 DEF DownloadInv

LEMMA Alone ==
  ASSUME DownloadInv, NEW c \in Calls, Active(c)
  PROVE  \A d \in Calls \ {c} : ~Active(d)
BY DEF DownloadInv

LEMMA DestKept ==
  ASSUME TypeInv, DestInv, dest' = dest,
         \A i \in 1..Len(inodes) : i # part => inodes'[i] = inodes[i] /\ i # part'
  PROVE  DestInv'
<1> SUFFICES ASSUME dest # NoFile
             PROVE  dest # part' /\ \E v \in Versions : inodes'[dest] = Object(v)
  BY DEF DestInv
<1>1. dest \in 0..Len(inodes) /\ Len(inodes) \in Nat
  BY DEF TypeInv
<1>2. dest \in 1..Len(inodes) /\ dest # part
  BY <1>1, SMT DEF NoFile, DestInv
<1> QED BY <1>2 DEF DestInv

LEMMA GetFileInv ==
  ASSUME Undisturbed, DownloadInv, NEW c \in Calls, NEW resume \in BOOLEAN, GetFile(c, resume)
  PROVE  DownloadInv'
<1>1. TypeInv /\ PartInv /\ DestInv
  BY DEF DownloadInv
<1>2. TypeInv' /\ (\A d \in Calls \ {c} : job'[d] = job[d]) /\ job'[c].phase = "due"
  BY <1>1, GetFileStep
<1>3. (\A d \in Calls \ {c} : ~Active(d)) /\ UNCHANGED <<inodes, part, dest, version>>
  BY DEF GetFile, Undisturbed, Active
<1>4. PartInv' /\ DestInv'
  BY <1>1, <1>3 DEF PartInv, DestInv
<1>5. ~Running(c)'
  BY <1>2 DEF Running
<1> QED BY <1>2, <1>3, <1>4, <1>5, CallStep

LEMMA BeginInv ==
  ASSUME DownloadInv, NEW c \in Calls, BeginAttempt(c)
  PROVE  DownloadInv'
<1>1. TypeInv /\ PartInv /\ DestInv /\ dest' = dest /\ version' = version /\ Active(c)
  BY DEF DownloadInv, BeginAttempt, Active
<1>2. TypeInv' /\ (\A d \in Calls \ {c} : job'[d] = job[d]) /\ \A d \in Calls \ {c} : ~Active(d)
  BY <1>1, BeginStep, Alone
<1> PICK t : t = job'[c]
  OBVIOUS
<1>3. /\ t.http = "none" /\ t.pos = 0 /\ ~t.restarted /\ t.file = part'
      /\ \/ /\ t.append /\ part # NoFile /\ Len(inodes[part]) > 0
            /\ t.offset = Len(inodes[part]) /\ UNCHANGED <<inodes, part>>
         \/ ~t.append /\ t.offset = 0 /\ OpenTruncating
  BY <1>1, BeginStep
<1>4. CASE /\ t.append /\ part # NoFile /\ Len(inodes[part]) > 0
           /\ t.offset = Len(inodes[part]) /\ UNCHANGED <<inodes, part>>
  <2>1. PartInv' /\ DestInv'
    BY <1>1, <1>4 DEF PartInv, DestInv
  <2>2. AttemptInv(t)'
    BY <1>3, <1>4 DEF AttemptInv
  <2> QED BY <1>2, <2>1, <2>2, CallStep
<1>5. CASE ~t.append /\ t.offset = 0 /\ OpenTruncating
  <2>1. /\ inodes'[part'] = <<>> /\ part' # NoFile
        /\ \A i \in 1..Len(inodes) : i # part => inodes'[i] = inodes[i] /\ i # part'
    <3>1. /\ inodes'[part'] = <<>> /\ part' \in 1..Len(inodes') /\ inodes' \in Seq(Seq(Chunk))
          /\ \A i \in 1..Len(inodes) : i # part => inodes'[i] = inodes[i] /\ i # part'
      BY <1>1, <1>5, Truncates DEF TypeInv
    <3> QED BY <3>1, SMT DEF NoFile
  <2>2. DestInv'
    BY <1>1, <2>1, DestKept
  <2>3. Begins(<<>>, version)
    <3>1. Sizes[version] \in Nat
      BY <1>1, ObjectIs DEF TypeInv
    <3> QED BY <3>1, SMT DEF Begins
  <2>4. PartInv'
    BY <1>1, <2>1, <2>3 DEF PartInv
  <2>5. AttemptInv(t)'
    BY <1>3, <1>5, <2>1 DEF AttemptInv
  <2> QED BY <1>2, <2>2, <2>4, <2>5, CallStep
<1> QED BY <1>3, <1>4, <1>5

LEMMA RespondInv ==
  ASSUME DownloadInv, NEW c \in Calls, Respond(c)
  PROVE  DownloadInv'
<1>1. TypeInv /\ PartInv /\ DestInv /\ Running(c) /\ Active(c) /\ AttemptInv(job[c])
  BY DEF DownloadInv, Respond, Active, Running
<1>2. TypeInv' /\ (\A d \in Calls \ {c} : job'[d] = job[d]) /\ \A d \in Calls \ {c} : ~Active(d)
  BY <1>1, RespondStep, Alone
<1>3. UNCHANGED <<inodes, part, dest, version>>
  BY <1>1, RespondStep
<1>4. PartInv' /\ DestInv'
  BY <1>1, <1>3 DEF PartInv, DestInv
<1> PICK s : s = job[c]
  OBVIOUS
<1> PICK t : t = job'[c]
  OBVIOUS
<1>5. /\ s.http = "none" /\ t.file = s.file /\ (t.append <=> s.append) /\ t.pos = s.pos
      /\ t.offset = s.offset /\ (t.restarted <=> s.restarted) /\ Answer(s, t)
  BY <1>1, RespondStep
<1>6. /\ s.file = part /\ part # NoFile /\ ~s.restarted
      /\ IF s.append THEN s.offset > 0 /\ s.offset = Len(inodes[part])
         ELSE s.offset = 0 /\ s.pos = 0 /\ inodes[part] = <<>>
  BY <1>1, <1>5 DEF AttemptInv
<1>7. /\ Len(inodes[part]) \in Nat /\ Len(inodes[part]) <= Sizes[version]
      /\ Sizes[version] \in Nat /\ Object(version) \in Seq(Chunk)
      /\ Len(Object(version)) = Sizes[version] /\ version \in Nat
      /\ \A i \in 1..Sizes[version] : Object(version)[i] = <<version, i>>
  <2>1. version \in Versions
    BY <1>1 DEF TypeInv
  <2>2. version \in Nat
    BY <2>1, SMT DEF Versions
  <2> QED BY <1>1, <1>6, <2>1, <2>2, PartIsInode, ObjectIs DEF PartInv, Begins
<1>8. AttemptInv(t)
  <2>1. CASE /\ t.http = "206" /\ s.offset > 0 /\ s.offset < Sizes[version]
             /\ t.body = SubSeq(Object(version), s.offset + 1, Sizes[version])
    <3>1. s.append /\ s.offset = Len(inodes[part])
      BY <1>6, <2>1, SMT
    <3>2. Continued(t.body, Len(inodes[part]), version)
      BY <1>7, <2>1, <3>1, SMTT(30) DEF Continued
    <3> QED BY <1>5, <1>6, <2>1, <3>1, <3>2 DEF AttemptInv, IgnoredRange
  <2>2. CASE t.http = "200" /\ t.body = Object(version)
    <3>1. Continued(t.body, 0, version)
      BY <1>7, <2>2, SMT DEF Continued
    <3>2. CASE s.append
      <4>1. t.body # <<>> /\ IgnoredRange(t)
        BY <1>5, <1>6, <1>7, <2>2, <3>2, SMT DEF IgnoredRange
      <4> QED BY <1>5, <1>6, <2>2, <3>1, <4>1 DEF AttemptInv
    <3>3. CASE ~s.append
      <4>1. ~IgnoredRange(t) /\ Len(inodes[part]) = 0 /\ t.pos = 0
        BY <1>5, <1>6, <3>3, SMT DEF IgnoredRange
      <4> QED BY <1>5, <1>6, <2>2, <3>1, <4>1 DEF AttemptInv
    <3> QED BY <3>2, <3>3
  <2>3. CASE t.http \in ErrorAnswers
    <3>1. t.http \notin {"none", "200", "206"}
      BY <2>3 DEF ErrorAnswers
    <3> QED BY <1>5, <1>6, <1>7, <3>1, SMT DEF AttemptInv
  <2> QED BY <1>5, <2>1, <2>2, <2>3 DEF Answer
<1>9. AttemptInv(t)'
  BY <1>3, <1>8 DEF AttemptInv
<1> QED BY <1>2, <1>4, <1>9, CallStep

\* What is left after the chunk that comes next, and the file with that chunk at its end.
LEMMA ContinuedTail ==
  ASSUME NEW b \in Seq(Chunk), b # <<>>, NEW n \in Nat, NEW v, Sizes[v] \in Nat,
         Continued(b, n, v)
  PROVE  /\ Head(b) = <<v, n + 1>> /\ n + 1 <= Sizes[v]
         /\ Continued(Tail(b), n + 1, v)
<1>1. /\ Len(b) \in Nat /\ Len(b) > 0 /\ Head(b) = b[1] /\ Len(Tail(b)) = Len(b) - 1
      /\ \A i \in 1..Len(Tail(b)) : Tail(b)[i] = b[i + 1]
  BY HeadTailProperties, EmptySeq, SMT
<1>2. Len(b) = Sizes[v] - n /\ \A i \in 1..Len(b) : b[i] = <<v, n + i>>
  BY DEF Continued
<1>3. 1 \in 1..Len(b) /\ n + 1 <= Sizes[v] /\ Len(Tail(b)) = Sizes[v] - (n + 1)
  BY <1>1, <1>2, SMT
<1>4. ASSUME NEW i \in 1..Len(Tail(b)) PROVE Tail(b)[i] = <<v, (n + 1) + i>>
  <2>1. i + 1 \in 1..Len(b) /\ n + (i + 1) = (n + 1) + i
    BY <1>1, SMT
  <2>2. b[i + 1] = <<v, n + (i + 1)>>
    BY <1>2, <2>1
  <2> QED BY <1>1, <2>1, <2>2
<1> QED BY <1>1, <1>2, <1>3, <1>4 DEF Continued

LEMMA BeginsLonger ==
  ASSUME NEW q \in Seq(Chunk), NEW w \in Seq(Chunk), NEW v, Begins(q, v),
         Len(w) = Len(q) + 1, Len(q) + 1 <= Sizes[v], w[Len(q) + 1] = <<v, Len(q) + 1>>,
         \A i \in 1..Len(q) : w[i] = q[i]
  PROVE  Begins(w, v)
<1>1. Len(q) \in Nat
  OBVIOUS
<1>2. ASSUME NEW i \in 1..Len(w) PROVE w[i] = <<v, i>>
  <2>1. i \in 1..Len(q) \/ i = Len(q) + 1
    BY <1>1, SMT
  <2>2. CASE i \in 1..Len(q)
    BY <2>2 DEF Begins
  <2> QED BY <2>1, <2>2
<1> QED BY <1>2 DEF Begins

LEMMA WriteInv ==
  ASSUME DownloadInv, NEW c \in Calls, WriteChunk(c)
  PROVE  DownloadInv'
<1>1. TypeInv /\ PartInv /\ DestInv /\ Running(c) /\ Active(c) /\ AttemptInv(job[c])
  BY DEF DownloadInv, WriteChunk, Active, Running
<1>2. /\ TypeInv' /\ (\A d \in Calls \ {c} : job'[d] = job[d])
      /\ (\A d \in Calls \ {c} : ~Active(d)) /\ dest' = dest /\ version' = version
  BY <1>1, WriteStep, Alone
<1> PICK s : s = job[c]
  OBVIOUS
<1> PICK t : t = job'[c]
  OBVIOUS
<1>3. /\ s.http \in {"200", "206"} /\ s.body # <<>> /\ t.body = Tail(s.body) /\ t.http = s.http
      /\ IF IgnoredRange(s) THEN RestartedWith(s, t)
         ELSE /\ t.offset = s.offset /\ (t.append <=> s.append) /\ t.file = s.file
              /\ (t.restarted <=> s.restarted) /\ t.pos = s.pos + 1 /\ part' = part
              /\ inodes' = [inodes EXCEPT ![s.file] =
                              Written(inodes[s.file], s, Head(s.body))]
  BY <1>1, WriteStep
<1>4. /\ s.file = part /\ part # NoFile
      /\ IF IgnoredRange(s) THEN Continued(s.body, 0, version)
         ELSE /\ s.append \/ s.pos = Len(inodes[part])
              /\ Continued(s.body, Len(inodes[part]), version)
  BY <1>1, <1>3 DEF AttemptInv
<1>5. /\ part \in 1..Len(inodes) /\ inodes[part] \in Seq(Chunk) /\ Len(inodes[part]) \in Nat
      /\ inodes \in Seq(Seq(Chunk)) /\ s \in CallState /\ s.body \in Seq(Chunk)
      /\ version \in Nat /\ Sizes[version] \in Nat
  <2>1. version \in Versions /\ inodes \in Seq(Seq(Chunk)) /\ s \in CallState
    BY <1>1 DEF TypeInv
  <2>2. version \in Nat /\ Sizes[version] \in Nat
    BY <2>1, ObjectIs, SMT DEF Versions
  <2>3. s.body \in Seq(Chunk)
    BY <2>1 DEF CallState
  <2> QED BY <1>1, <1>4, <2>1, <2>2, <2>3, PartIsInode
<1>6. /\ Len(s.body) \in Nat /\ Len(s.body) > 0 /\ Head(s.body) = s.body[1]
      /\ Tail(s.body) \in Seq(Chunk) /\ Len(Tail(s.body)) = Len(s.body) - 1
      /\ \A i \in 1..Len(Tail(s.body)) : Tail(s.body)[i] = s.body[i + 1]
  BY <1>3, <1>5, HeadTailProperties, EmptySeq, SMT
<1>7. CASE IgnoredRange(s)
  <2>1. /\ t.restarted /\ t.offset = 0 /\ ~t.append /\ t.pos = 1 /\ t.file = part'
        /\ part' = part /\ inodes'[part'] = <<Head(s.body)>>
        /\ \A i \in 1..Len(inodes) : i # part => inodes'[i] = inodes[i] /\ i # part'
    BY <1>3, <1>4, <1>7 DEF RestartedWith
  <2>2. DestInv'
    BY <1>1, <1>2, <2>1, DestKept
  <2>3. /\ Head(s.body) = <<version, 1>> /\ 1 <= Sizes[version]
        /\ Continued(Tail(s.body), 1, version)
    <3>1. Continued(s.body, 0, version) /\ 0 \in Nat /\ 0 + 1 = 1
      BY <1>4, <1>7
    <3>2. /\ Head(s.body) = <<version, 0 + 1>> /\ 0 + 1 <= Sizes[version]
          /\ Continued(Tail(s.body), 0 + 1, version)
      BY <1>3, <1>5, <3>1, ContinuedTail
    <3> QED BY <3>1, <3>2
  <2>4. Len(inodes'[part']) = 1 /\ inodes'[part'][1] = <<version, 1>>
    BY <2>1, <2>3
  <2>5. Begins(inodes'[part'], version)
    BY <1>5, <2>3, <2>4, SMT DEF Begins
  <2>6. PartInv'
    BY <1>2, <2>5 DEF PartInv
  <2>7. Continued(t.body, 1, version)
    BY <1>3, <2>3
  <2>8. ~IgnoredRange(t)
    BY <2>1, SMT DEF IgnoredRange
  <2>10. t.http = "200" /\ t.offset <= Len(inodes'[part'])
    BY <1>3, <1>7, <2>1, <2>4, SMT DEF IgnoredRange
  <2>9. AttemptInv(t)'
    BY <1>2, <1>3, <1>4, <2>1, <2>4, <2>7, <2>8, <2>10 DEF AttemptInv
  <2> QED BY <1>2, <2>2, <2>6, <2>9, CallStep
<1>8. CASE ~IgnoredRange(s)
  <2> DEFINE q == inodes[part]
             w == Written(q, s, Head(s.body))
  <2>1. /\ t.offset = s.offset /\ (t.append <=> s.append) /\ t.file = s.file
        /\ (t.restarted <=> s.restarted) /\ t.pos = s.pos + 1 /\ part' = part
        /\ inodes' = [inodes EXCEPT ![part] = w]
    BY <1>3, <1>4, <1>8
  <2>2. Head(s.body) \in Chunk
    BY <1>3, <1>5, HeadTailProperties
  <2>3. /\ w \in Seq(Chunk) /\ Len(w) = Len(q) + 1 /\ w[Len(q) + 1] = Head(s.body)
        /\ \A i \in 1..Len(q) : w[i] = q[i]
    <3>1. s.append \/ s.pos = Len(q)
      BY <1>4, <1>8
    <3>2. q \in Seq(Chunk) /\ s \in CallState
      BY <1>5
    <3> HIDE DEF q
    <3> QED BY <2>2, <3>1, <3>2, WrittenIs
  <2> HIDE DEF w
  <2>4. /\ inodes'[part'] = w
        /\ \A i \in 1..Len(inodes) : i # part => inodes'[i] = inodes[i] /\ i # part'
    BY <1>5, <2>1, <2>3, ExceptSeq
  <2>5. DestInv'
    BY <1>1, <1>2, <2>4, DestKept
  <2>6. Begins(q, version) /\ Continued(s.body, Len(q), version)
    BY <1>1, <1>4, <1>8 DEF PartInv
  <2> HIDE DEF q
  <2>7. Len(q) \in Nat
    BY <1>5 DEF q
  <2>8. /\ Head(s.body) = <<version, Len(q) + 1>> /\ Len(q) + 1 <= Sizes[version]
        /\ Continued(Tail(s.body), Len(q) + 1, version)
    BY <1>3, <1>5, <2>6, <2>7, ContinuedTail
  <2>9. Begins(w, version)
    <3>1. q \in Seq(Chunk)
      BY <1>5 DEF q
    <3> QED BY <2>3, <2>6, <2>8, <3>1, BeginsLonger
  <2>10. PartInv'
    BY <1>2, <2>4, <2>9 DEF PartInv
  <2>11. Continued(t.body, Len(w), version)
    BY <1>3, <2>3, <2>8
  <2>12. t.append \/ t.pos = Len(w)
    BY <1>4, <1>8, <2>1, <2>3 DEF q
  <2>13. ~IgnoredRange(t)
    BY <1>3, <1>8, <2>1 DEF IgnoredRange
  <2>14. /\ t.offset <= Len(w)
         /\ t.http = "200" => t.offset = 0
         /\ t.http = "206" => t.offset > 0 /\ t.offset < Sizes[version]
    <3>1. /\ s.offset <= Len(q) /\ s.offset \in Nat
          /\ s.http = "200" => s.offset = 0
          /\ s.http = "206" => s.offset > 0 /\ s.offset < Sizes[version]
      BY <1>1, <1>5, <1>8 DEF AttemptInv, CallState, q
    <3>2. t.offset <= Len(w)
      BY <2>1, <2>3, <2>7, <3>1, SMT
    <3> QED BY <1>3, <2>1, <3>1, <3>2
  <2>15. AttemptInv(t)'
    BY <1>2, <1>3, <1>4, <2>1, <2>4, <2>11, <2>12, <2>13, <2>14 DEF AttemptInv
  <2> QED BY <1>2, <2>5, <2>10, <2>15, CallStep
<1> QED BY <1>7, <1>8

LEMMA EndInv ==
  ASSUME Undisturbed, DownloadInv, NEW c \in Calls, Ends(c)
  PROVE  DownloadInv'
<1>1. TypeInv /\ PartInv /\ DestInv
  BY DEF DownloadInv
<1>2. /\ TypeInv' /\ (\A d \in Calls \ {c} : job'[d] = job[d])
      /\ Active(c) /\ ~Running(c)' /\ UNCHANGED <<inodes, dest, version>>
      /\ part' \in {part, NoFile}
  BY <1>1, EndStep DEF Undisturbed, Active, Running
<1>3. \A d \in Calls \ {c} : ~Active(d)
  BY <1>2, Alone
<1>4. PartInv' /\ DestInv'
  BY <1>1, <1>2 DEF PartInv, DestInv
<1> QED BY <1>2, <1>3, <1>4, CallStep

LEMMA RestartFailsInv ==
  ASSUME DownloadInv, NEW c \in Calls, RestartFails(c)
  PROVE  DownloadInv'
<1>1. TypeInv /\ DestInv
  BY DEF DownloadInv
<1>2. /\ TypeInv' /\ (\A d \in Calls \ {c} : job'[d] = job[d]) /\ OpenTruncating
      /\ Active(c) /\ ~Running(c)' /\ UNCHANGED <<dest, version>>
  BY <1>1, RestartFailsStep DEF Active, Running
<1>3. \A d \in Calls \ {c} : ~Active(d)
  BY <1>2, Alone
<1>4. /\ inodes'[part'] = <<>>
      /\ \A i \in 1..Len(inodes) : i # part => inodes'[i] = inodes[i] /\ i # part'
  BY <1>1, <1>2, Truncates DEF TypeInv
<1>5. DestInv'
  BY <1>1, <1>2, <1>4, DestKept
<1>6. Begins(<<>>, version)
  <2>1. Sizes[version] \in Nat
    BY <1>1, ObjectIs DEF TypeInv
  <2> QED BY <2>1, SMT DEF Begins
<1>7. PartInv'
  BY <1>2, <1>4, <1>6 DEF PartInv
<1> QED BY <1>2, <1>3, <1>5, <1>7, CallStep

LEMMA FinalizeInv ==
  ASSUME Undisturbed, DownloadInv, NEW c \in Calls, Finalize(c)
  PROVE  DownloadInv'
<1>1. TypeInv /\ PartInv /\ DestInv /\ AttemptInv(job[c]) /\ Active(c)
  BY DEF DownloadInv, Finalize, Active, Running
<1>2. /\ TypeInv' /\ (\A d \in Calls \ {c} : job'[d] = job[d])
      /\ ~Running(c)' /\ UNCHANGED <<inodes, version>>
      /\ job[c].http \in {"200", "206"} /\ job[c].body = <<>>
      /\ \/ part # NoFile /\ dest' = part /\ part' = NoFile
         \/ UNCHANGED <<part, dest>>
  BY <1>1, FinalizeStep DEF Undisturbed, Running
<1>3. \A d \in Calls \ {c} : ~Active(d)
  BY <1>1, Alone
<1>4. PartInv'
  BY <1>1, <1>2 DEF PartInv
<1>5. CASE dest' = part /\ part' = NoFile /\ part # NoFile
  <2>1. Begins(inodes[part], version) /\ Continued(<<>>, Len(inodes[part]), version)
    BY <1>1, <1>2 DEF AttemptInv, PartInv
  <2>2. inodes[part] \in Seq(Chunk) /\ version \in Versions
    BY <1>1, <1>5, PartIsInode DEF TypeInv
  <2>3. inodes[part] = Object(version)
    BY <2>1, <2>2, WholeIs
  <2> QED BY <1>2, <1>3, <1>4, <1>5, <2>2, <2>3, CallStep DEF DestInv
<1>6. CASE UNCHANGED <<part, dest>>
  BY <1>1, <1>2, <1>3, <1>4, <1>6, CallStep DEF DestInv
<1> QED BY <1>2, <1>5, <1>6

LEMMA OverwriteInv ==
  ASSUME Undisturbed, DownloadInv, Overwrite
  PROVE  DownloadInv'
<1>1. part = NoFile /\ UNCHANGED <<job, inodes, part, dest>>
  BY DEF Undisturbed, Overwrite
<1>2. TypeInv'
  BY TypeNextInv DEF DownloadInv, DownloadNext
<1>3. \A c \in Calls : ~Running(c)
  BY <1>1 DEF DownloadInv, AttemptInv
<1> QED BY <1>1, <1>2, <1>3 DEF DownloadInv, Active, Running, PartInv, DestInv

LEMMA DownloadInitInv == DownloadInit => DownloadInv
<1> SUFFICES ASSUME DownloadInit PROVE DownloadInv
  OBVIOUS
<1>1. \A c \in Calls : ~Active(c) /\ ~Running(c)
  BY DEF DownloadInit, NewCall, Active, Running
<1> QED BY <1>1, TypeInitInv DEF DownloadInit, DownloadInv, PartInv, DestInv

LEMMA DownloadNextInv ==
  ASSUME Undisturbed, DownloadInv, [DownloadNext]_downloadVars
  PROVE  DownloadInv'
<1>1. CASE AllOver \/ UNCHANGED downloadVars
  <2>1. UNCHANGED <<job, inodes, part, dest, version>>
    BY <1>1 DEF AllOver, downloadVars
  <2>2. TypeInv'
    BY TypeNextInv DEF DownloadInv
  <2>3. \A c \in Calls : Running(c)' => AttemptInv(job[c])'
    BY <2>1 DEF DownloadInv, Running, AttemptInv
  <2> QED BY <2>1, <2>2, <2>3 DEF DownloadInv, Active, PartInv, DestInv
<1>2. ASSUME NEW c \in Calls,
             \/ \E resume \in BOOLEAN : GetFile(c, resume)
             \/ BeginAttempt(c) \/ Respond(c) \/ WriteChunk(c) \/ Ends(c)
             \/ RestartFails(c) \/ Finalize(c)
      PROVE  DownloadInv'
  BY <1>2, GetFileInv, BeginInv, RespondInv, WriteInv, EndInv, RestartFailsInv, FinalizeInv
<1> QED BY <1>1, <1>2, OverwriteInv, StepsOfNext

-----------------------------------------------------------------------------
(***************************************************************************)
(* The theorems.                                                           *)
(***************************************************************************)

\* The inductive invariant holds of every state undisturbed calls reach.
THEOREM DownloadInvHolds == Undisturbed /\ DownloadSpec => []DownloadInv
<1> SUFFICES ASSUME Undisturbed PROVE DownloadSpec => []DownloadInv
  OBVIOUS
<1>1. DownloadInit => DownloadInv
  BY DownloadInitInv
<1>2. DownloadInv /\ [DownloadNext]_downloadVars => DownloadInv'
  BY DownloadNextInv
<1> QED BY <1>1, <1>2, PTL DEF DownloadSpec

\* The path only ever names a whole version of the object.
THEOREM PathsAreWhole == Undisturbed /\ DownloadSpec => []PathIsWhole
<1>1. DownloadInv => PathIsWhole
  BY DEF DownloadInv, DestInv, PathIsWhole
<1> QED BY <1>1, DownloadInvHolds, PTL

\* The part file is at every moment a prefix of the object, whatever was resumed, restarted
\* or retried, so a resume at its length fits.
THEOREM PartsArePrefixes == Undisturbed /\ DownloadSpec => []PartIsPrefix
<1>1. DownloadInv => PartIsPrefix
  <2> SUFFICES ASSUME DownloadInv, part # NoFile
               PROVE  /\ Len(inodes[part]) <= Sizes[version]
                      /\ inodes[part] = SubSeq(Object(version), 1, Len(inodes[part]))
    BY DEF PartIsPrefix
  <2>1. TypeInv /\ Begins(inodes[part], version) /\ version \in Versions
    BY DEF DownloadInv, PartInv, TypeInv
  <2> DEFINE q == inodes[part]
             o == Object(version)
  <2>2. q \in Seq(Chunk) /\ Len(q) \in Nat /\ Len(q) <= Sizes[version] /\ Sizes[version] \in Nat
    BY <2>1, PartIsInode, ObjectIs DEF Begins
  <2>3. \A i \in 1..Len(q) : q[i] = o[i] /\ o[i] \in Chunk
    <3>1. /\ \A i \in 1..Sizes[version] : o[i] = <<version, i>>
          /\ \A i \in 1..Len(q) : q[i] = <<version, i>>
      BY <2>1, ObjectIs DEF Begins
    <3>2. \A i \in 1..Len(q) : q[i] \in Chunk
      BY <2>2, ElementOfSeq
    <3> HIDE DEF q, o
    <3>3. ASSUME NEW i \in 1..Len(q) PROVE q[i] = o[i] /\ o[i] \in Chunk
      <4>1. i \in 1..Sizes[version]
        BY <2>2, SMT
      <4> QED BY <3>1, <3>2, <4>1
    <3> QED BY <3>3
  <2> HIDE DEF q, o
  <2>4. /\ SubSeq(o, 1, Len(q)) \in Seq(Chunk) /\ Len(SubSeq(o, 1, Len(q))) = Len(q)
        /\ \A i \in 1..Len(q) : SubSeq(o, 1, Len(q))[i] = q[i]
    <3>1. /\ SubSeq(o, 1, Len(q)) \in Seq(Chunk)
          /\ Len(SubSeq(o, 1, Len(q))) = IF 1 <= Len(q) THEN Len(q) - 1 + 1 ELSE 0
          /\ \A i \in 1..(Len(q) - 1 + 1) : SubSeq(o, 1, Len(q))[i] = o[1 + i - 1]
      BY <2>2, <2>3, SubSeqProperties
    <3> QED BY <2>2, <2>3, <3>1, SMT
  <2>5. q = SubSeq(o, 1, Len(q))
    BY <2>2, <2>4, SeqEqual
  <2> QED BY <2>2, <2>5 DEF q, o
<1> QED BY <1>1, DownloadInvHolds, PTL

\* No job still writes to the file that the path names.
THEOREM NoWriterStays == Undisturbed /\ DownloadSpec => []NoWriterBehindPath
<1>1. DownloadInv => NoWriterBehindPath
  BY DEF DownloadInv, AttemptInv, DestInv, NoWriterBehindPath
<1> QED BY <1>1, DownloadInvHolds, PTL
=============================================================================
