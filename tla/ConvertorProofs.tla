-------------------------- MODULE ConvertorProofs --------------------------
(***************************************************************************)
(* What the whole service guarantees, for every set of requests, slots and *)
(* images, every choice of image names and every bound on crashes.         *)
(***************************************************************************)
EXTENDS Convertor, TasksApiProofs, SequenceTheorems

----------------------------------------------------------------------------
(* The API inside the service is the API on its own.                       *)

\* Seen from the API, a step of the worker takes a message or does nothing.
LEMMA WorkerStepForApi ==
  ASSUME WorkerMoves
  PROVE  TopicDrains \/ UNCHANGED apiVars
<1>1. CASE Receive
  BY <1>1 DEF WorkerMoves, Receive, TopicDrains
<1>2. CASE Crash \/ \E s \in Slot : Start(s) \/ RunJob(s)
  BY <1>2 DEF WorkerMoves, Crash, Start, RunJob, Lookup, Open, Write, Convert,
              Fail, apiVars
<1>3. CASE \E o \in orphans : OrphanEnds(o)
  BY <1>3 DEF WorkerMoves, OrphanEnds, apiVars
<1> QED
  BY <1>1, <1>2, <1>3 DEF WorkerMoves, WorkerNext

LEMMA StepForApi == [Next]_vars => [ApiNext]_apiVars
<1>1. CASE ApiMoves
  BY <1>1 DEF ApiMoves, ApiNext
<1>2. CASE WorkerMoves
  BY <1>2, WorkerStepForApi DEF ApiNext
<1>3. CASE UNCHANGED vars
  BY <1>3 DEF vars, apiVars
<1> QED
  BY <1>1, <1>2, <1>3 DEF Next

\* The service implements the API with an environment that drains the topic:
\* whatever holds of ApiSpec holds of the service.
THEOREM ServiceIsApi == Spec => ApiSpec
<1>1. Init => ApiInit
  BY DEF Init
<1> QED
  BY <1>1, StepForApi, PTL DEF Spec, ApiSpec

----------------------------------------------------------------------------
(* Jobs, the backlog and the topic.                                        *)

LEMMA IdleJobIsTyped == IdleJob \in JobState /\ EmptyFile \in Content
  BY DEF IdleJob, JobState, EmptyFile, Content

\* The worker's steps keep its types and what its jobs know.
LEMMA WorkerTypes ==
  ASSUME ApiTypeOK, WorkerTypeOK, JobsKnow, OneRun, WorkerMoves
  PROVE  WorkerTypeOK' /\ JobsKnow'
<1> USE DEF WorkerTypeOK
<1>1. CASE Receive
  <2>1. PICK m \in Pending : backlog' = Append(backlog, m) \/ backlog' = backlog
    BY <1>1 DEF Receive
  <2>2. m \in Message
    BY DEF Pending, ApiTypeOK, TopicTypeOK
  <2>3. backlog' \in Seq(Message)
    BY <2>1, <2>2
  <2> QED
    BY <1>1, <2>3 DEF Receive, JobsKnow
<1>2. CASE Crash
  <2>1. backlog' \in Seq(Message)
    BY <1>2 DEF Crash
  <2>2. job' \in [Slot -> JobState]
    BY <1>2, IdleJobIsTyped DEF Crash
  <2>5. orphans' \subseteq {o \in JobState : o.pc = "convert" /\ o.image \in Image}
    <3>1. PICK S \in SUBSET Converting : orphans' = orphans \cup {job[s] : s \in S}
      BY <1>2 DEF Crash
    <3> QED
      BY <3>1 DEF Converting, JobsKnow
  <2>3. crashes' \in 0..MaxCrashes
    BY <1>2, WorkerAssumption DEF Crash
  <2>4. JobsKnow'
    BY <1>2 DEF Crash, JobsKnow, IdleJob
  <2> QED
    BY <1>2, <2>1, <2>2, <2>3, <2>4, <2>5 DEF Crash
<1>3. ASSUME NEW s \in Slot, Start(s)
      PROVE  WorkerTypeOK' /\ JobsKnow'
  <2> DEFINE new == [IdleJob EXCEPT !.pc = "lookup", !.message = Head(backlog)]
  <2>1. Head(backlog) \in Message /\ Tail(backlog) \in Seq(Message)
    BY <1>3 DEF Start
  <2>2. new \in JobState /\ new.pc = "lookup" /\ new.next = 1
    BY <2>1 DEF IdleJob, JobState
  <2>3. job' = [job EXCEPT ![s] = new] /\ backlog' = Tail(backlog)
        /\ UNCHANGED <<file, orphans, crashes>>
    BY <1>3 DEF Start
  <2> HIDE DEF new
  <2> QED
    BY <2>1, <2>2, <2>3 DEF JobsKnow
<1>4. ASSUME NEW s \in Slot, Lookup(s)
      PROVE  WorkerTypeOK' /\ JobsKnow'
  <2> DEFINE row == table[job[s].message.uuid]
             new == [job[s] EXCEPT !.pc = "open", !.image = row["image_id"]]
  <2>1. job[s] \in JobState /\ job[s].pc = "lookup" /\ job[s].next = 1
    BY <1>4 DEF Lookup, JobsKnow
  <2>2. job[s].message \in Message
    BY <2>1 DEF OneRun, Running, ApiTypeOK, TopicTypeOK
  <2>3. row \in Row
    BY <1>4, <2>2 DEF Lookup, Visible, Exists, Message, ApiTypeOK, StoreTypeOK
  <2>4. row["image_id"] \in Image
    BY <2>3 DEF Row
  <2>5. /\ new \in JobState /\ new.pc = "open" /\ new.next = 1
        /\ new.image \in Image
    BY <2>1, <2>4 DEF JobState
  <2>6. job' = [job EXCEPT ![s] = new] /\ UNCHANGED <<backlog, file, orphans, crashes>>
    BY <1>4 DEF Lookup
  <2> HIDE DEF new
  <2> QED
    BY <2>5, <2>6 DEF JobsKnow
<1>5. ASSUME NEW s \in Slot, Open(s)
      PROVE  WorkerTypeOK' /\ JobsKnow'
  <2> DEFINE new == [job[s] EXCEPT !.pc = "write"]
  <2>1. /\ job[s] \in JobState /\ job[s].next = 1 /\ job[s].image \in Image
        /\ ChunksOf[job[s].image] \in Position
    BY <1>5, WorkerAssumption DEF Open, JobsKnow
  <2>2. /\ new \in JobState /\ new.pc = "write" /\ new.next = 1
        /\ new.image = job[s].image
    BY <2>1 DEF JobState
  <2>3. job' = [job EXCEPT ![s] = new] /\ UNCHANGED <<backlog, orphans, crashes>>
    BY <1>5 DEF Open
  <2>4. file' \in [Name -> Content]
    BY <1>5, IdleJobIsTyped DEF Open
  <2>5. new.next \in 1..ChunksOf[new.image]
    BY <2>1, <2>2, WorkerAssumption DEF Position
  <2> HIDE DEF new
  <2> QED
    BY <2>1, <2>2, <2>3, <2>4, <2>5 DEF JobsKnow
<1>6. ASSUME NEW s \in Slot, Write(s)
      PROVE  WorkerTypeOK' /\ JobsKnow'
  <2> DEFINE pc == IF job[s].next = ChunksOf[job[s].image] THEN "convert"
                   ELSE "write"
             new == [job[s] EXCEPT !.next = job[s].next + 1, !.pc = pc]
  <2>1. /\ job[s] \in JobState /\ job[s].pc = "write" /\ job[s].image \in Image
        /\ job[s].next \in 1..ChunksOf[job[s].image]
        /\ ChunksOf[job[s].image] \in Position
    BY <1>6, WorkerAssumption DEF Write, JobsKnow
  <2>2. /\ new \in JobState
        /\ new.image = job[s].image
        /\ new.next = job[s].next + 1
        /\ new.pc = pc
    <3>1. pc \in {"write", "convert"} /\ job[s].next + 1 \in Nat
      BY <2>1
    <3> HIDE DEF pc
    <3> QED
      BY <2>1, <3>1 DEF JobState
  <2>3. job' = [job EXCEPT ![s] = new] /\ UNCHANGED <<backlog, orphans, crashes>>
    BY <1>6 DEF Write
  <2>4. file' \in [Name -> Content]
    <3>1. FileOf(s) \in Name /\ job[s].next \in Position
      BY <2>1, WorkerAssumption DEF FileOf, Position
    <3>2. [file[FileOf(s)] EXCEPT ![job[s].next] = job[s].image] \in Content
      BY <2>1, <3>1 DEF Content
    <3>3. file' = [file EXCEPT ![FileOf(s)] =
                     [file[FileOf(s)] EXCEPT ![job[s].next] = job[s].image]]
      BY <1>6 DEF Write
    <3> QED
      BY <3>1, <3>2, <3>3
  <2>5. new.pc = "write" => new.next \in 1..ChunksOf[new.image]
    BY <2>1, <2>2, WorkerAssumption DEF Position
  <2>6. new.pc \in {"write", "convert"}
    BY <2>2
  <2> HIDE DEF new
  <2> QED
    BY <2>1, <2>2, <2>3, <2>4, <2>5, <2>6 DEF JobsKnow
<1>7. ASSUME NEW s \in Slot, Convert(s) \/ Fail(s)
      PROVE  WorkerTypeOK' /\ JobsKnow'
  <2>1. job' = [job EXCEPT ![s] = IdleJob] /\ UNCHANGED <<backlog, file, orphans, crashes>>
    BY <1>7 DEF Convert, Fail
  <2>2. IdleJob.pc = "idle"
    BY DEF IdleJob
  <2> QED
    BY <2>1, <2>2, IdleJobIsTyped DEF JobsKnow
<1>8. ASSUME NEW o \in orphans, OrphanEnds(o)
      PROVE  WorkerTypeOK' /\ JobsKnow'
  BY <1>8 DEF OrphanEnds, JobsKnow
<1> QED
  BY <1>1, <1>2, <1>3, <1>4, <1>5, <1>6, <1>7, <1>8 DEF WorkerMoves, WorkerNext, RunJob

\* A message moves from the topic to the backlog's end, from its front to one
\* thread, and from there nowhere.
LEMMA WorkerOneRun ==
  ASSUME ApiTypeOK, WorkerTypeOK, OneRun, WorkerMoves
  PROVE  OneRun'
<1> USE DEF WorkerTypeOK
<1>1. CASE Receive
  <2>1. PICK m \in Pending : /\ taken' = taken \cup {m}
                             /\ backlog' = Append(backlog, m) \/ backlog' = backlog
    BY <1>1 DEF Receive, Take
  <2>2. m \notin taken /\ m \in Message
    BY DEF Pending, ApiTypeOK, TopicTypeOK
  <2>3. job' = job /\ orphans' = orphans
    BY <1>1 DEF Receive
  <2>4. CASE backlog' = backlog
    BY <2>1, <2>3, <2>4 DEF OneRun, Running
  <2>5. CASE backlog' = Append(backlog, m)
    <3>1. /\ Len(backlog') = Len(backlog) + 1 /\ Len(backlog) \in Nat
          /\ \A i \in 1..Len(backlog) : backlog'[i] = backlog[i]
          /\ backlog'[Len(backlog) + 1] = m
      BY <2>2, <2>5
    <3>2. \A i \in 1..Len(backlog') :
            i \in 1..Len(backlog) \/ i = Len(backlog) + 1
      BY <3>1
    <3> QED
      BY <2>1, <2>2, <2>3, <3>1, <3>2 DEF OneRun, Running
  <2> QED
    BY <2>1, <2>4, <2>5
<1>2. CASE Crash
  <2>1. backlog' = <<>> /\ taken' = taken /\ \A s \in Slot : job'[s] = IdleJob
    BY <1>2 DEF Crash
  <2>2. IdleJob.pc = "idle"
    BY DEF IdleJob
  <2>3. \A o \in orphans' : o.message \in taken
    <3>1. PICK S \in SUBSET Converting : orphans' = orphans \cup {job[s] : s \in S}
      BY <1>2 DEF Crash
    <3>2. \A s \in S : job[s].message \in taken
      BY DEF OneRun, Running, Converting
    <3> QED
      BY <3>1, <3>2 DEF OneRun
  <2> QED
    BY <2>1, <2>2, <2>3 DEF OneRun, Running
<1>3. ASSUME NEW s \in Slot, Start(s)
      PROVE  OneRun'
  <2>1. /\ job[s].pc = "idle" /\ backlog # <<>> /\ backlog' = Tail(backlog)
        /\ taken' = taken /\ orphans' = orphans
        /\ job' = [job EXCEPT ![s] = [IdleJob EXCEPT !.pc = "lookup",
                                                     !.message = Head(backlog)]]
    BY <1>3 DEF Start
  <2>2. /\ job'[s].message = Head(backlog) /\ job'[s].pc = "lookup"
        /\ \A t \in Slot \ {s} : job'[t] = job[t]
    BY <2>1 DEF IdleJob
  <2>3. /\ Head(backlog) = backlog[1] /\ 1 \in 1..Len(backlog)
        /\ Len(backlog') = Len(backlog) - 1
        /\ \A i \in 1..Len(backlog') :
             i + 1 \in 1..Len(backlog) /\ backlog'[i] = backlog[i + 1]
    BY <2>1
  <2>4. \A i \in 1..Len(backlog') : backlog'[i] \in taken' /\ backlog'[i] # Head(backlog)
    BY <2>1, <2>3 DEF OneRun
  <2>5. \A i, k \in 1..Len(backlog') : backlog'[i] = backlog'[k] => i = k
    BY <2>3 DEF OneRun
  <2>6. \A t \in Slot \ {s} : Running(t) =>
          /\ job[t].message # Head(backlog)
          /\ job[t].message \in taken
          /\ \A i \in 1..Len(backlog') : backlog'[i] # job[t].message
    BY <2>3 DEF OneRun
  <2>7. Head(backlog) \in taken
    BY <2>3 DEF OneRun
  <2>8. \A o \in orphans : /\ o.message # Head(backlog)
                           /\ \A i \in 1..Len(backlog') : backlog'[i] # o.message
    BY <2>3 DEF OneRun
  <2> QED
    BY <2>1, <2>2, <2>4, <2>5, <2>6, <2>7, <2>8 DEF OneRun, Running
<1>4. ASSUME NEW s \in Slot, RunJob(s)
      PROVE  OneRun'
  <2>1. /\ backlog' = backlog /\ taken' = taken /\ orphans' = orphans
        /\ \A t \in Slot \ {s} : job'[t] = job[t]
    BY <1>4 DEF RunJob, Lookup, Open, Write, Convert, Fail
  <2>2. Running(s)' => Running(s) /\ job'[s].message = job[s].message
    <3>1. CASE Convert(s) \/ Fail(s)
      BY <3>1 DEF Convert, Fail, Running, IdleJob
    <3>2. CASE Lookup(s)
      BY <3>2 DEF Lookup, Running, JobState
    <3>3. CASE Open(s)
      BY <3>3 DEF Open, Running, JobState
    <3>4. CASE Write(s)
      BY <3>4 DEF Write, Running, JobState
    <3> QED
      BY <1>4, <3>1, <3>2, <3>3, <3>4 DEF RunJob
  <2> QED
    BY <2>1, <2>2 DEF OneRun, Running
<1>5. ASSUME NEW o \in orphans, OrphanEnds(o)
      PROVE  OneRun'
  BY <1>5 DEF OrphanEnds, OneRun, Running
<1> QED
  BY <1>1, <1>2, <1>3, <1>4, <1>5 DEF WorkerMoves, WorkerNext

\* The message of a job that starts was sent, so its row is there.
LEMMA OneRunGivesRow ==
  ASSUME ApiTypeOK, LaunchAfterCommit, OneRun
  PROVE  JobHasRow
<1>1. ASSUME NEW s \in Slot, job[s].pc = "lookup"
      PROVE  Exists(job[s].message.uuid)
  <2>1. job[s].message \in sent
    BY <1>1 DEF OneRun, Running, ApiTypeOK, TopicTypeOK
  <2> QED
    BY <2>1 DEF LaunchAfterCommit
<1> QED
  BY <1>1 DEF JobHasRow

LEMMA InitWorkerInv == Init => WorkerInv
<1> SUFFICES ASSUME Init PROVE WorkerInv
  OBVIOUS
<1>1. /\ backlog = <<>> /\ job = [s \in Slot |-> IdleJob]
      /\ file = [n \in Name |-> EmptyFile] /\ orphans = {} /\ crashes = 0
  BY DEF Init, WorkerInit
<1>2. ApiInv
  BY InitInv DEF Init
<1>3. WorkerTypeOK
  BY <1>1, IdleJobIsTyped, WorkerAssumption DEF WorkerTypeOK
<1>4. JobsKnow /\ OneRun
  BY <1>1 DEF JobsKnow, OneRun, Running, IdleJob
<1> QED
  BY <1>2, <1>3, <1>4 DEF WorkerInv

LEMMA NextWorkerInv == WorkerInv /\ [Next]_vars => WorkerInv'
<1> SUFFICES ASSUME WorkerInv, [Next]_vars PROVE WorkerInv'
  OBVIOUS
<1> USE DEF WorkerInv
<1>1. ApiInv'
  BY StepForApi, NextInv
<1>2. ApiTypeOK
  BY DEF ApiInv
<1>3. CASE WorkerMoves
  BY <1>1, <1>2, <1>3, WorkerTypes, WorkerOneRun
<1>4. CASE ApiMoves \/ UNCHANGED vars
  <2>1. UNCHANGED workerVars /\ taken \subseteq taken'
    BY <1>4 DEF ApiMoves, vars, workerVars, ApiStep, Post, Patch, Delete, Arrive,
       Handle, CreateInvalid, CreateDuplicate, Create, NotFound, GetForDelete,
       GetForPatch, PatchInvalid, PatchRefused, SaveInvalid, Save, SoftDelete, Launch, Cast,
       ServerError
  <2>2. WorkerTypeOK' /\ JobsKnow' /\ OneRun'
    BY <2>1 DEF workerVars, WorkerTypeOK, JobsKnow, OneRun, Running
  <2> QED
    BY <1>1, <2>2
<1> QED
  BY <1>3, <1>4 DEF Next

\* The worker's inductive invariant, with the API's.
THEOREM WorkerInvariant == Spec => []WorkerInv
  BY InitWorkerInv, NextWorkerInv, PTL DEF Spec

\* The worker's variables keep their types: only whole rows reach a job.
THEOREM WorkerTypeCorrect == Spec => []WorkerTypeOK
<1>1. WorkerInv => WorkerTypeOK
  BY DEF WorkerInv
<1> QED
  BY <1>1, WorkerInvariant, PTL

\* No launch is worked on twice.
THEOREM RunsOnce == Spec => []OneRun
<1>1. WorkerInv => OneRun
  BY DEF WorkerInv
<1> QED
  BY <1>1, WorkerInvariant, PTL

\* A job's row is always there when the job reads it.
THEOREM RowsAreThere == Spec => []JobHasRow
<1>1. WorkerInv => JobHasRow
  BY OneRunGivesRow DEF WorkerInv, ApiInv
<1> QED
  BY <1>1, WorkerInvariant, PTL

----------------------------------------------------------------------------
(* Files.                                                                  *)

\* While nobody shares a file, each holds what its job has written so far.
LEMMA FilesStillHold ==
  ASSUME WorkerInv, NoSharing, NoSharing', FilesHold, [Next]_vars
  PROVE  FilesHold'
<1> USE DEF WorkerInv, WorkerTypeOK
<1>1. CASE UNCHANGED <<job, file>>
  BY <1>1 DEF FilesHold, FileOf
<1>2. CASE Crash
  BY <1>2 DEF Crash, IdleJob, FilesHold
<1>3. ASSUME NEW s \in Slot, Start(s) \/ Lookup(s) \/ Convert(s) \/ Fail(s)
      PROVE  FilesHold'
  <2>1. /\ file' = file /\ job'[s].pc \in {"idle", "lookup", "open"}
        /\ \A t \in Slot \ {s} : job'[t] = job[t]
    <3>1. CASE Lookup(s)
      BY <3>1 DEF Lookup, JobState
    <3>2. CASE Start(s)
      BY <3>2 DEF Start, IdleJob
    <3>3. CASE Convert(s) \/ Fail(s)
      BY <3>3 DEF Convert, Fail, IdleJob
    <3> QED
      BY <1>3, <3>1, <3>2, <3>3
  <2> QED
    BY <2>1 DEF FilesHold, FileOf
<1>4. ASSUME NEW s \in Slot, Open(s)
      PROVE  FilesHold'
  <2>1. /\ job[s].next = 1 /\ FileOf(s) \in Name
        /\ job'[s].pc = "write" /\ job'[s].next = 1 /\ job'[s].image = job[s].image
        /\ \A t \in Slot \ {s} : job'[t] = job[t]
    BY <1>4, WorkerAssumption DEF Open, JobsKnow, JobState, FileOf
  <2>2. file'[FileOf(s)] = EmptyFile
        /\ \A n \in Name \ {FileOf(s)} : file'[n] = file[n]
    BY <1>4, <2>1 DEF Open
  <2>3. FileOf(s)' = FileOf(s) /\ \A t \in Slot \ {s} : FileOf(t)' = FileOf(t)
    BY <2>1 DEF FileOf
  <2>4. \A t \in Slot \ {s} : UsesFile(t) => FileOf(t) # FileOf(s)
    BY <2>1, <2>3 DEF NoSharing, SharesFile, UsesFile
  <2>5. \A t \in Slot : UsesFile(t) => FileOf(t) \in Name
    BY WorkerAssumption DEF UsesFile, FileOf, JobsKnow
  <2>6. EmptyFile = [k \in Position |-> IF k < 1 THEN job[s].image ELSE Null]
    BY WorkerAssumption DEF EmptyFile, Position
  <2> DEFINE Holds(t) ==
        /\ job[t].pc = "write" =>
             file[FileOf(t)] = [k \in Position |-> IF k < job[t].next
                                                   THEN job[t].image ELSE Null]
        /\ job[t].pc = "convert" => file[FileOf(t)] = WholeFile(job[t].image)
  <2>7. Holds(s)'
    BY <2>1, <2>2, <2>3, <2>6
  <2>8. ASSUME NEW t \in Slot \ {s} PROVE Holds(t)'
    <3>1. Holds(t) /\ job'[t] = job[t] /\ FileOf(t)' = FileOf(t)
      BY <2>1, <2>3 DEF FilesHold
    <3>2. UsesFile(t) => file'[FileOf(t)] = file[FileOf(t)]
      BY <2>2, <2>4, <2>5
    <3> QED
      BY <3>1, <3>2 DEF UsesFile, WholeFile
  <2> QED
    BY <2>7, <2>8 DEF FilesHold
<1>5. ASSUME NEW s \in Slot, Write(s)
      PROVE  FilesHold'
  <2> DEFINE n == job[s].next
             i == job[s].image
  <2>1. /\ n \in 1..ChunksOf[i] /\ i \in Image /\ ChunksOf[i] \in Position
        /\ FileOf(s) \in Name /\ job[s].pc = "write"
        /\ job'[s].next = n + 1 /\ job'[s].image = i
        /\ job'[s].pc = (IF n = ChunksOf[i] THEN "convert" ELSE "write")
        /\ \A t \in Slot \ {s} : job'[t] = job[t]
    BY <1>5, WorkerAssumption DEF Write, JobsKnow, JobState, FileOf
  <2>2. /\ file'[FileOf(s)] = [file[FileOf(s)] EXCEPT ![n] = i]
        /\ \A m \in Name \ {FileOf(s)} : file'[m] = file[m]
    BY <1>5, <2>1 DEF Write
  <2>3. file'[FileOf(s)] = [k \in Position |-> IF k < n + 1 THEN i ELSE Null]
    <3>1. file[FileOf(s)] = [k \in Position |-> IF k < n THEN i ELSE Null]
      BY <2>1 DEF FilesHold
    <3>2. \A k \in Position : k < n + 1 <=> k < n \/ k = n
      BY <2>1, WorkerAssumption DEF Position
    <3> QED
      BY <2>2, <3>1, <3>2
  <2>4. n = ChunksOf[i] => file'[FileOf(s)] = WholeFile(i)
    <3>1. n = ChunksOf[i] => \A k \in Position : k < n + 1 <=> k <= ChunksOf[i]
      BY <2>1, WorkerAssumption DEF Position
    <3> QED
      BY <2>3, <3>1 DEF WholeFile
  <2>5. FileOf(s)' = FileOf(s) /\ \A t \in Slot \ {s} : FileOf(t)' = FileOf(t)
    BY <2>1 DEF FileOf
  <2>6. \A t \in Slot \ {s} : UsesFile(t) => FileOf(t) # FileOf(s)
    BY <2>1 DEF NoSharing, SharesFile, UsesFile
  <2>7. \A t \in Slot : UsesFile(t) => FileOf(t) \in Name
    BY WorkerAssumption DEF UsesFile, FileOf, JobsKnow
  <2> DEFINE Holds(t) ==
        /\ job[t].pc = "write" =>
             file[FileOf(t)] = [k \in Position |-> IF k < job[t].next
                                                   THEN job[t].image ELSE Null]
        /\ job[t].pc = "convert" => file[FileOf(t)] = WholeFile(job[t].image)
  <2>8. Holds(s)'
    BY <2>1, <2>3, <2>4, <2>5 DEF WholeFile
  <2>9. ASSUME NEW t \in Slot \ {s} PROVE Holds(t)'
    <3>1. Holds(t) /\ job'[t] = job[t] /\ FileOf(t)' = FileOf(t)
      BY <2>1, <2>5 DEF FilesHold
    <3>2. UsesFile(t) => file'[FileOf(t)] = file[FileOf(t)]
      BY <2>2, <2>6, <2>7
    <3> QED
      BY <3>1, <3>2 DEF UsesFile, WholeFile
  <2> QED
    BY <2>8, <2>9 DEF FilesHold
<1>6. CASE ApiMoves \/ UNCHANGED vars
  BY <1>1, <1>6 DEF ApiMoves, vars, workerVars
<1>7. CASE WorkerMoves
  BY <1>1, <1>2, <1>3, <1>4, <1>5, <1>7
     DEF WorkerMoves, WorkerNext, RunJob, Receive, OrphanEnds
<1> QED
  BY <1>6, <1>7 DEF Next

\* A qemu-img that a crash leaves behind reads a whole file, and goes on doing so
\* while no job opens or writes that file.
LEMMA OrphansStayWhole ==
  ASSUME WorkerInv, NoOrphanShares, NoOrphanShares', FilesHold, OrphansWhole, [Next]_vars
  PROVE  OrphansWhole'
<1> USE DEF WorkerInv, WorkerTypeOK
<1>1. CASE UNCHANGED <<orphans, file>>
  BY <1>1 DEF OrphansWhole, WholeFile
<1>2. CASE Crash
  <2>1. PICK S \in SUBSET Converting : orphans' = orphans \cup {job[s] : s \in S}
    BY <1>2 DEF Crash
  <2>2. \A s \in S : file[NameOf[job[s].image]] = WholeFile(job[s].image)
    BY DEF FilesHold, FileOf, Converting
  <2>3. file' = file
    BY <1>2 DEF Crash
  <2> QED
    BY <2>1, <2>2, <2>3 DEF OrphansWhole, WholeFile
<1>3. ASSUME NEW s \in Slot, Open(s) \/ Write(s)
      PROVE  OrphansWhole'
  <2>1. orphans' = orphans /\ \A n \in Name \ {FileOf(s)} : file'[n] = file[n]
    BY <1>3 DEF Open, Write
  <2>2. \A o \in orphans : NameOf[o.image] # FileOf(s)
    <3>1. CASE Write(s)
      BY <3>1 DEF Write, NoOrphanShares, SharesWithOrphan, UsesFile
    <3>2. CASE Open(s)
      <4>1. job'[s].pc = "write" /\ job'[s].image = job[s].image
        BY <3>2 DEF Open, JobState
      <4>2. UsesFile(s)' /\ FileOf(s)' = FileOf(s)
        BY <4>1 DEF UsesFile, FileOf
      <4> QED
        BY <2>1, <4>2 DEF NoOrphanShares, SharesWithOrphan
    <3> QED
      BY <1>3, <3>1, <3>2
  <2> QED
    BY <2>1, <2>2, WorkerAssumption DEF OrphansWhole, WholeFile
<1>4. ASSUME NEW o \in orphans, OrphanEnds(o)
      PROVE  OrphansWhole'
  BY <1>4 DEF OrphanEnds, OrphansWhole, WholeFile
<1>5. CASE ApiMoves \/ UNCHANGED vars
  BY <1>1, <1>5 DEF ApiMoves, vars, workerVars
<1>6. CASE WorkerMoves
  <2>1. ASSUME NEW s \in Slot, Start(s) \/ Lookup(s) \/ Convert(s) \/ Fail(s)
        PROVE  UNCHANGED <<orphans, file>>
    BY <2>1 DEF Start, Lookup, Convert, Fail
  <2> QED
    BY <1>1, <1>2, <1>3, <1>4, <1>6, <2>1 DEF WorkerMoves, WorkerNext, RunJob, Receive
<1> QED
  BY <1>5, <1>6 DEF Next

LEMMA InitFiles == Init => FilesHold /\ OrphansWhole
  BY DEF Init, WorkerInit, FilesHold, OrphansWhole, IdleJob

LEMMA FilesThenWhole == FilesHold => AwaitedWhole
  BY DEF FilesHold, AwaitedWhole, Converting

\* As long as no two threads share a file, a job of the running worker converts
\* whole images only: nothing else, no crash, failure, deletion or change of a
\* task, can spoil one.  As long as no thread is inside the file of a qemu-img
\* that outlived its worker either, that holds of every conversion.
THEOREM WholeIfNotShared == Spec => WholeUnlessShared
<1>1. WorkerInv /\ NoSharing /\ NoSharing' /\ FilesHold /\ [Next]_vars => FilesHold'
  BY FilesStillHold
<1>2. WorkerInv /\ NoOrphanShares /\ NoOrphanShares' /\ FilesHold /\ OrphansWhole
      /\ [Next]_vars => OrphansWhole'
  BY OrphansStayWhole
<1>3. AwaitedWhole /\ OrphansWhole <=> ConvertsWholeImage
  BY DEF ConvertsWholeImage
<1> QED
  BY <1>1, <1>2, <1>3, InitFiles, FilesThenWhole, WorkerInvariant, PTL
     DEF Spec, WholeUnlessShared

\* With one green thread, the default of the option `workers`, a job of the
\* running worker converts whole images only, however often the worker dies.
THEOREM OneThreadConvertsWhole ==
  ASSUME NEW s, Slot = {s}
  PROVE  Spec => []AwaitedWhole
<1>1. NoSharing
  BY DEF NoSharing, SharesFile
<1> QED
  BY <1>1, WholeIfNotShared, PTL DEF WholeUnlessShared

\* With one green thread and a worker that never dies, every qemu-img reads whole
\* images only.
THEOREM OneThreadNoCrash ==
  ASSUME NEW s, Slot = {s}, MaxCrashes = 0
  PROVE  Spec => []ConvertsWholeImage
<1>1. NoSharing
  BY DEF NoSharing, SharesFile
<1>2. Init => orphans = {}
  BY DEF Init, WorkerInit
<1>3. WorkerInv /\ orphans = {} /\ [Next]_vars => (orphans = {})'
  <2> SUFFICES ASSUME WorkerInv, orphans = {}, [Next]_vars PROVE orphans' = {}
    OBVIOUS
  <2>1. ~Crash
    BY DEF Crash, WorkerInv, WorkerTypeOK
  <2>2. CASE ApiMoves \/ UNCHANGED vars
    BY <2>2 DEF ApiMoves, vars, workerVars
  <2>3. CASE WorkerMoves
    BY <2>1, <2>3 DEF WorkerMoves, WorkerNext, Receive, Start, RunJob, Lookup, Open,
                      Write, Convert, Fail
  <2> QED
    BY <2>2, <2>3 DEF Next
<1>4. orphans = {} => NoOrphanShares
  BY DEF NoOrphanShares, SharesWithOrphan
<1> QED
  BY <1>1, <1>2, <1>3, <1>4, WorkerInvariant, WholeIfNotShared, PTL
     DEF Spec, WholeUnlessShared

----------------------------------------------------------------------------
(* Launches move on.                                                       *)

\* What the step of an API process or no step at all leaves to the worker.
LEMMA WorkerWaits ==
  ASSUME WorkerInv, ApiMoves \/ UNCHANGED vars
  PROVE  TopicMoves /\ BacklogMoves /\ JobsMove
<1>1. UNCHANGED workerVars /\ sent \subseteq sent' /\ taken' = taken
  BY DEF ApiMoves, vars, workerVars, ApiStep, Post, Patch, Delete, Arrive,
     Handle, CreateInvalid, CreateDuplicate, Create, NotFound, GetForDelete,
     GetForPatch, PatchInvalid, PatchRefused, SaveInvalid, Save, SoftDelete, Launch, Cast,
     ServerError
<1>2. TopicMoves
  BY <1>1 DEF TopicMoves, Pending
<1>3. BacklogMoves /\ JobsMove
  BY <1>1 DEF workerVars, BacklogMoves, JobsMove
<1> QED
  BY <1>2, <1>3

LEMMA ReceiveMoves ==
  ASSUME WorkerInv, Receive
  PROVE  TopicMoves /\ BacklogMoves /\ JobsMove
<1>1. PICK m \in Pending :
        /\ taken' = taken \cup {m} /\ sent' = sent
        /\ backlog' = IF Defined(EndpointNames) THEN Append(backlog, m) ELSE backlog
  BY DEF Receive, Take
<1>2. m \in Message /\ backlog \in Seq(Message)
  BY DEF WorkerInv, ApiInv, ApiTypeOK, TopicTypeOK, Pending, WorkerTypeOK
<1>3. TopicMoves
  BY <1>1 DEF TopicMoves, Pending
<1>4. BacklogMoves
  <2>1. backlog' = Append(backlog, m) \/ backlog' = backlog
    BY <1>1
  <2> QED
    BY <1>2, <2>1 DEF BacklogMoves
<1>5. JobsMove
  BY DEF Receive, JobsMove
<1> QED
  BY <1>3, <1>4, <1>5

LEMMA StartMoves ==
  ASSUME WorkerInv, NEW s \in Slot, Start(s)
  PROVE  TopicMoves /\ BacklogMoves /\ JobsMove
<1>1. /\ ~Running(s) /\ backlog # <<>> /\ backlog' = Tail(backlog)
      /\ UNCHANGED <<sent, taken>>
      /\ job' = [job EXCEPT ![s] = [IdleJob EXCEPT !.pc = "lookup",
                                                   !.message = Head(backlog)]]
  BY DEF Start, Running
<1>2. /\ backlog \in Seq(Message) /\ job \in [Slot -> JobState]
  BY DEF WorkerInv, WorkerTypeOK
<1>3. /\ job'[s].message = Head(backlog) /\ job'[s].pc = "lookup"
      /\ \A t \in Slot \ {s} : job'[t] = job[t]
  BY <1>1, <1>2 DEF IdleJob
<1>4. /\ Head(backlog) = backlog[1]
      /\ \A i \in 1..Len(backlog) :
           i # 1 => i - 1 \in 1..Len(backlog') /\ backlog'[i - 1] = backlog[i]
  BY <1>1, <1>2
<1>5. Running(s)' /\ job'[s].message = backlog[1]
  BY <1>3, <1>4 DEF Running
<1>6. BacklogMoves
  BY <1>1, <1>4, <1>5 DEF BacklogMoves
<1>7. TopicMoves
  BY <1>1 DEF TopicMoves, Pending
<1>8. JobsMove
  BY <1>1, <1>3 DEF JobsMove
<1> QED
  BY <1>6, <1>7, <1>8

\* A job that moves has less to do: between two chunks it has written one more,
\* and the last one is within the longest image.
LEMMA JobNearsItsEnd ==
  ASSUME WorkerInv, NEW s \in Slot, RunJob(s)
  PROVE  StepsLeft(s)' < StepsLeft(s)
<1>1. /\ job \in [Slot -> JobState] /\ JobsKnow
  BY DEF WorkerInv, WorkerTypeOK
<1>2. MaxChunks \in Nat /\ \A i \in Image : ChunksOf[i] \in 1..MaxChunks
  BY WorkerAssumption DEF Position
<1>3. /\ job[s].pc # "idle" => StepsLeft(s) > 0
      /\ job[s].pc = "write" => /\ job[s].image \in Image /\ job[s].next \in Nat
                                /\ job[s].next <= ChunksOf[job[s].image]
  BY <1>1, <1>2 DEF StepsLeft, JobsKnow, JobState
<1>4. CASE Convert(s) \/ Fail(s)
  <2>1. job'[s].pc = "idle" /\ job[s].pc # "idle"
    BY <1>1, <1>4 DEF Convert, Fail, IdleJob
  <2> QED
    BY <1>3, <2>1 DEF StepsLeft
<1>5. CASE Lookup(s)
  <2>1. job'[s].pc = "open" /\ job[s].pc = "lookup"
    BY <1>1, <1>5 DEF Lookup, JobState
  <2> QED
    BY <1>2, <2>1 DEF StepsLeft
<1>6. CASE Open(s)
  <2>1. /\ job'[s].pc = "write" /\ job[s].pc = "open"
        /\ job'[s].next = 1 /\ job'[s].image = job[s].image /\ job[s].image \in Image
    BY <1>1, <1>6 DEF Open, JobState, JobsKnow
  <2> QED
    BY <1>2, <2>1 DEF StepsLeft
<1>7. CASE Write(s)
  <2>1. /\ job[s].pc = "write"
        /\ job'[s].next = job[s].next + 1 /\ job'[s].image = job[s].image
        /\ job'[s].pc = IF job[s].next = ChunksOf[job[s].image] THEN "convert" ELSE "write"
    BY <1>1, <1>7 DEF Write, JobState
  <2> QED
    BY <1>2, <1>3, <2>1 DEF StepsLeft
<1> QED
  BY <1>4, <1>5, <1>6, <1>7 DEF RunJob

LEMMA RunJobMoves ==
  ASSUME WorkerInv, NEW s \in Slot, RunJob(s)
  PROVE  TopicMoves /\ BacklogMoves /\ JobsMove
<1>1. /\ UNCHANGED <<sent, taken, backlog>>
      /\ \A t \in Slot \ {s} : job'[t] = job[t]
  <2>1. CASE Write(s)
    BY <2>1 DEF Write, WorkerInv, WorkerTypeOK
  <2>2. CASE Lookup(s) \/ Open(s) \/ Convert(s) \/ Fail(s)
    BY <2>2 DEF Lookup, Open, Convert, Fail, WorkerInv, WorkerTypeOK
  <2> QED
    BY <2>1, <2>2 DEF RunJob
<1>2. TopicMoves /\ BacklogMoves
  BY <1>1 DEF TopicMoves, BacklogMoves, Pending
<1>3. JobsMove
  BY <1>1, JobNearsItsEnd DEF JobsMove
<1> QED
  BY <1>2, <1>3

\* A qemu-img that ends without its worker moves no launch.
LEMMA OrphanMoves ==
  ASSUME NEW o \in orphans, OrphanEnds(o)
  PROVE  TopicMoves /\ BacklogMoves /\ JobsMove
  BY DEF OrphanEnds, TopicMoves, BacklogMoves, JobsMove, Pending

\* A step at which the worker does not die.
LEMMA StepMoves ==
  ASSUME WorkerInv, [Next]_vars, crashes' = crashes
  PROVE  TopicMoves /\ BacklogMoves /\ JobsMove
<1>1. CASE ApiMoves \/ UNCHANGED vars
  BY <1>1, WorkerWaits
<1>2. CASE WorkerMoves
  <2>1. ~Crash
    BY DEF Crash, WorkerInv, WorkerTypeOK
  <2> QED
    BY <1>2, <2>1, ReceiveMoves, StartMoves, RunJobMoves, OrphanMoves
       DEF WorkerMoves, WorkerNext
<1> QED
  BY <1>1, <1>2 DEF Next

\* Unless the worker dies no launch is lost or overtaken between the topic and
\* its job, and every job comes nearer to its end with each step.
THEOREM NoLaunchIsLost == Spec => LaunchesMoveOn
<1> DEFINE Moves == crashes' = crashes => TopicMoves /\ BacklogMoves /\ JobsMove
<1>1. WorkerInv /\ [Next]_vars => Moves
  BY StepMoves
<1> QED
  BY <1>1, WorkerInvariant, PTL DEF Spec, LaunchesMoveOn

----------------------------------------------------------------------------
(* The service of the commit.                                              *)

Dormant == backlog = <<>> /\ \A s \in Slot : ~Running(s)

\* As long as the endpoint lacks the method that WorkerAPI.launch_task names, as
\* it does at this commit, no job ever runs and no file is ever touched, whatever
\* else is put right, however many requests are answered and launches are cast.
THEOREM NothingRunsAsCommitted ==
  ASSUME ~Defined(EndpointNames)
  PROVE  Spec => [](Dormant /\ file = [n \in Name |-> EmptyFile])
<1> DEFINE Inv == Dormant /\ file = [n \in Name |-> EmptyFile]
<1>1. Init => Inv
  BY DEF Init, WorkerInit, Dormant, Running, IdleJob
<1>2. Inv /\ [Next]_vars => Inv'
  <2> SUFFICES ASSUME Inv, [Next]_vars PROVE Inv'
    OBVIOUS
  <2> USE DEF Dormant, Running
  <2>1. CASE Receive
    BY <2>1 DEF Receive
  <2>2. CASE Crash
    BY <2>2 DEF Crash, IdleJob
  <2>3. ASSUME NEW s \in Slot, Start(s) \/ RunJob(s) PROVE FALSE
    BY <2>3 DEF Start, RunJob, Lookup, Open, Write, Convert, Fail
  <2>5. ASSUME NEW o \in orphans, OrphanEnds(o) PROVE Inv'
    BY <2>5 DEF OrphanEnds
  <2>4. CASE ApiMoves \/ UNCHANGED vars
    BY <2>4 DEF ApiMoves, vars, workerVars
  <2> QED
    BY <2>1, <2>2, <2>3, <2>4, <2>5 DEF Next, WorkerMoves, WorkerNext
<1> QED
  BY <1>1, <1>2, PTL DEF Spec
============================================================================
