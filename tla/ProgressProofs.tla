--------------------------- MODULE ProgressProofs ---------------------------
(***************************************************************************)
(* Why the whole service moves: every request is answered and no launch    *)
(* waits for ever on its way from the topic to the end of its job, for     *)
(* every set of requests, threads and images and every bound on crashes.   *)
(* Each proof follows one actor: nobody else takes it back, and its own    *)
(* step takes it on.  That it can step (HandlersNeverStuck of TasksApi,    *)
(* which TLC checks, and WorkerNeverStuck) is a hypothesis here: it speaks *)
(* of ENABLED, which the provers do not reason about.                      *)
(***************************************************************************)
EXTENDS ContractProofs, AnswerProofs

ServiceInv == WorkerInv /\ LaunchesKnow

LEMMA ServiceInvariant == Spec => []ServiceInv
<1>1. Init => ServiceInv
  BY InitWorkerInv, InitLaunchesKnow DEF ServiceInv
<1>2. ServiceInv /\ [Next]_vars => ServiceInv'
  BY NextWorkerInv, NextLaunchesKnow DEF ServiceInv
<1> QED
  BY <1>1, <1>2, PTL DEF Spec

----------------------------------------------------------------------------
(* Requests.                                                               *)

\* In the whole service, too, every request that a handler has taken is answered:
\* no job, crash or topic keeps it from its answer (TasksController's methods).
THEOREM ServiceAnswers ==
  FairSpec /\ []HandlersNeverStuck => EveryRequestAnswered
<1>1. FairSpec => FairApiSpec
  BY ServiceIsApi DEF FairSpec, Fairness, FairApiSpec
<1> QED
  BY <1>1, AnsweredInTheEnd

----------------------------------------------------------------------------
(* The worker.                                                             *)

ServerReady == ENABLED <<ReceiveStep>>_vars

ThreadReady(s) == ENABLED <<StartStep(s)>>_vars

JobReady(s) == ENABLED <<JobStep(s)>>_vars

\* What is taken for granted of the worker: a server with messages in its topic,
\* an idle thread with a submission in the backlog and a running job can step.
\* The guards of Receive and Start say so, and a job may at least fail.
WorkerNeverStuck ==
  /\ WorkerUp /\ Pending # {} => ServerReady
  /\ \A s \in Slot : /\ ~Running(s) /\ backlog # <<>> => ThreadReady(s)
                     /\ Running(s) => JobReady(s)

----------------------------------------------------------------------------
(* The topic.                                                              *)

HasWork(T) == WorkerUp /\ Pending # {} /\ TakenFrom = T

HasTaken(T) == TakenFrom # T

\* Only the server takes from the topic, and nobody takes back what was cast.
LEMMA OnlyServerTakes ==
  ASSUME WorkerInv, [Next]_vars, ~ReceiveStep
  PROVE  taken' = taken /\ sent \subseteq sent'
<1>1. CASE ApiMoves \/ UNCHANGED vars
  BY <1>1 DEF ApiMoves, vars, ApiStep, Post, Patch, Delete, Arrive,
     Handle, CreateInvalid, CreateDuplicate, Create, NotFound, GetForDelete,
     GetForPatch, PatchInvalid, PatchRefused, SaveInvalid, Save, SoftDelete, Launch, Cast,
     ServerError
<1>2. CASE WorkerMoves
  <2>1. \/ Crash \/ \E s \in Slot : Start(s) \/ RunJob(s)
        \/ \E o \in orphans : OrphanEnds(o)
    BY <1>2 DEF WorkerMoves, WorkerNext, ReceiveStep
  <2> QED
    BY <2>1 DEF Crash, Start, RunJob, Lookup, Open, Write, Convert, Fail, OrphanEnds
<1> QED
  BY <1>1, <1>2 DEF Next

\* The launch it takes is of a request whose launch it had not taken: there is
\* one message of each request.
LEMMA ServerTakesNew ==
  ASSUME ServiceInv, ReceiveStep
  PROVE  TakenFrom' # TakenFrom
<1>1. PICK m \in Pending : taken' = taken \cup {m}
  BY DEF ReceiveStep, Receive, Take
<1>2. taken \subseteq sent
  BY DEF ServiceInv, WorkerInv, ApiInv, ApiTypeOK, TopicTypeOK
<1>3. \A n \in taken : n.request # m.request
  BY <1>1, <1>2 DEF ServiceInv, LaunchesKnow, Pending
<1>4. m.request \notin TakenFrom
  BY <1>3 DEF TakenFrom
<1>5. m.request \in TakenFrom'
  BY <1>1 DEF TakenFrom
<1> QED
  BY <1>4, <1>5

LEMMA TopicStepFrom ==
  ASSUME NEW T \in SUBSET Request, ServiceInv
  PROVE  /\ HasWork(T) /\ [Next]_vars => (HasWork(T) \/ HasTaken(T))'
         /\ HasWork(T) /\ <<ReceiveStep>>_vars => HasTaken(T)'
<1>1. HasWork(T) /\ ReceiveStep => HasTaken(T)'
  BY ServerTakesNew DEF HasWork, HasTaken
<1>2. ASSUME HasWork(T), [Next]_vars, ~ReceiveStep PROVE HasWork(T)'
  <2>1. taken' = taken /\ sent \subseteq sent'
    BY <1>2, OnlyServerTakes DEF ServiceInv
  <2>2. Pending \subseteq Pending' /\ TakenFrom' = TakenFrom
    BY <2>1 DEF Pending, TakenFrom
  <2> QED
    BY <1>2, <2>2 DEF HasWork, WorkerUp, Defined
<1> QED
  BY <1>1, <1>2

\* As long as there are launches in the topic, another one leaves it.
LEMMA TopicIsTakenFrom == FairSpec /\ []WorkerNeverStuck => TopicAdvances
<1>1. ASSUME NEW T \in SUBSET Request
      PROVE  FairSpec /\ []WorkerNeverStuck => (HasWork(T) ~> HasTaken(T))
  <2>1. WorkerNeverStuck => (HasWork(T) => ServerReady)
    BY DEF WorkerNeverStuck, HasWork, ServerReady
  <2>2. ServiceInv
        => /\ HasWork(T) /\ [Next]_vars => (HasWork(T) \/ HasTaken(T))'
           /\ HasWork(T) /\ <<ReceiveStep>>_vars => HasTaken(T)'
    BY TopicStepFrom
  <2>3. Fairness => ServerGoesOn
    BY DEF Fairness
  <2>4. FairSpec /\ []WorkerNeverStuck => []<>~HasWork(T) \/ []<><<ReceiveStep>>_vars
    BY <2>1, <2>3, PTL DEF FairSpec, ServerGoesOn, ServerReady
  <2>5. FairSpec => []ServiceInv /\ [][Next]_vars
    BY ServiceInvariant, PTL DEF FairSpec, Spec
  <2> QED
    BY <2>2, <2>4, <2>5, PTL
<1>2. FairSpec /\ []WorkerNeverStuck
      => \A T \in SUBSET Request : HasWork(T) ~> HasTaken(T)
  BY <1>1
<1> QED
  BY <1>2 DEF TopicAdvances, HasWork, HasTaken
----------------------------------------------------------------------------
(* The backlog.                                                            *)

\* The launch of request r comes next and thread s is idle.
Waits(r, s) == IsFirst(r) /\ ~Running(s)

\* The first launch of the backlog is the only one of its request, so a thread
\* that takes it leaves none of that request behind.
LEMMA StartTakesFirst ==
  ASSUME ServiceInv, NEW r \in Request, IsFirst(r), NEW t \in Slot, Start(t)
  PROVE  ~IsFirst(r)'
<1>1. /\ backlog # <<>> /\ backlog' = Tail(backlog) /\ backlog \in Seq(Message)
      /\ Head(backlog).request = r
  BY DEF IsFirst, Start, ServiceInv, WorkerInv, WorkerTypeOK
<1>2. /\ taken \subseteq sent
      /\ \A i \in 1..Len(backlog) : backlog[i] \in taken
      /\ \A i, k \in 1..Len(backlog) : backlog[i] = backlog[k] => i = k
  BY DEF ServiceInv, WorkerInv, OneRun, ApiInv, ApiTypeOK, TopicTypeOK
<1>3. SUFFICES ASSUME backlog' # <<>>, Head(backlog').request = r PROVE FALSE
  BY DEF IsFirst
<1>4. /\ 1 \in 1..Len(backlog) /\ Head(backlog) = backlog[1]
      /\ 2 \in 1..Len(backlog) /\ Head(backlog') = backlog[2]
  BY <1>1, <1>3
<1>5. backlog[1] \in sent /\ backlog[2] \in sent /\ backlog[1].request = backlog[2].request
  BY <1>1, <1>2, <1>3, <1>4
<1>6. backlog[1] = backlog[2]
  BY <1>5 DEF ServiceInv, LaunchesKnow
<1>7. 1 = 2
  BY <1>2, <1>4, <1>6
<1> QED
  BY <1>7

\* Nobody else gives the idle thread work or takes the launch's place: a new
\* launch joins the end, a crash empties the backlog.
LEMMA BacklogStepFrom ==
  ASSUME NEW r \in Request, NEW s \in Slot, ServiceInv
  PROVE  /\ Waits(r, s) /\ [Next]_vars => Waits(r, s)' \/ ~IsFirst(r)'
         /\ Waits(r, s) /\ <<StartStep(s)>>_vars => ~IsFirst(r)'
<1>1. /\ backlog \in Seq(Message) /\ job \in [Slot -> JobState]
      /\ taken \subseteq sent /\ sent \subseteq Message
  BY DEF ServiceInv, WorkerInv, WorkerTypeOK, ApiInv, ApiTypeOK, TopicTypeOK
<1>2. Waits(r, s) /\ StartStep(s) => ~IsFirst(r)'
  BY StartTakesFirst DEF Waits, StartStep
<1>3. ASSUME Waits(r, s), [Next]_vars PROVE Waits(r, s)' \/ ~IsFirst(r)'
  <2>1. CASE ApiMoves \/ UNCHANGED vars
    <3>1. backlog' = backlog /\ job' = job
      BY <2>1 DEF ApiMoves, workerVars, vars
    <3> QED
      BY <1>3, <3>1 DEF Waits, IsFirst, Running
  <2>2. CASE Receive
    <3>1. PICK m \in Pending : backlog' = Append(backlog, m) \/ backlog' = backlog
      BY <2>2 DEF Receive
    <3>2. m \in Message /\ backlog # <<>>
      BY <1>1, <1>3 DEF Pending, Waits, IsFirst
    <3>3. backlog' # <<>> /\ Head(backlog') = Head(backlog)
      BY <1>1, <3>1, <3>2
    <3>4. job' = job
      BY <2>2 DEF Receive
    <3> QED
      BY <1>3, <3>3, <3>4 DEF Waits, IsFirst, Running
  <2>3. CASE Crash
    BY <2>3 DEF Crash, IsFirst
  <2>4. ASSUME NEW t \in Slot, Start(t) PROVE ~IsFirst(r)'
    BY <1>3, <2>4, StartTakesFirst DEF Waits
  <2>5. ASSUME NEW t \in Slot, RunJob(t) PROVE Waits(r, s)'
    <3>1. backlog' = backlog /\ Running(t)
      BY <2>5 DEF RunJob, Lookup, Open, Write, Convert, Fail, Running
    <3>2. t # s
      BY <1>3, <3>1 DEF Waits
    <3>3. job'[s] = job[s]
      <4>1. CASE Write(t)
        BY <1>1, <3>2, <4>1 DEF Write
      <4>2. CASE Lookup(t) \/ Open(t) \/ Convert(t) \/ Fail(t)
        BY <1>1, <3>2, <4>2 DEF Lookup, Open, Convert, Fail
      <4> QED
        BY <2>5, <4>1, <4>2 DEF RunJob
    <3> QED
      BY <1>3, <3>1, <3>3 DEF Waits, IsFirst, Running
  <2>6. ASSUME NEW o \in orphans, OrphanEnds(o) PROVE Waits(r, s)'
    BY <1>3, <2>6 DEF OrphanEnds, Waits, IsFirst, Running
  <2> QED
    BY <1>3, <2>1, <2>2, <2>3, <2>4, <2>5, <2>6 DEF Next, WorkerMoves, WorkerNext
<1> QED
  BY <1>2, <1>3

\* The first launch of the backlog goes to a thread.
LEMMA BacklogIsWorkedOff == FairSpec /\ []WorkerNeverStuck => BacklogAdvances
<1>1. ASSUME NEW r \in Request, NEW s \in Slot
      PROVE  FairSpec /\ []WorkerNeverStuck => (Waits(r, s) ~> ~IsFirst(r))
  <2>1. WorkerNeverStuck => (Waits(r, s) => ThreadReady(s))
    BY DEF WorkerNeverStuck, Waits, IsFirst, ThreadReady
  <2>2. ServiceInv
        => /\ Waits(r, s) /\ [Next]_vars => Waits(r, s)' \/ ~IsFirst(r)'
           /\ Waits(r, s) /\ <<StartStep(s)>>_vars => ~IsFirst(r)'
    BY BacklogStepFrom
  <2>3. Fairness => ThreadGoesOn(s)
    BY DEF Fairness
  <2>4. FairSpec /\ []WorkerNeverStuck => []<>~Waits(r, s) \/ []<><<StartStep(s)>>_vars
    BY <2>1, <2>3, PTL DEF FairSpec, ThreadGoesOn, ThreadReady
  <2>5. FairSpec => []ServiceInv /\ [][Next]_vars
    BY ServiceInvariant, PTL DEF FairSpec, Spec
  <2> QED
    BY <2>2, <2>4, <2>5, PTL
<1>2. FairSpec /\ []WorkerNeverStuck
      => \A r \in Request, s \in Slot : Waits(r, s) ~> ~IsFirst(r)
  BY <1>1
<1> QED
  BY <1>2 DEF BacklogAdvances, Waits

----------------------------------------------------------------------------
(* The jobs.                                                               *)

HasLeft(s, k) == StepsLeft(s) = k

HasLess(s, k) == StepsLeft(s) < k

\* No step but a crash or its own moves a job, and each takes it nearer its end.
LEMMA JobStepFrom ==
  ASSUME NEW s \in Slot, NEW k \in 1..MaxChunks + 3, ServiceInv
  PROVE  /\ HasLeft(s, k) => Running(s)
         /\ HasLeft(s, k) /\ [Next]_vars => (HasLeft(s, k) \/ HasLess(s, k))'
         /\ HasLeft(s, k) /\ <<JobStep(s)>>_vars => HasLess(s, k)'
<1>1. k \in Nat /\ k > 0
  BY WorkerAssumption
<1>2. HasLeft(s, k) => Running(s)
  BY <1>1 DEF HasLeft, StepsLeft, Running
<1>3. HasLeft(s, k) /\ JobStep(s) => HasLess(s, k)'
  BY JobNearsItsEnd DEF HasLeft, HasLess, JobStep, ServiceInv
<1>4. ASSUME HasLeft(s, k), [Next]_vars PROVE (HasLeft(s, k) \/ HasLess(s, k))'
  <2>1. CASE crashes' = crashes
    <3>1. job'[s] = job[s] \/ StepsLeft(s)' < StepsLeft(s)
      BY <1>2, <1>4, <2>1, StepMoves DEF ServiceInv, JobsMove
    <3>2. job'[s] = job[s] => StepsLeft(s)' = StepsLeft(s)
      BY DEF StepsLeft
    <3> QED
      BY <1>4, <3>1, <3>2 DEF HasLeft, HasLess
  <2>2. CASE crashes' # crashes
    <3>1. Crash
      <4>1. ~UNCHANGED workerVars
        BY <2>2 DEF workerVars
      <4>2. WorkerMoves
        BY <1>4, <2>2, <4>1 DEF Next, ApiMoves, vars
      <4> QED
        BY <2>2, <4>2 DEF WorkerMoves, WorkerNext, Receive, Start, RunJob, Lookup, Open,
           Write, Convert, Fail, OrphanEnds
    <3>2. job'[s].pc = "idle"
      BY <3>1 DEF Crash, IdleJob
    <3>3. StepsLeft(s)' = 0
      BY <3>2 DEF StepsLeft
    <3> QED
      BY <1>1, <3>3 DEF HasLess
  <2> QED
    BY <2>1, <2>2
<1> QED
  BY <1>2, <1>3, <1>4

\* Every job comes nearer to its end.
LEMMA JobsAreDone == FairSpec /\ []WorkerNeverStuck => JobsAdvance
<1>1. ASSUME NEW s \in Slot, NEW k \in 1..MaxChunks + 3
      PROVE  FairSpec /\ []WorkerNeverStuck => (HasLeft(s, k) ~> HasLess(s, k))
  <2>1. WorkerNeverStuck => (Running(s) => JobReady(s))
    BY DEF WorkerNeverStuck, JobReady
  <2>2. ServiceInv
        => /\ HasLeft(s, k) => Running(s)
           /\ HasLeft(s, k) /\ [Next]_vars => (HasLeft(s, k) \/ HasLess(s, k))'
           /\ HasLeft(s, k) /\ <<JobStep(s)>>_vars => HasLess(s, k)'
    BY JobStepFrom
  <2>3. Fairness => ThreadGoesOn(s)
    BY DEF Fairness
  <2>4. FairSpec /\ []WorkerNeverStuck => []<>~Running(s) \/ []<><<JobStep(s)>>_vars
    BY <2>1, <2>3, PTL DEF FairSpec, ThreadGoesOn, JobReady
  <2>5. FairSpec => []ServiceInv /\ [][Next]_vars
    BY ServiceInvariant, PTL DEF FairSpec, Spec
  <2> QED
    BY <2>2, <2>4, <2>5, PTL
<1>2. FairSpec /\ []WorkerNeverStuck
      => \A s \in Slot, k \in 1..MaxChunks + 3 : HasLeft(s, k) ~> HasLess(s, k)
  BY <1>1
<1> QED
  BY <1>2 DEF JobsAdvance, HasLeft, HasLess

----------------------------------------------------------------------------
\* No launch stays where it is between the topic and the end of its job: not
\* behind another one, not for a thread whose job failed, not after a crash
\* (RPCService's server, the endpoint's executor, do_launch_task).
THEOREM LaunchesGoOn == FairSpec /\ []WorkerNeverStuck => LaunchesAdvance
  BY TopicIsTakenFrom, BacklogIsWorkedOff, JobsAreDone DEF LaunchesAdvance
============================================================================
