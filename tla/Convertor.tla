----------------------------- MODULE Convertor -----------------------------
(***************************************************************************)
(* The whole service: API processes and a worker that share the database   *)
(* and the topic.  A step of the system is a step of one of them.          *)
(***************************************************************************)
EXTENDS TasksApi, Worker

vars == <<table, sent, taken, req, backlog, job, file, orphans, crashes>>

Init == ApiInit /\ WorkerInit

ApiMoves == (\E r \in Request : ApiStep(r)) /\ UNCHANGED workerVars

WorkerMoves == WorkerNext /\ UNCHANGED req

Next == ApiMoves \/ WorkerMoves

Spec == Init /\ [][Next]_vars

ReceiveStep == Receive /\ UNCHANGED req

StartStep(s) == Start(s) /\ UNCHANGED req

JobStep(s) == RunJob(s) /\ UNCHANGED req

\* Handlers and jobs that have started run on, the worker's server keeps
\* reading its topic and the executor gives its idle threads work.  Clients may
\* stop sending, and nothing obliges the worker to crash.
ServerGoesOn == WF_vars(ReceiveStep)

ThreadGoesOn(s) == WF_vars(StartStep(s)) /\ WF_vars(JobStep(s))

Fairness ==
  /\ ApiFairness
  /\ ServerGoesOn
  /\ \A s \in Slot : ThreadGoesOn(s)

FairSpec == Spec /\ Fairness

----------------------------------------------------------------------------
Running(s) == job[s].pc # "idle"

\* Slot s runs the launch of request r.
Runs(s, r) == Running(s) /\ job[s].message.request = r

\* The launch of request r waits in the topic or in the backlog.
Queued(r) == \/ \E m \in Pending : m.request = r
             \/ \E i \in 1..Len(backlog) : backlog[i].request = r

\* The values of the worker's variables.
WorkerTypeOK ==
  /\ backlog \in Seq(Message)
  /\ job \in [Slot -> JobState]
  /\ file \in [Name -> Content]
  /\ orphans \subseteq {o \in JobState : o.pc = "convert" /\ o.image \in Image}
  /\ crashes \in 0..MaxCrashes

\* A launch is in one place at a time - topic, backlog or one green thread -
\* so no launch is ever worked on twice, across crashes too: the broker is
\* acknowledged before the executor has the message.  In particular no job works
\* again on a launch whose qemu-img has outlived its worker.
OneRun ==
  /\ \A i \in 1..Len(backlog) : backlog[i] \in taken
  /\ \A i, k \in 1..Len(backlog) : backlog[i] = backlog[k] => i = k
  /\ \A s \in Slot : Running(s) =>
       /\ job[s].message \in taken
       /\ \A i \in 1..Len(backlog) : backlog[i] # job[s].message
  /\ \A s, t \in Slot : Running(s) /\ Running(t)
                        /\ job[s].message = job[t].message => s = t
  /\ \A o \in orphans :
       /\ o.message \in taken
       /\ \A i \in 1..Len(backlog) : backlog[i] # o.message
       /\ \A s \in Slot : Running(s) => job[s].message # o.message

\* When a job looks its task up the row is there, deleted or not, and holds the
\* image to download: TaskNotFound means deleted, never "not there yet".
JobHasRow ==
  \A s \in Slot : job[s].pc = "lookup" => Exists(job[s].message.uuid)

\* What the qemu-img of slot s reads is the whole image of the task and nothing
\* else, the whole time it reads.
AwaitedWhole ==
  \A s \in Converting : file[FileOf(s)] = WholeFile(job[s].image)

OrphansWhole ==
  \A o \in orphans : file[NameOf[o.image]] = WholeFile(o.image)

\* What any qemu-img reads, with or without the worker that started it, is the
\* whole image of the task and nothing else, the whole time it reads: the path
\* in download_image depends on the image's name alone, and nothing in the code
\* keeps two conversions apart.
ConvertsWholeImage == AwaitedWhole /\ OrphansWhole

\* Between open() and the end of the conversion.
UsesFile(s) == job[s].pc \in {"write", "convert"}

\* Another job uses the file that slot s uses.
SharesFile(s) ==
  UsesFile(s) /\ \E t \in Slot \ {s} : UsesFile(t) /\ FileOf(t) = FileOf(s)

NoSharing == \A s \in Slot : ~SharesFile(s)

\* A qemu-img of a worker that died reads the file that slot s uses.
SharesWithOrphan(s) ==
  UsesFile(s) /\ \E o \in orphans : NameOf[o.image] = FileOf(s)

NoOrphanShares == \A s \in Slot : ~SharesWithOrphan(s)

\* Two green threads inside the same file are all that can spoil what a job of
\* the running worker converts: with a single thread not even a crash does.  A
\* qemu-img that has outlived its worker needs more: no later job may download
\* to its file while it reads.
WholeUnlessShared ==
  /\ []NoSharing => []AwaitedWhole
  /\ [](NoSharing /\ NoOrphanShares) => []ConvertsWholeImage

\* An upper bound of the steps that the job of slot s has left.
StepsLeft(s) ==
  CASE job[s].pc = "idle" -> 0
    [] job[s].pc = "convert" -> 1
    [] job[s].pc = "write" -> ChunksOf[job[s].image] - job[s].next + 2
    [] job[s].pc = "open" -> MaxChunks + 2
    [] job[s].pc = "lookup" -> MaxChunks + 3

\* What leaves the topic joins the end of the executor's backlog.
TopicMoves ==
  \A m \in Pending \ Pending' :
    Defined(EndpointNames) => backlog' = Append(backlog, m)

\* What is in the backlog keeps its place or comes one place nearer to a green
\* thread, and the first leaves it for a thread that had nothing to do.
BacklogMoves ==
  \A i \in 1..Len(backlog) :
    \/ i \in 1..Len(backlog') /\ backlog'[i] = backlog[i]
    \/ i - 1 \in 1..Len(backlog') /\ backlog'[i - 1] = backlog[i]
    \/ i = 1 /\ \E s \in Slot : /\ ~Running(s)
                               /\ Running(s)'
                               /\ job'[s].message = backlog[1]

\* A job that moves has less left to do.
JobsMove ==
  \A s \in Slot : Running(s) => \/ job'[s] = job[s]
                                \/ StepsLeft(s)' < StepsLeft(s)

\* Unless the worker dies, no launch is lost or overtaken on its way from the
\* topic to a green thread, and each step of a job brings its thread nearer to
\* the next launch: a failed job is not submitted again and takes no other along.
LaunchesMoveOn ==
  [][crashes' = crashes => TopicMoves /\ BacklogMoves /\ JobsMove]_vars

\* A launch that is in the topic when the worker has died for the last time
\* reaches a job: WorkerAPI.launch_task names a method of the worker's endpoint,
\* and the executor never forgets a submission.
LaunchRuns ==
  \A r \in Request :
     crashes = MaxCrashes /\ (\E m \in Pending : m.request = r)
     ~> (\E s \in Slot : Runs(s, r))

\* The requests whose launches have left the topic.
TakenFrom == {m.request : m \in taken}

\* The launch of request r is the first of the backlog.
IsFirst(r) == backlog # <<>> /\ Head(backlog).request = r

\* A topic with launches in it is taken from again.
TopicAdvances ==
  \A T \in SUBSET Request :
    WorkerUp /\ Pending # {} /\ TakenFrom = T ~> TakenFrom # T

\* The first of the backlog leaves it once a thread is idle.
BacklogAdvances ==
  \A r \in Request, s \in Slot :
    IsFirst(r) /\ ~Running(s) ~> ~IsFirst(r)

\* A thread comes nearer to the end of its job, failed or not.
JobsAdvance ==
  \A s \in Slot, k \in 1..MaxChunks + 3 :
    StepsLeft(s) = k ~> StepsLeft(s) < k

\* On the whole way of a launch, from the topic to the end of its job, there is
\* no place where it waits for ever: not behind another launch, not for a thread
\* whose job has failed, not for a worker that has died and is up again.
LaunchesAdvance == TopicAdvances /\ BacklogAdvances /\ JobsAdvance

----------------------------------------------------------------------------
(* The refinement: how a state of the service shows a state of the         *)
(* contract.                                                               *)

lifeBar ==
  [u \in Uuid |-> IF ~Exists(u) THEN "absent"
                  ELSE IF Deleted(u) THEN "deleted" ELSE "live"]

\* Request r has committed a write that has to be followed by a launch.
HasLaunch(r) == req[r].committed /\ req[r].launch

IsRunning(r) == \E s \in Slot : Runs(s, r)

StageOf(r) ==
  CASE WasCast(r) /\ Queued(r) -> "queued"
    [] WasCast(r) /\ ~Queued(r) /\ IsRunning(r) -> "running"
    [] WasCast(r) /\ ~Queued(r) /\ ~IsRunning(r) -> "over"
    [] ~WasCast(r) /\ HasLaunch(r) /\ req[r].pc = "launch" -> "owed"
    [] ~WasCast(r) /\ HasLaunch(r) /\ req[r].pc # "launch" -> "over"
    [] ~WasCast(r) /\ ~HasLaunch(r) -> "none"

workBar == [r \in Request |-> StageOf(r)]

Contract == INSTANCE TaskContract WITH life <- lifeBar, work <- workBar

\* The service keeps the safety part of the contract, crashes included.
KeepsContract == Contract!Spec

\* If names resolve it keeps the rest as well: a crash ends launches too.
KeepsFairContract == Contract!FairSpec

----------------------------------------------------------------------------
(* What makes these inductive.                                             *)

\* A job knows its image once it has read the row, and writes within it.
JobsKnow ==
  \A s \in Slot :
     /\ job[s].pc \in {"open", "write", "convert"} => job[s].image \in Image
     /\ job[s].pc \in {"lookup", "open"} => job[s].next = 1
     /\ job[s].pc = "write" => job[s].next \in 1..ChunksOf[job[s].image]

\* The file holds what the job has written so far and nothing else.
FilesHold ==
  \A s \in Slot :
     /\ job[s].pc = "write" =>
          file[FileOf(s)] = [k \in Position |-> IF k < job[s].next
                                                THEN job[s].image ELSE Null]
     /\ job[s].pc = "convert" => file[FileOf(s)] = WholeFile(job[s].image)

\* A handler that has its launch to cast has not cast it, and casts one message.
LaunchesKnow ==
  /\ \A r \in Request :
       /\ req[r].pc \in {"idle", "create", "get"} => ~req[r].launch
       /\ req[r].kind = "DELETE" => ~req[r].launch
       /\ req[r].pc = "launch" => req[r].launch /\ ~WasCast(r)
       /\ WasCast(r) => req[r].launch
  /\ \A m1, m2 \in sent : m1.request = m2.request => m1 = m2

WorkerInv == ApiInv /\ WorkerTypeOK /\ JobsKnow /\ OneRun
============================================================================
