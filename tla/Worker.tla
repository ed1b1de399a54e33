------------------------------- MODULE Worker -------------------------------
(***************************************************************************)
(* The worker process: the endpoint of convertor/worker/messaging          *)
(* /trigger.py with its pool of green threads, and the job each of them    *)
(* runs, DefaultWorker of convertor/worker/default.py.  A job yields at    *)
(* every use of the database, glance, the disk or qemu-img.                *)
(*                                                                         *)
(* An image is a sequence of chunks.  A file is modelled by which image's  *)
(* bytes stand at each chunk position: whole when every position of the    *)
(* image holds that image's bytes and the positions beyond it hold none.   *)
(* A file is read by the qemu-img of a job, and goes on being read by it   *)
(* when the worker that started it has died (orphans).                     *)
(***************************************************************************)
EXTENDS Names, LaunchTopic, Naturals, Sequences

CONSTANTS
  Slot,        \* the green threads of the executor: `workers` of them
  Name,        \* names of glance images
  NameOf,      \* the name of each image; glance does not make names unique
  ChunksOf,    \* how many chunks each image has
  MaxChunks,   \* bound: the longest image
  MaxCrashes   \* bound: how often the worker process dies

VARIABLES
  backlog,   \* messages submitted to the executor that no thread runs yet
  job,       \* what each green thread does
  file,      \* the download directory
  orphans,   \* jobs whose qemu-img has outlived the worker that started it
  crashes    \* how often the process died

Position == 1..MaxChunks

ASSUME WorkerAssumption ==
  /\ NameOf \in [Image -> Name]
  /\ MaxChunks \in Nat
  /\ ChunksOf \in [Image -> Position]
  /\ MaxCrashes \in Nat

\* Null stands for no bytes.
Content == [Position -> Image \cup {Null}]

EmptyFile == [k \in Position |-> Null]

\* The file a complete download of image i leaves.
WholeFile(i) == [k \in Position |-> IF k <= ChunksOf[i] THEN i ELSE Null]

JobState == [pc : {"idle", "lookup", "open", "write", "convert"},
             message : Message \cup {Null},
             image : Image \cup {Null},
             next : Nat]

IdleJob == [pc |-> "idle", message |-> Null, image |-> Null, next |-> 1]

workerVars == <<backlog, job, file, orphans, crashes>>

----------------------------------------------------------------------------
(* The endpoint.                                                           *)

\* Mutant: a submission that finds another one waiting is dropped.
ReceiveIfFree ==
  /\ WorkerUp
  /\ \E m \in Pending :
       /\ Take(m)
       /\ backlog' = IF backlog = <<>> THEN Append(backlog, m) ELSE backlog
  /\ UNCHANGED <<table, job, file, orphans, crashes>>

\* launch_action_plan: the broker already has its acknowledgement when the
\* message is submitted.  A message for a method that the endpoint does not
\* have is acknowledged and dropped.
Receive ==
  /\ WorkerUp
  /\ \E m \in Pending :
       /\ Take(m)
       /\ backlog' = IF Defined(EndpointNames) THEN Append(backlog, m)
                     ELSE backlog
  /\ UNCHANGED <<table, job, file, orphans, crashes>>

\* Mutant: the thread looks at the submission and leaves it in the queue.
StartWithoutPop(s) ==
  /\ job[s].pc = "idle"
  /\ backlog # <<>>
  /\ job' = [job EXCEPT ![s] =
               [IdleJob EXCEPT !.pc = "lookup", !.message = Head(backlog)]]
  /\ UNCHANGED <<backlog, table, sent, taken, file, orphans, crashes>>

\* Mutant: the last submission is never taken.
StartIfTwo(s) ==
  /\ job[s].pc = "idle"
  /\ Len(backlog) > 1
  /\ job' = [job EXCEPT ![s] =
               [IdleJob EXCEPT !.pc = "lookup", !.message = Head(backlog)]]
  /\ backlog' = Tail(backlog)
  /\ UNCHANGED <<table, sent, taken, file, orphans, crashes>>

\* Mutant: the thread takes the newest submission.
StartNewest(s) ==
  /\ job[s].pc = "idle"
  /\ backlog # <<>>
  /\ job' = [job EXCEPT ![s] =
               [IdleJob EXCEPT !.pc = "lookup", !.message = backlog[Len(backlog)]]]
  /\ backlog' = SubSeq(backlog, 1, Len(backlog) - 1)
  /\ UNCHANGED <<table, sent, taken, file, orphans, crashes>>

\* A green thread takes the oldest submission.
Start(s) ==
  /\ job[s].pc = "idle"
  /\ backlog # <<>>
  /\ job' = [job EXCEPT ![s] =
               [IdleJob EXCEPT !.pc = "lookup", !.message = Head(backlog)]]
  /\ backlog' = Tail(backlog)
  /\ UNCHANGED <<table, sent, taken, file, orphans, crashes>>

----------------------------------------------------------------------------
(* DefaultWorker.execute.                                                  *)

FileOf(s) == NameOf[job[s].image]

\* The threads that wait for a qemu-img.
Converting == {s \in Slot : job[s].pc = "convert"}

\* Mutant: the job reads another column.
LookupFormat(s) ==
  /\ job[s].pc = "lookup"
  /\ Visible(job[s].message.uuid, job[s].message.show_deleted)
  /\ job' = [job EXCEPT ![s] =
               [@ EXCEPT !.pc = "open",
                         !.image = table[job[s].message.uuid]["new_format"]]]
  /\ UNCHANGED <<table, sent, taken, backlog, file, orphans, crashes>>

\* Task.get.  The context, show_deleted included, came with the message.
Lookup(s) ==
  /\ job[s].pc = "lookup"
  /\ Defined(HandlerNames \cup GetNames)
  /\ Visible(job[s].message.uuid, job[s].message.show_deleted)
  /\ job' = [job EXCEPT ![s] =
               [@ EXCEPT !.pc = "open",
                         !.image = table[job[s].message.uuid]["image_id"]]]
  /\ UNCHANGED <<table, sent, taken, backlog, file, orphans, crashes>>

\* Mutant: open(path, 'r+') keeps what was there.
OpenKeeping(s) ==
  /\ job[s].pc = "open"
  /\ job' = [job EXCEPT ![s].pc = "write"]
  /\ UNCHANGED <<table, sent, taken, backlog, file, orphans, crashes>>

\* open(path, 'w+'): the path depends on the image's name alone, and what was
\* there is gone.
Open(s) ==
  /\ job[s].pc = "open"
  /\ Defined(DownloadNames)
  /\ file' = [file EXCEPT ![FileOf(s)] = EmptyFile]
  /\ job' = [job EXCEPT ![s].pc = "write"]
  /\ UNCHANGED <<table, sent, taken, backlog, orphans, crashes>>

\* Mutant: the conversion starts one chunk early.
WriteButLast(s) ==
  /\ job[s].pc = "write"
  /\ file' = [file EXCEPT ![FileOf(s)] = [@ EXCEPT ![job[s].next] = job[s].image]]
  /\ job' = [job EXCEPT ![s] =
               [@ EXCEPT !.next = job[s].next + 1,
                         !.pc = IF job[s].next + 1 >= ChunksOf[job[s].image]
                                THEN "convert" ELSE "write"]]
  /\ UNCHANGED <<table, sent, taken, backlog, orphans, crashes>>

\* One chunk, written at this job's own position in the file; after the last
\* one the file is closed.
Write(s) ==
  /\ job[s].pc = "write"
  /\ file' = [file EXCEPT ![FileOf(s)] = [@ EXCEPT ![job[s].next] = job[s].image]]
  /\ job' = [job EXCEPT ![s] =
               [@ EXCEPT !.next = job[s].next + 1,
                         !.pc = IF job[s].next = ChunksOf[job[s].image]
                                THEN "convert" ELSE "write"]]
  /\ UNCHANGED <<table, sent, taken, backlog, orphans, crashes>>

\* qemu-img has read the file, from when pc became "convert" until now.
Convert(s) ==
  /\ job[s].pc = "convert"
  /\ job' = [job EXCEPT ![s] = IdleJob]
  /\ UNCHANGED <<table, sent, taken, backlog, file, orphans, crashes>>

\* Mutant: a job that failed is submitted again.
FailRetried(s) ==
  /\ job[s].pc # "idle"
  /\ job' = [job EXCEPT ![s] = IdleJob]
  /\ backlog' = Append(backlog, job[s].message)
  /\ UNCHANGED <<table, sent, taken, file, orphans, crashes>>

\* do_launch_task catches whatever the job raises: TaskNotFound, glance, the
\* disk, qemu-img, an undefined name.  The task is not told.
Fail(s) ==
  /\ job[s].pc # "idle"
  /\ job' = [job EXCEPT ![s] = IdleJob]
  /\ UNCHANGED <<table, sent, taken, backlog, file, orphans, crashes>>

\* Mutant: the executor's queue outlives the worker, and what was running is
\* submitted again.
CrashResubmitting ==
  /\ WorkerUp
  /\ crashes < MaxCrashes
  /\ crashes' = crashes + 1
  /\ job' = [s \in Slot |-> IdleJob]
  /\ \E S \in SUBSET Converting : orphans' = orphans \cup {job[s] : s \in S}
  /\ \E s \in Slot : /\ job[s].pc # "idle"
                     /\ backlog' = Append(backlog, job[s].message)
  /\ UNCHANGED <<table, sent, taken, file>>

\* The process dies and is started again: what it had taken is lost and the
\* files stay.  A qemu-img is a process of its own that nothing ties to the
\* worker: some of those that run die with it, the others run on.
Crash ==
  /\ WorkerUp
  /\ crashes < MaxCrashes
  /\ crashes' = crashes + 1
  /\ backlog' = <<>>
  /\ job' = [s \in Slot |-> IdleJob]
  /\ \E S \in SUBSET Converting : orphans' = orphans \cup {job[s] : s \in S}
  /\ UNCHANGED <<table, sent, taken, file>>

\* A qemu-img without its worker has read the file.
OrphanEnds(o) ==
  /\ orphans' = orphans \ {o}
  /\ UNCHANGED <<table, sent, taken, backlog, job, file, crashes>>

----------------------------------------------------------------------------
WorkerInit ==
  /\ backlog = <<>>
  /\ job = [s \in Slot |-> IdleJob]
  /\ file = [n \in Name |-> EmptyFile]
  /\ orphans = {}
  /\ crashes = 0

RunJob(s) == Lookup(s) \/ Open(s) \/ Write(s) \/ Convert(s) \/ Fail(s)

WorkerNext ==
  \/ Receive
  \/ \E s \in Slot : Start(s) \/ RunJob(s)
  \/ Crash
  \/ \E o \in orphans : OrphanEnds(o)
============================================================================
