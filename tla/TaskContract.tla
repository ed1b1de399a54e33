---------------------------- MODULE TaskContract ----------------------------
(***************************************************************************)
(* What the service promises about tasks and launches, whatever processes, *)
(* tables and queues it is made of.  A task is created once, and deleted   *)
(* once and for all.  A launch is owed by a request that committed a       *)
(* write, is then queued, is then run by one job; it may be given up at    *)
(* any of these points, but is never run twice, nor before the write.      *)
(***************************************************************************)
CONSTANTS Uuid, Request

VARIABLES
  life,   \* of each task
  work    \* what became of the launch each request asks for

contractVars == <<life, work>>

Life == {"absent", "live", "deleted"}

Stage == {"none", "owed", "queued", "running", "over"}

Advance(r, from, to) ==
  work[r] = from /\ work' = [work EXCEPT ![r] = to]

\* One write creates the task and owes its first launch.
Create(r, u) ==
  /\ life[u] = "absent"
  /\ life' = [life EXCEPT ![u] = "live"]
  /\ Advance(r, "none", "owed")

\* A write to a task, which even a deleted one may get, owes a launch.
Relaunch(r, u) ==
  /\ life[u] # "absent"
  /\ Advance(r, "none", "owed")
  /\ UNCHANGED life

Delete(u) ==
  /\ life[u] = "live"
  /\ life' = [life EXCEPT ![u] = "deleted"]
  /\ UNCHANGED work

Queue(r) == Advance(r, "owed", "queued") /\ UNCHANGED life

Begin(r) == Advance(r, "queued", "running") /\ UNCHANGED life

\* Launches that end: converted, failed, or lost with a process.
End(S) ==
  /\ \A r \in S : work[r] \in {"owed", "queued", "running"}
  /\ work' = [r \in Request |-> IF r \in S THEN "over" ELSE work[r]]
  /\ UNCHANGED life

Init ==
  /\ life = [u \in Uuid |-> "absent"]
  /\ work = [r \in Request |-> "none"]

Progress(r) == Queue(r) \/ Begin(r) \/ End({r})

Next ==
  \/ \E r \in Request, u \in Uuid : Create(r, u) \/ Relaunch(r, u)
  \/ \E u \in Uuid : Delete(u)
  \/ \E r \in Request : Queue(r) \/ Begin(r)
  \/ \E S \in SUBSET Request : End(S)

Spec == Init /\ [][Next]_contractVars

\* No launch stays owed, queued or running.
FairSpec == Spec /\ \A r \in Request : WF_contractVars(Progress(r))
============================================================================
