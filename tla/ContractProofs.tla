--------------------------- MODULE ContractProofs ---------------------------
(***************************************************************************)
(* The service implements TaskContract: each of its steps is one step of   *)
(* the contract, or none.                                                  *)
(***************************************************************************)
EXTENDS ConvertorProofs

----------------------------------------------------------------------------
(* One launch, one message.                                                *)

\* The launch flag says whether the request will cast, and it casts once.
LEMMA LaunchesStillKnow ==
  ASSUME NEW r \in Request, ApiInv, LaunchesKnow, ApiStep(r)
  PROVE  LaunchesKnow'
<1> USE DEF ApiInv
<1> DEFINE Knows(q) ==
      /\ req[q].pc \in {"idle", "create", "get"} => ~req[q].launch
      /\ req[q].kind = "DELETE" => ~req[q].launch
      /\ req[q].pc = "launch" => req[q].launch /\ ~WasCast(q)
      /\ WasCast(q) => req[q].launch
<1>1. /\ \A q \in Request \ {r} : req'[q] = req[q]
      /\ \A m \in sent' \ sent : m = LaunchMessage(r) /\ Launch(r)
      /\ sent \subseteq sent'
  BY StepIsOwn
<1>2. ASSUME NEW q \in Request \ {r} PROVE Knows(q)'
  <2>1. WasCast(q)' <=> WasCast(q)
    BY <1>1 DEF WasCast, LaunchMessage
  <2> QED
    BY <1>1, <2>1 DEF LaunchesKnow
<1>3. Knows(r)
  BY DEF LaunchesKnow
<1>4. ~req[r].committed => ~WasCast(r)
  BY DEF LaunchAfterCommit, WasCast
<1>5. CASE Launch(r)
  <2>1. req[r].pc = "launch" /\ ~WasCast(r) /\ req[r].launch
    BY <1>3, <1>5 DEF Launch
  <2>2. OnlyMoves(r) /\ req'[r].pc \in {"200", "201"}
    BY <1>5, GotoKeepsType DEF Launch, ApiTypeOK, Answer
  <2>3. Knows(r)'
    BY <1>3, <2>1, <2>2 DEF OnlyMoves
  <2>4. \A m1, m2 \in sent' : m1.request = m2.request => m1 = m2
    <3>1. LaunchMessage(r).request = r
      BY DEF LaunchMessage
    <3> QED
      BY <1>1, <2>1, <3>1 DEF LaunchesKnow, WasCast
  <2> QED
    BY <1>2, <2>3, <2>4 DEF LaunchesKnow
<1>6. CASE ~Launch(r)
  <2>1. sent' = sent /\ (WasCast(r)' <=> WasCast(r))
    BY <1>1, <1>6 DEF WasCast
  <2>2. Knows(r)'
    <3>1. CASE Post(r) \/ Patch(r) \/ Delete(r)
      <4>1. req[r] = Idle
        BY <3>1 DEF Post, Patch, Delete, Arrive, HandlersKnow, AtArrival
      <4>2. ~WasCast(r)
        BY <1>4, <4>1 DEF Idle
      <4>3. PICK pc \in {"create", "get", "400"} :
              \E kind, u, show, doc : Arrive(r, kind, u, show, doc, pc)
        BY <3>1 DEF Post, Patch, Delete
      <4>4. req'[r].launch = FALSE /\ req'[r].pc # "launch"
        BY <4>3, ArriveClearsLaunch
      <4> QED
        BY <2>1, <4>2, <4>4
    <3>2. CASE Create(r)
      <4>1. req[r] \in RequestState /\ req[r].kind = "POST" /\ ~WasCast(r)
        BY <1>4, <3>2 DEF Create, Creating, HandlersKnow, AtCreate, ApiTypeOK
      <4>2. req'[r].kind = "POST" /\ req'[r].launch = TRUE /\ req'[r].pc = "launch"
        BY <3>2, <4>1 DEF Create, ApiTypeOK, RequestState
      <4> QED
        BY <2>1, <4>1, <4>2
    <3>3. CASE GetForDelete(r)
      <4>1. req'[r].launch = req[r].launch /\ req'[r].pc = "save" /\ ~req[r].launch
        BY <1>3, <3>3 DEF GetForDelete, Getting, ApiTypeOK, RequestState
      <4>2. ~WasCast(r)
        BY <1>3, <4>1
      <4> QED
        BY <2>1, <4>1, <4>2
    <3>4. CASE GetForPatch(r)
      <4>1. req'[r].kind = "PATCH" /\ req'[r].pc = "save"
        BY <3>4 DEF GetForPatch, Getting, ApiTypeOK, RequestState
      <4>2. ~WasCast(r)
        BY <1>3, <3>4 DEF GetForPatch, Getting
      <4> QED
        BY <2>1, <4>1, <4>2
    <3>5. CASE Save(r)
      <4>1. /\ req'[r].launch = req[r].launch /\ req'[r].kind = req[r].kind
            /\ req'[r].pc = AfterSave(r)
        BY <3>5 DEF Save, ApiTypeOK, RequestState
      <4>2. /\ AfterSave(r) \in {"soft_delete", "launch", "200"}
            /\ AfterSave(r) = "launch" => req[r].launch
        BY DEF AfterSave
      <4>3. ~WasCast(r)
        BY <1>4, <3>5 DEF Save, Saving, HandlersKnow, AtSave
      <4> QED
        BY <1>3, <2>1, <4>1, <4>2, <4>3
    <3>6. CASE \E pc \in Answer : Goto(r, pc)
      <4>1. OnlyMoves(r) /\ req'[r].pc \in Answer
        BY <3>6, GotoKeepsType DEF ApiTypeOK
      <4> QED
        BY <1>3, <2>1, <4>1 DEF OnlyMoves, Answer
    <3> QED
      BY <1>6, <3>1, <3>2, <3>3, <3>4, <3>5, <3>6
         DEF ApiStep, Handle, SoftDelete, CreateInvalid, CreateDuplicate,
             NotFound, PatchInvalid, PatchRefused, SaveInvalid, ServerError, Answer
  <2> QED
    BY <1>2, <2>1, <2>2 DEF LaunchesKnow
<1> QED
  BY <1>5, <1>6

\* Nothing but a handler casts or moves a request.
LEMMA NextLaunchesKnow == WorkerInv /\ LaunchesKnow /\ [Next]_vars => LaunchesKnow'
<1> SUFFICES ASSUME WorkerInv, LaunchesKnow, [Next]_vars PROVE LaunchesKnow'
  OBVIOUS
<1>1. CASE ApiMoves
  BY <1>1, LaunchesStillKnow DEF ApiMoves, WorkerInv
<1>2. CASE WorkerMoves \/ UNCHANGED vars
  <2>1. sent' = sent /\ req' = req
    BY <1>2 DEF WorkerMoves, WorkerNext, vars, Receive, Take, Crash, Start, RunJob,
                Lookup, Open, Write, Convert, Fail, OrphanEnds
  <2> QED
    BY <2>1 DEF LaunchesKnow, WasCast
<1> QED
  BY <1>1, <1>2 DEF Next

LEMMA InitLaunchesKnow == Init => LaunchesKnow
  BY DEF Init, ApiInit, TopicInit, LaunchesKnow, WasCast, Idle

----------------------------------------------------------------------------
(* The stage of a launch, read off its one message.                        *)

\* The message waits in the topic or in the backlog.
Waiting(m) == m \notin taken \/ \E i \in 1..Len(backlog) : backlog[i] = m

\* A green thread works on the message.
Held(m) == \E s \in Slot : Running(s) /\ job[s].message = m

StageOfSent(m) ==
  IF Waiting(m) THEN "queued" ELSE IF Held(m) THEN "running" ELSE "over"

StageOfUnsent(r) ==
  IF ~HasLaunch(r) THEN "none" ELSE IF req[r].pc = "launch" THEN "owed" ELSE "over"

StagesRight ==
  /\ \A m \in sent : StageOf(m.request) = StageOfSent(m)
  /\ \A r \in Request : ~WasCast(r) => StageOf(r) = StageOfUnsent(r)

\* A request has at most one message, so its stage is that message's.
LEMMA StagesAreRight == WorkerInv /\ LaunchesKnow => StagesRight
<1> SUFFICES ASSUME WorkerInv, LaunchesKnow PROVE StagesRight
  OBVIOUS
<1>1. taken \subseteq sent /\ OneRun
  BY DEF WorkerInv, ApiInv, ApiTypeOK, TopicTypeOK
<1>2. ASSUME NEW m \in sent PROVE StageOf(m.request) = StageOfSent(m)
  <2>1. \A n \in sent : n.request = m.request <=> n = m
    BY DEF LaunchesKnow
  <2>2. WasCast(m.request)
    BY DEF WasCast
  <2>3. Queued(m.request) <=> Waiting(m)
    <3>1. \A i \in 1..Len(backlog) : backlog[i].request = m.request <=> backlog[i] = m
      BY <1>1, <2>1 DEF OneRun
    <3>2. (\E n \in Pending : n.request = m.request) <=> m \notin taken
      BY <2>1 DEF Pending
    <3> QED
      BY <3>1, <3>2 DEF Queued, Waiting
  <2>4. IsRunning(m.request) <=> Held(m)
    <3>1. \A s \in Slot : Running(s) =>
            (job[s].message.request = m.request <=> job[s].message = m)
      BY <1>1, <2>1 DEF OneRun
    <3> QED
      BY <3>1 DEF IsRunning, Runs, Held
  <2> QED
    BY <2>2, <2>3, <2>4 DEF StageOf, StageOfSent
<1>3. ASSUME NEW r \in Request, ~WasCast(r) PROVE StageOf(r) = StageOfUnsent(r)
  BY <1>3 DEF StageOf, StageOfUnsent
<1> QED
  BY <1>2, <1>3 DEF StagesRight

----------------------------------------------------------------------------
(* A step of the worker.                                                   *)

ContractStep == Contract!Next \/ UNCHANGED <<lifeBar, workBar>>

\* Which stages a step changes is all the contract can see of it.
LEMMA WorkUnchanged ==
  ASSUME \A r \in Request : StageOf(r)' = StageOf(r)
  PROVE  workBar' = workBar
  BY DEF workBar

LEMMA LaunchesEnd ==
  ASSUME lifeBar' = lifeBar, NEW S \in SUBSET Request,
         \A r \in S : /\ StageOf(r) \in {"owed", "queued", "running"}
                      /\ StageOf(r)' = "over",
         \A r \in Request \ S : StageOf(r)' = StageOf(r)
  PROVE  ContractStep
<1>1. \A r \in S : workBar[r] \in {"owed", "queued", "running"}
  BY DEF workBar
<1>2. workBar' = [r \in Request |-> IF r \in S THEN "over" ELSE workBar[r]]
  BY DEF workBar
<1>3. Contract!End(S)
  BY <1>1, <1>2 DEF Contract!End
<1> QED
  BY <1>3 DEF ContractStep, Contract!Next

LEMMA LaunchAdvances ==
  ASSUME NEW r \in Request, NEW from, NEW to,
         StageOf(r) = from, StageOf(r)' = to,
         \A q \in Request \ {r} : StageOf(q)' = StageOf(q)
  PROVE  Contract!Advance(r, from, to)
<1>1. workBar[r] = from
  BY DEF workBar
<1>2. workBar' = [workBar EXCEPT ![r] = to]
  BY DEF workBar
<1> QED
  BY <1>1, <1>2 DEF Contract!Advance

\* Seen from the contract a step of the worker moves messages.
LEMMA WorkerKeepsLife ==
  ASSUME WorkerMoves
  PROVE  sent' = sent /\ req' = req /\ lifeBar' = lifeBar
<1>1. sent' = sent /\ req' = req /\ table' = table
  BY DEF WorkerMoves, WorkerNext, Receive, Take, Crash, Start, RunJob, Lookup,
         Open, Write, Convert, Fail, OrphanEnds
<1> QED
  BY <1>1 DEF lifeBar, Exists, Deleted

LEMMA WorkerStages ==
  ASSUME WorkerMoves, StagesRight, StagesRight', NEW r \in Request
  PROVE  /\ \A m \in sent : m.request = r => /\ StageOf(r) = StageOfSent(m)
                                             /\ StageOf(r)' = StageOfSent(m)'
         /\ ~WasCast(r) => StageOf(r)' = StageOf(r)
  BY WorkerKeepsLife DEF StagesRight, WasCast, StageOfUnsent, HasLaunch

LEMMA ReceiveRefines ==
  ASSUME WorkerInv, StagesRight, StagesRight', WorkerMoves, Receive
  PROVE  ContractStep
<1>1. PICK m \in Pending : /\ taken' = taken \cup {m}
                           /\ backlog' = Append(backlog, m) \/ backlog' = backlog
  BY DEF Receive, Take
<1>2. m \in sent /\ m \notin taken /\ m \in Message /\ m.request \in Request
  BY DEF Pending, WorkerInv, ApiInv, ApiTypeOK, TopicTypeOK, Message
<1>3. \A n : Held(n)' <=> Held(n)
  BY DEF Receive, Held, Running
<1>4. \A n \in sent \ {m} : StageOfSent(n)' = StageOfSent(n)
  <2>1. ASSUME NEW n \in sent \ {m}
        PROVE  (\E i \in 1..Len(backlog') : backlog'[i] = n)
               <=> (\E i \in 1..Len(backlog) : backlog[i] = n)
    <3>1. backlog \in Seq(Message)
      BY DEF WorkerInv, WorkerTypeOK
    <3>2. CASE backlog' = Append(backlog, m)
      <4>1. /\ Len(backlog') = Len(backlog) + 1 /\ Len(backlog) \in Nat
            /\ \A i \in 1..Len(backlog) : backlog'[i] = backlog[i]
            /\ backlog'[Len(backlog) + 1] = m
        BY <1>2, <3>1, <3>2
      <4> QED
        BY <4>1
    <3> QED
      BY <1>1, <3>2
  <2> QED
    BY <1>1, <1>3, <2>1 DEF StageOfSent, Waiting
<1>5. StageOfSent(m) = "queued"
  BY <1>2 DEF StageOfSent, Waiting
<1>6. StageOfSent(m)' \in {"queued", "over"}
  <2>1. ~Held(m)
    BY <1>2 DEF Held, WorkerInv, OneRun
  <2> QED
    BY <1>3, <2>1 DEF StageOfSent
<1>7. \A r \in Request \ {m.request} : StageOf(r)' = StageOf(r)
  BY <1>4, WorkerStages DEF WasCast
<1>8. /\ StageOf(m.request) = "queued" /\ lifeBar' = lifeBar
      /\ StageOf(m.request)' \in {"queued", "over"}
  BY <1>2, <1>5, <1>6, WorkerStages, WorkerKeepsLife
<1>9. CASE StageOf(m.request)' = "queued"
  BY <1>7, <1>8, <1>9, WorkUnchanged DEF ContractStep
<1>10. CASE StageOf(m.request)' = "over"
  <2>1. {m.request} \in SUBSET Request
    BY <1>2
  <2> QED
    BY <1>7, <1>8, <1>10, <2>1, LaunchesEnd
<1> QED
  BY <1>8, <1>9, <1>10

LEMMA StartRefines ==
  ASSUME WorkerInv, StagesRight, StagesRight', WorkerMoves, NEW s \in Slot, Start(s)
  PROVE  ContractStep
<1>0. PICK m : m = backlog[1]
  OBVIOUS
<1>1. /\ job[s].pc = "idle" /\ backlog # <<>> /\ backlog' = Tail(backlog)
      /\ taken' = taken
      /\ job' = [job EXCEPT ![s] = [IdleJob EXCEPT !.pc = "lookup",
                                                   !.message = Head(backlog)]]
  BY DEF Start
<1>2. /\ backlog \in Seq(Message) /\ job \in [Slot -> JobState] /\ OneRun
      /\ taken \subseteq sent /\ sent \subseteq Message
  BY DEF WorkerInv, WorkerTypeOK, ApiInv, ApiTypeOK, TopicTypeOK
<1>3. /\ 1 \in 1..Len(backlog) /\ Len(backlog) \in Nat
      /\ Head(backlog) = backlog[1]
      /\ Len(backlog') = Len(backlog) - 1
      /\ \A i \in 1..Len(backlog') : backlog'[i] = backlog[i + 1]
  BY <1>1, <1>2
<1>4. job'[s].message = m /\ job'[s].pc = "lookup" /\ \A t \in Slot \ {s} : job'[t] = job[t]
  BY <1>0, <1>1, <1>2, <1>3 DEF IdleJob
<1>5. m \in sent /\ m \in taken /\ m.request \in Request
  BY <1>0, <1>2, <1>3 DEF OneRun, Message
<1>6. \A n \in sent \ {m} : StageOfSent(n)' = StageOfSent(n)
  <2>1. ASSUME NEW n \in sent \ {m}
        PROVE  (\E i \in 1..Len(backlog') : backlog'[i] = n)
               <=> (\E i \in 1..Len(backlog) : backlog[i] = n)
    <3>1. ASSUME NEW i \in 1..Len(backlog), backlog[i] = n
          PROVE  \E k \in 1..Len(backlog') : backlog'[k] = n
      <4>1. i - 1 \in 1..Len(backlog') /\ backlog'[i - 1] = n
        BY <1>0, <1>3, <3>1
      <4> QED
        BY <4>1
    <3>2. \A i \in 1..Len(backlog') : i + 1 \in 1..Len(backlog)
      BY <1>3
    <3> QED
      BY <1>3, <3>1, <3>2
  <2>2. \A n \in sent \ {m} : Held(n)' <=> Held(n)
    BY <1>1, <1>4 DEF Held, Running
  <2> QED
    BY <1>1, <2>1, <2>2 DEF StageOfSent, Waiting
<1>7. StageOfSent(m) = "queued"
  BY <1>0, <1>3 DEF StageOfSent, Waiting
<1>8. StageOfSent(m)' = "running"
  <2>1. \A i \in 1..Len(backlog') : backlog'[i] # m
    <3>1. \A i \in 1..Len(backlog') : i + 1 \in 1..Len(backlog) /\ i + 1 # 1
      BY <1>3
    <3> QED
      BY <1>0, <1>2, <1>3, <3>1 DEF OneRun
  <2>2. (\E t \in Slot : Running(t) /\ job[t].message = m)'
    BY <1>4 DEF Running
  <2> QED
    BY <1>1, <1>5, <2>1, <2>2 DEF StageOfSent, Waiting, Held
<1>9. \A r \in Request \ {m.request} : StageOf(r)' = StageOf(r)
  BY <1>6, WorkerStages DEF WasCast
<1>10. Contract!Advance(m.request, "queued", "running") /\ lifeBar' = lifeBar
  BY <1>5, <1>7, <1>8, <1>9, WorkerStages, WorkerKeepsLife, LaunchAdvances
<1> QED
  BY <1>5, <1>10 DEF ContractStep, Contract!Next, Contract!Begin

\* Convert and Fail leave the thread idle: the launch is over.
LEMMA JobEndRefines ==
  ASSUME WorkerInv, StagesRight, StagesRight', WorkerMoves, NEW s \in Slot,
         Convert(s) \/ Fail(s)
  PROVE  ContractStep
<1>1. PICK m : m = job[s].message
  OBVIOUS
<1>2. /\ Running(s) /\ ~Running(s)' /\ \A t \in Slot \ {s} : job'[t] = job[t]
      /\ taken' = taken /\ backlog' = backlog
  BY DEF Convert, Fail, Running, IdleJob, WorkerInv, WorkerTypeOK
<1>3. OneRun /\ taken \subseteq sent /\ sent \subseteq Message
  BY DEF WorkerInv, ApiInv, ApiTypeOK, TopicTypeOK
<1>4. m \in sent /\ m \in taken /\ m.request \in Request
  BY <1>1, <1>2, <1>3 DEF OneRun, Message
<1>5. \A n \in sent \ {m} : StageOfSent(n)' = StageOfSent(n)
  <2>1. \A n \in sent \ {m} : Held(n)' <=> Held(n)
    BY <1>1, <1>2 DEF Held, Running
  <2> QED
    BY <1>2, <2>1 DEF StageOfSent, Waiting
<1>6. ~Waiting(m) /\ ~Waiting(m)'
  BY <1>1, <1>2, <1>3, <1>4 DEF Waiting, OneRun
<1>7. Held(m) /\ ~Held(m)'
  <2>1. \A t \in Slot \ {s} : Running(t) => job[t].message # m
    BY <1>1, <1>2, <1>3 DEF OneRun
  <2> QED
    BY <1>1, <1>2, <2>1 DEF Held, Running
<1>8. StageOfSent(m) = "running" /\ StageOfSent(m)' = "over"
  BY <1>6, <1>7 DEF StageOfSent
<1>9. \A r \in Request \ {m.request} : StageOf(r)' = StageOf(r)
  BY <1>5, WorkerStages DEF WasCast
<1>10. /\ StageOf(m.request) = "running" /\ StageOf(m.request)' = "over"
       /\ lifeBar' = lifeBar /\ {m.request} \in SUBSET Request
  BY <1>4, <1>8, WorkerStages, WorkerKeepsLife
<1> QED
  BY <1>9, <1>10, LaunchesEnd

\* A job that goes on keeps its message.
LEMMA JobStepRefines ==
  ASSUME WorkerInv, StagesRight, StagesRight', WorkerMoves, NEW s \in Slot,
         Lookup(s) \/ Open(s) \/ Write(s)
  PROVE  ContractStep
<1>1. /\ Running(s) /\ Running(s)' /\ job'[s].message = job[s].message
      /\ \A t \in Slot \ {s} : job'[t] = job[t]
      /\ taken' = taken /\ backlog' = backlog
  <2>1. job[s] \in JobState /\ job \in [Slot -> JobState]
    BY DEF WorkerInv, WorkerTypeOK
  <2>2. CASE Lookup(s)
    BY <2>1, <2>2 DEF Lookup, Running, JobState
  <2>3. CASE Open(s)
    BY <2>1, <2>3 DEF Open, Running, JobState
  <2>4. CASE Write(s)
    BY <2>1, <2>4 DEF Write, Running, JobState
  <2> QED
    BY <2>2, <2>3, <2>4
<1>2. \A n \in sent : StageOfSent(n)' = StageOfSent(n)
  <2>1. \A n \in sent : Held(n)' <=> Held(n)
    BY <1>1 DEF Held, Running
  <2> QED
    BY <1>1, <2>1 DEF StageOfSent, Waiting
<1>3. \A r \in Request : StageOf(r)' = StageOf(r)
  BY <1>2, WorkerStages DEF WasCast
<1>4. lifeBar' = lifeBar
  BY WorkerKeepsLife
<1> QED
  BY <1>3, <1>4, WorkUnchanged DEF ContractStep

\* All the worker had taken is lost at once.
LEMMA CrashRefines ==
  ASSUME WorkerInv, StagesRight, StagesRight', WorkerMoves, Crash
  PROVE  ContractStep
<1> DEFINE Lost(r) == \E m \in sent : m.request = r /\ m \in taken /\ StageOfSent(m) # "over"
<1>1. PICK S \in SUBSET Request : \A r \in Request : r \in S <=> Lost(r)
  <2> WITNESS {r \in Request : Lost(r)} \in SUBSET Request
  <2> QED
    OBVIOUS
<1>2. backlog' = <<>> /\ taken' = taken /\ \A s \in Slot : ~Running(s)'
  BY DEF Crash, Running, IdleJob
<1>3. \A m \in sent : /\ m \in taken => StageOfSent(m)' = "over"
                      /\ m \notin taken => /\ StageOfSent(m)' = "queued"
                                           /\ StageOfSent(m) = "queued"
                      /\ StageOfSent(m) \in {"queued", "running", "over"}
  BY <1>2 DEF StageOfSent, Waiting, Held
<1>4. \A r \in S : StageOf(r) \in {"owed", "queued", "running"} /\ StageOf(r)' = "over"
  BY <1>1, <1>3, WorkerStages
<1>5. \A r \in Request \ S : StageOf(r)' = StageOf(r)
  BY <1>1, <1>3, WorkerStages DEF WasCast
<1> QED
  BY <1>4, <1>5, WorkerKeepsLife, LaunchesEnd

\* For the contract a launch ended when its worker died: how long the qemu-img
\* it may have left behind runs is nothing the contract can see.
LEMMA OrphanRefines ==
  ASSUME StagesRight, StagesRight', WorkerMoves, NEW o \in orphans, OrphanEnds(o)
  PROVE  ContractStep
<1>1. taken' = taken /\ backlog' = backlog /\ job' = job
  BY DEF OrphanEnds
<1>2. \A n \in sent : StageOfSent(n)' = StageOfSent(n)
  BY <1>1 DEF StageOfSent, Waiting, Held, Running
<1>3. \A r \in Request : StageOf(r)' = StageOf(r)
  BY <1>2, WorkerStages DEF WasCast
<1> QED
  BY <1>3, WorkUnchanged, WorkerKeepsLife DEF ContractStep

LEMMA WorkerRefines ==
  ASSUME WorkerInv, StagesRight, StagesRight', WorkerMoves
  PROVE  ContractStep
<1>1. CASE Receive
  BY <1>1, ReceiveRefines
<1>2. CASE Crash
  BY <1>2, CrashRefines
<1>3. ASSUME NEW s \in Slot, Start(s) PROVE ContractStep
  BY <1>3, StartRefines
<1>4. ASSUME NEW s \in Slot, RunJob(s) PROVE ContractStep
  BY <1>4, JobEndRefines, JobStepRefines DEF RunJob
<1>5. ASSUME NEW o \in orphans, OrphanEnds(o) PROVE ContractStep
  BY <1>5, OrphanRefines
<1> QED
  BY <1>1, <1>2, <1>3, <1>4, <1>5 DEF WorkerMoves, WorkerNext

----------------------------------------------------------------------------
(* A step of the API.                                                      *)

\* It moves only its own request's launch.
LEMMA ApiStages ==
  ASSUME WorkerInv, StagesRight, StagesRight', UNCHANGED workerVars,
         NEW r \in Request, ApiStep(r)
  PROVE  /\ \A q \in Request \ {r} : StageOf(q)' = StageOf(q)
         /\ taken' = taken
         /\ sent' = sent /\ WasCast(r) => StageOf(r)' = StageOf(r)
         /\ sent' = sent /\ ~WasCast(r) => StageOf(r)' = StageOfUnsent(r)'
         /\ ~WasCast(r) => StageOf(r) = StageOfUnsent(r)
<1>1. /\ \A q \in Request \ {r} : req'[q] = req[q]
      /\ \A m \in sent' \ sent : m.request = r
      /\ sent \subseteq sent'
  BY StepIsOwn DEF WorkerInv, ApiInv, LaunchMessage
<1>2. taken' = taken
  BY DEF ApiStep, Post, Patch, Delete, Arrive, Handle, CreateInvalid, CreateDuplicate,
     Create, NotFound, GetForDelete, GetForPatch, PatchInvalid,
     PatchRefused, SaveInvalid, Save, SoftDelete, Launch, Cast, ServerError
<1>3. \A m \in sent : StageOfSent(m)' = StageOfSent(m)
  BY <1>2 DEF workerVars, StageOfSent, Waiting, Held, Running
<1>4. \A m \in sent : StageOf(m.request)' = StageOf(m.request)
  BY <1>1, <1>3 DEF StagesRight
<1>5. \A q \in Request \ {r} : StageOf(q)' = StageOf(q)
  <2>1. ASSUME NEW q \in Request \ {r}, ~WasCast(q)
        PROVE  StageOf(q)' = StageOf(q)
    <3>1. ~WasCast(q)'
      BY <1>1, <2>1 DEF WasCast
    <3> QED
      BY <1>1, <2>1, <3>1 DEF StagesRight, StageOfUnsent, HasLaunch
  <2> QED
    BY <1>4, <2>1 DEF WasCast
<1>6. sent' = sent /\ ~WasCast(r) => StageOf(r)' = StageOfUnsent(r)'
  BY DEF StagesRight, WasCast
<1> QED
  BY <1>2, <1>4, <1>5, <1>6 DEF StagesRight, WasCast

\* A step that writes no row and leaves the launch where it is.
LEMMA QuietStepRefines ==
  ASSUME WorkerInv, StagesRight, StagesRight', UNCHANGED workerVars,
         NEW r \in Request, ApiStep(r), sent' = sent, lifeBar' = lifeBar,
         ~WasCast(r) => StageOfUnsent(r)' = StageOfUnsent(r)
  PROVE  ContractStep
<1>1. \A q \in Request : StageOf(q)' = StageOf(q)
  BY ApiStages
<1> QED
  BY <1>1, WorkUnchanged DEF ContractStep

LEMMA ArrivalRefines ==
  ASSUME WorkerInv, StagesRight, StagesRight', UNCHANGED workerVars,
         NEW r \in Request, Post(r) \/ Patch(r) \/ Delete(r)
  PROVE  ContractStep
<1>1. req[r] = Idle /\ sent' = sent /\ table' = table
  BY DEF Post, Patch, Delete, Arrive, WorkerInv, ApiInv, HandlersKnow, AtArrival
<1>2. \E kind, u, show, doc, pc : Arrive(r, kind, u, show, doc, pc)
  BY DEF Post, Patch, Delete
<1>3. ~req'[r].committed
  BY <1>2, ArriveClearsLaunch DEF WorkerInv, ApiInv
<1>4. StageOfUnsent(r) = "none" /\ StageOfUnsent(r)' = "none"
  BY <1>1, <1>3 DEF StageOfUnsent, HasLaunch, Idle
<1>5. lifeBar' = lifeBar
  BY <1>1 DEF lifeBar, Exists, Deleted
<1> QED
  BY <1>1, <1>4, <1>5, QuietStepRefines DEF ApiStep

LEMMA CreateRefines ==
  ASSUME WorkerInv, StagesRight, StagesRight', UNCHANGED workerVars,
         NEW r \in Request, Create(r)
  PROVE  ContractStep
<1>1. AtCreate(r) /\ ApiTypeOK /\ req[r] \in RequestState /\ LaunchAfterCommit
  BY DEF WorkerInv, ApiInv, HandlersKnow, ApiTypeOK
<1>2. PICK u \in Uuid :
            /\ ~Exists(u)
            /\ table'[u] \in Row /\ table'[u]["deleted_at"] = Null
            /\ \A v \in Uuid \ {u} : table'[v] = table[v]
            /\ req'[r] = [req[r] EXCEPT !.uuid = u, !.launch = TRUE,
                                        !.committed = TRUE, !.pc = "launch"]
  BY <1>1, CreateInserts
<1>3. sent' = sent /\ ~req[r].committed /\ ~WasCast(r)
  BY <1>1 DEF Create, Creating, AtCreate, LaunchAfterCommit, WasCast
<1>4. /\ req'[r].launch = TRUE /\ req'[r].committed = TRUE
      /\ req'[r].pc = "launch"
  BY <1>1, <1>2 DEF RequestState
<1>5. StageOfUnsent(r) = "none" /\ StageOfUnsent(r)' = "owed"
  BY <1>3, <1>4 DEF StageOfUnsent, HasLaunch
<1>6. Contract!Advance(r, "none", "owed")
  BY <1>3, <1>5, ApiStages, LaunchAdvances DEF ApiStep, Handle
<1>7. lifeBar[u] = "absent" /\ lifeBar' = [lifeBar EXCEPT ![u] = "live"]
  BY <1>2, StoreAssumption DEF lifeBar, Exists, Deleted
<1> QED
  BY <1>6, <1>7 DEF ContractStep, Contract!Next, Contract!Create

LEMMA GetRefines ==
  ASSUME WorkerInv, StagesRight, StagesRight', UNCHANGED workerVars,
         NEW r \in Request, GetForDelete(r) \/ GetForPatch(r)
  PROVE  ContractStep
<1>1. req[r] \in RequestState /\ ~req[r].committed
  BY DEF GetForDelete, GetForPatch, Getting, WorkerInv, ApiInv, HandlersKnow, AtGet,
         ApiTypeOK
<1>2. req'[r].committed = req[r].committed /\ sent' = sent /\ table' = table
  <2>1. req \in [Request -> RequestState]
    BY DEF WorkerInv, ApiInv, ApiTypeOK
  <2>2. CASE GetForDelete(r)
    BY <1>1, <2>1, <2>2 DEF GetForDelete, RequestState
  <2>3. CASE GetForPatch(r)
    BY <1>1, <2>1, <2>3 DEF GetForPatch, RequestState
  <2> QED
    BY <2>2, <2>3
<1>3. StageOfUnsent(r) = "none" /\ StageOfUnsent(r)' = "none"
  BY <1>1, <1>2 DEF StageOfUnsent, HasLaunch
<1>4. lifeBar' = lifeBar
  BY <1>2 DEF lifeBar, Exists, Deleted
<1> QED
  BY <1>2, <1>3, <1>4, QuietStepRefines DEF ApiStep, Handle

\* A save never deletes or undeletes; it may owe a launch.
LEMMA SaveRefines ==
  ASSUME WorkerInv, LaunchesKnow, StagesRight, StagesRight', UNCHANGED workerVars,
         NEW r \in Request, Save(r)
  PROVE  ContractStep
<1>1. /\ AtSave(r) /\ ApiTypeOK /\ req[r] \in RequestState /\ LaunchAfterCommit
      /\ req[r].pc = "save" /\ sent' = sent
  BY DEF Save, Saving, WorkerInv, ApiInv, HandlersKnow, ApiTypeOK
<1>2. PICK u \in Uuid : u = req[r].uuid /\ Exists(u)
  BY <1>1 DEF AtSave
<1>3. lifeBar' = lifeBar
  BY <1>1, <1>2, SaveMerges, StoreAssumption DEF lifeBar, Exists, Deleted
<1>4. ~req[r].committed /\ ~WasCast(r)
  BY <1>1 DEF AtSave, LaunchAfterCommit, WasCast
<1>5. /\ req'[r].committed = TRUE /\ req'[r].launch = req[r].launch
      /\ req'[r].pc = AfterSave(r)
  BY <1>1 DEF Save, RequestState, ApiTypeOK
<1>6. StageOfUnsent(r) = "none"
  BY <1>4 DEF StageOfUnsent, HasLaunch
<1>7. CASE req[r].launch
  <2>1. AfterSave(r) = "launch"
    BY <1>7 DEF LaunchesKnow, AfterSave
  <2>2. StageOfUnsent(r)' = "owed"
    BY <1>5, <1>7, <2>1 DEF StageOfUnsent, HasLaunch
  <2>3. Contract!Advance(r, "none", "owed")
    BY <1>1, <1>4, <1>6, <2>2, ApiStages, LaunchAdvances DEF ApiStep, Handle
  <2>4. lifeBar[u] # "absent"
    BY <1>2 DEF lifeBar
  <2> QED
    BY <1>3, <2>3, <2>4 DEF ContractStep, Contract!Next, Contract!Relaunch
<1>8. CASE ~req[r].launch
  <2>1. StageOfUnsent(r)' = "none"
    BY <1>5, <1>8 DEF StageOfUnsent, HasLaunch
  <2> QED
    BY <1>1, <1>3, <1>6, <2>1, QuietStepRefines DEF ApiStep, Handle
<1> QED
  BY <1>7, <1>8

LEMMA SoftDeleteRefines ==
  ASSUME WorkerInv, LaunchesKnow, StagesRight, StagesRight', UNCHANGED workerVars,
         NEW r \in Request, SoftDelete(r)
  PROVE  ContractStep
<1>1. AtSoftDelete(r) /\ ApiTypeOK /\ req[r].pc = "soft_delete" /\ sent' = sent
  BY DEF SoftDelete, WorkerInv, ApiInv, HandlersKnow
<1>2. PICK u \in Uuid : u = req[r].uuid /\ Exists(u)
  BY <1>1 DEF AtSoftDelete
<1>3. ~req[r].launch /\ ~WasCast(r)
  BY <1>1 DEF AtSoftDelete, LaunchesKnow
<1>4. OnlyMoves(r)
  BY <1>1, GotoKeepsType DEF SoftDelete, ApiTypeOK, Answer
<1>5. StageOfUnsent(r) = "none" /\ StageOfUnsent(r)' = "none"
  BY <1>3, <1>4 DEF StageOfUnsent, HasLaunch, OnlyMoves
<1>6. \A q \in Request : StageOf(q)' = StageOf(q)
  BY <1>1, <1>3, <1>5, ApiStages DEF ApiStep, Handle
<1>7. /\ lifeBar' = [lifeBar EXCEPT ![u] = "deleted"]
      /\ lifeBar[u] \in {"live", "deleted"}
  BY <1>1, <1>2, SoftDeleteStamps, StoreAssumption DEF lifeBar, Exists, Deleted
<1>8. workBar' = workBar
  BY <1>6, WorkUnchanged
<1>9. CASE lifeBar[u] = "live"
  BY <1>7, <1>8, <1>9 DEF ContractStep, Contract!Next, Contract!Delete
<1>10. CASE lifeBar[u] = "deleted"
  <2>1. lifeBar' = lifeBar
    BY <1>7, <1>10 DEF lifeBar
  <2> QED
    BY <1>8, <2>1 DEF ContractStep
<1> QED
  BY <1>7, <1>9, <1>10

LEMMA LaunchRefines ==
  ASSUME WorkerInv, LaunchesKnow, StagesRight, StagesRight', UNCHANGED workerVars,
         NEW r \in Request, Launch(r)
  PROVE  ContractStep
<1>1. /\ AtLaunch(r) /\ req[r].pc = "launch" /\ req[r].launch /\ ~WasCast(r)
      /\ taken \subseteq sent /\ table' = table
  BY DEF Launch, WorkerInv, ApiInv, ApiTypeOK, TopicTypeOK, HandlersKnow, LaunchesKnow
<1>2. PICK m : m = LaunchMessage(r)
  OBVIOUS
<1>3. m.request = r /\ m \in sent' /\ m \notin taken'
  BY <1>1, <1>2 DEF LaunchMessage, Launch, Cast, WasCast
<1>4. StageOfUnsent(r) = "owed"
  BY <1>1 DEF StageOfUnsent, HasLaunch, AtLaunch
<1>5. StageOf(r)' = "queued"
  BY <1>3 DEF StagesRight, StageOfSent, Waiting
<1>6. Contract!Advance(r, "owed", "queued")
  BY <1>1, <1>4, <1>5, ApiStages, LaunchAdvances DEF ApiStep, Handle
<1>7. lifeBar' = lifeBar
  BY <1>1 DEF lifeBar, Exists, Deleted
<1> QED
  BY <1>6, <1>7 DEF ContractStep, Contract!Next, Contract!Queue

\* An answer without a write: a launch that was owed is given up.
LEMMA AnswerRefines ==
  ASSUME WorkerInv, LaunchesKnow, StagesRight, StagesRight', UNCHANGED workerVars,
         NEW r \in Request,
         \/ CreateInvalid(r) \/ CreateDuplicate(r) \/ NotFound(r)
         \/ PatchInvalid(r) \/ PatchRefused(r) \/ SaveInvalid(r) \/ ServerError(r)
  PROVE  ContractStep
<1>1. /\ ApiStep(r) /\ sent' = sent /\ table' = table
      /\ req[r].pc \in {"create", "get", "save", "soft_delete", "launch"}
  BY DEF ApiStep, Handle, CreateInvalid, CreateDuplicate, NotFound,
         PatchInvalid, PatchRefused, SaveInvalid, ServerError, Creating, Getting, Saving, Busy
<1>2. PICK pc \in Answer : Goto(r, pc)
  BY DEF CreateInvalid, CreateDuplicate, NotFound, PatchInvalid, PatchRefused, SaveInvalid,
         ServerError, Answer
<1>3. req'[r].pc \in Answer /\ OnlyMoves(r)
  BY <1>2, GotoKeepsType DEF WorkerInv, ApiInv, ApiTypeOK
<1>4. lifeBar' = lifeBar
  BY <1>1 DEF lifeBar, Exists, Deleted
<1>5. CASE req[r].pc # "launch"
  <2>1. ~HasLaunch(r)
    BY <1>1, <1>5 DEF HasLaunch, LaunchesKnow, WorkerInv, ApiInv, HandlersKnow,
       AtCreate, AtGet, AtSave, AtSoftDelete
  <2>2. StageOfUnsent(r) = "none" /\ StageOfUnsent(r)' = "none"
    BY <1>3, <2>1 DEF StageOfUnsent, HasLaunch, OnlyMoves
  <2> QED
    BY <1>1, <1>4, <2>2, QuietStepRefines
<1>6. CASE req[r].pc = "launch"
  <2>1. ~WasCast(r) /\ HasLaunch(r)
    BY <1>6 DEF HasLaunch, LaunchesKnow, WorkerInv, ApiInv, HandlersKnow, AtLaunch
  <2>2. StageOfUnsent(r) = "owed" /\ StageOfUnsent(r)' = "over"
    BY <1>3, <1>6, <2>1 DEF StageOfUnsent, HasLaunch, OnlyMoves, Answer
  <2>3. {r} \in SUBSET Request /\ StageOf(r) = "owed" /\ StageOf(r)' = "over"
    BY <1>1, <2>1, <2>2, ApiStages
  <2>4. \A q \in Request \ {r} : StageOf(q)' = StageOf(q)
    BY <1>1, ApiStages
  <2> QED
    BY <1>4, <2>3, <2>4, LaunchesEnd
<1> QED
  BY <1>5, <1>6

----------------------------------------------------------------------------

LEMMA StepRefines ==
  WorkerInv /\ LaunchesKnow /\ StagesRight /\ StagesRight' /\ [Next]_vars
  => ContractStep
<1> SUFFICES ASSUME WorkerInv, LaunchesKnow, StagesRight, StagesRight', [Next]_vars
             PROVE  ContractStep
  OBVIOUS
<1>1. CASE WorkerMoves
  BY <1>1, WorkerRefines
<1>2. ASSUME NEW r \in Request, ApiStep(r), UNCHANGED workerVars
      PROVE  ContractStep
  BY <1>2, ArrivalRefines, CreateRefines, GetRefines, SaveRefines,
     SoftDeleteRefines, LaunchRefines, AnswerRefines DEF ApiStep, Handle
<1>3. CASE UNCHANGED vars
  <2>1. lifeBar' = lifeBar
    BY <1>3 DEF vars, lifeBar, Exists, Deleted
  <2>2. \A r \in Request : StageOf(r)' = StageOf(r)
    BY <1>3 DEF vars, StageOf, WasCast, Queued, Pending, IsRunning, Runs, Running,
                HasLaunch
  <2> QED
    BY <2>1, <2>2, WorkUnchanged DEF ContractStep
<1> QED
  BY <1>1, <1>2, <1>3 DEF Next, ApiMoves

\* The service keeps its promise about tasks and launches: whatever the
\* interleaving of requests and jobs, the errors and the crashes, each step of
\* the code is a step that TaskContract allows or one it does not see.
THEOREM ServiceKeepsContract == Spec => KeepsContract
<1>1. Init => Contract!Init
  <2> SUFFICES ASSUME Init PROVE Contract!Init
    OBVIOUS
  <2>1. lifeBar = [u \in Uuid |-> "absent"]
    BY DEF Init, ApiInit, StoreInit, lifeBar, Exists
  <2>2. workBar = [r \in Request |-> "none"]
    BY DEF Init, ApiInit, TopicInit, Idle, workBar, StageOf, WasCast, HasLaunch
  <2> QED
    BY <2>1, <2>2 DEF Contract!Init
<1>2. Spec => [](WorkerInv /\ LaunchesKnow)
  BY InitWorkerInv, NextWorkerInv, InitLaunchesKnow, NextLaunchesKnow, PTL DEF Spec
<1>3. ContractStep => [Contract!Next]_(Contract!contractVars)
  BY DEF ContractStep, Contract!contractVars
<1> QED
  BY <1>1, <1>2, <1>3, StagesAreRight, StepRefines, PTL
     DEF Spec, KeepsContract, Contract!Spec
============================================================================
