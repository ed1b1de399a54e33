-------------------------- MODULE DeploymentProofs --------------------------
(***************************************************************************)
(* Proofs about ServiceProcess and Deployment, for every set of processes  *)
(* and green threads and every number of releases.                         *)
(***************************************************************************)
EXTENDS Deployment, TLAPS

----------------------------------------------------------------------------
(* A process.                                                              *)

ProcStep(p) == Start(p) \/ Dies(p) \/ Lives(p)

\* A step of one process leaves the others alone.
LEMMA OwnProcess ==
  ASSUME ProcTypeOK, NEW p \in Proc, ProcStep(p)
  PROVE  /\ kind' = kind
         /\ \A q \in Proc \ {p} :
              /\ pc'[q] = pc[q] /\ globals'[q] = globals[q] /\ facade'[q] = facade[q]
              /\ making'[q] = making[q] /\ made'[q] = made[q]
<1> USE DEF ProcTypeOK, GoesTo, Sets, Forget
<1>1. CASE Start(p) \/ Dies(p) \/ DiesForked(p)
  BY <1>1 DEF Start, Dies, DiesForked
<1>2. CASE SetTransport(p) \/ SetNotificationTransport(p) \/ SetNotifier(p)
  BY <1>2 DEF SetTransport, SetNotificationTransport, SetNotifier
<1>3. CASE BuildApi(p) \/ BuildWorker(p) \/ Listen(p) \/ Reload(p) \/ MakeClient(p)
  BY <1>3 DEF BuildApi, BuildWorker, Listen, Reload, MakeClient
<1>4. CASE \E t \in Thread : AskEngine(p, t) \/ EngineMade(p, t) \/ EngineFails(p, t)
  BY <1>4 DEF AskEngine, EngineMade, EngineFails
<1> QED BY <1>1, <1>2, <1>3, <1>4 DEF ProcStep, Lives

LEMMA ProcTypes ==
  ASSUME ProcTypeOK, NEW p \in Proc, ProcStep(p)
  PROVE  ProcTypeOK'
<1> USE DEF ProcTypeOK, GoesTo
<1>1. CASE Start(p)
  BY <1>1 DEF Start
<1>2. ASSUME NEW inherited \in SUBSET RpcGlobals, Forget(p, inherited),
             GoesTo(p, "down") \/ GoesTo(p, "built")
      PROVE  ProcTypeOK'
  <2>1. NoneMade \in [Thread -> Nat]
    BY DEF NoneMade
  <2>2. made' \in [Proc -> [Thread -> Nat]]
    BY <1>2, <2>1 DEF Forget
  <2>3. globals' \in [Proc -> SUBSET RpcGlobals] /\ making' \in [Proc -> SUBSET Thread]
    BY <1>2 DEF Forget
  <2>4. facade' \in [Proc -> Thread \cup {NoEngine}] /\ client' \in [Proc -> BOOLEAN]
    BY <1>2 DEF Forget
  <2> QED BY <1>2, <2>2, <2>3, <2>4 DEF Forget
<1>3. CASE Dies(p) \/ DiesForked(p)
  BY <1>2, <1>3 DEF Dies, DiesForked
<1>4. ASSUME NEW global \in RpcGlobals, Sets(p, global),
             GoesTo(p, "ready") \/ UNCHANGED pc,
             UNCHANGED <<kind, client, facade, making, made>>
      PROVE  ProcTypeOK'
  <2>1. globals[p] \cup {global} \in SUBSET RpcGlobals
    OBVIOUS
  <2>2. globals' \in [Proc -> SUBSET RpcGlobals]
    BY <1>4, <2>1 DEF Sets
  <2>3. pc' \in [Proc -> {"down", "parsing", "ready", "built", "serving", "reloading"}]
    BY <1>4
  <2> QED BY <1>4, <2>2, <2>3
<1>5. CASE SetTransport(p) \/ SetNotificationTransport(p) \/ SetNotifier(p)
  BY <1>4, <1>5 DEF SetTransport, SetNotificationTransport, SetNotifier, RpcGlobals
<1>6. CASE BuildApi(p) \/ BuildWorker(p) \/ Listen(p) \/ Reload(p) \/ MakeClient(p)
  BY <1>6 DEF BuildApi, BuildWorker, Listen, Reload, MakeClient
<1>7. ASSUME NEW t \in Thread, AskEngine(p, t) \/ EngineFails(p, t) PROVE ProcTypeOK'
  BY <1>7 DEF AskEngine, EngineFails
<1>8. ASSUME NEW t \in Thread, EngineMade(p, t) PROVE ProcTypeOK'
  <2>1. made' = [made EXCEPT ![p] = [made[p] EXCEPT ![t] = made[p][t] + 1]]
    BY <1>8 DEF EngineMade
  <2>2. [made[p] EXCEPT ![t] = made[p][t] + 1] \in [Thread -> Nat]
    OBVIOUS
  <2>3. made' \in [Proc -> [Thread -> Nat]]
    BY <2>1, <2>2
  <2> QED BY <1>8, <2>3 DEF EngineMade
<1> QED BY <1>1, <1>3, <1>5, <1>6, <1>7, <1>8 DEF ProcStep, Lives

\* The globals of one process, wherever it is.
LEMMA ProcGlobals ==
  ASSUME ProcTypeOK, GlobalsSet, GlobalsInOrder, NEW p \in Proc, ProcStep(p)
  PROVE  GlobalsSet' /\ GlobalsInOrder'
<1> DEFINE Good(at, gs) ==
      /\ {"TRANSPORT", "NOTIFIER"} \subseteq gs \/ at \notin {"down", "parsing"} => gs = RpcGlobals
      /\ "NOTIFIER" \in gs => gs = RpcGlobals
      /\ "NOTIFICATION_TRANSPORT" \in gs => "TRANSPORT" \in gs
<1>1. \A q \in Proc : Good(pc[q], globals[q])
  BY DEF GlobalsSet, GlobalsInOrder, Initialized
<1>2. \A q \in Proc \ {p} : Good(pc'[q], globals'[q])
  <2> HIDE DEF Good
  <2> QED BY <1>1, OwnProcess
<1>3. Good(pc'[p], globals'[p])
  <2> USE DEF ProcTypeOK, GoesTo, Sets, Forget, RpcGlobals
  <2>1. CASE Start(p) \/ Dies(p) \/ DiesForked(p)
    BY <1>1, <2>1 DEF Start, Dies, DiesForked
  <2>2. CASE SetTransport(p) \/ SetNotificationTransport(p)
    BY <1>1, <2>2 DEF SetTransport, SetNotificationTransport
  <2>3. CASE SetNotifier(p)
    BY <1>1, <2>3 DEF SetNotifier
  <2>4. CASE BuildApi(p) \/ BuildWorker(p) \/ Listen(p) \/ Reload(p) \/ MakeClient(p)
    BY <1>1, <2>4 DEF BuildApi, BuildWorker, Listen, Reload, MakeClient
  <2>5. CASE \E t \in Thread : AskEngine(p, t) \/ EngineMade(p, t) \/ EngineFails(p, t)
    BY <1>1, <2>5 DEF AskEngine, EngineMade, EngineFails
  <2> QED BY <2>1, <2>2, <2>3, <2>4, <2>5 DEF ProcStep, Lives
<1> QED BY <1>2, <1>3 DEF GlobalsSet, GlobalsInOrder, Initialized

\* The engines of one process: a thread that makes one has made none, because
\* none is begun once there is one.
LEMMA ProcEngines ==
  ASSUME ProcTypeOK, OneEngineEach, MakingFirst, NEW p \in Proc, ProcStep(p)
  PROVE  OneEngineEach' /\ MakingFirst'
<1> DEFINE Runs(k, at, t) == \/ at \in {"serving", "reloading"}
                             \/ at = "ready" /\ k = "dbmanage" /\ t = Main
           Good(k, at, f, mk, md) ==
      /\ \A t \in Thread : md[t] <= 1
      /\ at = "built" => f = NoEngine /\ mk = {}
      /\ \A t \in mk : md[t] = 0 /\ Runs(k, at, t)
      /\ f = NoEngine => md = NoneMade
      /\ f # NoEngine => \E t \in Thread : Runs(k, at, t)
<1>1. \A q \in Proc : Good(kind[q], pc[q], facade[q], making[q], made[q])
  BY DEF OneEngineEach, MakingFirst, IsRunning
<1>2. \A q \in Proc \ {p} : Good(kind'[q], pc'[q], facade'[q], making'[q], made'[q])
  <2> HIDE DEF Good
  <2> QED BY <1>1, OwnProcess
<1>3. Good(kind'[p], pc'[p], facade'[p], making'[p], made'[p])
  <2> USE DEF ProcTypeOK, GoesTo, Forget, NoneMade
  <2>1. CASE Start(p)
    BY <1>1, <2>1 DEF Start
  <2>2. CASE Dies(p) \/ DiesForked(p)
    BY <2>2 DEF Dies, DiesForked
  <2>3. CASE SetTransport(p) \/ SetNotificationTransport(p) \/ SetNotifier(p)
    BY <1>1, <2>3 DEF SetTransport, SetNotificationTransport, SetNotifier
  <2>4. CASE BuildApi(p) \/ BuildWorker(p)
    BY <1>1, <2>4 DEF BuildApi, BuildWorker
  <2>5. CASE Listen(p) \/ Reload(p) \/ MakeClient(p)
    BY <1>1, <2>5 DEF Listen, Reload, MakeClient
  <2>6. ASSUME NEW t \in Thread, AskEngine(p, t)
        PROVE  Good(kind'[p], pc'[p], facade'[p], making'[p], made'[p])
    BY <1>1, <2>6 DEF AskEngine, IsRunning
  <2>7. ASSUME NEW t \in Thread, EngineMade(p, t)
        PROVE  Good(kind'[p], pc'[p], facade'[p], making'[p], made'[p])
    <3>1. made[p][t] = 0 /\ Runs(kind[p], pc[p], t)
      BY <1>1, <2>7 DEF EngineMade
    <3>2. made'[p] = [made[p] EXCEPT ![t] = made[p][t] + 1]
      BY <2>7 DEF EngineMade
    <3>3. facade'[p] = t /\ making'[p] = making[p] \ {t} /\ pc' = pc /\ kind' = kind
      BY <2>7 DEF EngineMade
    <3>4. t # NoEngine
      BY ProcessAssumption DEF ProcessAssumption
    <3>5. \A u \in Thread : made'[p][u] <= 1
      BY <1>1, <3>1, <3>2
    <3>6. \A u \in making'[p] : made'[p][u] = 0 /\ Runs(kind[p], pc[p], u)
      BY <1>1, <3>2, <3>3
    <3>7. pc[p] # "built"
      BY <3>1
    <3> QED BY <3>1, <3>3, <3>4, <3>5, <3>6, <3>7
  <2>8. ASSUME NEW t \in Thread, EngineFails(p, t)
        PROVE  Good(kind'[p], pc'[p], facade'[p], making'[p], made'[p])
    BY <1>1, <2>8 DEF EngineFails
  <2> QED BY <2>1, <2>2, <2>3, <2>4, <2>5, <2>6, <2>7, <2>8 DEF ProcStep, Lives
<1> QED BY <1>2, <1>3 DEF OneEngineEach, MakingFirst, IsRunning

LEMMA ProcStepInv ==
  ASSUME ProcInv, NEW p \in Proc, ProcStep(p)
  PROVE  ProcInv'
  BY ProcTypes, ProcGlobals, ProcEngines DEF ProcInv

LEMMA ProcInitInv == ASSUME ProcInit PROVE ProcInv
  BY ProcessAssumption DEF ProcInit, ProcInv, ProcTypeOK, GlobalsSet, GlobalsInOrder,
     OneEngineEach, MakingFirst, NoneMade, Initialized, ProcessAssumption

LEMMA ProcStutter == ASSUME ProcInv, UNCHANGED procVars PROVE ProcInv'
  BY DEF procVars, ProcInv, ProcTypeOK, GlobalsSet, GlobalsInOrder, OneEngineEach,
         MakingFirst, Initialized, IsRunning

----------------------------------------------------------------------------
(* The schema.                                                             *)

LEMMA CommandTypes ==
  ASSUME DeploymentTypeOK, NEW p \in Proc
  PROVE  /\ cmd \in [Proc -> Command] /\ cmd[p] \in Command
         /\ cmd[p].at \in CommandAt /\ cmd[p].rev \in Nat /\ cmd[p].head \in Nat
         /\ code[p] \in Nat /\ release \in Nat /\ version \in Nat /\ MaxRelease \in Nat
         /\ code[p] <= MaxRelease
<1>1. cmd \in [Proc -> Command] /\ code \in [Proc -> 0..MaxRelease] /\ MaxRelease \in Nat
  BY DeploymentAssumption DEF DeploymentTypeOK, DeploymentAssumption
<1>2. cmd[p] \in Command /\ code[p] \in 0..MaxRelease
  BY <1>1
<1>3. cmd[p].at \in CommandAt /\ cmd[p].rev \in Nat /\ cmd[p].head \in Nat
  BY <1>2 DEF Command
<1>4. release \in Nat /\ version \in Nat
  BY <1>1 DEF DeploymentTypeOK
<1> QED BY <1>1, <1>2, <1>3, <1>4

\* A command that is replaced as a whole.
LEMMA Becomes ==
  ASSUME DeploymentTypeOK, NEW p \in Proc, NEW c \in Command, cmd' = [cmd EXCEPT ![p] = c]
  PROVE  cmd' \in [Proc -> Command] /\ cmd'[p] = c /\ \A q \in Proc \ {p} : cmd'[q] = cmd[q]
  BY CommandTypes

LEMMA Went ==
  ASSUME DeploymentTypeOK, NEW p \in Proc, NEW at \in CommandAt, Goes(p, at)
  PROVE  /\ cmd' \in [Proc -> Command]
         /\ cmd'[p] = [at |-> at, rev |-> cmd[p].rev, head |-> cmd[p].head]
         /\ \A q \in Proc \ {p} : cmd'[q] = cmd[q]
<1> DEFINE c == [at |-> at, rev |-> cmd[p].rev, head |-> cmd[p].head]
<1>1. cmd' = [cmd EXCEPT ![p] = [cmd[p] EXCEPT !.at = at]]
  BY DEF Goes
<1>2. [cmd[p] EXCEPT !.at = at] = c
  BY CommandTypes DEF Command
<1>3. c \in Command
  BY CommandTypes DEF Command
<1>4. cmd' = [cmd EXCEPT ![p] = c]
  BY <1>1, <1>2
<1> HIDE DEF c
<1>5. cmd' \in [Proc -> Command] /\ cmd'[p] = c /\ \A q \in Proc \ {p} : cmd'[q] = cmd[q]
  BY <1>3, <1>4, Becomes
<1> QED BY <1>5 DEF c

LEMMA Ended ==
  ASSUME DeploymentTypeOK, NEW p \in Proc, Ends(p)
  PROVE  /\ cmd' \in [Proc -> Command] /\ cmd'[p] = Done
         /\ \A q \in Proc \ {p} : cmd'[q] = cmd[q]
<1>1. Done \in Command
  BY DEF Done, Command, CommandAt
<1> QED BY <1>1, Becomes DEF Ends

LEMMA Began ==
  ASSUME DeploymentTypeOK, NEW p \in Proc, Begin(p)
  PROVE  /\ cmd' \in [Proc -> Command]
         /\ cmd'[p].at \in {"upgrade", "downgrade", "stamp", "check", "done"}
         /\ cmd'[p].rev <= code[p] /\ cmd'[p].head = 0
         /\ \A q \in Proc \ {p} : cmd'[q] = cmd[q]
<1>1. CASE cmd' = [cmd EXCEPT ![p] = Done]
  <2>1. cmd' \in [Proc -> Command] /\ cmd'[p] = Done /\ \A q \in Proc \ {p} : cmd'[q] = cmd[q]
    BY <1>1, Ended DEF Ends
  <2>2. Done.at = "done" /\ Done.rev = 0 /\ Done.head = 0
    BY DEF Done
  <2>3. 0 <= code[p]
    BY CommandTypes
  <2> QED BY <2>1, <2>2, <2>3
<1>2. CASE cmd' # [cmd EXCEPT ![p] = Done]
  <2>1. PICK at \in {"upgrade", "downgrade", "stamp", "check"}, rev \in 0..code[p] :
          cmd' = [cmd EXCEPT ![p] = [at |-> at, rev |-> rev, head |-> 0]]
    BY <1>2 DEF Begin
  <2>2. [at |-> at, rev |-> rev, head |-> 0] \in Command /\ rev <= code[p]
    BY CommandTypes DEF Command, CommandAt
  <2>3. /\ cmd' \in [Proc -> Command] /\ cmd'[p] = [at |-> at, rev |-> rev, head |-> 0]
        /\ \A q \in Proc \ {p} : cmd'[q] = cmd[q]
    BY <2>1, <2>2, Becomes
  <2> QED BY <2>2, <2>3
<1> QED BY <1>1, <1>2

\* What a migration becomes with each of its scripts.
LEMMA Scripted ==
  ASSUME DeploymentTypeOK, NEW p \in Proc, NEW rev \in Nat, ComesTo(p, rev)
  PROVE  /\ cmd' \in [Proc -> Command]
         /\ cmd'[p] = [at |-> "script", rev |-> cmd[p].rev, head |-> rev]
         /\ \A q \in Proc \ {p} : cmd'[q] = cmd[q]
<1>1. [at |-> "script", rev |-> cmd[p].rev, head |-> rev] \in Command
  BY CommandTypes DEF Command, CommandAt
<1> QED BY <1>1, Becomes DEF ComesTo

\* A script goes one revision on, towards the one that was asked for.
LEMMA TowardFits ==
  ASSUME DeploymentTypeOK, CommandsFit, NEW p \in Proc, IsMigrating(p)
  PROVE  /\ Toward(p) \in Nat /\ Toward(p) <= code[p]
         /\ IsUp(p) => Toward(p) = cmd[p].head + 1 /\ Toward(p) <= cmd[p].rev
         /\ ~IsUp(p) => Toward(p) = cmd[p].head - 1 /\ cmd[p].rev <= Toward(p)
<1>1. /\ cmd[p].rev # cmd[p].head
      /\ cmd[p].rev <= code[p] /\ cmd[p].head <= code[p]
  BY DEF CommandsFit
<1> QED BY <1>1, CommandTypes DEF Toward, IsUp

LEMMA ProcPart == ASSUME DeploymentInv, Next PROVE ProcInv'
<1>1. CASE Release
  BY <1>1, ProcStutter DEF Release, DeploymentInv
<1>2. ASSUME NEW p \in Proc, Launch(p) \/ Exit(p) \/ Run(p) PROVE ProcInv'
  BY <1>2, ProcStepInv DEF Launch, Exit, Run, ProcStep, DeploymentInv
<1>3. ASSUME NEW p \in Proc, Dbmanage(p) PROVE ProcInv'
  <2>1. UNCHANGED procVars
    BY <1>3 DEF Dbmanage, Begin, Upgrade, Downgrade, Migrates, NothingToDo, BeginScript,
                EndScript, RecordVersion, Stamp, CheckVersion, CreateAll, StampHead
  <2> QED BY <2>1, ProcStutter DEF DeploymentInv
<1> QED BY <1>1, <1>2, <1>3 DEF Next

\* What the invariants say of one command, and of what it knows.
Fits(k, at, cd, c) ==
  /\ c.at # "none" => k = "dbmanage" /\ at = "ready"
  /\ c.at = "none" => c.rev = 0 /\ c.head = 0
  /\ c.rev <= cd /\ c.head <= cd
  /\ c.at \in {"script", "running", "record"} => c.rev # c.head

LEMMA AllFit ==
  /\ CommandsFit <=> \A p \in Proc : Fits(kind[p], pc[p], code[p], cmd[p])
  /\ CommandsFit' <=> \A p \in Proc : Fits(kind'[p], pc'[p], code'[p], cmd'[p])
  BY DEF CommandsFit, Fits, IsMigrating

\* What no step of a command disturbs, and where it leaves the command.
LEMMA Took ==
  ASSUME DeploymentTypeOK, CommandsFit, NEW p \in Proc, Dbmanage(p)
  PROVE  /\ UNCHANGED <<kind, pc, code, release>>
         /\ cmd' \in [Proc -> Command] /\ \A q \in Proc \ {p} : cmd'[q] = cmd[q]
         /\ Fits(kind[p], pc[p], code[p], cmd'[p])
         /\ void' \in BOOLEAN /\ cut' \in BOOLEAN /\ (~void' => ~void)
<1> DEFINE Good == /\ UNCHANGED <<kind, pc, code, release>>
                   /\ cmd' \in [Proc -> Command] /\ \A q \in Proc \ {p} : cmd'[q] = cmd[q]
                   /\ Fits(kind[p], pc[p], code[p], cmd'[p])
                   /\ void' \in BOOLEAN /\ cut' \in BOOLEAN /\ (~void' => ~void)
<1>1. Fits(kind[p], pc[p], code[p], cmd[p]) /\ void \in BOOLEAN /\ cut \in BOOLEAN
  BY AllFit DEF DeploymentTypeOK
<1>2. CASE Begin(p)
  BY <1>1, <1>2, Began, CommandTypes DEF Begin, Fits, procVars
<1>3. CASE NothingToDo(p) \/ Stamp(p) \/ StampHead(p)
  <2>1. Ends(p) /\ cmd[p].at # "none"
    BY <1>3 DEF NothingToDo, Stamp, StampHead, IsAt
  <2>2. Fits(kind[p], pc[p], code[p], Done)
    BY <1>1, <2>1, CommandTypes DEF Fits, Done
  <2>3. cmd' \in [Proc -> Command] /\ cmd'[p] = Done /\ \A q \in Proc \ {p} : cmd'[q] = cmd[q]
    BY <2>1, Ended
  <2>4. UNCHANGED <<kind, pc, code, release>>
    BY <1>3 DEF NothingToDo, Stamp, StampHead, procVars
  <2>5. void' \in BOOLEAN /\ cut' \in BOOLEAN /\ (~void' => ~void)
    <3>1. CASE NothingToDo(p)
      BY <1>1, <3>1 DEF NothingToDo
    <3>2. CASE Stamp(p)
      BY <1>1, <3>2 DEF Stamp
    <3>3. CASE StampHead(p)
      BY <1>1, <3>3 DEF StampHead
    <3> QED BY <1>3, <3>1, <3>2, <3>3
  <2> QED BY <2>2, <2>3, <2>4, <2>5
<1>4. CASE Upgrade(p) \/ Downgrade(p)
  <2>1. PICK up \in BOOLEAN : Migrates(p, up)
    BY <1>4 DEF Upgrade, Downgrade
  <2>2. cmd[p].at # "none" /\ version # cmd[p].rev /\ version <= code[p]
    <3>1. CASE Upgrade(p)
      BY <3>1, CommandTypes DEF Upgrade, IsAt, Located
    <3>2. CASE Downgrade(p)
      BY <3>2, CommandTypes DEF Downgrade, IsAt, Located
    <3> QED BY <1>4, <3>1, <3>2
  <2>3. /\ cmd' \in [Proc -> Command] /\ \A q \in Proc \ {p} : cmd'[q] = cmd[q]
        /\ cmd'[p] = [at |-> "script", rev |-> cmd[p].rev, head |-> version]
    BY <2>1, Scripted, CommandTypes DEF Migrates
  <2>4. Fits(kind[p], pc[p], code[p], cmd'[p])
    BY <1>1, <2>2, <2>3 DEF Fits
  <2>5. void' = (void \/ Crosses(p, up)) /\ cut' = cut /\ UNCHANGED <<kind, pc, code, release>>
    BY <2>1 DEF Migrates, procVars
  <2> QED BY <1>1, <2>3, <2>4, <2>5
<1>5. ASSUME NEW at \in {"running", "record"}, Goes(p, at), IsMigrating(p),
             UNCHANGED <<procVars, code, release, cut, void>>
      PROVE  Good
  <2>1. /\ cmd' \in [Proc -> Command] /\ \A q \in Proc \ {p} : cmd'[q] = cmd[q]
        /\ cmd'[p] = [at |-> at, rev |-> cmd[p].rev, head |-> cmd[p].head]
    BY <1>5, Went DEF CommandAt
  <2>2. Fits(kind[p], pc[p], code[p], cmd'[p])
    BY <1>1, <1>5, <2>1 DEF Fits, IsMigrating
  <2> QED BY <1>1, <1>5, <2>1, <2>2 DEF procVars
<1>6. CASE BeginScript(p) \/ EndScript(p)
  BY <1>5, <1>6 DEF BeginScript, EndScript, IsAt, IsMigrating
<1>7. CASE RecordVersion(p)
  <2>1. IsMigrating(p) /\ cmd[p].at # "none" /\ UNCHANGED <<kind, pc, code, release, cut, void>>
    BY <1>7 DEF RecordVersion, IsAt, IsMigrating, procVars
  <2>2. CASE Ends(p)
    BY <1>1, <2>1, <2>2, Ended, CommandTypes DEF Fits, Done
  <2>3. CASE ~Ends(p)
    <3>1. /\ Toward(p) # cmd[p].rev
          /\ ComesTo(p, Toward(p))
      BY <1>7, <2>3 DEF RecordVersion
    <3>2. Toward(p) \in Nat /\ Toward(p) <= code[p]
      BY <2>1, TowardFits
    <3>3. /\ cmd' \in [Proc -> Command] /\ \A q \in Proc \ {p} : cmd'[q] = cmd[q]
          /\ cmd'[p] = [at |-> "script", rev |-> cmd[p].rev, head |-> Toward(p)]
      BY <3>1, <3>2, Scripted
    <3>4. Fits(kind[p], pc[p], code[p], cmd'[p])
      BY <1>1, <2>1, <3>1, <3>2, <3>3 DEF Fits
    <3> QED BY <1>1, <2>1, <3>3, <3>4
  <2> QED BY <2>2, <2>3
<1>8. CASE CheckVersion(p) \/ CreateAll(p)
  <2>1. PICK at \in {"create_all", "stamp_head"} : Goes(p, at)
    BY <1>8 DEF CheckVersion, CreateAll
  <2>2. cmd[p].at # "none"
    BY <1>8 DEF CheckVersion, CreateAll, IsAt
  <2>3. /\ cmd' \in [Proc -> Command] /\ \A q \in Proc \ {p} : cmd'[q] = cmd[q]
        /\ cmd'[p] = [at |-> at, rev |-> cmd[p].rev, head |-> cmd[p].head]
    BY <2>1, Went DEF CommandAt
  <2>4. Fits(kind[p], pc[p], code[p], cmd'[p])
    BY <1>1, <2>2, <2>3 DEF Fits
  <2>5. /\ UNCHANGED <<kind, pc, code, release>> /\ cut' = cut
        /\ void' \in BOOLEAN /\ (~void' => ~void)
    BY <1>1, <1>8 DEF CheckVersion, CreateAll, procVars
  <2> QED BY <1>1, <2>3, <2>4, <2>5
<1> QED BY <1>2, <1>3, <1>4, <1>6, <1>7, <1>8 DEF Dbmanage

LEMMA TypesOfSchema ==
  ASSUME DeploymentTypeOK, CommandsFit, NEW p \in Proc, Dbmanage(p)
  PROVE  tables' \in (0..MaxRelease) \cup {NoTables, Torn} /\ version' \in 0..MaxRelease
<1> DEFINE Good == /\ tables' \in (0..MaxRelease) \cup {NoTables, Torn}
                   /\ version' \in 0..MaxRelease
<1>1. /\ tables \in (0..MaxRelease) \cup {NoTables, Torn} /\ version \in 0..MaxRelease
      /\ cmd[p].rev <= code[p]
  BY DEF DeploymentTypeOK, CommandsFit
<1>2. CASE Begin(p) \/ NothingToDo(p) \/ Upgrade(p) \/ Downgrade(p) \/ CheckVersion(p)
  BY <1>1, <1>2 DEF Begin, NothingToDo, Upgrade, Downgrade, Migrates, CheckVersion
<1>3. CASE BeginScript(p)
  BY <1>1, <1>3 DEF BeginScript
<1>4. CASE EndScript(p) \/ RecordVersion(p)
  <2>1. IsMigrating(p)
    BY <1>4 DEF EndScript, RecordVersion, IsAt, IsMigrating
  <2>2. Toward(p) \in 0..MaxRelease
    BY <2>1, TowardFits, CommandTypes
  <2> QED BY <1>1, <1>4, <2>2 DEF EndScript, RecordVersion, TablesOf
<1>5. CASE Stamp(p) \/ StampHead(p)
  <2>1. cmd[p].rev \in 0..MaxRelease /\ code[p] \in 0..MaxRelease
    BY <1>1, CommandTypes
  <2> QED BY <1>1, <1>5, <2>1 DEF Stamp, StampHead
<1>6. CASE CreateAll(p)
  <2>1. tables' \in {tables, Torn, code[p]} /\ version' = version
    BY <1>6 DEF CreateAll
  <2>2. code[p] \in 0..MaxRelease
    BY CommandTypes
  <2> QED BY <1>1, <2>1, <2>2
<1> QED BY <1>2, <1>3, <1>4, <1>5, <1>6 DEF Dbmanage

LEMMA DeployTypes == ASSUME DeploymentInv, Next PROVE DeploymentTypeOK'
<1>1. ProcTypeOK'
  BY ProcPart DEF ProcInv
<1>2. DeploymentTypeOK /\ CommandsFit /\ MaxRelease \in Nat
  BY DeploymentAssumption DEF DeploymentInv, DeploymentAssumption
<1>3. CASE Release
  BY <1>1, <1>2, <1>3 DEF Release, DeploymentTypeOK
<1>4. ASSUME NEW p \in Proc, Launch(p) \/ Exit(p) \/ Run(p) PROVE DeploymentTypeOK'
  <2>1. NoCommand \in Command
    BY DEF NoCommand, Command, CommandAt
  <2>2. cmd' \in [Proc -> Command] /\ code' \in [Proc -> 0..MaxRelease]
    BY <1>2, <1>4, <2>1 DEF Launch, Exit, Run, schemaVars, DeploymentTypeOK
  <2>3. UNCHANGED <<release, tables, version, void>> /\ cut' \in BOOLEAN
    BY <1>2, <1>4 DEF Launch, Exit, Run, schemaVars, DeploymentTypeOK
  <2> QED BY <1>1, <1>2, <2>2, <2>3 DEF DeploymentTypeOK
<1>5. ASSUME NEW p \in Proc, Dbmanage(p) PROVE DeploymentTypeOK'
  <2>1. /\ UNCHANGED <<code, release>> /\ cmd' \in [Proc -> Command]
        /\ void' \in BOOLEAN /\ cut' \in BOOLEAN
    BY <1>2, <1>5, Took
  <2>2. tables' \in (0..MaxRelease) \cup {NoTables, Torn} /\ version' \in 0..MaxRelease
    BY <1>2, <1>5, TypesOfSchema
  <2> QED BY <1>1, <1>2, <2>1, <2>2 DEF DeploymentTypeOK
<1> QED BY <1>3, <1>4, <1>5 DEF Next

\* What the command c of one process knows of the tables and the version.
Goal(c) == IF c.head < c.rev THEN c.head + 1 ELSE c.head - 1

Knows(k, at, cd, c, rel, tb, v) ==
  /\ k = "dbmanage" /\ at # "down" => cd = rel
  /\ c.at \in {"create_all", "stamp_head"} =>
       tb \in {NoTables, rel} /\ (v # 0 => v = rel /\ tb = rel)
  /\ c.at = "stamp_head" => tb = rel
  /\ c.at \in {"script", "running", "record"} =>
       IF c.head < c.rev THEN c.head <= v ELSE v <= c.head
  /\ c.at = "script" /\ tb = TablesOf(c.head) => v = c.head
  /\ c.at = "running" => v = c.head /\ tb = Torn
  /\ c.at = "record" => v = c.head /\ tb = TablesOf(Goal(c))

\* What the commands of two processes do not do at once.
Agrees(c, d) ==
  c.at \in {"script", "running", "record"} =>
    /\ d.at \notin {"create_all", "stamp_head"}
    /\ d.at \in {"script", "running", "record"} => (c.head < c.rev) = (d.head < d.rev)
    /\ ~(c.at \in {"running", "record"} /\ d.at \in {"running", "record"})

Trusted(tb, v, ct, busy) ==
  v # 0 => /\ tb \in {Torn, TablesOf(v), TablesOf(v + 1), TablesOf(v - 1)}
           /\ tb # v => ct \/ busy

LEMMA AllKnow ==
  /\ CommandsKnow <=>
       \A p \in Proc : Knows(kind[p], pc[p], code[p], cmd[p], release, tables, version)
  /\ CommandsKnow' <=>
       \A p \in Proc : Knows(kind'[p], pc'[p], code'[p], cmd'[p], release', tables', version')
  BY DEF CommandsKnow, Knows, Goal, IsCreating, IsMigrating, IsUp, Toward

LEMMA AllAgree ==
  /\ CommandsAgree <=> \A p, q \in Proc : p # q => Agrees(cmd[p], cmd[q])
  /\ CommandsAgree' <=> \A p, q \in Proc : p # q => Agrees(cmd'[p], cmd'[q])
  BY DEF CommandsAgree, Agrees, IsCreating, IsMigrating, IsScripting, IsUp

LEMMA AllTrusted ==
  /\ VersionTrue <=>
       (~void => Trusted(tables, version, cut, \E p \in Proc : IsScripting(p)))
  /\ VersionTrue' <=>
       (~void' => Trusted(tables', version', cut', \E p \in Proc : IsScripting(p)'))
  BY DEF VersionTrue, Trusted, IsScripting

LEMMA Releases ==
  ASSUME DeploymentInv, Release
  PROVE  CommandsFit' /\ SchemaInv' /\ VersionTrue'
<1>1. UNCHANGED <<kind, pc, code, cmd, tables, version, cut>>
  BY DEF Release, procVars
<1>2. CommandsFit'
  BY <1>1 DEF DeploymentInv, CommandsFit, IsMigrating
<1>3. ~void' => ~void
  BY DEF Release, DeploymentInv, DeploymentTypeOK
<1>4. VersionTrue'
  BY <1>1, <1>3 DEF DeploymentInv, VersionTrue
<1>5. ASSUME ~void' PROVE CommandsKnow' /\ CommandsAgree'
  <2>1. CommandsKnow /\ CommandsAgree
    BY <1>3, <1>5 DEF DeploymentInv, SchemaInv
  <2>2. CommandsAgree'
    BY <1>1, <2>1, AllAgree
  <2>3. ASSUME NEW p \in Proc
        PROVE  Knows(kind'[p], pc'[p], code'[p], cmd'[p], release', tables', version')
    <3>1. Knows(kind[p], pc[p], code[p], cmd[p], release, tables, version)
      BY <2>1, AllKnow
    <3>2. ~(kind[p] = "dbmanage" /\ pc[p] # "down")
      BY <1>5 DEF Release
    <3>3. cmd[p].at = "none"
      BY <3>2 DEF DeploymentInv, CommandsFit
    <3> QED BY <1>1, <3>2, <3>3 DEF Knows
  <2> QED BY <2>2, <2>3, AllKnow
<1> QED BY <1>2, <1>4, <1>5 DEF SchemaInv

\* Where the main thread of a live process goes.
LEMMA LivesOn ==
  ASSUME ProcTypeOK, MakingFirst, NEW p \in Proc, Lives(p)
  PROVE  pc[p] # "down" /\ (kind[p] = "dbmanage" /\ pc[p] = "ready" => pc'[p] = "ready")
<1> USE DEF ProcTypeOK, GoesTo
<1>1. CASE SetTransport(p) \/ SetNotificationTransport(p) \/ SetNotifier(p)
  BY <1>1 DEF SetTransport, SetNotificationTransport, SetNotifier
<1>2. CASE BuildApi(p) \/ BuildWorker(p) \/ Listen(p) \/ Reload(p) \/ DiesForked(p)
           \/ MakeClient(p)
  BY <1>2 DEF BuildApi, BuildWorker, Listen, Reload, DiesForked, MakeClient
<1>3. CASE \E t \in Thread : AskEngine(p, t)
  BY <1>3 DEF AskEngine, IsRunning
<1>4. CASE \E t \in Thread : EngineMade(p, t) \/ EngineFails(p, t)
  <2>1. PICK t \in Thread : t \in making[p] /\ pc' = pc
    BY <1>4 DEF EngineMade, EngineFails
  <2> QED BY <2>1 DEF MakingFirst, IsRunning
<1> QED BY <1>1, <1>2, <1>3, <1>4 DEF Lives

\* A kill that cuts a migration short is what `cut' tells.
LEMMA Processes ==
  ASSUME DeploymentInv, NEW p \in Proc, Launch(p) \/ Exit(p) \/ Run(p)
  PROVE  CommandsFit' /\ SchemaInv' /\ VersionTrue'
<1>1. UNCHANGED <<release, tables, version, void>>
  BY DEF Launch, Exit, Run, schemaVars
<1>2. /\ ProcStep(p) /\ DeploymentTypeOK /\ ProcTypeOK /\ MakingFirst /\ CommandsFit
      /\ release \in Nat
  BY CommandTypes DEF Launch, Exit, Run, ProcStep, DeploymentInv, ProcInv
<1>3. cmd'[p] = cmd[p] \/ cmd'[p] = NoCommand
  BY <1>2 DEF Launch, Exit, Run, schemaVars, DeploymentTypeOK
<1>4. ASSUME NEW q \in Proc, q # p
      PROVE  /\ kind'[q] = kind[q] /\ pc'[q] = pc[q]
             /\ code'[q] = code[q] /\ cmd'[q] = cmd[q]
  <2>1. kind'[q] = kind[q] /\ pc'[q] = pc[q]
    BY <1>2, <1>4, OwnProcess
  <2>2. code'[q] = code[q] /\ cmd'[q] = cmd[q]
    BY <1>2, <1>4 DEF Launch, Exit, Run, schemaVars, DeploymentTypeOK
  <2> QED BY <2>1, <2>2
<1>5. /\ Fits(kind'[p], pc'[p], code'[p], cmd'[p])
      /\ ~void /\ CommandsKnow =>
           Knows(kind'[p], pc'[p], code'[p], cmd'[p], release, tables, version)
  <2>1. Fits(kind[p], pc[p], code[p], cmd[p]) /\ kind'[p] = kind[p]
    BY <1>2, AllFit, OwnProcess
  <2>2. CommandsKnow => Knows(kind[p], pc[p], code[p], cmd[p], release, tables, version)
    BY AllKnow
  <2>3. CASE Launch(p)
    <3>1. pc[p] = "down" /\ code'[p] = release /\ cmd'[p] = cmd[p]
      BY <1>2, <2>3 DEF Launch, Start, schemaVars, DeploymentTypeOK
    <3>2. cmd[p].at = "none"
      BY <2>1, <3>1 DEF Fits
    <3>3. cmd[p].rev = 0 /\ cmd[p].head = 0
      BY <2>1, <3>2 DEF Fits
    <3> QED BY <1>2, <2>1, <2>2, <3>1, <3>2, <3>3, CommandTypes DEF Fits, Knows
  <2>4. CASE Exit(p)
    <3>1. code'[p] = 0 /\ cmd'[p] = NoCommand /\ pc'[p] = "down"
      BY <1>2, <2>4 DEF Exit, Dies, GoesTo, DeploymentTypeOK, ProcTypeOK
    <3> QED BY <3>1 DEF Fits, Knows, NoCommand
  <2>5. CASE Run(p)
    <3>1. code' = code /\ cmd' = cmd
      BY <2>5 DEF Run, schemaVars
    <3>2. pc[p] # "down" /\ (kind[p] = "dbmanage" /\ pc[p] = "ready" => pc'[p] = "ready")
      BY <1>2, <2>5, LivesOn DEF Run
    <3> QED BY <2>1, <2>2, <3>1, <3>2 DEF Fits, Knows
  <2> QED BY <2>3, <2>4, <2>5
<1>6. CommandsFit'
  BY <1>2, <1>4, <1>5, AllFit
<1>7. SchemaInv'
  <2> SUFFICES ASSUME ~void PROVE CommandsKnow' /\ CommandsAgree'
    BY <1>1 DEF SchemaInv
  <2>1. CommandsKnow /\ CommandsAgree
    BY DEF DeploymentInv, SchemaInv
  <2>2. CommandsKnow'
    BY <1>1, <1>4, <1>5, <2>1, AllKnow
  <2>3. ASSUME NEW q \in Proc, NEW r \in Proc, q # r PROVE Agrees(cmd'[q], cmd'[r])
    <3>1. Agrees(cmd[q], cmd[r])
      BY <2>1, <2>3, AllAgree
    <3>2. (cmd'[q] = cmd[q] \/ cmd'[q].at = "none") /\ (cmd'[r] = cmd[r] \/ cmd'[r].at = "none")
      BY <1>3, <1>4 DEF NoCommand
    <3> QED BY <3>1, <3>2 DEF Agrees
  <2> QED BY <2>2, <2>3, AllAgree
<1>8. VersionTrue'
  <2> SUFFICES ASSUME ~void
               PROVE  Trusted(tables', version', cut', \E q \in Proc : IsScripting(q)')
    BY <1>1, AllTrusted
  <2>1. Trusted(tables, version, cut, \E q \in Proc : IsScripting(q))
    BY AllTrusted DEF DeploymentInv
  <2>2. (cut => cut') /\ (IsScripting(p) => cut' \/ IsScripting(p)')
    <3>1. CASE Exit(p)
      BY <1>2, <3>1 DEF Exit, IsScripting, DeploymentTypeOK
    <3>2. CASE Launch(p) \/ Run(p)
      BY <3>2 DEF Launch, Run, schemaVars, IsScripting
    <3> QED BY <3>1, <3>2
  <2>3. \A q \in Proc \ {p} : IsScripting(q) => IsScripting(q)'
    BY <1>4 DEF IsScripting
  <2>4. cut \/ (\E q \in Proc : IsScripting(q)) => cut' \/ (\E q \in Proc : IsScripting(q)')
    BY <2>2, <2>3
  <2> QED BY <1>1, <2>1, <2>4 DEF Trusted
<1> QED BY <1>6, <1>7, <1>8

LEMMA TablesDiffer ==
  \A m, n \in Nat : /\ TablesOf(m) = TablesOf(n) => m = n
                    /\ TablesOf(m) # Torn
                    /\ TablesOf(m) = NoTables <=> m = 0
  BY DEF TablesOf, NoTables, Torn

\* What a step of the command of p keeps for the commands of q and itself.
KeptFor(p, q) ==
  /\ Knows(kind[q], pc[q], code[q], cmd[q], release, tables', version')
  /\ Agrees(cmd'[p], cmd[q]) /\ Agrees(cmd[q], cmd'[p])

KeptByItself(p) ==
  /\ Knows(kind[p], pc[p], code[p], cmd'[p], release, tables', version')
  /\ Trusted(tables', version', cut',
             IsScripting(p)' \/ \E q \in Proc \ {p} : IsScripting(q))

LEMMA KeptAll ==
  ASSUME DeploymentTypeOK, CommandsFit, NEW p \in Proc, Dbmanage(p), KeptByItself(p),
         \A q \in Proc \ {p} : KeptFor(p, q), CommandsAgree
  PROVE  CommandsKnow' /\ CommandsAgree' /\ VersionTrue'
<1>1. UNCHANGED <<kind, pc, code, release>> /\ \A q \in Proc \ {p} : cmd'[q] = cmd[q]
  BY Took
<1>2. CommandsKnow'
  BY <1>1, AllKnow DEF KeptByItself, KeptFor
<1>3. \A q, r \in Proc : q # r => Agrees(cmd'[q], cmd'[r])
  BY <1>1, AllAgree DEF KeptFor
<1>4. CommandsAgree'
  BY <1>3, AllAgree
<1>5. (IsScripting(p)' \/ \E q \in Proc \ {p} : IsScripting(q))
        => \E q \in Proc : IsScripting(q)'
  BY <1>1 DEF IsScripting
<1>6. VersionTrue'
  BY <1>5, AllTrusted DEF KeptByItself, Trusted
<1> QED BY <1>2, <1>4, <1>6

\* The steps that leave the tables and the version alone.
LEMMA Prepares ==
  ASSUME DeploymentInv, NEW p \in Proc, ~void', ~void, CommandsKnow, CommandsAgree,
         Begin(p) \/ NothingToDo(p) \/ Upgrade(p) \/ Downgrade(p) \/ CheckVersion(p)
  PROVE  KeptByItself(p) /\ \A q \in Proc \ {p} : KeptFor(p, q)
<1>1. UNCHANGED <<tables, version, cut>>
  BY DEF Begin, NothingToDo, Upgrade, Downgrade, Migrates, CheckVersion
<1>2. /\ DeploymentTypeOK /\ CommandsFit /\ Dbmanage(p)
      /\ \A q \in Proc : Knows(kind[q], pc[q], code[q], cmd[q], release, tables, version)
      /\ Trusted(tables, version, cut, \E q \in Proc : IsScripting(q))
  BY AllKnow, AllTrusted DEF DeploymentInv, Dbmanage
<1>3. ~IsScripting(p)
  BY DEF Begin, NothingToDo, Upgrade, Downgrade, CheckVersion, IsAt, IsScripting
<1>4. Trusted(tables', version', cut',
              IsScripting(p)' \/ \E q \in Proc \ {p} : IsScripting(q))
  BY <1>1, <1>2, <1>3 DEF Trusted
<1>5. CASE Begin(p) \/ NothingToDo(p)
  <2>1. cmd'[p].at \in {"upgrade", "downgrade", "stamp", "check", "done"}
    BY <1>2, <1>5, Began, Ended DEF NothingToDo, Done
  <2> QED BY <1>1, <1>2, <1>4, <2>1 DEF KeptByItself, KeptFor, Knows, Agrees
<1>6. CASE Upgrade(p) \/ Downgrade(p)
  <2> DEFINE up == version < cmd[p].rev
  <2>1. /\ ComesTo(p, version) /\ version # cmd[p].rev
        /\ \A q \in Proc \ {p} :
             ~IsCreating(q) /\ (IsMigrating(q) => (cmd[q].head < cmd[q].rev <=> up))
    <3>1. version \in Nat /\ cmd[p].rev \in Nat
      BY <1>2, CommandTypes
    <3>2. CASE Upgrade(p)
      <4>1. ComesTo(p, version) /\ up /\ ~Crosses(p, TRUE)
        BY <3>2 DEF Upgrade, Migrates
      <4>2. version # cmd[p].rev
        BY <3>1, <4>1
      <4> QED BY <4>1, <4>2 DEF Crosses, IsUp
    <3>3. CASE Downgrade(p)
      <4>1. ComesTo(p, version) /\ cmd[p].rev < version /\ ~Crosses(p, FALSE)
        BY <3>3 DEF Downgrade, Migrates
      <4>2. version # cmd[p].rev /\ ~up
        BY <3>1, <4>1
      <4> QED BY <4>1, <4>2 DEF Crosses, IsUp
    <3> QED BY <1>6, <3>2, <3>3
  <2>2. cmd'[p] = [at |-> "script", rev |-> cmd[p].rev, head |-> version]
    BY <1>2, <2>1, Scripted, CommandTypes
  <2>3. Knows(kind[p], pc[p], code[p], cmd'[p], release, tables', version')
    BY <1>1, <1>2, <2>1, <2>2, CommandTypes DEF Knows
  <2>4. ASSUME NEW q \in Proc \ {p} PROVE KeptFor(p, q)
    BY <1>1, <1>2, <2>1, <2>2, <2>4 DEF KeptFor, Agrees, IsCreating, IsMigrating
  <2> QED BY <1>4, <2>3, <2>4 DEF KeptByItself
<1>7. CASE CheckVersion(p)
  <2>1. cmd'[p].at = "create_all"
    <3>1. Goes(p, "create_all") /\ "create_all" \in CommandAt
      BY <1>7 DEF CheckVersion, CommandAt
    <3>2. cmd'[p] = [at |-> "create_all", rev |-> cmd[p].rev, head |-> cmd[p].head]
      BY <1>2, <3>1, Went
    <3> QED BY <3>2
  <2>2. /\ version = 0 /\ tables \in {NoTables, code[p]}
        /\ \A q \in Proc \ {p} : ~IsMigrating(q)
    BY <1>7 DEF CheckVersion, IsVersioned, Misused
  <2>3. code[p] = release
    BY <1>2, <1>7 DEF CheckVersion, IsAt, CommandsKnow, CommandsFit
  <2> QED BY <1>1, <1>2, <1>4, <2>1, <2>2, <2>3
          DEF KeptByItself, KeptFor, Knows, Agrees, IsMigrating
<1> QED BY <1>5, <1>6, <1>7

\* The steps of a script, while nobody else runs one.
LEMMA Scripts ==
  ASSUME DeploymentInv, NEW p \in Proc, ~void, CommandsKnow, CommandsAgree,
         BeginScript(p) \/ EndScript(p) \/ RecordVersion(p)
  PROVE  KeptByItself(p) /\ \A q \in Proc \ {p} : KeptFor(p, q)
<1> DEFINE K(q) == Knows(kind[q], pc[q], code[q], cmd[q], release, tables, version)
           to == Toward(p)
           head == cmd[p].head
           up == head < cmd[p].rev
<1>1. /\ DeploymentTypeOK /\ CommandsFit /\ Dbmanage(p) /\ IsMigrating(p)
      /\ \A q \in Proc : K(q)
  BY AllKnow DEF DeploymentInv, Dbmanage, BeginScript, EndScript, RecordVersion, IsAt,
                 IsMigrating
<1>2. /\ version \in Nat /\ head \in Nat /\ to \in Nat
      /\ up => to = head + 1 /\ to <= cmd[p].rev
      /\ ~up => to = head - 1 /\ cmd[p].rev <= to
      /\ cmd[p].head # cmd[p].rev
  BY <1>1, CommandTypes, TowardFits DEF IsUp, CommandsFit
<1>3. ASSUME NEW q \in Proc \ {p}
      PROVE  /\ Agrees(cmd[p], cmd[q]) /\ Agrees(cmd[q], cmd[p])
             /\ K(q) /\ cmd[q].head \in Nat /\ cmd[q].rev \in Nat
             /\ ~IsCreating(q) /\ (IsMigrating(q) => (cmd[q].head < cmd[q].rev) = up)
  BY <1>1, <1>3, AllAgree, CommandTypes DEF Agrees, IsCreating, IsMigrating
<1>4. CASE BeginScript(p)
  <2>1. /\ tables = TablesOf(head) /\ tables' = Torn /\ version' = version /\ cut' = cut
        /\ cmd[p].at = "script"
    BY <1>4 DEF BeginScript, IsAt
  <2>2. cmd'[p] = [at |-> "running", rev |-> cmd[p].rev, head |-> cmd[p].head]
    BY <1>1, <1>4, Went DEF BeginScript, CommandAt
  <2>3. version = head
    BY <1>1, <2>1 DEF Knows
  <2>4. KeptByItself(p)
    BY <1>1, <1>2, <2>1, <2>2, <2>3 DEF KeptByItself, Knows, Trusted, IsScripting
  <2>5. ASSUME NEW q \in Proc \ {p} PROVE KeptFor(p, q)
    <3>1. cmd[q].at # "running"
      BY <1>2, <1>3, <2>1, TablesDiffer DEF Knows
    <3>2. cmd[q].at # "record"
      <4> SUFFICES ASSUME cmd[q].at = "record" PROVE FALSE
        OBVIOUS
      <4>1. cmd[q].head = head /\ TablesOf(head) = TablesOf(Goal(cmd[q]))
        BY <1>3, <2>1, <2>3 DEF Knows
      <4>2. Goal(cmd[q]) = to
        BY <1>2, <1>3, <4>1 DEF Goal, IsMigrating
      <4> QED BY <1>2, <4>1, <4>2, TablesDiffer
    <3>3. Knows(kind[q], pc[q], code[q], cmd[q], release, tables', version')
      BY <1>3, <2>1, <3>1, <3>2, TablesDiffer DEF Knows, IsCreating
    <3> QED BY <1>3, <2>2, <3>1, <3>2, <3>3
            DEF KeptFor, Agrees, IsCreating, IsMigrating
  <2> QED BY <2>4, <2>5
<1>5. CASE EndScript(p)
  <2>1. /\ tables' = TablesOf(to) /\ version' = version /\ cut' = cut
        /\ cmd[p].at = "running"
    BY <1>5 DEF EndScript, IsAt
  <2>2. cmd'[p] = [at |-> "record", rev |-> cmd[p].rev, head |-> cmd[p].head]
    BY <1>1, <1>5, Went DEF EndScript, CommandAt
  <2>3. version = head
    BY <1>1, <2>1 DEF Knows
  <2>4. Goal(cmd'[p]) = to
    BY <1>2, <2>2 DEF Goal
  <2>5. KeptByItself(p)
    BY <1>1, <1>2, <2>1, <2>2, <2>3, <2>4 DEF KeptByItself, Knows, Trusted, IsScripting
  <2>6. ASSUME NEW q \in Proc \ {p} PROVE KeptFor(p, q)
    <3>1. cmd[q].at \notin {"running", "record"}
      BY <1>3, <2>1 DEF Agrees
    <3>2. IsMigrating(q) => cmd[q].head # to /\ TablesOf(to) # TablesOf(cmd[q].head)
      BY <1>2, <1>3, <2>3, TablesDiffer DEF Knows, IsMigrating
    <3>3. Knows(kind[q], pc[q], code[q], cmd[q], release, tables', version')
      BY <1>3, <2>1, <3>1, <3>2 DEF Knows, IsCreating, IsMigrating
    <3> QED BY <1>3, <2>2, <3>1, <3>3 DEF KeptFor, Agrees, IsCreating, IsMigrating
  <2> QED BY <2>5, <2>6
<1>6. CASE RecordVersion(p)
  <2>1. /\ tables' = tables /\ version' = to /\ version = head /\ cut' = cut
        /\ cmd[p].at = "record"
    BY <1>6 DEF RecordVersion, IsAt
  <2>2. tables = TablesOf(to)
    BY <1>1, <2>1 DEF Knows, Goal, Toward, IsUp
  <2>3. \/ cmd'[p] = Done
        \/ /\ cmd'[p] = [at |-> "script", rev |-> cmd[p].rev, head |-> to]
           /\ to # cmd[p].rev
    <3>1. CASE Ends(p)
      BY <1>1, <3>1, Ended
    <3>2. CASE ~Ends(p)
      <4>1. ComesTo(p, to) /\ to # cmd[p].rev
        BY <1>6, <3>2 DEF RecordVersion
      <4> QED BY <1>1, <1>2, <4>1, Scripted
    <3> QED BY <3>1, <3>2
  <2>4. cmd'[p].at \in {"script", "done"}
    BY <2>3 DEF Done
  <2>5. cmd'[p].at = "script" =>
          cmd'[p].head = to /\ cmd'[p].rev = cmd[p].rev /\ (to < cmd[p].rev) = up
    <3>1. cmd'[p].at = "script" =>
            cmd'[p].head = to /\ cmd'[p].rev = cmd[p].rev /\ to # cmd[p].rev
      BY <2>3 DEF Done
    <3>2. cmd[p].rev \in Nat
      BY <1>1, CommandTypes
    <3>3. to # cmd[p].rev => (to < cmd[p].rev) = up
      BY <1>2, <3>2
    <3> QED BY <3>1, <3>3
  <2>6. Knows(kind[p], pc[p], code[p], cmd'[p], release, tables', version')
    BY <1>1, <1>2, <2>1, <2>4, <2>5 DEF Knows
  <2>7. to # 0 => tables' = to
    BY <2>1, <2>2 DEF TablesOf
  <2>8. KeptByItself(p)
    BY <2>1, <2>2, <2>6, <2>7 DEF KeptByItself, Trusted
  <2>9. ASSUME NEW q \in Proc \ {p} PROVE KeptFor(p, q)
    <3>1. cmd[q].at \notin {"running", "record"}
      BY <1>3, <2>1 DEF Agrees
    <3>2. IsMigrating(q) => cmd[q].head # to /\ TablesOf(to) # TablesOf(cmd[q].head)
      BY <1>2, <1>3, <2>1, TablesDiffer DEF Knows, IsMigrating
    <3>3. IsMigrating(q) => IF cmd[q].head < cmd[q].rev THEN cmd[q].head <= to
                                                        ELSE to <= cmd[q].head
      BY <1>2, <1>3, <2>1 DEF Knows, IsMigrating
    <3>4. Knows(kind[q], pc[q], code[q], cmd[q], release, tables', version')
      BY <1>3, <2>1, <2>2, <3>1, <3>2, <3>3 DEF Knows, IsCreating, IsMigrating
    <3> QED BY <1>3, <2>4, <2>5, <3>1, <3>4 DEF KeptFor, Agrees, IsCreating, IsMigrating
  <2> QED BY <2>8, <2>9
<1> QED BY <1>4, <1>5, <1>6

\* Stamps, and the tables of create_schema.
LEMMA Creates ==
  ASSUME DeploymentInv, NEW p \in Proc, ~void', ~void, CommandsKnow, CommandsAgree,
         Stamp(p) \/ CreateAll(p) \/ StampHead(p)
  PROVE  KeptByItself(p) /\ \A q \in Proc \ {p} : KeptFor(p, q)
<1> DEFINE K(q) == Knows(kind[q], pc[q], code[q], cmd[q], release, tables, version)
<1>1. /\ DeploymentTypeOK /\ CommandsFit /\ Dbmanage(p) /\ \A q \in Proc : K(q)
      /\ release \in Nat /\ code[p] = release /\ version \in Nat
  BY AllKnow, CommandTypes
  DEF DeploymentInv, Dbmanage, Stamp, CreateAll, StampHead, IsAt, CommandsKnow, CommandsFit
<1>2. ASSUME NEW q \in Proc \ {p}, IsCreating(p) PROVE ~IsMigrating(q)
  BY <1>2 DEF CommandsAgree
<1>3. CASE Stamp(p)
  <2>1. cmd'[p].at = "done"
    BY <1>1, <1>3, Ended DEF Stamp, Done
  <2>2. /\ tables' = tables /\ version' = cmd[p].rev /\ tables = TablesOf(cmd[p].rev)
        /\ \A q \in Proc \ {p} : ~IsCreating(q) /\ ~IsMigrating(q)
    BY <1>3 DEF Stamp
  <2>3. cmd[p].rev # 0 => tables = cmd[p].rev
    BY <2>2 DEF TablesOf
  <2> QED BY <1>1, <2>1, <2>2, <2>3
          DEF KeptByItself, KeptFor, Knows, Agrees, Trusted, IsCreating, IsMigrating
<1>4. CASE CreateAll(p)
  <2>1. cmd'[p].at = "stamp_head"
    <3>1. Goes(p, "stamp_head") /\ "stamp_head" \in CommandAt
      BY <1>4 DEF CreateAll, CommandAt
    <3>2. cmd'[p] = [at |-> "stamp_head", rev |-> cmd[p].rev, head |-> cmd[p].head]
      BY <1>1, <3>1, Went
    <3> QED BY <3>2
  <2>2. /\ IsCreating(p) /\ version' = version /\ cut' = cut
        /\ tables \in {NoTables, release}
        /\ version # 0 => version = release /\ tables = release
    BY <1>1, <1>4 DEF CreateAll, IsAt, IsCreating, Knows
  <2>3. tables' = release
    BY <1>1, <1>4, <2>2 DEF CreateAll, NoTables, Torn
  <2>4. version # 0 => tables' = version
    BY <2>2, <2>3
  <2>5. Trusted(tables', version', cut',
                IsScripting(p)' \/ \E q \in Proc \ {p} : IsScripting(q))
    BY <2>2, <2>4 DEF Trusted, TablesOf
  <2> QED BY <1>1, <1>2, <2>1, <2>2, <2>3, <2>5
          DEF KeptByItself, KeptFor, Knows, Agrees, IsMigrating
<1>5. CASE StampHead(p)
  <2>1. cmd'[p].at = "done"
    BY <1>1, <1>5, Ended DEF StampHead, Done
  <2>2. IsCreating(p) /\ tables' = tables /\ version' = release /\ tables = release
    BY <1>1, <1>5 DEF StampHead, IsAt, IsCreating, Knows
  <2>3. Trusted(tables', version', cut',
                IsScripting(p)' \/ \E q \in Proc \ {p} : IsScripting(q))
    BY <2>2 DEF Trusted, TablesOf
  <2> QED BY <1>1, <1>2, <2>1, <2>2, <2>3
          DEF KeptByItself, KeptFor, Knows, Agrees, IsMigrating
<1> QED BY <1>3, <1>4, <1>5

LEMMA Commands ==
  ASSUME DeploymentInv, NEW p \in Proc, Dbmanage(p)
  PROVE  CommandsFit' /\ SchemaInv' /\ VersionTrue'
<1>1. DeploymentTypeOK /\ CommandsFit
  BY DEF DeploymentInv
<1>2. CommandsFit'
  BY <1>1, Took, AllFit
<1>3. CASE void'
  BY <1>2, <1>3 DEF SchemaInv, VersionTrue
<1>4. CASE ~void'
  <2>1. ~void /\ CommandsKnow /\ CommandsAgree
    BY <1>1, <1>4, Took DEF DeploymentInv, SchemaInv
  <2>2. KeptByItself(p) /\ \A q \in Proc \ {p} : KeptFor(p, q)
    BY <1>4, <2>1, Prepares, Scripts, Creates DEF Dbmanage
  <2> QED BY <1>1, <1>2, <2>1, <2>2, KeptAll DEF SchemaInv
<1> QED BY <1>3, <1>4

LEMMA InitInv == Init => DeploymentInv
<1> SUFFICES ASSUME Init PROVE DeploymentInv
  OBVIOUS
<1>1. ProcInv
  BY ProcInitInv DEF Init
<1>2. NoCommand \in Command /\ 0 \in 0..MaxRelease
  BY DeploymentAssumption DEF NoCommand, Command, CommandAt, DeploymentAssumption
<1>3. DeploymentTypeOK
  BY <1>1, <1>2 DEF Init, DeploymentTypeOK, ProcInv
<1>4. CommandsFit /\ SchemaInv /\ VersionTrue
  BY <1>2, DeploymentAssumption
  DEF Init, ProcInit, CommandsFit, SchemaInv, CommandsKnow, CommandsAgree, IsCreating,
      IsMigrating, NoCommand, VersionTrue, DeploymentAssumption
<1> QED BY <1>1, <1>3, <1>4 DEF DeploymentInv

LEMMA StutterInv == ASSUME DeploymentInv, UNCHANGED vars PROVE DeploymentInv'
<1>1. ProcInv'
  BY ProcStutter DEF DeploymentInv, vars
<1>2. UNCHANGED <<kind, pc, code, release, tables, version, cmd, cut, void>>
  BY DEF vars, procVars, schemaVars
<1>3. CommandsFit' /\ VersionTrue'
  BY <1>2 DEF DeploymentInv, CommandsFit, VersionTrue, IsMigrating
<1>4. SchemaInv'
  BY <1>2, AllKnow, AllAgree DEF DeploymentInv, SchemaInv
<1>5. DeploymentTypeOK'
  BY <1>1, <1>2 DEF DeploymentInv, DeploymentTypeOK, ProcInv
<1> QED BY <1>1, <1>3, <1>4, <1>5 DEF DeploymentInv

LEMMA NextInv == ASSUME DeploymentInv, Next PROVE DeploymentInv'
<1>1. CommandsFit' /\ SchemaInv' /\ VersionTrue'
  BY Releases, Processes, Commands DEF Next
<1> QED BY <1>1, ProcPart, DeployTypes DEF DeploymentInv

----------------------------------------------------------------------------
\* The invariant of the processes, of the schema and of the dbmanage commands,
\* for any number of processes, green threads and releases, with scripts that run
\* statement by statement and may be killed between any two of them.
THEOREM DeploymentInvariant == Spec => []DeploymentInv
<1>1. DeploymentInv /\ [Next]_vars => DeploymentInv'
  BY NextInv, StutterInv
<1> QED BY <1>1, InitInv, PTL DEF Spec

\* A command is one that dbmanage knows, and its revision is one of a release.
THEOREM DeploymentTypeCorrect == Spec => []DeploymentTypeOK
<1>1. DeploymentInv => DeploymentTypeOK
  BY DEF DeploymentInv
<1> QED BY <1>1, DeploymentInvariant, PTL

\* rpc.initialized tells the truth about a global it does not look at, and what
\* asserts that the transport is there comes after rpc.init.
THEOREM RpcIsSet == Spec => []GlobalsSet
<1>1. DeploymentInv => GlobalsSet
  BY DEF DeploymentInv, ProcInv
<1> QED BY <1>1, DeploymentInvariant, PTL

\* The unguarded global _FACADE costs one engine for each green thread at most.
THEOREM EnginesAreBounded == Spec => []OneEngineEach
<1>1. DeploymentInv => OneEngineEach
  BY DEF DeploymentInv, ProcInv
<1> QED BY <1>1, DeploymentInvariant, PTL

\* The recorded version is at most one script away from the tables, over kills
\* within scripts and concurrent commands, and that far only where it shows.
THEOREM VersionCanBeTrusted == Spec => []VersionTrue
<1>1. DeploymentInv => VersionTrue
  BY DEF DeploymentInv
<1> QED BY <1>1, DeploymentInvariant, PTL

\* A step of one process keeps its engine.
LEMMA KeepsEngine ==
  ASSUME ProcInv, NEW p \in Proc, ProcStep(p), facade[p] # NoEngine,
         pc'[p] \notin {"down", "built"}
  PROVE  facade'[p] # NoEngine /\ (making[p] = {} => facade'[p] = facade[p])
<1> USE DEF ProcInv, ProcTypeOK, GoesTo
<1>1. CASE Start(p) \/ Dies(p) \/ DiesForked(p)
  BY <1>1 DEF Start, Dies, DiesForked
<1>2. CASE SetTransport(p) \/ SetNotificationTransport(p) \/ SetNotifier(p)
           \/ BuildApi(p) \/ BuildWorker(p) \/ Listen(p) \/ Reload(p) \/ MakeClient(p)
  BY <1>2 DEF SetTransport, SetNotificationTransport, SetNotifier, BuildApi, BuildWorker,
              Listen, Reload, MakeClient
<1>3. ASSUME NEW t \in Thread, AskEngine(p, t) \/ EngineMade(p, t) \/ EngineFails(p, t)
      PROVE  facade'[p] # NoEngine /\ (making[p] = {} => facade'[p] = facade[p])
  BY <1>3, ProcessAssumption DEF AskEngine, EngineMade, EngineFails, ProcessAssumption
<1> QED BY <1>1, <1>2, <1>3 DEF ProcStep, Lives

\* The last of the threads that raced for the first engine settles which one the
\* process keeps: no failure and no reload takes it away.
THEOREM EngineIsKept == Spec => EngineSettles
<1> DEFINE Kept(p) ==
      facade[p] # NoEngine /\ pc'[p] \notin {"down", "built"} =>
        /\ facade'[p] # NoEngine
        /\ making[p] = {} => facade'[p] = facade[p]
<1>1. ASSUME DeploymentInv, [Next]_vars PROVE [\A p \in Proc : Kept(p)]_procVars
  <2>1. ASSUME NEW p \in Proc, NEW q \in Proc, ProcStep(q) PROVE Kept(p)
    <3>1. CASE p = q
      BY <1>1, <2>1, <3>1, KeepsEngine DEF DeploymentInv
    <3>2. CASE p # q
      BY <1>1, <2>1, <3>2, OwnProcess DEF DeploymentInv, ProcInv
    <3> QED BY <3>1, <3>2
  <2>2. ASSUME NEW q \in Proc, Launch(q) \/ Exit(q) \/ Run(q)
        PROVE  [\A p \in Proc : Kept(p)]_procVars
    BY <2>1, <2>2 DEF Launch, Exit, Run, ProcStep
  <2>3. ASSUME NEW q \in Proc, Dbmanage(q) PROVE UNCHANGED procVars
    BY <2>3 DEF Dbmanage, Begin, Upgrade, Downgrade, Migrates, NothingToDo, BeginScript,
                EndScript, RecordVersion, Stamp, CheckVersion, CreateAll, StampHead
  <2>4. CASE Release \/ UNCHANGED vars
    BY <2>4 DEF Release, vars
  <2> HIDE DEF Kept
  <2> QED BY <1>1, <2>2, <2>3, <2>4 DEF Next
<1> QED BY <1>1, DeploymentInvariant, PTL DEF Spec, EngineSettles

----------------------------------------------------------------------------
(* The contract.                                                           *)

\* The mapping shows the tables and the version until the rules are broken.
LEMMA BarShows ==
  /\ ~void => ofBar = tables /\ recordedBar = version
  /\ ~void' => ofBar' = tables' /\ recordedBar' = version'
  /\ void => ofBar = NoTables /\ recordedBar = 0
  /\ void' => ofBar' = NoTables /\ recordedBar' = 0
  BY DEF ofBar, recordedBar

\* The contract's variables stand still when the schema's do.
LEMMA BarStays ==
  ASSUME UNCHANGED <<release, tables, version, void>>
  PROVE  UNCHANGED Schema!schemaVars
  BY DEF Schema!schemaVars, ofBar, recordedBar

LEMMA SameNames ==
  /\ Schema!NoTables = NoTables /\ Schema!Torn = Torn
  /\ \A rev \in Int : Schema!TablesOf(rev) = TablesOf(rev)
  BY DEF Schema!NoTables, Schema!Torn, Schema!TablesOf, NoTables, Torn, TablesOf

\* Once the rules are broken nothing is promised, and it stays so.
LEMMA BarSpoils ==
  ASSUME void' = TRUE, release' \in {release, release + 1}
  PROVE  Schema!Spoil
  BY BarShows, SameNames DEF Schema!Spoil

LEMMA CommandMaps ==
  ASSUME DeploymentInv, NEW p \in Proc, Dbmanage(p)
  PROVE  [Schema!Next]_(Schema!schemaVars)
<1>1. DeploymentTypeOK /\ CommandsFit /\ release' = release /\ void' \in BOOLEAN
      /\ void \in BOOLEAN /\ (~void' => ~void) /\ version \in Nat /\ release \in Nat
  BY Took, CommandTypes DEF DeploymentInv, DeploymentTypeOK
<1>2. CASE void'
  BY <1>1, <1>2, BarSpoils DEF Schema!Next
<1> SUFFICES ASSUME ~void' PROVE [Schema!Next]_(Schema!schemaVars)
  BY <1>2
<1>3. /\ ~void /\ void' = void /\ CommandsKnow
      /\ ofBar = tables /\ recordedBar = version
      /\ ofBar' = tables' /\ recordedBar' = version'
      /\ Knows(kind[p], pc[p], code[p], cmd[p], release, tables, version)
  BY <1>1, BarShows, AllKnow DEF DeploymentInv, SchemaInv
<1>4. CASE Begin(p) \/ NothingToDo(p) \/ Upgrade(p) \/ Downgrade(p) \/ CheckVersion(p)
  <2>1. UNCHANGED <<tables, version>>
    BY <1>4 DEF Begin, NothingToDo, Upgrade, Downgrade, Migrates, CheckVersion
  <2> QED BY <1>1, <1>3, <2>1, BarStays
<1>5. CASE BeginScript(p)
  <2>1. tables = TablesOf(cmd[p].head) /\ version = cmd[p].head
        /\ tables' = Torn /\ version' = version
    BY <1>3, <1>5 DEF BeginScript, IsAt, Knows
  <2>2. Schema!Tear
    BY <1>1, <1>3, <2>1, SameNames DEF Schema!Tear
  <2> QED BY <2>2 DEF Schema!Next
<1>6. CASE EndScript(p)
  <2>1. /\ tables = Torn /\ version = cmd[p].head
        /\ tables' = TablesOf(Toward(p)) /\ version' = version
    BY <1>3, <1>6 DEF EndScript, IsAt, Knows
  <2>2. Toward(p) \in {version + 1, version - 1}
    BY <2>1 DEF Toward
  <2>3. Schema!Mend
    BY <1>1, <1>3, <2>1, <2>2, SameNames DEF Schema!Mend
  <2> QED BY <2>3 DEF Schema!Next
<1>7. ASSUME NEW rev \in 0..release, tables = TablesOf(rev), tables' = tables, version' = rev
      PROVE  Schema!Next
  <2>1. Schema!Record(rev)
    BY <1>1, <1>3, <1>7, SameNames DEF Schema!Record
  <2> QED BY <1>7, <2>1 DEF Schema!Next
<1>8. CASE RecordVersion(p)
  <2>1. tables = TablesOf(Toward(p)) /\ tables' = tables /\ version' = Toward(p)
    BY <1>3, <1>8 DEF RecordVersion, IsAt, Knows, Goal, Toward, IsUp
  <2>2. IsMigrating(p) /\ code[p] = release
    BY <1>1, <1>3, <1>8 DEF RecordVersion, IsAt, IsMigrating, CommandsFit, CommandsKnow
  <2>3. Toward(p) \in 0..release
    BY <1>1, <2>2, TowardFits
  <2> QED BY <1>7, <2>1, <2>3
<1>9. CASE Stamp(p)
  <2>1. tables = TablesOf(cmd[p].rev) /\ tables' = tables /\ version' = cmd[p].rev
    BY <1>9 DEF Stamp
  <2>2. code[p] = release /\ cmd[p].rev \in Nat /\ cmd[p].rev <= code[p]
    BY <1>1, <1>3, <1>9, CommandTypes DEF Stamp, IsAt, CommandsFit, CommandsKnow
  <2> QED BY <1>1, <1>7, <2>1, <2>2
<1>10. CASE CreateAll(p)
  <2>1. /\ version' = version /\ code[p] = release /\ tables \in {NoTables, release}
        /\ version # 0 => tables = release /\ version = release
    BY <1>1, <1>3, <1>10 DEF CreateAll, IsAt, CommandsFit, Knows
  <2>2. tables' = release
    BY <1>1, <1>10, <2>1 DEF CreateAll, NoTables, Torn
  <2>3. CASE tables = release
    BY <1>1, <1>3, <2>1, <2>2, <2>3, BarStays
  <2>4. CASE tables # release
    <3>1. Schema!Make
      BY <1>1, <1>3, <2>1, <2>2, <2>4, SameNames DEF Schema!Make
    <3> QED BY <3>1 DEF Schema!Next
  <2> QED BY <2>3, <2>4
<1>11. CASE StampHead(p)
  <2>1. /\ tables' = tables /\ tables = release /\ version' = release
        /\ version # 0 => version = release
    BY <1>1, <1>3, <1>11 DEF StampHead, IsAt, CommandsFit, Knows
  <2>2. CASE release = 0
    BY <1>1, <1>3, <2>1, <2>2, BarStays
  <2>3. CASE release # 0
    <3>1. tables = TablesOf(release) /\ release \in 0..release
      BY <1>1, <2>1, <2>3 DEF TablesOf
    <3> QED BY <1>7, <2>1, <3>1
  <2> QED BY <2>2, <2>3
<1> QED BY <1>4, <1>5, <1>6, <1>8, <1>9, <1>10, <1>11 DEF Dbmanage

LEMMA StepMaps ==
  ASSUME DeploymentInv, [Next]_vars
  PROVE  [Schema!Next]_(Schema!schemaVars)
<1>1. CASE Release
  <2>1. void \in BOOLEAN /\ void' \in BOOLEAN /\ (~void' => ~void)
        /\ release' = release + 1 /\ UNCHANGED <<tables, version>>
    BY <1>1 DEF Release, DeploymentInv, DeploymentTypeOK
  <2>2. CASE void'
    BY <2>1, <2>2, BarSpoils DEF Schema!Next
  <2>3. CASE ~void'
    <3>1. Schema!Release
      BY <2>1, <2>3, BarShows DEF Schema!Release
    <3> QED BY <3>1 DEF Schema!Next
  <2> QED BY <2>2, <2>3
<1>2. CASE UNCHANGED vars
  BY <1>2, BarStays DEF vars, schemaVars
<1>3. ASSUME NEW p \in Proc, Launch(p) \/ Exit(p) \/ Run(p)
      PROVE  [Schema!Next]_(Schema!schemaVars)
  BY <1>3, BarStays DEF Launch, Exit, Run, schemaVars
<1>4. ASSUME NEW p \in Proc, Dbmanage(p)
      PROVE  [Schema!Next]_(Schema!schemaVars)
  BY <1>4, CommandMaps
<1> QED BY <1>1, <1>2, <1>3, <1>4 DEF Next

\* What dbmanage processes do to a schema, at once and killed anywhere, is what
\* single commands would do, script by script: the deployment implements the
\* contract.
THEOREM SchemaContractKept == Spec => KeepsSchema
<1>1. Init => Schema!Init
  <2> SUFFICES ASSUME Init PROVE Schema!Init
    OBVIOUS
  <2>1. ofBar = NoTables /\ recordedBar = 0 /\ void = FALSE
    BY DEF Init, ofBar, recordedBar
  <2> QED BY <2>1, SameNames, DeploymentAssumption
          DEF Init, Schema!Init, DeploymentAssumption
<1>2. DeploymentInv /\ [Next]_vars => [Schema!Next]_(Schema!schemaVars)
  BY StepMaps
<1> QED BY <1>1, <1>2, DeploymentInvariant, PTL DEF Spec, KeepsSchema, Schema!Spec
=============================================================================
