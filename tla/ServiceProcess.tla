--------------------------- MODULE ServiceProcess ---------------------------
(***************************************************************************)
(* The processes of a deployment: API, worker and dbmanage.  Each starts   *)
(* with prepare_service, which sets the three globals of common/rpc.py one *)
(* after the other; a server then builds its service, listens and may be   *)
(* told to reload (SIGHUP).  Its green threads share one engine facade, a  *)
(* global of db/sqlalchemy/api.py that the first one to need it makes.     *)
(***************************************************************************)
EXTENDS Names, Naturals

CONSTANTS
  Proc,       \* the processes of the deployment
  Forked,     \* those forked by a launcher, which forks another one if they die
  Thread,     \* the green threads a process may have at one time
  Main,       \* the only one of a dbmanage process
  NoEngine    \* _FACADE is None

VARIABLES
  kind,      \* the program each process runs
  pc,        \* where its main thread is
  globals,   \* the globals of rpc.py that are not None
  client,    \* WorkerAPI._conductor_client is not None
  facade,    \* _FACADE: the thread that made it, or NoEngine
  making,    \* green threads inside EngineFacade.from_config
  made       \* how many engines each thread has made in this process

procVars == <<kind, pc, globals, client, facade, making, made>>

Kind == {"api", "worker", "dbmanage"}

RpcGlobals == {"TRANSPORT", "NOTIFICATION_TRANSPORT", "NOTIFIER"}

ASSUME ProcessAssumption == Main \in Thread /\ NoEngine \notin Thread

StartNames == [api |-> ApiStartNames, worker |-> WorkerStartNames,
               dbmanage |-> DbmanageStartNames]

NoneMade == [t \in Thread |-> 0]

----------------------------------------------------------------------------
(* The main thread.                                                        *)

GoesTo(p, at) == pc' = [pc EXCEPT ![p] = at]

Sets(p, global) == globals' = [globals EXCEPT ![p] = @ \cup {global}]

\* Mutant: the program goes on without prepare_service.
StartUnprepared(p) ==
  /\ pc[p] = "down" /\ Defined(StartNames[kind[p]])
  /\ GoesTo(p, "ready")
  /\ UNCHANGED <<kind, globals, client, facade, making, made>>

\* main: prepare_service parses the arguments.
Start(p) ==
  /\ pc[p] = "down" /\ Defined(StartNames[kind[p]])
  /\ GoesTo(p, "parsing")
  /\ UNCHANGED <<kind, globals, client, facade, making, made>>

\* rpc.init, one global after the other: each of these calls may raise.
SetTransport(p) ==
  /\ pc[p] = "parsing" /\ globals[p] = {}
  /\ Sets(p, "TRANSPORT")
  /\ UNCHANGED <<kind, pc, client, facade, making, made>>

SetNotificationTransport(p) ==
  /\ pc[p] = "parsing" /\ globals[p] = {"TRANSPORT"}
  /\ Sets(p, "NOTIFICATION_TRANSPORT")
  /\ UNCHANGED <<kind, pc, client, facade, making, made>>

\* The rest of prepare_service leaves nothing behind that matters here.
SetNotifier(p) ==
  /\ pc[p] = "parsing" /\ "NOTIFICATION_TRANSPORT" \in globals[p]
  /\ Sets(p, "NOTIFIER") /\ GoesTo(p, "ready")
  /\ UNCHANGED <<kind, client, facade, making, made>>

\* rpc.initialized, which does not look at NOTIFICATION_TRANSPORT.
Initialized(p) == {"TRANSPORT", "NOTIFIER"} \subseteq globals[p]

\* The assertion of get_server and of get_client.
AssertTransport(p) == "TRANSPORT" \in globals[p]

\* The application and its controllers: WorkerAPI has a topic and no endpoint,
\* so it builds no server.
BuildApi(p) ==
  /\ pc[p] = "ready" /\ kind[p] = "api"
  /\ GoesTo(p, "built")
  /\ UNCHANGED <<kind, globals, client, facade, making, made>>

\* Service.__init__ of the worker: its endpoint gets a server.
BuildWorker(p) ==
  /\ pc[p] = "ready" /\ kind[p] = "worker" /\ AssertTransport(p)
  /\ GoesTo(p, "built")
  /\ UNCHANGED <<kind, globals, client, facade, making, made>>

\* launch, or the same service again once it was stopped for a reload.
Listen(p) ==
  /\ pc[p] \in {"built", "reloading"}
  /\ GoesTo(p, "serving")
  /\ UNCHANGED <<kind, globals, client, facade, making, made>>

\* SIGHUP: the launcher calls stop, and reset, which does nothing; green
\* threads that have begun run on.
Reload(p) ==
  /\ pc[p] = "serving"
  /\ GoesTo(p, "reloading")
  /\ UNCHANGED <<kind, globals, client, facade, making, made>>

\* What a process was in the middle of is gone with its memory.
Forget(p, inherited) ==
  /\ globals' = [globals EXCEPT ![p] = inherited]
  /\ client' = [client EXCEPT ![p] = FALSE]
  /\ facade' = [facade EXCEPT ![p] = NoEngine]
  /\ making' = [making EXCEPT ![p] = {}]
  /\ made' = [made EXCEPT ![p] = NoneMade]
  /\ UNCHANGED kind

\* The end, a signal, or an exception that main does not catch.
Dies(p) == pc[p] # "down" /\ GoesTo(p, "down") /\ Forget(p, {})

\* The launcher forks from where it was: services built, globals set.
DiesForked(p) ==
  /\ p \in Forked /\ kind[p] = "api" /\ pc[p] \in {"serving", "reloading"}
  /\ GoesTo(p, "built") /\ Forget(p, globals[p])

----------------------------------------------------------------------------
(* The green threads.                                                      *)

IsRunning(p, t) ==
  \/ pc[p] \in {"serving", "reloading"}
  \/ pc[p] = "ready" /\ kind[p] = "dbmanage" /\ t = Main

\* The first cast of a process makes its client.
MakeClient(p) ==
  /\ pc[p] \in {"serving", "reloading"} /\ kind[p] = "api"
  /\ ~client[p] /\ AssertTransport(p)
  /\ client' = [client EXCEPT ![p] = TRUE]
  /\ UNCHANGED <<kind, pc, globals, facade, making, made>>

\* Mutant: the thread does not look whether there is one.
AskEngineAlways(p, t) ==
  /\ IsRunning(p, t) /\ t \notin making[p]
  /\ making' = [making EXCEPT ![p] = @ \cup {t}]
  /\ UNCHANGED <<kind, pc, globals, client, facade, made>>

\* get_engine, get_session: there is no facade.  from_config connects to the
\* database, so other threads run before it returns.
AskEngine(p, t) ==
  /\ IsRunning(p, t) /\ t \notin making[p]
  /\ facade[p] = NoEngine
  /\ making' = [making EXCEPT ![p] = @ \cup {t}]
  /\ UNCHANGED <<kind, pc, globals, client, facade, made>>

\* It sets the global, whether or not another thread did so meanwhile.
EngineMade(p, t) ==
  /\ t \in making[p]
  /\ facade' = [facade EXCEPT ![p] = t]
  /\ making' = [making EXCEPT ![p] = @ \ {t}]
  /\ made' = [made EXCEPT ![p][t] = @ + 1]
  /\ UNCHANGED <<kind, pc, globals, client>>

\* Mutant: a failure forgets the engine.
EngineFailsClearing(p, t) ==
  /\ t \in making[p] /\ kind[p] # "dbmanage"
  /\ making' = [making EXCEPT ![p] = @ \ {t}]
  /\ facade' = [facade EXCEPT ![p] = NoEngine]
  /\ UNCHANGED <<kind, pc, globals, client, made>>

\* DBConnectionError, to the caller: the request fails, a later one tries again.
\* dbmanage ends with it.
EngineFails(p, t) ==
  /\ t \in making[p] /\ kind[p] # "dbmanage"
  /\ making' = [making EXCEPT ![p] = @ \ {t}]
  /\ UNCHANGED <<kind, pc, globals, client, facade, made>>

----------------------------------------------------------------------------
ProcInit ==
  /\ kind \in [Proc -> Kind]
  /\ pc = [p \in Proc |-> "down"]
  /\ globals = [p \in Proc |-> {}]
  /\ client = [p \in Proc |-> FALSE]
  /\ facade = [p \in Proc |-> NoEngine]
  /\ making = [p \in Proc |-> {}]
  /\ made = [p \in Proc |-> NoneMade]

\* Every step of a process but Start and Dies.
Lives(p) ==
  \/ SetTransport(p) \/ SetNotificationTransport(p) \/ SetNotifier(p)
  \/ BuildApi(p) \/ BuildWorker(p) \/ Listen(p) \/ Reload(p) \/ DiesForked(p)
  \/ MakeClient(p)
  \/ \E t \in Thread : AskEngine(p, t) \/ EngineMade(p, t) \/ EngineFails(p, t)

----------------------------------------------------------------------------
(* Properties.                                                             *)

\* The values of the variables: the facade is one that a thread has made.
ProcTypeOK ==
  /\ kind \in [Proc -> Kind]
  /\ pc \in [Proc -> {"down", "parsing", "ready", "built", "serving", "reloading"}]
  /\ globals \in [Proc -> SUBSET RpcGlobals]
  /\ client \in [Proc -> BOOLEAN]
  /\ facade \in [Proc -> Thread \cup {NoEngine}]
  /\ making \in [Proc -> SUBSET Thread]
  /\ made \in [Proc -> [Thread -> Nat]]

\* rpc.initialized answers for all three globals although it looks at two, and
\* no process is past prepare_service without them: the assertions of
\* get_server, get_client and get_notifier hold wherever they are reached.
GlobalsSet ==
  \A p \in Proc :
    Initialized(p) \/ pc[p] \notin {"down", "parsing"} => globals[p] = RpcGlobals

\* However many requests need the first engine at once, and whatever fails, the
\* engines of a process are at most one per green thread: none makes a second
\* one.  The launcher has none that its children would share.
OneEngineEach ==
  \A p \in Proc :
    /\ \A t \in Thread : made[p][t] <= 1
    /\ pc[p] = "built" => facade[p] = NoEngine /\ making[p] = {}

\* Once a process has an engine it always has one, across reloads and failures,
\* and always the same one as soon as no thread is still making another.
EngineSettles ==
  [][\A p \in Proc :
       facade[p] # NoEngine /\ pc'[p] \notin {"down", "built"} =>
         /\ facade'[p] # NoEngine
         /\ making[p] = {} => facade'[p] = facade[p]]_procVars

----------------------------------------------------------------------------
(* What makes the invariants inductive.                                    *)

\* A thread that is making an engine has made none yet.
MakingFirst ==
  \A p \in Proc :
    /\ \A t \in making[p] : made[p][t] = 0 /\ IsRunning(p, t)
    /\ facade[p] = NoEngine => made[p] = NoneMade
    /\ facade[p] # NoEngine => \E t \in Thread : IsRunning(p, t)

GlobalsInOrder ==
  \A p \in Proc :
    /\ "NOTIFIER" \in globals[p] => globals[p] = RpcGlobals
    /\ "NOTIFICATION_TRANSPORT" \in globals[p] => "TRANSPORT" \in globals[p]

ProcInv == ProcTypeOK /\ GlobalsSet /\ GlobalsInOrder /\ OneEngineEach /\ MakingFirst
=============================================================================
