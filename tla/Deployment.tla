----------------------------- MODULE Deployment -----------------------------
(***************************************************************************)
(* The schema and the processes: operators run dbmanage commands on it,    *)
(* at any time and at once, while releases with more revision scripts are  *)
(* installed (db/sqlalchemy/migration.py).  alembic/env.py asks for a      *)
(* transaction, which SQLite (conf/db.py's default) and MySQL do not give  *)
(* to DDL: there alembic runs one script after the other, statement by     *)
(* statement, and records the version after each.  A database that does    *)
(* give it shows fewer of these behaviours.                                *)
(*                                                                         *)
(* Revision 0 is alembic's base: no version.  A release is named by its    *)
(* newest revision; its models are the tables its scripts lead to.  Script *)
(* 1 makes the tables, each later one turns those of the revision before   *)
(* into its own.  The commit as it stands is release 0: models, no script. *)
(***************************************************************************)
EXTENDS ServiceProcess, Integers

CONSTANT MaxRelease  \* bound: the last release

VARIABLES
  release,  \* the release that is installed
  code,     \* the release each process was started from
  tables,   \* the release whose tables the database has, NoTables or Torn
  version,  \* alembic_version, 0 if none is recorded
  cmd,      \* of each dbmanage process: where its command is, its revision, and
            \* the one its migration has come to
  cut,      \* a migration died in a script or before it recorded the version
  void      \* an operator did what the version cannot be trusted after

schemaVars == <<release, tables, version, cmd, cut, void>>

vars == <<procVars, code, schemaVars>>

NoTables == -1

\* Some statements of a script are done, and some are not.
Torn == -2

TablesOf(rev) == IF rev = 0 THEN NoTables ELSE rev

NoCommand == [at |-> "none", rev |-> 0, head |-> 0]

Done == [at |-> "done", rev |-> 0, head |-> 0]

CommandAt == {"none", "upgrade", "downgrade", "stamp", "check", "create_all",
              "stamp_head", "script", "running", "record", "done"}

Command == [at : CommandAt, rev : Nat, head : Nat]

ASSUME DeploymentAssumption == MaxRelease \in Nat

----------------------------------------------------------------------------
\* main and the parsers: a command and a revision; without a revision, the head
\* for upgrade and the base for downgrade.  `version` and `revision` end here:
\* they change nothing in the database.
Begin(p) ==
  /\ kind[p] = "dbmanage" /\ pc[p] = "ready"
  /\ cmd[p].at = "none"
  /\ Defined(MigrationNames)
  /\ \/ cmd' = [cmd EXCEPT ![p] = Done]
     \/ \E at \in {"upgrade", "downgrade", "stamp", "check"}, rev \in 0..code[p] :
          cmd' = [cmd EXCEPT ![p] = [at |-> at, rev |-> rev, head |-> 0]]
  /\ UNCHANGED <<procVars, code, release, tables, version, cut, void>>

\* Each command works on the engine of the facade; alembic looks the recorded
\* version up among the scripts it has.
IsAt(p, at) == pc[p] = "ready" /\ cmd[p].at = at /\ facade[p] # NoEngine

Located(p) == version <= code[p]

Goes(p, at) == cmd' = [cmd EXCEPT ![p].at = at]

Ends(p) == cmd' = [cmd EXCEPT ![p] = Done]

\* It is about to run the script from a revision.
ComesTo(p, rev) ==
  cmd' = [cmd EXCEPT ![p] = [at |-> "script", rev |-> cmd[p].rev, head |-> rev]]

\* create_schema has looked at the version and not yet recorded one.
IsCreating(q) == cmd[q].at \in {"create_all", "stamp_head"}

IsMigrating(q) == cmd[q].at \in {"script", "running", "record"}

IsUp(q) == cmd[q].head < cmd[q].rev

\* Mutant: a script down is taken for two.
TowardPast(p) == IF IsUp(p) THEN cmd[p].head + 1 ELSE cmd[p].head - 2

\* The revision the script at hand leads to.
Toward(p) == IF IsUp(p) THEN cmd[p].head + 1 ELSE cmd[p].head - 1

----------------------------------------------------------------------------
(* upgrade and downgrade.                                                  *)

\* Another command is at work that this migration gets in the way of.
Crosses(p, up) ==
  \E q \in Proc \ {p} : IsCreating(q) \/ (IsMigrating(q) /\ IsUp(q) # up)

\* alembic reads the version and lists the scripts to run.
Migrates(p, up) ==
  /\ ComesTo(p, version)
  /\ void' = (void \/ Crosses(p, up))
  /\ UNCHANGED <<procVars, code, release, tables, version, cut>>

Upgrade(p) ==
  /\ IsAt(p, "upgrade") /\ Located(p)
  /\ version < cmd[p].rev
  /\ Migrates(p, TRUE)

Downgrade(p) ==
  /\ IsAt(p, "downgrade") /\ Located(p)
  /\ cmd[p].rev < version
  /\ Migrates(p, FALSE)

NothingToDo(p) ==
  /\ IsAt(p, "upgrade") \/ IsAt(p, "downgrade")
  /\ Located(p) /\ version = cmd[p].rev
  /\ Ends(p)
  /\ UNCHANGED <<procVars, code, release, tables, version, cut, void>>

\* Mutant: the script begins whatever tables there are.
BeginScriptAnyTables(p) ==
  /\ IsAt(p, "script")
  /\ tables' = Torn
  /\ Goes(p, "running")
  /\ UNCHANGED <<procVars, code, release, version, cut, void>>

\* The first statement of a script, which fails on other tables than those of
\* the revision the script comes from.
BeginScript(p) ==
  /\ IsAt(p, "script") /\ tables = TablesOf(cmd[p].head)
  /\ tables' = Torn
  /\ Goes(p, "running")
  /\ UNCHANGED <<procVars, code, release, version, cut, void>>

\* Its last one.
EndScript(p) ==
  /\ IsAt(p, "running")
  /\ tables' = TablesOf(Toward(p))
  /\ Goes(p, "record")
  /\ UNCHANGED <<procVars, code, release, version, cut, void>>

\* The version after each script: alembic updates or deletes the row that has
\* the one it comes from and fails if there is none.  (From the base it inserts
\* one: a row that is there already takes a stamp by hand meanwhile.)
RecordVersion(p) ==
  /\ IsAt(p, "record") /\ version = cmd[p].head
  /\ version' = Toward(p)
  /\ IF Toward(p) = cmd[p].rev
     THEN Ends(p)
     ELSE ComesTo(p, Toward(p))
  /\ UNCHANGED <<procVars, code, release, tables, cut, void>>

----------------------------------------------------------------------------
(* stamp and create_schema.                                                *)

\* The command stamp, the operator's word: right if it names the tables there
\* are and nothing else works on them.
Stamp(p) ==
  /\ IsAt(p, "stamp") /\ Located(p)
  /\ version' = cmd[p].rev
  /\ void' = (void \/ tables # TablesOf(cmd[p].rev)
                   \/ \E q \in Proc \ {p} : IsCreating(q) \/ IsMigrating(q))
  /\ cut' = FALSE
  /\ Ends(p)
  /\ UNCHANGED <<procVars, code, release, tables>>

\* version: what alembic_version says, if there is one.
IsVersioned == version # 0

\* create_schema over tables of another release, or during a migration.
Misused(p) ==
  \/ ~IsVersioned /\ tables \notin {NoTables, code[p]}
  \/ \E q \in Proc \ {p} : IsMigrating(q)

\* Mutant: create_schema does not look at the version.
CheckNothing(p) ==
  /\ IsAt(p, "check")
  /\ void' = (void \/ Misused(p))
  /\ Goes(p, "create_all")
  /\ UNCHANGED <<procVars, code, release, tables, version, cut>>

\* create_schema's guard: not under version control, as far as is recorded.
CheckVersion(p) ==
  /\ IsAt(p, "check") /\ ~IsVersioned
  /\ void' = (void \/ Misused(p))
  /\ Goes(p, "create_all")
  /\ UNCHANGED <<procVars, code, release, tables, version, cut>>

\* create_all makes the table of the models if it is not there, in one
\* statement, and leaves it alone otherwise.  A table torn by a script may be
\* there or not.
CreateAll(p) ==
  /\ IsAt(p, "create_all")
  /\ tables' \in CASE tables = NoTables -> {code[p]}
                   [] tables = Torn -> {Torn, code[p]}
                   [] OTHER -> {tables}
  /\ Goes(p, "stamp_head")
  /\ UNCHANGED <<procVars, code, release, version, cut, void>>

\* stamp('head'), in a transaction of its own: without a script it records
\* nothing.
StampHead(p) ==
  /\ IsAt(p, "stamp_head") /\ Located(p)
  /\ version' = code[p]
  /\ cut' = FALSE
  /\ Ends(p)
  /\ UNCHANGED <<procVars, code, release, tables, void>>

Dbmanage(p) ==
  \/ Begin(p)
  \/ Upgrade(p) \/ Downgrade(p) \/ NothingToDo(p)
  \/ BeginScript(p) \/ EndScript(p) \/ RecordVersion(p)
  \/ Stamp(p) \/ CheckVersion(p) \/ CreateAll(p) \/ StampHead(p)

----------------------------------------------------------------------------
\* A release with one more revision script, made with the command revision.
Release ==
  /\ release < MaxRelease
  /\ release' = release + 1
  /\ void' = (void \/ \E p \in Proc : kind[p] = "dbmanage" /\ pc[p] # "down")
  /\ UNCHANGED <<procVars, code, tables, version, cmd, cut>>

\* A process has the models and the scripts it was started with.
Launch(p) ==
  /\ Start(p)
  /\ code' = [code EXCEPT ![p] = release]
  /\ UNCHANGED schemaVars

\* Its command is over or cut short, also inside a script and between a script
\* and its version: nothing resumes it.
Exit(p) ==
  /\ Dies(p)
  /\ code' = [code EXCEPT ![p] = 0]
  /\ cmd' = [cmd EXCEPT ![p] = NoCommand]
  /\ cut' = (cut \/ cmd[p].at \in {"running", "record"})
  /\ UNCHANGED <<release, tables, version, void>>

Run(p) == Lives(p) /\ UNCHANGED <<code, schemaVars>>

Init ==
  /\ ProcInit
  /\ release \in 0..MaxRelease
  /\ code = [p \in Proc |-> 0]
  /\ tables = NoTables /\ version = 0
  /\ cmd = [p \in Proc |-> NoCommand]
  /\ cut = FALSE /\ void = FALSE

Next ==
  Release \/ \E p \in Proc : Launch(p) \/ Exit(p) \/ Run(p) \/ Dbmanage(p)

Spec == Init /\ [][Next]_vars

----------------------------------------------------------------------------
(* Properties.                                                             *)

\* The values of the variables.
DeploymentTypeOK ==
  /\ ProcTypeOK
  /\ release \in 0..MaxRelease
  /\ code \in [Proc -> 0..MaxRelease]
  /\ tables \in (0..MaxRelease) \cup {NoTables, Torn}
  /\ version \in 0..MaxRelease
  /\ cmd \in [Proc -> Command]
  /\ cut \in BOOLEAN
  /\ void \in BOOLEAN

\* Migrations of one direction at once, create_schema with create_schema, and
\* kills at any point leave the recorded version one script away from the tables
\* at most, and that far only while a script and its version are under way or
\* once a kill cut them short, until a stamp names the tables there are.  It
\* takes (void) that no release is installed while dbmanage runs, that a stamp by
\* hand names the tables there are while nothing else works on them, that
\* create_schema is not run on tables of another release, and that neither it
\* nor a migration crosses a migration that goes the other way.
VersionTrue ==
  ~void /\ version # 0 =>
    /\ tables \in {Torn, TablesOf(version), TablesOf(version + 1), TablesOf(version - 1)}
    /\ tables # version => cut \/ \E p \in Proc : cmd[p].at \in {"running", "record"}

\* What the comment in create_schema asks for: it stamps no tables of an older
\* release as those of the newest.
CreatesAfresh ==
  \A p \in Proc : cmd[p].at = "stamp_head" => tables \notin 0..(code[p] - 1)

----------------------------------------------------------------------------
(* The refinement: the tables and the version as they are, while they can  *)
(* be trusted.                                                             *)

ofBar == IF void THEN NoTables ELSE tables

recordedBar == IF void THEN 0 ELSE version

Schema ==
  INSTANCE SchemaContract
  WITH of <- ofBar, recorded <- recordedBar, newest <- release, spoiled <- void

\* However many dbmanage processes there are and wherever they are killed, the
\* schema goes through what one command at a time would take it through, script
\* by script, under the rules that VersionTrue takes.
KeepsSchema == Schema!Spec

----------------------------------------------------------------------------
(* What makes the invariants inductive.                                    *)

IsScripting(q) == cmd[q].at \in {"running", "record"}

\* What a command is, whatever the operators do.
CommandsFit ==
  \A p \in Proc :
    /\ cmd[p].at # "none" => kind[p] = "dbmanage" /\ pc[p] = "ready"
    /\ cmd[p].at = "none" => cmd[p].rev = 0 /\ cmd[p].head = 0
    /\ cmd[p].rev <= code[p] /\ cmd[p].head <= code[p]
    /\ IsMigrating(p) => cmd[p].rev # cmd[p].head

\* What a command knows of the schema when nothing has made the version untrue.
CommandsKnow ==
  \A p \in Proc :
    /\ kind[p] = "dbmanage" /\ pc[p] # "down" => code[p] = release
    /\ IsCreating(p) => /\ tables \in {NoTables, release}
                        /\ version # 0 => version = release /\ tables = release
    /\ cmd[p].at = "stamp_head" => tables = release
    /\ IsMigrating(p) => IF IsUp(p) THEN cmd[p].head <= version
                                    ELSE version <= cmd[p].head
    /\ cmd[p].at = "script" /\ tables = TablesOf(cmd[p].head) => version = cmd[p].head
    /\ cmd[p].at = "running" => version = cmd[p].head /\ tables = Torn
    /\ cmd[p].at = "record" => version = cmd[p].head /\ tables = TablesOf(Toward(p))

\* Who works on the schema at once.
CommandsAgree ==
  \A p, q \in Proc : p # q /\ IsMigrating(p) =>
    /\ ~IsCreating(q)
    /\ IsMigrating(q) => IsUp(p) = IsUp(q)
    /\ ~(IsScripting(p) /\ IsScripting(q))

SchemaInv == ~void => CommandsKnow /\ CommandsAgree

DeploymentInv ==
  DeploymentTypeOK /\ ProcInv /\ CommandsFit /\ SchemaInv /\ VersionTrue
=============================================================================
