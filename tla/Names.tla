------------------------------- MODULE Names -------------------------------
(***************************************************************************)
(* Names the code uses and nothing at this commit defines, grouped by the  *)
(* step that evaluates them.  A step one of whose names is undefined can   *)
(* only raise.  `Resolved` is the set of names taken to be defined as      *)
(* their evident counterpart (`_get_goal` as `_get_task`, `update_task` as *)
(* `update_goal`, the endpoint method `launch_action_plan` as              *)
(* `launch_task`, ...); Resolved = {} is the commit as it stands, where    *)
(* neither process can start.  Nothing else about a step depends on it.    *)
(***************************************************************************)
CONSTANT Resolved

\* Evaluated while a process imports its modules and builds its service.
ApiStartNames ==
  {"fields.NotificationPriority", "watcher.common.utils", "v1.versions",
   "CONF.convertor_worker"}

WorkerStartNames ==
  {"fields.NotificationPriority", "watcher.common.utils",
   "convertor.worker.task", "CONF.convertor_worker", "CONF.host"}

DbmanageStartNames == {"fields.NotificationPriority", "watcher.common.utils"}

\* The namespace in which db/migration.py looks its driver up: setup.cfg
\* declares it as watcher.database.migration_backend.
MigrationNames == {"convertor.database.migration_backend"}

\* Every use of the database builds Connection, two of whose abstract methods
\* (update_task, destroy_task) it defines under other names.
ConnectionNames == {"Connection.update_task", "Connection.destroy_task"}

CreateNames == ConnectionNames

GenerateNames == {"utils.generate_uuid"}

GetNames == ConnectionNames \cup {"Connection._get_goal"}

PatchNames == {"api_utils.apply_jsonpatch"}

\* add_identity_filter tells an id from a uuid.
UpdateNames == ConnectionNames \cup {"utils.is_uuid_like"}

CastNames == {"base.WatcherObjectSerializer"}

\* The method name the API casts; the worker's endpoint has another one.
EndpointNames == {"TriggerTask.launch_task"}

\* DefaultTaskHandler stands for DefaultWorker, and its execute; the group of
\* options it makes its glance client from is declared as watcher_clients_auth.
HandlerNames == {"default.DefaultTaskHandler", "CONF.convertor_clients_auth"}

\* glance's image has no data(), and its chunks are bytes for a text file.
DownloadNames == {"img.data", "image_file.write(bytes)"}

AllNames ==
  UNION {ApiStartNames, WorkerStartNames, GetNames, GenerateNames, PatchNames,
         UpdateNames, CastNames, EndpointNames, HandlerNames, DownloadNames,
         MigrationNames}

ASSUME NamesAssumption == Resolved \subseteq AllNames

Defined(names) == names \subseteq Resolved

ApiUp == Defined(ApiStartNames)

WorkerUp == Defined(WorkerStartNames)
============================================================================
