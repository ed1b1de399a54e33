------------------------------ MODULE TasksApi ------------------------------
(***************************************************************************)
(* The writing operations of TasksController (convertor/api/controllers/v1 *)
(* /task.py) down through objects.Task to the database and to the cast of  *)
(* WorkerAPI.  The API runs in several processes, each on green threads,   *)
(* and a green thread yields at every use of the database or the broker:   *)
(* a handler is a sequence of steps, one per transaction or cast, and the  *)
(* steps of different requests interleave.                                 *)
(***************************************************************************)
EXTENDS Names, LaunchTopic

CONSTANTS
  Bodies,   \* documents a POST may carry
  Patches,  \* the changes a PATCH may ask for; Null is "op": "remove"
  Shows,    \* the values of X-Show-Deleted that clients send
  Faults    \* whether the database, the broker or the process may fail

VARIABLE req

Kind == {"none", "POST", "PATCH", "DELETE"}

Busy == {"create", "get", "save", "soft_delete", "launch"}

Answer == {"200", "201", "204", "400", "404", "409", "500"}

NoDoc == [f \in Field |-> Unset]

\* What one request holds.  `updates` is obj_get_changes() of its Task object,
\* `launch` the local launch_task, `committed` that its row write is done.
RequestState ==
  [kind : Kind, pc : {"idle"} \cup Busy \cup Answer,
   uuid : Uuid \cup {Unset}, show : BOOLEAN,
   doc : Doc, updates : Doc, launch : BOOLEAN, committed : BOOLEAN]

ASSUME ApiAssumption ==
  /\ Bodies \subseteq {d \in Doc : d["deleted_at"] = Unset}
  /\ Patches \subseteq Doc
  /\ Shows \subseteq BOOLEAN
  /\ Faults \in BOOLEAN

Idle == [kind |-> "none", pc |-> "idle", uuid |-> Unset, show |-> FALSE,
         doc |-> NoDoc, updates |-> NoDoc, launch |-> FALSE,
         committed |-> FALSE]

apiVars == <<table, sent, taken, req>>

Goto(r, pc) == req' = [req EXCEPT ![r].pc = pc]

----------------------------------------------------------------------------
(* Arrivals.  wsme has checked types: a uuid is a uuid, a body has no      *)
(* read-only attribute.                                                    *)

Arrive(r, kind, u, show, doc, pc) ==
  /\ ApiUp
  /\ req[r].kind = "none"
  /\ req' = [req EXCEPT ![r] =
               [Idle EXCEPT !.kind = kind, !.uuid = u, !.show = show,
                            !.doc = doc, !.pc = pc]]
  /\ UNCHANGED <<table, sent, taken>>

\* A client may choose the uuid or leave it to the server.
Post(r) ==
  \E u \in Uuid \cup {Unset}, show \in Shows, doc \in Bodies :
     Arrive(r, "POST", u, show, doc, "create")

\* Mutant: internal attributes are not checked.
NoneIsInternal(doc) == FALSE

\* JsonPatchType.validate: a patch cannot name an internal attribute.
IsInternal(doc) == doc["deleted_at"] # Unset

Patch(r) ==
  \E u \in Uuid, show \in Shows, doc \in Patches :
     Arrive(r, "PATCH", u, show, doc, IF IsInternal(doc) THEN "400" ELSE "get")

Delete(r) ==
  \E u \in Uuid, show \in Shows : Arrive(r, "DELETE", u, show, NoDoc, "get")

----------------------------------------------------------------------------
(* POST: Task.create, then the cast.                                       *)

\* The row inserted: what the body has, NULL for the rest, the status forced.
NewRow(doc) ==
  [Merge([f \in Field |-> Null], doc) EXCEPT !["status"] = "CREATED"]

\* uuidutils' uuid4 never meets a uuid in use.
UuidFor(r) ==
  IF req[r].uuid = Unset THEN {u \in Uuid : ~Exists(u)} ELSE {req[r].uuid}

Creating(r) == req[r].pc = "create" /\ Defined(CreateNames)

\* An image_id or a new_format that is missing: the object or the NOT NULL
\* constraint refuses it.
CreateInvalid(r) ==
  /\ Creating(r)
  /\ ViolatesNotNull(NewRow(req[r].doc))
  /\ Goto(r, "500")
  /\ UNCHANGED <<table, sent, taken>>

\* Mutant: the duplicate is taken for the same task and launched.
DuplicateLaunched(r) ==
  /\ Creating(r)
  /\ ~ViolatesNotNull(NewRow(req[r].doc))
  /\ req[r].uuid # Unset
  /\ IsDuplicate(req[r].uuid)
  /\ Goto(r, "launch")
  /\ UNCHANGED <<table, sent, taken>>

\* Mutant: the INSERT is tried again, with the same uuid.
DuplicateRetried(r) ==
  /\ Creating(r)
  /\ ~ViolatesNotNull(NewRow(req[r].doc))
  /\ req[r].uuid # Unset
  /\ IsDuplicate(req[r].uuid)
  /\ Goto(r, "create")
  /\ UNCHANGED <<table, sent, taken>>

\* DBDuplicateEntry becomes TaskAlreadyExists.
CreateDuplicate(r) ==
  /\ Creating(r)
  /\ ~ViolatesNotNull(NewRow(req[r].doc))
  /\ req[r].uuid # Unset
  /\ IsDuplicate(req[r].uuid)
  /\ Goto(r, "409")
  /\ UNCHANGED <<table, sent, taken>>

\* Mutant: the transaction is still open when post() goes on to the cast.
CreateUncommitted(r) ==
  /\ Creating(r)
  /\ ~ViolatesNotNull(NewRow(req[r].doc))
  /\ \E u \in UuidFor(r) :
       /\ ~IsDuplicate(u)
       /\ req' = [req EXCEPT ![r] =
                    [@ EXCEPT !.uuid = u, !.launch = TRUE, !.committed = TRUE,
                              !.pc = "launch"]]
  /\ UNCHANGED <<table, sent, taken>>

Create(r) ==
  /\ Creating(r)
  /\ req[r].uuid = Unset => Defined(GenerateNames)
  /\ ~ViolatesNotNull(NewRow(req[r].doc))
  /\ \E u \in UuidFor(r) :
       /\ ~IsDuplicate(u)
       /\ InsertRow(u, NewRow(req[r].doc))
       /\ req' = [req EXCEPT ![r] =
                    [@ EXCEPT !.uuid = u, !.launch = TRUE, !.committed = TRUE,
                              !.pc = "launch"]]
  /\ UNCHANGED <<sent, taken>>

----------------------------------------------------------------------------
(* PATCH and DELETE: get_by_uuid, then save.                               *)

\* Mutant: save() writes the object whole.
WholeObject(doc, row) == Merge(row, doc)

\* Mutant: None counts as a column that the document does not have.
RemovalsIgnored(doc, row) ==
  [f \in Field |-> IF doc[f] \in {row[f], Null} THEN Unset ELSE doc[f]]

\* The `for field in objects.Task.fields` loop of patch(): a column is in the
\* object's changes when the patched document differs from the row as read.
Changes(doc, row) ==
  [f \in Field |-> IF doc[f] = row[f] THEN Unset ELSE doc[f]]

\* launch_task is set by the status the document ends up with, changed or not.
Launches(doc, row) == Merge(row, doc)["status"] = "INPROGRESS"

\* Task.image_id and Task.new_format are not nullable: assigning None raises.
Unassignable(doc) == \E f \in {"image_id", "new_format"} : doc[f] = Null

NotFound(r) ==
  /\ req[r].pc = "get"
  /\ Defined(GetNames)
  /\ ~Visible(req[r].uuid, req[r].show)
  /\ Goto(r, "404")
  /\ UNCHANGED <<table, sent, taken>>

Getting(r, kind) ==
  /\ req[r].pc = "get"
  /\ req[r].kind = kind
  /\ Defined(GetNames)
  /\ Visible(req[r].uuid, req[r].show)

\* Mutant: soft_delete leaves the status as it is.
GetForDeleteStatusKept(r) ==
  /\ Getting(r, "DELETE")
  /\ req' = [req EXCEPT ![r] = [@ EXCEPT !.updates = NoDoc, !.pc = "save"]]
  /\ UNCHANGED <<table, sent, taken>>

GetForDelete(r) ==
  /\ Getting(r, "DELETE")
  /\ req' = [req EXCEPT ![r] =
               [@ EXCEPT !.updates = [NoDoc EXCEPT !["status"] = "DELETED"],
                         !.pc = "save"]]
  /\ UNCHANGED <<table, sent, taken>>

GetForPatch(r) ==
  /\ Getting(r, "PATCH")
  /\ Defined(PatchNames)
  /\ ~Unassignable(req[r].doc)
  /\ LET row == table[req[r].uuid] IN
       req' = [req EXCEPT ![r] =
                 [@ EXCEPT !.updates = Changes(req[r].doc, row),
                           !.launch = Launches(req[r].doc, row),
                           !.pc = "save"]]
  /\ UNCHANGED <<table, sent, taken>>

PatchInvalid(r) ==
  /\ Getting(r, "PATCH")
  /\ Defined(PatchNames)
  /\ Unassignable(req[r].doc)
  /\ Goto(r, "500")
  /\ UNCHANGED <<table, sent, taken>>

\* A patch of paths that are no columns: `replace` and `remove` of what is not
\* there raise PatchError; `add`, and GetForPatch, leave the row as it is.
PatchRefused(r) ==
  /\ Getting(r, "PATCH")
  /\ Defined(PatchNames)
  /\ req[r].doc = NoDoc
  /\ Goto(r, "400")
  /\ UNCHANGED <<table, sent, taken>>

Saving(r) == req[r].pc = "save" /\ Defined(UpdateNames) /\ Exists(req[r].uuid)

\* Mutant: the refused UPDATE is tried again as it is.
SaveRetried(r) ==
  /\ Saving(r)
  /\ req[r].updates["status"] = Null
  /\ Goto(r, "save")
  /\ UNCHANGED <<table, sent, taken>>

\* The NOT NULL constraint on status: the object allows None, the table not.
SaveInvalid(r) ==
  /\ Saving(r)
  /\ req[r].updates["status"] = Null
  /\ Goto(r, "500")
  /\ UNCHANGED <<table, sent, taken>>

\* Mutant: DELETE is answered as soon as the status is saved.
AnsweredAfterSave(r) ==
  CASE req[r].kind = "DELETE" -> "204"
    [] req[r].kind # "DELETE" /\ req[r].launch -> "launch"
    [] OTHER -> "200"

\* After save() comes soft_delete_task, the cast, or the answer.
AfterSave(r) ==
  CASE req[r].kind = "DELETE" -> "soft_delete"
    [] req[r].kind # "DELETE" /\ req[r].launch -> "launch"
    [] OTHER -> "200"

\* Mutant: the status column takes NULL.
SaveNullable(r) ==
  /\ Saving(r)
  /\ UpdateRow(req[r].uuid, req[r].updates)
  /\ req' = [req EXCEPT ![r] = [@ EXCEPT !.committed = TRUE,
                                          !.pc = AfterSave(r)]]
  /\ UNCHANGED <<sent, taken>>

Save(r) ==
  /\ Saving(r)
  /\ req[r].updates["status"] # Null
  /\ UpdateRow(req[r].uuid, req[r].updates)
  /\ req' = [req EXCEPT ![r] = [@ EXCEPT !.committed = TRUE,
                                          !.pc = AfterSave(r)]]
  /\ UNCHANGED <<sent, taken>>

\* The second transaction of Task.soft_delete.
SoftDelete(r) ==
  /\ req[r].pc = "soft_delete"
  /\ Defined(UpdateNames)
  /\ Exists(req[r].uuid)
  /\ SoftDeleteRow(req[r].uuid)
  /\ Goto(r, "204")
  /\ UNCHANGED <<sent, taken>>

----------------------------------------------------------------------------
LaunchMessage(r) ==
  [request |-> r, uuid |-> req[r].uuid, show_deleted |-> req[r].show]

\* WorkerAPI.launch_task, the last thing POST and PATCH do.
Launch(r) ==
  /\ req[r].pc = "launch"
  /\ Defined(CastNames)
  /\ Cast(LaunchMessage(r))
  /\ Goto(r, IF req[r].kind = "POST" THEN "201" ELSE "200")
  /\ UNCHANGED table

\* The names the step at pc evaluates.
NamesAt(r) ==
  CASE req[r].pc = "create" ->
         CreateNames \cup (IF req[r].uuid = Unset THEN GenerateNames ELSE {})
    [] req[r].pc = "get" ->
         GetNames \cup (IF req[r].kind = "PATCH" THEN PatchNames ELSE {})
    [] req[r].pc \in {"save", "soft_delete"} -> UpdateNames
    [] OTHER -> CastNames

\* The database, the broker or the process fails, or a name is undefined: the
\* handler is abandoned where it is, and what it committed stays.
ServerError(r) ==
  /\ req[r].pc \in Busy
  /\ Faults \/ ~Defined(NamesAt(r))
  /\ Goto(r, "500")
  /\ UNCHANGED <<table, sent, taken>>

Handle(r) ==
  \/ CreateInvalid(r) \/ CreateDuplicate(r) \/ Create(r)
  \/ NotFound(r) \/ GetForDelete(r) \/ GetForPatch(r)
  \/ PatchInvalid(r) \/ PatchRefused(r)
  \/ SaveInvalid(r) \/ Save(r) \/ SoftDelete(r)
  \/ Launch(r) \/ ServerError(r)

\* The worker, seen from here: some message leaves the topic.
TopicDrains == (\E m \in Pending : Take(m)) /\ UNCHANGED <<table, req>>

ApiInit == StoreInit /\ TopicInit /\ req = [r \in Request |-> Idle]

ApiStep(r) == Post(r) \/ Patch(r) \/ Delete(r) \/ Handle(r)

ApiNext == (\E r \in Request : ApiStep(r)) \/ TopicDrains

ApiSpec == ApiInit /\ [][ApiNext]_apiVars

\* A handler that has started runs on; clients owe nothing.
HandlerRuns(r) == WF_apiVars(Handle(r))

ApiFairness == \A r \in Request : HandlerRuns(r)

FairApiSpec == ApiSpec /\ ApiFairness

----------------------------------------------------------------------------
(* Properties.                                                             *)

\* The values of the variables: the store's and the topic's, and every
\* request's record.
ApiTypeOK == StoreTypeOK /\ TopicTypeOK /\ req \in [Request -> RequestState]

\* Two POSTs, by whatever processes and in whatever order, never both create
\* the same task, even when the task was soft-deleted in between: the unique
\* constraint on uuid, and create_task's handling of it.
OneCreator ==
  \A r1, r2 \in Request :
     /\ req[r1].kind = "POST" /\ req[r1].committed
     /\ req[r2].kind = "POST" /\ req[r2].committed
     /\ req[r1].uuid = req[r2].uuid
     => r1 = r2

\* The worker is never told of a task before the row it will read is there:
\* post() and patch() cast after the commit of create() and save(), whatever
\* fails in between.
LaunchAfterCommit ==
  \A m \in sent : /\ Exists(m.uuid)
                  /\ req[m.request].committed
                  /\ req[m.request].uuid = m.uuid

\* The launch of request r has been cast.
WasCast(r) == \E m \in sent : m.request = r

\* What an answer says is so, from the answer on: a task created with 201
\* exists and its launch was cast; so was the launch of a PATCH that set
\* INPROGRESS and got 200; a task deleted with 204 is deleted; a request
\* refused with a 4xx wrote nothing and launched nothing.
AnswersHold ==
  \A r \in Request :
     /\ req[r].pc = "201" => /\ req[r].uuid \in Uuid /\ Exists(req[r].uuid)
                             /\ WasCast(r)
     /\ req[r].pc = "200" /\ req[r].launch => WasCast(r)
     /\ req[r].pc = "204" => req[r].uuid \in Uuid /\ Deleted(req[r].uuid)
     /\ req[r].pc \in {"400", "404", "409"} => ~req[r].committed /\ ~WasCast(r)

\* Some PATCH of task u wrote a status of its own.
StatusPatched(u) ==
  \E r \in Request : /\ req[r].kind = "PATCH" /\ req[r].committed
                     /\ req[r].uuid = u
                     /\ req[r].updates["status"] # Unset

\* A task with deleted_at set also has status DELETED, though soft_delete
\* writes the two in separate transactions, unless a PATCH set the status.
DeletedRowSaysSo ==
  \A u \in Uuid : Deleted(u) /\ ~StatusPatched(u)
                  => table[u]["status"] = "DELETED"

\* Nothing undeletes a task or removes its row: not a PATCH that read the row
\* before it was deleted, not a POST of the same uuid.
DeletionIsFinal ==
  [][\A u \in Uuid : /\ Exists(u) => Exists(u)'
                     /\ Deleted(u) => Deleted(u)']_apiVars

\* Request r asked for column f to become v.
Asked(r, f, v) ==
  \/ req[r].kind = "PATCH" /\ req[r].doc[f] = v
  \/ req[r].kind = "DELETE" /\ [f |-> f, v |-> v] \in
       {[f |-> "status", v |-> "DELETED"], [f |-> "deleted_at", v |-> Stamp]}

\* A column of an existing row only ever takes a value that the request
\* writing it asked for: Task.save writes what_changed(), not its snapshot, so
\* a PATCH of one column cannot undo a concurrent PATCH or DELETE of another.
NoStaleWriteBack ==
  [][\A u \in Uuid, f \in Field :
       Exists(u) /\ table'[u][f] # table[u][f]
       => \E r \in Request : /\ req[r].uuid = u
                             /\ req'[r] # req[r]
                             /\ Asked(r, f, table'[u][f])]_apiVars

\* Another request wrote column f of the task of request r.
OverwrittenFor(r, f) ==
  \E q \in Request \ {r} : /\ req[q].committed
                           /\ req[q].uuid = req[r].uuid
                           /\ req[q].updates[f] # Unset

\* A PATCH that was saved took effect: every column it asked for has the value
\* asked for, unless another request wrote that column too.  patch() writes
\* what differs from the snapshot it compared with, not what was asked for.
PatchTakesEffect ==
  \A r \in Request, f \in Field :
    req[r].kind = "PATCH" /\ req[r].committed /\ req[r].doc[f] # Unset
    => \/ Exists(req[r].uuid) /\ table[req[r].uuid][f] = req[r].doc[f]
       \/ OverwrittenFor(r, f)

\* Whatever other requests did to its row between two of its transactions, a
\* handler has a step to take from wherever it is: it ends with an answer and
\* never with none.
HandlersNeverStuck ==
  \A r \in Request : req[r].pc \in Busy => ENABLED <<Handle(r)>>_apiVars

\* Every request that a handler has taken is answered.
EveryRequestAnswered ==
  \A r \in Request : req[r].pc \in Busy ~> req[r].pc \in Answer

----------------------------------------------------------------------------
(* The strengthening that makes the invariants above inductive: what a     *)
(* handler at each of its steps knows.                                     *)

StatusAccounted(u) == table[u]["status"] = "DELETED" \/ StatusPatched(u)

AtArrival(r) == req[r].kind = "none" => req[r] = Idle

AtCreate(r) ==
  req[r].pc = "create" => /\ req[r].kind = "POST"
                          /\ ~req[r].committed
                          /\ req[r].doc["deleted_at"] = Unset

AtGet(r) ==
  req[r].pc = "get" => /\ req[r].kind \in {"PATCH", "DELETE"}
                       /\ req[r].uuid \in Uuid
                       /\ ~req[r].committed
                       /\ req[r].doc["deleted_at"] = Unset

\* The changes are what the request asked for, and the row will take them.
AtSave(r) ==
  req[r].pc = "save" =>
    /\ req[r].kind \in {"PATCH", "DELETE"}
    /\ req[r].uuid \in Uuid
    /\ ~req[r].committed
    /\ Exists(req[r].uuid)
    /\ req[r].updates["deleted_at"] = Unset
    /\ ~Unassignable(req[r].updates)
    /\ req[r].kind = "DELETE" => req[r].updates["status"] = "DELETED"
    /\ \A f \in Field : \/ req[r].updates[f] = Unset
                        \/ Asked(r, f, req[r].updates[f])

AtSoftDelete(r) ==
  req[r].pc = "soft_delete" => /\ req[r].kind = "DELETE"
                               /\ req[r].committed
                               /\ req[r].uuid \in Uuid
                               /\ Exists(req[r].uuid)
                               /\ StatusAccounted(req[r].uuid)

AtLaunch(r) ==
  req[r].pc = "launch" => /\ req[r].kind \in {"POST", "PATCH"}
                          /\ req[r].committed
                          /\ req[r].uuid \in Uuid
                          /\ Exists(req[r].uuid)

CreatorHasRow(r) ==
  req[r].kind = "POST" /\ req[r].committed
  => req[r].uuid \in Uuid /\ Exists(req[r].uuid)

HandlersKnow ==
  \A r \in Request :
     /\ AtArrival(r) /\ AtCreate(r) /\ AtGet(r) /\ AtSave(r)
     /\ AtSoftDelete(r) /\ AtLaunch(r) /\ CreatorHasRow(r)

ApiInv == /\ ApiTypeOK /\ HandlersKnow /\ OneCreator /\ LaunchAfterCommit
          /\ AnswersHold /\ DeletedRowSaysSo

\* Until it is saved, what a PATCH need not write has the value asked for, or
\* was written by another request since it was read.
PatchKnows ==
  \A r \in Request :
    /\ req[r].kind = "PATCH" /\ req[r].committed
       => req[r].uuid \in Uuid /\ Exists(req[r].uuid)
    /\ req[r].kind = "PATCH" /\ (req[r].committed \/ req[r].pc = "save")
       => req[r].doc["deleted_at"] = Unset
    /\ req[r].kind = "PATCH" /\ req[r].pc = "save"
       => \A f \in Field : req[r].doc[f] # Unset /\ req[r].updates[f] = Unset
                          => \/ table[req[r].uuid][f] = req[r].doc[f]
                             \/ OverwrittenFor(r, f)

PatchInv == PatchKnows /\ PatchTakesEffect
============================================================================
