--------------------------- MODULE TasksApiProofs ---------------------------
(***************************************************************************)
(* What TasksApi guarantees for every set of requests, uuids, bodies and   *)
(* patches, with and without faults, whichever names resolve.              *)
(***************************************************************************)
EXTENDS TasksApi, TLAPS

----------------------------------------------------------------------------
(* The table's operators.                                                  *)

\* A row that insert builds from a legal body and that the NOT NULL constraint
\* accepts is a row.
LEMMA NewRowIsRow ==
  ASSUME NEW doc \in Doc, doc["deleted_at"] = Unset,
         ~ViolatesNotNull(NewRow(doc))
  PROVE  NewRow(doc) \in Row /\ NewRow(doc)["deleted_at"] = Null
<1> DEFINE nulls == [f \in Field |-> Null]
           m == Merge(nulls, doc)
           row == NewRow(doc)
<1>1. Field = {"image_id", "new_format", "status", "deleted_at"}
  BY DEF Field
<1>2. \A f \in Field : m[f] = IF doc[f] = Unset THEN Null ELSE doc[f]
  BY DEF Merge
<1>3. m \in [Field -> Value]
  BY <1>2 DEF Merge, Doc, Value
<1>4. /\ row \in [Field -> Value]
      /\ row["status"] = "CREATED"
      /\ \A f \in Field \ {"status"} : row[f] = m[f]
  BY <1>1, <1>3 DEF NewRow, Value, Status
<1>5. row["image_id"] # Null /\ row["new_format"] # Null
  BY DEF ViolatesNotNull, NotNull
<1>6. row["image_id"] \in Image /\ row["new_format"] \in Format
  BY <1>1, <1>2, <1>4, <1>5 DEF Doc
<1>7. row["deleted_at"] = Null
  BY <1>1, <1>2, <1>4
<1> QED
  BY <1>4, <1>6, <1>7 DEF Row, Status

\* Writing changes that null no mandatory column into a row gives a row; the
\* row keeps its deleted_at when the changes do not mention it.
LEMMA MergeIsRow ==
  ASSUME NEW row \in Row, NEW updates \in Doc,
         \A f \in NotNull : updates[f] # Null
  PROVE  /\ Merge(row, updates) \in Row
         /\ updates["deleted_at"] = Unset
            => Merge(row, updates)["deleted_at"] = row["deleted_at"]
<1> DEFINE m == Merge(row, updates)
<1>1. Field = {"image_id", "new_format", "status", "deleted_at"}
  BY DEF Field
<1>2. \A f \in Field : m[f] = IF updates[f] = Unset THEN row[f] ELSE updates[f]
  BY DEF Merge
<1>3. m \in [Field -> Value]
  BY <1>2 DEF Merge, Doc, Row
<1>4. /\ m["image_id"] \in Image
      /\ m["new_format"] \in Format
      /\ m["status"] \in Status
      /\ m["deleted_at"] \in {Null, Stamp}
  BY <1>1, <1>2 DEF Doc, Row, NotNull
<1> QED
  BY <1>1, <1>2, <1>3, <1>4 DEF Row

\* Soft-deleting a row gives a deleted row with the same status.
LEMMA StampIsRow ==
  ASSUME NEW row \in Row
  PROVE  LET stamped == [row EXCEPT !["deleted_at"] = Stamp] IN
         /\ stamped \in Row
         /\ stamped["deleted_at"] = Stamp
         /\ stamped["status"] = row["status"]
<1> DEFINE s == [row EXCEPT !["deleted_at"] = Stamp]
<1>1. Field = {"image_id", "new_format", "status", "deleted_at"}
  BY DEF Field
<1>2. s["deleted_at"] = Stamp /\ \A f \in Field \ {"deleted_at"} : s[f] = row[f]
  BY <1>1 DEF Row
<1>3. s \in [Field -> Value]
  BY <1>1 DEF Row, Value
<1> QED
  BY <1>1, <1>2, <1>3 DEF Row

----------------------------------------------------------------------------
(* Types.                                                                  *)

LEMMA IdleIsTyped == NoDoc \in Doc /\ Idle \in RequestState
<1>1. NoDoc \in Doc
  BY DEF NoDoc, Doc, Field
<1> QED
  BY <1>1 DEF Idle, RequestState, Kind, Busy, Answer

\* A request that only goes on to another point.
OnlyMoves(q) ==
  /\ req'[q].kind = req[q].kind /\ req'[q].uuid = req[q].uuid
  /\ req'[q].show = req[q].show /\ req'[q].doc = req[q].doc
  /\ req'[q].updates = req[q].updates /\ req'[q].launch = req[q].launch
  /\ req'[q].committed = req[q].committed

\* Sending one request's handler to another of its points keeps the type.
LEMMA GotoKeepsType ==
  ASSUME NEW r \in Request, NEW pc \in {"idle"} \cup Busy \cup Answer,
         req \in [Request -> RequestState], Goto(r, pc)
  PROVE  /\ req' \in [Request -> RequestState]
         /\ req'[r].pc = pc /\ OnlyMoves(r)
         /\ \A q \in Request \ {r} : req'[q] = req[q]
<1>1. req'[r] = [req[r] EXCEPT !.pc = pc] /\ req[r] \in RequestState
  BY DEF Goto
<1>2. req'[r].pc = pc /\ OnlyMoves(r)
  BY <1>1 DEF RequestState, OnlyMoves
<1> QED
  BY <1>2 DEF Goto, RequestState

LEMMA ArrivalKeepsType ==
  ASSUME NEW r \in Request, ApiTypeOK, Post(r) \/ Patch(r) \/ Delete(r)
  PROVE  ApiTypeOK'
<1>1. PICK kind \in Kind, u \in Uuid \cup {Unset}, show \in BOOLEAN, doc \in Doc,
           pc \in {"create", "get", "400"} :
        Arrive(r, kind, u, show, doc, pc)
  BY IdleIsTyped, ApiAssumption DEF Post, Patch, Delete, Kind
<1>2. req'[r] \in RequestState
  BY <1>1, IdleIsTyped
     DEF Arrive, Idle, RequestState, ApiTypeOK, Busy, Answer
<1>3. req' \in [Request -> RequestState]
  BY <1>1, <1>2 DEF Arrive, ApiTypeOK
<1> QED
  BY <1>1, <1>3 DEF Arrive, ApiTypeOK, StoreTypeOK, TopicTypeOK

\* Create writes a row, with the type of one.
LEMMA CreateKeepsType ==
  ASSUME NEW r \in Request, ApiTypeOK, AtCreate(r), Create(r)
  PROVE  ApiTypeOK'
<1> DEFINE row == NewRow(req[r].doc)
<1>1. row \in Row
  BY NewRowIsRow DEF AtCreate, Create, Creating, ApiTypeOK, RequestState
<1>2. PICK u \in UuidFor(r) :
        /\ InsertRow(u, row)
        /\ req' = [req EXCEPT ![r] =
                     [@ EXCEPT !.uuid = u, !.launch = TRUE, !.committed = TRUE,
                               !.pc = "launch"]]
  BY DEF Create
<1>3. u \in Uuid
  BY DEF UuidFor, ApiTypeOK, RequestState
<1>4. table' \in [Uuid -> Row \cup {NoRow}]
  BY <1>1, <1>2 DEF InsertRow, ApiTypeOK, StoreTypeOK
<1>5. req' \in [Request -> RequestState]
  BY <1>2, <1>3 DEF ApiTypeOK, RequestState, Busy
<1> QED
  BY <1>4, <1>5 DEF Create, ApiTypeOK, StoreTypeOK, TopicTypeOK

\* GetForPatch and GetForDelete leave changes of the right type.
LEMMA GetKeepsType ==
  ASSUME NEW r \in Request, ApiTypeOK, AtGet(r), GetForDelete(r) \/ GetForPatch(r)
  PROVE  ApiTypeOK'
<1>1. PICK updates \in Doc, launch \in BOOLEAN :
        req' = [req EXCEPT ![r] =
                  [@ EXCEPT !.updates = updates, !.launch = launch,
                            !.pc = "save"]]
  <2>1. CASE GetForDelete(r)
    <3>1. [NoDoc EXCEPT !["status"] = "DELETED"] \in Doc
      BY IdleIsTyped DEF NoDoc, Doc, Field, Status, Value
    <3>2. req' = [req EXCEPT ![r] =
                    [@ EXCEPT !.updates = [NoDoc EXCEPT !["status"] = "DELETED"],
                              !.launch = req[r].launch, !.pc = "save"]]
      BY <2>1 DEF GetForDelete, ApiTypeOK, RequestState
    <3> QED
      BY <3>1, <3>2 DEF ApiTypeOK, RequestState
  <2>2. CASE GetForPatch(r)
    <3> DEFINE row == table[req[r].uuid]
    <3>1. row \in Row /\ req[r].doc \in Doc
      BY <2>2 DEF GetForPatch, Getting, Visible, Exists, AtGet, ApiTypeOK,
                  StoreTypeOK, RequestState
    <3>2. Changes(req[r].doc, row) \in Doc
      BY <3>1 DEF Changes, Doc, Row, Field
    <3>3. Launches(req[r].doc, row) \in BOOLEAN
      BY DEF Launches
    <3> QED
      BY <2>2, <3>2, <3>3 DEF GetForPatch
  <2> QED
    BY <2>1, <2>2
<1>2. req' \in [Request -> RequestState]
  BY <1>1 DEF ApiTypeOK, RequestState, Busy
<1> QED
  BY <1>2 DEF GetForDelete, GetForPatch, ApiTypeOK, StoreTypeOK, TopicTypeOK

\* Save merges its changes into the row.
LEMMA SaveMerges ==
  ASSUME NEW r \in Request, ApiTypeOK, AtSave(r), Save(r)
  PROVE  LET u == req[r].uuid
             merged == Merge(table[u], req[r].updates)
         IN /\ u \in Uuid /\ table[u] \in Row /\ merged \in Row
            /\ merged["deleted_at"] = table[u]["deleted_at"]
            /\ table'[u] = merged
            /\ \A v \in Uuid \ {u} : table'[v] = table[v]
            /\ table' \in [Uuid -> Row \cup {NoRow}]
<1> DEFINE u == req[r].uuid
           merged == Merge(table[u], req[r].updates)
<1>1. u \in Uuid /\ table[u] \in Row /\ req[r].updates \in Doc
  BY DEF Save, Saving, AtSave, Exists, ApiTypeOK, StoreTypeOK, RequestState
<1>2. \A f \in NotNull : req[r].updates[f] # Null
  BY DEF Save, Saving, AtSave, Unassignable, NotNull
<1>3. req[r].updates["deleted_at"] = Unset
  BY DEF Save, Saving, AtSave
<1>4. merged \in Row /\ merged["deleted_at"] = table[u]["deleted_at"]
  BY <1>1, <1>2, <1>3, MergeIsRow
<1>5. table' = [table EXCEPT ![u] = merged]
  BY DEF Save, UpdateRow
<1> QED
  BY <1>1, <1>4, <1>5 DEF ApiTypeOK, StoreTypeOK

LEMMA HandleKeepsType ==
  ASSUME NEW r \in Request, ApiTypeOK, HandlersKnow, Handle(r)
  PROVE  ApiTypeOK'
<1> USE DEF HandlersKnow
<1>1. CASE Create(r)
  BY <1>1, CreateKeepsType
<1>2. CASE GetForDelete(r) \/ GetForPatch(r)
  BY <1>2, GetKeepsType
<1>3. CASE Save(r)
  <2>1. AfterSave(r) \in {"soft_delete", "launch", "200"}
    BY DEF AfterSave
  <2>2. req' \in [Request -> RequestState]
    BY <1>3, <2>1 DEF Save, ApiTypeOK, RequestState, Busy, Answer
  <2> QED
    BY <1>3, <2>2, SaveMerges DEF Save, ApiTypeOK, StoreTypeOK, TopicTypeOK
<1>4. CASE SoftDelete(r)
  <2> DEFINE u == req[r].uuid
  <2>1. u \in Uuid /\ table[u] \in Row
    BY <1>4 DEF SoftDelete, AtSoftDelete, Exists, ApiTypeOK, StoreTypeOK
  <2>2. table' \in [Uuid -> Row \cup {NoRow}]
    BY <1>4, <2>1, StampIsRow DEF SoftDelete, SoftDeleteRow, ApiTypeOK, StoreTypeOK
  <2>3. req' \in [Request -> RequestState]
    BY <1>4, GotoKeepsType DEF SoftDelete, Answer, ApiTypeOK
  <2> QED
    BY <1>4, <2>2, <2>3 DEF SoftDelete, ApiTypeOK, StoreTypeOK, TopicTypeOK
<1>5. CASE Launch(r)
  <2>1. LaunchMessage(r) \in Message
    BY <1>5 DEF Launch, LaunchMessage, Message, AtLaunch, ApiTypeOK, RequestState
  <2>2. req' \in [Request -> RequestState]
    BY <1>5, GotoKeepsType DEF Launch, Answer, ApiTypeOK
  <2> QED
    BY <1>5, <2>1, <2>2 DEF Launch, Cast, ApiTypeOK, StoreTypeOK, TopicTypeOK
<1>6. CASE \/ CreateInvalid(r) \/ CreateDuplicate(r) \/ NotFound(r)
           \/ PatchInvalid(r) \/ PatchRefused(r) \/ SaveInvalid(r) \/ ServerError(r)
  <2>1. UNCHANGED <<table, sent, taken>> /\ \E pc \in Answer : Goto(r, pc)
    BY <1>6 DEF CreateInvalid, CreateDuplicate, NotFound, PatchInvalid, PatchRefused,
                SaveInvalid, ServerError, Answer
  <2>2. req' \in [Request -> RequestState]
    BY <2>1, GotoKeepsType DEF ApiTypeOK
  <2> QED
    BY <2>1, <2>2 DEF ApiTypeOK, StoreTypeOK, TopicTypeOK
<1> QED
  BY <1>1, <1>2, <1>3, <1>4, <1>5, <1>6 DEF Handle

LEMMA NextKeepsType ==
  ASSUME ApiTypeOK, HandlersKnow, [ApiNext]_apiVars
  PROVE  ApiTypeOK'
<1>1. ASSUME NEW r \in Request, ApiStep(r)
      PROVE  ApiTypeOK'
  BY <1>1, ArrivalKeepsType, HandleKeepsType DEF ApiStep
<1>2. CASE TopicDrains
  BY <1>2 DEF TopicDrains, Take, Pending, ApiTypeOK, StoreTypeOK, TopicTypeOK
<1>3. CASE UNCHANGED apiVars
  BY <1>3 DEF apiVars, ApiTypeOK, StoreTypeOK, TopicTypeOK
<1> QED
  BY <1>1, <1>2, <1>3 DEF ApiNext

----------------------------------------------------------------------------
(* What no step undoes.                                                    *)

\* A step of a request's own handler moves no other request, and every message
\* it sends is its own.
LEMMA StepIsOwn ==
  ASSUME NEW r \in Request, ApiTypeOK, ApiStep(r)
  PROVE  /\ \A q \in Request \ {r} : req'[q] = req[q]
         /\ sent \subseteq sent'
         /\ \A m \in sent' \ sent : m = LaunchMessage(r) /\ Launch(r)
<1>1. CASE Launch(r)
  BY <1>1 DEF Launch, Cast, Goto, ApiTypeOK
<1>2. CASE \/ Post(r) \/ Patch(r) \/ Delete(r) \/ CreateInvalid(r)
           \/ CreateDuplicate(r) \/ Create(r) \/ NotFound(r) \/ GetForDelete(r)
           \/ GetForPatch(r) \/ PatchInvalid(r) \/ PatchRefused(r)
           \/ SaveInvalid(r) \/ Save(r) \/ SoftDelete(r) \/ ServerError(r)
  <2>1. sent' = sent
    BY <1>2 DEF Post, Patch, Delete, Arrive, CreateInvalid, CreateDuplicate,
                Create, NotFound, GetForDelete, GetForPatch, PatchInvalid, PatchRefused,
                SaveInvalid, Save, SoftDelete, ServerError
  <2>2. \A q \in Request \ {r} : req'[q] = req[q]
    BY <1>2 DEF Post, Patch, Delete, Arrive, CreateInvalid, CreateDuplicate,
                Create, NotFound, GetForDelete, GetForPatch, PatchInvalid, PatchRefused,
                SaveInvalid, Save, SoftDelete, ServerError, Goto, ApiTypeOK
  <2> QED
    BY <2>1, <2>2
<1> QED
  BY <1>1, <1>2 DEF ApiStep, Handle

\* A handler that steps has started and not answered.
LEMMA HandlesBusy ==
  ASSUME NEW r \in Request, Handle(r)
  PROVE  req[r].pc \in Busy
  BY DEF Handle, CreateInvalid, CreateDuplicate, Create, NotFound, GetForDelete,
         GetForPatch, PatchInvalid, PatchRefused, SaveInvalid, Save, SoftDelete, Launch,
         ServerError, Creating, Getting, Saving, Busy

\* Once its first write is committed a request only moves on, and once it is
\* answered it is over.
LEMMA CommittedStays ==
  ASSUME NEW r \in Request, ApiTypeOK, HandlersKnow, ApiStep(r)
  PROVE  /\ req[r].committed => OnlyMoves(r)
         /\ req[r].pc \notin Answer
<1> USE DEF HandlersKnow
<1>1. req[r] \in RequestState
  BY DEF ApiTypeOK
<1>2. CASE Post(r) \/ Patch(r) \/ Delete(r)
  <2>1. req[r] = Idle
    BY <1>2 DEF Post, Patch, Delete, Arrive, AtArrival
  <2> QED
    BY <2>1 DEF Idle, Answer
<1>3. CASE Create(r)
  BY <1>1, <1>3 DEF Create, Creating, AtCreate, Answer
<1>4. CASE GetForDelete(r) \/ GetForPatch(r)
  BY <1>1, <1>4 DEF GetForDelete, GetForPatch, Getting, AtGet, Answer
<1>5. CASE Save(r)
  BY <1>1, <1>5 DEF Save, Saving, AtSave, Answer
<1>6. CASE \/ SoftDelete(r) \/ Launch(r) \/ CreateInvalid(r) \/ CreateDuplicate(r)
           \/ NotFound(r) \/ PatchInvalid(r) \/ PatchRefused(r)
           \/ SaveInvalid(r) \/ ServerError(r)
  <2>1. PICK pc \in Answer : Goto(r, pc)
    BY <1>6 DEF SoftDelete, Launch, CreateInvalid, CreateDuplicate, NotFound,
                PatchInvalid, PatchRefused, SaveInvalid, ServerError, Answer
  <2>2. OnlyMoves(r)
    BY <2>1, GotoKeepsType DEF ApiTypeOK
  <2>3. req[r].pc \in Busy
    BY <1>6, HandlesBusy DEF Handle
  <2> QED
    BY <2>2, <2>3 DEF Busy, Answer
<1> QED
  BY <1>2, <1>3, <1>4, <1>5, <1>6 DEF ApiStep, Handle

\* Create inserts a row under a uuid that had none.
LEMMA CreateInserts ==
  ASSUME NEW r \in Request, ApiTypeOK, AtCreate(r), Create(r)
  PROVE  \E u \in Uuid :
            /\ ~Exists(u)
            /\ table'[u] \in Row /\ table'[u]["deleted_at"] = Null
            /\ \A v \in Uuid \ {u} : table'[v] = table[v]
            /\ req'[r] = [req[r] EXCEPT !.uuid = u, !.launch = TRUE,
                                        !.committed = TRUE, !.pc = "launch"]
<1> DEFINE row == NewRow(req[r].doc)
<1>1. row \in Row /\ row["deleted_at"] = Null
  BY NewRowIsRow DEF AtCreate, Create, Creating, ApiTypeOK, RequestState
<1>2. PICK u \in UuidFor(r) :
        /\ ~IsDuplicate(u)
        /\ InsertRow(u, row)
        /\ req' = [req EXCEPT ![r] =
                     [@ EXCEPT !.uuid = u, !.launch = TRUE, !.committed = TRUE,
                               !.pc = "launch"]]
  BY DEF Create
<1>3. u \in Uuid
  BY <1>2 DEF UuidFor, ApiTypeOK, RequestState
<1>4. req'[r] = [req[r] EXCEPT !.uuid = u, !.launch = TRUE,
                               !.committed = TRUE, !.pc = "launch"]
  BY <1>2 DEF ApiTypeOK
<1>5. table'[u] = row /\ \A v \in Uuid \ {u} : table'[v] = table[v]
  BY <1>2, <1>3 DEF InsertRow, ApiTypeOK, StoreTypeOK
<1> QED
  BY <1>1, <1>2, <1>3, <1>4, <1>5 DEF IsDuplicate

\* SoftDelete stamps one row.
LEMMA SoftDeleteStamps ==
  ASSUME NEW r \in Request, ApiTypeOK, AtSoftDelete(r), SoftDelete(r)
  PROVE  LET u == req[r].uuid IN
         /\ u \in Uuid /\ Exists(u)
         /\ table'[u] \in Row
         /\ table'[u]["deleted_at"] = Stamp
         /\ \A f \in Field \ {"deleted_at"} : table'[u][f] = table[u][f]
         /\ \A v \in Uuid \ {u} : table'[v] = table[v]
<1> DEFINE u == req[r].uuid
<1>1. u \in Uuid /\ Exists(u) /\ table[u] \in Row
  BY DEF SoftDelete, AtSoftDelete, Exists, ApiTypeOK, StoreTypeOK
<1>2. /\ table'[u] = [table[u] EXCEPT !["deleted_at"] = Stamp]
      /\ \A v \in Uuid \ {u} : table'[v] = table[v]
  BY <1>1 DEF SoftDelete, SoftDeleteRow, ApiTypeOK, StoreTypeOK
<1>3. \A f \in Field \ {"deleted_at"} : table'[u][f] = table[u][f]
  BY <1>1, <1>2 DEF Row
<1> QED
  BY <1>1, <1>2, <1>3, StampIsRow

\* Nothing else but a save writes the table.
LEMMA Writers ==
  ASSUME NEW r \in Request, ApiStep(r)
  PROVE  table' = table \/ Create(r) \/ Save(r) \/ SoftDelete(r)
  BY DEF ApiStep, Handle, Post, Patch, Delete, Arrive, CreateInvalid,
         CreateDuplicate, NotFound, GetForDelete, GetForPatch, PatchInvalid, PatchRefused,
         SaveInvalid, Launch, ServerError

\* Rows and deletions are there to stay.
LEMMA RowsStay ==
  ASSUME NEW r \in Request, ApiTypeOK, HandlersKnow, ApiStep(r), NEW u \in Uuid
  PROVE  /\ Exists(u) => Exists(u)'
         /\ Deleted(u) => Deleted(u)'
<1> USE DEF HandlersKnow
<1>1. CASE table' = table
  BY <1>1 DEF Exists, Deleted
<1>2. CASE Create(r)
  BY <1>2, CreateInserts, StoreAssumption DEF Exists, Deleted
<1>3. CASE Save(r)
  BY <1>3, SaveMerges, StoreAssumption DEF Exists, Deleted
<1>4. CASE SoftDelete(r)
  BY <1>4, SoftDeleteStamps, StoreAssumption DEF Exists, Deleted
<1> QED
  BY <1>1, <1>2, <1>3, <1>4, Writers

LEMMA PatchStays ==
  ASSUME NEW r \in Request, ApiTypeOK, HandlersKnow, ApiStep(r), NEW u \in Uuid,
         StatusPatched(u)
  PROVE  StatusPatched(u)'
<1>1. PICK q \in Request : /\ req[q].kind = "PATCH" /\ req[q].committed
                           /\ req[q].uuid = u
                           /\ req[q].updates["status"] # Unset
  BY DEF StatusPatched
<1>2. /\ req'[q].kind = "PATCH" /\ req'[q].committed /\ req'[q].uuid = u
      /\ req'[q].updates["status"] # Unset
  BY <1>1, StepIsOwn, CommittedStays DEF OnlyMoves
<1> QED
  BY <1>2 DEF StatusPatched

\* A save leaves the status DELETED or accounted for by its own patch, or does
\* not write the status at all.
LEMMA SaveAccounts ==
  ASSUME NEW r \in Request, ApiTypeOK, HandlersKnow, Save(r),
         NEW u \in Uuid, u = req[r].uuid
  PROVE  \/ StatusAccounted(u)'
         \/ /\ req[r].kind # "DELETE"
            /\ table'[u]["status"] = table[u]["status"]
<1> USE DEF HandlersKnow
<1>1. /\ u \in Uuid
      /\ table'[u] = Merge(table[u], req[r].updates)
      /\ table'[u]["status"] = IF req[r].updates["status"] = Unset
                               THEN table[u]["status"]
                               ELSE req[r].updates["status"]
  BY SaveMerges DEF Merge, Field
<1>2. /\ req'[r].kind = req[r].kind /\ req'[r].uuid = u
      /\ req'[r].updates = req[r].updates
      /\ req'[r].committed
  BY DEF Save, ApiTypeOK, RequestState
<1>3. CASE req[r].updates["status"] = Unset
  BY <1>1, <1>3, StoreAssumption DEF Save, Saving, AtSave, Value, Status
<1>4. CASE req[r].kind = "DELETE"
  BY <1>1, <1>4, StoreAssumption
     DEF Save, Saving, AtSave, StatusAccounted, Value, Status
<1>5. CASE req[r].updates["status"] # Unset /\ req[r].kind = "PATCH"
  BY <1>2, <1>5 DEF StatusAccounted, StatusPatched
<1> QED
  BY <1>3, <1>4, <1>5 DEF Save, Saving, AtSave

LEMMA AccountStays ==
  ASSUME NEW r \in Request, ApiTypeOK, HandlersKnow, ApiStep(r), NEW u \in Uuid,
         Exists(u), StatusAccounted(u)
  PROVE  StatusAccounted(u)'
<1>1. CASE table'[u] = table[u]
  BY <1>1, PatchStays DEF StatusAccounted
<1>2. CASE Create(r)
  BY <1>1, <1>2, CreateInserts DEF HandlersKnow
<1>3. CASE Save(r)
  <2>1. CASE u = req[r].uuid
    BY <1>3, <2>1, SaveAccounts, PatchStays DEF StatusAccounted
  <2>2. CASE u # req[r].uuid
    BY <1>1, <1>3, <2>2, SaveMerges DEF HandlersKnow
  <2> QED
    BY <2>1, <2>2
<1>4. CASE SoftDelete(r)
  BY <1>1, <1>4, SoftDeleteStamps, PatchStays
     DEF HandlersKnow, StatusAccounted, Field
<1> QED
  BY <1>1, <1>2, <1>3, <1>4, Writers

----------------------------------------------------------------------------
(* The inductive invariant.                                                *)

\* What the handlers of the other requests know stays true.
LEMMA OthersStillKnow ==
  ASSUME NEW r \in Request, ApiTypeOK, HandlersKnow, ApiStep(r),
         NEW q \in Request \ {r}
  PROVE  (/\ AtArrival(q) /\ AtCreate(q) /\ AtGet(q) /\ AtSave(q)
          /\ AtSoftDelete(q) /\ AtLaunch(q) /\ CreatorHasRow(q))'
<1>1. req'[q] = req[q]
  BY StepIsOwn
<1>2. AtArrival(q)' /\ AtCreate(q)' /\ AtGet(q)'
  BY <1>1 DEF HandlersKnow, AtArrival, AtCreate, AtGet
<1>3. AtSave(q)'
  BY <1>1, RowsStay DEF HandlersKnow, AtSave, Asked
<1>4. AtSoftDelete(q)'
  BY <1>1, RowsStay, AccountStays DEF HandlersKnow, AtSoftDelete
<1>5. AtLaunch(q)' /\ CreatorHasRow(q)'
  BY <1>1, RowsStay DEF HandlersKnow, AtLaunch, CreatorHasRow
<1> QED
  BY <1>2, <1>3, <1>4, <1>5

\* What the handler that steps knows afterwards.
LEMMA ArriveSets ==
  ASSUME NEW r \in Request, ApiTypeOK, NEW kind, NEW u, NEW show, NEW doc, NEW pc,
         Arrive(r, kind, u, show, doc, pc)
  PROVE  /\ req'[r].kind = kind /\ req'[r].uuid = u /\ req'[r].doc = doc
         /\ req'[r].pc = pc /\ req'[r].committed = FALSE
  BY DEF Arrive, Idle, ApiTypeOK

LEMMA ArriveClearsLaunch ==
  ASSUME NEW r \in Request, ApiTypeOK, NEW kind, NEW u, NEW show, NEW doc, NEW pc,
         Arrive(r, kind, u, show, doc, pc)
  PROVE  req'[r].launch = FALSE /\ req'[r].pc = pc /\ req'[r].committed = FALSE
  BY DEF Arrive, Idle, ApiTypeOK

LEMMA ArrivalKnows ==
  ASSUME NEW r \in Request, ApiTypeOK, Post(r) \/ Patch(r) \/ Delete(r)
  PROVE  (/\ AtArrival(r) /\ AtCreate(r) /\ AtGet(r) /\ AtSave(r)
          /\ AtSoftDelete(r) /\ AtLaunch(r) /\ CreatorHasRow(r))'
<1>1. /\ req'[r].kind \in {"POST", "PATCH", "DELETE"}
      /\ ~req'[r].committed
      /\ \/ /\ req'[r].kind = "POST" /\ req'[r].pc = "create"
            /\ req'[r].doc["deleted_at"] = Unset
         \/ req'[r].kind = "PATCH" /\ req'[r].pc = "400"
         \/ /\ req'[r].kind \in {"PATCH", "DELETE"} /\ req'[r].pc = "get"
            /\ req'[r].uuid \in Uuid
            /\ req'[r].doc["deleted_at"] = Unset
  <2>1. CASE Post(r)
    <3>1. PICK u \in Uuid \cup {Unset}, show \in Shows, doc \in Bodies :
            Arrive(r, "POST", u, show, doc, "create")
      BY <2>1 DEF Post
    <3>2. doc["deleted_at"] = Unset
      BY ApiAssumption
    <3> QED
      BY <3>1, <3>2, ArriveSets
  <2>2. CASE Patch(r)
    BY <2>2, ArriveSets DEF Patch, IsInternal
  <2>3. CASE Delete(r)
    <3>1. PICK u \in Uuid, show \in Shows : Arrive(r, "DELETE", u, show, NoDoc, "get")
      BY <2>3 DEF Delete
    <3>2. NoDoc["deleted_at"] = Unset
      BY DEF NoDoc, Field
    <3> QED
      BY <3>1, <3>2, ArriveSets
  <2> QED
    BY <2>1, <2>2, <2>3
<1> QED
  BY <1>1 DEF AtArrival, AtCreate, AtGet, AtSave, AtSoftDelete, AtLaunch,
              CreatorHasRow

LEMMA CreateKnows ==
  ASSUME NEW r \in Request, ApiTypeOK, HandlersKnow, Create(r)
  PROVE  (/\ AtArrival(r) /\ AtCreate(r) /\ AtGet(r) /\ AtSave(r)
          /\ AtSoftDelete(r) /\ AtLaunch(r) /\ CreatorHasRow(r))'
<1>1. PICK u \in Uuid :
        /\ table'[u] \in Row
        /\ req'[r] = [req[r] EXCEPT !.uuid = u, !.launch = TRUE,
                                    !.committed = TRUE, !.pc = "launch"]
  BY CreateInserts DEF HandlersKnow
<1>2. req[r].kind = "POST" /\ req[r] \in RequestState
  BY DEF Create, Creating, HandlersKnow, AtCreate, ApiTypeOK
<1>3. /\ req'[r].uuid = u /\ req'[r].kind = "POST" /\ req'[r].pc = "launch"
      /\ req'[r].committed
  BY <1>1, <1>2 DEF RequestState
<1>4. Exists(u)'
  BY <1>1, StoreAssumption DEF Exists
<1> QED
  BY <1>3, <1>4
     DEF AtArrival, AtCreate, AtGet, AtSave, AtSoftDelete, AtLaunch,
         CreatorHasRow, Exists

LEMMA GetKnows ==
  ASSUME NEW r \in Request, ApiTypeOK, HandlersKnow,
         GetForDelete(r) \/ GetForPatch(r)
  PROVE  (/\ AtArrival(r) /\ AtCreate(r) /\ AtGet(r) /\ AtSave(r)
          /\ AtSoftDelete(r) /\ AtLaunch(r) /\ CreatorHasRow(r))'
<1>1. /\ req[r].kind \in {"PATCH", "DELETE"}
      /\ req[r].uuid \in Uuid /\ ~req[r].committed /\ Exists(req[r].uuid)
      /\ req[r].doc["deleted_at"] = Unset
      /\ table[req[r].uuid] \in Row /\ req[r].doc \in Doc
  BY DEF GetForDelete, GetForPatch, Getting, HandlersKnow, AtGet, Visible,
         Exists, ApiTypeOK, StoreTypeOK, RequestState
<1>2. /\ req'[r].kind = req[r].kind /\ req'[r].uuid = req[r].uuid
      /\ req'[r].committed = req[r].committed /\ req'[r].doc = req[r].doc
      /\ req'[r].pc = "save" /\ table' = table
  <2>1. CASE GetForDelete(r)
    BY <2>1 DEF GetForDelete, ApiTypeOK, RequestState
  <2>2. CASE GetForPatch(r)
    BY <2>2 DEF GetForPatch, ApiTypeOK, RequestState
  <2> QED
    BY <2>1, <2>2
<1>3. /\ req'[r].updates["deleted_at"] = Unset
      /\ ~Unassignable(req'[r].updates)
      /\ req'[r].kind = "DELETE" => req'[r].updates["status"] = "DELETED"
      /\ \A f \in Field : \/ req'[r].updates[f] = Unset
                          \/ Asked(r, f, req[r].updates[f])'
  <2>1. CASE GetForDelete(r)
    <3>1. req[r].kind = "DELETE"
          /\ req'[r].updates = [NoDoc EXCEPT !["status"] = "DELETED"]
      BY <2>1 DEF GetForDelete, Getting, ApiTypeOK, RequestState
    <3>2. \A f \in Field :
            req'[r].updates[f] = IF f = "status" THEN "DELETED" ELSE Unset
      BY <3>1 DEF NoDoc, Field
    <3>3. Unset # Null
      BY StoreAssumption DEF Value
    <3>4. ~Unassignable(req'[r].updates)
      BY <3>2, <3>3 DEF Unassignable, Field
    <3>5. \A f \in Field : \/ req'[r].updates[f] = Unset
                           \/ Asked(r, f, req[r].updates[f])'
      BY <1>2, <3>1, <3>2 DEF Asked
    <3> QED
      BY <3>2, <3>4, <3>5 DEF Field
  <2>2. CASE GetForPatch(r)
    <3> DEFINE row == table[req[r].uuid]
               doc == req[r].doc
    <3>1. req[r].kind = "PATCH" /\ req'[r].updates = Changes(doc, row)
      BY <2>2 DEF GetForPatch, Getting, ApiTypeOK, RequestState
    <3>2. \A f \in Field : req'[r].updates[f] = Unset \/ req'[r].updates[f] = doc[f]
      BY <3>1 DEF Changes
    <3>3. Unset # Null
      BY StoreAssumption DEF Value
    <3>4. ~Unassignable(req'[r].updates)
      BY <2>2, <3>2, <3>3 DEF GetForPatch, Unassignable, Field
    <3>5. req'[r].updates["deleted_at"] = Unset
      BY <1>1, <3>2 DEF Field
    <3>6. \A f \in Field : \/ req'[r].updates[f] = Unset
                           \/ Asked(r, f, req[r].updates[f])'
      BY <1>2, <3>1, <3>2 DEF Asked
    <3> QED
      BY <1>2, <3>1, <3>4, <3>5, <3>6
  <2> QED
    BY <2>1, <2>2
<1> QED
  BY <1>1, <1>2, <1>3
     DEF AtArrival, AtCreate, AtGet, AtSave, AtSoftDelete, AtLaunch,
         CreatorHasRow, Exists

LEMMA SaveKnows ==
  ASSUME NEW r \in Request, ApiTypeOK, HandlersKnow, Save(r)
  PROVE  (/\ AtArrival(r) /\ AtCreate(r) /\ AtGet(r) /\ AtSave(r)
          /\ AtSoftDelete(r) /\ AtLaunch(r) /\ CreatorHasRow(r))'
<1>1. PICK u \in Uuid : u = req[r].uuid /\ Exists(u)
  BY DEF Save, Saving, HandlersKnow, AtSave
<1>2. Exists(u)' /\ ApiStep(r)
  BY <1>1, RowsStay DEF ApiStep, Handle
<1>3. /\ req'[r].kind = req[r].kind /\ req'[r].kind \in {"PATCH", "DELETE"}
      /\ req'[r].uuid = u
      /\ req'[r].committed
      /\ req'[r].pc = AfterSave(r)
  BY <1>1 DEF Save, Saving, HandlersKnow, AtSave, ApiTypeOK, RequestState
<1>4. /\ AfterSave(r) \in {"soft_delete", "launch", "200"}
      /\ AfterSave(r) = "soft_delete" => req[r].kind = "DELETE"
      /\ AfterSave(r) = "launch" => req[r].kind = "PATCH"
  BY <1>3 DEF AfterSave
<1>5. req[r].kind = "DELETE" => StatusAccounted(u)'
  BY <1>1, SaveAccounts
<1>6. AtSoftDelete(r)'
  BY <1>2, <1>3, <1>4, <1>5
     DEF AtSoftDelete, Exists, StatusAccounted, StatusPatched
<1> QED
  BY <1>2, <1>3, <1>4, <1>6
     DEF AtArrival, AtCreate, AtGet, AtSave, AtLaunch, CreatorHasRow, Exists

\* An answer ends what a handler has to know, but for what a POST has created.
LEMMA AnswerKnows ==
  ASSUME NEW r \in Request, ApiTypeOK, HandlersKnow, Handle(r),
         NEW pc \in Answer, Goto(r, pc)
  PROVE  (/\ AtArrival(r) /\ AtCreate(r) /\ AtGet(r) /\ AtSave(r)
          /\ AtSoftDelete(r) /\ AtLaunch(r) /\ CreatorHasRow(r))'
<1>2. /\ req'[r].pc = pc /\ req'[r].kind = req[r].kind
      /\ req'[r].committed = req[r].committed /\ req'[r].uuid = req[r].uuid
  BY GotoKeepsType DEF ApiTypeOK, OnlyMoves
<1>3. req[r].kind # "none"
  BY HandlesBusy DEF HandlersKnow, AtArrival, Idle, Busy
<1>4. CreatorHasRow(r)'
  BY <1>2, RowsStay DEF HandlersKnow, CreatorHasRow, Exists, ApiStep
<1> QED
  BY <1>2, <1>3, <1>4 DEF AtArrival, AtCreate, AtGet, AtSave, AtSoftDelete,
                          AtLaunch, Answer

LEMMA HandlersStillKnow ==
  ASSUME NEW r \in Request, ApiTypeOK, HandlersKnow, ApiStep(r)
  PROVE  HandlersKnow'
<1>1. CASE Post(r) \/ Patch(r) \/ Delete(r)
  BY <1>1, ArrivalKnows, OthersStillKnow DEF HandlersKnow
<1>2. CASE Create(r)
  BY <1>2, CreateKnows, OthersStillKnow DEF HandlersKnow
<1>3. CASE GetForDelete(r) \/ GetForPatch(r)
  BY <1>3, GetKnows, OthersStillKnow DEF HandlersKnow
<1>4. CASE Save(r)
  BY <1>4, SaveKnows, OthersStillKnow DEF HandlersKnow
<1>5. CASE \/ SoftDelete(r) \/ Launch(r) \/ CreateInvalid(r) \/ CreateDuplicate(r)
           \/ NotFound(r) \/ PatchInvalid(r) \/ PatchRefused(r)
           \/ SaveInvalid(r) \/ ServerError(r)
  <2>1. PICK pc \in Answer : Goto(r, pc)
    BY <1>5 DEF SoftDelete, Launch, CreateInvalid, CreateDuplicate, NotFound,
                PatchInvalid, PatchRefused, SaveInvalid, ServerError, Answer
  <2>2. Handle(r)
    BY <1>5 DEF Handle
  <2> QED
    BY <2>1, <2>2, AnswerKnows, OthersStillKnow DEF HandlersKnow
<1> QED
  BY <1>1, <1>2, <1>3, <1>4, <1>5 DEF ApiStep, Handle

----------------------------------------------------------------------------
(* The safety invariants, step by step.                                    *)

\* Only Create commits a POST, and it takes a uuid no row has.
LEMMA StepOneCreator ==
  ASSUME NEW r \in Request, ApiTypeOK, HandlersKnow, OneCreator, ApiStep(r)
  PROVE  OneCreator'
<1> DEFINE Created(q) == req[q].kind = "POST" /\ req[q].committed
<1>1. \A q \in Request \ {r} : req'[q] = req[q]
  BY StepIsOwn
<1>2. CASE Create(r)
  <2>1. PICK u \in Uuid :
          /\ ~Exists(u)
          /\ req'[r] = [req[r] EXCEPT !.uuid = u, !.launch = TRUE,
                                      !.committed = TRUE, !.pc = "launch"]
    BY <1>2, CreateInserts DEF HandlersKnow
  <2>2. req'[r].uuid = u
    BY <2>1 DEF ApiTypeOK, RequestState
  <2>3. \A q \in Request : Created(q) => req[q].uuid # u
    BY <2>1 DEF HandlersKnow, CreatorHasRow
  <2> QED
    BY <1>1, <2>2, <2>3 DEF OneCreator
<1>3. CASE ~Create(r)
  <2>1. Created(r)' => Created(r) /\ req'[r].uuid = req[r].uuid
    <3>1. CASE Post(r) \/ Patch(r) \/ Delete(r)
      BY <3>1, ArriveSets DEF Post, Patch, Delete
    <3>2. CASE GetForDelete(r) \/ GetForPatch(r)
      <4>1. req'[r].pc = "save"
        BY <3>2, GetKnows DEF ApiTypeOK, RequestState, GetForDelete, GetForPatch
      <4> QED
        BY <3>2, <4>1, GetKnows DEF AtSave
    <3>3. CASE Save(r)
      BY <3>3 DEF Save, Saving, HandlersKnow, AtSave, ApiTypeOK, RequestState
    <3>4. CASE \E pc \in Answer : Goto(r, pc)
      BY <3>4, GotoKeepsType DEF ApiTypeOK, OnlyMoves, Answer
    <3> QED
      BY <1>3, <3>1, <3>2, <3>3, <3>4
         DEF ApiStep, Handle, SoftDelete, Launch, CreateInvalid,
             CreateDuplicate, NotFound, PatchInvalid, PatchRefused, SaveInvalid, ServerError,
             Answer
  <2> QED
    BY <1>1, <2>1 DEF OneCreator
<1> QED
  BY <1>2, <1>3

\* A message is sent at "launch", after the commit, and the row stays.
LEMMA StepLaunchAfterCommit ==
  ASSUME NEW r \in Request, ApiTypeOK, HandlersKnow, LaunchAfterCommit, ApiStep(r)
  PROVE  LaunchAfterCommit'
<1> SUFFICES ASSUME NEW m \in sent'
             PROVE  (/\ Exists(m.uuid) /\ req[m.request].committed
                     /\ req[m.request].uuid = m.uuid)'
  BY DEF LaunchAfterCommit
<1>1. CASE m \in sent
  <2>1. m.request \in Request /\ m.uuid \in Uuid
    BY <1>1 DEF ApiTypeOK, TopicTypeOK, Message
  <2>2. Exists(m.uuid)'
    BY <1>1, <2>1, RowsStay DEF LaunchAfterCommit
  <2>3. req'[m.request].committed /\ req'[m.request].uuid = m.uuid
    BY <1>1, <2>1, StepIsOwn, CommittedStays DEF LaunchAfterCommit, OnlyMoves
  <2> QED
    BY <2>2, <2>3
<1>2. CASE m \notin sent
  <2>1. Launch(r) /\ m = LaunchMessage(r)
    BY <1>2, StepIsOwn
  <2>2. /\ m.request = r /\ m.uuid = req[r].uuid
        /\ req[r].committed /\ m.uuid \in Uuid /\ Exists(m.uuid)
    BY <2>1 DEF LaunchMessage, Launch, HandlersKnow, AtLaunch
  <2>3. req'[r].committed /\ req'[r].uuid = m.uuid
    BY <2>2, CommittedStays DEF OnlyMoves
  <2> QED
    BY <2>2, <2>3, RowsStay
<1> QED
  BY <1>1, <1>2

\* Deletion comes after status is accounted for, and stays so.
LEMMA StepDeletedRowSaysSo ==
  ASSUME NEW r \in Request, ApiTypeOK, HandlersKnow, DeletedRowSaysSo, ApiStep(r)
  PROVE  DeletedRowSaysSo'
<1> SUFFICES ASSUME NEW u \in Uuid, Deleted(u)'
             PROVE  StatusAccounted(u)'
  BY DEF DeletedRowSaysSo, StatusAccounted
<1>1. CASE Deleted(u)
  BY <1>1, AccountStays DEF DeletedRowSaysSo, StatusAccounted, Deleted
<1>2. CASE ~Deleted(u)
  <2>1. SoftDelete(r) /\ u = req[r].uuid
    <3>1. CASE table'[u] = table[u]
      BY <1>2, <3>1 DEF Deleted, Exists
    <3>2. CASE Create(r)
      BY <1>2, <3>1, <3>2, CreateInserts DEF HandlersKnow, Deleted
    <3>3. CASE Save(r)
      BY <1>2, <3>1, <3>3, SaveMerges, StoreAssumption
         DEF HandlersKnow, Deleted, Exists
    <3>4. CASE SoftDelete(r)
      BY <3>1, <3>4, SoftDeleteStamps DEF HandlersKnow
    <3> QED
      BY <3>1, <3>2, <3>3, <3>4, Writers
  <2> QED
    BY <2>1, AccountStays DEF SoftDelete, HandlersKnow, AtSoftDelete
<1> QED
  BY <1>1, <1>2

\* Answers are given when they have become true, and what they say stays true.
LEMMA StepAnswersHold ==
  ASSUME NEW r \in Request, ApiTypeOK, HandlersKnow, LaunchAfterCommit,
         AnswersHold, ApiStep(r)
  PROVE  AnswersHold'
<1> DEFINE Holds(q) ==
      /\ req[q].pc = "201" => /\ req[q].uuid \in Uuid /\ Exists(req[q].uuid)
                              /\ WasCast(q)
      /\ req[q].pc = "200" /\ req[q].launch => WasCast(q)
      /\ req[q].pc = "204" => req[q].uuid \in Uuid /\ Deleted(req[q].uuid)
      /\ req[q].pc \in {"400", "404", "409"} => ~req[q].committed /\ ~WasCast(q)
<1> SUFFICES ASSUME NEW q \in Request PROVE Holds(q)'
  BY DEF AnswersHold
<1>1. WasCast(q) => WasCast(q)'
  BY StepIsOwn DEF WasCast
<1>2. CASE q # r
  <2>1. req'[q] = req[q] /\ (WasCast(q)' => WasCast(q))
    BY <1>2, StepIsOwn DEF WasCast, LaunchMessage
  <2>2. \A u \in Uuid : /\ Exists(u) => Exists(u)'
                        /\ Deleted(u) => Deleted(u)'
    BY RowsStay
  <2>3. Holds(q)
    BY DEF AnswersHold
  <2> QED
    BY <1>1, <2>1, <2>2, <2>3 DEF Exists, Deleted
<1>3. CASE q = r
  <2> SUFFICES Holds(r)'
    BY <1>3
  <2>1. req[r].committed \/ ~WasCast(r)
    BY DEF LaunchAfterCommit, WasCast
  <2>2. CASE Launch(r)
    <3>1. /\ OnlyMoves(r) /\ req'[r].pc \in {"200", "201"}
          /\ req[r].uuid \in Uuid /\ Exists(req[r].uuid)
      BY <2>2, GotoKeepsType DEF Launch, HandlersKnow, AtLaunch, ApiTypeOK, Answer
    <3>2. WasCast(r)'
      <4>1. LaunchMessage(r) \in sent' /\ LaunchMessage(r).request = r
        BY <2>2 DEF Launch, Cast, LaunchMessage
      <4> QED
        BY <4>1 DEF WasCast
    <3>3. Exists(req[r].uuid)'
      BY <2>2, <3>1 DEF Launch, OnlyMoves, Exists
    <3> QED
      BY <3>1, <3>2, <3>3 DEF OnlyMoves
  <2>3. CASE SoftDelete(r)
    <3>1. OnlyMoves(r) /\ req'[r].pc = "204"
      BY <2>3, GotoKeepsType DEF SoftDelete, ApiTypeOK, Answer
    <3>2. /\ req[r].uuid \in Uuid /\ table'[req[r].uuid]["deleted_at"] = Stamp
          /\ table'[req[r].uuid] \in Row
      BY <2>3, SoftDeleteStamps DEF HandlersKnow
    <3>3. Deleted(req[r].uuid)'
      BY <3>1, <3>2, StoreAssumption DEF Deleted, Exists, OnlyMoves
    <3> QED
      BY <3>1, <3>2, <3>3 DEF OnlyMoves
  <2>4. CASE ~Launch(r) /\ ~SoftDelete(r)
    <3>1. WasCast(r)' => WasCast(r)
      BY <2>4, StepIsOwn DEF WasCast
    <3>2. CASE Post(r) \/ Patch(r) \/ Delete(r)
      <4>1. req[r] = Idle
        BY <3>2 DEF Post, Patch, Delete, Arrive, HandlersKnow, AtArrival
      <4>2. /\ req'[r].pc \in {"create", "get", "400"}
            /\ req'[r].committed = FALSE
        BY <3>2, ArriveSets DEF Post, Patch, Delete
      <4> QED
        BY <2>1, <3>1, <4>1, <4>2 DEF Idle
    <3>3. CASE Create(r) \/ GetForDelete(r) \/ GetForPatch(r)
      <4>1. req'[r].pc \in {"launch", "save"}
        BY <3>3 DEF ApiTypeOK, RequestState, Create, GetForDelete, GetForPatch
      <4> QED
        BY <4>1
    <3>4. CASE Save(r)
      <4>1. req'[r].pc = AfterSave(r) /\ req'[r].launch = req[r].launch
        BY <3>4 DEF Save, ApiTypeOK, RequestState
      <4>2. /\ AfterSave(r) \in {"soft_delete", "launch", "200"}
            /\ AfterSave(r) = "200" => ~req[r].launch
        BY DEF AfterSave
      <4> QED
        BY <4>1, <4>2
    <3>5. CASE NotFound(r) \/ CreateDuplicate(r) \/ PatchRefused(r)
      <4>1. OnlyMoves(r) /\ req'[r].pc \in {"400", "404", "409"}
        BY <3>5, GotoKeepsType DEF NotFound, CreateDuplicate, PatchRefused, ApiTypeOK,
                                   Answer
      <4>2. ~req[r].committed
        BY <3>5 DEF NotFound, CreateDuplicate, PatchRefused, Creating, Getting,
                    HandlersKnow, AtGet, AtCreate
      <4> QED
        BY <2>1, <3>1, <4>1, <4>2 DEF OnlyMoves
    <3>6. CASE CreateInvalid(r) \/ PatchInvalid(r) \/ SaveInvalid(r) \/ ServerError(r)
      <4>1. req'[r].pc = "500"
        BY <3>6, GotoKeepsType
           DEF CreateInvalid, PatchInvalid, SaveInvalid, ServerError, ApiTypeOK,
               Answer
      <4> QED
        BY <4>1
    <3> QED
      BY <2>4, <3>2, <3>3, <3>4, <3>5, <3>6 DEF ApiStep, Handle
  <2> QED
    BY <2>2, <2>3, <2>4
<1> QED
  BY <1>2, <1>3

----------------------------------------------------------------------------
(* Theorems.                                                               *)

LEMMA InitInv == ApiInit => ApiInv
<1> SUFFICES ASSUME ApiInit PROVE ApiInv
  OBVIOUS
<1>1. \A r \in Request : req[r] = Idle
  BY DEF ApiInit
<1>2. \A r \in Request : /\ req[r].kind = "none" /\ req[r].pc = "idle"
                         /\ ~req[r].committed
  BY <1>1 DEF Idle
<1>3. ApiTypeOK
  BY IdleIsTyped DEF ApiInit, StoreInit, TopicInit, ApiTypeOK, StoreTypeOK,
                     TopicTypeOK
<1>4. HandlersKnow
  BY <1>1, <1>2 DEF HandlersKnow, AtArrival, AtCreate, AtGet, AtSave,
                    AtSoftDelete, AtLaunch, CreatorHasRow
<1>5. OneCreator /\ LaunchAfterCommit /\ AnswersHold
  BY <1>2 DEF OneCreator, LaunchAfterCommit, AnswersHold, ApiInit, TopicInit
<1>6. DeletedRowSaysSo
  BY DEF DeletedRowSaysSo, Deleted, Exists, ApiInit, StoreInit
<1> QED
  BY <1>3, <1>4, <1>5, <1>6 DEF ApiInv

LEMMA NextInv == ApiInv /\ [ApiNext]_apiVars => ApiInv'
<1> SUFFICES ASSUME ApiInv, [ApiNext]_apiVars PROVE ApiInv'
  OBVIOUS
<1> USE DEF ApiInv
<1>1. ApiTypeOK'
  BY NextKeepsType
<1>2. ASSUME NEW r \in Request, ApiStep(r)
      PROVE  ApiInv'
  BY <1>1, <1>2, HandlersStillKnow, StepOneCreator, StepLaunchAfterCommit,
     StepAnswersHold, StepDeletedRowSaysSo
<1>3. CASE UNCHANGED <<table, sent, req>>
  <2>1. HandlersKnow' /\ OneCreator' /\ AnswersHold'
    BY <1>3 DEF HandlersKnow, AtArrival, AtCreate, AtGet, AtSave, AtSoftDelete,
                AtLaunch, CreatorHasRow, StatusAccounted, StatusPatched, Exists,
                Asked, OneCreator, AnswersHold, WasCast, Deleted
  <2>2. LaunchAfterCommit' /\ DeletedRowSaysSo'
    BY <1>3 DEF LaunchAfterCommit, DeletedRowSaysSo, StatusPatched, Exists, Deleted
  <2> QED
    BY <1>1, <2>1, <2>2
<1>4. CASE TopicDrains
  BY <1>3, <1>4 DEF TopicDrains, Take
<1>5. CASE UNCHANGED apiVars
  BY <1>3, <1>5 DEF apiVars
<1> QED
  BY <1>2, <1>4, <1>5 DEF ApiNext

\* The inductive invariant holds of every behaviour of the API.
THEOREM ApiInvariant == ApiSpec => []ApiInv
  BY InitInv, NextInv, PTL DEF ApiSpec

\* Every variable keeps its type: no NULL in a mandatory column, no message but
\* of a request that exists.
THEOREM TypeCorrect == ApiSpec => []ApiTypeOK
<1>1. ApiInv => ApiTypeOK
  BY DEF ApiInv
<1> QED
  BY <1>1, ApiInvariant, PTL

\* However many POSTs race, with however many deletions in between, at most one
\* of them creates the task of a uuid.
THEOREM CreatedOnce == ApiSpec => []OneCreator
<1>1. ApiInv => OneCreator
  BY DEF ApiInv
<1> QED
  BY <1>1, ApiInvariant, PTL

\* No launch is cast before the commit it follows, whatever fails.
THEOREM LaunchedAfterCommit == ApiSpec => []LaunchAfterCommit
<1>1. ApiInv => LaunchAfterCommit
  BY DEF ApiInv
<1> QED
  BY <1>1, ApiInvariant, PTL

\* The answers of all handlers keep being true.
THEOREM AnswersAreTrue == ApiSpec => []AnswersHold
<1>1. ApiInv => AnswersHold
  BY DEF ApiInv
<1> QED
  BY <1>1, ApiInvariant, PTL

\* deleted_at never comes without the status, unless a PATCH set the status.
THEOREM DeletedRowsSaySo == ApiSpec => []DeletedRowSaysSo
<1>1. ApiInv => DeletedRowSaysSo
  BY DEF ApiInv
<1> QED
  BY <1>1, ApiInvariant, PTL

\* No step of any handler removes or undeletes a row.
THEOREM DeletedForGood == ApiSpec => DeletionIsFinal
<1>1. ApiInv /\ [ApiNext]_apiVars
      => [\A u \in Uuid : /\ Exists(u) => Exists(u)'
                          /\ Deleted(u) => Deleted(u)']_apiVars
  <2> SUFFICES ASSUME ApiInv, ApiNext, NEW u \in Uuid
               PROVE  /\ Exists(u) => Exists(u)'
                      /\ Deleted(u) => Deleted(u)'
    OBVIOUS
  <2>1. ASSUME NEW r \in Request, ApiStep(r)
        PROVE  /\ Exists(u) => Exists(u)'
               /\ Deleted(u) => Deleted(u)'
    BY <2>1, RowsStay DEF ApiInv
  <2>2. CASE TopicDrains
    BY <2>2 DEF TopicDrains, Exists, Deleted
  <2> QED
    BY <2>1, <2>2 DEF ApiNext
<1> QED
  BY <1>1, ApiInvariant, PTL DEF ApiSpec, DeletionIsFinal

\* Only what a request asked for is written over an existing row, by a step of
\* that request: no snapshot is ever written back.
THEOREM NothingWrittenBack == ApiSpec => NoStaleWriteBack
<1> DEFINE ByRequest(u, f) ==
      \E r \in Request : /\ req[r].uuid = u
                         /\ req'[r] # req[r]
                         /\ Asked(r, f, table'[u][f])
<1>1. ASSUME ApiInv, NEW r \in Request, ApiStep(r), NEW u \in Uuid, NEW f \in Field,
             Exists(u), table'[u][f] # table[u][f]
      PROVE  ByRequest(u, f)
  <2> USE DEF ApiInv, HandlersKnow
  <2>1. ~Create(r)
    BY <1>1, CreateInserts
  <2>2. CASE Save(r)
    <3>1. /\ table'[req[r].uuid] = Merge(table[req[r].uuid], req[r].updates)
          /\ \A v \in Uuid \ {req[r].uuid} : table'[v] = table[v]
      BY <1>1, <2>2, SaveMerges
    <3>2. u = req[r].uuid
      BY <1>1, <3>1
    <3>3. table'[u][f] = IF req[r].updates[f] = Unset THEN table[u][f]
                         ELSE req[r].updates[f]
      BY <3>1, <3>2 DEF Merge
    <3>4. Asked(r, f, table'[u][f])
      BY <1>1, <2>2, <3>3 DEF Save, Saving, AtSave
    <3>5. req'[r].pc = AfterSave(r) /\ req[r].pc = "save"
      BY <1>1, <2>2 DEF Save, Saving, ApiTypeOK, RequestState
    <3>6. AfterSave(r) # "save"
      BY DEF AfterSave
    <3> QED
      BY <3>2, <3>4, <3>5, <3>6
  <2>3. CASE SoftDelete(r)
    <3>1. u = req[r].uuid /\ f = "deleted_at" /\ table'[u][f] = Stamp
      BY <1>1, <2>3, SoftDeleteStamps
    <3>2. req[r].pc = "soft_delete" /\ Goto(r, "204")
      BY <2>3 DEF SoftDelete
    <3>3. req[r].kind = "DELETE"
      BY <1>1, <3>2 DEF AtSoftDelete
    <3>4. Asked(r, f, table'[u][f])
      BY <3>1, <3>3 DEF Asked
    <3>5. req'[r].pc = "204"
      BY <1>1, <3>2, GotoKeepsType DEF ApiTypeOK, Answer
    <3> QED
      BY <3>1, <3>2, <3>4, <3>5
  <2> QED
    BY <1>1, <2>1, <2>2, <2>3, Writers
<1>2. ApiInv /\ [ApiNext]_apiVars
      => [\A u \in Uuid, f \in Field :
            Exists(u) /\ table'[u][f] # table[u][f] => ByRequest(u, f)]_apiVars
  <2> SUFFICES ASSUME ApiInv, ApiNext, NEW u \in Uuid, NEW f \in Field,
                      Exists(u), table'[u][f] # table[u][f]
               PROVE  ByRequest(u, f)
    OBVIOUS
  <2>1. PICK r \in Request : ApiStep(r)
    BY DEF ApiNext, TopicDrains
  <2> QED
    BY <1>1, <2>1
<1> QED
  BY <1>2, ApiInvariant, PTL DEF ApiSpec, NoStaleWriteBack

----------------------------------------------------------------------------
(* A PATCH takes effect.                                                   *)

\* A request that wrote a column stays one that did.
LEMMA OverwriteStays ==
  ASSUME NEW p \in Request, ApiTypeOK, HandlersKnow, ApiStep(p),
         NEW r \in Request, req'[r].uuid = req[r].uuid,
         NEW f \in Field, OverwrittenFor(r, f)
  PROVE  OverwrittenFor(r, f)'
<1>1. PICK q \in Request \ {r} : /\ req[q].committed
                                 /\ req[q].uuid = req[r].uuid
                                 /\ req[q].updates[f] # Unset
  BY DEF OverwrittenFor
<1>2. /\ req'[q].committed /\ req'[q].uuid = req'[r].uuid
      /\ req'[q].updates[f] # Unset
  BY <1>1, StepIsOwn, CommittedStays DEF OnlyMoves
<1> QED
  BY <1>2 DEF OverwrittenFor

\* Who changes a column of a row, but for deleted_at, has it in its changes.
LEMMA WriterHasIt ==
  ASSUME NEW p \in Request, ApiTypeOK, HandlersKnow, ApiStep(p),
         NEW u \in Uuid, Exists(u), NEW f \in Field \ {"deleted_at"}
  PROVE  \/ table'[u][f] = table[u][f]
         \/ /\ Save(p) /\ req[p].uuid = u /\ req[p].updates[f] # Unset
            /\ req'[p].committed /\ req'[p].uuid = u /\ req'[p].updates[f] # Unset
<1> USE DEF HandlersKnow
<1>1. CASE table' = table
  BY <1>1
<1>2. CASE Create(p)
  BY <1>2, CreateInserts
<1>3. CASE SoftDelete(p)
  BY <1>3, SoftDeleteStamps
<1>4. CASE Save(p)
  <2>1. /\ table'[req[p].uuid] = Merge(table[req[p].uuid], req[p].updates)
        /\ \A v \in Uuid \ {req[p].uuid} : table'[v] = table[v]
    BY <1>4, SaveMerges
  <2>2. /\ req'[p].committed /\ req'[p].uuid = req[p].uuid
        /\ req'[p].updates = req[p].updates
    BY <1>4 DEF Save, ApiTypeOK, RequestState
  <2> QED
    BY <1>4, <2>1, <2>2 DEF Merge
<1> QED
  BY <1>1, <1>2, <1>3, <1>4, Writers

\* What a request still has in its favour when another one steps.
LEMMA EffectStays ==
  ASSUME NEW p \in Request, ApiTypeOK, HandlersKnow, ApiStep(p),
         NEW r \in Request \ {p}, req[r].uuid \in Uuid, Exists(req[r].uuid),
         NEW f \in Field, req[r].doc["deleted_at"] = Unset, req[r].doc[f] # Unset,
         table[req[r].uuid][f] = req[r].doc[f] \/ OverwrittenFor(r, f)
  PROVE  (table[req[r].uuid][f] = req[r].doc[f] \/ OverwrittenFor(r, f))'
<1>1. req'[r] = req[r]
  BY StepIsOwn
<1>2. CASE OverwrittenFor(r, f)
  BY <1>1, <1>2, OverwriteStays
<1>3. CASE table[req[r].uuid][f] = req[r].doc[f]
  <2>1. CASE table'[req[r].uuid][f] = table[req[r].uuid][f]
    BY <1>1, <1>3, <2>1
  <2>2. CASE table'[req[r].uuid][f] # table[req[r].uuid][f]
    <3>1. /\ req'[p].committed /\ req'[p].uuid = req[r].uuid
          /\ req'[p].updates[f] # Unset
      BY <2>2, WriterHasIt
    <3> QED
      BY <1>1, <3>1 DEF OverwrittenFor
  <2> QED
    BY <2>1, <2>2
<1> QED
  BY <1>2, <1>3

\* The conjuncts of the invariant for one request.
OnePatchKnows(r) ==
  /\ req[r].kind = "PATCH" /\ req[r].committed
     => req[r].uuid \in Uuid /\ Exists(req[r].uuid)
  /\ req[r].kind = "PATCH" /\ (req[r].committed \/ req[r].pc = "save")
     => req[r].doc["deleted_at"] = Unset
  /\ req[r].kind = "PATCH" /\ req[r].pc = "save"
     => \A f \in Field : req[r].doc[f] # Unset /\ req[r].updates[f] = Unset
                        => table[req[r].uuid][f] = req[r].doc[f] \/ OverwrittenFor(r, f)
  /\ \A f \in Field :
       req[r].kind = "PATCH" /\ req[r].committed /\ req[r].doc[f] # Unset
       => table[req[r].uuid][f] = req[r].doc[f] \/ OverwrittenFor(r, f)

LEMMA AllPatchesKnow == PatchInv <=> \A r \in Request : OnePatchKnows(r)
  BY DEF PatchInv, PatchKnows, PatchTakesEffect, OnePatchKnows

LEMMA AllPatchesKnowNext == PatchInv' <=> \A r \in Request : OnePatchKnows(r)'
  BY DEF PatchInv, PatchKnows, PatchTakesEffect, OnePatchKnows

LEMMA OtherPatchesKnow ==
  ASSUME NEW p \in Request, ApiTypeOK, HandlersKnow, ApiStep(p),
         NEW r \in Request \ {p}, OnePatchKnows(r)
  PROVE  OnePatchKnows(r)'
<1>1. req'[r] = req[r]
  BY StepIsOwn
<1>2. req[r].pc = "save" => req[r].uuid \in Uuid /\ Exists(req[r].uuid)
  BY DEF HandlersKnow, AtSave
<1>3. \A u \in Uuid : Exists(u) => Exists(u)'
  BY RowsStay
<1>4. /\ req'[r].kind = "PATCH" /\ req'[r].committed
         => req'[r].uuid \in Uuid /\ Exists(req[r].uuid)'
      /\ req'[r].kind = "PATCH" /\ (req'[r].committed \/ req'[r].pc = "save")
         => req'[r].doc["deleted_at"] = Unset
  BY <1>1, <1>2, <1>3 DEF OnePatchKnows, Exists
<1>5. ASSUME req'[r].kind = "PATCH", req'[r].pc = "save", NEW f \in Field,
             req'[r].doc[f] # Unset, req'[r].updates[f] = Unset
      PROVE  (table[req[r].uuid][f] = req[r].doc[f] \/ OverwrittenFor(r, f))'
  BY <1>1, <1>2, <1>5, EffectStays DEF OnePatchKnows
<1>6. ASSUME req'[r].kind = "PATCH", req'[r].committed, NEW f \in Field,
             req'[r].doc[f] # Unset
      PROVE  (table[req[r].uuid][f] = req[r].doc[f] \/ OverwrittenFor(r, f))'
  BY <1>1, <1>6, EffectStays DEF OnePatchKnows
<1> QED
  BY <1>4, <1>5, <1>6 DEF OnePatchKnows, Exists

LEMMA OwnPatchKnows ==
  ASSUME NEW r \in Request, ApiTypeOK, HandlersKnow, ApiStep(r), OnePatchKnows(r)
  PROVE  OnePatchKnows(r)'
<1> USE DEF HandlersKnow
<1>1. CASE Post(r) \/ Patch(r) \/ Delete(r)
  <2>1. PICK kind, u, show, doc, pc : /\ Arrive(r, kind, u, show, doc, pc)
                                      /\ pc \in {"create", "get", "400"}
    BY <1>1, Zenon DEF Post, Patch, Delete
  <2>2. req'[r].committed = FALSE /\ req'[r].pc # "save"
    BY <2>1, ArriveSets
  <2> QED
    BY <2>2 DEF OnePatchKnows
<1>2. CASE Create(r)
  <2>1. req'[r].kind = "POST"
    BY <1>2 DEF Create, Creating, AtCreate, ApiTypeOK, RequestState
  <2> QED
    BY <2>1 DEF OnePatchKnows
<1>3. CASE GetForDelete(r)
  <2>1. req'[r].kind = "DELETE"
    BY <1>3 DEF GetForDelete, Getting, ApiTypeOK, RequestState
  <2> QED
    BY <2>1 DEF OnePatchKnows
<1>4. CASE GetForPatch(r)
  <2>1. /\ req[r].pc = "get" /\ ~req[r].committed /\ req[r].doc["deleted_at"] = Unset
        /\ table' = table
    BY <1>4 DEF GetForPatch, Getting, AtGet
  <2>2. /\ req'[r].uuid = req[r].uuid /\ req'[r].doc = req[r].doc
        /\ req'[r].committed = req[r].committed
        /\ req'[r].updates = Changes(req[r].doc, table[req[r].uuid])
    BY <1>4 DEF GetForPatch, ApiTypeOK, RequestState
  <2>3. \A f \in Field : req'[r].doc[f] # Unset /\ req'[r].updates[f] = Unset
                         => table'[req'[r].uuid][f] = req'[r].doc[f]
    BY <2>1, <2>2 DEF Changes
  <2> QED
    BY <2>1, <2>2, <2>3 DEF OnePatchKnows
<1>5. CASE Save(r)
  <2>1. /\ req[r].pc = "save" /\ req[r].uuid \in Uuid /\ Exists(req[r].uuid)
        /\ table'[req[r].uuid] = Merge(table[req[r].uuid], req[r].updates)
    BY <1>5, SaveMerges DEF Save, Saving, AtSave
  <2>2. /\ req'[r].kind = req[r].kind /\ req'[r].uuid = req[r].uuid
        /\ req'[r].doc = req[r].doc /\ req'[r].pc = AfterSave(r)
    BY <1>5 DEF Save, ApiTypeOK, RequestState
  <2>3. req'[r].pc # "save"
    BY <2>2 DEF AfterSave
  <2>4. \A u \in Uuid : Exists(u) => Exists(u)'
    BY RowsStay
  <2>5. ASSUME req[r].kind = "PATCH", NEW f \in Field, req[r].doc[f] # Unset
        PROVE  table'[req[r].uuid][f] = req[r].doc[f] \/ OverwrittenFor(r, f)'
    <3>1. table'[req[r].uuid][f] = IF req[r].updates[f] = Unset
                                   THEN table[req[r].uuid][f] ELSE req[r].updates[f]
      BY <2>1 DEF Merge
    <3>2. CASE req[r].updates[f] = Unset
      BY <2>1, <2>2, <2>5, <3>1, <3>2, OverwriteStays DEF OnePatchKnows
    <3>3. CASE req[r].updates[f] # Unset
      BY <2>1, <2>5, <3>1, <3>3 DEF AtSave, Asked
    <3> QED
      BY <3>2, <3>3
  <2> QED
    BY <2>1, <2>2, <2>3, <2>4, <2>5 DEF OnePatchKnows, Exists
<1>6. CASE \/ SoftDelete(r) \/ Launch(r) \/ CreateInvalid(r) \/ CreateDuplicate(r)
           \/ NotFound(r) \/ PatchInvalid(r) \/ PatchRefused(r)
           \/ SaveInvalid(r) \/ ServerError(r)
  <2>1. PICK pc \in Answer : Goto(r, pc)
    BY <1>6 DEF SoftDelete, Launch, CreateInvalid, CreateDuplicate, NotFound,
                PatchInvalid, PatchRefused, SaveInvalid, ServerError, Answer
  <2>2. OnlyMoves(r) /\ req'[r].pc # "save"
    BY <2>1, GotoKeepsType DEF ApiTypeOK, Answer
  <2>3. req[r].kind = "PATCH" => table' = table
    BY <1>6 DEF SoftDelete, AtSoftDelete, Launch, CreateInvalid, CreateDuplicate,
                NotFound, PatchInvalid, PatchRefused, SaveInvalid, ServerError
  <2>4. \A f \in Field : OverwrittenFor(r, f) => OverwrittenFor(r, f)'
    BY <2>2, OverwriteStays DEF OnlyMoves
  <2> QED
    BY <2>2, <2>3, <2>4 DEF OnePatchKnows, OnlyMoves, Exists
<1> QED
  BY <1>1, <1>2, <1>3, <1>4, <1>5, <1>6 DEF ApiStep, Handle

\* A saved PATCH took effect, or another request wrote the same column: what it
\* left unwritten because it was so already is so, or was written meanwhile.
THEOREM PatchesTakeEffect == ApiSpec => []PatchTakesEffect
<1>1. ApiInit => PatchInv
  BY DEF ApiInit, Idle, PatchInv, PatchKnows, PatchTakesEffect
<1>2. ApiInv /\ PatchInv /\ [ApiNext]_apiVars => PatchInv'
  <2> SUFFICES ASSUME ApiInv, PatchInv, [ApiNext]_apiVars PROVE PatchInv'
    OBVIOUS
  <2>1. ASSUME NEW p \in Request, ApiStep(p) PROVE PatchInv'
    BY <2>1, OwnPatchKnows, OtherPatchesKnow, AllPatchesKnow, AllPatchesKnowNext
    DEF ApiInv
  <2>2. CASE TopicDrains \/ UNCHANGED apiVars
    BY <2>2 DEF TopicDrains, apiVars, PatchInv, PatchKnows, PatchTakesEffect,
                OverwrittenFor, Exists
  <2> QED
    BY <2>1, <2>2 DEF ApiNext
<1>3. PatchInv => PatchTakesEffect
  BY DEF PatchInv
<1> QED
  BY <1>1, <1>2, <1>3, ApiInvariant, PTL DEF ApiSpec
============================================================================
