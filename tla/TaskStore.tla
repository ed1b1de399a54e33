----------------------------- MODULE TaskStore -----------------------------
(***************************************************************************)
(* The `tasks` table and the transactions that convertor/db/sqlalchemy     *)
(* /api.py runs on it.  Each operator that primes `table` is one committed *)
(* transaction (one session.begin() block), so it is atomic.               *)
(*                                                                         *)
(* A row is a function from the columns some code branches on to their     *)
(* values.  bucket_id, created_at and updated_at are written and read but  *)
(* never decide anything, so they are left out; id is left to Listing.     *)
(***************************************************************************)
CONSTANTS
  Uuid,     \* the uuids tasks can have
  Image,    \* values of image_id
  Format,   \* values of new_format
  Null,     \* Python's None, SQL's NULL
  Unset,    \* wsme's Unset: the attribute is not there
  NoRow     \* the table has no row under this uuid

VARIABLE table

\* The statuses of objects.task.Status.  The column is free text: a client may
\* write any of them.
Status == {"CREATED", "INPROGRESS", "COMPLETED", "ERROR", "DELETED"}

Field == {"image_id", "new_format", "status", "deleted_at"}

\* Every deletion time reads the same here: only NULL or not matters.
Stamp == "stamp"

Value == Image \cup Format \cup Status \cup {Null, Stamp}

\* models.Task: the columns declared nullable=False that the model keeps.
NotNull == {"image_id", "new_format", "status"}

Row == {row \in [Field -> Value] : /\ row["image_id"] \in Image
                                   /\ row["new_format"] \in Format
                                   /\ row["status"] \in Status
                                   /\ row["deleted_at"] \in {Null, Stamp}}

\* What a client or an object asks to write: a value of the column's type or
\* NULL, and Unset for a column it does not mention.
Doc == {doc \in [Field -> Value \cup {Unset}] :
          /\ doc["image_id"] \in Image \cup {Null, Unset}
          /\ doc["new_format"] \in Format \cup {Null, Unset}
          /\ doc["status"] \in Status \cup {Null, Unset}
          /\ doc["deleted_at"] \in {Null, Stamp, Unset}}

ASSUME StoreAssumption ==
  /\ Null \notin Image \cup Format \cup Status \cup {Stamp}
  /\ Unset \notin Value
  /\ NoRow \notin Row

----------------------------------------------------------------------------
Exists(u) == table[u] # NoRow

Deleted(u) == Exists(u) /\ table[u]["deleted_at"] # Null

\* The query of _get hides soft-deleted rows unless the context asks for them.
Visible(u, showDeleted) == Exists(u) /\ (showDeleted \/ ~Deleted(u))

\* Mutant: a unique constraint on the rows that are not deleted.
IsDuplicateOfLive(u) == Exists(u) /\ ~Deleted(u)

\* INSERT is refused by the unique constraint on uuid, which soft-deleted rows
\* still hold, ...
IsDuplicate(u) == Exists(u)

\* ... and by the columns declared NOT NULL.
ViolatesNotNull(values) == \E f \in NotNull : values[f] = Null

\* _create: one INSERT.
InsertRow(u, row) == table' = [table EXCEPT ![u] = row]

\* ref.update(values): only the columns that `updates` mentions are written.
Merge(row, updates) ==
  [f \in Field |-> IF updates[f] = Unset THEN row[f] ELSE updates[f]]

\* _update: SELECT ... FOR UPDATE and the write in one transaction.  Its query
\* does not look at deleted_at: a soft-deleted row is updated like any other.
UpdateRow(u, updates) ==
  table' = [table EXCEPT ![u] = Merge(table[u], updates)]

\* _soft_delete: stamps deleted_at and nothing else.
SoftDeleteRow(u) ==
  table' = [table EXCEPT ![u] = [table[u] EXCEPT !["deleted_at"] = Stamp]]

----------------------------------------------------------------------------
StoreInit == table = [u \in Uuid |-> NoRow]

StoreTypeOK == table \in [Uuid -> Row \cup {NoRow}]
============================================================================
