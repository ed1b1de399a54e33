------------------------------- MODULE Listing -------------------------------
(***************************************************************************)
(* GET /tasks: a client walks the collection page by page, along the       *)
(* `next` links, while other requests insert, update and delete tasks.     *)
(* Each page is one request, whose handler reads the marker's row in one   *)
(* transaction and the page in another (TasksController                    *)
(* ._get_tasks_collection, Connection._get_model_list).                    *)
(*                                                                         *)
(* A page is a set: what its order is for is to say which task is the      *)
(* last, the marker of the next page.                                      *)
(***************************************************************************)
EXTENDS Integers, FiniteSets

CONSTANTS
  Uuid,       \* the uuids tasks can have
  Key,        \* values of the column to sort by, in the database's order
  MaxId,      \* bound: the highest autoincrement id
  MaxLimit,   \* CONF.api.max_limit
  Limits,     \* the values of `limit` that clients give
  None,       \* Python's None: no limit, no marker
  NoRow       \* the table has no row under this uuid

VARIABLES
  rows,      \* the table: of each task its id, its sort column, deleted or not
  walk,      \* the client's walk
  seen,      \* tasks listed so far
  repeated,  \* tasks listed more than once
  stable,    \* tasks there since the walk began that stayed where they were
  lost       \* the walk's marker moved before the walk went on from it

vars == <<rows, walk, seen, repeated, stable, lost>>

Row == [id : 1..MaxId, key : Key, deleted : BOOLEAN]

Position == [key : Int, id : Int]

\* `id` never changes; `status` stands for any column that PATCH can change.
Walk == [pc : {"idle", "query", "follow", "done", "400", "404"},
         sort : {"id", "status"}, dir : {"asc", "desc"}, show : BOOLEAN,
         limit : Nat, marker : Uuid \cup {None}, after : Position \cup {None}]

ASSUME ListingAssumption ==
  /\ MaxId \in Nat /\ MaxLimit \in Nat
  /\ Key \subseteq Int
  /\ Limits \subseteq Int \cup {None}
  /\ None \notin Int /\ None \notin Uuid /\ None \notin Position
  /\ NoRow \notin Row

Exists(u) == rows[u] # NoRow

Visible(u) == Exists(u) /\ (walk.show \/ ~rows[u].deleted)

----------------------------------------------------------------------------
(* The other requests.                                                     *)

\* Ids grow, but concurrent inserts may be committed in any order.
Insert(u) ==
  /\ ~Exists(u)
  /\ \E id \in 1..MaxId, k \in Key :
       /\ \A v \in Uuid : Exists(v) => rows[v].id # id
       /\ rows' = [rows EXCEPT ![u] = [id |-> id, key |-> k, deleted |-> FALSE]]
  /\ UNCHANGED <<walk, seen, repeated, stable, lost>>

\* A PATCH of the column, which does not mind deleted_at.
Update(u) ==
  /\ Exists(u)
  /\ \E k \in Key : /\ k # rows[u].key
                    /\ rows' = [rows EXCEPT ![u] = [@ EXCEPT !.key = k]]
  /\ stable' = IF walk.sort = "id" THEN stable ELSE stable \ {u}
  /\ lost' = (lost \/ (walk.sort # "id" /\ walk.pc = "follow" /\ walk.marker = u))
  /\ UNCHANGED <<walk, seen, repeated>>

SoftDelete(u) ==
  /\ Exists(u) /\ ~rows[u].deleted
  /\ rows' = [rows EXCEPT ![u] = [@ EXCEPT !.deleted = TRUE]]
  /\ stable' = IF walk.show THEN stable ELSE stable \ {u}
  /\ UNCHANGED <<walk, seen, repeated, lost>>

----------------------------------------------------------------------------
(* A page.                                                                 *)

\* Mutant: an absent limit stays absent.
LimitAsGiven(limit) == IF limit = None THEN -1 ELSE limit

\* validate_limit, for a limit that it accepts.
ValidLimit(limit) ==
  IF limit = None THEN MaxLimit
  ELSE IF MaxLimit = 0 \/ limit <= MaxLimit THEN limit ELSE MaxLimit

Refused(limit) == limit # None /\ limit <= 0

\* Where a row stands: _paginate_query sorts by the column asked for and then,
\* always, by id.
PositionOf(u) ==
  [key |-> IF walk.sort = "id" THEN 0 ELSE rows[u].key, id |-> rows[u].id]

\* Mutant: the query sorts by the column alone.
PrecedesByColumn(p, q) ==
  LET less(a, b) == a.key < b.key \/ (walk.sort = "id" /\ a.id < b.id)
  IN IF walk.dir = "asc" THEN less(p, q) ELSE less(q, p)

\* Mutant: the marker itself is on the next page.
PrecedesOrEquals(p, q) ==
  LET less(a, b) == a.key < b.key \/ (a.key = b.key /\ a.id <= b.id)
  IN IF walk.dir = "asc" THEN less(p, q) ELSE less(q, p)

\* paginate_query's criteria: the direction is that of both columns.
Precedes(p, q) ==
  LET less(a, b) == a.key < b.key \/ (a.key = b.key /\ a.id < b.id)
  IN IF walk.dir = "asc" THEN less(p, q) ELSE less(q, p)

\* The rows after the marker's values as they were read.
Candidates ==
  {u \in Uuid : /\ Visible(u)
                /\ walk.after # None => Precedes(walk.after, PositionOf(u))}

\* LIMIT: the first of them, as many as the limit says if there are as many.
IsPage(page) ==
  /\ page \subseteq Candidates
  /\ Cardinality(page) <= walk.limit
  /\ Cardinality(page) # walk.limit => page = Candidates
  /\ \A u \in page, v \in Candidates \ page : ~Precedes(PositionOf(v), PositionOf(u))

\* Collection.has_next: a full page has a next link, even the last one.
HasNext(page) == page # {} /\ Cardinality(page) = walk.limit

\* Mutant: the link names the first task of the page.
IsFirst(u, page) ==
  \A v \in page \ {u} : ~Precedes(PositionOf(v), PositionOf(u))

\* get_next's collection[-1].
IsLast(u, page) ==
  \A v \in page \ {u} : ~Precedes(PositionOf(u), PositionOf(v))

----------------------------------------------------------------------------
(* The walk.                                                               *)

\* The first request has no marker.
Ask ==
  /\ walk.pc = "idle"
  /\ \E sort \in {"id", "status"}, dir \in {"asc", "desc"}, show \in BOOLEAN,
        limit \in {l \in Limits : ~Refused(l)} :
       walk' = [walk EXCEPT !.pc = "query", !.sort = sort, !.dir = dir,
                            !.show = show, !.limit = ValidLimit(limit)]
  /\ stable' = {u \in Uuid : Exists(u) /\ (walk'.show \/ ~rows[u].deleted)}
  /\ UNCHANGED <<rows, seen, repeated, lost>>

\* ClientSideError: the limit is not positive.
AskRefused ==
  /\ walk.pc = "idle"
  /\ \E limit \in Limits : Refused(limit)
  /\ walk' = [walk EXCEPT !.pc = "400"]
  /\ UNCHANGED <<rows, seen, repeated, stable, lost>>

\* Task.list and the answer; without a next link the walk is done.
ListTasks ==
  /\ walk.pc = "query"
  /\ \E page \in SUBSET Candidates :
       /\ IsPage(page)
       /\ seen' = seen \cup page
       /\ repeated' = repeated \cup (page \cap seen)
       /\ \/ /\ ~HasNext(page)
             /\ walk' = [walk EXCEPT !.pc = "done"]
          \/ /\ HasNext(page)
             /\ \E u \in page : /\ IsLast(u, page)
                                /\ walk' = [walk EXCEPT !.pc = "follow",
                                                        !.marker = u]
  /\ UNCHANGED <<rows, stable, lost>>

\* The request of the next link: Task.get_by_uuid of the marker.  The limit in
\* the link is validated again.
Follow ==
  /\ walk.pc = "follow"
  /\ Visible(walk.marker)
  /\ walk' = [walk EXCEPT !.pc = "query", !.after = PositionOf(walk.marker),
                          !.limit = ValidLimit(walk.limit)]
  /\ UNCHANGED <<rows, seen, repeated, stable, lost>>

\* TaskNotFound: the marker was deleted, and the walk cannot go on.
MarkerGone ==
  /\ walk.pc = "follow"
  /\ ~Visible(walk.marker)
  /\ walk' = [walk EXCEPT !.pc = "404"]
  /\ UNCHANGED <<rows, seen, repeated, stable, lost>>

----------------------------------------------------------------------------
Init ==
  /\ rows = [u \in Uuid |-> NoRow]
  /\ walk = [pc |-> "idle", sort |-> "id", dir |-> "asc", show |-> FALSE,
             limit |-> 0, marker |-> None, after |-> None]
  /\ seen = {} /\ repeated = {} /\ stable = {}
  /\ lost = FALSE

Others == \E u \in Uuid : Insert(u) \/ Update(u) \/ SoftDelete(u)

Step == ListTasks \/ Follow \/ MarkerGone

Next == Others \/ Ask \/ AskRefused \/ Step

Spec == Init /\ [][Next]_vars

\* The client follows the link it got; a handler that has started runs on.
FairSpec == Spec /\ WF_vars(Step)

----------------------------------------------------------------------------
(* Properties.                                                             *)

\* The values of the variables: an accepted limit is a number.
ListingTypeOK ==
  /\ rows \in [Uuid -> Row \cup {NoRow}]
  /\ walk \in Walk
  /\ seen \subseteq Uuid /\ repeated \subseteq seen /\ stable \subseteq Uuid
  /\ lost \in BOOLEAN

\* A walk that comes to its end has listed every task that was there all the
\* time and kept its place, whatever was inserted, moved or deleted around it -
\* other than the marker moving between two pages, which a sort by id excludes.
VisitsAll == walk.pc = "done" /\ ~lost => stable \subseteq seen

\* Nor has it listed any such task twice.
NoRepeats == ~lost => stable \cap repeated = {}

\* There is always one page to answer with, and one marker for its next link,
\* however many rows agree in the column and whatever happens to them meanwhile:
\* the id breaks every tie, so the database has no choice.
OnePage ==
  walk.pc = "query" =>
    \E page \in SUBSET Candidates :
      /\ IsPage(page)
      /\ \A other \in SUBSET Candidates : IsPage(other) => other = page
      /\ page # {} => \E u \in page : \A v \in page : IsLast(v, page) <=> v = u

\* How many ids there can be after the row a walk by id has got to.
IdsAhead ==
  IF walk.after = None THEN MaxId
  ELSE IF walk.dir = "asc" THEN MaxId - walk.after.id ELSE walk.after.id - 1

\* Each page of a walk by id leaves fewer ids ahead of it, or is the last: no
\* row that is inserted or deleted meanwhile takes the walk back.
WalkAdvances ==
  \A n \in 0..MaxId :
    walk.pc = "query" /\ walk.sort = "id" /\ IdsAhead = n
    ~> walk.pc \in {"done", "404"} \/ (walk.pc = "query" /\ IdsAhead < n)

\* A walk by id comes to an end, listed or refused: each page begins after the
\* last one ended.
WalkEnds ==
  walk.pc \in {"query", "follow"} /\ walk.sort = "id"
  ~> walk.pc \in {"done", "404"}

----------------------------------------------------------------------------
(* What makes the invariants inductive: at every point the tasks seen are  *)
(* those up to where the walk stands.                                      *)

UniqueIds ==
  \A u, v \in Uuid : Exists(u) /\ Exists(v) /\ rows[u].id = rows[v].id => u = v

StableVisible == \A u \in stable : Visible(u)

AtIdle == walk.pc = "idle" => stable = {} /\ seen = {} /\ walk.after = None

AtQuery ==
  walk.pc = "query" =>
    /\ walk.after = None => seen = {}
    /\ ~lost => \A u \in stable :
                  u \in seen <=> /\ walk.after # None
                                 /\ ~Precedes(walk.after, PositionOf(u))

AtFollow ==
  walk.pc = "follow" =>
    /\ walk.marker \in Uuid /\ Exists(walk.marker)
    /\ ~lost => \A u \in stable :
                  u \in seen <=> ~Precedes(PositionOf(walk.marker), PositionOf(u))

LimitPositive ==
  MaxLimit > 0 /\ walk.pc \in {"query", "follow"} => walk.limit > 0

ListingInv == /\ ListingTypeOK /\ UniqueIds /\ StableVisible /\ AtIdle /\ AtQuery
              /\ AtFollow /\ LimitPositive /\ NoRepeats
              /\ MaxLimit > 0 => VisitsAll
==============================================================================
