---------------------------- MODULE ListingProofs ----------------------------
(* Proofs about Listing, for any tasks, columns, limits and interleavings.   *)
EXTENDS Listing, FiniteSetTheorems, TLAPS

----------------------------------------------------------------------------
(* Positions are ordered, strictly and totally.                            *)

LEMMA OrderOfPositions ==
  ASSUME NEW p \in Position, NEW q \in Position, NEW r \in Position
  PROVE  /\ ~Precedes(p, p)
         /\ Precedes(p, q) /\ Precedes(q, r) => Precedes(p, r)
         /\ p # q => Precedes(p, q) \/ Precedes(q, p)
  <1>1. CASE walk.dir = "asc"
    BY <1>1 DEF Precedes, Position
  <1>2. CASE walk.dir # "asc"
    BY <1>2 DEF Precedes, Position
  <1> QED BY <1>1, <1>2

\* A row of the table has a position.
LEMMA PositionType ==
  ASSUME ListingTypeOK, NEW u \in Uuid, Exists(u)
  PROVE  PositionOf(u) \in Position
  <1>1. rows[u] \in Row
    BY DEF ListingTypeOK, Exists
  <1>2. rows[u].key \in Int /\ rows[u].id \in Int
    <2>1. rows[u].key \in Key /\ rows[u].id \in 1..MaxId
      BY <1>1 DEF Row
    <2>2. Key \subseteq Int /\ MaxId \in Nat
      BY ListingAssumption DEF ListingAssumption
    <2>3. rows[u].key \in Int
      BY <2>1, <2>2
    <2>4. 1..MaxId \subseteq Int
      BY <2>2
    <2> QED BY <2>1, <2>3, <2>4
  <1>3. (IF walk.sort = "id" THEN 0 ELSE rows[u].key) \in Int
    BY <1>2
  <1> QED BY <1>2, <1>3 DEF PositionOf, Position

\* No two rows stand at the same place, whatever column sorts them.
LEMMA PositionsDiffer ==
  ASSUME UniqueIds, NEW u \in Uuid, NEW v \in Uuid, Exists(u), Exists(v), u # v
  PROVE  PositionOf(u) # PositionOf(v)
  BY DEF UniqueIds, PositionOf

\* What stays the same as long as the walk's order and the row's place do.
LEMMA SameOrder ==
  ASSUME walk'.dir = walk.dir
  PROVE  \A p, q : Precedes(p, q)' <=> Precedes(p, q)
  BY DEF Precedes

LEMMA SamePlace ==
  ASSUME walk'.sort = walk.sort, NEW u, rows'[u].id = rows[u].id,
         walk.sort # "id" => rows'[u].key = rows[u].key
  PROVE  PositionOf(u)' = PositionOf(u)
  BY DEF PositionOf

\* validate_limit answers a number, and a positive one if there is a maximum.
LEMMA ValidLimitType ==
  ASSUME NEW limit \in Limits \cup Nat, limit \in Limits => ~Refused(limit)
  PROVE  /\ ValidLimit(limit) \in Nat
         /\ MaxLimit > 0 /\ (limit = None \/ limit > 0) => ValidLimit(limit) > 0
  BY ListingAssumption DEF ListingAssumption, ValidLimit, Refused

----------------------------------------------------------------------------
(* The steps of the other requests.                                        *)

\* What another request's step leaves alone: the tasks that are still stable
\* stand where they stood, and so does the marker unless the walk has lost it.
Elsewhere ==
  /\ UNCHANGED <<walk, seen, repeated>>
  /\ rows' \in [Uuid -> Row \cup {NoRow}]
  /\ lost' \in BOOLEAN /\ (lost => lost')
  /\ stable' \subseteq stable
  /\ UniqueIds' /\ StableVisible'
  /\ \A u \in stable' : PositionOf(u)' = PositionOf(u)
  /\ \A u \in Uuid : Exists(u) => Exists(u)'
  /\ walk.pc = "follow" /\ ~lost' => PositionOf(walk.marker)' = PositionOf(walk.marker)

LEMMA InsertElsewhere ==
  ASSUME ListingInv, NEW u \in Uuid, Insert(u)
  PROVE  Elsewhere
  <1>1. PICK id \in 1..MaxId, k \in Key :
          /\ \A v \in Uuid : Exists(v) => rows[v].id # id
          /\ rows' = [rows EXCEPT ![u] = [id |-> id, key |-> k, deleted |-> FALSE]]
    BY DEF Insert
  <1>2. /\ UNCHANGED <<walk, seen, repeated, stable, lost>>
        /\ ~Exists(u)
    BY DEF Insert
  <1>3. /\ rows \in [Uuid -> Row \cup {NoRow}]
        /\ lost \in BOOLEAN /\ stable \subseteq Uuid
    BY DEF ListingInv, ListingTypeOK
  <1>4. \A v \in Uuid : v # u => rows'[v] = rows[v]
    BY <1>1, <1>3
  <1>5. rows'[u] = [id |-> id, key |-> k, deleted |-> FALSE]
    BY <1>1, <1>3
  <1>6. rows' \in [Uuid -> Row \cup {NoRow}]
    BY <1>1, <1>3 DEF Row
  <1>7. \A v \in Uuid : v # u => (Exists(v)' <=> Exists(v))
    BY <1>4 DEF Exists
  <1>8. rows'[u].id = id /\ \A v \in Uuid : v # u /\ Exists(v) => rows'[v].id # id
    BY <1>1, <1>4, <1>5
  <1>9. UniqueIds'
    <2> SUFFICES ASSUME NEW v \in Uuid, NEW w \in Uuid, v # w, Exists(v)', Exists(w)'
                 PROVE  rows'[v].id # rows'[w].id
      BY DEF UniqueIds
    <2>1. CASE v = u
      BY <2>1, <1>7, <1>8
    <2>2. CASE w = u
      BY <2>2, <1>7, <1>8
    <2>3. CASE v # u /\ w # u
      BY <2>3, <1>4, <1>7 DEF ListingInv, UniqueIds
    <2> QED BY <2>1, <2>2, <2>3
  <1>10. u \notin stable
    BY <1>2 DEF ListingInv, StableVisible, Visible
  <1>11. StableVisible'
    BY <1>2, <1>3, <1>4, <1>10 DEF ListingInv, StableVisible, Visible, Exists
  <1>12. \A v \in stable' : PositionOf(v)' = PositionOf(v)
    BY <1>2, <1>3, <1>4, <1>10, SamePlace
  <1>13. walk.pc = "follow" => PositionOf(walk.marker)' = PositionOf(walk.marker)
    BY <1>2, <1>4 DEF ListingInv, AtFollow, PositionOf
  <1>14. \A v \in Uuid : Exists(v) => Exists(v)'
    BY <1>2, <1>7
  <1> QED BY <1>2, <1>3, <1>6, <1>9, <1>11, <1>12, <1>13, <1>14 DEF Elsewhere

LEMMA UpdateElsewhere ==
  ASSUME ListingInv, NEW u \in Uuid, Update(u)
  PROVE  Elsewhere
  <1>1. PICK k \in Key : rows' = [rows EXCEPT ![u] = [@ EXCEPT !.key = k]]
    BY DEF Update
  <1>2. /\ Exists(u)
        /\ stable' = IF walk.sort = "id" THEN stable ELSE stable \ {u}
        /\ lost' = (lost \/ (walk.sort # "id" /\ walk.pc = "follow" /\ walk.marker = u))
        /\ UNCHANGED <<walk, seen, repeated>>
    BY DEF Update
  <1>3. /\ rows \in [Uuid -> Row \cup {NoRow}]
        /\ lost \in BOOLEAN /\ stable \subseteq Uuid
    BY DEF ListingInv, ListingTypeOK
  <1>4. rows[u] \in Row
    BY <1>2, <1>3 DEF Exists
  <1>5. rows'[u] = [rows[u] EXCEPT !.key = k]
    BY <1>1, <1>3
  <1>6. /\ rows'[u] \in Row
        /\ rows'[u].id = rows[u].id /\ rows'[u].deleted = rows[u].deleted
    BY <1>4, <1>5 DEF Row
  <1>7. \A v \in Uuid : v # u => rows'[v] = rows[v]
    BY <1>1, <1>3
  <1>8. rows' \in [Uuid -> Row \cup {NoRow}]
    BY <1>1, <1>3, <1>5, <1>6
  <1>9. \A v \in Uuid : Exists(v)' <=> Exists(v)
    BY <1>2, <1>6, <1>7, ListingAssumption DEF ListingAssumption, Exists
  <1>10. \A v \in Uuid : rows'[v].id = rows[v].id
    BY <1>6, <1>7
  <1>11. UniqueIds'
    BY <1>9, <1>10 DEF ListingInv, UniqueIds
  <1>12. stable' \subseteq stable
    BY <1>2
  <1>13. \A v \in Uuid : Exists(v) => rows'[v].deleted = rows[v].deleted
    BY <1>6, <1>7
  <1>14. StableVisible'
    BY <1>2, <1>3, <1>9, <1>12, <1>13 DEF ListingInv, StableVisible, Visible
  <1>15. \A v \in Uuid : v # u \/ walk.sort = "id" => PositionOf(v)' = PositionOf(v)
    BY <1>2, <1>7, <1>10, SamePlace
  <1>16. \A v \in stable' : v # u \/ walk.sort = "id"
    BY <1>2
  <1>17. walk.pc = "follow" /\ ~lost' => PositionOf(walk.marker)' = PositionOf(walk.marker)
    <2> SUFFICES ASSUME walk.pc = "follow", ~lost'
                 PROVE  PositionOf(walk.marker)' = PositionOf(walk.marker)
      OBVIOUS
    <2>1. walk.marker # u \/ walk.sort = "id"
      BY <1>2
    <2>2. walk.marker \in Uuid
      BY DEF ListingInv, AtFollow
    <2>3. walk'.marker = walk.marker
      BY <1>2
    <2> QED BY <1>2, <1>7, <1>10, <2>1, <2>2 DEF PositionOf
  <1>18. lost' \in BOOLEAN /\ (lost => lost')
    BY <1>2, <1>3
  <1> QED BY <1>2, <1>3, <1>8, <1>9, <1>11, <1>12, <1>14, <1>15, <1>16, <1>17, <1>18
          DEF Elsewhere

LEMMA SoftDeleteElsewhere ==
  ASSUME ListingInv, NEW u \in Uuid, SoftDelete(u)
  PROVE  Elsewhere
  <1>1. /\ Exists(u)
        /\ rows' = [rows EXCEPT ![u] = [@ EXCEPT !.deleted = TRUE]]
        /\ stable' = IF walk.show THEN stable ELSE stable \ {u}
        /\ UNCHANGED <<walk, seen, repeated, lost>>
    BY DEF SoftDelete
  <1>2. /\ rows \in [Uuid -> Row \cup {NoRow}]
        /\ lost \in BOOLEAN /\ stable \subseteq Uuid
    BY DEF ListingInv, ListingTypeOK
  <1>3. rows[u] \in Row
    BY <1>1, <1>2 DEF Exists
  <1>4. rows'[u] = [rows[u] EXCEPT !.deleted = TRUE]
    BY <1>1, <1>2
  <1>5. /\ rows'[u] \in Row
        /\ rows'[u].id = rows[u].id /\ rows'[u].key = rows[u].key
    BY <1>3, <1>4 DEF Row
  <1>6. \A v \in Uuid : v # u => rows'[v] = rows[v]
    BY <1>1, <1>2
  <1>7. rows' \in [Uuid -> Row \cup {NoRow}]
    BY <1>1, <1>2, <1>4, <1>5
  <1>8. \A v \in Uuid : Exists(v)' <=> Exists(v)
    BY <1>1, <1>5, <1>6, ListingAssumption DEF ListingAssumption, Exists
  <1>9. \A v \in Uuid : rows'[v].id = rows[v].id /\ rows'[v].key = rows[v].key
    BY <1>5, <1>6
  <1>10. UniqueIds'
    BY <1>8, <1>9 DEF ListingInv, UniqueIds
  <1>11. stable' \subseteq stable
    BY <1>1
  <1>12. \A v \in stable' : v # u \/ walk.show
    BY <1>1
  <1>13. StableVisible'
    BY <1>1, <1>2, <1>6, <1>8, <1>11, <1>12 DEF ListingInv, StableVisible, Visible
  <1>14. \A v \in Uuid : PositionOf(v)' = PositionOf(v)
    BY <1>1, <1>9 DEF PositionOf
  <1>15. walk.pc = "follow" => PositionOf(walk.marker)' = PositionOf(walk.marker)
    BY <1>1, <1>9 DEF ListingInv, AtFollow, PositionOf
  <1> QED BY <1>1, <1>2, <1>7, <1>8, <1>10, <1>11, <1>13, <1>14, <1>15 DEF Elsewhere

LEMMA ElsewherePreserves ==
  ASSUME ListingInv, Elsewhere
  PROVE  ListingInv'
  <1>1. /\ UNCHANGED <<walk, seen, repeated>>
        /\ stable' \subseteq stable /\ (lost => lost')
        /\ \A u \in stable' : PositionOf(u)' = PositionOf(u)
    BY DEF Elsewhere
  <1>2. ListingTypeOK'
    BY <1>1 DEF Elsewhere, ListingInv, ListingTypeOK, Walk, Position, Row
  <1>3. AtIdle' /\ LimitPositive' /\ NoRepeats' /\ (MaxLimit > 0 => VisitsAll)'
    BY <1>1 DEF ListingInv, AtIdle, LimitPositive, NoRepeats, VisitsAll
  <1>4. walk'.dir = walk.dir
    BY <1>1
  <1>5. AtQuery'
    BY <1>1, <1>4, SameOrder DEF ListingInv, AtQuery
  <1>6. AtFollow'
    <2> SUFFICES ASSUME walk.pc = "follow"
                 PROVE  AtFollow'
      BY <1>1 DEF AtFollow
    <2>1. walk'.marker \in Uuid /\ Exists(walk.marker)'
      BY <1>1 DEF ListingInv, AtFollow, Elsewhere, Exists
    <2>2. ASSUME ~lost', NEW u \in stable'
          PROVE  u \in seen' <=> ~Precedes(PositionOf(walk.marker), PositionOf(u))'
      <3>1. PositionOf(walk.marker)' = PositionOf(walk.marker)
        BY <2>2 DEF Elsewhere
      <3>2. PositionOf(u)' = PositionOf(u) /\ u \in stable /\ ~lost
        BY <1>1, <2>2
      <3>3. u \in seen <=> ~Precedes(PositionOf(walk.marker), PositionOf(u))
        BY <3>2 DEF ListingInv, AtFollow
      <3> QED BY <1>1, <1>4, <3>1, <3>2, <3>3 DEF Precedes
    <2> QED BY <2>1, <2>2 DEF AtFollow
  <1> QED BY <1>2, <1>3, <1>5, <1>6 DEF Elsewhere, ListingInv

----------------------------------------------------------------------------
(* The steps of the walk.                                                  *)

LEMMA AskPreserves ==
  ASSUME ListingInv, Ask
  PROVE  ListingInv'
  <1>1. PICK sort \in {"id", "status"}, dir \in {"asc", "desc"}, show \in BOOLEAN,
             limit \in {l \in Limits : ~Refused(l)} :
          walk' = [walk EXCEPT !.pc = "query", !.sort = sort, !.dir = dir,
                               !.show = show, !.limit = ValidLimit(limit)]
    BY DEF Ask
  <1>2. /\ walk.pc = "idle"
        /\ stable' = {u \in Uuid : Exists(u) /\ (walk'.show \/ ~rows[u].deleted)}
        /\ UNCHANGED <<rows, seen, repeated, lost>>
    BY DEF Ask
  <1>3. walk \in Walk
    BY DEF ListingInv, ListingTypeOK
  <1>4. limit \in Int \cup {None} /\ (limit = None \/ limit > 0)
    BY ListingAssumption DEF ListingAssumption, Refused
  <1>5. ValidLimit(limit) \in Nat /\ (MaxLimit > 0 => ValidLimit(limit) > 0)
    BY <1>4, ValidLimitType
  <1>6. /\ walk' \in Walk
        /\ walk'.pc = "query" /\ walk'.after = walk.after
        /\ walk'.limit = ValidLimit(limit)
    BY <1>1, <1>3, <1>5 DEF Walk
  <1>7. seen = {} /\ repeated = {} /\ walk.after = None
    BY <1>2 DEF ListingInv, ListingTypeOK, AtIdle
  <1>8. ListingTypeOK'
    BY <1>2, <1>6 DEF ListingInv, ListingTypeOK, Row
  <1>9. UniqueIds'
    BY <1>2 DEF ListingInv, UniqueIds, Exists
  <1>10. StableVisible'
    BY <1>2 DEF StableVisible, Visible, Exists
  <1>11. AtIdle' /\ AtFollow' /\ LimitPositive' /\ NoRepeats' /\ (MaxLimit > 0 => VisitsAll)'
    BY <1>2, <1>5, <1>6, <1>7 DEF AtIdle, AtFollow, LimitPositive, NoRepeats, VisitsAll
  <1>12. AtQuery'
    BY <1>2, <1>6, <1>7 DEF AtQuery
  <1> QED BY <1>8, <1>9, <1>10, <1>11, <1>12 DEF ListingInv

\* A step that only ends the walk.
LEMMA EndingPreserves ==
  ASSUME ListingInv, NEW pc \in {"400", "404"}, walk' = [walk EXCEPT !.pc = pc],
         UNCHANGED <<rows, seen, repeated, stable, lost>>
  PROVE  ListingInv'
  <1>1. walk \in Walk
    BY DEF ListingInv, ListingTypeOK
  <1>2. /\ walk' \in Walk /\ walk'.pc = pc
        /\ walk'.show = walk.show
    BY <1>1 DEF Walk
  <1>3. ListingTypeOK'
    BY <1>2 DEF ListingInv, ListingTypeOK, Row
  <1>4. UniqueIds' /\ StableVisible'
    BY <1>2 DEF ListingInv, UniqueIds, StableVisible, Visible, Exists
  <1>5. AtIdle' /\ AtQuery' /\ AtFollow' /\ LimitPositive' /\ NoRepeats'
        /\ (MaxLimit > 0 => VisitsAll)'
    BY <1>2 DEF ListingInv, AtIdle, AtQuery, AtFollow, LimitPositive, NoRepeats, VisitsAll
  <1> QED BY <1>3, <1>4, <1>5 DEF ListingInv

\* The page begins where the last one ended: none of the stable tasks seen so
\* far is among the rows that the query selects.
LEMMA CandidatesNew ==
  ASSUME ListingInv, walk.pc = "query", ~lost, NEW u \in stable
  PROVE  u \in seen <=> u \notin Candidates
  <1>1. u \in Uuid /\ Visible(u)
    BY DEF ListingInv, ListingTypeOK, StableVisible
  <1>2. u \in seen <=> walk.after # None /\ ~Precedes(walk.after, PositionOf(u))
    BY DEF ListingInv, AtQuery
  <1> QED BY <1>1, <1>2 DEF Candidates

\* The tasks that are seen after a page are those up to the page's last one.
LEMMA SeenUpToLast ==
  ASSUME ListingInv, walk.pc = "query", ~lost, NEW page, IsPage(page),
         NEW m \in page, IsLast(m, page), NEW w \in stable
  PROVE  w \in seen \cup page <=> ~Precedes(PositionOf(m), PositionOf(w))
  <1>1. page \subseteq Candidates
    BY DEF IsPage
  <1>2. /\ m \in Uuid /\ Visible(m)
        /\ walk.after # None => Precedes(walk.after, PositionOf(m))
    BY <1>1 DEF Candidates
  <1>3. w \in Uuid /\ Visible(w)
    BY DEF ListingInv, ListingTypeOK, StableVisible
  <1>4. /\ PositionOf(m) \in Position /\ PositionOf(w) \in Position
        /\ walk.after \in Position \cup {None}
    BY <1>2, <1>3, PositionType DEF ListingInv, ListingTypeOK, Walk, Visible
  <1>5. CASE w \in page
    <2>1. CASE w = m
      BY <1>4, <1>5, <2>1, OrderOfPositions
    <2>2. CASE w # m
      BY <1>5, <2>2 DEF IsLast
    <2> QED BY <2>1, <2>2
  <1>6. CASE w \in seen
    <2>1. w \notin Candidates
      BY <1>6, CandidatesNew
    <2>2. walk.after # None /\ ~Precedes(walk.after, PositionOf(w))
      BY <1>3, <2>1 DEF Candidates
    <2>3. Precedes(walk.after, PositionOf(m)) /\ walk.after \in Position
      BY <1>2, <1>4, <2>2
    <2>4. ~Precedes(PositionOf(m), PositionOf(w))
      BY <1>4, <2>2, <2>3, OrderOfPositions
    <2> QED BY <1>6, <2>4
  <1>7. CASE w \notin seen \cup page
    <2>1. w \in Candidates \ page
      BY <1>7, CandidatesNew
    <2>2. ~Precedes(PositionOf(w), PositionOf(m))
      BY <2>1 DEF IsPage
    <2>3. PositionOf(w) # PositionOf(m)
      BY <1>2, <1>3, <1>7, PositionsDiffer DEF ListingInv, Visible
    <2>4. Precedes(PositionOf(m), PositionOf(w))
      BY <1>4, <2>2, <2>3, OrderOfPositions
    <2> QED BY <1>7, <2>4
  <1> QED BY <1>5, <1>6, <1>7

LEMMA ListTasksPreserves ==
  ASSUME ListingInv, ListTasks
  PROVE  ListingInv'
  <1>1. PICK page \in SUBSET Candidates :
          /\ IsPage(page)
          /\ seen' = seen \cup page
          /\ repeated' = repeated \cup (page \cap seen)
          /\ \/ /\ ~HasNext(page)
                /\ walk' = [walk EXCEPT !.pc = "done"]
             \/ /\ HasNext(page)
                /\ \E u \in page : /\ IsLast(u, page)
                                   /\ walk' = [walk EXCEPT !.pc = "follow",
                                                           !.marker = u]
    BY DEF ListTasks
  <1>2. walk.pc = "query" /\ UNCHANGED <<rows, stable, lost>>
    BY DEF ListTasks
  <1>3. page \subseteq Uuid /\ \A u \in page : Exists(u)
    BY DEF Candidates, Visible
  <1>4. ListingTypeOK
    BY DEF ListingInv
  <1>5. seen' \subseteq Uuid /\ repeated' \subseteq seen'
    BY <1>1, <1>3, <1>4 DEF ListingTypeOK
  <1>6. NoRepeats'
    <2> SUFFICES ASSUME ~lost, NEW u \in stable, u \in repeated'
                 PROVE  FALSE
      BY <1>2 DEF NoRepeats
    <2>1. u \notin repeated
      BY DEF ListingInv, NoRepeats
    <2>2. u \in page /\ u \in seen
      BY <1>1, <2>1
    <2> QED BY <1>2, <2>2, CandidatesNew
  <1>7. CASE ~HasNext(page) /\ walk' = [walk EXCEPT !.pc = "done"]
    <2>1. walk' \in Walk /\ walk'.pc = "done" /\ walk'.show = walk.show
      BY <1>4, <1>7 DEF ListingTypeOK, Walk
    <2>2. ListingTypeOK'
      BY <1>2, <1>4, <1>5, <2>1 DEF ListingTypeOK, Row
    <2>3. UniqueIds' /\ StableVisible'
      BY <1>2, <2>1 DEF ListingInv, UniqueIds, StableVisible, Visible, Exists
    <2>4. AtIdle' /\ AtQuery' /\ AtFollow' /\ LimitPositive'
      BY <2>1 DEF AtIdle, AtQuery, AtFollow, LimitPositive
    <2>5. ASSUME MaxLimit > 0, ~lost, NEW u \in stable
          PROVE  u \in seen'
      <3>1. walk.limit > 0
        BY <1>2, <2>5 DEF ListingInv, LimitPositive
      <3>2. Cardinality(page) # walk.limit
        BY <1>7, <3>1, FS_EmptySet DEF HasNext
      <3>3. page = Candidates
        BY <1>1, <3>2 DEF IsPage
      <3> QED BY <1>1, <1>2, <2>5, <3>3, CandidatesNew
    <2>6. (MaxLimit > 0 => VisitsAll)'
      BY <1>2, <2>5 DEF VisitsAll
    <2> QED BY <1>6, <2>2, <2>3, <2>4, <2>6 DEF ListingInv
  <1>8. ASSUME NEW m \in page, IsLast(m, page),
               walk' = [walk EXCEPT !.pc = "follow", !.marker = m]
        PROVE  ListingInv'
    <2>1. m \in Uuid /\ Exists(m)
      BY <1>3
    <2>2. /\ walk' \in Walk
          /\ walk'.pc = "follow" /\ walk'.marker = m /\ walk'.limit = walk.limit
          /\ walk'.show = walk.show /\ walk'.sort = walk.sort /\ walk'.dir = walk.dir
      BY <1>4, <1>8, <2>1 DEF ListingTypeOK, Walk
    <2>3. ListingTypeOK'
      BY <1>2, <1>4, <1>5, <2>2 DEF ListingTypeOK, Row
    <2>4. UniqueIds' /\ StableVisible'
      BY <1>2, <2>2 DEF ListingInv, UniqueIds, StableVisible, Visible, Exists
    <2>5. AtIdle' /\ AtQuery' /\ LimitPositive' /\ (MaxLimit > 0 => VisitsAll)'
      BY <1>2, <2>2 DEF ListingInv, AtIdle, AtQuery, LimitPositive, VisitsAll
    <2>6. walk'.marker \in Uuid /\ Exists(walk.marker)'
      BY <1>2, <2>1, <2>2 DEF Exists
    <2>7. ASSUME ~lost, NEW u \in stable
          PROVE  u \in seen' <=> ~Precedes(PositionOf(walk.marker), PositionOf(u))'
      <3>1. u \in seen' <=> ~Precedes(PositionOf(m), PositionOf(u))
        BY <1>1, <1>2, <1>8, <2>7, SeenUpToLast
      <3>2. /\ PositionOf(walk.marker)' = PositionOf(m)
            /\ PositionOf(u)' = PositionOf(u)
        BY <1>2, <2>2 DEF PositionOf
      <3> QED BY <2>2, <3>1, <3>2 DEF Precedes
    <2>8. AtFollow'
      BY <1>2, <2>6, <2>7 DEF AtFollow
    <2> QED BY <1>6, <2>3, <2>4, <2>5, <2>8 DEF ListingInv
  <1> QED BY <1>1, <1>7, <1>8

LEMMA FollowPreserves ==
  ASSUME ListingInv, Follow
  PROVE  ListingInv'
  <1>1. /\ walk.pc = "follow"
        /\ walk' = [walk EXCEPT !.pc = "query", !.after = PositionOf(walk.marker),
                                !.limit = ValidLimit(walk.limit)]
        /\ UNCHANGED <<rows, seen, repeated, stable, lost>>
    BY DEF Follow
  <1>2. ListingTypeOK /\ walk \in Walk /\ walk.limit \in Nat
    BY DEF ListingInv, ListingTypeOK, Walk
  <1>3. PositionOf(walk.marker) \in Position
    BY <1>1, <1>2, PositionType DEF ListingInv, AtFollow
  <1>4. walk.limit \in Limits => walk.limit # None
    BY <1>2, ListingAssumption DEF ListingAssumption
  <1>5. ValidLimit(walk.limit) \in Nat /\ (MaxLimit > 0 => ValidLimit(walk.limit) > 0)
    BY <1>1, <1>2, <1>4, ListingAssumption
       DEF ListingAssumption, ValidLimit, ListingInv, LimitPositive
  <1>6. /\ walk' \in Walk
        /\ walk'.pc = "query" /\ walk'.after = PositionOf(walk.marker)
        /\ walk'.limit = ValidLimit(walk.limit)
        /\ walk'.show = walk.show /\ walk'.sort = walk.sort /\ walk'.dir = walk.dir
    BY <1>1, <1>2, <1>3, <1>5 DEF Walk
  <1>7. ListingTypeOK'
    BY <1>1, <1>2, <1>6 DEF ListingTypeOK, Row
  <1>8. UniqueIds' /\ StableVisible'
    BY <1>1, <1>6 DEF ListingInv, UniqueIds, StableVisible, Visible, Exists
  <1>9. AtIdle' /\ AtFollow' /\ LimitPositive' /\ NoRepeats' /\ (MaxLimit > 0 => VisitsAll)'
    BY <1>1, <1>5, <1>6
       DEF ListingInv, AtIdle, AtFollow, LimitPositive, NoRepeats, VisitsAll
  <1>10. walk'.after # None
    BY <1>3, <1>6, ListingAssumption DEF ListingAssumption
  <1>11. ASSUME ~lost, NEW u \in stable
         PROVE  u \in seen' <=> ~Precedes(walk.after, PositionOf(u))'
    <2>1. u \in seen <=> ~Precedes(PositionOf(walk.marker), PositionOf(u))
      BY <1>1, <1>11 DEF ListingInv, AtFollow
    <2>2. PositionOf(u)' = PositionOf(u)
      BY <1>1, <1>6 DEF PositionOf
    <2> QED BY <1>1, <1>6, <2>1, <2>2 DEF Precedes
  <1>12. AtQuery'
    BY <1>1, <1>10, <1>11 DEF AtQuery
  <1> QED BY <1>7, <1>8, <1>9, <1>12 DEF ListingInv

----------------------------------------------------------------------------
(* The invariant, and what follows from it.                                *)

LEMMA ListingInvInit ==
  ASSUME Init
  PROVE  ListingInv
  <1>1. ListingTypeOK
    BY DEF Init, ListingTypeOK, Walk
  <1>2. UniqueIds /\ StableVisible
    BY DEF Init, UniqueIds, StableVisible, Exists
  <1>3. AtIdle /\ AtQuery /\ AtFollow /\ LimitPositive /\ NoRepeats /\ VisitsAll
    BY DEF Init, AtIdle, AtQuery, AtFollow, LimitPositive, NoRepeats, VisitsAll
  <1> QED BY <1>1, <1>2, <1>3 DEF ListingInv

LEMMA ListingInvStep ==
  ASSUME ListingInv, [Next]_vars
  PROVE  ListingInv'
  <1>1. CASE Others
    BY <1>1, InsertElsewhere, UpdateElsewhere, SoftDeleteElsewhere, ElsewherePreserves
       DEF Others
  <1>2. CASE Ask
    BY <1>2, AskPreserves
  <1>3. CASE AskRefused
    BY <1>3, EndingPreserves DEF AskRefused
  <1>4. CASE ListTasks
    BY <1>4, ListTasksPreserves
  <1>5. CASE Follow
    BY <1>5, FollowPreserves
  <1>6. CASE MarkerGone
    BY <1>6, EndingPreserves DEF MarkerGone
  <1>7. CASE UNCHANGED vars
    BY <1>7 DEF vars, ListingInv, ListingTypeOK, Row, Walk, UniqueIds, StableVisible,
       AtIdle, AtQuery, AtFollow, LimitPositive, NoRepeats, VisitsAll, Visible, Exists,
       Precedes, PositionOf
  <1> QED BY <1>1, <1>2, <1>3, <1>4, <1>5, <1>6, <1>7 DEF Next, Step

\* At every moment of every walk the tasks seen are those up to where it stands.
THEOREM ListingInvariant == Spec => []ListingInv
  <1>1. Init => ListingInv
    BY ListingInvInit
  <1>2. ListingInv /\ [Next]_vars => ListingInv'
    BY ListingInvStep
  <1> QED BY <1>1, <1>2, PTL DEF Spec

\* The variables keep their types; in particular every limit that reaches the
\* query is a number (validate_limit).
THEOREM ListingTypeCorrect == Spec => []ListingTypeOK
  <1>1. ListingInv => ListingTypeOK
    BY DEF ListingInv
  <1> QED BY <1>1, ListingInvariant, PTL

\* No task that stays where it is is listed twice (_paginate_query, get_next).
THEOREM ListingNoRepeats == Spec => []NoRepeats
  <1>1. ListingInv => NoRepeats
    BY DEF ListingInv
  <1> QED BY <1>1, ListingInvariant, PTL

\* With an upper limit configured, a walk that ends has listed every task that
\* was there all the time (has_next, _paginate_query).
THEOREM ListingVisitsAll ==
  ASSUME MaxLimit > 0
  PROVE  Spec => []VisitsAll
  <1>1. ListingInv => VisitsAll
    BY DEF ListingInv
  <1> QED BY <1>1, ListingInvariant, PTL

----------------------------------------------------------------------------
(* Every query has one page.                                               *)

\* A finite set in a total order has a first element: of the sets without one
\* there is a smallest, and what comes before any element of that is smaller.
LEMMA FirstOfFinite ==
  ASSUME NEW C, IsFiniteSet(C), NEW R,
         \A x, y, z \in C : <<x, y>> \in R /\ <<y, z>> \in R => <<x, z>> \in R,
         \A x, y \in C : x # y => <<x, y>> \in R \/ <<y, x>> \in R,
         NEW S \in SUBSET C, S # {}
  PROVE  \E x \in S : \A y \in S \ {x} : <<x, y>> \in R
  <1> DEFINE HasFirst(U) == \E x \in U : \A y \in U \ {x} : <<x, y>> \in R
             Bad == {U \in SUBSET C : U # {} /\ ~HasFirst(U)}
             Smaller == StrictSubsetOrdering(C)
  <1>1. IsWellFoundedOn(Smaller, SUBSET C)
    BY FS_StrictSubsetOrderingWellFounded, FS_FiniteSubsetsOfFinite
  <1>2. SUFFICES ASSUME Bad # {} PROVE FALSE
    OBVIOUS
  <1>3. PICK U \in Bad : \A V \in Bad : <<V, U>> \notin Smaller
    <2>1. Bad \subseteq SUBSET C
      OBVIOUS
    <2> HIDE DEF Bad, Smaller
    <2> QED BY <1>1, <1>2, <2>1, WFMin
  <1>4. PICK x \in U : TRUE
    OBVIOUS
  <1> DEFINE V == {y \in U : y # x /\ <<x, y>> \notin R}
  <1>5. V \in SUBSET C /\ V # U /\ V \subseteq U
    BY <1>4
  <1>6. <<V, U>> \in Smaller
    BY <1>5 DEF StrictSubsetOrdering
  <1>7. V \notin Bad
    BY <1>3, <1>6
  <1>8. V # {}
    <2>1. ASSUME V = {} PROVE HasFirst(U)
      BY <1>4, <2>1
    <2> QED BY <2>1
  <1>9. PICK z \in V : \A y \in V \ {z} : <<z, y>> \in R
    BY <1>5, <1>7, <1>8
  <1>10. <<z, x>> \in R
    BY <1>4, <1>9
  <1>11. \A y \in U \ {z} : <<z, y>> \in R
    <2> SUFFICES ASSUME NEW y \in U \ {z} PROVE <<z, y>> \in R
      OBVIOUS
    <2>1. CASE y \in V
      BY <2>1, <1>9
    <2>2. CASE y = x
      BY <2>2, <1>10
    <2>3. CASE <<x, y>> \in R
      BY <2>3, <1>4, <1>9, <1>10
    <2> QED BY <2>1, <2>2, <2>3
  <1> QED BY <1>9, <1>11

\* The candidates have ids, so there are finitely many of them.
LEMMA CandidatesFinite ==
  ASSUME ListingInv
  PROVE  IsFiniteSet(Candidates)
  <1> DEFINE f == [u \in Candidates |-> rows[u].id]
  <1>1. \A u \in Candidates : u \in Uuid /\ Exists(u)
    BY DEF Candidates, Visible
  <1>2. \A u \in Candidates : rows[u].id \in 1..MaxId
    BY <1>1 DEF ListingInv, ListingTypeOK, Exists, Row
  <1>3. f \in Injection(Candidates, 1..MaxId)
    <2>1. f \in [Candidates -> 1..MaxId]
      BY <1>2
    <2>2. \A u, v \in Candidates : f[u] = f[v] => u = v
      BY <1>1 DEF ListingInv, UniqueIds
    <2> QED BY <2>1, <2>2 DEF Injection, IsInjective
  <1>4. IsFiniteSet(1..MaxId)
    BY ListingAssumption, FS_Interval DEF ListingAssumption
  <1> QED
    <2> HIDE DEF f
    <2> QED BY <1>3, <1>4, FS_Injection

\* Two different candidates stand one before the other.
Before == {c \in Candidates \X Candidates : Precedes(PositionOf(c[1]), PositionOf(c[2]))}

LEMMA BeforeIsTotal ==
  ASSUME ListingInv
  PROVE  /\ \A u, v \in Candidates : <<u, v>> \in Before <=> Precedes(PositionOf(u), PositionOf(v))
         /\ \A u \in Candidates : <<u, u>> \notin Before
         /\ \A u, v, w \in Candidates :
              <<u, v>> \in Before /\ <<v, w>> \in Before => <<u, w>> \in Before
         /\ \A u, v \in Candidates : u # v => <<u, v>> \in Before \/ <<v, u>> \in Before
  <1>1. \A u, v \in Candidates : <<u, v>> \in Before <=> Precedes(PositionOf(u), PositionOf(v))
    BY DEF Before
  <1>2. \A u \in Candidates : u \in Uuid /\ Exists(u) /\ PositionOf(u) \in Position
    BY PositionType DEF Candidates, Visible, ListingInv
  <1>3. \A u, v \in Candidates : u # v => PositionOf(u) # PositionOf(v)
    BY <1>2, PositionsDiffer DEF ListingInv
  <1>4. \A u \in Candidates : <<u, u>> \notin Before
    BY <1>1, <1>2, OrderOfPositions
  <1>5. \A u, v, w \in Candidates :
          <<u, v>> \in Before /\ <<v, w>> \in Before => <<u, w>> \in Before
    BY <1>1, <1>2, OrderOfPositions
  <1>6. \A u, v \in Candidates : u # v => <<u, v>> \in Before \/ <<v, u>> \in Before
    BY <1>1, <1>2, <1>3, OrderOfPositions
  <1> QED BY <1>1, <1>4, <1>5, <1>6

\* The first of the candidates, as many as the limit says or all of them: of the
\* sets that begin the order and keep within the limit a largest one is a page.
LEMMA PageExists ==
  ASSUME ListingInv
  PROVE  \E page \in SUBSET Candidates : IsPage(page)
  <1> DEFINE C == Candidates
             Begins(P) == \A u \in P, v \in C \ P : <<v, u>> \notin Before
             Short(P) == P \in SUBSET C /\ Begins(P) /\ Cardinality(P) <= walk.limit
             Rests == {C \ P : P \in {Q \in SUBSET C : Short(Q)}}
             Smaller == StrictSubsetOrdering(C)
  <1>1. IsFiniteSet(C)
    BY CandidatesFinite
  <1>2. walk.limit \in Nat
    BY DEF ListingInv, ListingTypeOK, Walk
  <1>3. IsWellFoundedOn(Smaller, SUBSET C)
    BY <1>1, FS_StrictSubsetOrderingWellFounded, FS_FiniteSubsetsOfFinite
  <1>4. Short({})
    BY <1>2, FS_EmptySet
  <1>5. Rests # {} /\ Rests \subseteq SUBSET C
    BY <1>4
  <1>6. PICK R \in Rests : \A S \in Rests : <<S, R>> \notin Smaller
    <2> HIDE DEF Rests, Smaller
    <2> QED BY <1>3, <1>5, WFMin
  <1>7. PICK P \in SUBSET C : Short(P) /\ R = C \ P
    OBVIOUS
  <1>8. IsFiniteSet(P) /\ Cardinality(P) \in Nat
    BY <1>1, FS_Subset, FS_CardinalityType
  <1>9. ASSUME Cardinality(P) # walk.limit, P # C PROVE FALSE
    <2>1. C \ P \in SUBSET C /\ C \ P # {}
      BY <1>7, <1>9
    <2>2. PICK x \in C \ P : \A y \in (C \ P) \ {x} : <<x, y>> \in Before
      <3>1. \A u, v, w \in C : <<u, v>> \in Before /\ <<v, w>> \in Before => <<u, w>> \in Before
        BY BeforeIsTotal
      <3>2. \A u, v \in C : u # v => <<u, v>> \in Before \/ <<v, u>> \in Before
        BY BeforeIsTotal
      <3> DEFINE S == C \ P
      <3>3. S \in SUBSET C /\ S # {}
        BY <2>1
      <3> HIDE DEF C, S
      <3>4. \E x \in S : \A y \in S \ {x} : <<x, y>> \in Before
        BY <1>1, <3>1, <3>2, <3>3, FirstOfFinite
      <3> QED BY <3>4 DEF S
    <2> DEFINE Q == P \cup {x}
    <2>3. Cardinality(Q) <= walk.limit
      <3>1. Cardinality(Q) = Cardinality(P) + 1
        BY <1>8, <2>2, FS_AddElement
      <3> QED BY <1>2, <1>7, <1>8, <1>9, <3>1
    <2>4. Begins(Q)
      <3> SUFFICES ASSUME NEW u \in Q, NEW v \in C \ Q PROVE <<v, u>> \notin Before
        OBVIOUS
      <3>1. CASE u \in P
        BY <3>1, <1>7
      <3>2. CASE u = x
        <4>1. <<x, v>> \in Before
          BY <2>2
        <4> QED BY <3>2, <4>1, <2>2, BeforeIsTotal
      <3> QED BY <3>1, <3>2
    <2>5. C \ Q \in Rests
      BY <1>7, <2>2, <2>3, <2>4
    <2>6. <<C \ Q, R>> \in Smaller
      BY <1>7, <2>2 DEF StrictSubsetOrdering
    <2> QED BY <1>6, <2>5, <2>6
  <1>10. IsPage(P)
    <2>1. \A u \in P, v \in C \ P : ~Precedes(PositionOf(v), PositionOf(u))
      BY <1>7, BeforeIsTotal
    <2> QED BY <1>7, <1>9, <2>1 DEF IsPage
  <1> QED BY <1>7, <1>10

\* Two pages begin the same order, so one is within the other; and they are as long.
LEMMA PageUnique ==
  ASSUME ListingInv, NEW P \in SUBSET Candidates, NEW Q \in SUBSET Candidates,
         IsPage(P), IsPage(Q)
  PROVE  P = Q
  <1>1. \A u \in P, v \in Candidates \ P : <<v, u>> \notin Before
    BY BeforeIsTotal DEF IsPage
  <1>2. \A u \in Q, v \in Candidates \ Q : <<v, u>> \notin Before
    BY BeforeIsTotal DEF IsPage
  <1>3. P \subseteq Q \/ Q \subseteq P
    <2> SUFFICES ASSUME NEW u \in P \ Q, NEW v \in Q \ P PROVE FALSE
      OBVIOUS
    <2>1. <<v, u>> \notin Before /\ <<u, v>> \notin Before
      BY <1>1, <1>2
    <2> QED BY <2>1, BeforeIsTotal
  <1>4. /\ IsFiniteSet(P) /\ IsFiniteSet(Q)
        /\ Cardinality(P) \in Nat /\ Cardinality(Q) \in Nat
    BY CandidatesFinite, FS_Subset, FS_CardinalityType
  <1>5. Cardinality(P) = walk.limit \/ P = Candidates
    BY DEF IsPage
  <1>6. Cardinality(Q) = walk.limit \/ Q = Candidates
    BY DEF IsPage
  <1>7. Cardinality(P) <= walk.limit /\ Cardinality(Q) <= walk.limit /\ walk.limit \in Nat
    BY DEF IsPage, ListingInv, ListingTypeOK, Walk
  <1>8. CASE P \subseteq Q
    <2>1. Cardinality(P) <= Cardinality(Q) /\ (Cardinality(P) = Cardinality(Q) => P = Q)
      BY <1>4, <1>8, FS_Subset
    <2>2. CASE Cardinality(P) = walk.limit
      BY <1>4, <1>7, <2>1, <2>2
    <2>3. CASE P = Candidates
      BY <1>8, <2>3
    <2> QED BY <1>5, <2>2, <2>3
  <1>9. CASE Q \subseteq P
    <2>1. Cardinality(Q) <= Cardinality(P) /\ (Cardinality(P) = Cardinality(Q) => P = Q)
      BY <1>4, <1>9, FS_Subset
    <2>2. CASE Cardinality(Q) = walk.limit
      BY <1>4, <1>7, <2>1, <2>2
    <2>3. CASE Q = Candidates
      BY <1>9, <2>3
    <2> QED BY <1>6, <2>2, <2>3
  <1> QED BY <1>3, <1>8, <1>9

\* A page that is not empty has one last task: the first one, backwards.
LEMMA LastUnique ==
  ASSUME ListingInv, NEW page \in SUBSET Candidates, page # {}
  PROVE  \E u \in page : \A v \in page : IsLast(v, page) <=> v = u
  <1> DEFINE After == {c \in Candidates \X Candidates : <<c[2], c[1]>> \in Before}
  <1>1. \A u, v \in Candidates : <<u, v>> \in After <=> <<v, u>> \in Before
    OBVIOUS
  <1>2. /\ \A u, v, w \in Candidates :
             <<u, v>> \in After /\ <<v, w>> \in After => <<u, w>> \in After
        /\ \A u, v \in Candidates : u # v => <<u, v>> \in After \/ <<v, u>> \in After
    BY <1>1, BeforeIsTotal
  <1>3. PICK u \in page : \A v \in page \ {u} : <<u, v>> \in After
    <2> HIDE DEF After
    <2> QED BY <1>2, CandidatesFinite, FirstOfFinite
  <1>4. \A v \in page \ {u} : <<v, u>> \in Before /\ <<u, v>> \notin Before
    BY <1>1, <1>3, BeforeIsTotal
  <1>5. IsLast(u, page)
    BY <1>4, BeforeIsTotal DEF IsLast
  <1>6. \A v \in page \ {u} : ~IsLast(v, page)
    BY <1>4, BeforeIsTotal DEF IsLast
  <1> QED BY <1>5, <1>6

\* Every query has exactly one page and every page exactly one marker, so what a
\* client gets is determined (_paginate_query's second sort key, get_next).
THEOREM PageDetermined == Spec => []OnePage
  <1>1. ListingInv => OnePage
    <2> SUFFICES ASSUME ListingInv, walk.pc = "query" PROVE OnePage
      BY DEF OnePage
    <2>1. PICK page \in SUBSET Candidates : IsPage(page)
      BY PageExists
    <2>2. \A other \in SUBSET Candidates : IsPage(other) => other = page
      BY <2>1, PageUnique
    <2>3. page # {} => \E u \in page : \A v \in page : IsLast(v, page) <=> v = u
      BY LastUnique
    <2> QED BY <2>1, <2>2, <2>3 DEF OnePage
  <1> QED BY <1>1, ListingInvariant, PTL

----------------------------------------------------------------------------
(* A walk by id advances.  That it can step (WalkNeverStuck) is a          *)
(* hypothesis: it speaks of ENABLED, which the provers do not reason       *)
(* about.  The part of it that is not plain from the guards, that there    *)
(* always is a page and a marker, is theorem PageDetermined.               *)

\* A walk by id compares ids alone: PositionOf has no key in it then.
AfterById == walk.sort = "id" /\ walk.after # None => walk.after.key = 0

LEMMA AfterByIdInvariant == Spec => []AfterById
  <1>1. Init => AfterById
    BY DEF Init, AfterById
  <1>2. ListingInv /\ AfterById /\ [Next]_vars => AfterById'
    <2> SUFFICES ASSUME ListingInv, AfterById, [Next]_vars PROVE AfterById'
      OBVIOUS
    <2>1. walk \in Walk
      BY DEF ListingInv, ListingTypeOK
    <2>2. CASE Ask
      <3>1. walk.after = None /\ walk'.after = walk.after
        BY <2>1, <2>2 DEF Ask, ListingInv, AtIdle, Walk
      <3> QED BY <3>1 DEF AfterById
    <2>3. CASE Follow
      <3>1. walk'.after = PositionOf(walk.marker) /\ walk'.sort = walk.sort
        BY <2>1, <2>3 DEF Follow, Walk
      <3> QED BY <3>1 DEF AfterById, PositionOf
    <2>4. CASE Others \/ AskRefused \/ ListTasks \/ MarkerGone \/ UNCHANGED vars
      <3>1. walk'.after = walk.after /\ walk'.sort = walk.sort
        BY <2>1, <2>4 DEF Others, Insert, Update, SoftDelete, AskRefused, ListTasks,
           MarkerGone, vars, Walk
      <3> QED BY <3>1 DEF AfterById
    <2> QED BY <2>2, <2>3, <2>4 DEF Next, Step
  <1> QED BY <1>1, <1>2, ListingInvariant, PTL DEF Spec

UnderWay == walk.pc \in {"query", "follow"}

CanStep == ENABLED <<Step>>_vars

\* A walk under way has a next step.
WalkNeverStuck == UnderWay => CanStep

AtPage(n) == walk.pc = "query" /\ walk.sort = "id" /\ IdsAhead = n

\* Between two pages: fewer than n ids are ahead of the marker.
MarkerAhead ==
  IF walk.dir = "asc" THEN MaxId - rows[walk.marker].id ELSE rows[walk.marker].id - 1

AtLink(n) ==
  /\ walk.pc = "follow" /\ walk.sort = "id"
  /\ walk.marker \in Uuid /\ Exists(walk.marker)
  /\ MarkerAhead < n

Advanced(n) == walk.pc \in {"done", "404"} \/ (walk.pc = "query" /\ IdsAhead < n)

\* A row keeps its id as long as it is there, and it is never taken away.
LEMMA RowsKeepIds ==
  ASSUME ListingInv, Others, NEW u \in Uuid, Exists(u)
  PROVE  walk' = walk /\ Exists(u)' /\ rows'[u].id = rows[u].id
  <1>1. Elsewhere
    BY InsertElsewhere, UpdateElsewhere, SoftDeleteElsewhere DEF Others
  <1>2. rows \in [Uuid -> Row \cup {NoRow}]
    BY DEF ListingInv, ListingTypeOK
  <1>3. rows[u] \in Row
    BY <1>2 DEF Exists
  <1>4. PICK v \in Uuid : Insert(v) \/ Update(v) \/ SoftDelete(v)
    BY DEF Others
  <1>5. rows'[u].id = rows[u].id
    <2>1. CASE Insert(v)
      BY <1>2, <2>1 DEF Insert
    <2>2. CASE Update(v)
      <3>1. PICK k \in Key : rows' = [rows EXCEPT ![v] = [@ EXCEPT !.key = k]]
        BY <2>2 DEF Update
      <3>2. [rows[u] EXCEPT !.key = k].id = rows[u].id
        BY <1>3 DEF Row
      <3> QED BY <1>2, <3>1, <3>2
    <2>3. CASE SoftDelete(v)
      <3>1. rows' = [rows EXCEPT ![v] = [@ EXCEPT !.deleted = TRUE]]
        BY <2>3 DEF SoftDelete
      <3>2. [rows[u] EXCEPT !.deleted = TRUE].id = rows[u].id
        BY <1>3 DEF Row
      <3> QED BY <1>2, <3>1, <3>2
    <2> QED BY <1>4, <2>1, <2>2, <2>3
  <1> QED BY <1>1, <1>5 DEF Elsewhere

\* Others leave a walk where it is, and its marker as far.
LEMMA OthersLeaveWalk ==
  ASSUME ListingInv, NEW n \in Int, Others \/ UNCHANGED vars
  PROVE  (AtPage(n) => AtPage(n)') /\ (AtLink(n) => AtLink(n)')
  <1>1. walk' = walk
    BY DEF Others, Insert, Update, SoftDelete, vars
  <1>2. AtPage(n) => AtPage(n)'
    BY <1>1 DEF AtPage, IdsAhead
  <1>3. ASSUME AtLink(n) PROVE AtLink(n)'
    <2>1. Exists(walk.marker)' /\ rows'[walk.marker].id = rows[walk.marker].id
      <3>1. CASE Others
        BY <1>1, <1>3, <3>1, RowsKeepIds DEF AtLink, Exists
      <3>2. CASE UNCHANGED vars
        BY <1>1, <1>3, <3>2 DEF AtLink, Exists, vars
      <3> QED BY <3>1, <3>2
    <2>2. MarkerAhead' = MarkerAhead
      BY <1>1, <2>1 DEF MarkerAhead
    <2> QED BY <1>1, <1>3, <2>1, <2>2 DEF AtLink
  <1> QED BY <1>2, <1>3

\* The marker of the next page is a row after the one the page began at.
LEMMA PageMovesOn ==
  ASSUME ListingInv, AfterById, NEW n \in Int, AtPage(n), ListTasks
  PROVE  AtLink(n)' \/ Advanced(n)'
  <1>1. /\ walk \in Walk /\ walk.dir \in {"asc", "desc"} /\ walk.sort = "id"
        /\ rows' = rows /\ rows \in [Uuid -> Row \cup {NoRow}]
    BY DEF AtPage, ListingInv, ListingTypeOK, Walk, ListTasks
  <1>2. PICK page \in SUBSET Candidates :
          \/ walk' = [walk EXCEPT !.pc = "done"]
          \/ \E u \in page : walk' = [walk EXCEPT !.pc = "follow", !.marker = u]
    BY DEF ListTasks
  <1>3. CASE walk' = [walk EXCEPT !.pc = "done"]
    BY <1>1, <1>3 DEF Advanced, Walk
  <1>4. ASSUME NEW u \in page, walk' = [walk EXCEPT !.pc = "follow", !.marker = u]
        PROVE  AtLink(n)'
    <2>1. /\ u \in Uuid /\ Exists(u)
          /\ walk.after # None => Precedes(walk.after, PositionOf(u))
      BY <1>2 DEF Candidates, Visible
    <2>2. /\ walk'.pc = "follow" /\ walk'.marker = u
          /\ walk'.sort = "id" /\ walk'.dir = walk.dir
      BY <1>1, <1>4 DEF Walk
    <2>3. rows[u].id \in 1..MaxId /\ MaxId \in Nat
      BY <1>1, <2>1, ListingAssumption DEF Exists, Row, ListingAssumption
    <2>4. (IF walk.dir = "asc" THEN MaxId - rows[u].id ELSE rows[u].id - 1) < n
      <3>1. CASE walk.after = None
        BY <2>3, <3>1 DEF AtPage, IdsAhead
      <3>2. CASE walk.after # None
        <4>1. walk.after \in Position /\ walk.after.id \in Int /\ walk.after.key = 0
          BY <1>1, <3>2 DEF Walk, Position, AfterById
        <4>2. PositionOf(u).key = 0 /\ PositionOf(u).id = rows[u].id
          BY <1>1 DEF PositionOf
        <4>3. CASE walk.dir = "asc"
          <5>1. walk.after.id < rows[u].id
            BY <2>1, <3>2, <4>1, <4>2, <4>3 DEF Precedes
          <5> QED BY <2>3, <3>2, <4>1, <4>3, <5>1 DEF AtPage, IdsAhead
        <4>4. CASE walk.dir = "desc"
          <5>1. rows[u].id < walk.after.id
            BY <2>1, <3>2, <4>1, <4>2, <4>4 DEF Precedes
          <5> QED BY <2>3, <3>2, <4>1, <4>4, <5>1 DEF AtPage, IdsAhead
        <4> QED BY <1>1, <4>3, <4>4
      <3> QED BY <3>1, <3>2
    <2>5. MarkerAhead' < n /\ Exists(walk.marker)'
      BY <1>1, <2>1, <2>2, <2>4 DEF MarkerAhead, Exists
    <2> QED BY <2>1, <2>2, <2>5 DEF AtLink, Exists
  <1> QED BY <1>2, <1>3, <1>4

\* The next page begins after the marker; without the marker there is none.
LEMMA LinkMovesOn ==
  ASSUME ListingInv, NEW n \in Int, AtLink(n), Follow \/ MarkerGone
  PROVE  Advanced(n)'
  <1>1. walk \in Walk
    BY DEF ListingInv, ListingTypeOK
  <1>2. CASE Follow
    <2>1. /\ walk'.pc = "query" /\ walk'.dir = walk.dir
          /\ walk'.after = PositionOf(walk.marker)
      BY <1>1, <1>2 DEF Follow, Walk
    <2>2. walk'.after # None /\ walk'.after.id = rows[walk.marker].id
      <3>1. PositionOf(walk.marker) \in Position
        BY PositionType DEF AtLink, ListingInv
      <3>2. PositionOf(walk.marker).id = rows[walk.marker].id
        BY DEF PositionOf
      <3> QED BY <2>1, <3>1, <3>2, ListingAssumption DEF ListingAssumption
    <2>3. IdsAhead' = MarkerAhead
      BY <2>1, <2>2 DEF IdsAhead, MarkerAhead
    <2> QED BY <2>1, <2>3 DEF Advanced, AtLink
  <1>3. CASE MarkerGone
    BY <1>1, <1>3 DEF MarkerGone, Walk, Advanced
  <1> QED BY <1>2, <1>3

\* The two requests of a page, whoever steps.
LEMMA WalkStepFrom ==
  ASSUME NEW n \in Int, ListingInv, AfterById
  PROVE  /\ AtPage(n) /\ [Next]_vars => (AtPage(n) \/ AtLink(n) \/ Advanced(n))'
         /\ AtPage(n) /\ <<Step>>_vars => (AtLink(n) \/ Advanced(n))'
         /\ AtLink(n) /\ [Next]_vars => (AtLink(n) \/ Advanced(n))'
         /\ AtLink(n) /\ <<Step>>_vars => Advanced(n)'
  <1>1. AtPage(n) /\ Step => (AtLink(n) \/ Advanced(n))'
    <2>1. AtPage(n) => ~Follow /\ ~MarkerGone
      BY DEF AtPage, Follow, MarkerGone
    <2> QED BY <2>1, PageMovesOn DEF Step
  <1>2. AtLink(n) /\ Step => Advanced(n)'
    <2>1. AtLink(n) => ~ListTasks
      BY DEF AtLink, ListTasks
    <2> QED BY <2>1, LinkMovesOn DEF Step
  <1>3. AtPage(n) \/ AtLink(n) => ~Ask /\ ~AskRefused
    BY DEF AtPage, AtLink, Ask, AskRefused
  <1> QED BY <1>1, <1>2, <1>3, OthersLeaveWalk DEF Next

\* Each page of a walk by id has fewer ids ahead of it than the last, or is the
\* last one: whatever is inserted, moved or deleted meanwhile, the walk advances
\* (_paginate_query, get_next and the marker's get_by_uuid).
THEOREM WalkOnward == FairSpec /\ []WalkNeverStuck => WalkAdvances
  <1>1. ASSUME NEW n \in 0..MaxId
        PROVE  FairSpec /\ []WalkNeverStuck => (AtPage(n) ~> Advanced(n))
    <2>1. n \in Int
      BY ListingAssumption DEF ListingAssumption
    <2>2. ListingInv /\ AfterById
          => /\ AtPage(n) /\ [Next]_vars => (AtPage(n) \/ AtLink(n) \/ Advanced(n))'
             /\ AtPage(n) /\ <<Step>>_vars => (AtLink(n) \/ Advanced(n))'
             /\ AtLink(n) /\ [Next]_vars => (AtLink(n) \/ Advanced(n))'
             /\ AtLink(n) /\ <<Step>>_vars => Advanced(n)'
      BY <2>1, WalkStepFrom
    <2>3. AtPage(n) \/ AtLink(n) => UnderWay
      BY DEF AtPage, AtLink, UnderWay
    <2>4. WalkNeverStuck => (UnderWay => CanStep)
      BY DEF WalkNeverStuck
    <2>5. FairSpec /\ []WalkNeverStuck => []<>~UnderWay \/ []<><<Step>>_vars
      BY <2>4, PTL DEF FairSpec, CanStep
    <2>6. FairSpec => [](ListingInv /\ AfterById) /\ [][Next]_vars
      BY ListingInvariant, AfterByIdInvariant, PTL DEF FairSpec, Spec
    <2>7. FairSpec /\ []WalkNeverStuck => (AtLink(n) ~> Advanced(n))
      BY <2>2, <2>3, <2>5, <2>6, PTL
    <2> QED BY <2>2, <2>3, <2>5, <2>6, <2>7, PTL
  <1>2. FairSpec /\ []WalkNeverStuck => \A n \in 0..MaxId : AtPage(n) ~> Advanced(n)
    BY <1>1
  <1> QED BY <1>2 DEF WalkAdvances, AtPage, Advanced
============================================================================
