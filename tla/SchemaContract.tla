--------------------------- MODULE SchemaContract ---------------------------
(***************************************************************************)
(* What dbmanage promises about a schema to operators who keep its rules,  *)
(* whatever processes and statements its commands are made of.  Tables are *)
(* made in one piece, those of the newest release; afterwards a script     *)
(* takes those of the recorded version to a neighbour's, and nobody else   *)
(* touches them meanwhile; a version is recorded only for tables that are  *)
(* whole and its own.  Who breaks the rules voids this for good.           *)
(***************************************************************************)
EXTENDS Integers

VARIABLES
  of,        \* the release the tables are of, NoTables or Torn
  recorded,  \* the recorded version, or 0
  newest,    \* the newest revision there is a script for
  spoiled    \* the rules were broken

schemaVars == <<of, recorded, newest, spoiled>>

NoTables == -1

Torn == -2

TablesOf(rev) == IF rev = 0 THEN NoTables ELSE rev

\* create_schema's tables.
Make ==
  /\ ~spoiled /\ of = NoTables /\ recorded = 0
  /\ of' = newest
  /\ UNCHANGED <<recorded, newest, spoiled>>

\* A script of the recorded version begins.
Tear ==
  /\ ~spoiled /\ of = TablesOf(recorded)
  /\ of' = Torn
  /\ UNCHANGED <<recorded, newest, spoiled>>

\* It ends, a revision further or back.
Mend ==
  /\ ~spoiled /\ of = Torn
  /\ of' \in {TablesOf(recorded + 1), TablesOf(recorded - 1)}
  /\ UNCHANGED <<recorded, newest, spoiled>>

Record(rev) ==
  /\ ~spoiled /\ of = TablesOf(rev)
  /\ recorded' = rev
  /\ UNCHANGED <<of, newest, spoiled>>

Release ==
  /\ ~spoiled
  /\ newest' = newest + 1
  /\ UNCHANGED <<of, recorded, spoiled>>

\* Nothing is promised from here on.
Spoil ==
  /\ of' = NoTables /\ recorded' = 0 /\ spoiled' = TRUE
  /\ newest' \in {newest, newest + 1}

Init == of = NoTables /\ recorded = 0 /\ newest \in Nat /\ spoiled = FALSE

Next ==
  Make \/ Tear \/ Mend \/ Release \/ Spoil \/ \E rev \in 0..newest : Record(rev)

Spec == Init /\ [][Next]_schemaVars
=============================================================================
