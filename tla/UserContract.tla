---------------------------- MODULE UserContract ----------------------------
(***************************************************************************)
(* What the keystone helper promises its callers, whoever else uses        *)
(* keystone and whichever calls fail.  A user is made, gains roles one by  *)
(* one, and is removed for good.  A caller is told of a user it asked for  *)
(* only when that has every role asked for, or is already gone again; and  *)
(* that a user was removed only as it is removed.  Nobody else is told     *)
(* anything: an error leaves the users as they are.                        *)
(***************************************************************************)
CONSTANTS Caller, UserId, Name, Domain, Role, NoUser, NoId

VARIABLES
  users,   \* the users there are
  gone,    \* the ids of those there were
  told     \* what the last call of each caller returned, until the next begins

contractVars == <<users, gone, told>>

Nothing == [what |-> "nothing", uid |-> NoId, roles |-> {}]

MadeWith(i, roles) == [what |-> "made", uid |-> i, roles |-> roles]

Removed(i) == [what |-> "removed", uid |-> i, roles |-> {}]

IsThere(i) == users[i] # NoUser

Make(i) ==
  /\ ~IsThere(i) /\ i \notin gone
  /\ \E name \in Name, domain \in Domain :
       users' = [users EXCEPT ![i] = [name |-> name, domain |-> domain, roles |-> {}]]
  /\ UNCHANGED <<gone, told>>

Gain(i, role) ==
  /\ IsThere(i)
  /\ users' = [users EXCEPT ![i].roles = @ \cup {role}]
  /\ UNCHANGED <<gone, told>>

\* At most one caller is told, and at once.
Remove(i) ==
  /\ IsThere(i)
  /\ users' = [users EXCEPT ![i] = NoUser]
  /\ gone' = gone \cup {i}
  /\ \/ told' = told
     \/ \E c \in Caller : told' = [told EXCEPT ![c] = Removed(i)]

TellMade(c) ==
  /\ UNCHANGED <<users, gone>>
  /\ \E i \in UserId, roles \in SUBSET Role :
       /\ IsThere(i) \/ i \in gone
       /\ IsThere(i) => roles \subseteq users[i].roles
       /\ told' = [told EXCEPT ![c] = MadeWith(i, roles)]

\* The next call of c begins.
TellNothing(c) ==
  /\ UNCHANGED <<users, gone>>
  /\ told' = [told EXCEPT ![c] = Nothing]

Init ==
  /\ users = [i \in UserId |-> NoUser]
  /\ gone = {}
  /\ told = [c \in Caller |-> Nothing]

Next ==
  \/ \E c \in Caller : TellNothing(c) \/ TellMade(c)
  \/ \E i \in UserId : Make(i) \/ Remove(i) \/ \E role \in Role : Gain(i, role)

Spec == Init /\ [][Next]_contractVars
=============================================================================
