--------------------------- MODULE KeystoneHelper ---------------------------
(***************************************************************************)
(* create_user and delete_user of common/keystone_helper.py: sequences of  *)
(* calls to keystone, each of which may fail, with or without having been  *)
(* carried out, while other callers create and delete users too.           *)
(***************************************************************************)
EXTENDS Naturals, FiniteSets

CONSTANTS
  Caller,      \* threads that use the helper
  UserId,      \* the ids keystone may give to users
  Name,        \* names of users
  Roles, Projects, Domains,   \* keystone's catalogs: a function from ids to names
  RoleArg, ProjectArg, DomainArg,  \* what callers give for them: names or ids
  NoUser, NoId

VARIABLES
  users,   \* the users there are: of each its name, domain and roles
  used,    \* the ids ever given: keystone gives none twice
  call     \* of each caller its last call

vars == <<users, used, call>>

User == [name : Name, domain : DOMAIN Domains, roles : SUBSET DOMAIN Roles]

Call == [op : {"create", "delete"},
         pc : {"idle", "create", "grant", "get", "delete", "returned", "raised"},
         arg : Name \cup UserId \cup {NoId},   \* the user's name, or name or id
         domain : DOMAIN Domains \cup {NoId},
         wanted : SUBSET RoleArg, todo : SUBSET RoleArg,
         uid : UserId \cup {NoId},
         found : SUBSET UserId]                \* what get_user found

ASSUME KeystoneAssumption ==
  /\ NoUser \notin User
  /\ NoId \notin UserId

IdleCall == [op |-> "create", pc |-> "idle", arg |-> NoId, domain |-> NoId,
             wanted |-> {}, todo |-> {}, uid |-> NoId, found |-> {}]

Exists(i) == users[i] # NoUser

\* get_role, get_project, get_domain: by id and, if there is none, by name.
Found(catalog, arg) ==
  IF arg \in DOMAIN catalog THEN {arg}
  ELSE {i \in DOMAIN catalog : catalog[i] = arg}

\* None of them, or several, is Invalid.
IsOnly(i, found) == found = {i}

Resolves(catalog, arg) == \E i \in DOMAIN catalog : IsOnly(i, Found(catalog, arg))

RoleOf(arg, i) == IsOnly(i, Found(Roles, arg))

\* get_user.
FoundUsers(arg) ==
  IF arg \in UserId /\ Exists(arg) THEN {arg}
  ELSE {i \in UserId : Exists(i) /\ users[i].name = arg}

Goes(c, at) == call' = [call EXCEPT ![c].pc = at]

Ready(c) == call[c].pc \in {"idle", "returned", "raised"}

----------------------------------------------------------------------------
(* create_user.                                                            *)

\* Mutant: the domain is passed on as the caller gave it.
BeginCreateAsGiven(c) ==
  /\ Ready(c)
  /\ \E name \in Name, p \in ProjectArg, d \in DomainArg, roles \in SUBSET RoleArg :
       /\ Resolves(Projects, p)
       /\ call' = [call EXCEPT ![c] =
            [IdleCall EXCEPT !.pc = "create", !.arg = name, !.domain = d,
                             !.wanted = roles, !.todo = roles]]
  /\ UNCHANGED <<users, used>>

\* get_project and get_domain come first.
BeginCreate(c) ==
  /\ Ready(c)
  /\ \E name \in Name, p \in ProjectArg, d \in DomainArg, roles \in SUBSET RoleArg :
       /\ Resolves(Projects, p)
       /\ \E domain \in DOMAIN Domains :
            /\ IsOnly(domain, Found(Domains, d))
            /\ call' = [call EXCEPT ![c] =
                 [IdleCall EXCEPT !.pc = "create", !.arg = name, !.domain = domain,
                                  !.wanted = roles, !.todo = roles]]
  /\ UNCHANGED <<users, used>>

BeginInvalid(c) ==
  /\ Ready(c)
  /\ \E p \in ProjectArg, d \in DomainArg :
       ~Resolves(Projects, p) \/ ~Resolves(Domains, d)
  /\ call' = [call EXCEPT ![c] = [IdleCall EXCEPT !.pc = "raised"]]
  /\ UNCHANGED <<users, used>>

\* Keystone's Conflict: a name is unique in its domain.
IsTaken(name, domain) ==
  \E i \in UserId : Exists(i) /\ users[i].name = name /\ users[i].domain = domain

\* users.create.  An answer that is lost raises like a call that was never made.
CreateUser(c) ==
  /\ call[c].pc = "create"
  /\ ~IsTaken(call[c].arg, call[c].domain)
  /\ \E i \in UserId \ used, at \in {"grant", "raised"} :
       /\ users' = [users EXCEPT ![i] = [name |-> call[c].arg, roles |-> {},
                                         domain |-> call[c].domain]]
       /\ used' = used \cup {i}
       /\ call' = [call EXCEPT ![c].pc = at,
                               ![c].uid = IF at = "grant" THEN i ELSE NoId]

\* Mutant: an error of a grant is swallowed, as delete_user swallows Invalid.
GrantSwallowed(c) ==
  /\ call[c].pc = "grant" /\ Exists(call[c].uid)
  /\ \E r \in call[c].todo, i \in DOMAIN Roles :
       /\ RoleOf(r, i)
       /\ \/ users' = [users EXCEPT ![call[c].uid].roles = @ \cup {i}]
          \/ users' = users
       /\ call' = [call EXCEPT ![c].todo = @ \ {r}]
  /\ UNCHANGED used

\* roles.grant of the next role.
Grant(c) ==
  /\ call[c].pc = "grant" /\ Exists(call[c].uid)
  /\ \E r \in call[c].todo, i \in DOMAIN Roles, at \in {"grant", "raised"} :
       /\ RoleOf(r, i)
       /\ users' = [users EXCEPT ![call[c].uid].roles = @ \cup {i}]
       /\ call' = [call EXCEPT ![c].pc = at, ![c].todo = @ \ {r}]
  /\ UNCHANGED used

\* Mutant: a role that is unknown or ambiguous is passed over, as delete_user
\* does with a user.
ReturnDespiteInvalid(c) ==
  /\ call[c].pc = "grant"
  /\ \A r \in call[c].todo : ~Resolves(Roles, r)
  /\ Goes(c, "returned")
  /\ UNCHANGED <<users, used>>

\* The loop is over.
Return(c) ==
  /\ call[c].pc = "grant"
  /\ call[c].todo = {}
  /\ Goes(c, "returned")
  /\ UNCHANGED <<users, used>>

\* Conflict, Invalid for a role, NotFound for a user deleted meanwhile, or any
\* other answer: nothing is undone.
Raise(c) ==
  /\ ~Ready(c)
  /\ Goes(c, "raised")
  /\ UNCHANGED <<users, used>>

----------------------------------------------------------------------------
(* delete_user.                                                            *)

BeginDelete(c) ==
  /\ Ready(c)
  /\ \E arg \in Name \cup UserId :
       call' = [call EXCEPT ![c] =
                  [IdleCall EXCEPT !.op = "delete", !.pc = "get", !.arg = arg]]
  /\ UNCHANGED <<users, used>>

\* Mutant: the first of several users of a name will do.
GetFirstUser(c) ==
  /\ call[c].pc = "get"
  /\ LET found == FoundUsers(call[c].arg)
     IN call' = [call EXCEPT ![c].found = found,
                   ![c].pc = IF found # {} THEN "delete" ELSE "returned"]
  /\ UNCHANGED <<users, used>>

\* get_user; its Invalid is swallowed, and delete_user returns.
GetUser(c) ==
  /\ call[c].pc = "get"
  /\ LET found == FoundUsers(call[c].arg)
     IN call' = [call EXCEPT ![c].found = found,
                   ![c].pc = IF \E i \in UserId : IsOnly(i, found)
                             THEN "delete" ELSE "returned"]
  /\ UNCHANGED <<users, used>>

\* Mutant: any error of keystone's is swallowed like Invalid.
DeleteAnyway(c) ==
  /\ call[c].pc = "delete"
  /\ \E i \in call[c].found :
       \/ users' = [users EXCEPT ![i] = NoUser]
       \/ users' = users
  /\ Goes(c, "returned")
  /\ UNCHANGED used

\* users.delete: by the id that was found.
DeleteUser(c) ==
  /\ call[c].pc = "delete"
  /\ \E i \in call[c].found, at \in {"returned", "raised"} :
       /\ Exists(i)
       /\ users' = [users EXCEPT ![i] = NoUser]
       /\ Goes(c, at)
  /\ UNCHANGED used

----------------------------------------------------------------------------
Init ==
  /\ users = [i \in UserId |-> NoUser]
  /\ used = {}
  /\ call = [c \in Caller |-> IdleCall]

Next ==
  \E c \in Caller :
    \/ BeginCreate(c) \/ BeginInvalid(c) \/ CreateUser(c) \/ Grant(c) \/ Return(c)
    \/ BeginDelete(c) \/ GetUser(c) \/ DeleteUser(c) \/ Raise(c)

Spec == Init /\ [][Next]_vars

----------------------------------------------------------------------------
(* Properties.                                                             *)

\* The values of the variables: a user's domain and roles are keystone's own,
\* and no id is used twice.
KeystoneTypeOK ==
  /\ users \in [UserId -> User \cup {NoUser}]
  /\ used \in SUBSET UserId
  /\ \A i \in UserId : Exists(i) => i \in used
  /\ call \in [Caller -> Call]

\* A user that create_user has returned has every role that was asked for, for
\* as long as it exists: a user left half made is never returned.
ReturnedIsComplete ==
  \A c \in Caller :
    LET cc == call[c]
    IN cc.op = "create" /\ cc.pc = "returned" /\ Exists(cc.uid) =>
         /\ users[cc.uid].name = cc.arg
         /\ \A r \in cc.wanted : \E i \in users[cc.uid].roles : RoleOf(r, i)

\* When delete_user has returned, the only user it found is gone and stays so,
\* whoever creates one of that name again; it returns as well, with every user
\* left, if it found none or several.
DeletedIsGone ==
  \A c \in Caller : call[c].op = "delete" /\ call[c].pc = "returned" =>
    \A i \in UserId : IsOnly(i, call[c].found) => ~Exists(i)

\* A user is only ever removed for its id or its name, and by a caller for whom
\* it was the only such user when it looked: never another of the same name,
\* made before or since.
DeletesTheOneFound ==
  [][\A i \in UserId : Exists(i) /\ ~Exists(i)' =>
       \E c \in Caller : /\ IsOnly(i, call[c].found)
                         /\ call[c].arg \in {i, users[i].name}]_vars

----------------------------------------------------------------------------
(* The refinement: what a call shows of the contract.                      *)

goneBar == {i \in used : ~Exists(i)}

\* The ids of the roles that a call asked for by id or by name.
WantedIds(cc) == {i \in DOMAIN Roles : \E r \in cc.wanted : RoleOf(r, i)}

ToldBy(cc) ==
  IF cc.pc = "returned" /\ cc.op = "create"
  THEN [what |-> "made", uid |-> cc.uid, roles |-> WantedIds(cc)]
  ELSE IF cc.pc = "returned" /\ \E i \in UserId : IsOnly(i, cc.found)
  THEN [what |-> "removed", uid |-> CHOOSE i \in UserId : IsOnly(i, cc.found),
        roles |-> {}]
  ELSE [what |-> "nothing", uid |-> NoId, roles |-> {}]

toldBar == [c \in Caller |-> ToldBy(call[c])]

Contract ==
  INSTANCE UserContract WITH Domain <- DOMAIN Domains, Role <- DOMAIN Roles,
                             gone <- goneBar, told <- toldBar

\* However the calls of different callers interleave, and whichever of them
\* fail, the helper does no more to users than make one, add to its roles and
\* remove it for good, and tells a caller no more than is so.
KeepsUsers == Contract!Spec

----------------------------------------------------------------------------
(* What makes the invariants inductive.                                    *)

CallsKnow ==
  \A c \in Caller :
    /\ call[c].pc \in {"create", "grant"} => call[c].op = "create"
    /\ call[c].pc \in {"get", "delete"} => call[c].op = "delete"
    /\ call[c].pc = "create" => /\ call[c].arg \in Name
                               /\ call[c].domain \in DOMAIN Domains
                               /\ call[c].todo = call[c].wanted
    /\ call[c].found \subseteq used

\* The user of a create_user that goes on has the roles it is done with.
Granted ==
  \A c \in Caller :
    call[c].op = "create" /\ call[c].pc \in {"grant", "returned"} =>
      /\ call[c].uid \in used
      /\ call[c].pc = "returned" => call[c].todo = {}
      /\ Exists(call[c].uid) =>
           /\ users[call[c].uid].name = call[c].arg
           /\ \A r \in call[c].wanted \ call[c].todo :
                \E i \in users[call[c].uid].roles : RoleOf(r, i)

\* A delete_user about to delete has found one user, who answers to its argument.
FoundOne ==
  \A c \in Caller : call[c].pc = "delete" =>
    \E i \in UserId : /\ IsOnly(i, call[c].found)
                      /\ Exists(i) => call[c].arg \in {i, users[i].name}

KeystoneInv == /\ KeystoneTypeOK /\ CallsKnow /\ Granted /\ FoundOne
               /\ ReturnedIsComplete /\ DeletedIsGone
=============================================================================
