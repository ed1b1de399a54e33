--------------------------- MODULE KeystoneProofs ---------------------------
(***************************************************************************)
(* Proofs about KeystoneHelper, for every set of callers, ids, names and   *)
(* every catalog.                                                          *)
(***************************************************************************)
EXTENDS KeystoneHelper, TLAPS

\* What the steps of a call may do: one lemma speaks of them all.
Step(c) ==
  \/ BeginCreate(c) \/ BeginInvalid(c) \/ CreateUser(c) \/ Grant(c) \/ Return(c)
  \/ BeginDelete(c) \/ GetUser(c) \/ DeleteUser(c) \/ Raise(c)

\* A step is one of a caller's, or changes nothing.
LEMMA StepOrStutter ==
  ASSUME [Next]_vars
  PROVE  UNCHANGED vars \/ \E c \in Caller : Step(c)
  BY DEF Next, Step

\* A step of one caller leaves the calls of the others alone.
LEMMA OwnCall ==
  ASSUME KeystoneTypeOK, NEW c \in Caller, Step(c)
  PROVE  \A d \in Caller \ {c} : call'[d] = call[d]
  BY DEF KeystoneTypeOK, Step, BeginCreate, BeginInvalid, CreateUser, Grant, Return,
         BeginDelete, GetUser, DeleteUser, Raise, Goes

\* An idle call is a call.
LEMMA IdleIsCall == IdleCall \in Call
  BY DEF IdleCall, Call

----------------------------------------------------------------------------
(* Type correctness.                                                       *)

\* get_user finds users that there are.
LEMMA FoundThere ==
  ASSUME NEW arg PROVE FoundUsers(arg) \subseteq {i \in UserId : Exists(i)}
  BY DEF FoundUsers

LEMMA CreateUserTypes ==
  ASSUME KeystoneTypeOK, CallsKnow, NEW c \in Caller, CreateUser(c)
  PROVE  KeystoneTypeOK'
<1> USE DEF KeystoneTypeOK
<1>1. PICK i \in UserId \ used, at \in {"grant", "raised"} :
        /\ users' = [users EXCEPT ![i] = [name |-> call[c].arg, roles |-> {},
                                          domain |-> call[c].domain]]
        /\ used' = used \cup {i}
        /\ call' = [call EXCEPT ![c].pc = at,
                                ![c].uid = IF at = "grant" THEN i ELSE NoId]
  BY DEF CreateUser
<1>2. [name |-> call[c].arg, roles |-> {}, domain |-> call[c].domain] \in User
  BY DEF CreateUser, CallsKnow, User
<1>3. users' \in [UserId -> User \cup {NoUser}]
  BY <1>1, <1>2
<1>4. used' \in SUBSET UserId
  BY <1>1
<1>5. \A j \in UserId : Exists(j)' => j \in used'
  BY <1>1 DEF Exists
<1>6. call[c] \in Call
  OBVIOUS
<1>7. [call[c] EXCEPT !.pc = at, !.uid = IF at = "grant" THEN i ELSE NoId] \in Call
  BY <1>6 DEF Call
<1>8. call' \in [Caller -> Call]
  BY <1>1, <1>7
<1> QED BY <1>3, <1>4, <1>5, <1>8

LEMMA GrantTypes ==
  ASSUME KeystoneTypeOK, CallsKnow, Granted, NEW c \in Caller, Grant(c)
  PROVE  KeystoneTypeOK'
<1> USE DEF KeystoneTypeOK
<1>1. PICK r \in call[c].todo, i \in DOMAIN Roles, at \in {"grant", "raised"} :
        /\ users' = [users EXCEPT ![call[c].uid].roles = @ \cup {i}]
        /\ call' = [call EXCEPT ![c].pc = at, ![c].todo = @ \ {r}]
  BY DEF Grant
<1>2. /\ call[c].uid \in UserId /\ users[call[c].uid] \in User
      /\ users[call[c].uid] # NoUser
  BY DEF Grant, Exists, Granted, CallsKnow
<1>3. [users[call[c].uid] EXCEPT !.roles = @ \cup {i}] \in User
  BY <1>2 DEF User
<1>4. users' \in [UserId -> User \cup {NoUser}]
  BY <1>1, <1>2, <1>3
<1>5. \A j \in UserId : Exists(j)' => j \in used'
  BY <1>1, <1>2 DEF Exists, Grant
<1>6. call[c] \in Call
  OBVIOUS
<1>7. [call[c] EXCEPT !.pc = at, !.todo = @ \ {r}] \in Call
  BY <1>6 DEF Call
<1>8. call' \in [Caller -> Call]
  BY <1>1, <1>7
<1>9. used' = used
  BY DEF Grant
<1> QED BY <1>4, <1>5, <1>8, <1>9

LEMMA BeginTypes ==
  ASSUME KeystoneTypeOK, NEW c \in Caller, BeginCreate(c) \/ BeginInvalid(c) \/ BeginDelete(c)
  PROVE  KeystoneTypeOK'
<1> USE DEF KeystoneTypeOK
<1>1. users' = users /\ used' = used
  BY DEF BeginCreate, BeginInvalid, BeginDelete
<1>2. \A j \in UserId : Exists(j)' => j \in used'
  BY <1>1 DEF Exists
<1>3. CASE BeginCreate(c)
  <2>1. PICK name \in Name, roles \in SUBSET RoleArg, domain \in DOMAIN Domains :
          call' = [call EXCEPT ![c] =
             [IdleCall EXCEPT !.pc = "create", !.arg = name, !.domain = domain,
                              !.wanted = roles, !.todo = roles]]
    BY <1>3 DEF BeginCreate
  <2>2. [IdleCall EXCEPT !.pc = "create", !.arg = name, !.domain = domain,
                         !.wanted = roles, !.todo = roles] \in Call
    BY IdleIsCall DEF IdleCall, Call
  <2> QED BY <1>1, <1>2, <2>1, <2>2
<1>4. CASE BeginInvalid(c)
  <2>1. [IdleCall EXCEPT !.pc = "raised"] \in Call
    BY IdleIsCall DEF IdleCall, Call
  <2> QED BY <1>1, <1>2, <1>4, <2>1 DEF BeginInvalid
<1>5. CASE BeginDelete(c)
  <2>1. PICK arg \in Name \cup UserId :
          call' = [call EXCEPT ![c] =
             [IdleCall EXCEPT !.op = "delete", !.pc = "get", !.arg = arg]]
    BY <1>5 DEF BeginDelete
  <2>2. [IdleCall EXCEPT !.op = "delete", !.pc = "get", !.arg = arg] \in Call
    BY IdleIsCall DEF IdleCall, Call
  <2> QED BY <1>1, <1>2, <2>1, <2>2
<1> QED BY <1>3, <1>4, <1>5

LEMMA OtherTypes ==
  ASSUME KeystoneTypeOK, NEW c \in Caller,
         Return(c) \/ Raise(c) \/ GetUser(c) \/ DeleteUser(c)
  PROVE  KeystoneTypeOK'
<1> USE DEF KeystoneTypeOK
<1>1. call[c] \in Call
  OBVIOUS
<1>2. CASE Return(c) \/ Raise(c)
  <2>1. \A at \in {"returned", "raised"} : [call[c] EXCEPT !.pc = at] \in Call
    BY <1>1 DEF Call
  <2> QED BY <1>2, <2>1 DEF Return, Raise, Goes, Exists
<1>3. CASE GetUser(c)
  <2> DEFINE found == FoundUsers(call[c].arg)
             at == IF \E i \in UserId : IsOnly(i, found) THEN "delete" ELSE "returned"
  <2>1. found \in SUBSET UserId /\ at \in {"delete", "returned"}
    BY FoundThere
  <2>2. [call[c] EXCEPT !.found = found, !.pc = at] \in Call
    <3> HIDE DEF found, at
    <3> QED BY <1>1, <2>1 DEF Call
  <2>3. call' = [call EXCEPT ![c].found = found, ![c].pc = at]
    BY <1>3 DEF GetUser
  <2>4. call' = [call EXCEPT ![c] = [call[c] EXCEPT !.found = found, !.pc = at]]
    <3> HIDE DEF found, at
    <3> QED BY <2>3
  <2>5. call' \in [Caller -> Call]
    <3> HIDE DEF found, at
    <3> QED BY <2>2, <2>4
  <2> QED BY <1>3, <2>5 DEF GetUser, Exists
<1>4. CASE DeleteUser(c)
  <2>1. PICK i \in call[c].found, at \in {"returned", "raised"} :
          users' = [users EXCEPT ![i] = NoUser] /\ Goes(c, at)
    BY <1>4 DEF DeleteUser
  <2>2. [call[c] EXCEPT !.pc = at] \in Call
    BY <1>1 DEF Call
  <2>3. call' \in [Caller -> Call]
    BY <2>1, <2>2 DEF Goes
  <2>4. users' \in [UserId -> User \cup {NoUser}]
    BY <2>1
  <2>5. \A j \in UserId : Exists(j)' => j \in used'
    BY <1>4, <2>1 DEF Exists, DeleteUser
  <2> QED BY <1>4, <2>3, <2>4, <2>5 DEF DeleteUser
<1> QED BY <1>2, <1>3, <1>4

LEMMA StepTypes ==
  ASSUME KeystoneTypeOK, CallsKnow, Granted, NEW c \in Caller, Step(c)
  PROVE  KeystoneTypeOK'
  BY CreateUserTypes, GrantTypes, BeginTypes, OtherTypes DEF Step

----------------------------------------------------------------------------
(* What a step does to users that have been there.                         *)

\* An id that has been used is not given again, a name never changes and no role
\* is taken away.
LEMMA UsersKeep ==
  ASSUME KeystoneTypeOK, CallsKnow, Granted, NEW c \in Caller, Step(c)
  PROVE  /\ used \subseteq used'
         /\ \A i \in used : Exists(i)' =>
              /\ Exists(i)
              /\ users'[i].name = users[i].name
              /\ users[i].roles \subseteq users'[i].roles
<1> USE DEF KeystoneTypeOK, Exists
<1>1. CASE CreateUser(c)
  <2>1. PICK i \in UserId \ used :
          /\ users' = [users EXCEPT ![i] = [name |-> call[c].arg, roles |-> {},
                                            domain |-> call[c].domain]]
          /\ used' = used \cup {i}
    BY <1>1 DEF CreateUser
  <2> QED BY <2>1
<1>2. CASE Grant(c)
  <2>1. PICK i \in DOMAIN Roles :
          users' = [users EXCEPT ![call[c].uid].roles = @ \cup {i}]
    BY <1>2 DEF Grant
  <2>2. /\ call[c].uid \in UserId /\ users[call[c].uid] \in User
        /\ users[call[c].uid] # NoUser
    BY <1>2 DEF Grant, Granted, CallsKnow
  <2>3. \A j \in used \ {call[c].uid} : users'[j] = users[j]
    BY <2>1
  <2>4. users'[call[c].uid] = [users[call[c].uid] EXCEPT !.roles = @ \cup {i}]
    BY <2>1, <2>2
  <2>5. /\ users'[call[c].uid].name = users[call[c].uid].name
        /\ users[call[c].uid].roles \subseteq users'[call[c].uid].roles
    BY <2>2, <2>4 DEF User
  <2> QED BY <1>2, <2>2, <2>3, <2>5 DEF Grant
<1>3. CASE DeleteUser(c)
  <2>1. PICK i \in call[c].found : users' = [users EXCEPT ![i] = NoUser]
    BY <1>3 DEF DeleteUser
  <2> QED BY <1>3, <2>1 DEF DeleteUser
<1>4. CASE \/ BeginCreate(c) \/ BeginInvalid(c) \/ Return(c)
           \/ BeginDelete(c) \/ GetUser(c) \/ Raise(c)
  <2>1. users' = users /\ used' = used
    BY <1>4 DEF BeginCreate, BeginInvalid, Return, BeginDelete, GetUser, Raise
  <2> QED BY <2>1
<1> QED BY <1>1, <1>2, <1>3, <1>4 DEF Step

----------------------------------------------------------------------------
(* What a call knows.                                                      *)

\* What it knows of itself.
LEMMA StepCalls ==
  ASSUME KeystoneTypeOK, CallsKnow, Granted, NEW c \in Caller, Step(c)
  PROVE  CallsKnow'
<1> USE DEF KeystoneTypeOK
<1> DEFINE Knows(r, ids) ==
      /\ r.pc \in {"create", "grant"} => r.op = "create"
      /\ r.pc \in {"get", "delete"} => r.op = "delete"
      /\ r.pc = "create" => /\ r.arg \in Name /\ r.domain \in DOMAIN Domains
                            /\ r.todo = r.wanted
      /\ r.found \subseteq ids
<1>1. \A d \in Caller : Knows(call[d], used)
  BY DEF CallsKnow
<1>2. used \subseteq used'
  BY UsersKeep
<1>3. \A d \in Caller \ {c} : Knows(call'[d], used')
  BY <1>1, <1>2, OwnCall
<1>4. call[c] \in Call
  OBVIOUS
<1>5. Knows(call'[c], used')
  <2>1. CASE BeginCreate(c)
    <3>1. PICK name \in Name, roles \in SUBSET RoleArg, domain \in DOMAIN Domains :
            call' = [call EXCEPT ![c] =
               [IdleCall EXCEPT !.pc = "create", !.arg = name, !.domain = domain,
                                !.wanted = roles, !.todo = roles]]
      BY <2>1 DEF BeginCreate
    <3> QED BY <3>1 DEF IdleCall
  <2>2. CASE BeginInvalid(c)
    BY <2>2 DEF BeginInvalid, IdleCall
  <2>7. CASE BeginDelete(c)
    <3>1. PICK arg \in Name \cup UserId :
            call' = [call EXCEPT ![c] =
               [IdleCall EXCEPT !.op = "delete", !.pc = "get", !.arg = arg]]
      BY <2>7 DEF BeginDelete
    <3> QED BY <3>1 DEF IdleCall
  <2>3. CASE CreateUser(c)
    <3>1. PICK i \in UserId, at \in {"grant", "raised"} :
            call' = [call EXCEPT ![c].pc = at,
                                 ![c].uid = IF at = "grant" THEN i ELSE NoId]
      BY <2>3 DEF CreateUser
    <3>2. call'[c] = [call[c] EXCEPT !.pc = at, !.uid = IF at = "grant" THEN i ELSE NoId]
      BY <3>1
    <3>3. call'[c].op = call[c].op /\ call'[c].found = call[c].found /\ call'[c].pc = at
      BY <3>2, <1>4 DEF Call
    <3> QED BY <1>1, <1>2, <2>3, <3>3 DEF CreateUser
  <2>4. CASE Grant(c)
    <3>1. PICK r \in call[c].todo, at \in {"grant", "raised"} :
            call' = [call EXCEPT ![c].pc = at, ![c].todo = @ \ {r}]
      BY <2>4 DEF Grant
    <3>2. call'[c].op = call[c].op /\ call'[c].found = call[c].found /\ call'[c].pc = at
      BY <3>1, <1>4 DEF Call
    <3> QED BY <1>1, <1>2, <2>4, <3>2 DEF Grant
  <2>5. CASE GetUser(c)
    <3> DEFINE found == FoundUsers(call[c].arg)
               at == IF \E i \in UserId : IsOnly(i, found) THEN "delete" ELSE "returned"
    <3>1. found \subseteq used
      BY FoundThere
    <3>2. call' = [call EXCEPT ![c].found = found, ![c].pc = at]
      BY <2>5 DEF GetUser
    <3>3. at \in {"delete", "returned"}
      OBVIOUS
    <3>4. call'[c].op = call[c].op /\ call'[c].found = found /\ call'[c].pc = at
      <4> HIDE DEF found, at
      <4> QED BY <3>2, <1>4 DEF Call
    <3> HIDE DEF found, at
    <3> QED BY <1>1, <1>2, <2>5, <3>1, <3>3, <3>4 DEF GetUser
  <2>6. CASE Return(c) \/ Raise(c) \/ DeleteUser(c)
    <3>1. PICK at \in {"returned", "raised"} : Goes(c, at)
      BY <2>6 DEF Return, Raise, DeleteUser
    <3>2. call'[c].op = call[c].op /\ call'[c].found = call[c].found /\ call'[c].pc = at
      BY <3>1, <1>4 DEF Call, Goes
    <3> QED BY <1>1, <1>2, <3>2
  <2> QED BY <2>1, <2>2, <2>3, <2>4, <2>5, <2>6, <2>7 DEF Step
<1> QED BY <1>3, <1>5 DEF CallsKnow

\* A create_user's user has the roles it is done with.
LEMMA StepGranted ==
  ASSUME KeystoneTypeOK, CallsKnow, Granted, NEW c \in Caller, Step(c)
  PROVE  Granted'
<1> USE DEF KeystoneTypeOK
<1> DEFINE Has(r, us, ids) ==
      r.op = "create" /\ r.pc \in {"grant", "returned"} =>
        /\ r.uid \in ids
        /\ r.pc = "returned" => r.todo = {}
        /\ us[r.uid] # NoUser =>
             /\ us[r.uid].name = r.arg
             /\ \A q \in r.wanted \ r.todo : \E i \in us[r.uid].roles : RoleOf(q, i)
<1>1. \A d \in Caller : Has(call[d], users, used)
  BY DEF Granted, Exists
<1>2. ASSUME NEW r, Has(r, users, used) PROVE Has(r, users', used')
  BY <1>2, UsersKeep DEF Exists
<1>3. \A d \in Caller \ {c} : Has(call'[d], users', used')
  <2> HIDE DEF Has
  <2> QED BY <1>1, <1>2, OwnCall
<1>4. call[c] \in Call
  OBVIOUS
<1>5. Has(call'[c], users', used')
  <2>1. CASE BeginCreate(c)
    <3>1. PICK name \in Name, roles \in SUBSET RoleArg, domain \in DOMAIN Domains :
            call' = [call EXCEPT ![c] =
               [IdleCall EXCEPT !.pc = "create", !.arg = name, !.domain = domain,
                                !.wanted = roles, !.todo = roles]]
      BY <2>1 DEF BeginCreate
    <3>2. call'[c].pc = "create"
      BY <3>1 DEF IdleCall
    <3> QED BY <3>2
  <2>2. CASE BeginInvalid(c)
    <3>1. call'[c].pc = "raised"
      BY <2>2 DEF BeginInvalid, IdleCall
    <3> QED BY <3>1
  <2>3. CASE BeginDelete(c)
    <3>1. PICK arg \in Name \cup UserId :
            call' = [call EXCEPT ![c] =
               [IdleCall EXCEPT !.op = "delete", !.pc = "get", !.arg = arg]]
      BY <2>3 DEF BeginDelete
    <3>2. call'[c].op = "delete"
      BY <3>1 DEF IdleCall
    <3> QED BY <3>2
  <2>4. CASE CreateUser(c)
    <3>1. PICK i \in UserId \ used, at \in {"grant", "raised"} :
            /\ users' = [users EXCEPT ![i] = [name |-> call[c].arg, roles |-> {},
                                              domain |-> call[c].domain]]
            /\ used' = used \cup {i}
            /\ call' = [call EXCEPT ![c].pc = at,
                                    ![c].uid = IF at = "grant" THEN i ELSE NoId]
      BY <2>4 DEF CreateUser
    <3>2. call'[c] = [call[c] EXCEPT !.pc = at, !.uid = IF at = "grant" THEN i ELSE NoId]
      BY <3>1
    <3>3. /\ call'[c].pc = at /\ (at = "grant" => call'[c].uid = i)
          /\ call'[c].arg = call[c].arg
          /\ call'[c].wanted = call[c].wanted /\ call'[c].todo = call[c].todo
      BY <3>2, <1>4 DEF Call
    <3>4. users'[i].name = call[c].arg
      BY <3>1
    <3>5. call[c].wanted \ call[c].todo = {}
      BY <2>4 DEF CreateUser, CallsKnow
    <3> QED BY <3>1, <3>3, <3>4, <3>5
  <2>5. CASE Grant(c)
    <3>1. PICK r \in call[c].todo, i \in DOMAIN Roles, at \in {"grant", "raised"} :
            /\ RoleOf(r, i)
            /\ users' = [users EXCEPT ![call[c].uid].roles = @ \cup {i}]
            /\ call' = [call EXCEPT ![c].pc = at, ![c].todo = @ \ {r}]
      BY <2>5 DEF Grant
    <3>2. call'[c] = [call[c] EXCEPT !.pc = at, !.todo = @ \ {r}]
      BY <3>1
    <3>3. /\ call'[c].pc = at /\ call'[c].uid = call[c].uid
          /\ call'[c].arg = call[c].arg /\ call'[c].op = call[c].op
          /\ call'[c].wanted = call[c].wanted /\ call'[c].todo = call[c].todo \ {r}
      BY <3>2, <1>4 DEF Call
    <3>4. call[c].pc = "grant" /\ call[c].op = "create" /\ Exists(call[c].uid)
      BY <2>5 DEF Grant, CallsKnow
    <3>5. call[c].uid \in used /\ call[c].uid \in UserId
      BY <1>1, <3>4
    <3>6. users[call[c].uid] \in User
      BY <3>4, <3>5 DEF Exists
    <3>7. users'[call[c].uid] = [users[call[c].uid] EXCEPT !.roles = @ \cup {i}]
      BY <3>1, <3>5
    <3>8. /\ users'[call[c].uid].roles = users[call[c].uid].roles \cup {i}
          /\ users'[call[c].uid].name = users[call[c].uid].name
      BY <3>6, <3>7 DEF User
    <3>9. \A q \in call[c].wanted \ call[c].todo :
            \E j \in users[call[c].uid].roles : RoleOf(q, j)
      BY <1>1, <3>4 DEF Exists
    <3>10. \A q \in call'[c].wanted \ call'[c].todo :
            \E j \in users'[call[c].uid].roles : RoleOf(q, j)
      <4> SUFFICES ASSUME NEW q \in call[c].wanted \ (call[c].todo \ {r})
                   PROVE  \E j \in users'[call[c].uid].roles : RoleOf(q, j)
        BY <3>3
      <4>1. CASE q = r
        BY <3>1, <3>8, <4>1
      <4>2. CASE q # r
        BY <3>8, <3>9, <4>2
      <4> QED BY <4>1, <4>2
    <3>11. used' = used
      BY <2>5 DEF Grant
    <3>12. users[call[c].uid].name = call[c].arg
      BY <1>1, <3>4 DEF Exists
    <3> QED BY <3>1, <3>3, <3>5, <3>8, <3>10, <3>11, <3>12
  <2>6. CASE Return(c)
    <3>1. call'[c] = [call[c] EXCEPT !.pc = "returned"]
      BY <2>6 DEF Return, Goes
    <3>2. /\ call'[c].uid = call[c].uid /\ call'[c].todo = call[c].todo
          /\ call'[c].arg = call[c].arg /\ call'[c].op = call[c].op
          /\ call'[c].wanted = call[c].wanted
      BY <3>1, <1>4 DEF Call
    <3>3. users' = users /\ used' = used /\ call[c].pc = "grant" /\ call[c].todo = {}
      BY <2>6 DEF Return
    <3> QED BY <1>1, <3>2, <3>3
  <2>7. CASE Raise(c)
    <3>1. call'[c].pc = "raised"
      BY <2>7, <1>4 DEF Raise, Goes, Call
    <3> QED BY <3>1
  <2>8. CASE GetUser(c)
    <3>1. call'[c].op = call[c].op
      BY <2>8, <1>4 DEF GetUser, Call
    <3> QED BY <2>8, <3>1 DEF GetUser, CallsKnow
  <2>9. CASE DeleteUser(c)
    <3>1. PICK at \in {"returned", "raised"} : Goes(c, at)
      BY <2>9 DEF DeleteUser
    <3>2. call'[c].op = call[c].op
      BY <3>1, <1>4 DEF Goes, Call
    <3> QED BY <2>9, <3>2 DEF DeleteUser, CallsKnow
  <2> QED BY <2>1, <2>2, <2>3, <2>4, <2>5, <2>6, <2>7, <2>8, <2>9 DEF Step
<1> QED BY <1>3, <1>5 DEF Granted, Exists

\* A delete_user about to delete has found one user, who answers to its argument.
LEMMA StepFoundOne ==
  ASSUME KeystoneTypeOK, CallsKnow, Granted, FoundOne, NEW c \in Caller, Step(c)
  PROVE  FoundOne'
<1> USE DEF KeystoneTypeOK
<1> DEFINE Knows(r, us) ==
      r.pc = "delete" => \E i \in UserId : /\ IsOnly(i, r.found)
                                           /\ us[i] # NoUser => r.arg \in {i, us[i].name}
<1>1. \A d \in Caller : Knows(call[d], users)
  BY DEF FoundOne, Exists
<1>2. ASSUME NEW r, Knows(r, users), r.found \subseteq used PROVE Knows(r, users')
  BY <1>2, UsersKeep DEF Exists, IsOnly
<1>3. \A d \in Caller : call[d].found \subseteq used
  BY DEF CallsKnow
<1>4. \A d \in Caller \ {c} : Knows(call'[d], users')
  <2> HIDE DEF Knows
  <2> QED BY <1>1, <1>2, <1>3, OwnCall
<1>5. call[c] \in Call
  OBVIOUS
<1>6. Knows(call'[c], users')
  <2>1. CASE GetUser(c)
    <3> DEFINE found == FoundUsers(call[c].arg)
               at == IF \E i \in UserId : IsOnly(i, found) THEN "delete" ELSE "returned"
    <3>1. call'[c].found = found /\ call'[c].pc = at /\ call'[c].arg = call[c].arg
      <4>1. call' = [call EXCEPT ![c].found = found, ![c].pc = at]
        BY <2>1 DEF GetUser
      <4> HIDE DEF found, at
      <4> QED BY <4>1, <1>5 DEF Call
    <3>2. \A i \in UserId : IsOnly(i, found) => call[c].arg \in {i, users[i].name}
      BY DEF IsOnly, FoundUsers
    <3>3. users' = users
      BY <2>1 DEF GetUser
    <3>4. at = "delete" => \E i \in UserId : IsOnly(i, found)
      OBVIOUS
    <3> HIDE DEF found, at
    <3> QED BY <3>1, <3>2, <3>3, <3>4
  <2>2. CASE BeginCreate(c)
    <3>1. call'[c].pc = "create"
      BY <2>2 DEF BeginCreate, IdleCall
    <3> QED BY <3>1
  <2>3. CASE BeginInvalid(c)
    <3>1. call'[c].pc = "raised"
      BY <2>3 DEF BeginInvalid, IdleCall
    <3> QED BY <3>1
  <2>4. CASE BeginDelete(c)
    <3>1. call'[c].pc = "get"
      BY <2>4 DEF BeginDelete, IdleCall
    <3> QED BY <3>1
  <2>5. CASE CreateUser(c) \/ Grant(c) \/ Return(c) \/ DeleteUser(c) \/ Raise(c)
    <3>1. call'[c].pc \in {"grant", "raised", "returned"}
      <4>1. CASE CreateUser(c)
        BY <1>5, <4>1 DEF CreateUser, Call
      <4>2. CASE Grant(c)
        BY <1>5, <4>2 DEF Grant, Call
      <4>3. CASE Return(c) \/ DeleteUser(c) \/ Raise(c)
        BY <1>5, <4>3 DEF Return, DeleteUser, Raise, Goes, Call
      <4> QED BY <2>5, <4>1, <4>2, <4>3
    <3> QED BY <3>1
  <2> QED BY <2>1, <2>2, <2>3, <2>4, <2>5 DEF Step
<1> QED BY <1>4, <1>6 DEF FoundOne, Exists

\* The user that a delete_user found is gone when it has returned: with no id given
\* twice, for good.
LEMMA StepDeleted ==
  ASSUME KeystoneTypeOK, CallsKnow, Granted, FoundOne, DeletedIsGone,
         NEW c \in Caller, Step(c)
  PROVE  DeletedIsGone'
<1> USE DEF KeystoneTypeOK
<1> DEFINE Gone(r, us) ==
      r.op = "delete" /\ r.pc = "returned" =>
        \A i \in UserId : IsOnly(i, r.found) => us[i] = NoUser
<1>1. \A d \in Caller : Gone(call[d], users)
  BY DEF DeletedIsGone, Exists
<1>2. ASSUME NEW r, Gone(r, users), r.found \subseteq used PROVE Gone(r, users')
  BY <1>2, UsersKeep DEF Exists, IsOnly
<1>3. \A d \in Caller : call[d].found \subseteq used
  BY DEF CallsKnow
<1>4. \A d \in Caller \ {c} : Gone(call'[d], users')
  <2> HIDE DEF Gone
  <2> QED BY <1>1, <1>2, <1>3, OwnCall
<1>5. call[c] \in Call
  OBVIOUS
<1>6. Gone(call'[c], users')
  <2>1. CASE GetUser(c)
    <3> DEFINE found == FoundUsers(call[c].arg)
               at == IF \E i \in UserId : IsOnly(i, found) THEN "delete" ELSE "returned"
    <3>1. call'[c].found = found /\ call'[c].pc = at
      <4>1. call' = [call EXCEPT ![c].found = found, ![c].pc = at]
        BY <2>1 DEF GetUser
      <4> HIDE DEF found, at
      <4> QED BY <4>1, <1>5 DEF Call
    <3>2. at = "returned" => \A i \in UserId : ~IsOnly(i, found)
      OBVIOUS
    <3> HIDE DEF found, at
    <3> QED BY <3>1, <3>2
  <2>2. CASE DeleteUser(c)
    <3>1. PICK i \in call[c].found, at \in {"returned", "raised"} :
            users' = [users EXCEPT ![i] = NoUser] /\ Goes(c, at)
      BY <2>2 DEF DeleteUser
    <3>2. call'[c].found = call[c].found
      BY <3>1, <1>5 DEF Goes, Call
    <3>3. i \in UserId
      BY <1>5, <3>1 DEF Call
    <3> QED BY <3>1, <3>2, <3>3 DEF IsOnly
  <2>3. CASE BeginCreate(c)
    <3>1. call'[c].pc = "create"
      BY <2>3 DEF BeginCreate, IdleCall
    <3> QED BY <3>1
  <2>4. CASE BeginInvalid(c)
    <3>1. call'[c].pc = "raised"
      BY <2>4 DEF BeginInvalid, IdleCall
    <3> QED BY <3>1
  <2>5. CASE BeginDelete(c)
    <3>1. call'[c].pc = "get"
      BY <2>5 DEF BeginDelete, IdleCall
    <3> QED BY <3>1
  <2>6. CASE CreateUser(c) \/ Grant(c)
    <3>1. call'[c].pc \in {"grant", "raised"}
      <4>1. CASE CreateUser(c)
        BY <1>5, <4>1 DEF CreateUser, Call
      <4>2. CASE Grant(c)
        BY <1>5, <4>2 DEF Grant, Call
      <4> QED BY <2>6, <4>1, <4>2
    <3> QED BY <3>1
  <2>7. CASE Return(c)
    <3>1. call'[c].op = "create"
      BY <1>5, <2>7 DEF Return, Goes, Call, CallsKnow
    <3> QED BY <3>1
  <2>8. CASE Raise(c)
    <3>1. call'[c].pc = "raised"
      BY <1>5, <2>8 DEF Raise, Goes, Call
    <3> QED BY <3>1
  <2> QED BY <2>1, <2>2, <2>3, <2>4, <2>5, <2>6, <2>7, <2>8 DEF Step
<1> QED BY <1>4, <1>6 DEF DeletedIsGone, Exists

\* Nothing is left to grant when create_user returns.
LEMMA GrantedIsComplete == Granted => ReturnedIsComplete
  BY DEF Granted, ReturnedIsComplete

----------------------------------------------------------------------------
(* The theorems.                                                           *)

\* No call has begun and no user is there.
LEMMA InitInv == Init => KeystoneInv
<1> SUFFICES ASSUME Init PROVE KeystoneInv
  OBVIOUS
<1>1. KeystoneTypeOK
  BY IdleIsCall DEF Init, KeystoneTypeOK, Exists
<1>2. CallsKnow /\ Granted /\ FoundOne /\ DeletedIsGone
  BY DEF Init, IdleCall, CallsKnow, Granted, FoundOne, DeletedIsGone
<1> QED BY <1>1, <1>2, GrantedIsComplete DEF KeystoneInv

\* Every step keeps the invariant.
LEMMA NextInv == KeystoneInv /\ [Next]_vars => KeystoneInv'
<1> SUFFICES ASSUME KeystoneInv, [Next]_vars PROVE KeystoneInv'
  OBVIOUS
<1> USE DEF KeystoneInv
<1>1. CASE UNCHANGED vars
  BY <1>1 DEF vars, KeystoneTypeOK, CallsKnow, Granted, FoundOne, ReturnedIsComplete,
              DeletedIsGone, Exists
<1>2. CASE \E c \in Caller : Step(c)
  <2>1. PICK c \in Caller : Step(c)
    BY <1>2
  <2>2. KeystoneTypeOK' /\ CallsKnow' /\ Granted' /\ FoundOne' /\ DeletedIsGone'
    BY <2>1, StepTypes, StepCalls, StepGranted, StepFoundOne, StepDeleted
  <2>3. ReturnedIsComplete'
    BY <2>2, GrantedIsComplete, PTL
  <2> QED BY <2>2, <2>3
<1> QED BY <1>1, <1>2, StepOrStutter

\* The invariant holds of every behaviour.
THEOREM KeystoneInvariant == Spec => []KeystoneInv
  BY InitInv, NextInv, PTL DEF Spec

\* Users and calls keep their types, and no id is given twice.
THEOREM KeystoneTypeCorrect == Spec => []KeystoneTypeOK
<1>1. KeystoneInv => KeystoneTypeOK
  BY DEF KeystoneInv
<1> QED BY <1>1, KeystoneInvariant, PTL

\* create_user returns no user that lacks a role it was asked for.
THEOREM CreatesWhole == Spec => []ReturnedIsComplete
<1>1. KeystoneInv => ReturnedIsComplete
  BY DEF KeystoneInv
<1> QED BY <1>1, KeystoneInvariant, PTL

\* When delete_user has returned, the only user it found is gone for good.
THEOREM DeletesForGood == Spec => []DeletedIsGone
<1>1. KeystoneInv => DeletedIsGone
  BY DEF KeystoneInv
<1> QED BY <1>1, KeystoneInvariant, PTL

\* A removed user answers to the argument of a call that found no other such user.
LEMMA RemovesTheOneFound ==
  ASSUME KeystoneInv, [Next]_vars
  PROVE  \A i \in UserId : Exists(i) /\ ~Exists(i)' =>
           \E c \in Caller : /\ IsOnly(i, call[c].found)
                             /\ call[c].arg \in {i, users[i].name}
<1> USE DEF KeystoneInv, KeystoneTypeOK, Exists
<1> SUFFICES ASSUME NEW i \in UserId, Exists(i), ~Exists(i)'
             PROVE  \E c \in Caller : /\ IsOnly(i, call[c].found)
                                      /\ call[c].arg \in {i, users[i].name}
  OBVIOUS
<1>1. PICK c \in Caller : Step(c)
  BY StepOrStutter DEF vars
<1>2. CASE DeleteUser(c)
  <2>1. PICK j \in call[c].found : users' = [users EXCEPT ![j] = NoUser]
    BY <1>2 DEF DeleteUser
  <2>2. i = j
    BY <2>1
  <2> QED BY <1>2, <2>1, <2>2 DEF DeleteUser, FoundOne, IsOnly
<1>3. CASE CreateUser(c)
  <2>1. PICK j \in UserId \ used :
          users' = [users EXCEPT ![j] = [name |-> call[c].arg, roles |-> {},
                                         domain |-> call[c].domain]]
    BY <1>3 DEF CreateUser
  <2>2. i = j
    BY <2>1
  <2> QED BY <2>1, <2>2
<1>4. CASE Grant(c)
  <2>1. PICK r \in DOMAIN Roles :
          users' = [users EXCEPT ![call[c].uid].roles = @ \cup {r}]
    BY <1>4 DEF Grant
  <2>2. i = call[c].uid
    BY <2>1
  <2>3. users'[i] = [users[i] EXCEPT !.roles = @ \cup {r}]
    BY <2>1, <2>2
  <2>4. users[i] \in User
    OBVIOUS
  <2>5. users'[i] \in User
    BY <2>3, <2>4 DEF User
  <2> QED BY <2>5, KeystoneAssumption DEF KeystoneAssumption
<1> QED BY <1>1, <1>2, <1>3, <1>4
     DEF Step, BeginCreate, BeginInvalid, Return, BeginDelete, GetUser, Raise

\* A user is only ever removed by a caller for whom it was the only one that
\* answers to what was asked for.
THEOREM RemovesNoOther == Spec => DeletesTheOneFound
<1>1. KeystoneInv /\ [Next]_vars =>
        [\A i \in UserId : Exists(i) /\ ~Exists(i)' =>
           \E c \in Caller : /\ IsOnly(i, call[c].found)
                             /\ call[c].arg \in {i, users[i].name}]_vars
  BY RemovesTheOneFound
<1> QED BY <1>1, KeystoneInvariant, PTL DEF Spec, DeletesTheOneFound

----------------------------------------------------------------------------
(* The contract.                                                           *)

NothingTold == [what |-> "nothing", uid |-> NoId, roles |-> {}]

\* Only what the caller that steps is told can change.
LEMMA ToldMoves ==
  ASSUME KeystoneTypeOK, NEW c \in Caller, Step(c)
  PROVE  toldBar' = [toldBar EXCEPT ![c] = ToldBy(call'[c])]
<1>1. \A d \in Caller \ {c} : ToldBy(call'[d]) = ToldBy(call[d])
  BY OwnCall
<1>2. toldBar' = [d \in Caller |-> ToldBy(call'[d])]
  BY DEF toldBar
<1>3. [toldBar EXCEPT ![c] = ToldBy(call'[c])] = [d \in Caller |-> ToldBy(call'[d])]
  BY <1>1 DEF toldBar
<1> QED BY <1>2, <1>3

\* A call that has not returned tells nothing.
LEMMA OthersTellNothing ==
  ASSUME NEW cc, cc.pc # "returned" PROVE ToldBy(cc) = NothingTold
  BY DEF ToldBy, NothingTold

LEMMA ToldStays ==
  ASSUME KeystoneTypeOK, NEW c \in Caller, Step(c),
         ToldBy(call[c]) = NothingTold, ToldBy(call'[c]) = NothingTold
  PROVE  toldBar' = toldBar
  BY ToldMoves DEF toldBar

LEMMA BeginMaps ==
  ASSUME KeystoneInv, NEW c \in Caller, BeginCreate(c) \/ BeginInvalid(c) \/ BeginDelete(c)
  PROVE  Contract!Next
<1>1. KeystoneTypeOK /\ Step(c) /\ users' = users /\ used' = used
  BY DEF KeystoneInv, Step, BeginCreate, BeginInvalid, BeginDelete
<1>2. call'[c].pc \in {"create", "raised", "get"}
  BY <1>1 DEF KeystoneTypeOK, BeginCreate, BeginInvalid, BeginDelete, IdleCall
<1>3. toldBar' = [toldBar EXCEPT ![c] = NothingTold]
  BY <1>1, <1>2, ToldMoves, OthersTellNothing
<1>4. goneBar' = goneBar
  BY <1>1 DEF goneBar, Exists
<1> QED BY <1>1, <1>3, <1>4
        DEF Contract!Next, Contract!TellNothing, Contract!Nothing, NothingTold

LEMMA CreateUserMaps ==
  ASSUME KeystoneInv, NEW c \in Caller, CreateUser(c)
  PROVE  Contract!Next
<1>1. KeystoneTypeOK /\ CallsKnow /\ Step(c)
  BY DEF KeystoneInv, Step
<1>2. PICK i \in UserId \ used, at \in {"grant", "raised"} :
        /\ users' = [users EXCEPT ![i] = [name |-> call[c].arg, roles |-> {},
                                          domain |-> call[c].domain]]
        /\ used' = used \cup {i}
        /\ call' = [call EXCEPT ![c].pc = at,
                                ![c].uid = IF at = "grant" THEN i ELSE NoId]
  BY DEF CreateUser
<1>3. call[c].pc = "create" /\ call[c].arg \in Name /\ call[c].domain \in DOMAIN Domains
  BY <1>1 DEF CreateUser, CallsKnow
<1>4. call'[c].pc = at
  BY <1>1, <1>2 DEF KeystoneTypeOK, Call
<1>5. toldBar' = toldBar
  BY <1>1, <1>3, <1>4, ToldStays, OthersTellNothing
<1>6. /\ ~Exists(i)
      /\ users' = [users EXCEPT ![i] = [name |-> call[c].arg, domain |-> call[c].domain,
                                        roles |-> {}]]
  BY <1>1, <1>2 DEF KeystoneTypeOK
<1>7. users'[i] # NoUser /\ \A j \in UserId \ {i} : users'[j] = users[j]
  <2>1. users'[i] \in User
    BY <1>1, <1>3, <1>6 DEF KeystoneTypeOK, User
  <2> QED BY <1>1, <1>6, <2>1, KeystoneAssumption DEF KeystoneTypeOK, KeystoneAssumption
<1>8. goneBar' = goneBar /\ i \notin goneBar
  BY <1>1, <1>2, <1>7 DEF goneBar, Exists, KeystoneTypeOK
<1>9. Contract!Make(i)
  BY <1>3, <1>5, <1>6, <1>8 DEF Contract!Make, Contract!IsThere, Exists
<1> QED BY <1>9 DEF Contract!Next

LEMMA GrantMaps ==
  ASSUME KeystoneInv, NEW c \in Caller, Grant(c)
  PROVE  Contract!Next
<1>1. KeystoneTypeOK /\ Granted /\ Step(c) /\ call[c].pc = "grant" /\ Exists(call[c].uid)
  BY DEF KeystoneInv, Step, Grant
<1>2. PICK r \in call[c].todo, i \in DOMAIN Roles, at \in {"grant", "raised"} :
        /\ users' = [users EXCEPT ![call[c].uid].roles = @ \cup {i}]
        /\ call' = [call EXCEPT ![c].pc = at, ![c].todo = @ \ {r}]
  BY DEF Grant
<1> DEFINE u == call[c].uid
<1>3. call'[c].pc = at
  BY <1>1, <1>2 DEF KeystoneTypeOK, Call
<1>4. toldBar' = toldBar
  BY <1>1, <1>3, ToldStays, OthersTellNothing
<1>5. u \in UserId /\ users[u] \in User
  BY <1>1 DEF KeystoneTypeOK, Exists, Granted, KeystoneInv, CallsKnow
<1>6. users' = [users EXCEPT ![u].roles = @ \cup {i}]
  BY <1>2
<1>7. users'[u] # NoUser /\ \A j \in UserId \ {u} : users'[j] = users[j]
  <2>1. users'[u] = [users[u] EXCEPT !.roles = @ \cup {i}]
    BY <1>1, <1>5, <1>6 DEF KeystoneTypeOK
  <2>2. users'[u] \in User
    BY <1>5, <2>1 DEF User
  <2> QED BY <1>1, <1>6, <2>2, KeystoneAssumption DEF KeystoneTypeOK, KeystoneAssumption
<1>8. goneBar' = goneBar
  BY <1>1, <1>5, <1>7 DEF goneBar, Exists, KeystoneTypeOK, Grant
<1>9. Contract!Gain(u, i)
  BY <1>1, <1>4, <1>6, <1>8 DEF Contract!Gain, Contract!IsThere, Exists
<1> QED BY <1>5, <1>9 DEF Contract!Next

\* The caller is told when every role it asked for is there.
LEMMA ReturnMaps ==
  ASSUME KeystoneInv, NEW c \in Caller, Return(c)
  PROVE  Contract!Next
<1>1. /\ KeystoneTypeOK /\ Granted /\ CallsKnow /\ Step(c)
      /\ call[c].pc = "grant" /\ call[c].op = "create" /\ call[c].todo = {}
      /\ users' = users /\ used' = used /\ call' = [call EXCEPT ![c].pc = "returned"]
  BY DEF KeystoneInv, CallsKnow, Step, Return, Goes
<1> DEFINE u == call[c].uid
           roles == WantedIds(call[c])
<1>2. /\ call'[c].pc = "returned" /\ call'[c].op = "create" /\ call'[c].uid = u
      /\ call'[c].wanted = call[c].wanted
  BY <1>1 DEF KeystoneTypeOK, Call
<1>3. toldBar' = [toldBar EXCEPT ![c] = [what |-> "made", uid |-> u, roles |-> roles]]
  BY <1>1, <1>2, ToldMoves DEF ToldBy, WantedIds
<1>4. u \in used /\ u \in UserId /\ roles \in SUBSET DOMAIN Roles
  BY <1>1 DEF Granted, KeystoneTypeOK, WantedIds
<1>5. Exists(u) \/ u \in goneBar
  BY <1>4 DEF goneBar
<1>6. Exists(u) => roles \subseteq users[u].roles
  <2> SUFFICES ASSUME Exists(u), NEW i \in roles PROVE i \in users[u].roles
    OBVIOUS
  <2>1. PICK r \in call[c].wanted : RoleOf(r, i)
    BY DEF WantedIds
  <2>2. PICK j \in users[u].roles : RoleOf(r, j)
    BY <1>1, <2>1 DEF Granted
  <2> QED BY <2>1, <2>2 DEF RoleOf, IsOnly
<1>7. goneBar' = goneBar
  BY <1>1 DEF goneBar, Exists
<1>8. Contract!TellMade(c)
  BY <1>1, <1>3, <1>4, <1>5, <1>6, <1>7
  DEF Contract!TellMade, Contract!MadeWith, Contract!IsThere, Exists
<1> QED BY <1>8 DEF Contract!Next

\* The caller is told as the user goes, if at all.
LEMMA DeleteUserMaps ==
  ASSUME KeystoneInv, NEW c \in Caller, DeleteUser(c)
  PROVE  Contract!Next
<1>1. /\ KeystoneTypeOK /\ CallsKnow /\ FoundOne /\ Step(c) /\ used' = used
      /\ call[c].pc = "delete" /\ call[c].op = "delete"
  BY DEF KeystoneInv, CallsKnow, Step, DeleteUser
<1>2. PICK i \in call[c].found, at \in {"returned", "raised"} :
        /\ Exists(i)
        /\ users' = [users EXCEPT ![i] = NoUser]
        /\ call' = [call EXCEPT ![c].pc = at]
  BY DEF DeleteUser, Goes
<1>3. call[c].found = {i} /\ i \in UserId /\ i \in used
  BY <1>1, <1>2 DEF FoundOne, IsOnly, CallsKnow
<1>4. call'[c].pc = at /\ call'[c].op = "delete" /\ call'[c].found = {i}
  BY <1>1, <1>2, <1>3 DEF KeystoneTypeOK, Call
<1>5. \/ toldBar' = toldBar
      \/ toldBar' = [toldBar EXCEPT ![c] = [what |-> "removed", uid |-> i, roles |-> {}]]
  <2>1. CASE at = "raised"
    BY <1>1, <1>4, <2>1, ToldStays, OthersTellNothing
  <2>2. CASE at = "returned"
    <3>1. IsOnly(i, call'[c].found) /\ \A j \in UserId : IsOnly(j, call'[c].found) => j = i
      BY <1>4 DEF IsOnly
    <3>2. (CHOOSE j \in UserId : IsOnly(j, call'[c].found)) = i
      BY <1>3, <3>1
    <3>3. ToldBy(call'[c]) = [what |-> "removed", uid |-> i, roles |-> {}]
      BY <1>3, <1>4, <2>2, <3>1, <3>2 DEF ToldBy
    <3> QED BY <1>1, <3>3, ToldMoves
  <2> QED BY <2>1, <2>2
<1>6. goneBar' = goneBar \cup {i}
  BY <1>1, <1>2, <1>3 DEF goneBar, Exists, KeystoneTypeOK
<1>7. Contract!Remove(i)
  BY <1>2, <1>5, <1>6 DEF Contract!Remove, Contract!Removed, Contract!IsThere, Exists
<1> QED BY <1>3, <1>7 DEF Contract!Next

\* Nobody is told, and no user changes.
LEMMA SilentMaps ==
  ASSUME KeystoneInv, NEW c \in Caller, GetUser(c) \/ Raise(c)
  PROVE  UNCHANGED Contract!contractVars
<1>1. KeystoneTypeOK /\ CallsKnow /\ Step(c) /\ users' = users /\ used' = used
  BY DEF KeystoneInv, Step, GetUser, Raise
<1>2. goneBar' = goneBar
  BY <1>1 DEF goneBar, Exists
<1>3. ToldBy(call[c]) = NothingTold
  BY OthersTellNothing DEF GetUser, Raise, Ready
<1>4. CASE Raise(c)
  <2>1. call'[c].pc = "raised"
    BY <1>1, <1>4 DEF Raise, Goes, KeystoneTypeOK, Call
  <2>2. toldBar' = toldBar
    BY <1>1, <1>3, <2>1, ToldStays, OthersTellNothing
  <2> QED BY <1>1, <1>2, <2>2 DEF Contract!contractVars
<1>5. CASE GetUser(c)
  <2> DEFINE found == FoundUsers(call[c].arg)
             at == IF \E i \in UserId : IsOnly(i, found) THEN "delete" ELSE "returned"
  <2>1. call' = [call EXCEPT ![c].found = found, ![c].pc = at] /\ call[c].pc = "get"
    BY <1>5 DEF GetUser
  <2>2. call'[c].found = found /\ call'[c].pc = at /\ call'[c].op = "delete"
    BY <1>1, <2>1 DEF KeystoneTypeOK, Call, CallsKnow
  <2>3. ToldBy(call'[c]) = NothingTold
    BY <2>2 DEF ToldBy, NothingTold
  <2>4. toldBar' = toldBar
    BY <1>1, <1>3, <2>3, ToldStays
  <2> QED BY <1>1, <1>2, <2>4 DEF Contract!contractVars
<1> QED BY <1>4, <1>5

\* The helper does no more to users than the contract allows, and tells no
\* caller more than is so, however calls interleave and fail.
THEOREM UserContractKept == Spec => KeepsUsers
<1>1. Init => Contract!Init
  <2> SUFFICES ASSUME Init PROVE Contract!Init
    OBVIOUS
  <2>1. ToldBy(IdleCall) = NothingTold
    BY OthersTellNothing DEF IdleCall
  <2>2. toldBar = [c \in Caller |-> NothingTold] /\ goneBar = {}
    BY <2>1 DEF Init, toldBar, goneBar
  <2> QED BY <2>2 DEF Init, Contract!Init, Contract!Nothing, NothingTold
<1>2. KeystoneInv /\ [Next]_vars => [Contract!Next]_(Contract!contractVars)
  <2> SUFFICES ASSUME KeystoneInv, [Next]_vars
               PROVE  [Contract!Next]_(Contract!contractVars)
    OBVIOUS
  <2>1. CASE UNCHANGED vars
    BY <2>1 DEF vars, Contract!contractVars, goneBar, toldBar, Exists
  <2>2. ASSUME NEW c \in Caller, Step(c) PROVE [Contract!Next]_(Contract!contractVars)
    BY <2>2, BeginMaps, CreateUserMaps, GrantMaps, ReturnMaps, DeleteUserMaps, SilentMaps
    DEF Step
  <2> QED BY <2>1, <2>2, StepOrStutter
<1> QED BY <1>1, <1>2, KeystoneInvariant, PTL DEF Spec, KeepsUsers, Contract!Spec
=============================================================================
