---------------------------- MODULE AnswerProofs ----------------------------
(***************************************************************************)
(* Why every request that a handler has taken is answered, for every set   *)
(* of requests, uuids, bodies and patches.  Each step of a handler moves   *)
(* it forward: create, get, save, soft_delete, launch, answer; nobody else *)
(* moves it; and a handler that can step does.  That it can step           *)
(* (HandlersNeverStuck) is a hypothesis here: it speaks of ENABLED, which  *)
(* TLC evaluates and the provers do not.                                   *)
(***************************************************************************)
EXTENDS TasksApiProofs

At(r, pc) == req[r].pc = pc

IsBusy(r) == req[r].pc \in Busy

IsAnswered(r) == req[r].pc \in Answer

CanHandle(r) == ENABLED <<Handle(r)>>_apiVars

\* A handler moves to a later step or to its answer, whatever it meets.
LEMMA HandleMovesOn ==
  ASSUME NEW r \in Request, ApiInv, Handle(r)
  PROVE  \/ IsAnswered(r)'
         \/ At(r, "create") /\ At(r, "launch")'
         \/ At(r, "get") /\ At(r, "save")'
         \/ At(r, "save") /\ (At(r, "soft_delete") \/ At(r, "launch"))'
<1> USE DEF ApiInv, ApiTypeOK, At, IsAnswered
<1>1. CASE Create(r)
  BY <1>1 DEF Create, Creating
<1>2. CASE GetForDelete(r) \/ GetForPatch(r)
  <2>1. req[r].pc = "get"
    BY <1>2 DEF GetForDelete, GetForPatch, Getting
  <2>2. CASE GetForDelete(r)
    BY <2>1, <2>2 DEF GetForDelete, RequestState
  <2>3. CASE GetForPatch(r)
    <3>1. PICK updates, launch :
            req' = [req EXCEPT ![r] = [@ EXCEPT !.updates = updates,
                                                !.launch = launch, !.pc = "save"]]
      BY <2>3 DEF GetForPatch
    <3> QED
      BY <2>1, <3>1 DEF RequestState
  <2> QED
    BY <1>2, <2>2, <2>3
<1>3. CASE Save(r)
  <2>1. req'[r].pc = AfterSave(r) /\ req[r].pc = "save"
    BY <1>3 DEF Save, Saving, RequestState
  <2>2. AfterSave(r) \in {"soft_delete", "launch", "200"}
    BY DEF AfterSave
  <2> QED
    BY <2>1, <2>2 DEF Answer
<1>4. CASE Launch(r) \/ SoftDelete(r)
  <2>1. \E pc \in Answer : Goto(r, pc)
    BY <1>4 DEF Launch, SoftDelete, Answer
  <2> QED
    BY <2>1, GotoKeepsType
<1>5. CASE \/ CreateInvalid(r) \/ CreateDuplicate(r) \/ NotFound(r)
           \/ PatchInvalid(r) \/ PatchRefused(r) \/ SaveInvalid(r) \/ ServerError(r)
  <2>1. \E pc \in Answer : Goto(r, pc)
    BY <1>5 DEF CreateInvalid, CreateDuplicate, NotFound, PatchInvalid, PatchRefused,
                SaveInvalid, ServerError, Answer
  <2> QED
    BY <2>1, GotoKeepsType
<1> QED
  BY <1>1, <1>2, <1>3, <1>4, <1>5 DEF Handle

\* No step but its handler's moves a request that a handler has taken.
LEMMA OnlyHandlerMoves ==
  ASSUME NEW r \in Request, ApiInv, IsBusy(r), [ApiNext]_apiVars
  PROVE  Handle(r) \/ req'[r].pc = req[r].pc
<1> USE DEF ApiInv
<1>1. req[r].kind # "none"
  <2>1. \A pc \in Busy : pc # "idle"
    BY DEF Busy
  <2> QED
    BY <2>1 DEF HandlersKnow, AtArrival, Idle, IsBusy
<1>2. ~(Post(r) \/ Patch(r) \/ Delete(r))
  BY <1>1 DEF Post, Patch, Delete, Arrive
<1>3. ASSUME NEW q \in Request, ApiStep(q)
      PROVE  Handle(r) \/ req'[r].pc = req[r].pc
  BY <1>2, <1>3, StepIsOwn DEF ApiStep
<1>4. CASE TopicDrains \/ UNCHANGED apiVars
  BY <1>4 DEF TopicDrains, apiVars
<1> QED
  BY <1>3, <1>4 DEF ApiNext

----------------------------------------------------------------------------
(* The chain, backwards from the answer.                                   *)

\* Where a step of anybody, and where one of its handler, can leave a request.
LEMMA StepFrom ==
  ASSUME NEW r \in Request, ApiInv
  PROVE  /\ \A pc \in Busy :
              At(r, pc) /\ [ApiNext]_apiVars
              => \/ At(r, pc)' \/ IsAnswered(r)'
                 \/ pc = "create" /\ At(r, "launch")'
                 \/ pc = "get" /\ At(r, "save")'
                 \/ pc = "save" /\ (At(r, "soft_delete") \/ At(r, "launch"))'
         /\ \A pc \in Busy :
              At(r, pc) /\ Handle(r)
              => \/ IsAnswered(r)'
                 \/ pc = "create" /\ At(r, "launch")'
                 \/ pc = "get" /\ At(r, "save")'
                 \/ pc = "save" /\ (At(r, "soft_delete") \/ At(r, "launch"))'
<1>1. ASSUME NEW pc \in Busy, At(r, pc), Handle(r)
      PROVE  \/ IsAnswered(r)'
             \/ pc = "create" /\ At(r, "launch")'
             \/ pc = "get" /\ At(r, "save")'
             \/ pc = "save" /\ (At(r, "soft_delete") \/ At(r, "launch"))'
  BY <1>1, HandleMovesOn DEF At
<1>2. ASSUME NEW pc \in Busy, At(r, pc), [ApiNext]_apiVars, ~Handle(r)
      PROVE  At(r, pc)'
  BY <1>2, OnlyHandlerMoves DEF At, IsBusy
<1> QED
  BY <1>1, <1>2

\* What a fair handler that is never stuck does: it rests or steps, again and again.
GoesOn(r) == []<>~IsBusy(r) \/ []<><<Handle(r)>>_apiVars

\* Such a handler is answered from each of its steps.
LEMMA RunsToAnswer ==
  ASSUME NEW r \in Request
  PROVE  ApiSpec /\ GoesOn(r) => (IsBusy(r) ~> IsAnswered(r))
<1>1. /\ ApiInv /\ At(r, "launch") /\ [ApiNext]_apiVars
         => At(r, "launch")' \/ IsAnswered(r)'
      /\ ApiInv /\ At(r, "launch") /\ <<Handle(r)>>_apiVars => IsAnswered(r)'
  BY StepFrom DEF Busy
<1>2. /\ ApiInv /\ At(r, "soft_delete") /\ [ApiNext]_apiVars
         => At(r, "soft_delete")' \/ IsAnswered(r)'
      /\ ApiInv /\ At(r, "soft_delete") /\ <<Handle(r)>>_apiVars => IsAnswered(r)'
  BY StepFrom DEF Busy
<1>3. /\ ApiInv /\ At(r, "save") /\ [ApiNext]_apiVars
         => At(r, "save")' \/ At(r, "soft_delete")' \/ At(r, "launch")' \/ IsAnswered(r)'
      /\ ApiInv /\ At(r, "save") /\ <<Handle(r)>>_apiVars
         => At(r, "soft_delete")' \/ At(r, "launch")' \/ IsAnswered(r)'
  BY StepFrom DEF Busy
<1>4. /\ ApiInv /\ At(r, "get") /\ [ApiNext]_apiVars
         => At(r, "get")' \/ At(r, "save")' \/ IsAnswered(r)'
      /\ ApiInv /\ At(r, "get") /\ <<Handle(r)>>_apiVars => At(r, "save")' \/ IsAnswered(r)'
  BY StepFrom DEF Busy
<1>5. /\ ApiInv /\ At(r, "create") /\ [ApiNext]_apiVars
         => At(r, "create")' \/ At(r, "launch")' \/ IsAnswered(r)'
      /\ ApiInv /\ At(r, "create") /\ <<Handle(r)>>_apiVars
         => At(r, "launch")' \/ IsAnswered(r)'
  BY StepFrom DEF Busy
<1>6. IsBusy(r) <=> \/ At(r, "create") \/ At(r, "get") \/ At(r, "save")
                    \/ At(r, "soft_delete") \/ At(r, "launch")
  BY DEF IsBusy, Busy, At
<1>7. GoesOn(r) => []<>~IsBusy(r) \/ []<><<Handle(r)>>_apiVars
  BY DEF GoesOn
<1>8. ApiSpec => []ApiInv /\ [][ApiNext]_apiVars
  BY ApiInvariant, PTL DEF ApiSpec
<1>a. ApiSpec /\ GoesOn(r) => (At(r, "launch") ~> IsAnswered(r))
  BY <1>1, <1>6, <1>7, <1>8, PTL
<1>b. ApiSpec /\ GoesOn(r) => (At(r, "soft_delete") ~> IsAnswered(r))
  BY <1>2, <1>6, <1>7, <1>8, PTL
<1>c. ApiSpec /\ GoesOn(r) => (At(r, "save") ~> IsAnswered(r))
  BY <1>3, <1>6, <1>7, <1>8, <1>a, <1>b, PTL
<1>d. ApiSpec /\ GoesOn(r) => (At(r, "get") ~> IsAnswered(r))
  BY <1>4, <1>6, <1>7, <1>8, <1>c, PTL
<1>e. ApiSpec /\ GoesOn(r) => (At(r, "create") ~> IsAnswered(r))
  BY <1>5, <1>6, <1>7, <1>8, <1>a, PTL
<1> QED
  BY <1>6, <1>a, <1>b, <1>c, <1>d, <1>e, PTL

\* Every request that a handler has taken is answered: handlers run on, and
\* none is ever stuck.
THEOREM AnsweredInTheEnd ==
  FairApiSpec /\ []HandlersNeverStuck => EveryRequestAnswered
<1>1. ASSUME NEW r \in Request
      PROVE  FairApiSpec /\ []HandlersNeverStuck => (IsBusy(r) ~> IsAnswered(r))
  <2>1. HandlersNeverStuck => (IsBusy(r) => CanHandle(r))
    BY DEF HandlersNeverStuck, IsBusy, CanHandle
  <2>2. ApiFairness => HandlerRuns(r)
    BY DEF ApiFairness
  <2>3. HandlerRuns(r) /\ [](IsBusy(r) => CanHandle(r))
        => []<>~IsBusy(r) \/ []<><<Handle(r)>>_apiVars
    BY PTL DEF HandlerRuns, CanHandle
  <2>4. HandlerRuns(r) /\ [](IsBusy(r) => CanHandle(r)) => GoesOn(r)
    BY <2>3 DEF GoesOn
  <2>5. ApiSpec /\ GoesOn(r) => (IsBusy(r) ~> IsAnswered(r))
    BY RunsToAnswer
  <2> QED
    BY <2>1, <2>2, <2>4, <2>5, PTL DEF FairApiSpec
<1>2. FairApiSpec /\ []HandlersNeverStuck
      => \A r \in Request : IsBusy(r) ~> IsAnswered(r)
  BY <1>1
<1> QED
  BY <1>2 DEF EveryRequestAnswered, IsBusy, IsAnswered
=============================================================================
