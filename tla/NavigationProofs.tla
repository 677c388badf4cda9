-------------------------- MODULE NavigationProofs --------------------------
(***************************************************************************)
(* Proofs about module Navigation for every set of request ids and every   *)
(* configured limit.  The inductive invariant adds to the type invariant   *)
(* where the listener stands with its request and how far the command      *)
(* queue can be behind the request counter.                                *)
(***************************************************************************)
EXTENDS Navigation, FiniteSetTheorems, TLAPS

-----------------------------------------------------------------------------
(* What each budget method this module uses does to a well-typed budget    *)
(* within its limits.                                                      *)

(* A fresh budget is well typed and within its limits. *)
LEMMA FreshBudget ==
  newNavigationBudget \in Budgets /\ WithinLimits(newNavigationBudget)
BY BudgetAssumption DEF newNavigationBudget, Budgets, WithinLimits

(* Stopping a budget touches neither its counters nor its errors. *)
LEMMA StopKeeps ==
  ASSUME NEW b \in Budgets
  PROVE  /\ stop(b) \in Budgets
         /\ stop(b).requests = b.requests
         /\ stop(b).policyErr = b.policyErr
         /\ stop(b).infraErr = b.infraErr
         /\ WithinLimits(b) => WithinLimits(stop(b))
BY DEF Budgets, stop, WithinLimits

(* failPolicy keeps the counters and a policy error already recorded, and  *)
(* leaves some policy error behind.                                        *)
LEMMA FailPolicyKeeps ==
  ASSUME NEW b \in Budgets, NEW err \in Errors
  PROVE  /\ failPolicy(b, err) \in Budgets
         /\ failPolicy(b, err).requests = b.requests
         /\ failPolicy(b, err).policyErr # Nil
         /\ b.policyErr # Nil => failPolicy(b, err).policyErr = b.policyErr
         /\ WithinLimits(b) => WithinLimits(failPolicy(b, err))
BY DEF Budgets, failPolicy, stop, WithinLimits, Errors, PolicyErrors,
       InfraErrors, Nil

(* failInfrastructure touches the infrastructure slot only. *)
LEMMA FailInfrastructureKeeps ==
  ASSUME NEW b \in Budgets, NEW err \in Errors
  PROVE  /\ failInfrastructure(b, err) \in Budgets
         /\ failInfrastructure(b, err).requests = b.requests
         /\ failInfrastructure(b, err).policyErr = b.policyErr
         /\ WithinLimits(b) => WithinLimits(failInfrastructure(b, err))
BY DEF Budgets, failInfrastructure, WithinLimits

(* authorize stays within the request and redirect limits; when it returns *)
(* no error no policy error is recorded and the request has been counted.  *)
LEMMA AuthorizeKeeps ==
  ASSUME NEW b \in Budgets, NEW valid \in BOOLEAN, NEW redirect \in BOOLEAN
  PROVE  /\ authorize(b, valid, redirect) \in Budgets
         /\ authorize(b, valid, redirect).policyErr = b.policyErr
         /\ authorize(b, valid, redirect).requests >= b.requests
         /\ WithinLimits(b) => WithinLimits(authorize(b, valid, redirect))
         /\ authorizeErr(b, valid, redirect) \in Errors \cup {Nil}
         /\ authorizeErr(b, valid, redirect) = Nil
              => /\ b.policyErr = Nil
                 /\ authorize(b, valid, redirect).requests = b.requests + 1
<1>1. authorize(b, valid, redirect) \in Budgets
  <2> DEFINE redirects == IF redirect /\ b.redirects < MaxRedirects
                          THEN b.redirects + 1 ELSE b.redirects
  <2>1. redirects \in Nat /\ b.requests + 1 \in Nat
    BY DEF Budgets
  <2>2. authorize(b, valid, redirect)
          = IF ~valid \/ ~mayCount(b) THEN b
            ELSE [b EXCEPT !.requests = b.requests + 1, !.redirects = redirects]
    BY DEF authorize
  <2> QED
    BY <2>1, <2>2 DEF Budgets
<1>2. authorize(b, valid, redirect).policyErr = b.policyErr
  BY DEF Budgets, authorize
<1>3. authorize(b, valid, redirect).requests >= b.requests
  BY DEF Budgets, authorize
<1>4. WithinLimits(b) => WithinLimits(authorize(b, valid, redirect))
  BY BudgetAssumption DEF Budgets, authorize, mayCount, WithinLimits
<1>5. authorizeErr(b, valid, redirect) \in Errors \cup {Nil}
  BY DEF Budgets, authorizeErr, Errors, PolicyErrors
<1>6. authorizeErr(b, valid, redirect) = Nil
        => /\ b.policyErr = Nil
           /\ authorize(b, valid, redirect).requests = b.requests + 1
  BY DEF Budgets, authorizeErr, authorize, mayCount, Nil
<1> QED
  BY <1>1, <1>2, <1>3, <1>4, <1>5, <1>6

(* consumeDecoded does the same for decoded bytes. *)
LEMMA ConsumeDecodedKeeps ==
  ASSUME NEW b \in Budgets, NEW count \in Nat
  PROVE  /\ consumeDecoded(b, count) \in Budgets
         /\ consumeDecoded(b, count).policyErr = b.policyErr
         /\ consumeDecoded(b, count).requests = b.requests
         /\ WithinLimits(b) => WithinLimits(consumeDecoded(b, count))
         /\ consumeDecodedErr(b, count) \in Errors \cup {Nil}
BY BudgetAssumption
DEF Budgets, consumeDecoded, consumeDecodedErr, spendErr, fits, WithinLimits,
    Errors, PolicyErrors, Nil

(* A recorded policy error is what failure returns, whatever              *)
(* infrastructure error is recorded beside it.                             *)
LEMMA PolicyDominates ==
  ASSUME NEW b \in Budgets, b.policyErr # Nil
  PROVE  failure(b) = b.policyErr
BY DEF failure

-----------------------------------------------------------------------------

(* Between check and enqueue the listener holds a request id; before it    *)
(* reports it holds an error; nobody else enters its request in the map.   *)
ListenerInv ==
  /\ lpc \in Acquiring => lid \in RequestIDs
  /\ lpc \in {"reject", "failing"} => lerr \in Errors
  /\ lpc \in {"select", "push", "insert"} => lid \notin active

(* Every queued command was counted as a request; the request in the       *)
(* listener's hands is counted and not queued yet.                         *)
QueueInv ==
  /\ lpc \in Acquiring => Len(queue) < budget.requests
  /\ budget.policyErr = Nil => Len(queue) <= budget.requests

(* The inductive invariant. *)
IInv == TypeOK /\ BudgetCeilings /\ ListenerInv /\ QueueInv /\ SlotsBalanced
-----------------------------------------------------------------------------
(* Nil is no error and no request id is empty. *)
LEMMA Names == Nil \notin Errors /\ NoID \notin RequestIDs /\ "fail" \notin RequestIDs
BY NavigationAssumption DEF Nil, NoID, Errors, PolicyErrors, InfraErrors

(* The active map is finite and its size changes by one per element. *)
LEMMA ActiveSize ==
  ASSUME NEW S \in SUBSET RequestIDs, NEW id
  PROVE  /\ IsFiniteSet(S)
         /\ Cardinality(S) \in Nat
         /\ id \notin S => Cardinality(S \cup {id}) = Cardinality(S) + 1
         /\ id \in S => Cardinality(S \ {id}) = Cardinality(S) - 1
         /\ id \in S => Cardinality(S) > 0
         /\ id \notin S => S \ {id} = S
<1>1. IsFiniteSet(S)
  BY NavigationAssumption, FS_Subset
<1>2. Cardinality(S) \in Nat
  BY <1>1, FS_CardinalityType
<1>3. id \notin S => Cardinality(S \cup {id}) = Cardinality(S) + 1
  BY <1>1, FS_AddElement
<1>4. id \in S => Cardinality(S \ {id}) = Cardinality(S) - 1
  BY <1>1, FS_RemoveElement
<1>5. id \in S => Cardinality(S) > 0
  BY <1>1, <1>2, FS_EmptySet
<1> QED
  BY <1>1, <1>2, <1>3, <1>4, <1>5

(* The invariant holds initially. *)
LEMMA InitIInv == Init => IInv
<1> SUFFICES ASSUME Init PROVE IInv
  OBVIOUS
<1>1. Cardinality({}) = 0
  BY FS_EmptySet
<1>2. TypeOK
  <2>1. FlagTypes /\ MainTypes /\ GoroutineTypes
    BY DEF Init, FlagTypes, MainTypes, GoroutineTypes, Acquiring
  <2>2. SharedTypes
    <3>1. sem = 0 /\ blocked = 0 /\ active = {} /\ queue = <<>> /\ budget \in Budgets
      BY FreshBudget DEF Init
    <3> QED
      BY <3>1, NavigationAssumption DEF SharedTypes
  <2> QED
    BY <2>1, <2>2 DEF TypeOK
<1>3. BudgetCeilings
  BY FreshBudget DEF Init, BudgetCeilings
<1>4. ListenerInv
  BY DEF Init, ListenerInv, Acquiring
<1>5. QueueInv
  BY DEF Init, QueueInv, Acquiring, newNavigationBudget
<1>6. SlotsBalanced
  BY <1>1 DEF Init, SlotsBalanced, InFlight, One
<1> QED
  BY <1>2, <1>3, <1>4, <1>5, <1>6 DEF IInv

-----------------------------------------------------------------------------
(* The steps below are those whose proof needs more than the definition of *)
(* the action: a method of the budget, the size of the active map, or a    *)
(* Boolean flag that the solvers want apart from the arithmetic.           *)

(* A counted or refused data event preserves the invariant. *)
LEMMA DataReceivedStep ==
  ASSUME IInv, NEW count \in 1..MaxTransferBytes, DataReceived(count)
  PROVE  IInv'
<1> USE DEF IInv, TypeOK, DataReceived, EventDelivered, ctxVars, mainVars,
           workerVars, listenerVars
<1>1. budget \in Budgets /\ count \in Nat /\ WithinLimits(budget)
  BY BudgetAssumption DEF SharedTypes, BudgetCeilings
<1>2. /\ budget' \in Budgets /\ WithinLimits(budget')
      /\ budget'.requests = budget.requests
      /\ budget'.policyErr = budget.policyErr
      /\ lerr' \in Errors \cup {Nil}
  BY <1>1, ConsumeDecodedKeeps
<1>3. FlagTypes'
  BY DEF FlagTypes
<1>4. SharedTypes' /\ MainTypes' /\ BudgetCeilings'
  BY <1>2 DEF SharedTypes, MainTypes, BudgetCeilings
<1>5. GoroutineTypes' /\ ListenerInv'
  BY <1>2 DEF GoroutineTypes, ListenerInv, Acquiring
<1>6. QueueInv'
  BY <1>2 DEF QueueInv, Acquiring
<1>7. SlotsBalanced'
  BY DEF SlotsBalanced, InFlight, One
<1> QED
  BY <1>3, <1>4, <1>5, <1>6, <1>7

(* A paused request, admitted or refused, preserves the invariant. *)
LEMMA RequestPausedStep ==
  ASSUME IInv, NEW id \in RequestIDs \cup {NoID}, NEW validURL \in BOOLEAN,
         NEW redirect \in BOOLEAN, RequestPaused(id, validURL, redirect)
  PROVE  IInv'
<1> USE DEF IInv, TypeOK, ctxVars, mainVars, workerVars, listenerVars
<1> DEFINE err == authorizeErr(budget, validURL, redirect)
<1>1. budget \in Budgets /\ WithinLimits(budget)
  BY DEF SharedTypes, BudgetCeilings
<1>2. /\ budget' = authorize(budget, validURL, redirect)
      /\ budget' \in Budgets /\ WithinLimits(budget')
      /\ budget'.policyErr = budget.policyErr
      /\ budget'.requests >= budget.requests
      /\ err \in Errors \cup {Nil}
      /\ err = Nil => /\ budget.policyErr = Nil
                      /\ budget'.requests = budget.requests + 1
  BY <1>1, AuthorizeKeeps DEF RequestPaused
<1> HIDE DEF err
<1>3. /\ lid' = id /\ lpc = "idle" /\ events' = events + 1 /\ activity' = TRUE
      /\ UNCHANGED <<navCtx, runCanceled, taskDone, listenerStopped, sem,
                     active, queue, blocked, mpc, navErr, pops, result, wpc,
                     wcmd, watcher>>
  BY DEF RequestPaused, EventDelivered
<1>4. \/ err # Nil /\ lerr' = err /\ lpc' = "reject"
      \/ err = Nil /\ lerr' = "ErrUnsupportedTarget" /\ lpc' = "reject"
      \/ err = Nil /\ id # NoID /\ lerr' = Nil /\ lpc' = "check"
  BY DEF RequestPaused, err
<1>5. FlagTypes'
  BY <1>3 DEF FlagTypes
<1>6. SharedTypes' /\ MainTypes' /\ BudgetCeilings'
  BY <1>2, <1>3 DEF SharedTypes, MainTypes, BudgetCeilings
<1>7. GoroutineTypes' /\ ListenerInv'
  BY <1>2, <1>3, <1>4, Names
  DEF GoroutineTypes, ListenerInv, Acquiring, Errors, PolicyErrors
<1>8. QueueInv'
  BY <1>1, <1>2, <1>3, <1>4 DEF QueueInv, Acquiring, SharedTypes, Budgets
<1>9. SlotsBalanced'
  BY <1>3, <1>4 DEF SlotsBalanced, InFlight, One
<1> QED
  BY <1>5, <1>6, <1>7, <1>8, <1>9

(* The end of a request preserves the invariant. *)
LEMMA LoadingEndsStep ==
  ASSUME IInv, NEW id \in RequestIDs, LoadingEnds(id)
  PROVE  IInv'
<1> USE DEF IInv, TypeOK, LoadingEnds, EventDelivered, ctxVars, mainVars,
           workerVars, listenerVars
<1>1. FlagTypes'
  <2>1. CASE id \in active
    BY <2>1 DEF FlagTypes
  <2>2. CASE id \notin active
    <3>1. activity' = TRUE /\ events' = events + 1
      BY <2>2
    <3> HIDE DEF LoadingEnds
    <3>2. UNCHANGED <<navCtx, runCanceled, taskDone, listenerStopped, watcher>>
      BY DEF LoadingEnds
    <3> QED
      BY <3>1, <3>2 DEF FlagTypes
  <2> QED
    BY <2>1, <2>2
<1>2. SharedTypes' /\ MainTypes' /\ BudgetCeilings'
  BY DEF SharedTypes, MainTypes, BudgetCeilings
<1>3. GoroutineTypes' /\ ListenerInv' /\ QueueInv'
  BY DEF GoroutineTypes, ListenerInv, QueueInv, Acquiring
<1>4. SlotsBalanced'
  <2>1. active \in SUBSET RequestIDs
    BY DEF SharedTypes
  <2>2. CASE id \in active
    <3>1. Cardinality(active') = Cardinality(active) - 1
          /\ Cardinality(active) \in Nat
      BY <2>1, <2>2, ActiveSize
    <3> QED
      BY <2>2, <3>1 DEF SlotsBalanced, InFlight, One, MainTypes, SharedTypes
  <2>3. CASE id \notin active
    <3>1. active' = active
      BY <2>3
    <3> QED
      BY <2>3, <3>1 DEF SlotsBalanced, InFlight, One
  <2> QED
    BY <2>2, <2>3
<1> QED
  BY <1>1, <1>2, <1>3, <1>4

(* A failed DevTools command preserves the invariant. *)
LEMMA CommandFailsStep ==
  ASSUME IInv, CommandFails
  PROVE  IInv'
<1> USE DEF IInv, TypeOK, CommandFails, ctxVars, mainVars, listenerVars
<1>1. FlagTypes' /\ MainTypes' /\ BudgetCeilings'
  BY DEF FlagTypes, MainTypes, BudgetCeilings
<1>2. SharedTypes' /\ GoroutineTypes' /\ ListenerInv' /\ QueueInv'
  BY DEF SharedTypes, GoroutineTypes, ListenerInv, QueueInv, Acquiring
<1>3. SlotsBalanced'
  <2>1. active \in SUBSET RequestIDs
    BY DEF SharedTypes
  <2>2. CASE wpc = "call" /\ wcmd \in active /\ active' = active \ {wcmd}
             /\ wpc' = "pop"
    <3>1. Cardinality(active') = Cardinality(active) - 1
          /\ Cardinality(active) \in Nat
      BY <2>1, <2>2, ActiveSize
    <3> QED
      BY <2>2, <3>1 DEF SlotsBalanced, InFlight, One, MainTypes, SharedTypes
  <2>3. CASE wpc' = "report" /\ UNCHANGED active
    BY <2>3 DEF SlotsBalanced, InFlight, One
  <2> QED
    BY <2>2, <2>3
<1> QED
  BY <1>1, <1>2, <1>3

(* Handing an admitted request to the worker preserves the invariant. *)
LEMMA EnqueueContinueStep ==
  ASSUME IInv, EnqueueContinue
  PROVE  IInv'
<1> USE DEF IInv, TypeOK, EnqueueContinue, ctxVars, mainVars, workerVars
<1>1. Len(queue) < QueueCapacity
  BY BudgetAssumption
  DEF QueueInv, Acquiring, QueueCapacity, BudgetCeilings, WithinLimits,
      SharedTypes, Budgets
<1>2. queue' = Append(queue, lid) /\ UNCHANGED <<budget, sem, active>>
  BY <1>1
<1>3. lid \in RequestIDs /\ queue \in Seq(RequestIDs \cup {"fail"})
  BY DEF ListenerInv, Acquiring, SharedTypes
<1>4. queue' \in Seq(RequestIDs \cup {"fail"}) /\ Len(queue') = Len(queue) + 1
  BY <1>2, <1>3
<1>5. FlagTypes' /\ MainTypes' /\ BudgetCeilings'
  BY <1>2 DEF FlagTypes, MainTypes, BudgetCeilings
<1>6. SharedTypes' /\ GoroutineTypes' /\ ListenerInv'
  BY <1>2, <1>4 DEF SharedTypes, GoroutineTypes, ListenerInv, Acquiring
<1>7. QueueInv'
  BY <1>2, <1>4 DEF QueueInv, Acquiring, SharedTypes, Budgets
<1>8. SlotsBalanced'
  BY <1>2 DEF SlotsBalanced, InFlight, One
<1> QED
  BY <1>5, <1>6, <1>7, <1>8

(* Taking a command preserves the invariant. *)
LEMMA WorkerTakesStep ==
  ASSUME IInv, WorkerTakes
  PROVE  IInv'
<1> USE DEF IInv, TypeOK, WorkerTakes, ctxVars, mainVars, listenerVars
<1>1. /\ Head(queue) \in RequestIDs \cup {"fail"}
      /\ Tail(queue) \in Seq(RequestIDs \cup {"fail"})
      /\ Len(queue') = Len(queue) - 1
      /\ Len(queue) \in Nat
  BY DEF SharedTypes
<1>2. FlagTypes' /\ MainTypes' /\ BudgetCeilings'
  BY DEF FlagTypes, MainTypes, BudgetCeilings
<1>3. SharedTypes' /\ GoroutineTypes' /\ ListenerInv'
  BY <1>1 DEF SharedTypes, GoroutineTypes, ListenerInv, Acquiring
<1>4. QueueInv'
  BY <1>1 DEF QueueInv, Acquiring, SharedTypes, Budgets
<1>5. SlotsBalanced'
  BY DEF SlotsBalanced, InFlight, One
<1> QED
  BY <1>2, <1>3, <1>4, <1>5

(* Draining a command preserves the invariant. *)
LEMMA WorkerDrainsStep ==
  ASSUME IInv, WorkerDrains
  PROVE  IInv'
<1> USE DEF IInv, TypeOK, WorkerDrains, ctxVars, mainVars, listenerVars
<1> DEFINE id == Head(queue)
<1>1. /\ Tail(queue) \in Seq(RequestIDs \cup {"fail"})
      /\ Len(queue') = Len(queue) - 1
      /\ Len(queue) \in Nat
  BY DEF SharedTypes
<1>2. FlagTypes' /\ MainTypes' /\ BudgetCeilings'
  BY DEF FlagTypes, MainTypes, BudgetCeilings
<1>3. SharedTypes' /\ GoroutineTypes' /\ ListenerInv'
  BY <1>1 DEF SharedTypes, GoroutineTypes, ListenerInv, Acquiring
<1>4. QueueInv'
  BY <1>1 DEF QueueInv, Acquiring, SharedTypes, Budgets
<1>5. SlotsBalanced'
  <2>1. active \in SUBSET RequestIDs
    BY DEF SharedTypes
  <2>2. CASE id \in active
    <3>1. Cardinality(active') = Cardinality(active) - 1
          /\ Cardinality(active) \in Nat
      BY <2>1, <2>2, ActiveSize
    <3> QED
      BY <2>2, <3>1 DEF SlotsBalanced, InFlight, One, MainTypes, SharedTypes
  <2>3. CASE id \notin active
    <3>1. active' = active
      BY <2>3
    <3> QED
      BY <2>3, <3>1 DEF SlotsBalanced, InFlight, One
  <2> QED
    BY <2>2, <2>3
<1> QED
  BY <1>2, <1>3, <1>4, <1>5

(* The return of the navigation preserves the invariant. *)
LEMMA ReturnStep ==
  ASSUME IInv, Return
  PROVE  IInv'
<1> USE DEF IInv, TypeOK, Return, ctxVars, workerVars, listenerVars
<1>1. budget \in Budgets /\ WithinLimits(budget)
  BY DEF SharedTypes, BudgetCeilings
<1>2. /\ budget' \in Budgets /\ WithinLimits(budget')
      /\ budget'.requests = budget.requests
      /\ budget'.policyErr = budget.policyErr
  BY <1>1, StopKeeps
<1>3. Classified \in {"ok", "setup", "failed"} \cup Errors
  BY <1>1 DEF Classified, failure, Budgets, MainTypes, FlagTypes, Nil, Errors,
              InfraErrors
<1>4. FlagTypes' /\ MainTypes'
  BY <1>3 DEF FlagTypes, MainTypes
<1>5. SharedTypes' /\ BudgetCeilings' /\ QueueInv'
  BY <1>2 DEF SharedTypes, BudgetCeilings, QueueInv
<1>6. GoroutineTypes' /\ ListenerInv' /\ SlotsBalanced'
  BY DEF GoroutineTypes, ListenerInv, SlotsBalanced, InFlight, One
<1> QED
  BY <1>4, <1>5, <1>6

(* The watcher preserves the invariant. *)
LEMMA WatcherWakesStep ==
  ASSUME IInv, WatcherWakes
  PROVE  IInv'
<1> USE DEF IInv, TypeOK, WatcherWakes, mainVars, workerVars, listenerVars
<1>1. budget \in Budgets /\ WithinLimits(budget)
  BY DEF SharedTypes, BudgetCeilings
<1>2. /\ budget' \in Budgets /\ WithinLimits(budget')
      /\ budget'.requests = budget.requests
      /\ budget'.policyErr = budget.policyErr
  BY <1>1, StopKeeps
<1>3. FlagTypes' /\ MainTypes'
  <2>1. runCanceled' = TRUE \/ runCanceled' = runCanceled
    OBVIOUS
  <2>2. watcher' = "exited" /\ MainTypes'
        /\ UNCHANGED <<navCtx, taskDone, listenerStopped, activity, events>>
    BY DEF MainTypes
  <2> HIDE DEF WatcherWakes
  <2> QED
    BY <2>1, <2>2 DEF FlagTypes
<1>4. SharedTypes' /\ BudgetCeilings' /\ QueueInv'
  BY <1>2 DEF SharedTypes, BudgetCeilings, QueueInv
<1>5. GoroutineTypes' /\ ListenerInv' /\ SlotsBalanced'
  BY DEF GoroutineTypes, ListenerInv, SlotsBalanced, InFlight, One
<1> QED
  BY <1>3, <1>4, <1>5

(* A forbidden channel or target preserves the invariant. *)
LEMMA ForbiddenChannelStep ==
  ASSUME IInv, NEW err \in {"ErrInvalidURL", "ErrUnsupportedTarget"},
         ForbiddenChannel(err) \/ BlockedTargetAttached
  PROVE  IInv'
<1> USE DEF IInv, TypeOK, ForbiddenChannel, BlockedTargetAttached,
           EventDelivered, ctxVars, mainVars, workerVars, listenerVars
<1>1. budget \in Budgets /\ WithinLimits(budget)
  BY DEF SharedTypes, BudgetCeilings
<1>2. err \in Errors /\ "ErrUnsupportedTarget" \in Errors
  BY DEF Errors, PolicyErrors
<1>3. /\ budget' \in Budgets /\ WithinLimits(budget')
      /\ budget'.requests = budget.requests
      /\ budget'.policyErr # Nil
  BY <1>1, <1>2, FailPolicyKeeps
<1>4. FlagTypes' /\ MainTypes'
  BY DEF FlagTypes, MainTypes
<1>5. blocked' \in 0..BlockedCapacity
  BY NavigationAssumption DEF SharedTypes
<1>6. SharedTypes' /\ BudgetCeilings' /\ QueueInv'
  BY <1>3, <1>5 DEF SharedTypes, BudgetCeilings, QueueInv
<1>7. GoroutineTypes' /\ ListenerInv' /\ SlotsBalanced'
  BY DEF GoroutineTypes, ListenerInv, SlotsBalanced, InFlight, One
<1> QED
  BY <1>4, <1>6, <1>7

(* Steps that only move main or a flag preserve the invariant. *)
LEMMA QuietStep ==
  ASSUME IInv, StageSucceeds \/ QuietActivity \/ QuietIdle \/ UNCHANGED vars
  PROVE  IInv'
<1> USE DEF IInv, TypeOK, StageSucceeds, QuietActivity, QuietIdle, AfterQuiet,
           vars, ctxVars, mainVars, workerVars, listenerVars
<1>1. FlagTypes'
  BY DEF FlagTypes
<1>2. MainTypes'
  BY DEF MainTypes
<1>3. SharedTypes' /\ BudgetCeilings' /\ QueueInv'
  BY DEF SharedTypes, BudgetCeilings, QueueInv
<1>4. GoroutineTypes' /\ ListenerInv'
  BY DEF GoroutineTypes, ListenerInv
<1>5. SlotsBalanced'
  BY DEF SlotsBalanced, InFlight, One
<1> QED
  BY <1>1, <1>2, <1>3, <1>4, <1>5

(* Every step preserves the invariant. *)
LEMMA NextIInv == IInv /\ [Next]_vars => IInv'
<1> SUFFICES ASSUME IInv, [Next]_vars PROVE IInv'
  OBVIOUS
<1> USE Names DEF IInv, TypeOK, BudgetCeilings, Acquiring, FlagTypes,
       SharedTypes, MainTypes, GoroutineTypes, ListenerInv, QueueInv,
       SlotsBalanced, InFlight, One, ctxVars, mainVars, workerVars, listenerVars
<1> active \in SUBSET RequestIDs /\ budget \in Budgets
  OBVIOUS
<1> Cardinality(active) \in Nat
  BY ActiveSize
<1>1. CASE \E why \in {"context.Canceled", "context.DeadlineExceeded"} : ContextEnds(why)
  BY <1>1 DEF ContextEnds
<1>2. CASE BrowserExits
  BY <1>2 DEF BrowserExits
<1>3. CASE ProxyCloses
  BY StopKeeps, <1>3 DEF ProxyCloses
<1>4. CASE \E err \in {"ErrForbiddenDestination", "transport"} : ProxyFails(err)
  BY FailPolicyKeeps, FailInfrastructureKeeps, <1>4
  DEF ProxyFails, Errors, PolicyErrors, InfraErrors, isPolicyError
<1>5. CASE \E count \in 1..MaxTransferBytes : DataReceived(count)
  BY <1>5, DataReceivedStep
<1>6. CASE PausedWithoutRequest
  BY FailInfrastructureKeeps, <1>6
  DEF PausedWithoutRequest, EventDelivered, Errors, InfraErrors
<1>7. CASE \E id \in RequestIDs \cup {NoID}, validURL, redirect \in BOOLEAN :
                RequestPaused(id, validURL, redirect)
  BY <1>7, RequestPausedStep
<1>8. CASE \E id \in RequestIDs : LoadingEnds(id)
  BY <1>8, LoadingEndsStep
<1>9. CASE \E err \in {"ErrInvalidURL", "ErrUnsupportedTarget"} : ForbiddenChannel(err)
  BY <1>9, ForbiddenChannelStep
<1>10. CASE BlockedTargetAttached
  BY <1>10, ForbiddenChannelStep
<1>11. CASE CommandSucceeds
  BY <1>11 DEF CommandSucceeds
<1>12. CASE CommandFails
  BY <1>12, CommandFailsStep
<1>13. CASE RejectPaused
  BY FailPolicyKeeps, <1>13 DEF RejectPaused
<1>14. CASE ReportPolicy
  BY FailPolicyKeeps, <1>14 DEF ReportPolicy
<1>15. CASE AcquireCheck
  BY <1>15 DEF AcquireCheck
<1>16. CASE AcquireSelect
  BY <1>16 DEF AcquireSelect, Errors, PolicyErrors, InfraErrors
<1>17. CASE AcquirePush
  BY NavigationAssumption, <1>17
  DEF AcquirePush, SlotFree, Errors, PolicyErrors
<1>18. CASE AcquireInsert
  BY ActiveSize, <1>18 DEF AcquireInsert
<1>19. CASE EnqueueContinue
  BY <1>19, EnqueueContinueStep
<1>20. CASE ListenerPop
  BY NavigationAssumption, <1>20 DEF ListenerPop
<1>21. CASE WorkerTakes
  BY <1>21, WorkerTakesStep
<1>22. CASE WorkerTakesTarget
  BY NavigationAssumption, <1>22 DEF WorkerTakesTarget
<1>23. CASE WorkerPop
  BY NavigationAssumption, <1>23 DEF WorkerPop
<1>24. CASE WorkerReports
  BY FailInfrastructureKeeps, <1>24
  DEF WorkerReports, Errors, InfraErrors
<1>25. CASE WorkerStops
  BY <1>25 DEF WorkerStops
<1>26. CASE WorkerDrains
  BY <1>26, WorkerDrainsStep
<1>27. CASE WorkerDrainPop
  BY NavigationAssumption, <1>27 DEF WorkerDrainPop
<1>28. CASE WorkerDrainsTarget
  BY NavigationAssumption, <1>28 DEF WorkerDrainsTarget
<1>29. CASE WorkerExits
  BY <1>29 DEF WorkerExits
<1>30. CASE StageSucceeds
  BY <1>30, QuietStep
<1>31. CASE \E err \in {"failed", "context.Canceled"} : StageFails(err)
  BY <1>31 DEF StageFails
<1>32. CASE QuietActivity
  BY <1>32, QuietStep
<1>33. CASE QuietIdle
  BY <1>33, QuietStep
<1>34. CASE QuietDeadline
  BY <1>34 DEF QuietDeadline, AfterQuiet
<1>35. CASE QuietCanceled
  BY <1>35 DEF QuietCanceled
<1>36. CASE StopListener
  BY <1>36 DEF StopListener
<1>37. CASE CloseStopWorker
  BY <1>37 DEF CloseStopWorker
<1>38. CASE JoinWorker
  BY <1>38 DEF JoinWorker
<1>39. CASE ReleaseAll
  BY ActiveSize, FS_EmptySet, <1>39 DEF ReleaseAll
<1>40. CASE MainPop
  BY NavigationAssumption, <1>40 DEF MainPop
<1>41. CASE CleanupDone
  BY <1>41 DEF CleanupDone
<1>42. CASE Return
  BY <1>42, ReturnStep
<1>43. CASE WatcherWakes
  BY <1>43, WatcherWakesStep
<1>44. CASE Finished \/ UNCHANGED vars
  BY <1>44, QuietStep DEF Finished
<1> HIDE DEF IInv
<1> QED
  BY <1>1, <1>2, <1>3, <1>4, <1>5, <1>6, <1>7, <1>8, <1>9, <1>10, <1>11,
     <1>12, <1>13, <1>14, <1>15, <1>16, <1>17, <1>18, <1>19, <1>20, <1>21,
     <1>22, <1>23, <1>24, <1>25, <1>26, <1>27, <1>28, <1>29, <1>30, <1>31,
     <1>32, <1>33, <1>34, <1>35, <1>36, <1>37, <1>38, <1>39, <1>40, <1>41,
     <1>42, <1>43, <1>44
  DEF Next, Environment, Listener, Worker, Stage, Teardown
-----------------------------------------------------------------------------
(* The invariant holds on every run. *)
LEMMA IInvHolds == Spec => []IInv
BY InitIInv, NextIInv, PTL DEF Spec

(* Every variable keeps its type on every run. *)
THEOREM TypeCorrect == Spec => []TypeOK
<1>1. IInv => TypeOK
  BY DEF IInv
<1> QED
  BY <1>1, IInvHolds, PTL

(* No interleaving of the listener, the worker and releaseAll loses or     *)
(* duplicates a token of browserRequestTracker's semaphore.                *)
THEOREM SlotAccounting == Spec => []SlotsBalanced
<1>1. IInv => SlotsBalanced
  BY DEF IInv
<1> QED
  BY <1>1, IInvHolds, PTL

(* release and releaseAll never wait for a token that is not there.        *)
THEOREM NonBlockingRelease == Spec => []ReleaseNeverBlocks
<1>1. IInv => ReleaseNeverBlocks
  <2> SUFFICES ASSUME IInv PROVE ReleaseNeverBlocks
    OBVIOUS
  <2>1. Cardinality(active) \in Nat /\ pops \in Nat
    BY ActiveSize DEF IInv, TypeOK, SharedTypes, MainTypes
  <2>2. sem = Cardinality(active) + InFlight
    BY DEF IInv, SlotsBalanced
  <2> QED
    BY <2>1, <2>2 DEF ReleaseNeverBlocks, InFlight, One
<1> QED
  BY <1>1, IInvHolds, PTL

(* The number of active request lifecycles stays under the configured      *)
(* ceiling, whatever the page requests.                                    *)
THEOREM ActiveRequestsBounded == Spec => []ConcurrencyCeiling
<1>1. IInv => ConcurrencyCeiling
  <2> SUFFICES ASSUME IInv PROVE ConcurrencyCeiling
    OBVIOUS
  <2>1. /\ Cardinality(active) \in Nat /\ pops \in Nat
        /\ sem \in 0..MaxConcurrentRequests /\ MaxConcurrentRequests \in Nat
    BY ActiveSize, NavigationAssumption
    DEF IInv, TypeOK, SharedTypes, MainTypes
  <2>2. sem = Cardinality(active) + InFlight
    BY DEF IInv, SlotsBalanced
  <2> QED
    BY <2>1, <2>2 DEF ConcurrencyCeiling, InFlight, One
<1> QED
  BY <1>1, IInvHolds, PTL

(* The request, redirect and byte counters never pass their limits.        *)
THEOREM BudgetBounded == Spec => []BudgetCeilings
<1>1. IInv => BudgetCeilings
  BY DEF IInv
<1> QED
  BY <1>1, IInvHolds, PTL

(* An authorized request that holds a slot always fits in pausedCommands.  *)
THEOREM QueueNeverFull == Spec => []QueueNeverOverflows
<1>1. IInv => QueueNeverOverflows
  BY BudgetAssumption
  DEF IInv, TypeOK, SharedTypes, Budgets, BudgetCeilings, WithinLimits, QueueInv,
      Acquiring, QueueNeverOverflows, QueueCapacity
<1> QED
  BY <1>1, IInvHolds, PTL
-----------------------------------------------------------------------------
(* What PolicyErrorKept asks of one step. *)
PolicyStep ==
  budget.policyErr # Nil
    => /\ budget'.policyErr = budget.policyErr
       /\ result' # result => result' = budget.policyErr

(* Every step from a state of the invariant keeps the policy error. *)
LEMMA NextPolicyStep == IInv /\ [Next]_vars => PolicyStep
<1> SUFFICES ASSUME IInv, [Next]_vars, budget.policyErr # Nil
             PROVE  /\ budget'.policyErr = budget.policyErr
                    /\ result' # result => result' = budget.policyErr
  BY DEF PolicyStep
<1>1. budget \in Budgets /\ lerr \in Errors \cup {Nil}
  BY DEF IInv, TypeOK, SharedTypes, GoroutineTypes
<1>2. \A err \in Errors : failPolicy(budget, err).policyErr = budget.policyErr
  BY <1>1, FailPolicyKeeps
<1>3. \A err \in Errors :
        failInfrastructure(budget, err).policyErr = budget.policyErr
  BY <1>1, FailInfrastructureKeeps
<1>4. stop(budget).policyErr = budget.policyErr
  BY <1>1, StopKeeps
<1> USE DEF mainVars
<1>5. CASE \/ ProxyCloses \/ PausedWithoutRequest \/ BlockedTargetAttached
           \/ WorkerReports \/ WatcherWakes
           \/ \E err \in {"ErrForbiddenDestination", "transport"} : ProxyFails(err)
           \/ \E err \in {"ErrInvalidURL", "ErrUnsupportedTarget"} :
                 ForbiddenChannel(err)
  BY <1>2, <1>3, <1>4, <1>5
  DEF ProxyCloses, PausedWithoutRequest, BlockedTargetAttached, WorkerReports,
      WatcherWakes, ProxyFails, ForbiddenChannel, Errors, PolicyErrors,
      InfraErrors
<1>6. CASE \E count \in 1..MaxTransferBytes : DataReceived(count)
  <2>1. PICK count \in 1..MaxTransferBytes : DataReceived(count)
    BY <1>6
  <2>2. count \in Nat
    BY BudgetAssumption
  <2> QED
    BY <1>1, <2>1, <2>2, ConsumeDecodedKeeps DEF DataReceived
<1>7. CASE \E id \in RequestIDs \cup {NoID}, validURL, redirect \in BOOLEAN :
                RequestPaused(id, validURL, redirect)
  BY <1>1, <1>7, AuthorizeKeeps DEF RequestPaused
<1>8. CASE RejectPaused \/ ReportPolicy
  <2>1. lerr \in Errors
    BY <1>8 DEF IInv, ListenerInv, RejectPaused, ReportPolicy
  <2> QED
    BY <1>2, <1>8, <2>1 DEF RejectPaused, ReportPolicy
<1>9. CASE EnqueueContinue
  BY <1>2, <1>9 DEF EnqueueContinue, Errors, PolicyErrors
<1>10. CASE Return
  BY <1>1, <1>4, <1>10, PolicyDominates DEF Return, Classified
<1>11. ASSUME UNCHANGED <<budget, result>>
       PROVE  /\ budget'.policyErr = budget.policyErr
              /\ result' # result => result' = budget.policyErr
  BY <1>11
<1>12. CASE \/ \E why \in {"context.Canceled", "context.DeadlineExceeded"} :
                  ContextEnds(why)
            \/ BrowserExits
            \/ \E id \in RequestIDs : LoadingEnds(id)
            \/ CommandSucceeds \/ CommandFails
  BY <1>11, <1>12
  DEF ContextEnds, BrowserExits, LoadingEnds, CommandSucceeds, CommandFails
<1>13. CASE \/ AcquireCheck \/ AcquireSelect \/ AcquirePush \/ AcquireInsert
            \/ ListenerPop
  BY <1>11, <1>13
  DEF AcquireCheck, AcquireSelect, AcquirePush, AcquireInsert, ListenerPop
<1>14. CASE \/ WorkerTakes \/ WorkerTakesTarget \/ WorkerPop \/ WorkerStops
            \/ WorkerDrains \/ WorkerDrainPop \/ WorkerDrainsTarget \/ WorkerExits
  BY <1>11, <1>14
  DEF WorkerTakes, WorkerTakesTarget, WorkerPop, WorkerStops, WorkerDrains,
      WorkerDrainPop, WorkerDrainsTarget, WorkerExits
<1>15. CASE Stage
  BY <1>11, <1>15
  DEF Stage, StageSucceeds, StageFails, QuietActivity, QuietIdle, QuietDeadline,
      QuietCanceled
<1>16. CASE \/ StopListener \/ CloseStopWorker \/ JoinWorker \/ ReleaseAll
            \/ MainPop \/ CleanupDone
  BY <1>11, <1>16
  DEF StopListener, CloseStopWorker, JoinWorker, ReleaseAll, MainPop, CleanupDone
<1>17. CASE Finished \/ UNCHANGED vars
  BY <1>11, <1>17 DEF Finished, vars
<1> QED
  BY <1>5, <1>6, <1>7, <1>8, <1>9, <1>10, <1>12, <1>13, <1>14, <1>15, <1>16,
     <1>17
  DEF Next, Environment, Listener, Worker, Teardown

(* A recorded policy error is never replaced, and it is what the           *)
(* navigation returns: cancellation, deadlines, infrastructure errors and  *)
(* later policy errors do not take its place.                              *)
THEOREM PolicyErrorDominates == Spec => PolicyErrorKept
<1>1. IInv /\ [Next]_vars => [PolicyStep]_vars
  BY NextPolicyStep
<1>2. [][PolicyStep]_vars => PolicyErrorKept
  BY DEF PolicyErrorKept, PolicyStep
<1> QED
  BY <1>1, <1>2, IInvHolds, PTL DEF Spec
=============================================================================
