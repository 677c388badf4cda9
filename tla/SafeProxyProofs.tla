--------------------------- MODULE SafeProxyProofs ---------------------------
(***************************************************************************)
(* Proofs about SafeProxy for any number of navigations, tunnels and       *)
(* forwarded requests and for every limit.  A budget only evolves: it      *)
(* stays within its limits, a stop is never undone and a policy error      *)
(* never replaced.  The rest says who may hold which budget.               *)
(***************************************************************************)
EXTENDS SafeProxy, TLAPS

-----------------------------------------------------------------------------
(* What each budget method this module uses does to a well-typed budget    *)
(* within its limits.                                                      *)

(* A fresh budget is well typed and within its limits. *)
LEMMA FreshBudget ==
  newNavigationBudget \in Budgets /\ WithinLimits(newNavigationBudget)
BY BudgetAssumption DEF newNavigationBudget, Budgets, WithinLimits

(* Stopping a budget touches neither its counters nor its errors. *)
LEMMA StopKeeps ==
  ASSUME NEW b \in Budgets
  PROVE  /\ stop(b) \in Budgets
         /\ stop(b).requests = b.requests
         /\ stop(b).policyErr = b.policyErr
         /\ stop(b).infraErr = b.infraErr
         /\ WithinLimits(b) => WithinLimits(stop(b))
BY DEF Budgets, stop, WithinLimits

(* failPolicy keeps the counters and a policy error already recorded, and  *)
(* leaves some policy error behind.                                        *)
LEMMA FailPolicyKeeps ==
  ASSUME NEW b \in Budgets, NEW err \in Errors
  PROVE  /\ failPolicy(b, err) \in Budgets
         /\ failPolicy(b, err).requests = b.requests
         /\ failPolicy(b, err).policyErr # Nil
         /\ b.policyErr # Nil => failPolicy(b, err).policyErr = b.policyErr
         /\ WithinLimits(b) => WithinLimits(failPolicy(b, err))
BY DEF Budgets, failPolicy, stop, WithinLimits, Errors, PolicyErrors,
       InfraErrors, Nil

(* failInfrastructure touches the infrastructure slot only. *)
LEMMA FailInfrastructureKeeps ==
  ASSUME NEW b \in Budgets, NEW err \in Errors \cup {Nil}
  PROVE  /\ failInfrastructure(b, err) \in Budgets
         /\ failInfrastructure(b, err).requests = b.requests
         /\ failInfrastructure(b, err).policyErr = b.policyErr
         /\ WithinLimits(b) => WithinLimits(failInfrastructure(b, err))
BY DEF Budgets, failInfrastructure, WithinLimits

(* authorizeProxy stays within the request limit. *)
LEMMA AuthorizeProxyKeeps ==
  ASSUME NEW b \in Budgets
  PROVE  /\ authorizeProxy(b) \in Budgets
         /\ authorizeProxy(b).policyErr = b.policyErr
         /\ authorizeProxy(b).done = b.done
         /\ authorizeProxy(b).infraErr = b.infraErr
         /\ WithinLimits(b) => WithinLimits(authorizeProxy(b))
         /\ authorizeProxyErr(b) \in Errors \cup {Nil}
BY BudgetAssumption
DEF Budgets, authorizeProxy, authorizeProxyErr, WithinLimits, Errors,
    PolicyErrors, Nil

(* consume never spends more than what is left of the transfer budget. *)
LEMMA ConsumeKeeps ==
  ASSUME NEW b \in Budgets, NEW count \in Nat
  PROVE  /\ consume(b, count) \in Budgets
         /\ consume(b, count).policyErr = b.policyErr
         /\ consume(b, count).done = b.done
         /\ consume(b, count).infraErr = b.infraErr
         /\ WithinLimits(b) => WithinLimits(consume(b, count))
         /\ consumeErr(b, count) \in Errors \cup {Nil}
BY BudgetAssumption
DEF Budgets, consume, consumeErr, spendErr, fits, WithinLimits, Errors,
    PolicyErrors, Nil

(* A recorded policy error is what failure returns, whatever              *)
(* infrastructure error is recorded beside it.                             *)
LEMMA PolicyDominates ==
  ASSUME NEW b \in Budgets, b.policyErr # Nil
  PROVE  failure(b) = b.policyErr
BY DEF failure

-----------------------------------------------------------------------------

(* A budget as every method leaves it. *)
Sound(b) ==
  /\ b \in Budgets
  /\ WithinLimits(b)
  /\ b.policyErr \in PolicyErrors \cup {Nil}

(* What no method undoes. *)
Evolves(b, c) ==
  /\ Sound(c)
  /\ b.done => c.done
  /\ b.policyErr # Nil => c.policyErr = b.policyErr

(* What a handler may do to its budget: it stops it by a policy error only. *)
Works(b, c) == Evolves(b, c) /\ (c.done => b.done \/ c.policyErr # Nil)

SoundBudgets == \A n \in Navigations : Sound(budgets[n])

(* The installed budget is that of a navigation under way; a handler holds *)
(* the budget of one that is or was; whatever else was installed is        *)
(* stopped, or about to be by end or Close.                                *)
Installed ==
  /\ active # None => npc[active] = "active"
  /\ \A h \in Handlers : hnav[h] # None => npc[hnav[h]] \in {"active", "ending", "ended"}
  /\ \A n \in Navigations :
       npc[n] = "active" /\ active # n => budgets[n].done \/ BeingStopped(n)
  /\ \A n \in Navigations : npc[n] = "ended" => budgets[n].done

(* A budget is stopped by a policy error, by a begin that was refused, by  *)
(* end or by Close: nobody else stops one.                                 *)
StopsExplained ==
  \A n \in Navigations :
    budgets[n].done => budgets[n].policyErr # Nil \/ npc[n] = "refused" \/ Over(n)

(* A handler beyond its start, and a tunnel copy, hold a budget. *)
Holds(h) ==
  hpc[h] \in Running \ {"started"} \/ copiers[h] > 0 => hnav[h] \in Navigations

(* Two copies or results as long as the tunnel is open; connect takes at   *)
(* most one, and none only if it found the budget stopped.                 *)
Counted(h) ==
  /\ hpc[h] \notin {"tunnel", "record", "done"} => copiers[h] + Len(results[h]) = 0
  /\ hpc[h] = "tunnel" => copiers[h] + Len(results[h]) = 2
  /\ hpc[h] = "record" => copiers[h] + Len(results[h]) <= 1
  /\ copiers[h] + Len(results[h]) <= 2
  /\ hpc[h] = "done" /\ copiers[h] + Len(results[h]) = 2 =>
       hnav[h] \in Navigations /\ budget(h).done

(* A policy error that a handler met belongs to its budget; of a tunnel it *)
(* is recorded there, or still in the channel.                             *)
Kept(h) ==
  \A n \in Navigations : <<n, h>> \in refused =>
    /\ hpc[h] \notin {"new", "started"}
    /\ hnav[h] = n
    /\ h \in Tunnels => budgets[n].policyErr # Nil \/ Unread(h)

(* Close sets the flag first, and joins the handlers last. *)
CloseOrdered ==
  /\ closing <=> cpc # "open"
  /\ ClosedMeansQuiet

IInv == /\ TypeOK /\ SoundBudgets /\ Installed /\ StopsExplained /\ CloseOrdered
        /\ \A h \in Handlers : Holds(h) /\ Counted(h) /\ Kept(h)
-----------------------------------------------------------------------------
(* Every method of the budget lets it evolve. *)
LEMMA StopEvolves ==
  ASSUME NEW b, Sound(b)
  PROVE  Evolves(b, stop(b)) /\ stop(b).done /\ Evolves(b, b)
<1>1. b \in Budgets /\ WithinLimits(b)
  BY DEF Sound
<1>2. stop(b) \in Budgets /\ WithinLimits(stop(b)) /\ stop(b).policyErr = b.policyErr
  BY <1>1, StopKeeps
<1>3. stop(b).done
  BY <1>1 DEF stop, Budgets
<1> QED
  BY <1>1, <1>2, <1>3 DEF Evolves, Sound

LEMMA FailPolicyWorks ==
  ASSUME NEW b, Sound(b), NEW err \in PolicyErrors
  PROVE  Works(b, failPolicy(b, err)) /\ failPolicy(b, err).policyErr # Nil
<1>1. b \in Budgets /\ WithinLimits(b) /\ err \in Errors
  BY DEF Sound, Errors
<1>2. /\ failPolicy(b, err) \in Budgets /\ WithinLimits(failPolicy(b, err))
      /\ failPolicy(b, err).policyErr # Nil
      /\ b.policyErr # Nil => failPolicy(b, err).policyErr = b.policyErr
  BY <1>1, FailPolicyKeeps
<1>3. failPolicy(b, err).policyErr \in PolicyErrors \cup {Nil}
  BY <1>1 DEF Sound, failPolicy, stop, Budgets
<1>4. b.done => failPolicy(b, err).done
  BY <1>1 DEF failPolicy, stop, Budgets
<1> QED
  BY <1>2, <1>3, <1>4 DEF Works, Evolves, Sound

LEMMA FailInfrastructureWorks ==
  ASSUME NEW b, Sound(b), NEW err \in Errors \cup {Nil}
  PROVE  Works(b, failInfrastructure(b, err))
<1>1. b \in Budgets /\ WithinLimits(b)
  BY DEF Sound
<1>2. /\ failInfrastructure(b, err) \in Budgets
      /\ WithinLimits(failInfrastructure(b, err))
      /\ failInfrastructure(b, err).policyErr = b.policyErr
  BY <1>1, FailInfrastructureKeeps
<1>3. failInfrastructure(b, err).done = b.done
  BY <1>1 DEF failInfrastructure, Budgets
<1> QED
  BY <1>2, <1>3 DEF Works, Evolves, Sound

LEMMA ChargesWork ==
  ASSUME NEW b, Sound(b)
  PROVE  /\ Works(b, b)
         /\ Works(b, authorizeProxy(b))
         /\ authorizeProxyErr(b) \in PolicyErrors \cup {Nil}
         /\ Works(b, consume(b, 1))
         /\ consumeErr(b, 1) \in PolicyErrors \cup {Nil}
<1>1. b \in Budgets /\ WithinLimits(b) /\ 1 \in Nat
  BY DEF Sound
<1>2. Works(b, authorizeProxy(b))
  BY <1>1, AuthorizeProxyKeeps DEF Works, Evolves, Sound
<1>3. Works(b, consume(b, 1))
  BY <1>1, ConsumeKeeps DEF Works, Evolves, Sound
<1>4. authorizeProxyErr(b) \in PolicyErrors \cup {Nil}
  BY DEF Sound, authorizeProxyErr, PolicyErrors
<1>5. consumeErr(b, 1) \in PolicyErrors \cup {Nil}
  BY DEF Sound, consumeErr, spendErr, PolicyErrors
<1>6. Works(b, b)
  BY DEF Works, Evolves
<1> QED
  BY <1>2, <1>3, <1>4, <1>5, <1>6

(* The errors the actions draw are errors, and their names differ. *)
LEMMA Names ==
  /\ Nil \notin Errors /\ PolicyErrors \subseteq Errors
  /\ {"transport", "ErrForbiddenDestination", "ErrInvalidURL"} \subseteq Errors
  /\ {"ErrForbiddenDestination", "ErrInvalidURL"} \subseteq PolicyErrors
BY DEF Nil, Errors, PolicyErrors, InfraErrors
-----------------------------------------------------------------------------
(* The invariant holds initially. *)
LEMMA InitIInv == Init => IInv
<1> SUFFICES ASSUME Init PROVE IInv
  OBVIOUS
<1>1. Sound(newNavigationBudget)
  BY FreshBudget DEF Sound, newNavigationBudget
<1>2. TypeOK
  <2>1. results \in [Handlers -> Seq(Errors \cup {Nil})]
    <3>1. <<>> \in Seq(Errors \cup {Nil})
      OBVIOUS
    <3> QED
      BY <3>1 DEF Init
  <2>2. /\ budgets \in [Navigations -> Budgets]
        /\ npc \in [Navigations -> NavPositions]
        /\ hpc \in [Handlers -> Running \cup {"new", "done"}]
        /\ hnav \in [Handlers -> Navigations \cup {None}]
        /\ copiers \in [Handlers -> 0..2]
    BY FreshBudget DEF Init, NavPositions
  <2>3. /\ active \in Navigations \cup {None} /\ closing \in BOOLEAN
        /\ cpc \in ClosePositions /\ detached \in Navigations \cup {None}
        /\ refused \in SUBSET (Navigations \X Handlers)
        /\ failing \in [Handlers -> Errors \cup {Nil}]
    BY DEF Init, ClosePositions
  <2> QED
    BY <2>1, <2>2, <2>3 DEF TypeOK
<1>3. SoundBudgets
  BY <1>1 DEF Init, SoundBudgets
<1>4. Installed /\ CloseOrdered
  BY DEF Init, Installed, CloseOrdered, ClosedMeansQuiet
<1>5. StopsExplained
  BY <1>1 DEF Init, StopsExplained, newNavigationBudget
<1>6. ASSUME NEW h \in Handlers PROVE Holds(h) /\ Counted(h) /\ Kept(h)
  <2>1. hpc[h] = "new" /\ copiers[h] = 0 /\ Len(results[h]) = 0 /\ refused = {}
    BY DEF Init
  <2> QED
    BY <2>1 DEF Holds, Counted, Kept, Running
<1> QED
  BY <1>2, <1>3, <1>4, <1>5, <1>6 DEF IInv
(* A step of a handler or of one of its tunnel copies: the budget it holds *)
(* becomes b, it moves on among the running positions or ends, and it may  *)
(* have met a policy error.                                                *)
HandlerWorks(h, b) ==
  /\ hpc[h] \in Running \ {"started"} \/ copiers[h] > 0
  /\ Works(budgets[hnav[h]], b)
  /\ budgets' = [budgets EXCEPT ![hnav[h]] = b]
  /\ hpc' \in [Handlers -> Running \cup {"new", "done"}]
  /\ hpc'[h] \in (Running \ {"started"}) \cup {"done"}
  /\ hpc[h] = "done" => hpc'[h] = "done"
  /\ copiers' \in [Handlers -> 0..2]
  /\ results' \in [Handlers -> Seq(Errors \cup {Nil})]
  /\ failing' \in [Handlers -> Errors \cup {Nil}]
  /\ refused' \in {refused, refused \cup {<<hnav[h], h>>}}
  /\ \A g \in Handlers \ {h} : /\ hpc'[g] = hpc[g] /\ copiers'[g] = copiers[g]
                               /\ results'[g] = results[g]
  /\ UNCHANGED <<npc, active, closing, cpc, detached, hnav>>

(* Such a step preserves the invariant if it keeps the parts of it that    *)
(* speak of this handler.                                                  *)
LEMMA HandlerWorksStep ==
  ASSUME IInv, NEW h \in Handlers, NEW b, HandlerWorks(h, b),
         Counted(h)', Kept(h)'
  PROVE  IInv'
<1> USE DEF HandlerWorks
<1>0. /\ TypeOK /\ SoundBudgets /\ Installed /\ StopsExplained /\ CloseOrdered
      /\ \A g \in Handlers : Holds(g) /\ Counted(g) /\ Kept(g)
  BY DEF IInv
<1>1. hnav[h] \in Navigations /\ Sound(budgets[hnav[h]]) /\ Sound(b) /\ b \in Budgets
  BY <1>0 DEF Holds, SoundBudgets, Works, Evolves, Sound
<1>2. \A n \in Navigations : Works(budgets[n], budgets'[n])
  BY <1>0, <1>1, ChargesWork DEF TypeOK, SoundBudgets
<1>3. TypeOK'
  BY <1>0, <1>1 DEF TypeOK
<1>4. SoundBudgets'
  BY <1>2 DEF SoundBudgets, Works, Evolves
<1>5. Installed'
  BY <1>0, <1>2 DEF Installed, BeingStopped, Works, Evolves, TypeOK
<1>6. StopsExplained'
  BY <1>0, <1>2 DEF StopsExplained, Over, Works, Evolves
<1>7. CloseOrdered'
  <2>1. hpc[h] \in Running \/ hpc[h] = "done"
    <3>1. copiers[h] \in Nat /\ Len(results[h]) \in Nat
      BY <1>0 DEF TypeOK
    <3>2. hpc[h] # "new"
      BY <1>0, <3>1 DEF Counted, Running
    <3> QED
      BY <1>0, <3>2 DEF TypeOK
  <2>2. CASE cpc = "closed"
    <3>1. \A g \in Handlers : hpc[g] \notin Running
      BY <1>0, <2>2 DEF CloseOrdered, ClosedMeansQuiet
    <3>2. hpc'[h] = "done"
      BY <2>1, <3>1
    <3>3. \A g \in Handlers : hpc'[g] \notin Running
      BY <3>1, <3>2 DEF Running
    <3> QED
      BY <1>0, <3>3 DEF CloseOrdered, ClosedMeansQuiet
  <2>3. CASE cpc # "closed"
    BY <1>0, <2>3 DEF CloseOrdered, ClosedMeansQuiet
  <2> QED
    BY <2>2, <2>3
<1>8. ASSUME NEW g \in Handlers PROVE Holds(g)' /\ Counted(g)' /\ Kept(g)'
  <2>1. CASE g = h
    <3>1. Holds(h)'
      BY <1>1 DEF Holds
    <3> QED
      BY <2>1, <3>1
  <2>2. CASE g # h
    <3>1. hpc'[g] = hpc[g] /\ copiers'[g] = copiers[g] /\ results'[g] = results[g]
      BY <2>2
    <3>2. Holds(g) /\ Counted(g) /\ Kept(g)
      BY <1>0
    <3>3. Holds(g)'
      BY <3>1, <3>2 DEF Holds
    <3>4. hnav[g] \in Navigations /\ budget(g).done => (budget(g).done)'
      BY <1>2 DEF budget, Works, Evolves
    <3>5. Counted(g)'
      BY <3>1, <3>2, <3>4 DEF Counted
    <3>6. Unread(g)' = Unread(g)
      BY <3>1 DEF Unread
    <3>7. \A n \in Navigations : <<n, g>> \in refused' => <<n, g>> \in refused
      BY <2>2
    <3>8. \A n \in Navigations : budgets[n].policyErr # Nil => budgets'[n].policyErr # Nil
      BY <1>2 DEF Works, Evolves
    <3>9. Kept(g)'
      BY <3>1, <3>2, <3>6, <3>7, <3>8 DEF Kept
    <3> QED
      BY <3>3, <3>5, <3>9
  <2> QED
    BY <2>1, <2>2
<1> QED
  BY <1>3, <1>4, <1>5, <1>6, <1>7, <1>8 DEF IInv

(* What the steps of a handler need to know of it. *)
LEMMA HandlerFacts ==
  ASSUME IInv, NEW h \in Handlers,
         hpc[h] \in Running \ {"started"} \/ copiers[h] > 0
  PROVE  /\ hnav[h] \in Navigations /\ Sound(budget(h))
         /\ budget(h) = budgets[hnav[h]]
         /\ budgets = [budgets EXCEPT ![hnav[h]] = budget(h)]
         /\ budgets \in [Navigations -> Budgets]
         /\ hpc \in [Handlers -> Running \cup {"new", "done"}]
         /\ copiers \in [Handlers -> 0..2]
         /\ results \in [Handlers -> Seq(Errors \cup {Nil})]
         /\ failing \in [Handlers -> Errors \cup {Nil}]
         /\ copiers[h] \in Nat /\ Len(results[h]) \in Nat
         /\ Holds(h) /\ Counted(h) /\ Kept(h)
<1>1. TypeOK /\ SoundBudgets /\ Holds(h) /\ Counted(h) /\ Kept(h)
  BY DEF IInv
<1>2. hnav[h] \in Navigations
  BY <1>1 DEF Holds
<1> QED
  BY <1>1, <1>2 DEF TypeOK, SoundBudgets, budget

Quiet == {"authorize", "headers", "upstream", "copy", "write", "record"}

(* A handler that holds no open tunnel goes on or ends with budget b; an   *)
(* error it recorded is the last thing it does.                            *)
QuietWorks(h, b, next) ==
  /\ hpc[h] \in Quiet
  /\ next \in (Quiet \cup {"done"}) \ {"authorize"}
  /\ hpc[h] = "record" => next = "done"
  /\ Works(budget(h), b)
  /\ budgets' = [budgets EXCEPT ![hnav[h]] = b]
  /\ hpc' = [hpc EXCEPT ![h] = next]
  /\ failing' \in [Handlers -> Errors \cup {Nil}]
  /\ \/ refused' = refused
     \/ /\ refused' = refused \cup {<<hnav[h], h>>}
        /\ h \in Tunnels => b.policyErr # Nil
  /\ frame

LEMMA QuietStep ==
  ASSUME IInv, NEW h \in Handlers, NEW b, NEW next, QuietWorks(h, b, next)
  PROVE  IInv'
<1> USE DEF QuietWorks
<1>1. hpc[h] \in Running \ {"started"}
  BY DEF Quiet, Running
<1>2. HandlerWorks(h, b)
  <2>1. hpc' \in [Handlers -> Running \cup {"new", "done"}]
    BY <1>1, HandlerFacts DEF Quiet, Running
  <2>2. hpc'[h] = next /\ hpc[h] # "done"
    BY <1>1, HandlerFacts DEF Quiet
  <2>3. next \in (Running \ {"started"}) \cup {"done"}
    BY DEF Quiet, Running
  <2>4. UNCHANGED <<npc, active, closing, cpc, detached, hnav, copiers, results>>
    BY DEF frame, closeVars
  <2>5. Works(budgets[hnav[h]], b)
    BY <1>1, HandlerFacts
  <2>6. \A g \in Handlers \ {h} : hpc'[g] = hpc[g]
    BY <1>1, HandlerFacts
  <2> QED
    BY <1>1, <2>1, <2>2, <2>3, <2>4, <2>5, <2>6, HandlerFacts DEF HandlerWorks
<1>3. hnav[h] \in Navigations /\ Counted(h) /\ Kept(h) /\ hpc'[h] = next
  BY <1>1, HandlerFacts
<1>4. copiers' = copiers /\ results' = results /\ hnav' = hnav
  BY DEF frame
<1>5. Counted(h)'
  <2>1. copiers[h] + Len(results[h]) <= 1
    BY <1>1, <1>3, HandlerFacts DEF Counted, Quiet
  <2>2. next = "record" => copiers[h] + Len(results[h]) = 0
    BY <1>3 DEF Counted, Quiet
  <2>3. next \notin {"record", "done"} => copiers[h] + Len(results[h]) = 0
    BY <1>3 DEF Counted, Quiet
  <2>4. next # "tunnel"
    BY DEF Quiet
  <2>5. copiers[h] + Len(results[h]) \in Int
    BY <1>1, HandlerFacts
  <2> QED
    BY <1>3, <1>4, <2>1, <2>2, <2>3, <2>4, <2>5 DEF Counted
<1>6. Kept(h)'
  <2> SUFFICES ASSUME NEW n \in Navigations, <<n, h>> \in refused'
               PROVE  /\ hpc'[h] \notin {"new", "started"} /\ hnav'[h] = n
                      /\ h \in Tunnels => budgets'[n].policyErr # Nil \/ Unread(h)'
    BY DEF Kept
  <2>1. hpc'[h] \notin {"new", "started"}
    BY <1>3 DEF Quiet
  <2>2. Unread(h)' = Unread(h)
    BY <1>4 DEF Unread
  <2>3. budgets'[hnav[h]] = b /\ (budget(h).policyErr # Nil => b.policyErr # Nil)
    <3>1. budgets \in [Navigations -> Budgets] /\ Works(budget(h), b)
      BY <1>1, HandlerFacts
    <3> QED
      BY <1>3, <3>1 DEF Works, Evolves
  <2>4. CASE <<n, h>> \in refused
    BY <1>1, <1>3, <1>4, <2>1, <2>2, <2>3, <2>4, HandlerFacts DEF Kept
  <2>5. CASE <<n, h>> \notin refused
    <3>1. n = hnav[h] /\ (h \in Tunnels => b.policyErr # Nil)
      BY <2>5
    <3> QED
      BY <1>4, <2>1, <2>3, <3>1
  <2> QED
    BY <2>4, <2>5
<1> QED
  BY <1>2, <1>5, <1>6, HandlerWorksStep

(* Going on with a budget that a charge may have changed. *)
LEMMA ContinueStep ==
  ASSUME IInv, NEW h \in Handlers, hpc[h] \in Quiet,
         NEW b, Works(budget(h), b),
         NEW next \in (Quiet \cup {"done"}) \ {"authorize"},
         hpc[h] = "record" => next = "done",
         Continue(h, b, next), frame
  PROVE  IInv'
<1>1. failing' \in [Handlers -> Errors \cup {Nil}]
  BY DEF Continue, IInv, TypeOK
<1>2. QuietWorks(h, b, next)
  BY <1>1 DEF Continue, QuietWorks
<1> QED
  BY <1>2, QuietStep

(* Ending on a policy error, after a charge or without one. *)
LEMMA EndPolicyStep ==
  ASSUME IInv, NEW h \in Handlers, hpc[h] \in Quiet,
         NEW b, Works(budget(h), b), NEW err \in PolicyErrors,
         EndPolicyOn(h, b, err), frame
  PROVE  IInv'
<1>1. Works(b, failPolicy(b, err)) /\ failPolicy(b, err).policyErr # Nil
  BY FailPolicyWorks DEF Works, Evolves
<1>2. Works(budget(h), failPolicy(b, err))
  BY <1>1 DEF Works, Evolves
<1>3. failing' \in [Handlers -> Errors \cup {Nil}]
  BY DEF EndPolicyOn, IInv, TypeOK
<1>4. QuietWorks(h, failPolicy(b, err), "done")
  BY <1>1, <1>2, <1>3 DEF EndPolicyOn, QuietWorks, Quiet
<1> QED
  BY <1>4, QuietStep

(* Ending on another error, with or without a refusal to remember: it      *)
(* leaves the budget to RecordInfra.                                       *)
LEMMA OfferStep ==
  ASSUME IInv, NEW h \in Handlers, hpc[h] \in Quiet \ {"record"},
         NEW err \in Errors, NEW gone \in BOOLEAN, OfferInfra(h, err, gone),
         \/ refused' = refused
         \/ h \notin Tunnels /\ refused' = refused \cup {<<hnav[h], h>>},
         frame
  PROVE  IInv'
<1>1. hpc[h] \in Running \ {"started"}
  BY DEF Quiet, Running
<1>2. Works(budget(h), budget(h)) /\ budgets' = [budgets EXCEPT ![hnav[h]] = budget(h)]
  BY <1>1, HandlerFacts, ChargesWork DEF OfferInfra
<1>3. failing' \in [Handlers -> Errors \cup {Nil}]
  BY <1>1, HandlerFacts DEF OfferInfra
<1>4. CASE hpc' = [hpc EXCEPT ![h] = "record"]
  <2>1. QuietWorks(h, budget(h), "record")
    BY <1>2, <1>3, <1>4 DEF QuietWorks, Quiet
  <2> QED
    BY <2>1, QuietStep
<1>5. CASE hpc' = [hpc EXCEPT ![h] = "done"]
  <2>1. QuietWorks(h, budget(h), "done")
    BY <1>2, <1>3, <1>5 DEF QuietWorks, Quiet
  <2> QED
    BY <2>1, QuietStep
<1> QED
  BY <1>4, <1>5 DEF OfferInfra

-----------------------------------------------------------------------------
(* Steps that touch no handler: the parts of the invariant that speak of   *)
(* one survive when budgets evolve.                                        *)
LEMMA HandlersRest ==
  ASSUME IInv, UNCHANGED <<handlerVars, refused>>,
         \A n \in Navigations : Evolves(budgets[n], budgets'[n])
  PROVE  \A h \in Handlers : Holds(h)' /\ Counted(h)' /\ Kept(h)'
<1> SUFFICES ASSUME NEW h \in Handlers PROVE Holds(h)' /\ Counted(h)' /\ Kept(h)'
  OBVIOUS
<1>1. Holds(h) /\ Counted(h) /\ Kept(h)
  BY DEF IInv
<1>2. /\ hpc' = hpc /\ hnav' = hnav /\ copiers' = copiers /\ results' = results
      /\ refused' = refused
  BY DEF handlerVars
<1>3. Holds(h)'
  BY <1>1, <1>2 DEF Holds
<1>4. Counted(h)'
  BY <1>1, <1>2 DEF Counted, budget, Evolves
<1>5. Unread(h)' = Unread(h)
  BY <1>2 DEF Unread
<1>6. \A n \in Navigations : budgets[n].policyErr # Nil => budgets'[n].policyErr # Nil
  BY DEF Evolves
<1>7. Kept(h)'
  BY <1>1, <1>2, <1>5, <1>6 DEF Kept
<1> QED
  BY <1>3, <1>4, <1>7

(* The steps of the navigations. *)
LEMMA NavigationStep ==
  ASSUME IInv, NEW n \in Navigations, Navigation(n)
  PROVE  IInv'
<1>0. TypeOK /\ SoundBudgets /\ Installed /\ StopsExplained /\ CloseOrdered
  BY DEF IInv
<1>s. /\ Sound(budgets[n]) /\ Evolves(budgets[n], stop(budgets[n]))
      /\ stop(budgets[n]).done /\ stop(budgets[n]) \in Budgets
  BY <1>0, StopEvolves DEF SoundBudgets, Evolves, Sound
<1>u. UNCHANGED <<closing, cpc, detached, hpc, hnav, copiers, results, failing, refused>>
  BY DEF Navigation, Begin, EndDetaches, EndStops, closeVars, handlerVars
<1>b. budgets' \in {budgets, [budgets EXCEPT ![n] = stop(@)]}
  BY DEF Navigation, Begin, EndDetaches, EndStops
<1>e. \A m \in Navigations : Evolves(budgets[m], budgets'[m])
  BY <1>0, <1>s, <1>b, StopEvolves DEF TypeOK, SoundBudgets
<1>1. TypeOK'
  <2>1. budgets' \in [Navigations -> Budgets]
    BY <1>0, <1>s, <1>b DEF TypeOK
  <2>2. npc' \in [Navigations -> NavPositions] /\ active' \in Navigations \cup {None}
    BY <1>0 DEF TypeOK, NavPositions, Navigation, Begin, EndDetaches, EndStops
  <2> QED
    BY <1>0, <1>u, <2>1, <2>2 DEF TypeOK
<1>2. SoundBudgets' /\ CloseOrdered'
  BY <1>0, <1>e, <1>u DEF SoundBudgets, Evolves, CloseOrdered, ClosedMeansQuiet
<1>3. Installed' /\ StopsExplained'
  <2>d. \A m \in Navigations : budgets[m].done => budgets'[m].done
    BY <1>e DEF Evolves
  <2>p. \A m \in Navigations : budgets[m].policyErr # Nil => budgets'[m].policyErr # Nil
    BY <1>e DEF Evolves
  <2>h. \A h \in Handlers : hnav[h] # None => hnav[h] \in Navigations
    BY <1>0 DEF TypeOK
  <2>1. ASSUME NEW valid \in BOOLEAN, Begin(n, valid)
        PROVE  Installed' /\ StopsExplained'
    <3>1. npc[n] = "new" /\ npc'[n] \in {"active", "refused"}
      BY <1>0, <2>1 DEF Begin, TypeOK
    <3>2. \A m \in Navigations \ {n} : npc'[m] = npc[m] /\ budgets'[m] = budgets[m]
      BY <1>0, <2>1 DEF Begin, TypeOK
    <3>3. \/ npc'[n] = "active" /\ active = None /\ active' = n /\ budgets' = budgets
          \/ npc'[n] = "refused" /\ active' = active
      BY <1>0, <2>1 DEF Begin, TypeOK
    <3>4. active # None => active # n /\ active \in Navigations
      BY <1>0, <3>1 DEF Installed, TypeOK
    <3>5. Installed'
      BY <1>0, <1>u, <2>d, <2>h, <3>1, <3>2, <3>3, <3>4, ProxyAssumption
      DEF Installed, BeingStopped
    <3>6. StopsExplained'
      BY <1>0, <1>u, <3>1, <3>2, <3>3 DEF StopsExplained, Over
    <3> QED
      BY <3>5, <3>6
  <2>2. CASE EndDetaches(n)
    <3>1. npc[n] = "active" /\ npc'[n] = "ending" /\ budgets' = budgets
      BY <1>0, <2>2 DEF EndDetaches, TypeOK
    <3>2. \A m \in Navigations \ {n} : npc'[m] = npc[m]
      BY <1>0, <2>2 DEF EndDetaches, TypeOK
    <3>3. active' = IF active = n THEN None ELSE active
      BY <2>2 DEF EndDetaches
    <3>4. active # None => active \in Navigations
      BY <1>0 DEF TypeOK
    <3>5. Installed'
      BY <1>0, <1>u, <2>h, <3>1, <3>2, <3>3, <3>4, ProxyAssumption
      DEF Installed, BeingStopped
    <3>6. StopsExplained'
      BY <1>0, <1>u, <3>1, <3>2 DEF StopsExplained, Over
    <3> QED
      BY <3>5, <3>6
  <2>3. CASE EndStops(n)
    <3>1. /\ npc[n] = "ending" /\ npc'[n] = "ended" /\ budgets'[n].done
          /\ active' = active
      BY <1>0, <1>s, <2>3 DEF EndStops, TypeOK
    <3>2. \A m \in Navigations \ {n} : npc'[m] = npc[m] /\ budgets'[m] = budgets[m]
      BY <1>0, <2>3 DEF EndStops, TypeOK
    <3>3. active # None => active # n /\ active \in Navigations
      BY <1>0, <3>1 DEF Installed, TypeOK
    <3>4. Installed'
      BY <1>0, <1>u, <2>h, <3>1, <3>2, <3>3 DEF Installed, BeingStopped
    <3>5. StopsExplained'
      BY <1>0, <1>u, <3>1, <3>2 DEF StopsExplained, Over
    <3> QED
      BY <3>4, <3>5
  <2> QED
    BY <2>1, <2>2, <2>3 DEF Navigation
<1>4. \A h \in Handlers : Holds(h)' /\ Counted(h)' /\ Kept(h)'
  BY <1>e, <1>u, HandlersRest DEF handlerVars
<1> QED
  BY <1>1, <1>2, <1>3, <1>4 DEF IInv

(* The steps of Close. *)
LEMMA CloseStep ==
  ASSUME IInv, CloseBegins \/ CloseRuns
  PROVE  IInv'
<1>0. TypeOK /\ SoundBudgets /\ Installed /\ StopsExplained /\ CloseOrdered
  BY DEF IInv
<1>u. UNCHANGED <<npc, hpc, hnav, copiers, results, failing, refused>>
  BY DEF CloseBegins, CloseRuns, CloseDetaches, CloseStops, CloseReturns, handlerVars
<1>d. detached # None => /\ detached \in Navigations /\ Sound(budgets[detached])
                         /\ Evolves(budgets[detached], stop(budgets[detached]))
                         /\ stop(budgets[detached]).done
                         /\ stop(budgets[detached]) \in Budgets
  BY <1>0, StopEvolves DEF TypeOK, SoundBudgets, Evolves, Sound
<1>b. \/ budgets' = budgets
      \/ detached # None /\ budgets' = [budgets EXCEPT ![detached] = stop(@)]
  BY DEF CloseBegins, CloseRuns, CloseDetaches, CloseStops, CloseReturns
<1>e. \A m \in Navigations : Evolves(budgets[m], budgets'[m])
  BY <1>0, <1>b, <1>d, StopEvolves DEF TypeOK, SoundBudgets
<1>1. TypeOK'
  <2>1. budgets' \in [Navigations -> Budgets]
    BY <1>0, <1>b, <1>d DEF TypeOK
  <2>2. /\ closing' \in BOOLEAN /\ cpc' \in ClosePositions
        /\ detached' \in Navigations \cup {None} /\ active' \in Navigations \cup {None}
    BY <1>0 DEF TypeOK, ClosePositions, CloseBegins, CloseRuns, CloseDetaches,
                CloseStops, CloseReturns
  <2> QED
    BY <1>0, <1>u, <2>1, <2>2 DEF TypeOK
<1>2. SoundBudgets'
  BY <1>e DEF SoundBudgets, Evolves
<1>3. CloseOrdered'
  BY <1>0, <1>u DEF CloseOrdered, ClosedMeansQuiet, CloseBegins, CloseRuns,
                    CloseDetaches, CloseStops, CloseReturns
<1>4. Installed' /\ StopsExplained'
  <2>h. \A h \in Handlers : hnav[h] # None => hnav[h] \in Navigations
    BY <1>0 DEF TypeOK
  <2>1. CASE CloseBegins \/ CloseReturns
    <3>1. /\ budgets' = budgets /\ active' = active /\ detached' = detached
          /\ cpc # "detached" /\ cpc' # "detached"
          /\ cpc \in {"joining", "closed"} => cpc' \in {"joining", "closed"}
      BY <2>1 DEF CloseBegins, CloseReturns
    <3> QED
      BY <1>0, <1>u, <3>1 DEF Installed, StopsExplained, BeingStopped, Over
  <2>2. CASE CloseDetaches
    <3>1. /\ budgets' = budgets /\ active' = None /\ detached' = active
          /\ cpc = "closing" /\ cpc' = "detached"
      BY <2>2 DEF CloseDetaches
    <3> QED
      BY <1>0, <1>u, <3>1 DEF Installed, StopsExplained, BeingStopped, Over
  <2>3. CASE CloseStops
    <3>1. /\ active' = active /\ detached' = detached
          /\ cpc = "detached" /\ cpc' = "joining"
          /\ budgets' = IF detached = None THEN budgets
                        ELSE [budgets EXCEPT ![detached] = stop(@)]
      BY <2>3 DEF CloseStops
    <3>2. detached # None => budgets'[detached].done
      BY <1>0, <1>d, <3>1 DEF TypeOK
    <3>3. \A m \in Navigations : m # detached => budgets'[m] = budgets[m]
      BY <1>0, <3>1 DEF TypeOK
    <3>4. \A m \in Navigations : budgets[m].done => budgets'[m].done
      BY <1>e DEF Evolves
    <3>5. Installed'
      BY <1>0, <1>u, <3>1, <3>2, <3>3, <3>4, ProxyAssumption DEF Installed, BeingStopped
    <3>6. StopsExplained'
      BY <1>0, <1>u, <3>1, <3>3 DEF StopsExplained, Over
    <3> QED
      BY <3>5, <3>6
  <2> QED
    BY <2>1, <2>2, <2>3 DEF CloseRuns
<1>5. \A h \in Handlers : Holds(h)' /\ Counted(h)' /\ Kept(h)'
  BY <1>e, <1>u, HandlersRest DEF handlerVars
<1> QED
  BY <1>1, <1>2, <1>3, <1>4, <1>5 DEF IInv

(* The steps that a handler takes before it holds a budget. *)
LEMMA StartStep ==
  ASSUME IInv, NEW h \in Handlers, StartHandler(h) \/ ReadCurrent(h)
  PROVE  IInv'
<1>0. /\ TypeOK /\ SoundBudgets /\ Installed /\ StopsExplained /\ CloseOrdered
      /\ \A g \in Handlers : Holds(g) /\ Counted(g) /\ Kept(g)
  BY DEF IInv
<1>u. UNCHANGED <<budgets, npc, active, closing, cpc, detached, copiers, results,
                  failing, refused>>
  BY DEF StartHandler, ReadCurrent, closeVars
<1>p. hpc[h] \in {"new", "started"} /\ hpc'[h] \in {"started", "authorize", "done"}
  BY <1>0 DEF StartHandler, ReadCurrent, TypeOK
<1>o. \A g \in Handlers \ {h} : hpc'[g] = hpc[g] /\ hnav'[g] = hnav[g]
  BY <1>0 DEF StartHandler, ReadCurrent, TypeOK
<1>n. hnav'[h] \in {hnav[h], active} /\ (hpc'[h] = "authorize" => hnav'[h] \in Navigations)
  BY <1>0 DEF StartHandler, ReadCurrent, TypeOK
<1>c. copiers[h] + Len(results[h]) = 0 /\ copiers[h] \in Nat /\ Len(results[h]) \in Nat
  <2>1. copiers[h] \in 0..2 /\ results[h] \in Seq(Errors \cup {Nil})
    BY <1>0 DEF TypeOK
  <2>2. copiers[h] \in Nat /\ Len(results[h]) \in Nat
    BY <2>1
  <2>3. hpc[h] \notin {"tunnel", "record", "done"}
    BY <1>p
  <2>4. Counted(h)
    BY <1>0
  <2> QED
    BY <2>2, <2>3, <2>4 DEF Counted
<1>1. TypeOK'
  <2>1. hpc' \in [Handlers -> Running \cup {"new", "done"}]
    BY <1>0 DEF TypeOK, Running, StartHandler, ReadCurrent
  <2>2. hnav' \in [Handlers -> Navigations \cup {None}]
    BY <1>0 DEF TypeOK, StartHandler, ReadCurrent
  <2> QED
    BY <1>0, <1>u, <2>1, <2>2 DEF TypeOK
<1>2. SoundBudgets' /\ StopsExplained'
  BY <1>0, <1>u DEF SoundBudgets, StopsExplained, Over
<1>3. Installed'
  BY <1>0, <1>u, <1>o, <1>n DEF Installed, BeingStopped
<1>4. CloseOrdered'
  <2>1. hpc'[h] \in Running => cpc # "closed"
    BY <1>0, <1>p DEF StartHandler, ReadCurrent, CloseOrdered, ClosedMeansQuiet,
                      Running, TypeOK
  <2> QED
    BY <1>0, <1>u, <1>o, <2>1 DEF CloseOrdered, ClosedMeansQuiet
<1>5. ASSUME NEW g \in Handlers PROVE Holds(g)' /\ Counted(g)' /\ Kept(g)'
  <2>1. CASE g = h
    <3>1. Holds(h)'
      BY <1>u, <1>p, <1>n, <1>c DEF Holds, Running
    <3>2. Counted(h)'
      BY <1>u, <1>p, <1>c DEF Counted
    <3>3. Kept(h)'
      BY <1>0, <1>u, <1>p DEF Kept
    <3> QED
      BY <2>1, <3>1, <3>2, <3>3
  <2>2. CASE g # h
    <3>1. hpc'[g] = hpc[g] /\ hnav'[g] = hnav[g] /\ Holds(g) /\ Counted(g) /\ Kept(g)
      BY <1>0, <1>o, <2>2
    <3>2. Unread(g)' = Unread(g)
      BY <1>u DEF Unread
    <3> QED
      BY <1>u, <3>1, <3>2 DEF Holds, Counted, Kept, budget
  <2> QED
    BY <2>1, <2>2
<1> QED
  BY <1>1, <1>2, <1>3, <1>4, <1>5 DEF IInv
(* A charge of the budget, granted or refused. *)
LEMMA ChargeStep ==
  ASSUME IInv, NEW h \in Handlers, hpc[h] \in Quiet \ {"record"},
         NEW b, Works(budget(h), b), NEW err \in PolicyErrors \cup {Nil},
         NEW next \in (Quiet \cup {"done"}) \ {"authorize"},
         Charge(h, b, err, next), frame
  PROVE  IInv'
<1>1. CASE err = Nil /\ Continue(h, b, next)
  BY <1>1, ContinueStep
<1>2. CASE err # Nil /\ EndPolicy(h, err)
  <2>1. hpc[h] \in Running \ {"started"}
    BY DEF Quiet, Running
  <2>2. Works(budget(h), budget(h))
    BY <2>1, HandlerFacts, ChargesWork
  <2>3. err \in PolicyErrors
    BY <1>2
  <2> QED
    BY <1>2, <2>2, <2>3, EndPolicyStep DEF EndPolicy
<1> QED
  BY <1>1, <1>2 DEF Charge

(* The charges of a quiet handler and what it ends on without a tunnel. *)
LEMMA QuietCharges ==
  ASSUME IInv, NEW h \in Handlers, hpc[h] \in Quiet
  PROVE  /\ Works(budget(h), budget(h))
         /\ Works(budget(h), authorizeProxy(budget(h)))
         /\ authorizeProxyErr(budget(h)) \in PolicyErrors \cup {Nil}
         /\ Works(budget(h), consume(budget(h), 1))
         /\ consumeErr(budget(h), 1) \in PolicyErrors \cup {Nil}
<1>1. hpc[h] \in Running \ {"started"}
  BY DEF Quiet, Running
<1> QED
  BY <1>1, HandlerFacts, ChargesWork

(* The steps of a handler that charge its budget. *)
LEMMA ChargingSteps ==
  ASSUME IInv, NEW h \in Handlers,
         \/ AuthorizeProxy(h) \/ RoundTripAnswers(h) \/ CopyChunk(h)
         \/ \E validURL \in BOOLEAN : ConsumeRequest(h, validURL)
  PROVE  IInv'
<1>1. CASE AuthorizeProxy(h)
  <2>1. hpc[h] \in Quiet \ {"record"}
    BY <1>1 DEF AuthorizeProxy, Quiet
  <2>2. "headers" \in (Quiet \cup {"done"}) \ {"authorize"}
    BY DEF Quiet
  <2> QED
    BY <1>1, <2>1, <2>2, QuietCharges, ChargeStep DEF AuthorizeProxy
<1>2. CASE RoundTripAnswers(h)
  <2>1. hpc[h] \in Quiet \ {"record"}
    BY <1>2 DEF RoundTripAnswers, Quiet
  <2>2. "copy" \in (Quiet \cup {"done"}) \ {"authorize"}
    BY DEF Quiet
  <2> QED
    BY <1>2, <2>1, <2>2, QuietCharges, ChargeStep DEF RoundTripAnswers, Consume
<1>3. CASE CopyChunk(h)
  <2>1. hpc[h] \in Quiet \ {"record"}
    BY <1>3 DEF CopyChunk, Quiet
  <2>2. "write" \in (Quiet \cup {"done"}) \ {"authorize"}
    BY DEF Quiet
  <2> QED
    BY <1>3, <2>1, <2>2, QuietCharges, ChargeStep DEF CopyChunk, Consume
<1>4. ASSUME NEW validURL \in BOOLEAN, ConsumeRequest(h, validURL) PROVE IInv'
  <2>1. hpc[h] \in Quiet \ {"record"}
    BY <1>4 DEF ConsumeRequest, Quiet
  <2>2. "upstream" \in (Quiet \cup {"done"}) \ {"authorize"}
    BY DEF Quiet
  <2>3. CASE Consume(h, "upstream")
    BY <1>4, <2>1, <2>2, <2>3, QuietCharges, ChargeStep DEF ConsumeRequest, Consume
  <2>4. CASE ~Consume(h, "upstream")
    <3> DEFINE err == IF consumeErr(budget(h), 1) = Nil
                      THEN "ErrInvalidURL" ELSE consumeErr(budget(h), 1)
    <3>1. EndPolicyOn(h, consume(budget(h), 1), err) /\ frame
      BY <1>4, <2>4 DEF ConsumeRequest
    <3>2. err \in PolicyErrors
      BY <2>1, QuietCharges, Names
    <3> HIDE DEF err
    <3> QED
      BY <2>1, <3>1, <3>2, QuietCharges, EndPolicyStep
  <2> QED
    BY <2>3, <2>4
<1> QED
  BY <1>1, <1>2, <1>3, <1>4

(* The steps by which a handler records an error or ends on one. *)
LEMMA EndingSteps ==
  ASSUME IInv, NEW h \in Handlers, NEW gone \in BOOLEAN,
         \/ RecordInfra(h)
         \/ \E err \in {"ErrForbiddenDestination", "transport"} :
              ConnectFails(h, err, gone) \/ RoundTripFails(h, err, gone)
         \/ UploadChunk(h, gone)
         \/ \E err \in {Nil, "transport"} : CopyEnds(h, err, gone)
         \/ ClientFails(h, gone)
  PROVE  IInv'
<1>1. CASE RecordInfra(h)
  <2>1. hpc[h] \in Quiet /\ hpc[h] \in Running \ {"started"}
    BY <1>1 DEF RecordInfra, Quiet, Running
  <2>2. failing[h] \in Errors \cup {Nil} /\ failing' \in [Handlers -> Errors \cup {Nil}]
    BY <1>1 DEF RecordInfra, IInv, TypeOK
  <2>3. Works(budget(h), failInfrastructure(budget(h), failing[h]))
    BY <2>1, <2>2, HandlerFacts, FailInfrastructureWorks
  <2>4. budgets' = [budgets EXCEPT ![hnav[h]] = failInfrastructure(budget(h), failing[h])]
    BY <1>1 DEF RecordInfra, budget
  <2>5. QuietWorks(h, failInfrastructure(budget(h), failing[h]), "done")
    BY <1>1, <2>1, <2>2, <2>3, <2>4 DEF RecordInfra, QuietWorks, Quiet
  <2> QED
    BY <2>5, QuietStep
<1>2. ASSUME NEW err \in {"ErrForbiddenDestination", "transport"},
             ConnectFails(h, err, gone)
      PROVE  IInv'
  <2>1. hpc[h] \in Quiet \ {"record"} /\ err \in Errors /\ frame
    BY <1>2, Names DEF ConnectFails, Quiet
  <2>2. CASE isPolicyError(err) /\ EndPolicy(h, err)
    BY <2>1, <2>2, QuietCharges, EndPolicyStep DEF EndPolicy, isPolicyError
  <2>3. CASE EndInfra(h, err, gone)
    BY <2>1, <2>3, OfferStep DEF EndInfra
  <2> QED
    BY <1>2, <2>2, <2>3 DEF ConnectFails
<1>3. ASSUME NEW err \in Errors, RoundTripFails(h, err, gone) PROVE IInv'
  <2>1. hpc[h] \in Quiet \ {"record"} /\ h \notin Tunnels
    BY <1>3, ProxyAssumption DEF RoundTripFails, Quiet
  <2>2. \/ refused' = refused
        \/ h \notin Tunnels /\ refused' = refused \cup {<<hnav[h], h>>}
    BY <1>3, <2>1 DEF RoundTripFails
  <2> QED
    BY <1>3, <2>1, <2>2, OfferStep DEF RoundTripFails
<1>4. CASE UploadChunk(h, gone)
  <2>1. hpc[h] \in Quiet \ {"record"}
    BY <1>4 DEF UploadChunk, Quiet
  <2>2. CASE Continue(h, consume(budget(h), 1), "upstream") /\ frame
    BY <2>1, <2>2, QuietCharges, ContinueStep DEF Quiet
  <2>3. CASE ~(Continue(h, consume(budget(h), 1), "upstream") /\ frame)
    <3>1. RoundTripFails(h, consumeErr(budget(h), 1), gone) /\ consumeErr(budget(h), 1) # Nil
      BY <1>4, <2>3 DEF UploadChunk
    <3>2. consumeErr(budget(h), 1) \in Errors
      BY <2>1, <3>1, QuietCharges, Names
    <3> QED
      BY <1>3, <3>1, <3>2
  <2> QED
    BY <2>2, <2>3
<1>5. ASSUME NEW err \in {Nil, "transport"}, CopyEnds(h, err, gone) PROVE IInv'
  <2>1. hpc[h] \in Quiet \ {"record"} /\ frame
    BY <1>5 DEF CopyEnds, Quiet
  <2>2. CASE Continue(h, budget(h), "done")
    BY <2>1, <2>2, QuietCharges, ContinueStep DEF Quiet
  <2>3. CASE err # Nil /\ EndInfra(h, err, gone)
    <3>1. err \in Errors
      BY <2>3, Names
    <3> QED
      BY <2>1, <2>3, <3>1, OfferStep DEF EndInfra
  <2> QED
    BY <1>5, <2>2, <2>3 DEF CopyEnds
<1>6. CASE ClientFails(h, gone)
  <2>1. hpc[h] \in Quiet \ {"record"} /\ frame
    BY <1>6 DEF ClientFails, Quiet
  <2> QED
    BY <1>6, <2>1, Names, OfferStep DEF ClientFails, EndInfra
<1>7. ASSUME NEW err \in {"ErrForbiddenDestination", "transport"},
             RoundTripFails(h, err, gone)
      PROVE  IInv'
  BY <1>3, <1>7, Names
<1> QED
  BY <1>1, <1>2, <1>4, <1>5, <1>6, <1>7

(* The steps by which a handler leaves its wait for a peer. *)
LEMMA WaitingSteps ==
  ASSUME IInv, NEW h \in Handlers,
         \/ UpstreamCanceled(h) \/ ConnectionClosed(h) \/ ClientReads(h)
         \/ \E gone \in BOOLEAN : TunnelSetupFails(h, gone)
  PROVE  IInv'
<1>1. CASE UpstreamCanceled(h) \/ ConnectionClosed(h)
  <2>1. hpc[h] \in Quiet \ {"record"} /\ Continue(h, budget(h), "done") /\ frame
    BY <1>1 DEF UpstreamCanceled, ConnectionClosed, Quiet
  <2> QED
    BY <2>1, QuietCharges, ContinueStep DEF Quiet
<1>2. CASE ClientReads(h)
  <2>1. hpc[h] \in Quiet \ {"record"} /\ Continue(h, budget(h), "copy") /\ frame
    BY <1>2 DEF ClientReads, Quiet
  <2> QED
    BY <2>1, QuietCharges, ContinueStep DEF Quiet
<1>3. ASSUME NEW gone \in BOOLEAN, TunnelSetupFails(h, gone) PROVE IInv'
  <2>1. /\ hpc[h] \in Quiet \ {"record"} /\ hpc[h] \in Running \ {"started"} /\ frame
        /\ "transport" \in Errors
    BY <1>3, Names DEF TunnelSetupFails, Quiet, Running
  <2>2. Works(budget(h), failInfrastructure(budget(h), "transport"))
    BY <2>1, HandlerFacts, FailInfrastructureWorks
  <2>3. CASE Continue(h, failInfrastructure(budget(h), "transport"), "done")
    BY <2>1, <2>2, <2>3, ContinueStep DEF Quiet
  <2>4. CASE EndInfra(h, "transport", gone)
    BY <2>1, <2>4, OfferStep DEF EndInfra
  <2> QED
    BY <1>3, <2>3, <2>4 DEF TunnelSetupFails
<1> QED
  BY <1>1, <1>2, <1>3
-----------------------------------------------------------------------------
(* A policy error in the results channel stays there when a result is      *)
(* sent, and is the one received or still there when one is.               *)
LEMMA UnreadAppend ==
  ASSUME NEW S, NEW s \in Seq(S), NEW err \in S,
         isPolicyError(err) \/ \E i \in DOMAIN s : isPolicyError(s[i])
  PROVE  \E i \in DOMAIN Append(s, err) : isPolicyError(Append(s, err)[i])
<1>1. /\ DOMAIN Append(s, err) = 1..(Len(s) + 1) /\ DOMAIN s = 1..Len(s)
      /\ Len(s) \in Nat /\ Append(s, err)[Len(s) + 1] = err
      /\ \A i \in 1..Len(s) : Append(s, err)[i] = s[i]
  OBVIOUS
<1>2. CASE isPolicyError(err)
  <2>1. Len(s) + 1 \in DOMAIN Append(s, err)
    BY <1>1
  <2> QED
    BY <1>1, <1>2, <2>1
<1>3. CASE \E i \in DOMAIN s : isPolicyError(s[i])
  <2>1. PICK i \in DOMAIN s : isPolicyError(s[i])
    BY <1>3
  <2>2. i \in DOMAIN Append(s, err) /\ Append(s, err)[i] = s[i]
    BY <1>1, <2>1
  <2> QED
    BY <2>1, <2>2
<1> QED
  BY <1>2, <1>3

LEMMA UnreadTail ==
  ASSUME NEW S, NEW s \in Seq(S), s # <<>>,
         \E i \in DOMAIN s : isPolicyError(s[i]), ~isPolicyError(Head(s))
  PROVE  \E i \in DOMAIN Tail(s) : isPolicyError(Tail(s)[i])
<1>1. PICK i \in DOMAIN s : isPolicyError(s[i])
  OBVIOUS
<1>2. i # 1
  BY <1>1
<1>3. i - 1 \in DOMAIN Tail(s) /\ Tail(s)[i - 1] = s[i]
  BY <1>2
<1> QED
  BY <1>1, <1>3

(* What a handler's step leaves of the policy errors it met. *)
LEMMA KeptStep ==
  ASSUME IInv, NEW h \in Handlers, NEW b, HandlerWorks(h, b),
         Unread(h) => Unread(h)' \/ b.policyErr # Nil,
         refused' = refused \/ Unread(h)' \/ b.policyErr # Nil
  PROVE  Kept(h)'
<1>1. hnav[h] \in Navigations /\ Kept(h) /\ budgets \in [Navigations -> Budgets]
  BY HandlerFacts DEF HandlerWorks
<1>2. /\ hnav' = hnav /\ budgets' = [budgets EXCEPT ![hnav[h]] = b]
      /\ refused' \in {refused, refused \cup {<<hnav[h], h>>}}
      /\ hpc'[h] \in (Running \ {"started"}) \cup {"done"}
      /\ Works(budgets[hnav[h]], b)
  BY DEF HandlerWorks
<1>3. budgets'[hnav[h]] = b /\ (budgets[hnav[h]].policyErr # Nil => b.policyErr # Nil)
  BY <1>1, <1>2 DEF Works, Evolves
<1>4. hpc'[h] \notin {"new", "started"}
  BY <1>2 DEF Running
<1> SUFFICES ASSUME NEW n \in Navigations, <<n, h>> \in refused'
             PROVE  /\ hnav[h] = n
                    /\ h \in Tunnels => budgets'[n].policyErr # Nil \/ Unread(h)'
  BY <1>2, <1>4 DEF Kept
<1>5. CASE <<n, h>> \in refused
  <2>1. hnav[h] = n /\ (h \in Tunnels => budgets[n].policyErr # Nil \/ Unread(h))
    BY <1>1, <1>5 DEF Kept
  <2> QED
    BY <1>3, <2>1
<1>6. CASE <<n, h>> \notin refused
  <2>1. n = hnav[h] /\ refused' # refused
    BY <1>2, <1>6
  <2> QED
    BY <1>3, <2>1
<1> QED
  BY <1>5, <1>6

(* A copy goroutine's result: it moves from the running to the results. *)
LEMMA SendFacts ==
  ASSUME IInv, NEW h \in Handlers, copiers[h] > 0,
         NEW err \in Errors \cup {Nil}, CopierSends(h, err)
  PROVE  /\ copiers' \in [Handlers -> 0..2]
         /\ results' \in [Handlers -> Seq(Errors \cup {Nil})]
         /\ copiers'[h] + Len(results'[h]) = copiers[h] + Len(results[h])
         /\ Unread(h) \/ isPolicyError(err) => Unread(h)'
         /\ \A g \in Handlers \ {h} : copiers'[g] = copiers[g] /\ results'[g] = results[g]
<1>1. copiers \in [Handlers -> 0..2] /\ results \in [Handlers -> Seq(Errors \cup {Nil})]
  BY DEF IInv, TypeOK
<1>2. copiers[h] \in 0..2 /\ results[h] \in Seq(Errors \cup {Nil})
  BY <1>1
<1>3. copiers' = [copiers EXCEPT ![h] = copiers[h] - 1]
  BY DEF CopierSends
<1>4. results' = [results EXCEPT ![h] = Append(results[h], err)]
  BY DEF CopierSends
<1>5. copiers[h] - 1 \in 0..2 /\ Append(results[h], err) \in Seq(Errors \cup {Nil})
  BY <1>2
<1>6. copiers' \in [Handlers -> 0..2] /\ copiers'[h] = copiers[h] - 1
  BY <1>1, <1>3, <1>5
<1>7. results' \in [Handlers -> Seq(Errors \cup {Nil})] /\ results'[h] = Append(results[h], err)
  BY <1>1, <1>4, <1>5
<1>8. Len(Append(results[h], err)) = Len(results[h]) + 1 /\ Len(results[h]) \in Nat
  BY <1>2
<1>9. copiers'[h] + Len(results'[h]) = copiers[h] + Len(results[h])
  BY <1>2, <1>6, <1>7, <1>8
<1>10. Unread(h) \/ isPolicyError(err) => Unread(h)'
  BY <1>2, <1>7, UnreadAppend DEF Unread
<1>11. \A g \in Handlers \ {h} : copiers'[g] = copiers[g] /\ results'[g] = results[g]
  BY <1>1, <1>3, <1>4
<1> QED
  BY <1>6, <1>7, <1>9, <1>10, <1>11

(* The steps of a tunnel's copy goroutines: the handler stays where it is. *)
LEMMA CopierStep ==
  ASSUME IInv, NEW h \in Handlers, copiers[h] > 0,
         NEW b, Works(budget(h), b), budgets' = [budgets EXCEPT ![hnav[h]] = b],
         NEW err \in Errors \cup {Nil},
         CopierSends(h, err) \/ UNCHANGED <<copiers, results>>,
         \/ refused' = refused
         \/ /\ refused' = refused \cup {<<hnav[h], h>>}
            /\ CopierSends(h, err) /\ isPolicyError(err),
         UNCHANGED <<npc, active, closing, cpc, detached, hpc, hnav, failing>>
  PROVE  IInv'
<1>0. /\ hnav[h] \in Navigations /\ budget(h) = budgets[hnav[h]] /\ Counted(h)
      /\ budgets \in [Navigations -> Budgets]
      /\ copiers[h] \in Nat /\ Len(results[h]) \in Nat
  BY HandlerFacts
<1>1. /\ copiers' \in [Handlers -> 0..2]
      /\ results' \in [Handlers -> Seq(Errors \cup {Nil})]
      /\ copiers'[h] + Len(results'[h]) = copiers[h] + Len(results[h])
      /\ Unread(h) => Unread(h)'
      /\ \A g \in Handlers \ {h} : copiers'[g] = copiers[g] /\ results'[g] = results[g]
  <2>1. CASE CopierSends(h, err)
    BY <2>1, SendFacts
  <2>2. CASE UNCHANGED <<copiers, results>>
    BY <2>2, HandlerFacts DEF Unread
  <2> QED
    BY <2>1, <2>2
<1>2. hpc[h] \in {"tunnel", "record", "done"}
  BY <1>0 DEF Counted
<1>3. HandlerWorks(h, b)
  <2>1. /\ hpc' \in [Handlers -> Running \cup {"new", "done"}]
        /\ failing' \in [Handlers -> Errors \cup {Nil}] /\ hpc' = hpc
    BY HandlerFacts
  <2>2. hpc'[h] \in (Running \ {"started"}) \cup {"done"}
    BY <1>2, <2>1 DEF Running
  <2>3. refused' \in {refused, refused \cup {<<hnav[h], h>>}}
    OBVIOUS
  <2> QED
    BY <1>0, <1>1, <2>1, <2>2, <2>3 DEF HandlerWorks
<1>4. Counted(h)'
  <2>1. budgets'[hnav[h]] = b
    BY <1>0
  <2>2. budget(h).done => (budget(h).done)'
    BY <1>0, <2>1 DEF budget, Works, Evolves
  <2> QED
    BY <1>0, <1>1, <2>2 DEF Counted
<1>5. Kept(h)'
  <2>1. refused' = refused \/ Unread(h)'
    BY SendFacts
  <2> QED
    BY <1>1, <1>3, <2>1, KeptStep
<1> QED
  BY <1>3, <1>4, <1>5, HandlerWorksStep

LEMMA CopierSteps ==
  ASSUME IInv, NEW h \in Handlers,
         CopierRelays(h) \/ \E err \in {Nil, "transport"} : CopierEnds(h, err)
  PROVE  IInv'
<1>0. copiers[h] > 0
  BY DEF CopierRelays, CopierEnds
<1>1. /\ Sound(budget(h)) /\ budget(h) = budgets[hnav[h]] /\ hnav[h] \in Navigations
      /\ budgets = [budgets EXCEPT ![hnav[h]] = budget(h)]
  BY <1>0, HandlerFacts
<1>2. /\ Works(budget(h), budget(h)) /\ Works(budget(h), consume(budget(h), 1))
      /\ consumeErr(budget(h), 1) \in PolicyErrors \cup {Nil}
  BY <1>1, ChargesWork
<1>3. CASE CopierRelays(h)
  <2> DEFINE err == consumeErr(budget(h), 1)
  <2>1. UNCHANGED <<npc, active, closing, cpc, detached, hpc, hnav, failing>>
    BY <1>3 DEF CopierRelays, closeVars
  <2>2. CASE err = Nil
    <3>1. budgets' = [budgets EXCEPT ![hnav[h]] = consume(budget(h), 1)]
      BY <1>3, <2>2, <1>1 DEF CopierRelays
    <3>2. refused' = refused
      BY <1>3, <2>2 DEF CopierRelays
    <3>3. UNCHANGED <<copiers, results>> \/ CopierSends(h, "transport")
      BY <1>3, <2>2 DEF CopierRelays
    <3>4. "transport" \in Errors \cup {Nil}
      BY Names
    <3> QED
      BY <1>0, <1>2, <2>1, <3>1, <3>2, <3>3, <3>4, CopierStep
  <2>3. CASE err # Nil
    <3>1. /\ budgets' = budgets /\ refused' = refused \cup {<<hnav[h], h>>}
          /\ CopierSends(h, err)
      BY <1>3, <2>3 DEF CopierRelays
    <3>2. err \in Errors \cup {Nil} /\ isPolicyError(err)
      BY <1>2, <2>3, Names DEF isPolicyError
    <3> HIDE DEF err
    <3> QED
      BY <1>0, <1>1, <1>2, <2>1, <3>1, <3>2, CopierStep
  <2> QED
    BY <2>2, <2>3
<1>4. ASSUME NEW err \in {Nil, "transport"}, CopierEnds(h, err) PROVE IInv'
  <2>1. /\ UNCHANGED <<npc, active, closing, cpc, detached, hpc, hnav, failing>>
        /\ budgets' = budgets /\ refused' = refused /\ CopierSends(h, err)
    BY <1>4 DEF CopierEnds, closeVars
  <2>2. err \in Errors \cup {Nil}
    BY Names
  <2> QED
    BY <1>0, <1>1, <1>2, <2>1, <2>2, CopierStep
<1> QED
  BY <1>3, <1>4
(* The tunnel opens, or its handler leaves on a stopped budget. *)
LEMMA TunnelSteps ==
  ASSUME IInv, NEW h \in Handlers, TunnelOpens(h) \/ TunnelStopped(h)
  PROVE  IInv'
<1>0. hpc[h] \in Running \ {"started"}
  BY DEF TunnelOpens, TunnelStopped, Running
<1>1. /\ Sound(budget(h)) /\ budget(h) = budgets[hnav[h]] /\ hnav[h] \in Navigations
      /\ budgets = [budgets EXCEPT ![hnav[h]] = budget(h)]
      /\ hpc \in [Handlers -> Running \cup {"new", "done"}]
      /\ copiers \in [Handlers -> 0..2] /\ Counted(h)
      /\ results \in [Handlers -> Seq(Errors \cup {Nil})]
      /\ failing \in [Handlers -> Errors \cup {Nil}]
      /\ copiers[h] \in Nat /\ Len(results[h]) \in Nat
  BY <1>0, HandlerFacts
<1>2. Works(budget(h), budget(h))
  BY <1>1, ChargesWork
<1>3. /\ UNCHANGED <<npc, active, closing, cpc, detached, hnav, results, failing, refused>>
      /\ budgets' = [budgets EXCEPT ![hnav[h]] = budget(h)]
  BY <1>1 DEF TunnelOpens, TunnelStopped, Continue, frame, closeVars
<1>4. CASE TunnelOpens(h)
  <2>1. /\ hpc[h] = "upstream" /\ hpc' = [hpc EXCEPT ![h] = "tunnel"]
        /\ copiers' = [copiers EXCEPT ![h] = 2]
    BY <1>4 DEF TunnelOpens
  <2>2. /\ hpc' \in [Handlers -> Running \cup {"new", "done"}] /\ hpc'[h] = "tunnel"
        /\ copiers' \in [Handlers -> 0..2] /\ copiers'[h] = 2
        /\ \A g \in Handlers \ {h} : hpc'[g] = hpc[g] /\ copiers'[g] = copiers[g]
    BY <1>1, <2>1 DEF Running
  <2>3. HandlerWorks(h, budget(h))
    <3>1. "tunnel" \in (Running \ {"started"}) \cup {"done"}
      BY DEF Running
    <3> QED
      BY <1>0, <1>1, <1>2, <1>3, <2>1, <2>2, <3>1 DEF HandlerWorks
  <2>4. Counted(h)'
    <3>1. Len(results[h]) = 0
      <4>1. copiers[h] + Len(results[h]) = 0
        BY <1>1, <2>1 DEF Counted
      <4> QED
        BY <1>1, <4>1
    <3> QED
      BY <1>3, <2>2, <3>1 DEF Counted
  <2>5. Kept(h)'
    <3>1. Unread(h)' = Unread(h)
      BY <1>3 DEF Unread
    <3> QED
      BY <1>3, <2>3, <3>1, KeptStep
  <2> QED
    BY <2>3, <2>4, <2>5, HandlerWorksStep
<1>5. CASE TunnelStopped(h)
  <2>1. /\ hpc[h] = "tunnel" /\ hpc' = [hpc EXCEPT ![h] = "done"]
        /\ copiers' = copiers /\ budget(h).done
    BY <1>5 DEF TunnelStopped, Continue, frame
  <2>2. /\ hpc' \in [Handlers -> Running \cup {"new", "done"}] /\ hpc'[h] = "done"
        /\ \A g \in Handlers \ {h} : hpc'[g] = hpc[g]
    BY <1>1, <2>1
  <2>3. HandlerWorks(h, budget(h))
    BY <1>0, <1>1, <1>2, <1>3, <2>1, <2>2 DEF HandlerWorks
  <2>4. Counted(h)'
    <3>1. (budget(h).done)' /\ hnav'[h] \in Navigations
      BY <1>1, <1>3, <2>1 DEF budget
    <3>2. copiers[h] + Len(results[h]) = 2
      BY <1>1, <2>1 DEF Counted
    <3> QED
      BY <1>3, <2>1, <2>2, <3>1, <3>2 DEF Counted
  <2>5. Kept(h)'
    <3>1. Unread(h)' = Unread(h)
      BY <1>3 DEF Unread
    <3> QED
      BY <1>3, <2>3, <3>1, KeptStep
  <2> QED
    BY <2>3, <2>4, <2>5, HandlerWorksStep
<1> QED
  BY <1>4, <1>5

(* The handler receives the first result: a policy error is recorded. *)
LEMMA ResultStep ==
  ASSUME IInv, NEW h \in Handlers, NEW gone \in BOOLEAN, TunnelResult(h, gone)
  PROVE  IInv'
<1>0. hpc[h] = "tunnel" /\ results[h] # <<>> /\ hpc[h] \in Running \ {"started"}
  BY DEF TunnelResult, Running
<1>1. /\ Sound(budget(h)) /\ budget(h) = budgets[hnav[h]] /\ hnav[h] \in Navigations
      /\ budgets = [budgets EXCEPT ![hnav[h]] = budget(h)]
      /\ hpc \in [Handlers -> Running \cup {"new", "done"}]
      /\ copiers \in [Handlers -> 0..2] /\ Counted(h)
      /\ results \in [Handlers -> Seq(Errors \cup {Nil})]
      /\ failing \in [Handlers -> Errors \cup {Nil}]
      /\ copiers[h] \in Nat /\ Len(results[h]) \in Nat
  BY <1>0, HandlerFacts
<1>2. results[h] \in Seq(Errors \cup {Nil})
  BY <1>1
<1>3. /\ Head(results[h]) \in Errors \cup {Nil}
      /\ Tail(results[h]) \in Seq(Errors \cup {Nil})
      /\ Len(Tail(results[h])) = Len(results[h]) - 1
  BY <1>0, <1>2
<1>4. /\ results' = [results EXCEPT ![h] = Tail(results[h])]
      /\ UNCHANGED <<npc, active, closing, cpc, detached, hnav, copiers>>
  BY DEF TunnelResult, closeVars
<1>5. /\ results' \in [Handlers -> Seq(Errors \cup {Nil})]
      /\ results'[h] = Tail(results[h])
      /\ \A g \in Handlers \ {h} : results'[g] = results[g]
  BY <1>1, <1>3, <1>4
<1>6. Unread(h) /\ ~isPolicyError(Head(results[h])) => Unread(h)'
  BY <1>0, <1>2, <1>5, UnreadTail DEF Unread
<1>7. copiers[h] + Len(results'[h]) = 1
  BY <1>0, <1>1, <1>3, <1>5 DEF Counted
<1>s. ASSUME NEW b, Works(budget(h), b), budgets' = [budgets EXCEPT ![hnav[h]] = b],
             NEW next \in {"record", "done"}, hpc' = [hpc EXCEPT ![h] = next],
             failing' \in [Handlers -> Errors \cup {Nil}],
             \/ refused' = refused /\ ~isPolicyError(Head(results[h]))
             \/ refused' = refused \cup {<<hnav[h], h>>} /\ b.policyErr # Nil
      PROVE  IInv'
  <2>1. /\ hpc' \in [Handlers -> Running \cup {"new", "done"}] /\ hpc'[h] = next
        /\ \A g \in Handlers \ {h} : hpc'[g] = hpc[g]
    BY <1>1, <1>s DEF Running
  <2>2. next \in (Running \ {"started"}) \cup {"done"}
    BY <1>s DEF Running
  <2>3. refused' \in {refused, refused \cup {<<hnav[h], h>>}}
    BY <1>s
  <2>4. HandlerWorks(h, b)
    BY <1>0, <1>1, <1>4, <1>5, <1>s, <2>1, <2>2, <2>3 DEF HandlerWorks
  <2>5. Counted(h)'
    BY <1>4, <1>7, <2>1, <1>s DEF Counted
  <2>6. Kept(h)'
    BY <1>6, <1>s, <2>4, KeptStep
  <2> QED
    BY <2>4, <2>5, <2>6, HandlerWorksStep
<1>w. Works(budget(h), budget(h)) /\ Nil \notin PolicyErrors
  BY <1>1, ChargesWork, Names
<1>8. CASE Head(results[h]) = Nil /\ Continue(h, budget(h), "done")
  <2>1. ~isPolicyError(Head(results[h]))
    BY <1>8, <1>w DEF isPolicyError
  <2> QED
    BY <1>1, <1>8, <1>s, <1>w, <2>1 DEF Continue
<1>9. CASE isPolicyError(Head(results[h])) /\ EndPolicy(h, Head(results[h]))
  <2>1. Head(results[h]) \in PolicyErrors
    BY <1>9 DEF isPolicyError
  <2>2. /\ Works(budget(h), failPolicy(budget(h), Head(results[h])))
        /\ failPolicy(budget(h), Head(results[h])).policyErr # Nil
    BY <1>1, <2>1, FailPolicyWorks
  <2>3. /\ budgets' = [budgets EXCEPT ![hnav[h]] = failPolicy(budget(h), Head(results[h]))]
        /\ hpc' = [hpc EXCEPT ![h] = "done"] /\ failing' = failing
        /\ refused' = refused \cup {<<hnav[h], h>>}
    BY <1>9 DEF EndPolicy, EndPolicyOn
  <2> QED
    BY <1>1, <1>s, <2>2, <2>3
<1>10. CASE /\ Head(results[h]) # Nil /\ ~isPolicyError(Head(results[h]))
            /\ EndInfra(h, Head(results[h]), gone)
  <2>1. /\ budgets' = [budgets EXCEPT ![hnav[h]] = budget(h)] /\ refused' = refused
    BY <1>1, <1>10 DEF EndInfra, OfferInfra
  <2>2. failing' \in [Handlers -> Errors \cup {Nil}]
    BY <1>1, <1>3, <1>10 DEF EndInfra, OfferInfra
  <2>3. \/ hpc' = [hpc EXCEPT ![h] = "record"]
        \/ hpc' = [hpc EXCEPT ![h] = "done"]
    BY <1>10 DEF EndInfra, OfferInfra
  <2> QED
    BY <1>10, <1>s, <1>w, <2>1, <2>2, <2>3
<1> QED
  BY <1>8, <1>9, <1>10 DEF TunnelResult

(* The steps of a handler. *)
LEMMA HandlerStep ==
  ASSUME IInv, NEW h \in Handlers, Handler(h)
  PROVE  IInv'
<1>1. CASE Advance(h)
  <2>1. ASSUME RecordInfra(h) PROVE IInv'
    BY <2>1, EndingSteps
  <2> QED
    BY <1>1, <2>1, StartStep, ChargingSteps DEF Advance
<1>2. CASE Released(h)
  BY <1>2, WaitingSteps, TunnelSteps DEF Released
<1>3. CASE Peers(h)
  <2>1. ASSUME NEW gone \in BOOLEAN, UploadChunk(h, gone) \/ ClientFails(h, gone)
        PROVE  IInv'
    BY <2>1, EndingSteps
  <2>2. ASSUME NEW err \in {"ErrForbiddenDestination", "transport"},
               NEW gone \in BOOLEAN,
               ConnectFails(h, err, gone) \/ RoundTripFails(h, err, gone)
        PROVE  IInv'
    BY <2>2, EndingSteps
  <2>3. ASSUME NEW err \in {Nil, "transport"}, NEW gone \in BOOLEAN,
               CopyEnds(h, err, gone)
        PROVE  IInv'
    BY <2>3, EndingSteps
  <2> QED
    BY <1>3, <2>1, <2>2, <2>3, StartStep, ChargingSteps, WaitingSteps, TunnelSteps,
       CopierSteps, ResultStep DEF Peers
<1> QED
  BY <1>1, <1>2, <1>3 DEF Handler

-----------------------------------------------------------------------------
(* The invariant is inductive. *)
LEMMA Inductive == IInv /\ [Next]_vars => IInv'
<1> SUFFICES ASSUME IInv, [Next]_vars PROVE IInv'
  OBVIOUS
<1>1. CASE Next
  BY <1>1, CloseStep, NavigationStep, HandlerStep DEF Next
<1>2. CASE UNCHANGED vars
  <2>0. TypeOK /\ SoundBudgets /\ Installed /\ StopsExplained /\ CloseOrdered
    BY DEF IInv
  <2>1. UNCHANGED <<budgets, npc, active, closing, cpc, detached, hpc, hnav,
                    copiers, results, failing, refused>>
    BY <1>2 DEF vars, closeVars, handlerVars
  <2>2. \A n \in Navigations : Evolves(budgets[n], budgets'[n])
    BY <2>0, <2>1, StopEvolves DEF SoundBudgets
  <2>3. \A h \in Handlers : Holds(h)' /\ Counted(h)' /\ Kept(h)'
    BY <2>1, <2>2, HandlersRest DEF handlerVars
  <2>4. TypeOK' /\ SoundBudgets' /\ CloseOrdered'
    BY <2>0, <2>1 DEF TypeOK, SoundBudgets, CloseOrdered, ClosedMeansQuiet
  <2>5. Installed' /\ StopsExplained'
    BY <2>0, <2>1 DEF Installed, StopsExplained, BeingStopped, Over
  <2> QED
    BY <2>3, <2>4, <2>5 DEF IInv
<1> QED
  BY <1>1, <1>2

(* Every reachable state satisfies the invariant. *)
THEOREM ProxyInvariant == Spec => []IInv
BY InitIInv, Inductive, PTL DEF Spec

(* The variables keep their types: among them, no budget counter is ever  *)
(* negative and no tunnel has more than two copy goroutines.               *)
THEOREM ProxyTypes == Spec => []TypeOK
<1>1. IInv => TypeOK
  BY DEF IInv
<1> QED
  BY <1>1, ProxyInvariant, PTL

(* For any number of concurrent handlers and tunnels no budget passes its  *)
(* limits (consume, authorizeProxy).                                       *)
THEOREM ProxyCeilings == Spec => []BudgetCeilings
<1>1. IInv => BudgetCeilings
  BY DEF IInv, SoundBudgets, Sound, BudgetCeilings
<1> QED
  BY <1>1, ProxyInvariant, PTL

(* When Close has returned no handler runs and none starts (handlers.Wait, *)
(* startHandler).                                                          *)
THEOREM ProxyCloseQuiet == Spec => []ClosedMeansQuiet
<1>1. IInv => ClosedMeansQuiet
  BY DEF IInv, CloseOrdered
<1> QED
  BY <1>1, ProxyInvariant, PTL

(* A budget that a handler holds is the installed one, stopped, or removed *)
(* by end or Close, which let go of p.mu (proxy.go:103, 124) and has yet   *)
(* to stop it; no other step opens such a window.                          *)
THEOREM ProxyInactive == Spec => []OnlyActiveBudgetsOpen
<1>1. IInv => OnlyActiveBudgetsOpen
  <2> SUFFICES ASSUME IInv, NEW n \in Navigations,
                      npc[n] = "ended" \/ \E h \in Handlers : hnav[h] = n /\ active # n
               PROVE  budgets[n].done \/ BeingStopped(n)
    BY DEF OnlyActiveBudgetsOpen
  <2>1. n # None /\ Installed
    BY ProxyAssumption DEF IInv
  <2> QED
    BY <2>1 DEF Installed, BeingStopped
<1> QED
  BY <1>1, ProxyInvariant, PTL

(* A policy error that a tunnel's handler or copy met decides the          *)
(* navigation's outcome (failPolicy, failure), unless connect does not     *)
(* read it: it took the other copy's result, or found the budget stopped   *)
(* by end or Close.  A handler leaves both results only on a stopped       *)
(* budget, and only a policy error, end or Close stop one that is held.    *)
THEOREM ProxyPolicyDominates == Spec => []TunnelPolicyDominates
<1>1. IInv => TunnelPolicyDominates
  <2> SUFFICES ASSUME IInv, NEW n \in Navigations, NEW h \in Tunnels,
                      <<n, h>> \in refused, ~isPolicyError(failure(budgets[n]))
               PROVE  /\ Unread(h)
                      /\ \/ hpc[h] = "tunnel" \/ Over(n)
                         \/ copiers[h] + Len(results[h]) = 1
    BY DEF TunnelPolicyDominates
  <2>1. /\ TypeOK /\ SoundBudgets /\ Installed /\ StopsExplained
        /\ Counted(h) /\ Kept(h)
    BY DEF IInv, Handlers
  <2>2. hnav[h] = n /\ hpc[h] \notin {"new", "started"}
    BY <2>1 DEF Kept
  <2>3. budgets[n].policyErr = Nil
    <3>1. budgets[n] \in Budgets /\ budgets[n].policyErr \in PolicyErrors \cup {Nil}
      BY <2>1 DEF SoundBudgets, Sound
    <3> QED
      BY <3>1, PolicyDominates DEF isPolicyError
  <2>4. Unread(h)
    BY <2>1, <2>3 DEF Kept
  <2>5. copiers[h] \in Nat /\ Len(results[h]) \in Nat /\ Len(results[h]) > 0
    <3>1. copiers[h] \in 0..2 /\ results[h] \in Seq(Errors \cup {Nil})
      BY <2>1 DEF TypeOK, Handlers
    <3>2. PICK i \in DOMAIN results[h] : TRUE
      BY <2>4 DEF Unread
    <3> QED
      BY <3>1, <3>2
  <2>6. CASE hpc[h] = "done" /\ copiers[h] + Len(results[h]) = 2
    <3>1. budgets[n].done
      BY <2>1, <2>2, <2>6 DEF Counted, budget
    <3>2. npc[n] # "refused"
      BY <2>1, <2>2, ProxyAssumption DEF Installed, Handlers
    <3> QED
      BY <2>1, <2>3, <2>4, <3>1, <3>2 DEF StopsExplained
  <2>7. CASE ~(hpc[h] = "done" /\ copiers[h] + Len(results[h]) = 2)
    BY <2>1, <2>4, <2>5, <2>7 DEF Counted
  <2> QED
    BY <2>6, <2>7
<1> QED
  BY <1>1, ProxyInvariant, PTL
=============================================================================
