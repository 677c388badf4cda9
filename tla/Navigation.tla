----------------------------- MODULE Navigation -----------------------------
(***************************************************************************)
(* One bounded browser navigation: navigateChromedp and the types it       *)
(* creates (internal/browser/chromedp.go).  Four goroutines share the      *)
(* navigation budget, the request tracker and the command queue:           *)
(*                                                                         *)
(*   main      set up interception, navigate, wait for network quiet,      *)
(*             submit at most one form, tear down, classify the result;    *)
(*   listener  chromedp's event goroutine: handles one event at a time and *)
(*             starts no new one once listenerCtx is done;                 *)
(*   worker    answers paused requests and closes blocked targets;         *)
(*   watcher   turns a stopped budget or a finished context into           *)
(*             cancelRun (and a stopped budget).                           *)
(*                                                                         *)
(* A step is a critical section, a channel operation or an external call   *)
(* returning.  The browser, the caller and the proxy are the environment.  *)
(***************************************************************************)
EXTENDS NavigationBudget, Sequences, FiniteSets

CONSTANTS RequestIDs,     \* network.RequestID values the page uses
          MaxConcurrentRequests,  \* config.MaxConcurrentRequests
          BlockedCapacity,        \* cap(blockedTargets)
          Forms,                  \* config.Forms
          MaxEvents               \* bound: environment events explored

NoID == "no id"        \* the empty network.RequestID

ASSUME NavigationAssumption ==
  /\ IsFiniteSet(RequestIDs)
  /\ MaxConcurrentRequests \in Nat \ {0}
  /\ BlockedCapacity \in Nat
  /\ Forms \in BOOLEAN
  /\ MaxEvents \in Nat
  /\ NoID \notin RequestIDs
  /\ "fail" \notin RequestIDs

VARIABLES
  budget,           \* the navigationBudget
  navCtx,           \* navigationCtx: "live" or the error it ended with
  runCanceled,      \* cancelRun has been called
  taskDone,         \* taskCtx is done: the browser session ended
  listenerStopped,  \* stopListener has been called
  sem, active,      \* browserRequestTracker: tokens held, active map
  queue,            \* pausedCommands: a request id to continue, or "fail"
  blocked,          \* number of entries in blockedTargets
  activity,         \* the one-slot activity channel is full
  mpc, navErr, pops, result,   \* main
  wpc, wcmd,                   \* worker
  lpc, lid, lerr,              \* listener
  watcher,
  events            \* environment events so far

ctxVars == <<navCtx, runCanceled, taskDone, listenerStopped>>
mainVars == <<mpc, navErr, pops, result>>
workerVars == <<wpc, wcmd>>
listenerVars == <<lpc, lid, lerr>>
vars == <<budget, ctxVars, sem, active, queue, blocked, activity, mainVars,
          workerVars, listenerVars, watcher, events>>

(* Program positions of the listener inside requestTracker.acquire. *)
Acquiring == {"check", "select", "push", "insert", "enqueue"}

FlagTypes ==
  /\ navCtx \in {"live", "context.Canceled", "context.DeadlineExceeded"}
  /\ runCanceled \in BOOLEAN
  /\ taskDone \in BOOLEAN
  /\ listenerStopped \in BOOLEAN
  /\ activity \in BOOLEAN
  /\ watcher \in {"waiting", "exited"}
  /\ events \in Nat

SharedTypes ==
  /\ budget \in Budgets
  /\ sem \in 0..MaxConcurrentRequests
  /\ active \in SUBSET RequestIDs
  /\ queue \in Seq(RequestIDs \cup {"fail"})
  /\ blocked \in 0..BlockedCapacity

MainTypes ==
  /\ mpc \in {"setup", "navigate", "quiet", "form", "quietAfterForm", "stop",
              "stopWorker", "join", "releaseAll", "pops", "classify", "returned"}
  /\ navErr \in {Nil, "setup", "failed", "context.Canceled"}
  /\ pops \in Nat
  /\ result \in {Nil, "ok", "setup", "failed"} \cup Errors

GoroutineTypes ==
  /\ wpc \in {"select", "call", "pop", "report", "closeTarget", "drain",
              "drainPop", "exited"}
  /\ wcmd \in RequestIDs \cup {"fail"}
  /\ lpc \in {"idle", "reject", "failing", "pop"} \cup Acquiring
  /\ lid \in RequestIDs \cup {NoID}
  /\ lerr \in Errors \cup {Nil}

TypeOK == FlagTypes /\ SharedTypes /\ MainTypes /\ GoroutineTypes

listenerDone == listenerStopped \/ taskDone
runDone == runCanceled \/ navCtx # "live"

(* Mutated form: the queue is sized by the concurrency limit. *)
QueueSizedByConcurrency == MaxConcurrentRequests
QueueCapacity == MaxRequests + 1

(* After proxy.begin accepted the navigation. *)
Init ==
  /\ budget = newNavigationBudget
  /\ navCtx = "live"
  /\ runCanceled = FALSE
  /\ taskDone = FALSE
  /\ listenerStopped = FALSE
  /\ sem = 0
  /\ active = {}
  /\ queue = <<>>
  /\ blocked = 0
  /\ activity = FALSE
  /\ mpc = "setup"
  /\ navErr = Nil
  /\ pops = 0
  /\ result = Nil
  /\ wpc = "select"
  /\ wcmd = "fail"
  /\ lpc = "idle"
  /\ lid = NoID
  /\ lerr = Nil
  /\ watcher = "waiting"
  /\ events = 0
-----------------------------------------------------------------------------
(*                     Environment and watcher                             *)

(* The caller cancels, or the navigation timeout expires. *)
ContextEnds(why) ==
  /\ navCtx = "live"
  /\ mpc # "returned"
  /\ navCtx' = why
  /\ UNCHANGED <<budget, runCanceled, taskDone, listenerStopped, sem, active,
                 queue, blocked, activity, mainVars, workerVars, listenerVars,
                 watcher, events>>

(* Chromium exits: taskCtx, and with it listenerCtx, is done. *)
BrowserExits ==
  /\ ~taskDone
  /\ taskDone' = TRUE
  /\ UNCHANGED <<budget, navCtx, runCanceled, listenerStopped, sem, active,
                 queue, blocked, activity, mainVars, workerVars, listenerVars,
                 watcher, events>>

(* The session's cleanup closes the proxy, which stops the active budget. *)
ProxyCloses ==
  /\ taskDone
  /\ ~budget.done
  /\ budget' = stop(budget)
  /\ UNCHANGED <<ctxVars, sem, active, queue, blocked, activity, mainVars,
                 workerVars, listenerVars, watcher, events>>

(* A proxy handler of this navigation reports an error (SafeProxy): policy *)
(* errors always, other errors only while the budget is not stopped.       *)
ProxyFails(err) ==
  /\ events < MaxEvents
  /\ isPolicyError(err) \/ ~budget.done
  /\ budget' = IF isPolicyError(err) THEN failPolicy(budget, err)
                                     ELSE failInfrastructure(budget, err)
  /\ events' = events + 1
  /\ UNCHANGED <<ctxVars, sem, active, queue, blocked, activity, mainVars,
                 workerVars, listenerVars, watcher>>

(* The goroutine of lines 289-298: one of its three cases, then it ends. *)
WatcherWakes ==
  /\ watcher = "waiting"
  /\ watcher' = "exited"
  /\ \/ /\ budget.done
        /\ runCanceled' = TRUE
        /\ UNCHANGED budget
     \/ /\ navCtx # "live"
        /\ budget' = stop(budget)
        /\ runCanceled' = TRUE
     \/ /\ mpc = "returned"
        /\ UNCHANGED <<budget, runCanceled>>
  /\ UNCHANGED <<navCtx, taskDone, listenerStopped, sem, active, queue, blocked,
                 activity, mainVars, workerVars, listenerVars, events>>
-----------------------------------------------------------------------------
(*                             Listener                                    *)

(* chromedp delivers the next event to a listener whose context is live. *)
EventDelivered ==
  /\ lpc = "idle"
  /\ ~listenerDone
  /\ events < MaxEvents
  /\ events' = events + 1

(* Network.dataReceived *)
DataReceived(count) ==
  /\ EventDelivered
  /\ activity' = TRUE
  /\ budget' = consumeDecoded(budget, count)
  /\ lerr' = consumeDecodedErr(budget, count)
  /\ lpc' = IF lerr' = Nil THEN "idle" ELSE "failing"
  /\ UNCHANGED <<ctxVars, sem, active, queue, blocked, mainVars, workerVars,
                 lid, watcher>>

(* Fetch.requestPaused without a request: an infrastructure failure. *)
PausedWithoutRequest ==
  /\ EventDelivered
  /\ activity' = TRUE
  /\ budget' = failInfrastructure(budget, "transport")
  /\ UNCHANGED <<ctxVars, sem, active, queue, blocked, mainVars, workerVars,
                 listenerVars, watcher>>

(* Fetch.requestPaused: authorize the URL, then take a concurrency slot    *)
(* for its network id.  The id is empty for requests of other targets.     *)
RequestPaused(id, validURL, redirect) ==
  LET err == authorizeErr(budget, validURL, redirect) IN
  /\ EventDelivered
  /\ activity' = TRUE
  /\ budget' = authorize(budget, validURL, redirect)
  /\ lid' = id
  /\ \/ /\ err # Nil
        /\ lerr' = err
        /\ lpc' = "reject"
     \/ /\ err = Nil /\ id = NoID
        /\ lerr' = "ErrUnsupportedTarget"
        /\ lpc' = "reject"
     \/ /\ err = Nil /\ id # NoID
        /\ lerr' = Nil
        /\ lpc' = "check"
  /\ UNCHANGED <<ctxVars, sem, active, queue, blocked, mainVars, workerVars,
                 watcher>>

(* failPolicy(err), then a fail command unless the queue is full. *)
RejectPaused ==
  /\ lpc = "reject"
  /\ budget' = failPolicy(budget, lerr)
  /\ queue' = IF Len(queue) < QueueCapacity THEN Append(queue, "fail") ELSE queue
  /\ lpc' = "idle"
  /\ lerr' = Nil
  /\ lid' = NoID
  /\ UNCHANGED <<ctxVars, sem, active, blocked, activity, mainVars, workerVars,
                 watcher, events>>

ReportPolicy ==
  /\ lpc = "failing"
  /\ budget' = failPolicy(budget, lerr)
  /\ lpc' = "idle"
  /\ lerr' = Nil
  /\ UNCHANGED <<ctxVars, sem, active, queue, blocked, activity, mainVars,
                 workerVars, lid, watcher, events>>

(* acquire: a request that already holds a slot (a redirect) keeps it. *)
AcquireCheck ==
  /\ lpc = "check"
  /\ lpc' = IF lid \in active THEN "enqueue" ELSE "select"
  /\ UNCHANGED <<budget, ctxVars, sem, active, queue, blocked, activity,
                 mainVars, workerVars, lid, lerr, watcher, events>>

(* acquire: stopped, canceled, or neither; Go picks when both are ready. *)
AcquireSelect ==
  /\ lpc = "select"
  /\ \/ /\ budget.done
        /\ lerr' = "ErrConcurrencyLimit"
        /\ lpc' = "reject"
     \/ /\ listenerDone
        /\ lerr' = "context.Canceled"
        /\ lpc' = "reject"
     \/ /\ ~budget.done /\ ~listenerDone
        /\ lpc' = "push"
        /\ UNCHANGED lerr
  /\ UNCHANGED <<budget, ctxVars, sem, active, queue, blocked, activity,
                 mainVars, workerVars, lid, watcher, events>>

(* Mutated form: the token count is not compared with the ceiling. *)
SlotFreeOffByOne == sem <= MaxConcurrentRequests
SlotFree == sem < MaxConcurrentRequests

(* acquire: a non-blocking send into the semaphore channel. *)
AcquirePush ==
  /\ lpc = "push"
  /\ \/ /\ SlotFree
        /\ sem' = sem + 1
        /\ lpc' = "insert"
        /\ UNCHANGED lerr
     \/ /\ ~SlotFree
        /\ lerr' = "ErrConcurrencyLimit"
        /\ lpc' = "reject"
        /\ UNCHANGED sem
  /\ UNCHANGED <<budget, ctxVars, active, queue, blocked, activity, mainVars,
                 workerVars, lid, watcher, events>>

(* acquire: insert under the mutex; a request inserted meanwhile gives the *)
(* fresh token back.                                                       *)
AcquireInsert ==
  /\ lpc = "insert"
  /\ active' = active \cup {lid}
  /\ sem' = IF lid \in active THEN sem - 1 ELSE sem
  /\ lpc' = "enqueue"
  /\ UNCHANGED <<budget, ctxVars, queue, blocked, activity, mainVars,
                 workerVars, lid, lerr, watcher, events>>

(* Hand the paused request to the worker.  On a full queue the slot is     *)
(* released and the navigation fails with ErrRequestLimit.                 *)
EnqueueContinue ==
  /\ lpc = "enqueue"
  /\ lpc' = "idle"
  /\ lid' = NoID
  /\ IF Len(queue) < QueueCapacity
     THEN /\ queue' = Append(queue, lid)
          /\ UNCHANGED <<budget, sem, active>>
     ELSE /\ active' = active \ {lid}
          /\ sem' = IF lid \in active THEN sem - 1 ELSE sem
          /\ budget' = failPolicy(budget, "ErrRequestLimit")
          /\ UNCHANGED queue
  /\ UNCHANGED <<ctxVars, blocked, activity, mainVars, workerVars, lerr, watcher,
                 events>>

(* Mutated form: the token of a finished request is not received. *)
LoadingEndsNoPop(id) ==
  /\ EventDelivered
  /\ active' = active \ {id}
  /\ activity' = TRUE
  /\ UNCHANGED <<budget, ctxVars, sem, queue, blocked, mainVars, workerVars,
                 listenerVars, watcher>>

(* Network.loadingFinished and loadingFailed: release the slot, then note  *)
(* the activity.  release deletes under the mutex and receives the token   *)
(* after unlocking.                                                        *)
LoadingEnds(id) ==
  /\ EventDelivered
  /\ active' = active \ {id}
  /\ \/ /\ id \in active
        /\ lpc' = "pop"
        /\ UNCHANGED activity
     \/ /\ id \notin active
        /\ activity' = TRUE
        /\ UNCHANGED lpc
  /\ UNCHANGED <<budget, ctxVars, sem, queue, blocked, mainVars, workerVars,
                 lid, lerr, watcher>>

ListenerPop ==
  /\ lpc = "pop"
  /\ sem > 0
  /\ sem' = sem - 1
  /\ activity' = TRUE
  /\ lpc' = "idle"
  /\ UNCHANGED <<budget, ctxVars, active, queue, blocked, mainVars, workerVars,
                 lid, lerr, watcher, events>>

(* WebSocketCreated and windowOpen fail the navigation. *)
ForbiddenChannel(err) ==
  /\ EventDelivered
  /\ budget' = failPolicy(budget, err)
  /\ UNCHANGED <<ctxVars, sem, active, queue, blocked, activity, mainVars,
                 workerVars, listenerVars, watcher>>

(* attachedToTarget with a blocked type also asks the worker to close the  *)
(* target, unless blockedTargets is full.                                  *)
BlockedTargetAttached ==
  /\ EventDelivered
  /\ budget' = failPolicy(budget, "ErrUnsupportedTarget")
  /\ blocked' = IF blocked < BlockedCapacity THEN blocked + 1 ELSE blocked
  /\ UNCHANGED <<ctxVars, sem, active, queue, activity, mainVars, workerVars,
                 listenerVars, watcher>>
-----------------------------------------------------------------------------
(*                              Worker                                     *)

WorkerTakes ==
  /\ wpc = "select"
  /\ queue # <<>>
  /\ wcmd' = Head(queue)
  /\ queue' = Tail(queue)
  /\ wpc' = "call"
  /\ UNCHANGED <<budget, ctxVars, sem, active, blocked, activity, mainVars,
                 listenerVars, watcher, events>>

WorkerTakesTarget ==
  /\ wpc = "select"
  /\ blocked > 0
  /\ blocked' = blocked - 1
  /\ wpc' = "closeTarget"
  /\ UNCHANGED <<budget, ctxVars, sem, active, queue, activity, mainVars, wcmd,
                 listenerVars, watcher, events>>

(* The DevTools command succeeds. *)
CommandSucceeds ==
  /\ wpc \in {"call", "closeTarget"}
  /\ wpc' = "select"
  /\ wcmd' = "fail"
  /\ UNCHANGED <<budget, ctxVars, sem, active, queue, blocked, activity,
                 mainVars, listenerVars, watcher, events>>

(* The command fails: a continue gives its slot back before it reports. *)
CommandFails ==
  /\ wpc \in {"call", "closeTarget"}
  /\ \/ /\ wpc = "call" /\ wcmd \in active
        /\ active' = active \ {wcmd}
        /\ wpc' = "pop"
     \/ /\ wpc = "closeTarget" \/ wcmd \notin active
        /\ wpc' = "report"
        /\ UNCHANGED active
  /\ wcmd' = "fail"
  /\ UNCHANGED <<budget, ctxVars, sem, queue, blocked, activity, mainVars,
                 listenerVars, watcher, events>>

(* A command issued under a done listenerCtx returns its error at once. *)
CommandCanceled == listenerDone /\ CommandFails

WorkerPop ==
  /\ wpc = "pop"
  /\ sem > 0
  /\ sem' = sem - 1
  /\ wpc' = "report"
  /\ UNCHANGED <<budget, ctxVars, active, queue, blocked, activity, mainVars,
                 wcmd, listenerVars, watcher, events>>

WorkerReports ==
  /\ wpc = "report"
  /\ budget' = IF listenerDone THEN budget
               ELSE failInfrastructure(budget, "transport")
  /\ wpc' = "select"
  /\ UNCHANGED <<ctxVars, sem, active, queue, blocked, activity, mainVars, wcmd,
                 listenerVars, watcher, events>>

(* stopWorker is closed. *)
WorkerStops ==
  /\ wpc = "select"
  /\ mpc = "join"
  /\ wpc' = "drain"
  /\ UNCHANGED <<budget, ctxVars, sem, active, queue, blocked, activity,
                 mainVars, wcmd, listenerVars, watcher, events>>

(* Drain: release and continue, or fail, whatever is still queued; the     *)
(* results of the commands are ignored.                                    *)
WorkerDrains ==
  /\ wpc = "drain"
  /\ queue # <<>>
  /\ queue' = Tail(queue)
  /\ active' = active \ {Head(queue)}
  /\ wpc' = IF Head(queue) \in active THEN "drainPop" ELSE "drain"
  /\ UNCHANGED <<budget, ctxVars, sem, blocked, activity, mainVars, wcmd,
                 listenerVars, watcher, events>>

WorkerDrainPop ==
  /\ wpc = "drainPop"
  /\ sem > 0
  /\ sem' = sem - 1
  /\ wpc' = "drain"
  /\ UNCHANGED <<budget, ctxVars, active, queue, blocked, activity, mainVars,
                 wcmd, listenerVars, watcher, events>>

WorkerDrainsTarget ==
  /\ wpc = "drain"
  /\ blocked > 0
  /\ blocked' = blocked - 1
  /\ UNCHANGED <<budget, ctxVars, sem, active, queue, activity, mainVars,
                 workerVars, listenerVars, watcher, events>>

WorkerExits ==
  /\ wpc = "drain"
  /\ queue = <<>>
  /\ blocked = 0
  /\ wpc' = "exited"
  /\ UNCHANGED <<budget, ctxVars, sem, active, queue, blocked, activity,
                 mainVars, wcmd, listenerVars, watcher, events>>
-----------------------------------------------------------------------------
(*                               Main                                      *)

(* runChromedpWithCaller or submitBoundedForm returns nil.  Entering the   *)
(* quiet wait empties the activity channel.                                *)
StageSucceeds ==
  /\ mpc \in {"setup", "navigate", "form"}
  /\ mpc' = CASE mpc = "setup"    -> "navigate"
              [] mpc = "navigate" -> "quiet"
              [] OTHER            -> "quietAfterForm"
  /\ activity' = IF mpc = "setup" THEN activity ELSE FALSE
  /\ UNCHANGED <<budget, ctxVars, sem, active, queue, blocked, navErr, pops,
                 result, workerVars, listenerVars, watcher, events>>

(* The stage fails; with a done runCtx or taskCtx the error is canceled. *)
StageFails(err) ==
  /\ mpc \in {"setup", "navigate", "form"}
  /\ err = "context.Canceled" => runDone \/ taskDone
  /\ navErr' = IF mpc = "setup" THEN "setup" ELSE err
  /\ mpc' = "stop"
  /\ UNCHANGED <<budget, ctxVars, sem, active, queue, blocked, activity, pops,
                 result, workerVars, listenerVars, watcher, events>>

AfterQuiet == IF mpc = "quiet" /\ Forms THEN "form" ELSE "stop"

(* waitForNetworkQuiet: activity restarts the idle timer. *)
QuietActivity ==
  /\ mpc \in {"quiet", "quietAfterForm"}
  /\ activity
  /\ activity' = FALSE
  /\ UNCHANGED <<budget, ctxVars, sem, active, queue, blocked, mainVars,
                 workerVars, listenerVars, watcher, events>>

(* waitForNetworkQuiet: the idle timer fires with no request active, or    *)
(* the hard post-load timer fires.                                         *)
QuietIdle ==
  /\ mpc \in {"quiet", "quietAfterForm"}
  /\ active = {}
  /\ mpc' = AfterQuiet
  /\ UNCHANGED <<budget, ctxVars, sem, active, queue, blocked, activity, navErr,
                 pops, result, workerVars, listenerVars, watcher, events>>

QuietDeadline ==
  /\ mpc \in {"quiet", "quietAfterForm"}
  /\ mpc' = AfterQuiet
  /\ UNCHANGED <<budget, ctxVars, sem, active, queue, blocked, activity, navErr,
                 pops, result, workerVars, listenerVars, watcher, events>>

QuietCanceled ==
  /\ mpc \in {"quiet", "quietAfterForm"}
  /\ runDone
  /\ navErr' = "context.Canceled"
  /\ mpc' = "stop"
  /\ UNCHANGED <<budget, ctxVars, sem, active, queue, blocked, activity, pops,
                 result, workerVars, listenerVars, watcher, events>>

(* Mutated form: the listener's context is left alive at teardown. *)
StopListenerForgotten ==
  /\ mpc = "stop"
  /\ mpc' = "stopWorker"
  /\ UNCHANGED <<budget, ctxVars, sem, active, queue, blocked, activity, navErr,
                 pops, result, workerVars, listenerVars, watcher, events>>

StopListener ==
  /\ mpc = "stop"
  /\ listenerStopped' = TRUE
  /\ mpc' = "stopWorker"
  /\ UNCHANGED <<budget, navCtx, runCanceled, taskDone, sem, active, queue,
                 blocked, activity, navErr, pops, result, workerVars,
                 listenerVars, watcher, events>>

CloseStopWorker ==
  /\ mpc = "stopWorker"
  /\ mpc' = "join"
  /\ UNCHANGED <<budget, ctxVars, sem, active, queue, blocked, activity, navErr,
                 pops, result, workerVars, listenerVars, watcher, events>>

JoinWorker ==
  /\ mpc = "join"
  /\ wpc = "exited"
  /\ mpc' = "releaseAll"
  /\ UNCHANGED <<budget, ctxVars, sem, active, queue, blocked, activity, navErr,
                 pops, result, workerVars, listenerVars, watcher, events>>

(* Mutated form: releaseAll counts the semaphore, not the active map. *)
ReleaseAllTokens ==
  /\ mpc = "releaseAll"
  /\ pops' = sem
  /\ active' = {}
  /\ mpc' = "pops"
  /\ UNCHANGED <<budget, ctxVars, sem, queue, blocked, activity, navErr, result,
                 workerVars, listenerVars, watcher, events>>

(* releaseAll clears the map under the mutex, then receives its tokens. *)
ReleaseAll ==
  /\ mpc = "releaseAll"
  /\ pops' = Cardinality(active)
  /\ active' = {}
  /\ mpc' = "pops"
  /\ UNCHANGED <<budget, ctxVars, sem, queue, blocked, activity, navErr, result,
                 workerVars, listenerVars, watcher, events>>

MainPop ==
  /\ mpc = "pops"
  /\ pops > 0
  /\ sem > 0
  /\ sem' = sem - 1
  /\ pops' = pops - 1
  /\ UNCHANGED <<budget, ctxVars, active, queue, blocked, activity, mpc, navErr,
                 result, workerVars, listenerVars, watcher, events>>

(* Best-effort fetch.Disable, stopLoading and auto-attach reset. *)
CleanupDone ==
  /\ mpc = "pops"
  /\ pops = 0
  /\ mpc' = "classify"
  /\ UNCHANGED <<budget, ctxVars, sem, active, queue, blocked, activity, navErr,
                 pops, result, workerVars, listenerVars, watcher, events>>

(* Policy over infrastructure over context over stage error; the setup     *)
(* path does not consult the context.                                      *)
Classified ==
  CASE failure(budget) # Nil -> failure(budget)
    [] failure(budget) = Nil /\ navErr = "setup" -> "setup"
    [] failure(budget) = Nil /\ navErr # "setup" /\ navCtx # "live" -> navCtx
    [] failure(budget) = Nil /\ navErr # "setup" /\ navCtx = "live" /\ navErr # Nil
         -> navErr
    [] OTHER -> "ok"

(* Return: the deferred proxy.end stops the budget, cancelRun runs and     *)
(* budgetEnded closes.                                                     *)
Return ==
  /\ mpc = "classify"
  /\ result' = Classified
  /\ mpc' = "returned"
  /\ budget' = stop(budget)
  /\ runCanceled' = TRUE
  /\ UNCHANGED <<navCtx, taskDone, listenerStopped, sem, active, queue, blocked,
                 activity, navErr, pops, workerVars, listenerVars, watcher,
                 events>>
-----------------------------------------------------------------------------
Environment ==
  \/ \E why \in {"context.Canceled", "context.DeadlineExceeded"} : ContextEnds(why)
  \/ BrowserExits
  \/ ProxyCloses
  \/ \E err \in {"ErrForbiddenDestination", "transport"} : ProxyFails(err)
  \/ \E count \in 1..MaxTransferBytes : DataReceived(count)
  \/ PausedWithoutRequest
  \/ \E id \in RequestIDs \cup {NoID}, validURL, redirect \in BOOLEAN :
        RequestPaused(id, validURL, redirect)
  \/ \E id \in RequestIDs : LoadingEnds(id)
  \/ \E err \in {"ErrInvalidURL", "ErrUnsupportedTarget"} : ForbiddenChannel(err)
  \/ BlockedTargetAttached
  \/ CommandSucceeds
  \/ CommandFails

Listener ==
  \/ RejectPaused \/ ReportPolicy
  \/ AcquireCheck \/ AcquireSelect \/ AcquirePush \/ AcquireInsert
  \/ EnqueueContinue \/ ListenerPop

Worker ==
  \/ WorkerTakes \/ WorkerTakesTarget \/ WorkerPop \/ WorkerReports
  \/ WorkerStops \/ WorkerDrains \/ WorkerDrainPop \/ WorkerDrainsTarget
  \/ WorkerExits

Stage ==
  \/ StageSucceeds
  \/ \E err \in {"failed", "context.Canceled"} : StageFails(err)
  \/ QuietActivity \/ QuietIdle \/ QuietDeadline \/ QuietCanceled

Teardown ==
  \/ StopListener \/ CloseStopWorker \/ JoinWorker
  \/ ReleaseAll \/ MainPop \/ CleanupDone \/ Return

(* Everything has returned; only the process outside goes on. *)
Finished ==
  /\ mpc = "returned" /\ wpc = "exited" /\ lpc = "idle" /\ watcher = "exited"
  /\ UNCHANGED vars

Next == Environment \/ Listener \/ Worker \/ Stage \/ Teardown
        \/ WatcherWakes \/ Finished

Spec == Init /\ [][Next]_vars

(* Every goroutine keeps running, the navigation timeout and the post-load *)
(* timer fire, and a call whose context is done returns.  The browser owes *)
(* nothing: it may never answer a command or finish a stage.               *)
Fairness ==
  /\ WF_vars(Listener)
  /\ WF_vars(Worker)
  /\ WF_vars(Teardown)
  /\ WF_vars(WatcherWakes)
  /\ WF_vars(CommandCanceled)
  /\ WF_vars(ContextEnds("context.DeadlineExceeded"))
  /\ WF_vars(QuietDeadline)
  /\ WF_vars(StageFails("context.Canceled"))

FairSpec == Spec /\ Fairness
-----------------------------------------------------------------------------
(*                            Properties                                   *)

One(p) == IF p THEN 1 ELSE 0

(* Tokens taken out of the active map but not yet received, and the one    *)
(* token sent but not yet entered in the map.                              *)
InFlight == One(lpc = "insert") + One(lpc = "pop")
            + One(wpc \in {"pop", "drainPop"})
            + (IF mpc = "pops" THEN pops ELSE 0)

(* The semaphore always holds exactly one token per active request plus    *)
(* one per acquire or release that is between the map and the channel:     *)
(* no interleaving of listener, worker and releaseAll loses or duplicates  *)
(* a slot.                                                                 *)
SlotsBalanced == sem = Cardinality(active) + InFlight

(* A goroutine about to receive a token finds one: release and releaseAll  *)
(* never block the event goroutine, the worker or the teardown.            *)
ReleaseNeverBlocks ==
  lpc = "pop" \/ wpc \in {"pop", "drainPop"} \/ (mpc = "pops" /\ pops > 0)
    => sem > 0

(* At most MaxConcurrentRequests request lifecycles are active at once.    *)
ConcurrencyCeiling == Cardinality(active) <= MaxConcurrentRequests

(* The budget's counters stay within the configured limits whatever the    *)
(* order of events and proxy failures.                                     *)
BudgetCeilings == WithinLimits(budget)

(* A request that was authorized and holds a slot always fits in           *)
(* pausedCommands: the queue's capacity of MaxRequests + 1 makes the       *)
(* overflow branch of the listener unreachable.                            *)
QueueNeverOverflows == lpc = "enqueue" => Len(queue) < QueueCapacity

(* Once a policy error is recorded it is never replaced, and a navigation  *)
(* that returns later returns it: neither a later policy error, nor an     *)
(* infrastructure error, nor the cancellation it causes takes its place.   *)
PolicyErrorKept ==
  [][budget.policyErr # Nil
       => /\ budget'.policyErr = budget.policyErr
          /\ result' # result => result' = budget.policyErr]_vars

(* The navigation returns and leaves no goroutine behind, even when the    *)
(* browser answers nothing.                                                *)
NavigationEnds ==
  <>[](mpc = "returned" /\ wpc = "exited" /\ watcher = "exited" /\ lpc = "idle")
=============================================================================
