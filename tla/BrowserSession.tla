--------------------------- MODULE BrowserSession ---------------------------
(***************************************************************************)
(* The life of one browser session (internal/browser/browser.go and the    *)
(* process side of chromedp.go): Client.Start and its startup goroutine,   *)
(* the cleanup of Chromium's profile and proxy, Session.BeginCapture,      *)
(* Navigate and Close, and the Recorder that a cancelled context, a dead   *)
(* browser, Session.Close and Finish may all end.  Inside Navigate runs    *)
(* the form phase (module FormPhase).                                      *)
(*                                                                         *)
(* The client is sequential, as Analyzer.capture is: Start, BeginCapture,  *)
(* Navigate, Finish, Close; it may also close without finishing.  Around   *)
(* it run the startup goroutine, the reaper of a late startup, the taskCtx *)
(* and backend.Done watchers, the cleanup and the recorder's ctx watcher.  *)
(***************************************************************************)

EXTENDS FormPhase

VARIABLES
  callerDone,   \* the caller's context is done
  lifetime,     \* cancelLifetime has been called
  task,         \* taskCtx was cancelled by itself: cancelTask or browser exit
  bpc,          \* backend.start goroutine
  results,      \* the results channel of capacity one
  profile,      \* temporary profile directory
  proxy,        \* safety proxy of the session
  clean,        \* cleanup goroutine of chromedpSession
  cleanErr,     \* the reclaiming of profile and proxy met an error
  taskWatcher, doneWatcher, recWatcher, reaper,
  upc,          \* client
  uerr,         \* the client was returned an error
  usnap,        \* what Finish returned: nothing, a snapshot or ErrRecorderClosed
  stopped, active, captureMu,   \* Session
  once, closed, source          \* Recorder: who runs once.Do, r.closed, source

contexts == <<callerDone, lifetime, task>>
backendVars == <<bpc, results, profile, proxy>>
cleanupVars == <<clean, cleanErr>>
watchers == <<taskWatcher, doneWatcher, recWatcher, reaper>>
client == <<upc, uerr, usnap, formVars>>
sessionVars == <<stopped, active, captureMu>>
recorder == <<once, closed, source>>
vars == <<contexts, backendVars, cleanupVars, watchers, client, sessionVars,
          recorder>>

(* The actors that may run the recorder's once.Do. *)
Closers == {"ctx", "exit", "session"}

TypeOK ==
  /\ {callerDone, lifetime, task} \subseteq BOOLEAN
  /\ bpc \in {"idle", "profile", "proxy", "run", "closing", "sent"}
  /\ results \in {"empty", "session", "error"}
  /\ profile \in {"none", "present", "removed"}
  /\ proxy \in {"none", "open", "closed"}
  /\ clean \in {"idle", "running", "canceled", "proxyClosed", "done"}
  /\ cleanErr \in BOOLEAN
  /\ taskWatcher \in {"none", "waiting", "exited"}
  /\ {doneWatcher, recWatcher, reaper}
       \subseteq {"none", "waiting", "closing", "exited"}
  /\ upc \in {"start", "select", "pending", "closeLate", "begin", "beginCall",
              "install", "navigate", "inspect", "submit", "settle", "finish",
              "finishing", "finishWait", "close", "closeRecorder",
              "closeBackend", "closing", "returned"}
  /\ uerr \in BOOLEAN
  /\ usnap \in {"none", "snapshot", "ErrRecorderClosed"}
  /\ {stopped, active, closed} \subseteq BOOLEAN
  /\ captureMu \in {"free", "client"}
  /\ once \in {"none", "unused", "client", "done"} \cup Closers
  /\ source \in {"none", "open", "finished", "closed"}
  /\ FormTypeOK

Init ==
  /\ callerDone = FALSE /\ lifetime = FALSE /\ task = FALSE
  /\ bpc = "idle" /\ results = "empty" /\ profile = "none" /\ proxy = "none"
  /\ clean = "idle" /\ cleanErr = FALSE
  /\ taskWatcher = "none" /\ doneWatcher = "none" /\ recWatcher = "none"
  /\ reaper = "none"
  /\ upc = "start" /\ uerr = FALSE /\ usnap = "none"
  /\ stopped = FALSE /\ active = FALSE /\ captureMu = "free"
  /\ once = "none" /\ closed = FALSE /\ source = "none"
  /\ FormInit

(* taskCtx derives from the lifetime, which derives from the caller. *)
TaskDone == task \/ lifetime \/ callerDone

(* startCleanup runs the cleanup goroutine once. *)
startCleanup ==
  IF clean = "idle" THEN clean' = "running"
                    ELSE UNCHANGED clean

Returns(failed) == upc' = "returned" /\ uerr' = (uerr \/ failed)
Fails(next) == upc' = next /\ uerr' = TRUE
-----------------------------------------------------------------------------
(*                         Environment                                     *)

CallerEnds ==
  /\ ~callerDone
  /\ callerDone' = TRUE
  /\ UNCHANGED <<lifetime, task, backendVars, cleanupVars, watchers, client,
                 sessionVars, recorder>>

(* Chromium exits or its connection is lost: chromedp cancels taskCtx. *)
BrowserExits ==
  /\ proxy = "open" /\ ~task
  /\ task' = TRUE
  /\ UNCHANGED <<callerDone, lifetime, backendVars, cleanupVars, watchers,
                 client, sessionVars, recorder>>
-----------------------------------------------------------------------------
(*             Startup: backend.start in its own goroutine                 *)

backendFrame == UNCHANGED <<contexts, client, sessionVars, recorder, doneWatcher,
                            recWatcher, reaper>>

Send(result) == bpc' = "sent" /\ results' = result

MakeProfile ==
  /\ bpc = "profile"
  /\ \/ /\ profile' = "present"
        /\ bpc' = "proxy"
        /\ UNCHANGED results
     \/ /\ Send("error")
        /\ UNCHANGED profile
  /\ UNCHANGED <<proxy, cleanupVars, taskWatcher>>
  /\ backendFrame

(* Without a proxy the profile is removed again, and a failure to do so    *)
(* joins the error; with one the session exists and its taskCtx watcher    *)
(* starts.                                                                 *)
MakeProxy ==
  /\ bpc = "proxy"
  /\ \/ /\ proxy' = "open"
        /\ taskWatcher' = "waiting"
        /\ bpc' = "run"
        /\ UNCHANGED <<results, profile, cleanErr>>
     \/ /\ Send("error")
        /\ \/ profile' = "removed" /\ UNCHANGED cleanErr
           \/ UNCHANGED profile /\ cleanErr' = TRUE
        /\ UNCHANGED <<proxy, taskWatcher>>
  /\ UNCHANGED clean
  /\ backendFrame

(* Browser.getVersion answers and the security command line is accepted. *)
RunSucceeds ==
  /\ bpc = "run" /\ ~TaskDone
  /\ Send("session")
  /\ UNCHANGED <<profile, proxy, cleanupVars, taskWatcher>>
  /\ backendFrame

(* chromedp.Run fails: session.Close, bounded by its own timer. *)
RunFails ==
  /\ bpc = "run"
  /\ bpc' = "closing"
  /\ startCleanup
  /\ UNCHANGED <<results, profile, proxy, cleanErr, taskWatcher>>
  /\ backendFrame

RunCanceled == TaskDone /\ RunFails

CloseFailedStart ==
  /\ bpc = "closing"
  /\ Send("error")
  /\ UNCHANGED <<profile, proxy, cleanupVars, taskWatcher>>
  /\ backendFrame

(* <-taskCtx.Done() *)
TaskWatcherWakes ==
  /\ taskWatcher = "waiting" /\ TaskDone
  /\ taskWatcher' = "exited"
  /\ startCleanup
  /\ UNCHANGED <<backendVars, cleanErr>>
  /\ backendFrame

(* The cleanup goroutine: close Chromium and cancel its contexts, close    *)
(* the proxy, remove the profile, publish the error, close done.           *)
CleanupCancels ==
  /\ clean = "running"
  /\ clean' = "canceled"
  /\ task' = TRUE
  /\ UNCHANGED <<callerDone, lifetime, backendVars, cleanErr, watchers,
                 client, sessionVars, recorder>>

CleanupClosesProxy ==
  /\ clean = "canceled"
  /\ clean' = "proxyClosed"
  /\ proxy' = "closed"
  /\ UNCHANGED <<bpc, results, profile, cleanErr, taskWatcher>>
  /\ backendFrame

(* The errors of closing Chromium through CDP and of the proxy's Close     *)
(* are joined to that of the removal.                                      *)
CleanupRemovesProfile(ok, others) ==
  /\ clean = "proxyClosed"
  /\ clean' = "done"
  /\ profile' = IF ok THEN "removed" ELSE profile
  /\ cleanErr' = (~ok \/ others)
  /\ UNCHANGED <<bpc, results, proxy, taskWatcher>>
  /\ backendFrame
-----------------------------------------------------------------------------
(*                         Client.Start                                    *)

startFrame == UNCHANGED <<callerDone, task, profile, proxy, cleanErr, usnap,
                          formVars, taskWatcher, recWatcher, sessionVars, recorder>>

Start ==
  /\ upc = "start"
  /\ \/ /\ callerDone
        /\ Returns(TRUE)
        /\ UNCHANGED bpc
     \/ /\ ~callerDone
        /\ upc' = "select"
        /\ bpc' = "profile"
        /\ UNCHANGED uerr
  /\ UNCHANGED <<lifetime, results, clean, doneWatcher, reaper>>
  /\ startFrame

(* The startup goroutine answered: an error, a session for a caller that   *)
(* is gone meanwhile, or a session.                                        *)
StartResult ==
  /\ upc = "select" /\ results # "empty"
  /\ results' = "empty"
  /\ \/ /\ results = "error"
        /\ lifetime' = TRUE
        /\ Returns(TRUE)
        /\ UNCHANGED <<clean, doneWatcher>>
     \/ /\ results = "session" /\ callerDone
        /\ lifetime' = TRUE
        /\ startCleanup
        /\ Fails("closeLate")
        /\ UNCHANGED doneWatcher
     \/ /\ results = "session" /\ ~callerDone
        /\ upc' = "begin"
        /\ doneWatcher' = "waiting"
        /\ UNCHANGED <<lifetime, uerr, clean>>
  /\ UNCHANGED <<bpc, reaper>>
  /\ startFrame

(* Mutated form: the startup timer fires and the lifetime stays alive. *)
StartGivesUpAlive ==
  /\ upc = "select"
  /\ Fails("pending")
  /\ UNCHANGED <<lifetime, bpc, results, clean, doneWatcher, reaper>>
  /\ startFrame

(* The caller's context ends or the startup timer fires. *)
StartGivesUp ==
  /\ upc = "select"
  /\ lifetime' = TRUE
  /\ Fails("pending")
  /\ UNCHANGED <<bpc, results, clean, doneWatcher, reaper>>
  /\ startFrame

(* stopPendingStart: the result still comes, or a reaper waits for it. *)
PendingResult ==
  /\ upc = "pending" /\ results # "empty"
  /\ results' = "empty"
  /\ \/ /\ results = "session"
        /\ startCleanup
        /\ Fails("closeLate")
     \/ /\ results = "error"
        /\ Returns(TRUE)
        /\ UNCHANGED clean
  /\ UNCHANGED <<lifetime, bpc, doneWatcher, reaper>>
  /\ startFrame

PendingTimesOut ==
  /\ upc = "pending"
  /\ reaper' = "waiting"
  /\ Returns(TRUE)
  /\ UNCHANGED <<lifetime, bpc, results, clean, doneWatcher>>
  /\ startFrame

(* The Close of a session nobody receives ends, by done or by its timer. *)
LateCloseReturns ==
  /\ upc = "closeLate"
  /\ Returns(TRUE)
  /\ UNCHANGED <<lifetime, bpc, results, clean, doneWatcher, reaper>>
  /\ startFrame

Reap ==
  /\ reaper = "waiting" /\ results # "empty"
  /\ results' = "empty"
  /\ IF results = "session"
     THEN reaper' = "closing" /\ startCleanup
     ELSE reaper' = "exited" /\ UNCHANGED clean
  /\ UNCHANGED <<lifetime, bpc, upc, uerr, doneWatcher>>
  /\ startFrame

ReaperCloseReturns ==
  /\ reaper = "closing"
  /\ reaper' = "exited"
  /\ UNCHANGED <<lifetime, bpc, results, clean, upc, uerr, doneWatcher>>
  /\ startFrame
-----------------------------------------------------------------------------
(*                          BeginCapture                                   *)

captureFrame == UNCHANGED <<contexts, backendVars, cleanErr, taskWatcher,
                            doneWatcher, reaper>>
sessionFrame == captureFrame /\ UNCHANGED formVars

(* BeginCapture keeps captureMu until it returns; in the mutated form the  *)
(* others do not wait for it.                                              *)
captureFreeAlways == TRUE
captureFree == captureMu = "free"

BeginCapture ==
  /\ upc = "begin"
  /\ \/ /\ callerDone
        /\ Fails("close")
        /\ UNCHANGED sessionVars
     \/ /\ ~callerDone /\ captureFree
        /\ stopped \/ clean = "done"
        /\ stopped' = TRUE
        /\ Fails("close")
        /\ UNCHANGED <<active, captureMu>>
     \/ /\ ~callerDone /\ captureFree
        /\ ~stopped /\ clean # "done"
        /\ captureMu' = "client"
        /\ upc' = "beginCall"
        /\ UNCHANGED <<uerr, stopped, active>>
  /\ UNCHANGED <<usnap, clean, recWatcher, recorder>>
  /\ sessionFrame

(* Mutated form: the error path does not unlock captureMu. *)
BeginFailsLocked ==
  /\ upc = "beginCall"
  /\ Fails("close")
  /\ UNCHANGED <<usnap, clean, sessionVars, recWatcher, recorder>>
  /\ sessionFrame

(* Network.enable and Page.enable fail. *)
BeginFails ==
  /\ upc = "beginCall"
  /\ captureMu' = "free"
  /\ Fails("close")
  /\ UNCHANGED <<usnap, clean, stopped, active, recWatcher, recorder>>
  /\ sessionFrame

BeginCanceled == TaskDone /\ BeginFails

(* They succeed ... *)
BeginSucceeds ==
  /\ upc = "beginCall" /\ ~TaskDone
  /\ upc' = "install"
  /\ UNCHANGED <<uerr, usnap, clean, sessionVars, recWatcher, recorder>>
  /\ sessionFrame

(* ... and the recorder is installed, whatever happened since; its ctx     *)
(* watcher starts.                                                         *)
InstallRecorder ==
  /\ upc = "install"
  /\ captureMu' = "free"
  /\ active' = TRUE
  /\ once' = "unused" /\ source' = "open" /\ closed' = FALSE
  /\ recWatcher' = "waiting"
  /\ upc' = "navigate"
  /\ UNCHANGED <<uerr, usnap, clean, stopped>>
  /\ sessionFrame

(* Navigate is bounded (module Navigation); on a done context or a stopped *)
(* session it fails.  Once the page is quiet, the form phase may follow.   *)
Navigate(ok, forms) ==
  /\ upc = "navigate"
  /\ ok => ~callerDone /\ ~stopped
  /\ upc' = IF ok /\ forms THEN "inspect" ELSE "finish"
  /\ uerr' = (uerr \/ ~ok)
  /\ UNCHANGED <<usnap, clean, sessionVars, recWatcher, recorder>>
  /\ sessionFrame

navigateFrame ==
  /\ UNCHANGED <<usnap, clean, sessionVars, recWatcher, recorder, snapForms>>
  /\ captureFrame

(* The page goes on: it commits another document in the main frame. *)
DocumentCommits ==
  /\ upc \in {"inspect", "submit"}
  /\ doc' \in Documents \ {doc}
  /\ UNCHANGED <<upc, uerr, picked, submitted, formLog>>
  /\ navigateFrame

InspectForms ==
  /\ upc = "inspect" /\ ~TaskDone
  /\ picked' = pick(doc)
  /\ upc' = IF picked'.index = 0 THEN "settle" ELSE "submit"
  /\ UNCHANGED <<uerr, doc, submitted, formLog>>
  /\ navigateFrame

InspectFails ==
  /\ upc = "inspect"
  /\ Fails("finish")
  /\ UNCHANGED <<doc, picked, submitted, formLog>>
  /\ navigateFrame

InspectCanceled == TaskDone /\ InspectFails

SubmitForm ==
  /\ upc = "submit" /\ ~TaskDone
  /\ SubmitAnswers \/ SubmitInterrupted
  /\ upc' = "settle"
  /\ UNCHANGED <<uerr, doc, picked>>
  /\ navigateFrame

SubmitFormFails ==
  /\ upc = "submit"
  /\ SubmitFails
  /\ Fails("finish")
  /\ UNCHANGED <<doc, picked>>
  /\ navigateFrame

SubmitCanceled == TaskDone /\ SubmitFormFails

(* The page is waited for again; a budget that stopped meanwhile or a done *)
(* context fails the navigation after all.                                 *)
Settle(ok) ==
  /\ upc = "settle"
  /\ ok => ~callerDone /\ ~stopped
  /\ upc' = "finish"
  /\ uerr' = (uerr \/ ~ok)
  /\ UNCHANGED <<doc, picked, submitted, formLog>>
  /\ navigateFrame
-----------------------------------------------------------------------------
(*                     Recorder.Finish and Close                           *)

(* once.Do: the first actor enters, the others wait for r.done. *)
EnterOnce(who) ==
  /\ once' = IF once = "unused" THEN who ELSE once
  /\ closed' = (closed \/ (once = "unused" /\ who \in Closers))
  /\ UNCHANGED source

(* The source is ended, the session releases the recorder under captureMu  *)
(* and r.done is closed.                                                   *)
LeaveOnce(who) ==
  /\ once = who /\ captureFree
  /\ once' = "done"
  /\ source' = IF who = "client" THEN "finished" ELSE "closed"
  /\ active' = FALSE
  /\ UNCHANGED <<closed, stopped, captureMu>>

CloserLeaves(who) ==
  /\ LeaveOnce(who)
  /\ UNCHANGED <<client, clean, recWatcher>>
  /\ sessionFrame

Finish ==
  /\ upc = "finish"
  /\ EnterOnce("client")
  /\ upc' = IF once = "unused" THEN "finishing" ELSE "finishWait"
  /\ UNCHANGED <<uerr, usnap, clean, sessionVars, recWatcher>>
  /\ sessionFrame

(* The DevTools queries of the snapshot end; a partial snapshot comes with *)
(* the error.                                                              *)
FinishReturns(ok) ==
  /\ upc = "finishing"
  /\ ok => ~TaskDone
  /\ LeaveOnce("client")
  /\ upc' = "close"
  /\ usnap' = "snapshot"
  /\ snapForms' = formLog
  /\ uerr' = (uerr \/ ~ok)
  /\ UNCHANGED <<clean, recWatcher, doc, picked, submitted, formLog>>
  /\ captureFrame

FinishCanceled == TaskDone /\ FinishReturns(FALSE)

(* Mutated form: Finish does not look at r.closed. *)
FinishClosedAsResult ==
  /\ upc = "finishWait" /\ once = "done"
  /\ upc' = "close"
  /\ usnap' = "snapshot"
  /\ UNCHANGED <<uerr, clean, sessionVars, recWatcher, recorder>>
  /\ sessionFrame

(* The recorder was closed first. *)
FinishClosed ==
  /\ upc = "finishWait" /\ once = "done"
  /\ Fails("close")
  /\ usnap' = "ErrRecorderClosed"
  /\ UNCHANGED <<clean, sessionVars, recWatcher, recorder>>
  /\ sessionFrame

(* A client may close the session without finishing its recorder. *)
CloseUnfinished ==
  /\ upc = "finish"
  /\ upc' = "close"
  /\ UNCHANGED <<uerr, usnap, clean, sessionVars, recWatcher, recorder>>
  /\ sessionFrame

(* BeginCapture's goroutine: the context ends or the recorder is done. *)
RecWatcherWakes ==
  /\ recWatcher = "waiting"
  /\ \/ /\ callerDone
        /\ recWatcher' = "closing"
        /\ EnterOnce("ctx")
     \/ /\ once = "done"
        /\ recWatcher' = "exited"
        /\ UNCHANGED recorder
  /\ UNCHANGED <<client, clean, sessionVars>>
  /\ sessionFrame

RecWatcherExits ==
  /\ recWatcher = "closing" /\ once = "done"
  /\ recWatcher' = "exited"
  /\ UNCHANGED <<client, clean, sessionVars, recorder>>
  /\ sessionFrame
-----------------------------------------------------------------------------
(*              Session.Close and the backend.Done watcher                 *)

(* <-backend.Done(), then stopActiveRecorder. *)
DoneWatcherWakes ==
  /\ doneWatcher = "waiting" /\ clean = "done" /\ captureFree
  /\ stopped' = TRUE
  /\ \/ /\ active
        /\ doneWatcher' = "closing"
        /\ EnterOnce("exit")
        /\ UNCHANGED lifetime
     \/ /\ ~active
        /\ doneWatcher' = "exited"
        /\ lifetime' = TRUE
        /\ UNCHANGED recorder
  /\ UNCHANGED <<callerDone, task, backendVars, cleanupVars, taskWatcher,
                 recWatcher, reaper, client, active, captureMu>>

DoneWatcherExits ==
  /\ doneWatcher = "closing" /\ once = "done"
  /\ doneWatcher' = "exited"
  /\ lifetime' = TRUE
  /\ UNCHANGED <<callerDone, task, backendVars, cleanupVars, taskWatcher,
                 recWatcher, reaper, client, sessionVars, recorder>>

Close ==
  /\ upc = "close" /\ captureFree
  /\ stopped' = TRUE
  /\ \/ /\ active
        /\ upc' = "closeRecorder"
        /\ EnterOnce("session")
     \/ /\ ~active
        /\ upc' = "closeBackend"
        /\ UNCHANGED recorder
  /\ UNCHANGED <<uerr, usnap, clean, active, captureMu, recWatcher>>
  /\ sessionFrame

CloseRecorderDone ==
  /\ upc = "closeRecorder" /\ once = "done"
  /\ upc' = "closeBackend"
  /\ UNCHANGED <<uerr, usnap, clean, sessionVars, recWatcher, recorder>>
  /\ sessionFrame

CloseBackend ==
  /\ upc = "closeBackend"
  /\ startCleanup
  /\ upc' = "closing"
  /\ UNCHANGED <<uerr, usnap, sessionVars, recWatcher, recorder>>
  /\ sessionFrame

(* Mutated form: Close does not report that its timer fired. *)
CloseReturnsSilently ==
  /\ upc = "closing"
  /\ Returns(clean = "done" /\ cleanErr)
  /\ lifetime' = TRUE
  /\ UNCHANGED <<callerDone, task, backendVars, cleanupVars, watchers, usnap,
                 formVars, sessionVars, recorder>>

(* The cleanup is done and its error is returned, or the timer fires. *)
CloseReturns ==
  /\ upc = "closing"
  /\ \/ clean = "done" /\ Returns(cleanErr)
     \/ Returns(TRUE)
  /\ lifetime' = TRUE
  /\ UNCHANGED <<callerDone, task, backendVars, cleanupVars, watchers, usnap,
                 formVars, sessionVars, recorder>>
-----------------------------------------------------------------------------
Startup ==
  \/ MakeProfile \/ MakeProxy \/ RunCanceled \/ CloseFailedStart

Cleanup ==
  \/ CleanupCancels \/ CleanupClosesProxy
  \/ \E ok, others \in BOOLEAN : CleanupRemovesProfile(ok, others)

Watchers ==
  \/ TaskWatcherWakes \/ RecWatcherWakes \/ RecWatcherExits
  \/ DoneWatcherWakes \/ DoneWatcherExits \/ Reap \/ ReaperCloseReturns
  \/ \E who \in Closers : CloserLeaves(who)

(* Steps of the client that some timer, context or other actor ends. *)
Client ==
  \/ Start \/ StartResult \/ StartGivesUp \/ PendingResult \/ PendingTimesOut
  \/ LateCloseReturns \/ BeginCapture \/ BeginCanceled
  \/ InstallRecorder
  \/ \E ok, forms \in BOOLEAN : Navigate(ok, forms)
  \/ InspectCanceled \/ SubmitCanceled
  \/ \E ok \in BOOLEAN : Settle(ok)
  \/ Finish \/ FinishCanceled \/ FinishClosed
  \/ Close \/ CloseRecorderDone \/ CloseBackend \/ CloseReturns

(* Answers of Chromium, and the client's own choice to skip Finish. *)
Browser ==
  \/ BrowserExits \/ RunSucceeds \/ RunFails \/ BeginSucceeds \/ BeginFails
  \/ DocumentCommits \/ InspectForms \/ InspectFails
  \/ SubmitForm \/ SubmitFormFails
  \/ \E ok \in BOOLEAN : FinishReturns(ok)
  \/ CloseUnfinished

Next == CallerEnds \/ Startup \/ Cleanup \/ Watchers \/ Client \/ Browser

Spec == Init /\ [][Next]_vars

(* Goroutines run, timers fire, the cleanup ends and a DevTools call       *)
(* returns once its context is done; Chromium never has to answer and the  *)
(* caller never has to cancel.                                             *)
Fairness ==
  /\ WF_vars(Startup) /\ WF_vars(Cleanup) /\ WF_vars(Client)
  /\ WF_vars(TaskWatcherWakes)
  /\ WF_vars(RecWatcherWakes) /\ WF_vars(RecWatcherExits)
  /\ WF_vars(DoneWatcherWakes) /\ WF_vars(DoneWatcherExits)
  /\ WF_vars(Reap) /\ WF_vars(ReaperCloseReturns)
  /\ \A who \in Closers : WF_vars(CloserLeaves(who))

FairSpec == Spec /\ Fairness
-----------------------------------------------------------------------------
(*                            Properties                                   *)

(* A client that met no error has left nothing behind: the profile is      *)
(* removed and the proxy closed when Close returns nil.                    *)
CleanReturnMeansReclaimed ==
  upc = "returned" /\ ~uerr => profile = "removed" /\ proxy = "closed"

(* When the watcher of a dead browser has ended, no recorder is open: one  *)
(* whose BeginCapture raced with the browser's death was found and closed. *)
NoRecorderOutlivesBrowser ==
  doneWatcher = "exited" => once \in {"none", "done"} /\ ~active

(* A capture that a watcher abandoned is never returned as a result, in    *)
(* whatever order Finish, the context and the browser's death come.        *)
ResultIsFinished == usnap = "snapshot" => ~closed /\ source = "finished"

(* A form is submitted at most once, whatever the page and the browser do  *)
(* around the click, and a client that met no error finds a submission     *)
(* that did happen in its snapshot.                                        *)
SubmissionsAccounted ==
  /\ Len(submitted) <= MaxSubmissions
  /\ upc = "returned" /\ ~uerr /\ usnap = "snapshot" /\ submitted # <<>> =>
       snapForms # <<>>

(* Once the caller's context ends the client gets its answer, although     *)
(* Chromium answers nothing any more.                                      *)
CancelReturns == callerDone ~> upc = "returned"

(* The end of the client ends everything: profile and proxy are reclaimed  *)
(* (or the removal failed), and no goroutine stays behind, a startup that  *)
(* was abandoned by its timer included.                                    *)
NothingLeftBehind ==
  upc = "returned" ~>
    /\ profile # "present" \/ cleanErr
    /\ proxy # "open"
    /\ bpc \in {"idle", "sent"}
    /\ {taskWatcher, doneWatcher, recWatcher, reaper} \subseteq {"none", "exited"}
=============================================================================
