------------------------ MODULE BrowserSessionProofs ------------------------
(***************************************************************************)
(* Proofs about BrowserSession for any documents and any ceiling of form   *)
(* submissions.  Each part of the invariant is about one of the parties    *)
(* that share a session: the startup, the cleanup, the recorder and the    *)
(* form phase.                                                             *)
(***************************************************************************)
EXTENDS BrowserSession, WellFoundedInduction, TLAPS

(* Where the client has a session, before and after it navigated. *)
InSession == {"begin", "beginCall", "install", "navigate", "inspect", "submit", "settle",
              "finish", "finishing", "finishWait", "close", "closeRecorder", "closeBackend",
              "closing"}
Unanswered == {"start", "select", "pending", "closeLate"}
Capturing == {"begin", "beginCall", "install", "navigate", "inspect", "submit", "settle",
              "finish", "finishing", "finishWait"}

(* Nothing is cleaned up, watched or answered before profile and proxy are *)
(* made, so nothing is made again behind the cleanup's back.               *)
StartupSound ==
  /\ upc = "start" => bpc = "idle"
  /\ bpc \in {"idle", "profile", "proxy"} =>
       clean = "idle" /\ taskWatcher = "none"
  /\ results # "empty" \/ upc \in InSession => bpc = "sent"

(* How far the cleanup is, and what a clean return has seen of it. *)
CleanupSound ==
  /\ clean \in {"proxyClosed", "done"} => proxy = "closed"
  /\ clean = "done" /\ ~cleanErr => profile = "removed"
  /\ upc = "returned" /\ ~uerr => clean = "done" /\ ~cleanErr

(* captureMu guards the installation of the recorder; once it is free the  *)
(* watcher of a dead browser finds what there is to close.                 *)
RecorderSound ==
  /\ captureMu = "free" => upc \notin {"beginCall", "install"}
  /\ active <=> once \notin {"none", "done"}
  /\ once \in {"unused", "client"} => ~closed
  /\ usnap = "snapshot" => once = "done" /\ ~closed /\ source = "finished"
  /\ usnap # "none" => upc \notin Unanswered \cup Capturing
  /\ doneWatcher # "none" => upc \notin Unanswered
  /\ doneWatcher \in {"closing", "exited"} => stopped /\ upc \notin {"beginCall", "install"}
  /\ doneWatcher = "exited" => once \in {"none", "done"}

(* The click comes once; what it submitted is logged, or the client knows. *)
FormsSound ==
  /\ upc \in Unanswered \cup {"begin", "beginCall", "install", "navigate", "inspect", "submit"}
       => submitted = <<>> /\ formLog = <<>>
  /\ Len(submitted) <= 1
  /\ submitted # <<>> => uerr \/ formLog # <<>>
  /\ usnap = "snapshot" => snapForms = formLog

IInv == StartupSound /\ CleanupSound /\ RecorderSound /\ FormsSound
-----------------------------------------------------------------------------
LEMMA InitIInv == Init => IInv
<1> SUFFICES ASSUME Init PROVE IInv
  OBVIOUS
<1>1. Len(submitted) <= 1
  BY DEF Init, FormInit
<1> QED
  BY <1>1 DEF Init, FormInit, IInv, StartupSound, CleanupSound, RecorderSound, FormsSound,
              InSession, Unanswered, Capturing

(* The steps, by party. *)
StartupSteps ==
  MakeProfile \/ MakeProxy \/ RunSucceeds \/ RunFails \/ CloseFailedStart \/ TaskWatcherWakes
CleanupSteps ==
  \/ CleanupCancels \/ CleanupClosesProxy
  \/ \E ok, others \in BOOLEAN : CleanupRemovesProfile(ok, others)
StartSteps ==
  \/ Start \/ StartResult \/ StartGivesUp \/ PendingResult \/ PendingTimesOut
  \/ LateCloseReturns \/ Reap \/ ReaperCloseReturns
CaptureSteps ==
  \/ BeginCapture \/ BeginFails \/ BeginSucceeds \/ InstallRecorder
  \/ (\E ok, forms \in BOOLEAN : Navigate(ok, forms))
PageSteps ==
  \/ DocumentCommits \/ InspectForms \/ InspectFails \/ SubmitForm \/ SubmitFormFails
  \/ (\E ok \in BOOLEAN : Settle(ok))
RecorderSteps ==
  \/ Finish \/ (\E ok \in BOOLEAN : FinishReturns(ok)) \/ FinishClosed \/ CloseUnfinished
  \/ RecWatcherWakes \/ RecWatcherExits \/ (\E who \in Closers : CloserLeaves(who))
CloseSteps ==
  \/ DoneWatcherWakes \/ DoneWatcherExits \/ Close \/ CloseRecorderDone \/ CloseBackend
  \/ CloseReturns
OtherSteps == CallerEnds \/ BrowserExits \/ UNCHANGED vars

AnyStep ==
  \/ StartupSteps \/ CleanupSteps \/ StartSteps \/ CaptureSteps \/ PageSteps \/ RecorderSteps
  \/ CloseSteps \/ OtherSteps

LEMMA StepsByParty == [Next]_vars => AnyStep
BY DEF Next, Startup, Cleanup, Watchers, Client, Browser, RunCanceled, BeginCanceled,
       InspectCanceled, SubmitCanceled, FinishCanceled, AnyStep, StartupSteps, CleanupSteps,
       StartSteps, CaptureSteps, PageSteps, RecorderSteps, CloseSteps, OtherSteps

LEMMA StartupStep ==
  ASSUME StartupSound, AnyStep
  PROVE  StartupSound'
<1> USE DEF StartupSound, InSession, Returns, Fails, startCleanup
<1>1. CASE OtherSteps
  BY <1>1 DEF OtherSteps, CallerEnds, BrowserExits, vars, backendVars, cleanupVars,
     watchers, client, contexts, sessionVars, recorder
<1>2. CASE StartupSteps
  <2>1. CASE MakeProfile
    BY <2>1 DEF MakeProfile, Send, backendFrame, backendVars, cleanupVars, watchers, client
  <2>2. CASE MakeProxy
    BY <2>2 DEF MakeProxy, Send, backendFrame, backendVars, cleanupVars, watchers, client
  <2>3. CASE RunSucceeds
    BY <2>3 DEF RunSucceeds, Send, backendFrame, backendVars, cleanupVars, watchers, client
  <2>4. CASE RunFails
    BY <2>4 DEF RunFails, Send, backendFrame, backendVars, cleanupVars, watchers, client
  <2>5. CASE CloseFailedStart
    BY <2>5 DEF CloseFailedStart, Send, backendFrame, backendVars, cleanupVars, watchers,
       client
  <2>6. CASE TaskWatcherWakes
    BY <2>6 DEF TaskWatcherWakes, Send, backendFrame, backendVars, cleanupVars, watchers,
       client
  <2> QED
    BY <1>2, <2>1, <2>2, <2>3, <2>4, <2>5, <2>6 DEF StartupSteps
<1>3. CASE CleanupSteps
  <2>1. CASE CleanupCancels
    BY <2>1 DEF CleanupCancels, backendFrame, backendVars, cleanupVars, watchers, client
  <2>2. CASE CleanupClosesProxy
    BY <2>2 DEF CleanupClosesProxy, backendFrame, backendVars, cleanupVars, watchers, client
  <2>3. ASSUME NEW ok \in BOOLEAN, NEW others \in BOOLEAN,
               CleanupRemovesProfile(ok, others)
        PROVE  StartupSound'
    BY <2>3 DEF CleanupRemovesProfile, backendFrame, backendVars, cleanupVars, watchers,
       client
  <2> QED
    BY <1>3, <2>1, <2>2, <2>3 DEF CleanupSteps
<1>4. CASE StartSteps
  <2>1. CASE Start
    BY <2>1 DEF Start, startFrame, backendVars, cleanupVars, watchers, client
  <2>2. CASE StartResult
    BY <2>2 DEF StartResult, startFrame, backendVars, cleanupVars, watchers, client
  <2>3. CASE StartGivesUp
    BY <2>3 DEF StartGivesUp, startFrame, backendVars, cleanupVars, watchers, client
  <2>4. CASE PendingResult
    BY <2>4 DEF PendingResult, startFrame, backendVars, cleanupVars, watchers, client
  <2>5. CASE PendingTimesOut
    BY <2>5 DEF PendingTimesOut, startFrame, backendVars, cleanupVars, watchers, client
  <2>6. CASE LateCloseReturns
    BY <2>6 DEF LateCloseReturns, startFrame, backendVars, cleanupVars, watchers, client
  <2>7. CASE Reap
    BY <2>7 DEF Reap, startFrame, backendVars, cleanupVars, watchers, client
  <2>8. CASE ReaperCloseReturns
    BY <2>8 DEF ReaperCloseReturns, startFrame, backendVars, cleanupVars, watchers, client
  <2> QED
    BY <1>4, <2>1, <2>2, <2>3, <2>4, <2>5, <2>6, <2>7, <2>8 DEF StartSteps
<1>5. CASE CaptureSteps
  <2>1. CASE BeginCapture
    BY <2>1 DEF BeginCapture, sessionFrame, captureFrame, backendVars, cleanupVars,
       watchers, client
  <2>2. CASE BeginFails
    BY <2>2 DEF BeginFails, sessionFrame, captureFrame, backendVars, cleanupVars, watchers,
       client
  <2>3. CASE BeginSucceeds
    BY <2>3 DEF BeginSucceeds, sessionFrame, captureFrame, backendVars, cleanupVars,
       watchers, client
  <2>4. CASE InstallRecorder
    BY <2>4 DEF InstallRecorder, sessionFrame, captureFrame, backendVars, cleanupVars,
       watchers, client
  <2>5. ASSUME NEW ok \in BOOLEAN, NEW forms \in BOOLEAN, Navigate(ok, forms) PROVE StartupSound'
    BY <2>5 DEF Navigate, sessionFrame, captureFrame, backendVars, cleanupVars, watchers,
       client
  <2> QED
    BY <1>5, <2>1, <2>2, <2>3, <2>4, <2>5 DEF CaptureSteps
<1>6. CASE PageSteps
  <2>1. CASE DocumentCommits
    BY <2>1 DEF DocumentCommits, navigateFrame, captureFrame, backendVars, cleanupVars,
       watchers, client
  <2>2. CASE InspectForms
    BY <2>2 DEF InspectForms, navigateFrame, captureFrame, backendVars, cleanupVars,
       watchers, client
  <2>3. CASE InspectFails
    BY <2>3 DEF InspectFails, navigateFrame, captureFrame, backendVars, cleanupVars,
       watchers, client
  <2>4. CASE SubmitForm
    BY <2>4 DEF SubmitForm, navigateFrame, captureFrame, backendVars, cleanupVars, watchers,
       client
  <2>5. CASE SubmitFormFails
    BY <2>5 DEF SubmitFormFails, navigateFrame, captureFrame, backendVars, cleanupVars,
       watchers, client
  <2>6. ASSUME NEW ok \in BOOLEAN, Settle(ok) PROVE StartupSound'
    BY <2>6 DEF Settle, navigateFrame, captureFrame, backendVars, cleanupVars, watchers,
       client
  <2> QED
    BY <1>6, <2>1, <2>2, <2>3, <2>4, <2>5, <2>6 DEF PageSteps
<1>7. CASE RecorderSteps
  <2>1. CASE Finish
    BY <2>1 DEF Finish, sessionFrame, captureFrame, backendVars, cleanupVars, watchers,
       client
  <2>2. ASSUME NEW ok \in BOOLEAN, FinishReturns(ok) PROVE StartupSound'
    BY <2>2 DEF FinishReturns, sessionFrame, captureFrame, backendVars, cleanupVars,
       watchers, client
  <2>3. CASE FinishClosed
    BY <2>3 DEF FinishClosed, sessionFrame, captureFrame, backendVars, cleanupVars,
       watchers, client
  <2>4. CASE CloseUnfinished
    BY <2>4 DEF CloseUnfinished, sessionFrame, captureFrame, backendVars, cleanupVars,
       watchers, client
  <2>5. CASE RecWatcherWakes
    BY <2>5 DEF RecWatcherWakes, sessionFrame, captureFrame, backendVars, cleanupVars,
       watchers, client
  <2>6. CASE RecWatcherExits
    BY <2>6 DEF RecWatcherExits, sessionFrame, captureFrame, backendVars, cleanupVars,
       watchers, client
  <2>7. ASSUME NEW who \in Closers, CloserLeaves(who) PROVE StartupSound'
    BY <2>7 DEF CloserLeaves, sessionFrame, captureFrame, backendVars, cleanupVars,
       watchers, client
  <2> QED
    BY <1>7, <2>1, <2>2, <2>3, <2>4, <2>5, <2>6, <2>7 DEF RecorderSteps
<1>8. CASE CloseSteps
  <2>1. CASE DoneWatcherWakes
    BY <2>1 DEF DoneWatcherWakes, sessionFrame, captureFrame, backendVars, cleanupVars,
       watchers, client
  <2>2. CASE DoneWatcherExits
    BY <2>2 DEF DoneWatcherExits, sessionFrame, captureFrame, backendVars, cleanupVars,
       watchers, client
  <2>3. CASE Close
    BY <2>3 DEF Close, sessionFrame, captureFrame, backendVars, cleanupVars, watchers,
       client
  <2>4. CASE CloseRecorderDone
    BY <2>4 DEF CloseRecorderDone, sessionFrame, captureFrame, backendVars, cleanupVars,
       watchers, client
  <2>5. CASE CloseBackend
    BY <2>5 DEF CloseBackend, sessionFrame, captureFrame, backendVars, cleanupVars,
       watchers, client
  <2>6. CASE CloseReturns
    BY <2>6 DEF CloseReturns, sessionFrame, captureFrame, backendVars, cleanupVars,
       watchers, client
  <2> QED
    BY <1>8, <2>1, <2>2, <2>3, <2>4, <2>5, <2>6 DEF CloseSteps
<1> QED
  BY <1>1, <1>2, <1>3, <1>4, <1>5, <1>6, <1>7, <1>8 DEF AnyStep

LEMMA CleanupStep ==
  ASSUME StartupSound, CleanupSound, AnyStep
  PROVE  CleanupSound'
<1> USE DEF StartupSound, CleanupSound, Returns, Fails, startCleanup
<1>1. CASE OtherSteps
  BY <1>1 DEF OtherSteps, CallerEnds, BrowserExits, vars, backendVars, cleanupVars,
     watchers, client, contexts, sessionVars, recorder
<1>2. CASE StartupSteps
  <2>1. CASE MakeProfile
    BY <2>1 DEF MakeProfile, Send, backendFrame, backendVars, cleanupVars, watchers, client
  <2>2. CASE MakeProxy
    BY <2>2 DEF MakeProxy, Send, backendFrame, backendVars, cleanupVars, watchers, client
  <2>3. CASE RunSucceeds
    BY <2>3 DEF RunSucceeds, Send, backendFrame, backendVars, cleanupVars, watchers, client
  <2>4. CASE RunFails
    BY <2>4 DEF RunFails, Send, backendFrame, backendVars, cleanupVars, watchers, client
  <2>5. CASE CloseFailedStart
    BY <2>5 DEF CloseFailedStart, Send, backendFrame, backendVars, cleanupVars, watchers,
       client
  <2>6. CASE TaskWatcherWakes
    BY <2>6 DEF TaskWatcherWakes, Send, backendFrame, backendVars, cleanupVars, watchers,
       client
  <2> QED
    BY <1>2, <2>1, <2>2, <2>3, <2>4, <2>5, <2>6 DEF StartupSteps
<1>3. CASE CleanupSteps
  <2>1. CASE CleanupCancels
    BY <2>1 DEF CleanupCancels, backendFrame, backendVars, cleanupVars, watchers, client
  <2>2. CASE CleanupClosesProxy
    BY <2>2 DEF CleanupClosesProxy, backendFrame, backendVars, cleanupVars, watchers, client
  <2>3. ASSUME NEW ok \in BOOLEAN, NEW others \in BOOLEAN,
               CleanupRemovesProfile(ok, others)
        PROVE  CleanupSound'
    BY <2>3 DEF CleanupRemovesProfile, backendFrame, backendVars, cleanupVars, watchers,
       client
  <2> QED
    BY <1>3, <2>1, <2>2, <2>3 DEF CleanupSteps
<1>4. CASE StartSteps
  <2>1. CASE Start
    BY <2>1 DEF Start, startFrame, backendVars, cleanupVars, watchers, client
  <2>2. CASE StartResult
    BY <2>2 DEF StartResult, startFrame, backendVars, cleanupVars, watchers, client
  <2>3. CASE StartGivesUp
    BY <2>3 DEF StartGivesUp, startFrame, backendVars, cleanupVars, watchers, client
  <2>4. CASE PendingResult
    BY <2>4 DEF PendingResult, startFrame, backendVars, cleanupVars, watchers, client
  <2>5. CASE PendingTimesOut
    BY <2>5 DEF PendingTimesOut, startFrame, backendVars, cleanupVars, watchers, client
  <2>6. CASE LateCloseReturns
    BY <2>6 DEF LateCloseReturns, startFrame, backendVars, cleanupVars, watchers, client
  <2>7. CASE Reap
    BY <2>7 DEF Reap, startFrame, backendVars, cleanupVars, watchers, client
  <2>8. CASE ReaperCloseReturns
    BY <2>8 DEF ReaperCloseReturns, startFrame, backendVars, cleanupVars, watchers, client
  <2> QED
    BY <1>4, <2>1, <2>2, <2>3, <2>4, <2>5, <2>6, <2>7, <2>8 DEF StartSteps
<1>5. CASE CaptureSteps
  <2>1. CASE BeginCapture
    BY <2>1 DEF BeginCapture, sessionFrame, captureFrame, backendVars, cleanupVars,
       watchers, client
  <2>2. CASE BeginFails
    BY <2>2 DEF BeginFails, sessionFrame, captureFrame, backendVars, cleanupVars, watchers,
       client
  <2>3. CASE BeginSucceeds
    BY <2>3 DEF BeginSucceeds, sessionFrame, captureFrame, backendVars, cleanupVars,
       watchers, client
  <2>4. CASE InstallRecorder
    BY <2>4 DEF InstallRecorder, sessionFrame, captureFrame, backendVars, cleanupVars,
       watchers, client
  <2>5. ASSUME NEW ok \in BOOLEAN, NEW forms \in BOOLEAN, Navigate(ok, forms) PROVE CleanupSound'
    BY <2>5 DEF Navigate, sessionFrame, captureFrame, backendVars, cleanupVars, watchers,
       client
  <2> QED
    BY <1>5, <2>1, <2>2, <2>3, <2>4, <2>5 DEF CaptureSteps
<1>6. CASE PageSteps
  <2>1. CASE DocumentCommits
    BY <2>1 DEF DocumentCommits, navigateFrame, captureFrame, backendVars, cleanupVars,
       watchers, client
  <2>2. CASE InspectForms
    BY <2>2 DEF InspectForms, navigateFrame, captureFrame, backendVars, cleanupVars,
       watchers, client
  <2>3. CASE InspectFails
    BY <2>3 DEF InspectFails, navigateFrame, captureFrame, backendVars, cleanupVars,
       watchers, client
  <2>4. CASE SubmitForm
    BY <2>4 DEF SubmitForm, navigateFrame, captureFrame, backendVars, cleanupVars, watchers,
       client
  <2>5. CASE SubmitFormFails
    BY <2>5 DEF SubmitFormFails, navigateFrame, captureFrame, backendVars, cleanupVars,
       watchers, client
  <2>6. ASSUME NEW ok \in BOOLEAN, Settle(ok) PROVE CleanupSound'
    BY <2>6 DEF Settle, navigateFrame, captureFrame, backendVars, cleanupVars, watchers,
       client
  <2> QED
    BY <1>6, <2>1, <2>2, <2>3, <2>4, <2>5, <2>6 DEF PageSteps
<1>7. CASE RecorderSteps
  <2>1. CASE Finish
    BY <2>1 DEF Finish, sessionFrame, captureFrame, backendVars, cleanupVars, watchers,
       client
  <2>2. ASSUME NEW ok \in BOOLEAN, FinishReturns(ok) PROVE CleanupSound'
    BY <2>2 DEF FinishReturns, sessionFrame, captureFrame, backendVars, cleanupVars,
       watchers, client
  <2>3. CASE FinishClosed
    BY <2>3 DEF FinishClosed, sessionFrame, captureFrame, backendVars, cleanupVars,
       watchers, client
  <2>4. CASE CloseUnfinished
    BY <2>4 DEF CloseUnfinished, sessionFrame, captureFrame, backendVars, cleanupVars,
       watchers, client
  <2>5. CASE RecWatcherWakes
    BY <2>5 DEF RecWatcherWakes, sessionFrame, captureFrame, backendVars, cleanupVars,
       watchers, client
  <2>6. CASE RecWatcherExits
    BY <2>6 DEF RecWatcherExits, sessionFrame, captureFrame, backendVars, cleanupVars,
       watchers, client
  <2>7. ASSUME NEW who \in Closers, CloserLeaves(who) PROVE CleanupSound'
    BY <2>7 DEF CloserLeaves, sessionFrame, captureFrame, backendVars, cleanupVars,
       watchers, client
  <2> QED
    BY <1>7, <2>1, <2>2, <2>3, <2>4, <2>5, <2>6, <2>7 DEF RecorderSteps
<1>8. CASE CloseSteps
  <2>1. CASE DoneWatcherWakes
    BY <2>1 DEF DoneWatcherWakes, sessionFrame, captureFrame, backendVars, cleanupVars,
       watchers, client
  <2>2. CASE DoneWatcherExits
    BY <2>2 DEF DoneWatcherExits, sessionFrame, captureFrame, backendVars, cleanupVars,
       watchers, client
  <2>3. CASE Close
    BY <2>3 DEF Close, sessionFrame, captureFrame, backendVars, cleanupVars, watchers,
       client
  <2>4. CASE CloseRecorderDone
    BY <2>4 DEF CloseRecorderDone, sessionFrame, captureFrame, backendVars, cleanupVars,
       watchers, client
  <2>5. CASE CloseBackend
    BY <2>5 DEF CloseBackend, sessionFrame, captureFrame, backendVars, cleanupVars,
       watchers, client
  <2>6. CASE CloseReturns
    BY <2>6 DEF CloseReturns, sessionFrame, captureFrame, backendVars, cleanupVars,
       watchers, client
  <2> QED
    BY <1>8, <2>1, <2>2, <2>3, <2>4, <2>5, <2>6 DEF CloseSteps
<1> QED
  BY <1>1, <1>2, <1>3, <1>4, <1>5, <1>6, <1>7, <1>8 DEF AnyStep

(* Whoever enters late leaves the recorder to the one that entered first. *)
LEMMA EnterOnceFirst ==
  ASSUME NEW who \in Closers, EnterOnce(who)
  PROVE  /\ source' = source
         /\ once = "unused" => once' = who
         /\ once # "unused" => once' = once /\ (closed' <=> closed)
<1>1. source' = source /\ (once = "unused" => once' = who) /\ (once # "unused" => once' = once)
  BY DEF EnterOnce
<1>2. once # "unused" => (closed' <=> closed)
  BY Zenon DEF EnterOnce
<1> QED
  BY <1>1, <1>2

LEMMA RecorderStep ==
  ASSUME StartupSound, RecorderSound, AnyStep
  PROVE  RecorderSound'
<1> USE DEF StartupSound, RecorderSound, InSession, Unanswered, Capturing, Returns, Fails, startCleanup, captureFree, LeaveOnce, Closers
<1>1. CASE OtherSteps
  BY <1>1 DEF OtherSteps, CallerEnds, BrowserExits, vars, backendVars, cleanupVars,
     watchers, client, sessionVars, recorder, contexts, sessionVars, recorder
<1>2. CASE StartupSteps
  <2>1. CASE MakeProfile
    BY <2>1 DEF MakeProfile, Send, backendFrame, backendVars, cleanupVars, watchers, client,
       sessionVars, recorder
  <2>2. CASE MakeProxy
    BY <2>2 DEF MakeProxy, Send, backendFrame, backendVars, cleanupVars, watchers, client,
       sessionVars, recorder
  <2>3. CASE RunSucceeds
    BY <2>3 DEF RunSucceeds, Send, backendFrame, backendVars, cleanupVars, watchers, client,
       sessionVars, recorder
  <2>4. CASE RunFails
    BY <2>4 DEF RunFails, Send, backendFrame, backendVars, cleanupVars, watchers, client,
       sessionVars, recorder
  <2>5. CASE CloseFailedStart
    BY <2>5 DEF CloseFailedStart, Send, backendFrame, backendVars, cleanupVars, watchers,
       client, sessionVars, recorder
  <2>6. CASE TaskWatcherWakes
    BY <2>6 DEF TaskWatcherWakes, Send, backendFrame, backendVars, cleanupVars, watchers,
       client, sessionVars, recorder
  <2> QED
    BY <1>2, <2>1, <2>2, <2>3, <2>4, <2>5, <2>6 DEF StartupSteps
<1>3. CASE CleanupSteps
  <2>1. CASE CleanupCancels
    BY <2>1 DEF CleanupCancels, backendFrame, backendVars, cleanupVars, watchers, client,
       sessionVars, recorder
  <2>2. CASE CleanupClosesProxy
    BY <2>2 DEF CleanupClosesProxy, backendFrame, backendVars, cleanupVars, watchers,
       client, sessionVars, recorder
  <2>3. ASSUME NEW ok \in BOOLEAN, NEW others \in BOOLEAN,
               CleanupRemovesProfile(ok, others)
        PROVE  RecorderSound'
    BY <2>3 DEF CleanupRemovesProfile, backendFrame, backendVars, cleanupVars, watchers,
       client, sessionVars, recorder
  <2> QED
    BY <1>3, <2>1, <2>2, <2>3 DEF CleanupSteps
<1>4. CASE StartSteps
  <2>1. CASE Start
    BY <2>1 DEF Start, startFrame, backendVars, cleanupVars, watchers, client, sessionVars,
       recorder
  <2>2. CASE StartResult
    BY <2>2 DEF StartResult, startFrame, backendVars, cleanupVars, watchers, client,
       sessionVars, recorder
  <2>3. CASE StartGivesUp
    BY <2>3 DEF StartGivesUp, startFrame, backendVars, cleanupVars, watchers, client,
       sessionVars, recorder
  <2>4. CASE PendingResult
    BY <2>4 DEF PendingResult, startFrame, backendVars, cleanupVars, watchers, client,
       sessionVars, recorder
  <2>5. CASE PendingTimesOut
    BY <2>5 DEF PendingTimesOut, startFrame, backendVars, cleanupVars, watchers, client,
       sessionVars, recorder
  <2>6. CASE LateCloseReturns
    BY <2>6 DEF LateCloseReturns, startFrame, backendVars, cleanupVars, watchers, client,
       sessionVars, recorder
  <2>7. CASE Reap
    BY <2>7 DEF Reap, startFrame, backendVars, cleanupVars, watchers, client, sessionVars,
       recorder
  <2>8. CASE ReaperCloseReturns
    BY <2>8 DEF ReaperCloseReturns, startFrame, backendVars, cleanupVars, watchers, client,
       sessionVars, recorder
  <2> QED
    BY <1>4, <2>1, <2>2, <2>3, <2>4, <2>5, <2>6, <2>7, <2>8 DEF StartSteps
<1>5. CASE CaptureSteps
  <2>1. CASE BeginCapture
    BY <2>1 DEF BeginCapture, sessionFrame, captureFrame, backendVars, cleanupVars,
       watchers, client, sessionVars, recorder
  <2>2. CASE BeginFails
    BY <2>2 DEF BeginFails, sessionFrame, captureFrame, backendVars, cleanupVars, watchers,
       client, sessionVars, recorder
  <2>3. CASE BeginSucceeds
    BY <2>3 DEF BeginSucceeds, sessionFrame, captureFrame, backendVars, cleanupVars,
       watchers, client, sessionVars, recorder
  <2>4. CASE InstallRecorder
    BY <2>4 DEF InstallRecorder, sessionFrame, captureFrame, backendVars, cleanupVars,
       watchers, client, sessionVars, recorder
  <2>5. ASSUME NEW ok \in BOOLEAN, NEW forms \in BOOLEAN, Navigate(ok, forms) PROVE RecorderSound'
    BY <2>5 DEF Navigate, sessionFrame, captureFrame, backendVars, cleanupVars, watchers,
       client, sessionVars, recorder
  <2> QED
    BY <1>5, <2>1, <2>2, <2>3, <2>4, <2>5 DEF CaptureSteps
<1>6. CASE PageSteps
  <2>1. CASE DocumentCommits
    BY <2>1 DEF DocumentCommits, navigateFrame, captureFrame, backendVars, cleanupVars,
       watchers, client, sessionVars, recorder
  <2>2. CASE InspectForms
    BY <2>2 DEF InspectForms, navigateFrame, captureFrame, backendVars, cleanupVars,
       watchers, client, sessionVars, recorder
  <2>3. CASE InspectFails
    BY <2>3 DEF InspectFails, navigateFrame, captureFrame, backendVars, cleanupVars,
       watchers, client, sessionVars, recorder
  <2>4. CASE SubmitForm
    BY <2>4 DEF SubmitForm, navigateFrame, captureFrame, backendVars, cleanupVars, watchers,
       client, sessionVars, recorder
  <2>5. CASE SubmitFormFails
    BY <2>5 DEF SubmitFormFails, navigateFrame, captureFrame, backendVars, cleanupVars,
       watchers, client, sessionVars, recorder
  <2>6. ASSUME NEW ok \in BOOLEAN, Settle(ok) PROVE RecorderSound'
    BY <2>6 DEF Settle, navigateFrame, captureFrame, backendVars, cleanupVars, watchers,
       client, sessionVars, recorder
  <2> QED
    BY <1>6, <2>1, <2>2, <2>3, <2>4, <2>5, <2>6 DEF PageSteps
<1>7. CASE RecorderSteps
  <2>1. CASE Finish
    BY <2>1 DEF EnterOnce, Finish, sessionFrame, captureFrame, backendVars, cleanupVars, watchers,
       client, sessionVars, recorder
  <2>2. ASSUME NEW ok \in BOOLEAN, FinishReturns(ok) PROVE RecorderSound'
    BY <2>2 DEF FinishReturns, sessionFrame, captureFrame, backendVars, cleanupVars,
       watchers, client, sessionVars, recorder
  <2>3. CASE FinishClosed
    BY <2>3 DEF FinishClosed, sessionFrame, captureFrame, backendVars, cleanupVars,
       watchers, client, sessionVars, recorder
  <2>4. CASE CloseUnfinished
    BY <2>4 DEF CloseUnfinished, sessionFrame, captureFrame, backendVars, cleanupVars,
       watchers, client, sessionVars, recorder
  <2>5. CASE RecWatcherWakes
    BY <2>5, EnterOnceFirst DEF RecWatcherWakes, sessionFrame, captureFrame, backendVars, cleanupVars,
       watchers, client, sessionVars, recorder
  <2>6. CASE RecWatcherExits
    BY <2>6 DEF RecWatcherExits, sessionFrame, captureFrame, backendVars, cleanupVars,
       watchers, client, sessionVars, recorder
  <2>7. ASSUME NEW who \in Closers, CloserLeaves(who) PROVE RecorderSound'
    BY <2>7 DEF CloserLeaves, sessionFrame, captureFrame, backendVars, cleanupVars,
       watchers, client, sessionVars, recorder
  <2> QED
    BY <1>7, <2>1, <2>2, <2>3, <2>4, <2>5, <2>6, <2>7 DEF RecorderSteps
<1>8. CASE CloseSteps
  <2>1. CASE DoneWatcherWakes
    BY <2>1, EnterOnceFirst DEF DoneWatcherWakes, sessionFrame, captureFrame, backendVars, cleanupVars,
       watchers, client, sessionVars, recorder
  <2>2. CASE DoneWatcherExits
    BY <2>2 DEF DoneWatcherExits, sessionFrame, captureFrame, backendVars, cleanupVars,
       watchers, client, sessionVars, recorder
  <2>3. CASE Close
    BY <2>3, EnterOnceFirst DEF Close, sessionFrame, captureFrame, backendVars, cleanupVars, watchers,
       client, sessionVars, recorder
  <2>4. CASE CloseRecorderDone
    BY <2>4 DEF CloseRecorderDone, sessionFrame, captureFrame, backendVars, cleanupVars,
       watchers, client, sessionVars, recorder
  <2>5. CASE CloseBackend
    BY <2>5 DEF CloseBackend, sessionFrame, captureFrame, backendVars, cleanupVars,
       watchers, client, sessionVars, recorder
  <2>6. CASE CloseReturns
    BY <2>6 DEF CloseReturns, sessionFrame, captureFrame, backendVars, cleanupVars,
       watchers, client, sessionVars, recorder
  <2> QED
    BY <1>8, <2>1, <2>2, <2>3, <2>4, <2>5, <2>6 DEF CloseSteps
<1> QED
  BY <1>1, <1>2, <1>3, <1>4, <1>5, <1>6, <1>7, <1>8 DEF AnyStep

(* The first click is one entry, and the log has room for it. *)
LEMMA OneClick ==
  ASSUME submitted = <<>>, formLog = <<>>
  PROVE  /\ SubmitAnswers \/ SubmitInterrupted =>
              Len(submitted') <= 1 /\ (submitted' # <<>> => formLog' # <<>>)
         /\ SubmitFails => Len(submitted') <= 1
<1>1. ASSUME NEW x PROVE Len(Append(<<>>, x)) = 1
  OBVIOUS
<1>2. ASSUME NEW x PROVE add(<<>>, x) # <<>>
  <2>1. ~(Len(<<>>) >= MaxSubmissions)
    BY FormAssumption
  <2>2. add(<<>>, x) = Append(<<>>, x)
    BY <2>1 DEF add
  <2> QED
    BY <2>2, <1>1
<1>3. Click => Len(submitted') = 1
  BY <1>1 DEF Click
<1>4. Len(<<>>) = 0
  OBVIOUS
<1>5. UNCHANGED submitted => submitted' = <<>> /\ Len(submitted') = 0
  BY <1>4
<1>6. Click \/ UNCHANGED submitted => Len(submitted') <= 1
  <2>1. \A n : n = 0 \/ n = 1 => n <= 1
    OBVIOUS
  <2> QED
    BY <1>3, <1>5, <2>1, Zenon
<1>7. formLog' = add(formLog, picked.form) => formLog' # <<>>
  BY <1>2
<1>8. SubmitAnswers => Len(submitted') <= 1 /\ (submitted' # <<>> => formLog' # <<>>)
  BY <1>5, <1>6, <1>7 DEF SubmitAnswers
<1>9. SubmitInterrupted => Len(submitted') <= 1 /\ formLog' # <<>>
  BY <1>6, <1>7 DEF SubmitInterrupted
<1>10. SubmitFails => Len(submitted') <= 1
  BY <1>6 DEF SubmitFails
<1> QED
  BY <1>8, <1>9, <1>10

LEMMA FormsStep ==
  ASSUME StartupSound, RecorderSound, FormsSound, AnyStep
  PROVE  FormsSound'
<1>0. upc = "submit" => usnap # "snapshot"
  BY DEF RecorderSound, Capturing
<1> USE DEF StartupSound, FormsSound, Unanswered, Returns, Fails, startCleanup, LeaveOnce
<1>1. CASE OtherSteps
  BY <1>1 DEF OtherSteps, CallerEnds, BrowserExits, vars, backendVars, cleanupVars,
     watchers, client, formVars, contexts, sessionVars, recorder
<1>2. CASE StartupSteps
  <2>1. CASE MakeProfile
    BY <2>1 DEF MakeProfile, Send, backendFrame, backendVars, cleanupVars, watchers, client,
       formVars
  <2>2. CASE MakeProxy
    BY <2>2 DEF MakeProxy, Send, backendFrame, backendVars, cleanupVars, watchers, client,
       formVars
  <2>3. CASE RunSucceeds
    BY <2>3 DEF RunSucceeds, Send, backendFrame, backendVars, cleanupVars, watchers, client,
       formVars
  <2>4. CASE RunFails
    BY <2>4 DEF RunFails, Send, backendFrame, backendVars, cleanupVars, watchers, client,
       formVars
  <2>5. CASE CloseFailedStart
    BY <2>5 DEF CloseFailedStart, Send, backendFrame, backendVars, cleanupVars, watchers,
       client, formVars
  <2>6. CASE TaskWatcherWakes
    BY <2>6 DEF TaskWatcherWakes, Send, backendFrame, backendVars, cleanupVars, watchers,
       client, formVars
  <2> QED
    BY <1>2, <2>1, <2>2, <2>3, <2>4, <2>5, <2>6 DEF StartupSteps
<1>3. CASE CleanupSteps
  <2>1. CASE CleanupCancels
    BY <2>1 DEF CleanupCancels, backendFrame, backendVars, cleanupVars, watchers, client,
       formVars
  <2>2. CASE CleanupClosesProxy
    BY <2>2 DEF CleanupClosesProxy, backendFrame, backendVars, cleanupVars, watchers,
       client, formVars
  <2>3. ASSUME NEW ok \in BOOLEAN, NEW others \in BOOLEAN,
               CleanupRemovesProfile(ok, others)
        PROVE  FormsSound'
    BY <2>3 DEF CleanupRemovesProfile, backendFrame, backendVars, cleanupVars, watchers,
       client, formVars
  <2> QED
    BY <1>3, <2>1, <2>2, <2>3 DEF CleanupSteps
<1>4. CASE StartSteps
  <2>1. CASE Start
    BY <2>1 DEF Start, startFrame, backendVars, cleanupVars, watchers, client, formVars
  <2>2. CASE StartResult
    BY <2>2 DEF StartResult, startFrame, backendVars, cleanupVars, watchers, client,
       formVars
  <2>3. CASE StartGivesUp
    BY <2>3 DEF StartGivesUp, startFrame, backendVars, cleanupVars, watchers, client,
       formVars
  <2>4. CASE PendingResult
    BY <2>4 DEF PendingResult, startFrame, backendVars, cleanupVars, watchers, client,
       formVars
  <2>5. CASE PendingTimesOut
    BY <2>5 DEF PendingTimesOut, startFrame, backendVars, cleanupVars, watchers, client,
       formVars
  <2>6. CASE LateCloseReturns
    BY <2>6 DEF LateCloseReturns, startFrame, backendVars, cleanupVars, watchers, client,
       formVars
  <2>7. CASE Reap
    BY <2>7 DEF Reap, startFrame, backendVars, cleanupVars, watchers, client, formVars
  <2>8. CASE ReaperCloseReturns
    BY <2>8 DEF ReaperCloseReturns, startFrame, backendVars, cleanupVars, watchers, client,
       formVars
  <2> QED
    BY <1>4, <2>1, <2>2, <2>3, <2>4, <2>5, <2>6, <2>7, <2>8 DEF StartSteps
<1>5. CASE CaptureSteps
  <2>1. CASE BeginCapture
    BY <2>1 DEF BeginCapture, sessionFrame, captureFrame, backendVars, cleanupVars,
       watchers, client, formVars
  <2>2. CASE BeginFails
    BY <2>2 DEF BeginFails, sessionFrame, captureFrame, backendVars, cleanupVars, watchers,
       client, formVars
  <2>3. CASE BeginSucceeds
    BY <2>3 DEF BeginSucceeds, sessionFrame, captureFrame, backendVars, cleanupVars,
       watchers, client, formVars
  <2>4. CASE InstallRecorder
    BY <2>4 DEF InstallRecorder, sessionFrame, captureFrame, backendVars, cleanupVars,
       watchers, client, formVars
  <2>5. ASSUME NEW ok \in BOOLEAN, NEW forms \in BOOLEAN, Navigate(ok, forms) PROVE FormsSound'
    BY <2>5 DEF Navigate, sessionFrame, captureFrame, backendVars, cleanupVars, watchers,
       client, formVars
  <2> QED
    BY <1>5, <2>1, <2>2, <2>3, <2>4, <2>5 DEF CaptureSteps
<1>6. CASE PageSteps
  <2>1. CASE DocumentCommits
    BY <2>1 DEF DocumentCommits, navigateFrame, captureFrame, backendVars, cleanupVars,
       watchers, client, formVars
  <2>2. CASE InspectForms
    BY <2>2 DEF InspectForms, navigateFrame, captureFrame, backendVars, cleanupVars,
       watchers, client, formVars
  <2>3. CASE InspectFails
    BY <2>3 DEF InspectFails, navigateFrame, captureFrame, backendVars, cleanupVars,
       watchers, client, formVars
  <2>4. CASE SubmitForm
    BY <1>0, <2>4, OneClick DEF SubmitForm, navigateFrame, captureFrame, backendVars, cleanupVars, watchers,
       client, formVars
  <2>5. CASE SubmitFormFails
    BY <1>0, <2>5, OneClick DEF SubmitFormFails, navigateFrame, captureFrame, backendVars, cleanupVars,
       watchers, client, formVars
  <2>6. ASSUME NEW ok \in BOOLEAN, Settle(ok) PROVE FormsSound'
    BY <2>6 DEF Settle, navigateFrame, captureFrame, backendVars, cleanupVars, watchers,
       client, formVars
  <2> QED
    BY <1>6, <2>1, <2>2, <2>3, <2>4, <2>5, <2>6 DEF PageSteps
<1>7. CASE RecorderSteps
  <2>1. CASE Finish
    BY <2>1 DEF Finish, sessionFrame, captureFrame, backendVars, cleanupVars, watchers,
       client, formVars
  <2>2. ASSUME NEW ok \in BOOLEAN, FinishReturns(ok) PROVE FormsSound'
    BY <2>2 DEF FinishReturns, sessionFrame, captureFrame, backendVars, cleanupVars,
       watchers, client, formVars
  <2>3. CASE FinishClosed
    BY <2>3 DEF FinishClosed, sessionFrame, captureFrame, backendVars, cleanupVars,
       watchers, client, formVars
  <2>4. CASE CloseUnfinished
    BY <2>4 DEF CloseUnfinished, sessionFrame, captureFrame, backendVars, cleanupVars,
       watchers, client, formVars
  <2>5. CASE RecWatcherWakes
    BY <2>5 DEF RecWatcherWakes, sessionFrame, captureFrame, backendVars, cleanupVars,
       watchers, client, formVars
  <2>6. CASE RecWatcherExits
    BY <2>6 DEF RecWatcherExits, sessionFrame, captureFrame, backendVars, cleanupVars,
       watchers, client, formVars
  <2>7. ASSUME NEW who \in Closers, CloserLeaves(who) PROVE FormsSound'
    BY <2>7 DEF CloserLeaves, sessionFrame, captureFrame, backendVars, cleanupVars,
       watchers, client, formVars
  <2> QED
    BY <1>7, <2>1, <2>2, <2>3, <2>4, <2>5, <2>6, <2>7 DEF RecorderSteps
<1>8. CASE CloseSteps
  <2>1. CASE DoneWatcherWakes
    BY <2>1 DEF DoneWatcherWakes, sessionFrame, captureFrame, backendVars, cleanupVars,
       watchers, client, formVars
  <2>2. CASE DoneWatcherExits
    BY <2>2 DEF DoneWatcherExits, sessionFrame, captureFrame, backendVars, cleanupVars,
       watchers, client, formVars
  <2>3. CASE Close
    BY <2>3 DEF Close, sessionFrame, captureFrame, backendVars, cleanupVars, watchers,
       client, formVars
  <2>4. CASE CloseRecorderDone
    BY <2>4 DEF CloseRecorderDone, sessionFrame, captureFrame, backendVars, cleanupVars,
       watchers, client, formVars
  <2>5. CASE CloseBackend
    BY <2>5 DEF CloseBackend, sessionFrame, captureFrame, backendVars, cleanupVars,
       watchers, client, formVars
  <2>6. CASE CloseReturns
    BY <2>6 DEF CloseReturns, sessionFrame, captureFrame, backendVars, cleanupVars,
       watchers, client, formVars
  <2> QED
    BY <1>8, <2>1, <2>2, <2>3, <2>4, <2>5, <2>6 DEF CloseSteps
<1> QED
  BY <1>1, <1>2, <1>3, <1>4, <1>5, <1>6, <1>7, <1>8 DEF AnyStep

LEMMA StepIInv == IInv /\ [Next]_vars => IInv'
BY StepsByParty, StartupStep, CleanupStep, RecorderStep, FormsStep DEF IInv
-----------------------------------------------------------------------------
(* The inductive invariant of a session. *)
THEOREM SessionInvariant == Spec => []IInv
<1> QED
  BY InitIInv, StepIInv, PTL DEF Spec

(* A nil error of Close means that the profile is removed and the proxy    *)
(* closed, in whatever order the startup, the watchers and the cleanup ran *)
(* (Client.Start, Session.Close, chromedpSession.startCleanup).            *)
THEOREM CleanReturn == Spec => []CleanReturnMeansReclaimed
<1>1. IInv => CleanReturnMeansReclaimed
  BY DEF IInv, CleanupSound, CleanReturnMeansReclaimed
<1> QED
  BY <1>1, SessionInvariant, PTL

(* Once the watcher of a dead browser has ended, no recorder is open, the  *)
(* one whose BeginCapture raced with the browser's death included          *)
(* (Session.BeginCapture, stopActiveRecorder).                             *)
THEOREM NoRecorderLeft == Spec => []NoRecorderOutlivesBrowser
<1>1. IInv => NoRecorderOutlivesBrowser
  BY DEF IInv, RecorderSound, NoRecorderOutlivesBrowser
<1> QED
  BY <1>1, SessionInvariant, PTL

(* A snapshot is returned only by the Finish that won the recorder         *)
(* (Recorder.Finish, Recorder.close).                                      *)
THEOREM ResultsAreFinished == Spec => []ResultIsFinished
<1>1. IInv => ResultIsFinished
  BY DEF IInv, RecorderSound, ResultIsFinished
<1> QED
  BY <1>1, SessionInvariant, PTL

(* At most one form is submitted, and a client without an error finds that *)
(* submission in its snapshot (submitEligibleForm, formSubmissionLog).     *)
THEOREM Submissions == Spec => []SubmissionsAccounted
<1>1. IInv => SubmissionsAccounted
  <2> SUFFICES ASSUME IInv PROVE SubmissionsAccounted
    OBVIOUS
  <2>1. Len(submitted) <= 1 => Len(submitted) <= MaxSubmissions
    BY FormAssumption
  <2> QED
    BY <2>1 DEF IInv, FormsSound, SubmissionsAccounted
<1> QED
  BY <1>1, SessionInvariant, PTL
-----------------------------------------------------------------------------
(*                              Types                                      *)

(* Where the parties are ... *)
PositionTypes ==
  /\ bpc \in {"idle", "profile", "proxy", "run", "closing", "sent"}
  /\ results \in {"empty", "session", "error"}
  /\ profile \in {"none", "present", "removed"}
  /\ proxy \in {"none", "open", "closed"}
  /\ clean \in {"idle", "running", "canceled", "proxyClosed", "done"}
  /\ taskWatcher \in {"none", "waiting", "exited"}
  /\ doneWatcher \in {"none", "waiting", "closing", "exited"}
  /\ recWatcher \in {"none", "waiting", "closing", "exited"}
  /\ reaper \in {"none", "waiting", "closing", "exited"}
  /\ upc \in {"start", "select", "pending", "closeLate", "begin", "beginCall",
              "install", "navigate", "inspect", "submit", "settle", "finish",
              "finishing", "finishWait", "close", "closeRecorder",
              "closeBackend", "closing", "returned"}
  /\ usnap \in {"none", "snapshot", "ErrRecorderClosed"}
  /\ captureMu \in {"free", "client"}
  /\ once \in {"none", "unused", "client", "done"} \cup Closers
  /\ source \in {"none", "open", "finished", "closed"}

(* ... and what they told each other. *)
FlagTypes ==
  /\ callerDone \in BOOLEAN /\ lifetime \in BOOLEAN /\ task \in BOOLEAN
  /\ cleanErr \in BOOLEAN /\ uerr \in BOOLEAN
  /\ stopped \in BOOLEAN /\ active \in BOOLEAN /\ closed \in BOOLEAN

LEMMA PositionStep ==
  ASSUME PositionTypes, AnyStep
  PROVE  PositionTypes'
<1> USE DEF PositionTypes, Returns, Fails, startCleanup, Send, EnterOnce, LeaveOnce,
            contexts, sessionVars, recorder, Closers
<1>1. CASE OtherSteps
  BY <1>1 DEF OtherSteps, CallerEnds, BrowserExits, vars, backendVars, cleanupVars,
     watchers, client, contexts, sessionVars, recorder
<1>2. CASE StartupSteps
  <2>1. CASE MakeProfile
    BY <2>1 DEF MakeProfile, Send, backendFrame, backendVars, cleanupVars, watchers, client
  <2>2. CASE MakeProxy
    BY <2>2 DEF MakeProxy, Send, backendFrame, backendVars, cleanupVars, watchers, client
  <2>3. CASE RunSucceeds
    BY <2>3 DEF RunSucceeds, Send, backendFrame, backendVars, cleanupVars, watchers, client
  <2>4. CASE RunFails
    BY <2>4 DEF RunFails, Send, backendFrame, backendVars, cleanupVars, watchers, client
  <2>5. CASE CloseFailedStart
    BY <2>5 DEF CloseFailedStart, Send, backendFrame, backendVars, cleanupVars, watchers,
       client
  <2>6. CASE TaskWatcherWakes
    BY <2>6 DEF TaskWatcherWakes, Send, backendFrame, backendVars, cleanupVars, watchers,
       client
  <2> QED
    BY <1>2, <2>1, <2>2, <2>3, <2>4, <2>5, <2>6 DEF StartupSteps
<1>3. CASE CleanupSteps
  <2>1. CASE CleanupCancels
    BY <2>1 DEF CleanupCancels, backendFrame, backendVars, cleanupVars, watchers, client
  <2>2. CASE CleanupClosesProxy
    BY <2>2 DEF CleanupClosesProxy, backendFrame, backendVars, cleanupVars, watchers, client
  <2>3. ASSUME NEW ok \in BOOLEAN, NEW others \in BOOLEAN,
               CleanupRemovesProfile(ok, others)
        PROVE  PositionTypes'
    BY <2>3 DEF CleanupRemovesProfile, backendFrame, backendVars, cleanupVars, watchers,
       client
  <2> QED
    BY <1>3, <2>1, <2>2, <2>3 DEF CleanupSteps
<1>4. CASE StartSteps
  <2>1. CASE Start
    BY <2>1 DEF Start, startFrame, backendVars, cleanupVars, watchers, client
  <2>2. CASE StartResult
    BY <2>2 DEF StartResult, startFrame, backendVars, cleanupVars, watchers, client
  <2>3. CASE StartGivesUp
    BY <2>3 DEF StartGivesUp, startFrame, backendVars, cleanupVars, watchers, client
  <2>4. CASE PendingResult
    BY <2>4 DEF PendingResult, startFrame, backendVars, cleanupVars, watchers, client
  <2>5. CASE PendingTimesOut
    BY <2>5 DEF PendingTimesOut, startFrame, backendVars, cleanupVars, watchers, client
  <2>6. CASE LateCloseReturns
    BY <2>6 DEF LateCloseReturns, startFrame, backendVars, cleanupVars, watchers, client
  <2>7. CASE Reap
    BY <2>7 DEF Reap, startFrame, backendVars, cleanupVars, watchers, client
  <2>8. CASE ReaperCloseReturns
    BY <2>8 DEF ReaperCloseReturns, startFrame, backendVars, cleanupVars, watchers, client
  <2> QED
    BY <1>4, <2>1, <2>2, <2>3, <2>4, <2>5, <2>6, <2>7, <2>8 DEF StartSteps
<1>5. CASE CaptureSteps
  <2>1. CASE BeginCapture
    BY <2>1 DEF BeginCapture, sessionFrame, captureFrame, backendVars, cleanupVars,
       watchers, client
  <2>2. CASE BeginFails
    BY <2>2 DEF BeginFails, sessionFrame, captureFrame, backendVars, cleanupVars, watchers,
       client
  <2>3. CASE BeginSucceeds
    BY <2>3 DEF BeginSucceeds, sessionFrame, captureFrame, backendVars, cleanupVars,
       watchers, client
  <2>4. CASE InstallRecorder
    BY <2>4 DEF InstallRecorder, sessionFrame, captureFrame, backendVars, cleanupVars,
       watchers, client
  <2>5. ASSUME NEW ok \in BOOLEAN, NEW forms \in BOOLEAN, Navigate(ok, forms) PROVE PositionTypes'
    BY <2>5 DEF Navigate, sessionFrame, captureFrame, backendVars, cleanupVars, watchers,
       client
  <2> QED
    BY <1>5, <2>1, <2>2, <2>3, <2>4, <2>5 DEF CaptureSteps
<1>6. CASE PageSteps
  <2>1. CASE DocumentCommits
    BY <2>1 DEF DocumentCommits, navigateFrame, captureFrame, backendVars, cleanupVars,
       watchers, client
  <2>2. CASE InspectForms
    BY <2>2 DEF InspectForms, navigateFrame, captureFrame, backendVars, cleanupVars,
       watchers, client
  <2>3. CASE InspectFails
    BY <2>3 DEF InspectFails, navigateFrame, captureFrame, backendVars, cleanupVars,
       watchers, client
  <2>4. CASE SubmitForm
    BY <2>4 DEF SubmitForm, navigateFrame, captureFrame, backendVars, cleanupVars, watchers,
       client
  <2>5. CASE SubmitFormFails
    BY <2>5 DEF SubmitFormFails, navigateFrame, captureFrame, backendVars, cleanupVars,
       watchers, client
  <2>6. ASSUME NEW ok \in BOOLEAN, Settle(ok) PROVE PositionTypes'
    BY <2>6 DEF Settle, navigateFrame, captureFrame, backendVars, cleanupVars, watchers,
       client
  <2> QED
    BY <1>6, <2>1, <2>2, <2>3, <2>4, <2>5, <2>6 DEF PageSteps
<1>7. CASE RecorderSteps
  <2>1. CASE Finish
    BY <2>1 DEF Finish, sessionFrame, captureFrame, backendVars, cleanupVars, watchers,
       client
  <2>2. ASSUME NEW ok \in BOOLEAN, FinishReturns(ok) PROVE PositionTypes'
    BY <2>2 DEF FinishReturns, sessionFrame, captureFrame, backendVars, cleanupVars,
       watchers, client
  <2>3. CASE FinishClosed
    BY <2>3 DEF FinishClosed, sessionFrame, captureFrame, backendVars, cleanupVars,
       watchers, client
  <2>4. CASE CloseUnfinished
    BY <2>4 DEF CloseUnfinished, sessionFrame, captureFrame, backendVars, cleanupVars,
       watchers, client
  <2>5. CASE RecWatcherWakes
    BY <2>5 DEF RecWatcherWakes, sessionFrame, captureFrame, backendVars, cleanupVars,
       watchers, client
  <2>6. CASE RecWatcherExits
    BY <2>6 DEF RecWatcherExits, sessionFrame, captureFrame, backendVars, cleanupVars,
       watchers, client
  <2>7. ASSUME NEW who \in Closers, CloserLeaves(who) PROVE PositionTypes'
    BY <2>7 DEF CloserLeaves, sessionFrame, captureFrame, backendVars, cleanupVars,
       watchers, client
  <2> QED
    BY <1>7, <2>1, <2>2, <2>3, <2>4, <2>5, <2>6, <2>7 DEF RecorderSteps
<1>8. CASE CloseSteps
  <2>1. CASE DoneWatcherWakes
    BY <2>1 DEF DoneWatcherWakes, sessionFrame, captureFrame, backendVars, cleanupVars,
       watchers, client
  <2>2. CASE DoneWatcherExits
    BY <2>2 DEF DoneWatcherExits, sessionFrame, captureFrame, backendVars, cleanupVars,
       watchers, client
  <2>3. CASE Close
    BY <2>3 DEF Close, sessionFrame, captureFrame, backendVars, cleanupVars, watchers,
       client
  <2>4. CASE CloseRecorderDone
    BY <2>4 DEF CloseRecorderDone, sessionFrame, captureFrame, backendVars, cleanupVars,
       watchers, client
  <2>5. CASE CloseBackend
    BY <2>5 DEF CloseBackend, sessionFrame, captureFrame, backendVars, cleanupVars,
       watchers, client
  <2>6. CASE CloseReturns
    BY <2>6 DEF CloseReturns, sessionFrame, captureFrame, backendVars, cleanupVars,
       watchers, client
  <2> QED
    BY <1>8, <2>1, <2>2, <2>3, <2>4, <2>5, <2>6 DEF CloseSteps
<1> QED
  BY <1>1, <1>2, <1>3, <1>4, <1>5, <1>6, <1>7, <1>8 DEF AnyStep

LEMMA FlagStep ==
  ASSUME FlagTypes, AnyStep
  PROVE  FlagTypes'
<1> USE DEF FlagTypes, Returns, Fails, startCleanup, Send, EnterOnce, LeaveOnce,
            contexts, sessionVars, recorder
<1>1. CASE OtherSteps
  BY <1>1 DEF OtherSteps, CallerEnds, BrowserExits, vars, backendVars, cleanupVars,
     watchers, client, contexts, sessionVars, recorder
<1>2. CASE StartupSteps
  <2>1. CASE MakeProfile
    BY <2>1 DEF MakeProfile, Send, backendFrame, backendVars, cleanupVars, watchers, client
  <2>2. CASE MakeProxy
    BY <2>2 DEF MakeProxy, Send, backendFrame, backendVars, cleanupVars, watchers, client
  <2>3. CASE RunSucceeds
    BY <2>3 DEF RunSucceeds, Send, backendFrame, backendVars, cleanupVars, watchers, client
  <2>4. CASE RunFails
    BY <2>4 DEF RunFails, Send, backendFrame, backendVars, cleanupVars, watchers, client
  <2>5. CASE CloseFailedStart
    BY <2>5 DEF CloseFailedStart, Send, backendFrame, backendVars, cleanupVars, watchers,
       client
  <2>6. CASE TaskWatcherWakes
    BY <2>6 DEF TaskWatcherWakes, Send, backendFrame, backendVars, cleanupVars, watchers,
       client
  <2> QED
    BY <1>2, <2>1, <2>2, <2>3, <2>4, <2>5, <2>6 DEF StartupSteps
<1>3. CASE CleanupSteps
  <2>1. CASE CleanupCancels
    BY <2>1 DEF CleanupCancels, backendFrame, backendVars, cleanupVars, watchers, client
  <2>2. CASE CleanupClosesProxy
    BY <2>2 DEF CleanupClosesProxy, backendFrame, backendVars, cleanupVars, watchers, client
  <2>3. ASSUME NEW ok \in BOOLEAN, NEW others \in BOOLEAN,
               CleanupRemovesProfile(ok, others)
        PROVE  FlagTypes'
    BY <2>3 DEF CleanupRemovesProfile, backendFrame, backendVars, cleanupVars, watchers,
       client
  <2> QED
    BY <1>3, <2>1, <2>2, <2>3 DEF CleanupSteps
<1>4. CASE StartSteps
  <2>1. CASE Start
    BY <2>1 DEF Start, startFrame, backendVars, cleanupVars, watchers, client
  <2>2. CASE StartResult
    BY <2>2 DEF StartResult, startFrame, backendVars, cleanupVars, watchers, client
  <2>3. CASE StartGivesUp
    BY <2>3 DEF StartGivesUp, startFrame, backendVars, cleanupVars, watchers, client
  <2>4. CASE PendingResult
    BY <2>4 DEF PendingResult, startFrame, backendVars, cleanupVars, watchers, client
  <2>5. CASE PendingTimesOut
    BY <2>5 DEF PendingTimesOut, startFrame, backendVars, cleanupVars, watchers, client
  <2>6. CASE LateCloseReturns
    BY <2>6 DEF LateCloseReturns, startFrame, backendVars, cleanupVars, watchers, client
  <2>7. CASE Reap
    BY <2>7 DEF Reap, startFrame, backendVars, cleanupVars, watchers, client
  <2>8. CASE ReaperCloseReturns
    BY <2>8 DEF ReaperCloseReturns, startFrame, backendVars, cleanupVars, watchers, client
  <2> QED
    BY <1>4, <2>1, <2>2, <2>3, <2>4, <2>5, <2>6, <2>7, <2>8 DEF StartSteps
<1>5. CASE CaptureSteps
  <2>1. CASE BeginCapture
    BY <2>1 DEF BeginCapture, sessionFrame, captureFrame, backendVars, cleanupVars,
       watchers, client
  <2>2. CASE BeginFails
    BY <2>2 DEF BeginFails, sessionFrame, captureFrame, backendVars, cleanupVars, watchers,
       client
  <2>3. CASE BeginSucceeds
    BY <2>3 DEF BeginSucceeds, sessionFrame, captureFrame, backendVars, cleanupVars,
       watchers, client
  <2>4. CASE InstallRecorder
    BY <2>4 DEF InstallRecorder, sessionFrame, captureFrame, backendVars, cleanupVars,
       watchers, client
  <2>5. ASSUME NEW ok \in BOOLEAN, NEW forms \in BOOLEAN, Navigate(ok, forms) PROVE FlagTypes'
    BY <2>5 DEF Navigate, sessionFrame, captureFrame, backendVars, cleanupVars, watchers,
       client
  <2> QED
    BY <1>5, <2>1, <2>2, <2>3, <2>4, <2>5 DEF CaptureSteps
<1>6. CASE PageSteps
  <2>1. CASE DocumentCommits
    BY <2>1 DEF DocumentCommits, navigateFrame, captureFrame, backendVars, cleanupVars,
       watchers, client
  <2>2. CASE InspectForms
    BY <2>2 DEF InspectForms, navigateFrame, captureFrame, backendVars, cleanupVars,
       watchers, client
  <2>3. CASE InspectFails
    BY <2>3 DEF InspectFails, navigateFrame, captureFrame, backendVars, cleanupVars,
       watchers, client
  <2>4. CASE SubmitForm
    BY <2>4 DEF SubmitForm, navigateFrame, captureFrame, backendVars, cleanupVars, watchers,
       client
  <2>5. CASE SubmitFormFails
    BY <2>5 DEF SubmitFormFails, navigateFrame, captureFrame, backendVars, cleanupVars,
       watchers, client
  <2>6. ASSUME NEW ok \in BOOLEAN, Settle(ok) PROVE FlagTypes'
    BY <2>6 DEF Settle, navigateFrame, captureFrame, backendVars, cleanupVars, watchers,
       client
  <2> QED
    BY <1>6, <2>1, <2>2, <2>3, <2>4, <2>5, <2>6 DEF PageSteps
<1>7. CASE RecorderSteps
  <2>1. CASE Finish
    BY <2>1 DEF Finish, sessionFrame, captureFrame, backendVars, cleanupVars, watchers,
       client
  <2>2. ASSUME NEW ok \in BOOLEAN, FinishReturns(ok) PROVE FlagTypes'
    BY <2>2 DEF FinishReturns, sessionFrame, captureFrame, backendVars, cleanupVars,
       watchers, client
  <2>3. CASE FinishClosed
    BY <2>3 DEF FinishClosed, sessionFrame, captureFrame, backendVars, cleanupVars,
       watchers, client
  <2>4. CASE CloseUnfinished
    BY <2>4 DEF CloseUnfinished, sessionFrame, captureFrame, backendVars, cleanupVars,
       watchers, client
  <2>5. CASE RecWatcherWakes
    BY <2>5 DEF RecWatcherWakes, sessionFrame, captureFrame, backendVars, cleanupVars,
       watchers, client
  <2>6. CASE RecWatcherExits
    BY <2>6 DEF RecWatcherExits, sessionFrame, captureFrame, backendVars, cleanupVars,
       watchers, client
  <2>7. ASSUME NEW who \in Closers, CloserLeaves(who) PROVE FlagTypes'
    BY <2>7 DEF CloserLeaves, sessionFrame, captureFrame, backendVars, cleanupVars,
       watchers, client
  <2> QED
    BY <1>7, <2>1, <2>2, <2>3, <2>4, <2>5, <2>6, <2>7 DEF RecorderSteps
<1>8. CASE CloseSteps
  <2>1. CASE DoneWatcherWakes
    BY <2>1 DEF DoneWatcherWakes, sessionFrame, captureFrame, backendVars, cleanupVars,
       watchers, client
  <2>2. CASE DoneWatcherExits
    BY <2>2 DEF DoneWatcherExits, sessionFrame, captureFrame, backendVars, cleanupVars,
       watchers, client
  <2>3. CASE Close
    BY <2>3 DEF Close, sessionFrame, captureFrame, backendVars, cleanupVars, watchers,
       client
  <2>4. CASE CloseRecorderDone
    BY <2>4 DEF CloseRecorderDone, sessionFrame, captureFrame, backendVars, cleanupVars,
       watchers, client
  <2>5. CASE CloseBackend
    BY <2>5 DEF CloseBackend, sessionFrame, captureFrame, backendVars, cleanupVars,
       watchers, client
  <2>6. CASE CloseReturns
    BY <2>6 DEF CloseReturns, sessionFrame, captureFrame, backendVars, cleanupVars,
       watchers, client
  <2> QED
    BY <1>8, <2>1, <2>2, <2>3, <2>4, <2>5, <2>6 DEF CloseSteps
<1> QED
  BY <1>1, <1>2, <1>3, <1>4, <1>5, <1>6, <1>7, <1>8 DEF AnyStep

(* A set of naturals that is not empty has a smallest element. *)
LEMMA MinIn ==
  ASSUME NEW S \in SUBSET Nat, S # {}
  PROVE  Min(S) \in S
<1> DEFINE less == {ss \in Nat \X Nat : ss[1] < ss[2]}
<1>1. IsWellFoundedOn(less, Nat)
  BY NatLessThanWellFounded DEF OpToRel
<1>2. PICK x \in S : \A y \in S : ~ (<<y, x>> \in less)
  <2> HIDE DEF less
  <2> QED
    BY <1>1, WFMin
<1>3. ASSUME NEW y \in S PROVE x <= y
  <2>1. <<y, x>> \in Nat \X Nat /\ ~ (y < x) /\ x \in Int /\ y \in Int
    BY <1>2
  <2> QED
    BY <2>1
<1> QED
  BY <1>3 DEF Min

(* What is picked is the number of a form of its document. *)
LEMMA PickedIsForm ==
  ASSUME NEW d \in Documents, pick(d).index # 0
  PROVE  pick(d).index \in DOMAIN d.forms /\ pick(d).form \in Form
<1> DEFINE S == eligibleFormIndexes(d)
           i == Min(S)
<1>1. S \in SUBSET Nat /\ S \subseteq DOMAIN d.forms
  BY FormAssumption DEF eligibleFormIndexes
<1>2. S # {} /\ pick(d) = [index |-> i, form |-> d.forms[i]]
  BY DEF pick, NoForm
<1>3. i \in S
  <2> HIDE DEF S
  <2> QED
    BY <1>1, <1>2, MinIn
<1>4. i \in DOMAIN d.forms /\ d.forms[i] \in Form
  BY <1>1, <1>3 DEF Form
<1> HIDE DEF i, S
<1> QED
  BY <1>2, <1>4

(* A client about to submit has a form picked. *)
FormTypes ==
  /\ FormTypeOK
  /\ upc = "submit" => picked.index # 0

(* What the submitter and the log do to the forms' sequences. *)
LEMMA ClickTyped ==
  ASSUME FormTypes, upc = "submit"
  PROVE  /\ SubmitAnswers \/ SubmitInterrupted =>
              submitted' \in Seq(Form) /\ formLog' \in Seq(Form) /\ Len(formLog') <= MaxSubmissions
         /\ SubmitFails => submitted' \in Seq(Form) /\ formLog' = formLog
<1>1. /\ doc \in Documents /\ submitted \in Seq(Form) /\ formLog \in Seq(Form)
      /\ picked.form \in Form /\ Len(formLog) <= MaxSubmissions
  BY DEF FormTypes, FormTypeOK
<1>2. present /\ Click => submitted' \in Seq(Form)
  <2>1. present => doc.forms[picked.index] \in Form
    BY <1>1 DEF present, Form
  <2> QED
    BY <1>1, <2>1 DEF Click
<1>3. add(formLog, picked.form) \in Seq(Form) /\ Len(add(formLog, picked.form)) <= MaxSubmissions
  <2>1. CASE Len(formLog) >= MaxSubmissions
    BY <1>1, <2>1 DEF add
  <2>2. CASE ~(Len(formLog) >= MaxSubmissions)
    <3>1. /\ Len(formLog) \in Nat /\ MaxSubmissions \in Nat
          /\ Append(formLog, picked.form) \in Seq(Form)
          /\ Len(Append(formLog, picked.form)) = Len(formLog) + 1
      BY <1>1, FormAssumption
    <3>2. add(formLog, picked.form) = Append(formLog, picked.form)
      BY <2>2 DEF add
    <3> QED
      BY <2>2, <3>1, <3>2
  <2> QED
    BY <2>1, <2>2
<1>4. SubmitAnswers => submitted' \in Seq(Form) /\ formLog' \in Seq(Form)
                       /\ Len(formLog') <= MaxSubmissions
  BY <1>1, <1>2, <1>3 DEF SubmitAnswers
<1>5. SubmitInterrupted => submitted' \in Seq(Form) /\ formLog' \in Seq(Form)
                           /\ Len(formLog') <= MaxSubmissions
  BY <1>1, <1>2, <1>3 DEF SubmitInterrupted
<1>6. SubmitFails => submitted' \in Seq(Form) /\ formLog' = formLog
  BY <1>1, <1>2 DEF SubmitFails
<1> QED
  BY <1>4, <1>5, <1>6

(* Only the steps on the page, and Finish, touch the forms. *)
LEMMA FormsKept ==
  ASSUME AnyStep, ~PageSteps, \A ok \in BOOLEAN : ~FinishReturns(ok)
  PROVE  UNCHANGED formVars /\ (upc' = "submit" => upc = "submit")
<1> USE DEF Returns, Fails
<1>1. CASE OtherSteps
  BY <1>1 DEF OtherSteps, CallerEnds, BrowserExits, vars, client
<1>2. CASE StartupSteps
  BY <1>2 DEF StartupSteps, MakeProfile, MakeProxy, RunSucceeds, RunFails, CloseFailedStart,
     TaskWatcherWakes, backendFrame, client
<1>3. CASE CleanupSteps
  BY <1>3 DEF CleanupSteps, CleanupCancels, CleanupClosesProxy, CleanupRemovesProfile,
     backendFrame, client
<1>4. CASE StartSteps
  BY <1>4 DEF StartSteps, Start, StartResult, StartGivesUp, PendingResult, PendingTimesOut,
     LateCloseReturns, Reap, ReaperCloseReturns, startFrame
<1>5. CASE CaptureSteps
  BY <1>5 DEF CaptureSteps, BeginCapture, BeginFails, BeginSucceeds, InstallRecorder,
     Navigate, sessionFrame
<1>6. CASE RecorderSteps
  BY <1>6 DEF RecorderSteps, Finish, FinishClosed, CloseUnfinished, RecWatcherWakes,
     RecWatcherExits, CloserLeaves, sessionFrame, client
<1>7. CASE CloseSteps
  BY <1>7 DEF CloseSteps, DoneWatcherWakes, DoneWatcherExits, Close, CloseRecorderDone,
     CloseBackend, CloseReturns, sessionFrame, client
<1> QED
  BY <1>1, <1>2, <1>3, <1>4, <1>5, <1>6, <1>7 DEF AnyStep

LEMMA FormTypesStep ==
  ASSUME FormTypes, AnyStep
  PROVE  FormTypes'
<1>1. CASE ~PageSteps /\ \A ok \in BOOLEAN : ~FinishReturns(ok)
  <2>1. UNCHANGED formVars /\ (upc' = "submit" => upc = "submit")
    BY <1>1, FormsKept
  <2> QED
    BY <2>1 DEF FormTypes, FormTypeOK, formVars
<1>2. ASSUME NEW ok \in BOOLEAN, FinishReturns(ok) PROVE FormTypes'
  BY <1>2 DEF FinishReturns, FormTypes, FormTypeOK
<1>3. CASE PageSteps
  <2>1. CASE DocumentCommits
    BY <2>1 DEF DocumentCommits, navigateFrame, FormTypes, FormTypeOK
  <2>2. CASE InspectForms
    BY <2>2, PickedIsForm DEF InspectForms, navigateFrame, FormTypes, FormTypeOK
  <2>3. CASE InspectFails
    BY <2>3 DEF InspectFails, Fails, navigateFrame, FormTypes, FormTypeOK
  <2>4. CASE SubmitForm
    BY <2>4, ClickTyped DEF SubmitForm, navigateFrame, FormTypes, FormTypeOK
  <2>5. CASE SubmitFormFails
    BY <2>5, ClickTyped DEF SubmitFormFails, Fails, navigateFrame, FormTypes, FormTypeOK
  <2>6. ASSUME NEW ok \in BOOLEAN, Settle(ok) PROVE FormTypes'
    BY <2>6 DEF Settle, navigateFrame, FormTypes, FormTypeOK
  <2> QED
    BY <1>3, <2>1, <2>2, <2>3, <2>4, <2>5, <2>6 DEF PageSteps
<1> QED
  BY <1>1, <1>2, <1>3

(* The parties of a session keep their types for any documents: whatever   *)
(* is logged as submitted is a form, within the ceiling of the log.        *)
THEOREM SessionTypes == Spec => []TypeOK
<1>1. Init => PositionTypes /\ FlagTypes /\ FormTypes
  <2> SUFFICES ASSUME Init PROVE PositionTypes /\ FlagTypes /\ FormTypes
    OBVIOUS
  <2>1. <<>> \in Seq(Form) /\ Len(<<>>) <= MaxSubmissions
    BY FormAssumption
  <2>2. FormTypes
    BY <2>1 DEF Init, FormInit, FormTypes, FormTypeOK, NoForm
  <2> QED
    BY <2>2 DEF Init, PositionTypes, FlagTypes
<1>2. PositionTypes /\ FlagTypes /\ FormTypes /\ [Next]_vars =>
        PositionTypes' /\ FlagTypes' /\ FormTypes'
  BY StepsByParty, PositionStep, FlagStep, FormTypesStep
<1>3. PositionTypes /\ FlagTypes /\ FormTypes => TypeOK
  BY DEF PositionTypes, FlagTypes, FormTypes, TypeOK
<1> QED
  BY <1>1, <1>2, <1>3, PTL DEF Spec
=============================================================================
