--------------------------- MODULE InteractiveScan ---------------------------
(***************************************************************************)
(* The interactive command (cmd/hemera/main.go runInteractiveScan,         *)
(* runInteractivePage, runInteractiveMultiScan): each page is scanned on a *)
(* goroutine of its own, which reports to a live view                      *)
(* (internal/tui/progress.go) over a bounded channel, while the user may   *)
(* press Ctrl+C and the application context may end.                       *)
(*                                                                         *)
(* The scan is ScanContract's.  The bubbletea runtime is external: it      *)
(* reads the channel with one command at a time, runs that command's       *)
(* message, the key presses and the quit message through Update in the     *)
(* order they happen to arrive, and stops when its context ends.           *)
(***************************************************************************)
EXTENDS ScanContract, Sequences

CONSTANTS MaxTargets,    \* the most pages the wizard returns
          Buffer         \* the capacity of msgs (32)

ASSUME InteractiveAssumption == MaxTargets \in Nat \ {0} /\ Buffer \in Nat \ {0}

VARIABLES targets,       \* the pages the wizard returned
          appDone,       \* the application context has ended
          cancelCalled,  \* runInteractivePage has called cancel
          spc,           \* where the scan goroutine is
          outbox,        \* the message it is sending
          msgs,          \* the channel to the view
          closed,        \* close(msgs)
          vpc,           \* where the view program is
          reader,        \* waitForProgressMsg: reading, or the message it took
          keyed,         \* progressModel.canceled: set before Final, or after it
          shown,         \* progressModel.outcome, "none" before Final
          stages,        \* progressModel.stages, by analyzer
          progErr,       \* what program.Run returned
          mpc,           \* where the main goroutine is
          runErr,        \* what RunProgress returned
          pages,         \* outcomes of the pages scanned so far
          broke,         \* why the page loop was left early
          report,        \* the styled report
          exit           \* the exit code, -1 before the command returns

scanVars == <<scan, spc, outbox>>
viewVars == <<vpc, reader, keyed, shown, stages, progErr>>
mainVars == <<mpc, runErr, pages, broke, report, exit>>
vars == <<targets, appDone, cancelCalled, scanVars, msgs, closed, viewVars, mainVars>>

StageStates == {"pending", "running", "settled"}

Message(kind, source, outcome) == [kind |-> kind, source |-> source, outcome |-> outcome]

Messages == [kind : {"started", "settled"}, source : 1..Stages, outcome : {"none"}]
              \cup [kind : {"final"}, source : {0}, outcome : Outcomes \ {"none"}]
None == Message("no message", 0, "none")
Reading == Message("being read", 0, "none")

TypeOK ==
    /\ targets \in 1..MaxTargets
    /\ appDone \in BOOLEAN /\ cancelCalled \in BOOLEAN /\ closed \in BOOLEAN
    /\ scan \in Scans
    /\ spc \in {"idle", "running", "sending", "passed", "final", "deliver", "done"}
    /\ outbox \in Messages \cup {None}
    /\ msgs \in Seq(Messages) /\ Len(msgs) <= Buffer
    /\ vpc \in {"off", "running", "quitting", "ended"}
    /\ reader \in Messages \cup {None, Reading}
    /\ keyed \in {"no", "early", "late"} /\ shown \in Outcomes
    /\ stages \in [1..Stages -> StageStates]
    /\ progErr \in {"nil", "killed", "failed"}
    /\ mpc \in {"page", "viewing", "cancel", "join", "close", "classify", "report", "exited"}
    /\ runErr \in {"nil", "ctx", "ErrViewCanceled", "failed"}
    /\ pages \in Seq({"result", "failed"}) /\ Len(pages) <= targets
    /\ broke \in {"no", "canceled", "appCanceled"}
    /\ report \in {"none", "written", "failed"}
    /\ exit \in {-1, 0, 1, 2}

AllPending == [i \in 1..Stages |-> "pending"]

Init ==
    /\ targets \in 1..MaxTargets
    /\ appDone = FALSE /\ cancelCalled = FALSE /\ closed = FALSE
    /\ ContractInit /\ spc = "idle" /\ outbox = None
    /\ msgs = <<>>
    /\ vpc = "off" /\ reader = None /\ keyed = "no" /\ shown = "none"
    /\ stages = AllPending /\ progErr = "nil"
    /\ mpc = "page" /\ runErr = "nil" /\ pages = <<>> /\ broke = "no"
    /\ report = "none" /\ exit = -1

scanCtxDone == appDone \/ cancelCalled

-----------------------------------------------------------------------------
AppCanceled ==
    /\ ~appDone /\ mpc # "exited"
    /\ appDone' = TRUE
    /\ UNCHANGED <<targets, cancelCalled, scanVars, msgs, closed, viewVars, mainVars>>

-----------------------------------------------------------------------------
(* The scan goroutine *)

scanFrame == UNCHANGED <<targets, appDone, cancelCalled, closed, viewVars, mainVars>>

\* emit: a lifecycle event is handed to sendMsg.
Emits ==
    /\ spc = "running"
    /\ spc' = "sending" /\ UNCHANGED msgs /\ scanFrame
    /\ \/ Started /\ outbox' = Message("started", scan.settled + 1, "none")
       \/ Settled /\ outbox' = Message("settled", scan.settled + 1, "none")

\* sendMsg: a message goes out when there is room, and is dropped once the
\* scan's context has ended.
afterSend == IF spc = "final" THEN "deliver" ELSE "running"

SendMsg ==
    /\ spc \in {"sending", "final"} /\ Len(msgs) < Buffer
    /\ msgs' = Append(msgs, outbox) /\ outbox' = None
    /\ spc' = afterSend
    /\ UNCHANGED scan /\ scanFrame

sendDroppedNever == FALSE
sendDroppedWhenFull == Len(msgs) >= Buffer \/ scanCtxDone
sendDropped == scanCtxDone

DropMsg ==
    /\ spc \in {"sending", "final"} /\ sendDropped
    /\ outbox' = None
    /\ spc' = afterSend
    /\ UNCHANGED <<scan, msgs>> /\ scanFrame

\* The last look Scan takes at its context, before coverage is built.
ScanPasses ==
    /\ spc = "running" /\ ~scanCtxDone /\ ~scan.running /\ scan.settled = Stages
    /\ spc' = "passed"
    /\ UNCHANGED <<scan, outbox, msgs>> /\ scanFrame

ScanEnds ==
    /\ \/ spc = "passed" /\ ReturnsResult
       \/ spc = "running" /\ scanCtxDone /\ ReturnsError("canceled")
       \/ spc \in {"running", "passed"} /\ ReturnsError("failed")
    /\ outbox' = Message("final", 0, scan'.outcome)
    /\ spc' = "final"
    /\ UNCHANGED msgs /\ scanFrame

\* scanDone <- outcome; its buffer is one.
Deliver ==
    /\ spc = "deliver"
    /\ spc' = "done"
    /\ UNCHANGED <<scan, outbox, msgs>> /\ scanFrame

-----------------------------------------------------------------------------
(* The view *)

viewFrame == UNCHANGED <<targets, appDone, cancelCalled, scanVars, closed, mainVars>>
ViewRuns == vpc \in {"running", "quitting"}

\* The reading command takes a message; it does so even after the view ended.
ReaderTakes ==
    /\ reader = Reading /\ msgs # <<>>
    /\ reader' = Head(msgs) /\ msgs' = Tail(msgs)
    /\ UNCHANGED <<vpc, keyed, shown, stages, progErr>> /\ viewFrame

\* Update on an event of the scan: applyEvent, and read the next one.
UpdateEvent ==
    /\ ViewRuns /\ reader \in Messages /\ reader.kind # "final"
    /\ stages' = [stages EXCEPT ![reader.source] =
                    IF reader.kind = "started" THEN "running" ELSE "settled"]
    /\ reader' = Reading
    /\ UNCHANGED <<vpc, keyed, shown, msgs, progErr>> /\ viewFrame

\* Update on the final message: the outcome is kept, an unfinished stage is
\* marked failed when the scan failed, and the program is asked to quit.
UpdateFinal ==
    /\ ViewRuns /\ reader \in Messages /\ reader.kind = "final"
    /\ shown' = reader.outcome
    /\ stages' = IF reader.outcome = "result" THEN stages
                 ELSE [i \in 1..Stages |-> "settled"]
    /\ reader' = None /\ vpc' = "quitting"
    /\ UNCHANGED <<keyed, msgs, progErr>> /\ viewFrame

\* Update on Ctrl+C.  The quit message is still to be processed.
KeyPressed ==
    /\ ViewRuns /\ keyed = "no"
    /\ keyed' = (IF shown = "none" THEN "early" ELSE "late") /\ vpc' = "quitting"
    /\ UNCHANGED <<reader, shown, stages, msgs, progErr>> /\ viewFrame

ViewQuits ==
    /\ vpc = "quitting"
    /\ vpc' = "ended"
    /\ UNCHANGED <<reader, keyed, shown, stages, progErr, msgs>> /\ viewFrame

\* The program stops with its context, or with a terminal error.
ViewStops(why) ==
    /\ ViewRuns
    /\ \/ why = "killed" /\ scanCtxDone
       \/ why = "failed"
    /\ vpc' = "ended" /\ progErr' = why
    /\ UNCHANGED <<reader, keyed, shown, stages, msgs>> /\ viewFrame

-----------------------------------------------------------------------------
(* The main goroutine *)

StartPage ==
    /\ mpc = "page" /\ Len(pages) < targets
    /\ cancelCalled' = FALSE /\ closed' = FALSE /\ msgs' = <<>>
    /\ scan' = fresh /\ spc' = "running" /\ outbox' = None
    /\ vpc' = "running" /\ reader' = Reading /\ keyed' = "no" /\ shown' = "none"
    /\ stages' = AllPending /\ progErr' = "nil"
    /\ mpc' = "viewing" /\ runErr' = "nil"
    /\ UNCHANGED <<targets, appDone, pages, broke, report, exit>>

mainFrame == UNCHANGED <<targets, appDone, viewVars, pages, broke, report, exit>>

\* RunProgress returns: its context first, then the program's error, then
\* whether the final message was seen; whether Ctrl+C was pressed is not asked.
RunProgressReturns ==
    /\ mpc = "viewing" /\ vpc = "ended"
    /\ runErr' = CASE scanCtxDone -> "ctx"
                   [] ~scanCtxDone /\ progErr # "nil" -> "failed"
                   [] ~scanCtxDone /\ progErr = "nil" /\ shown = "none" -> "ErrViewCanceled"
                   [] OTHER -> "nil"
    /\ mpc' = "cancel"
    /\ UNCHANGED <<cancelCalled, scanVars, msgs, closed>> /\ mainFrame

CancelScan ==
    /\ mpc = "cancel"
    /\ cancelCalled' = TRUE /\ mpc' = "join"
    /\ UNCHANGED <<scanVars, msgs, closed, runErr>> /\ mainFrame

scanJoinedUnchecked == TRUE
scanJoined == spc = "done"

Join ==
    /\ mpc = "join" /\ scanJoined
    /\ mpc' = "close"
    /\ spc' = IF spc = "done" THEN "idle" ELSE spc
    /\ UNCHANGED <<cancelCalled, scan, outbox, msgs, closed, runErr>> /\ mainFrame

\* SetProgress(nil); close(msgs)
CloseMsgs ==
    /\ mpc = "close"
    /\ closed' = TRUE /\ mpc' = "classify"
    /\ UNCHANGED <<cancelCalled, scanVars, msgs, runErr>> /\ mainFrame

\* interactivePageOutcome
pageOutcomeOfScan == IF scan.outcome = "canceled" THEN "canceled" ELSE scan.outcome
pageOutcome ==
    CASE runErr # "nil" /\ (appDone \/ runErr = "ctx") -> "appCanceled"
      [] runErr = "ErrViewCanceled" /\ ~appDone -> "canceled"
      [] runErr = "failed" /\ ~appDone -> "viewErr"
      [] runErr = "nil" /\ scan.outcome # "result" /\ (appDone \/ scan.outcome = "canceled")
           -> "appCanceled"
      [] OTHER -> scan.outcome

classifyFrame == UNCHANGED <<targets, appDone, cancelCalled, scanVars, msgs, closed, viewVars, runErr>>
Exits(code) == mpc' = "exited" /\ exit' = code

\* A broken view ends the command without a report.
ViewBroke ==
    /\ mpc = "classify" /\ pageOutcome = "viewErr"
    /\ Exits(1)
    /\ UNCHANGED <<pages, broke, report>> /\ classifyFrame

\* A canceled page is not a page: a single target ends here, a list of pages
\* goes on to report the pages it has.
PageCanceledRecorded ==
    /\ mpc = "classify" /\ pageOutcome \in {"canceled", "appCanceled"}
    /\ broke' = pageOutcome
    /\ IF targets = 1
       THEN Exits(IF pageOutcome = "canceled" THEN 0 ELSE 1)
       ELSE mpc' = "report" /\ UNCHANGED exit
    /\ pages' = Append(pages, scan.outcome)
    /\ UNCHANGED report /\ classifyFrame
PageCanceled ==
    /\ mpc = "classify" /\ pageOutcome \in {"canceled", "appCanceled"}
    /\ broke' = pageOutcome
    /\ IF targets = 1
       THEN Exits(IF pageOutcome = "canceled" THEN 0 ELSE 1)
       ELSE mpc' = "report" /\ UNCHANGED exit
    /\ UNCHANGED <<pages, report>> /\ classifyFrame

\* A single target that failed; 2 is ErrInitialTarget.
SingleFailed(code) ==
    /\ mpc = "classify" /\ targets = 1 /\ pageOutcome = "failed"
    /\ Exits(code)
    /\ UNCHANGED <<pages, broke, report>> /\ classifyFrame

PageRecorded ==
    /\ mpc = "classify" /\ pageOutcome \in {"result", "failed"}
    /\ targets = 1 => pageOutcome = "result"
    /\ pages' = Append(pages, pageOutcome)
    /\ mpc' = IF Len(pages) + 1 = targets THEN "report" ELSE "page"
    /\ UNCHANGED <<broke, report, exit>> /\ classifyFrame

\* The styled report, and the exit code of a list of pages.
allFailed == \A i \in DOMAIN pages : pages[i] = "failed"

reportExitNoApp == IF broke = "no" /\ allFailed THEN 1 ELSE 0
reportExit ==
    CASE broke = "appCanceled" -> 1
      [] broke = "canceled" -> 0
      [] OTHER -> IF allFailed THEN 1 ELSE 0

WriteReport(ok) ==
    /\ mpc = "report"
    /\ report' = IF ok THEN "written" ELSE "failed"
    /\ Exits(IF ok THEN reportExit ELSE 1)
    /\ UNCHANGED <<pages, broke>> /\ classifyFrame

-----------------------------------------------------------------------------
ScanGoroutine == Emits \/ ScanPasses \/ ScanEnds
Sends == SendMsg \/ DropMsg \/ Deliver
View == ReaderTakes \/ UpdateEvent \/ UpdateFinal \/ ViewQuits \/ ViewStops("killed")
Main ==
    \/ StartPage \/ RunProgressReturns \/ CancelScan \/ Join \/ CloseMsgs
    \/ ViewBroke \/ PageCanceled \/ PageRecorded
    \/ \E code \in {1, 2} : SingleFailed(code)
    \/ \E ok \in BOOLEAN : WriteReport(ok)

Next ==
    \/ AppCanceled \/ ScanGoroutine \/ Sends \/ View \/ KeyPressed
    \/ ViewStops("failed") \/ Main

Spec == Init /\ [][Next]_vars

\* A scan need not end on its own; one whose context has ended does.  The view
\* is fair to its messages, its quit message and its context.
FairSpec ==
    /\ Spec
    /\ WF_vars(ScanEnds /\ scanCtxDone) /\ WF_vars(Sends)
    /\ WF_vars(ReaderTakes) /\ WF_vars(UpdateEvent \/ UpdateFinal)
    /\ WF_vars(ViewQuits) /\ WF_vars(ViewStops("killed"))
    /\ WF_vars(Main)

-----------------------------------------------------------------------------
(* Properties *)

\* No scan goroutine is alive when its channel is closed or when the command
\* returns: no sender races the close, and no deferred cleanup of the browser is
\* skipped by os.Exit (main.go, runInteractivePage).
NoOrphanScan == (closed \/ exit # -1) => spc = "idle"

\* A view that was told of a result shows every analyzer settled: the bounded
\* channel drops no event while the view still listens (progress.go, "A
\* completed scan always shows a full bar").
FullBarIsTrue == shown = "result" => stages = [i \in 1..Stages |-> "settled"]

\* A scan that ran to its result under a live context, and whose view saw it,
\* is what the page is recorded as; a page is never recorded as a result
\* unless its scan returned one (interactivePageOutcome).
RecordedPagesAreScanned ==
    (pages # <<>> /\ mpc \in {"page", "report"} /\ broke = "no")
        => pages[Len(pages)] = scan.outcome /\ shown = scan.outcome

\* A view that has gone, however it went, never blocks the scan: its goroutine
\* is joined although nobody reads the channel (sendMsg, runInteractivePage).
VanishedViewNeverBlocks == (vpc = "ended") ~> (spc = "idle")

\* An application context that ends before a page's view has returned makes the
\* command return 1, whatever the view, the keys and the report do at the same
\* time (runInteractivePage, runInteractiveMultiScan).
InterruptExitsOne == (appDone /\ mpc \in {"page", "viewing"}) ~> (exit = 1)

\* What docs/architecture.md says of the view: "Its own Ctrl+C key action remains
\* a deliberate user cancel with exit code 0", asked here only of a key pressed
\* before the view had seen the scan's outcome.
KeyCancelExitsZero ==
    (exit # -1 /\ keyed = "early" /\ ~appDone /\ progErr = "nil" /\ report # "failed") => exit = 0

=============================================================================
