---------------------------- MODULE ScanPipeline ----------------------------
(***************************************************************************)
(* The classic command `hemera scan` (cmd/hemera/main.go), the list of     *)
(* pages it scans (internal/scanner/multipage.go) and the analyzer         *)
(* pipeline that scans one page (internal/scanner/scanner.go), with the    *)
(* application context canceled at any moment.                             *)
(*                                                                         *)
(* An analyzer is the environment: Observe returns any observation, valid  *)
(* or not, with or without signals, metadata and an error.  What a signal  *)
(* says, and how rules score it, is abstracted; a signal is the index of   *)
(* the analyzer that produced it.                                          *)
(***************************************************************************)
EXTENDS Integers, Sequences, FiniteSets, SequencesExt

CONSTANTS Policies,      \* the analyzers' failure policies, in order
          Kinds,         \* metadata kinds: http, tls, dns, network
          MaxPages       \* the ceiling on the pages of one command

ASSUME PipelineAssumption ==
    /\ Policies \in Seq({"abort", "continue"}) /\ Len(Policies) > 0
    /\ MaxPages \in Nat \ {0}

Nil == "nil"

Stages == Len(Policies)

Observations == [valid   : BOOLEAN,        \* passes validateObservation
                 signals : 0..1,           \* how many signals it carries
                 kinds   : SUBSET Kinds,   \* its metadata kinds
                 err     : {Nil, "local", "ErrInitialTarget"}]

ScanErrors == {"canceled", "invalid", "local", "ErrInitialTarget", "evaluate"}

VARIABLES canceled,      \* the application context is done
          targets,       \* pages asked for on the command line
          pc,            \* where the command is
          pages,         \* the pages' errors, in order; Nil for a result
          analyzers,     \* Result.Analyzers of the page at hand
          signals,       \* Result.Signals of the page at hand
          metadata,      \* metadataSources: the kinds seen so far
          obs,           \* what the last Observe returned
          events,        \* the lifecycle events emitted for the page at hand
          exit           \* the exit code, -1 before the command returns

page == <<analyzers, signals, metadata, obs, events>>
vars == <<canceled, targets, pc, pages, page, exit>>

Fresh == [valid |-> TRUE, signals |-> 0, kinds |-> {}, err |-> Nil]

TypeOK ==
    /\ canceled \in BOOLEAN
    /\ targets \in 1..MaxPages + 1
    /\ pc \in {"cli", "page", "entry", "next", "observe", "observed", "finished",
               "score", "classify", "render", "exited"}
    /\ pages \in Seq(ScanErrors \cup {Nil}) /\ Len(pages) <= MaxPages
    /\ analyzers \in Seq([signals : 0..1, kinds : SUBSET Kinds,
                          status : {"complete", "partial", "failed"}])
    /\ Len(analyzers) <= Stages
    /\ signals \in Seq(1..Stages)
    /\ metadata \subseteq Kinds
    /\ obs \in Observations
    /\ events \in Seq({"started", "finished"}) /\ Len(events) <= 2 * Stages
    /\ exit \in {-1, 0, 1, 2}

Init ==
    /\ canceled = FALSE
    /\ targets \in 1..MaxPages + 1
    /\ pc = "cli"
    /\ pages = <<>> /\ analyzers = <<>> /\ signals = <<>> /\ metadata = {}
    /\ obs = Fresh /\ events = <<>>
    /\ exit = -1

current == Len(analyzers) + 1     \* the analyzer at hand

Exits(code) == pc' = "exited" /\ exit' = code

-----------------------------------------------------------------------------
\* A signal ends the application context (signal.NotifyContext).
Cancel ==
    /\ ~canceled /\ pc # "exited"
    /\ canceled' = TRUE
    /\ UNCHANGED <<targets, pc, pages, page, exit>>

\* collectExtraPages: the ceiling, which counts the target itself, is enforced
\* before anything is scanned, so the same test at the top of ScanPages never
\* fires from this command.
tooMany == targets > MaxPages

TooManyPages ==
    /\ pc = "cli" /\ tooMany
    /\ Exits(2)
    /\ UNCHANGED <<canceled, targets, pages, page>>

\* One target runs Scan directly, several run ScanPages.
Begin ==
    /\ pc = "cli" /\ ~tooMany
    /\ pc' = IF targets = 1 THEN "entry" ELSE "page"
    /\ UNCHANGED <<canceled, targets, pages, page, exit>>

-----------------------------------------------------------------------------
(* ScanPages *)

\* A call of Scan begins, with locals of its own.
NextPage ==
    /\ pc = "page" /\ ~canceled /\ Len(pages) < targets
    /\ pc' = "entry"
    /\ analyzers' = <<>> /\ signals' = <<>> /\ metadata' = {}
    /\ obs' = Fresh /\ events' = <<>>
    /\ UNCHANGED <<canceled, targets, pages, exit>>

\* Cancellation is looked at before each page and not after the last one.
PagesEnd ==
    /\ pc = "page" /\ (canceled \/ Len(pages) = targets)
    /\ pc' = "classify"
    /\ UNCHANGED <<canceled, targets, pages, page, exit>>

\* Scan returns: its page is recorded whatever the error.
PageReturnsStopping(err) ==
    /\ pages' = Append(pages, err)
    /\ pc' = IF targets = 1 \/ err # Nil THEN "classify" ELSE "page"
PageReturns(err) ==
    /\ pages' = Append(pages, err)
    /\ pc' = IF targets = 1 THEN "classify" ELSE "page"

-----------------------------------------------------------------------------
(* Scan *)

ScanEntry ==
    /\ pc = "entry" /\ ~canceled
    /\ pc' = "next"
    /\ UNCHANGED <<canceled, targets, pages, page, exit>>

\* ctx.Err at each of the points where Scan looks at it.
ScanCanceled ==
    /\ pc \in {"entry", "next", "observed", "score"} /\ canceled
    /\ PageReturns("canceled")
    /\ UNCHANGED <<canceled, targets, page, exit>>

StartAnalyzer ==
    /\ pc = "next" /\ ~canceled /\ current <= Stages
    /\ events' = Append(events, "started")
    /\ pc' = "observe"
    /\ UNCHANGED <<canceled, targets, pages, analyzers, signals, metadata, obs, exit>>

\* ErrInitialTarget is the HTTP analyzer's, which comes first.
Observe(o) ==
    /\ pc = "observe"
    /\ o.err = "ErrInitialTarget" => current = 1
    /\ obs' = o
    /\ pc' = "observed"
    /\ UNCHANGED <<canceled, targets, pages, analyzers, signals, metadata, events, exit>>

acceptableUnchecked == obs.valid
acceptable == obs.valid /\ obs.kinds \cap metadata = {}

\* A contract violation is fatal whatever the analyzer's policy, and the
\* analyzer is never reported as finished.
RejectObservation ==
    /\ pc = "observed" /\ ~canceled /\ ~acceptable
    /\ PageReturns("invalid")
    /\ UNCHANGED <<canceled, targets, page, exit>>

\* The Finished event: every contract check has passed.
FinishAnalyzerSilent ==
    /\ pc = "observed" /\ ~canceled /\ acceptable
    /\ metadata' = metadata \cup obs.kinds
    /\ pc' = "finished"
    /\ UNCHANGED <<canceled, targets, pages, analyzers, signals, obs, events, exit>>
FinishAnalyzer ==
    /\ pc = "observed" /\ ~canceled /\ acceptable
    /\ metadata' = metadata \cup obs.kinds
    /\ events' = Append(events, "finished")
    /\ pc' = "finished"
    /\ UNCHANGED <<canceled, targets, pages, analyzers, signals, obs, exit>>

status ==
    CASE obs.err = Nil -> "complete"
      [] obs.err # Nil /\ (obs.signals > 0 \/ obs.kinds # {}) -> "partial"
      [] OTHER -> "failed"

aborts == obs.err # Nil /\ Policies[current] = "abort"

AbortScan ==
    /\ pc = "finished" /\ aborts
    /\ PageReturns(obs.err)
    /\ UNCHANGED <<canceled, targets, page, exit>>

RecordAnalyzer ==
    /\ pc = "finished" /\ ~aborts
    /\ analyzers' = Append(analyzers, [signals |-> obs.signals, kinds |-> obs.kinds,
                                       status |-> status])
    /\ signals' = signals \o [i \in 1..obs.signals |-> current]
    /\ pc' = "next"
    /\ UNCHANGED <<canceled, targets, pages, metadata, obs, events, exit>>

EvaluateRules ==
    /\ pc = "next" /\ ~canceled /\ current > Stages
    /\ pc' = "score"
    /\ UNCHANGED <<canceled, targets, pages, page, exit>>

\* Scoring or coverage reports an error: the page fails, canceled or not.
EvaluationFails ==
    /\ pc = "score"
    /\ PageReturns("evaluate")
    /\ UNCHANGED <<canceled, targets, page, exit>>

ScanReturns ==
    /\ pc = "score" /\ ~canceled
    /\ PageReturns(Nil)
    /\ UNCHANGED <<canceled, targets, page, exit>>

-----------------------------------------------------------------------------
(* runSinglePageScan and runMultiPageScan, after the engine has returned *)

AllFailed == \A i \in DOMAIN pages : pages[i] # Nil

\* The application context comes first, even when a result is at hand.
ClassifyCanceled ==
    /\ pc = "classify" /\ canceled
    /\ Exits(1)
    /\ UNCHANGED <<canceled, targets, pages, page>>

failureCodeAny == IF pages[1] = "ErrInitialTarget" THEN 2 ELSE 1
failureCode == IF targets = 1 /\ pages[1] = "ErrInitialTarget" THEN 2 ELSE 1

ClassifyFailed ==
    /\ pc = "classify" /\ ~canceled /\ AllFailed
    /\ Exits(failureCode)
    /\ UNCHANGED <<canceled, targets, pages, page>>

ClassifySuccessUnguarded ==
    /\ pc = "classify" /\ ~AllFailed
    /\ pc' = "render"
    /\ UNCHANGED <<canceled, targets, pages, page, exit>>
ClassifySuccess ==
    /\ pc = "classify" /\ ~canceled /\ ~AllFailed
    /\ pc' = "render"
    /\ UNCHANGED <<canceled, targets, pages, page, exit>>

\* writeScanReport
Render(ok) ==
    /\ pc = "render"
    /\ Exits(IF ok THEN 0 ELSE 1)
    /\ UNCHANGED <<canceled, targets, pages, page>>

-----------------------------------------------------------------------------
Command ==
    \/ TooManyPages \/ Begin \/ NextPage \/ PagesEnd
    \/ ClassifyCanceled \/ ClassifyFailed \/ ClassifySuccess
    \/ \E ok \in BOOLEAN : Render(ok)

Scan ==
    \/ ScanEntry \/ ScanCanceled \/ StartAnalyzer
    \/ \E o \in Observations : Observe(o)
    \/ RejectObservation \/ FinishAnalyzer \/ AbortScan \/ RecordAnalyzer
    \/ EvaluateRules \/ EvaluationFails \/ ScanReturns

Next == Cancel \/ Command \/ Scan

Spec == Init /\ [][Next]_vars

\* The command runs on one goroutine.  That Observe returns once the context
\* is done is what BrowserSession's CancelReturns says of the browser.
FairSpec == Spec /\ WF_vars(Command \/ Scan)

-----------------------------------------------------------------------------
(* Properties *)

Returned == pc \in {"page", "classify", "render", "exited"} /\ pages # <<>>

\* A page that has a result went through every analyzer in order: no analyzer
\* whose policy is abort failed on the way, no metadata kind came from two of
\* them, and the aggregate signals are theirs, in their order (Scan).  An
\* observation has at most one signal here.
ResultComplete ==
    (Returned /\ Last(pages) = Nil) =>
        /\ Len(analyzers) = Stages
        /\ \A i \in 1..Stages : Policies[i] = "abort" => analyzers[i].status = "complete"
        /\ \A i, j \in 1..Stages : i # j => analyzers[i].kinds \cap analyzers[j].kinds = {}
        /\ \A i \in 1..Stages : analyzers[i].signals = 1 <=> i \in Range(signals)
        /\ \A k, l \in DOMAIN signals : k < l => signals[k] < signals[l]

\* A page that fails never blocks the pages after it: short of cancellation the
\* command classifies only when every page it was asked for has an outcome
\* (ScanPages).
PagesIndependent ==
    (pc \in {"classify", "render"} /\ ~canceled) => Len(pages) = targets

\* The exit code agrees with the pages: 0 needs a page with a result and every
\* page tried, 2 is a usage error or a single target that is no target
\* (main.go runSinglePageScan, runMultiPageScan).
ExitCodesAgree ==
    /\ exit = 0 => Len(pages) = targets /\ ~AllFailed
    /\ exit = 2 => pages = <<>> \/ pages = <<"ErrInitialTarget">>

\* Cancellation is fatal and prompt: a command canceled before it classifies
\* its outcome returns, and returns 1, even if a result was already at hand
\* (main.go, "Never render a concurrent success").
CancellationIsFatal ==
    (canceled /\ pc \notin {"cli", "render", "exited"}) ~> (exit = 1)

\* What ScanContract sees of the pipeline.
contractScan ==
    [settled |-> Cardinality({i \in DOMAIN events : events[i] = "finished"}),
     running |-> events # <<>> /\ Last(events) = "started",
     outcome |-> IF ~Returned THEN "none"
                 ELSE CASE Last(pages) = Nil -> "result"
                        [] Last(pages) = "canceled" -> "canceled"
                        [] OTHER -> "failed"]
Contract == INSTANCE ScanContract WITH scan <- contractScan

\* The pipeline implements the contract other code relies on: an abort is
\* preceded by the analyzer's Finished, a contract violation is not, and only
\* a scan that settled every analyzer returns a result.
ImplementsContract == Contract!Contract

=============================================================================
