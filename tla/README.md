# Verification of hemera

hemera scans web pages for anti-bot and protection products. It observes a page
through analyzers (HTTP, DNS/TLS, a headless Chromium), scores rules against the
signals they return and reports, for every rule, *detected*, *not_detected* or
*insufficient_coverage*. The hard part is not the scoring but the boundary
around the browser: a page under observation is hostile, its traffic passes a
budget and a loopback proxy, and everything must end and be cleaned up whatever
Chromium does.

This directory holds TLA+ models of that program, the TLC configurations that
check them, and proofs checked with TLAPS. `PROJECT.json` is the index: the
components, the runs, the source lines of every definition, one or more mutated
definitions per property, the hazards and the theorems.

    tlc -workers 2 -config MCNavigation.cfg MCNavigation     # a run
    tlapm NavigationProofs.tla                               # a component's proofs

1. [Inventory](#1-inventory) · 2. [Modules](#2-modules-and-the-code) ·
3. [Runs](#3-runs) · 4. [Fairness](#4-fairness) · 5. [Proofs](#5-proofs) ·
6. [Disagreements](#6-where-the-code-and-its-documents-disagree) ·
7. [Limits](#7-what-is-not-modelled) · 8. [Plan](#8-plan)

## 1. Inventory

Paths are below `src/`. For each component: the state it keeps, what it does,
what is hard about it, and what makes it correct.

### Browser (`internal/browser`)

**Navigation boundary** (`chromedp.go` `navigateChromedp`,
`browserRequestTracker`). State: the command queue `pausedCommands`, the channel
`blockedTargets`, the tracker's semaphore and `active` map, the activity
channel. Operations: a listener that pauses, admits, rejects and releases
requests; a worker that continues them and closes foreign targets; a context
watcher; the quiet wait; teardown. Hard: four goroutines; release is a critical
section followed by a channel receive; teardown meets an event inside the
listener and a CDP call inside the worker. Correct when tokens and active
requests agree, nothing blocks for ever, the limits hold, and the first policy
error is what the caller sees.

**Navigation budget** (`proxy.go` `navigationBudget`). State: counters of
requests, redirects and bytes, the two errors, `stopped`. Shared by the
navigation and by every proxy handler. Correct when no order of charges exceeds
a limit and a policy error outlives every later failure.

**Loopback proxy** (`proxy.go` `safeProxy`). State: the active budget, `closing`,
the handlers' wait group. Operations: `begin`, `end`, `Close`, and a handler per
connection (`forwardHTTP`, `connect` with two copiers). Hard: a handler keeps the
budget it read, and may outlive the navigation and meet `Close`; `end` and `Close`
unlock `p.mu` between removing a budget and stopping it. Correct when a handler's
budget is the active one, stopped or about to be by whoever removed it, `Close` and
`end` leave no work behind that is theirs to end, and a closed proxy is quiet.

**Session lifecycle** (`browser.go`, the process side of `chromedp.go`). State:
the lifetime context, the profile, the proxy, Chromium, `captureMu` and the
recorder, several `sync.Once`. Operations: `Client.Start` (which gives up on a
late backend but must reap it), `BeginCapture`, `Navigate`, `Finish`, `Close`,
cleanup. Hard: Chromium may die at any point; four parties race for one once;
every timer may fire first. Correct when a clean return means everything is
reclaimed, nothing outlives the browser and nothing is left behind.

**Capture** (`capture.go`, `recordNetworkEvent`, `finish`,
`captureBoundedDOMWithOps`). State: bounded lists of requests, responses and
transactions, the pending correlation of each CDP id, truncation flags; the
serializer of the DOM has its own ceilings of work, text and resources. Hard: CDP
reuses a request id for each hop of a redirect; ceilings drop what follows; the
main frame may commit another document while the DOM is read. Correct when a
response belongs to the request it is filed under, a channel called complete has
lost nothing, and the DOM belongs to one document.

**Forms** (`forms.go`). State: the log of submissions that `Finish` copies.
Operations: inspect the forms of the settled page, pick the first eligible one,
fill and click it, all inside a navigation. Hard: inspection and submission are two
evaluations of a page that may commit another document in between, and the click
itself destroys the context that reports it. Correct when a form is submitted at
most once and a submission is on record.

**Analyzer and metadata** (`analyzer.go`, `metadata.go`): the client of a
session, and the coverage it declares for a capture.

### Scanning (`internal/scanner`, `internal/rules`, `internal/scoring`, `cmd/hemera`)

**Scan pipeline** (`scanner.go`, `multipage.go`, `cmd/hemera/main.go`). State:
analyzer results, signals, metadata kinds, progress events, the pages' outcomes,
the exit code. Operations: one scan of the analyzers in order, a list of pages,
the classification of what came out. Hard: cancellation between any two steps,
failures that abort and failures that do not, the mapping to exit codes.
Correct when a result is complete, pages do not disturb one another, and the exit
code tells the truth.

**Interactive scan** (`main.go` `runInteractive*`, `internal/tui/progress.go`).
State: the scan goroutine, a bounded message channel, the view's bar, the
outcome. Hard: the reader of a bounded channel may vanish, Ctrl+C races the final
message, cancellation ends all parties at once. Correct when no scan is left
running, nothing sends on a closed channel or blocks for ever, and what is shown
and reported happened.

**Rules, scoring and detection coverage** (`match.go`, `condition_coverage.go`,
`scoring.go`, `buildDetectionCoverage`). Sequential; the difficulty is logical: a
negative may only be called conclusive when nothing an incomplete channel could
still show would change it.

**HTTP analyzer** (`internal/httpanalyzer`). State: one result that every hop adds
to, the transport's idle connections. Operations: validate the target, dial,
follow redirects, read and decode the body, collect the resources of its HTML.
Hard: the resolver's answer changes between validation and dial; the result is
filled hop by hop while its TLS part must be that of the last; three ceilings
(body, decoded HTML, resources) decide which channels are complete. Correct when
only clean answers are dialed, a channel called complete has lost nothing, and the
hops recorded are the requests sent.

**DNS and TLS** (`internal/dnstls`): turns the TLS metadata of the HTTP analyzer
into signals and looks up one CNAME; either may fail alone. **Network guard**
(`internal/networkguard`): stateless; resolves and checks a name whenever asked.

Without state of their own: the wizard, the models of observations and signals,
built-in detectors, reports, safe output, the build version, and the generator of
the address registry.

### How they interact

    command ── ScanPages ── Scan ──┬─ HTTP analyzer ── network guard
       │                           ├─ DNS/TLS analyzer
       │ msgs (bounded)            └─ browser analyzer
    progress view                        │ Start, BeginCapture, Navigate, Finish, Close
                                   session ── cleanup (profile, proxy, Chromium)
                                         │
                                   navigation ── budget ── proxy ── network guard
                                         │ CDP events
                                   capture

The budget is shared state between a navigation and the proxy's handlers; the
session's contexts end all of them; the command and the view share a channel.

## 2. Modules and the code

| Module | Code | State and actions |
| --- | --- | --- |
| `NavigationBudget` | `proxy.go` `navigationBudget` | No variables: the budget is a record and every method an operator on it. Used by the next two. |
| `Navigation` | `chromedp.go` `navigateChromedp` | `budget`, contexts, tracker (`sem`, `active`), queues, and a program counter per goroutine (`mpc`, `wpc`, `lpc`, `watcher`). A step is a critical section, a channel operation or an external call returning: `acquire` is `AcquireCheck`, `AcquireSelect`, `AcquirePush`, `AcquireInsert`. |
| `SafeProxy` | `proxy.go` `safeProxy` | A budget per navigation, `active`, `closing`, a position and the budget held per handler, two copiers per tunnel and their result channel. `end` and `Close` are two steps each around the unlock, `shouldRecordInfraError` and `failInfrastructure` two more; a copied chunk is charged, then written to the client. |
| `BrowserSession` | `browser.go`, `chromedp.go` | The startup goroutine, the reaper, cleanup, the recorder and its watchers, around a client that does what `Analyzer.capture` does. |
| `FormPhase` | `forms.go` | The page's document, the form picked, the log; used by `BrowserSession`, whose `Navigate` is followed by inspection, submission and settling. |
| `Capture` | `capture.go`, `chromedp.go`, `analyzer.go` | The browser sends chains of hops; the collector files them; the finish sequence reads the DOM. |
| `BoundedDOM` | `chromedp.go` `boundedDOMSerializer`, `capture.go` cleaning | No variables: a page is the sequence of items the walk visits, the units of text they write and the cookies; operators say what is kept of it and which truncation flags are set. Used by `Capture`. |
| `ScanContract` | `scanner.go` | What one `Scan` promises: paired events in order, then one outcome. Abstract. |
| `ScanPipeline` | `scanner.go`, `multipage.go`, `main.go` | The classic command, page by page and analyzer by analyzer; implements `ScanContract`. |
| `InteractiveScan` | `main.go`, `progress.go` | Extends `ScanContract` with the channel, the view and the command. |
| `Coverage` | `rules`, `scoring`, `scanner.go` | Operators for matching, scoring and three-valued coverage, applied after any observation of any page. A condition is the sequence of its nodes in document order, a node the set of its children's positions; the walks over trees and over prerequisites are recursive functions. |
| `NetworkGuard` | `networkguard.go`, `policy.go` | No variables: what a resolver may answer and what `resolve` makes of it. |
| `HTTPAnalyzer` | `httpanalyzer/analyzer.go`, `networkguard.go` | `Analyze` as a program counter from `start` to `done`; the dial under way with its remaining addresses; the connection in use and the idle ones; the body and what is kept of it; the result. |
| `DNSTLS` | `dnstls/analyzer.go` | Extends `HTTPAnalyzer` with `Observe`, which starts when that analyzer is done without an error. |
| `NavigationProofs`, `SafeProxyProofs`, `BrowserSessionProofs`, `CaptureProofs`, `DNSTLSProofs`, `ScanPipelineProofs`, `InteractiveScanProofs`, `CoverageProofs` | | Lemmas, an inductive invariant and theorems about the module named, for every value of its constants (section 5). |

`MC*` modules give the constants and symmetry sets; `MC*.cfg` are the runs.
Operators whose comment begins with *Mutant* or *Mutated form* are the mutated
definitions: no specification uses them.

Choices a reader should know:

* *Cancellation* is a context that ends; whoever waits on it has a step that
  takes it. `Navigation` tells `navigationCtx`, `cancelRun`, `taskCtx` and
  `listenerCtx` apart, since their order decides the error.
* *External calls* (CDP, RoundTrip, dialing, the analyzers in `ScanPipeline`) end
  in any way their callers tell apart, or never, until their context ends.
* *Data* is reduced to what the code branches on. A URL in `Capture` is the class
  `classifyURL` puts it in: kept, cleaned away or oversized; bytes are units; a
  signal in `Coverage` is a source, a type and a key. A form is its eligibility and
  what its action URL is (of the page's origin, another's, credentials, too long);
  a body in `HTTPAnalyzer` is a sequence of texts and tags whose units grow when
  decoded; an address is allowed or not.
* *`world`* in `Coverage` is a ghost: the signals complete channels would see. It
  appears in no step of the code's; the guard `Vouches` says what an analyzer's
  claim of completeness means.

## 3. Runs

Every property has a mutant in `PROJECT.json`: a plausible bug in a mapped
definition under which TLC finds that property violated by the same run.

**nav** (2.1 million states). Two interchangeable requests, one slot, two
requests and one redirect allowed, one unit of data, one blocked target, three
events. *SlotsBalanced*: tokens are active ids plus pushes and pops in flight.
*ReleaseNeverBlocks*: who is about to take a token finds one, `releaseAll`
included. *ConcurrencyCeiling*, *BudgetCeilings*, *QueueNeverOverflows* and
*PolicyErrorKept*. Deadlock is checked: only a returned navigation may rest. With
one slot two requests already compete for it, both orders of acquire, late finish
and teardown occur, and three events reach each limit; the theorems below say the
same without bounds.

**nav_live**. One request, the form phase on: *NavigationEnds*, a navigation
returns and leaves no goroutine behind, whatever the browser leaves unanswered.

**proxy** (498,000 states). Two navigations in sequence, one tunnel and one
forwarded request, three bytes. *ClosedMeansQuiet* relates the handlers to `Close`.
*OnlyActiveBudgetsOpen*: the budget of a handler is the installed one, stopped, or
in the window of `end` (`proxy.go:103`) or of `Close` (`proxy.go:121`) between
unlock and stop, in which another `begin` may already install its own; without
either half of this exemption (`BeingStopped`) TLC finds it violated.
*TunnelPolicyDominates*: a policy error met by a tunnel's handler or by either of
its copies is what `failure` returns, except one in the channel that `connect` does
not read (section 6); each of the three cases of the exception is needed.
*CloseTerminates*: `Close` returns although an upstream stays silent and a client
reads nothing. *EndStopsHandlers*: the end of a navigation ends its handlers and
copies, except a handler in a write to its client, which a stopped budget does not
reach; without that exemption it is violated. Two navigations are the least for
which a handler of the first can meet the second. **proxy_http**: section 6.

**session** (76,000 states). The caller cancels, Chromium dies and every timer
fires at any step; five documents (an eligible form behind a login, one alone, one
whose URL is too long, none, more than are inspected) of which the page commits
another whenever it likes during the form phase; the code's ceiling of one
submission. Without forms the model has no bound. *CleanReturnMeansReclaimed*: a nil error of `Close` means
profile and proxy are gone. *NoRecorderOutlivesBrowser*, *ResultIsFinished* (a
result was produced by the finish that completed, not by a closed recorder),
*SubmissionsAccounted* (at most one click, and a client without an error finds a
record of it), *CancelReturns* (a canceled client gets out of every call) and
*NothingLeftBehind* (a startup nobody waits for is reaped).

**capture** (1.42 million states). Two ids reused over at most three hops,
ceilings of two items, three documents; eight pages below, at and beyond the
ceilings of the walk (four items), the text (three units), the resources of a kind
and the cookies (two), with repeated, unsafe and oversized ones among them. *CorrelationSound*: a transaction holds
the response of its own hop. *CompleteChannelsLoseNothing*: a channel declared
complete holds all there was: the hops, and the text, scripts, iframes and cookies of the
page. *StableDOM*: the content returned is that of one
document. Ceilings of two with three hops are exceeded, reached exactly and not
reached; three documents exhaust the retry. **capture_oversized**: section 6.

**http** (1.06 million states). Four targets over two names and two addresses, one
of them private; four answers of the resolver (none, one address, two, one clean
and one private), drawn anew for every validation and dial; one redirect; three
kinds of certificates; a body ceiling of three units with bodies of up to four
whose units may double when decoded, a ceiling of two resources with up to three
distinct tags. *CleanAnswersOnly*: the dialer is only given addresses of an answer
all of which is allowed, whatever was answered at validation.
*CompleteChannelsLoseNothing*: a channel declared complete has all the document
held. *TLSOfFinalConnection*: TLS evidence belongs to the connection of the final
response and survives a failed lookup. *HopsAccounted*: responses and redirects
are the requests sent, within the budget, and a refused initial target is only
reported with nothing sent. Every ceiling is missed, met and passed; one redirect
has a hop before and after it, and a second one that is refused.

**scan** (264,000 states). Up to two pages plus the refused third, the analyzers
the command configures (one that aborts, two that continue), two metadata kinds,
any observation, cancellation anywhere. *ResultComplete*, *PagesIndependent*,
*ExitCodesAgree*, *CancellationIsFatal*, and *ImplementsContract*: under a
refinement mapping every behaviour is one of `ScanContract`.

**interactive** (149,000 states). Two analyzers, up to two pages, a channel of one
place, which fills at once where the code's 32 places need a longer scan.
*NoOrphanScan*: the command never goes on, closes the channel or exits with the scan still
running. *FullBarIsTrue*: a full bar means every analyzer settled.
*RecordedPagesAreScanned*, *VanishedViewNeverBlocks* (a scan whose view is gone
still ends) and *InterruptExitsOne* (a canceled application exits 1).
**interactive_cancel**: section 6.

**coverage** (336,000 states). Six rule sets at their thresholds: sums, groups, a
group with the name of another predicate, nesting, penalties that leave the range at
both ends, a prerequisite with a conflict; `CoverageAssumption` requires of each
what the schema's `Validate` requires. Every page of five signals, and every way two
analyzers may observe it: declaring each channel complete or not, or none, and
succeeding, partly or not. *NotDetectedIsConclusive*: a rule reported
`not_detected` is not detected by an analysis that misses nothing either.
*InsufficientIsJustified*: a rule reported `insufficient_coverage` names sources it
depends on, and signals of these sources alone would have satisfied it, conflicts
aside. `MCAttainable` evaluates the hypothesis of the second theorem below: five of
the six rule sets satisfy it.

`CHECK_DEADLOCK FALSE` is set where the program ends and nothing is left to do: a
command exits, a proxy is closed, a session is reclaimed, an evaluation is done,
or a page has sent all the events of its bound.

## 4. Fairness

Weak fairness says that a goroutine that can take a step takes it, a timer fires,
and a call whose context is done returns. Nothing else is assumed: no fairness
for the page, the browser's answers, the upstream, the user or the caller.

* `Navigation`: the listener, worker, teardown and watcher run; the navigation
  has a deadline (`context.WithTimeout`), so its context ends; CDP calls and a
  stage of the navigation return once their context is done (chromedp's calls
  select on it); the quiet wait's hard timer fires. The worker's success is not
  fair: only `CommandCanceled`, a call returning because its context ended.
* `SafeProxy`: handlers and a begun `Close` go on, a navigation that began ends
  (what `Navigation` shows). A stopped budget ends the dial, the round trip and the
  reading of a response (`linkedDoneContext` cancels the upstream's context) and the
  wait of `connect`, but not a write to the client: only the client, which owes
  nothing, or `server.Close` ends that. When the handler of a tunnel has returned,
  its deferred `Close` calls end the copies.
* `BrowserSession`: goroutines run, timers fire, cleanup ends (removing a
  directory and closing a listener return).
* `ScanPipeline`: the command runs. That an analyzer returns after its context ended is
  what *CancelReturns* says of the browser.
* `InteractiveScan`: a scan whose context has ended unwinds, and the view handles
  its messages, its quit message and its context. A scan need not end on its own.
* `Coverage`, `Capture` and `DNSTLS` have no liveness properties. That an HTTP
  navigation ends is what `http.Client` promises of a context with a timeout;
  the model would only repeat it.

## 5. Proofs

A theorem holds for every value of the constants that satisfies the named
assumptions; TLC evaluates these in every run. Each module of proofs has an
inductive invariant `IInv`, a lemma for the initial states, lemmas for the steps
and one theorem per property. TLC checked every part of each `IInv` on the
instance of the component's run before it was proved.

| Theorem | Property | Says |
| --- | --- | --- |
| **`NavigationProofs`** | | |
| `TypeCorrect` | `TypeOK` | the state keeps its type |
| `SlotAccounting` | `SlotsBalanced` | tokens = active ids + pushes and pops in flight |
| `NonBlockingRelease` | `ReleaseNeverBlocks` | no release waits for a token |
| `ActiveRequestsBounded` | `ConcurrencyCeiling` | never more than `MaxConcurrentRequests` active |
| `BudgetBounded` | `BudgetCeilings` | no counter exceeds its limit |
| `QueueNeverFull` | `QueueNeverOverflows` | the queue has room for every continue command |
| `PolicyErrorDominates` | `PolicyErrorKept` | no step replaces a policy error |
| **`SafeProxyProofs`** | | |
| `ProxyTypes` | `TypeOK` | the state keeps its type |
| `ProxyCeilings` | `BudgetCeilings` | no concurrency of handlers and copies passes a limit |
| `ProxyCloseQuiet` | `ClosedMeansQuiet` | once `Close` returned no handler runs or starts |
| `ProxyInactive` | `OnlyActiveBudgetsOpen` | a handler's budget is installed, stopped, or about to be by who removed it |
| `ProxyPolicyDominates` | `TunnelPolicyDominates` | a tunnel's policy error is the outcome, unless `connect` leaves it unread |
| **`BrowserSessionProofs`** | | |
| `CleanReturn` | `CleanReturnMeansReclaimed` | a nil error of `Close`: profile and proxy are gone |
| `NoRecorderLeft` | `NoRecorderOutlivesBrowser` | a dead browser leaves no recorder open |
| `ResultsAreFinished` | `ResultIsFinished` | a snapshot is that of the `Finish` that won |
| `Submissions` | `SubmissionsAccounted` | one form at most, and it is on record |
| `SessionTypes` | `TypeOK` | the state keeps its type, what is logged is a form |
| **`CaptureProofs`** | | |
| `CorrelationIsSound` | `CorrelationSound` | a response patches the transaction of its hop |
| `CompleteChannels` | `CompleteChannelsLoseNothing` | a complete channel has every hop seen, and all of the page |
| `StableContent` | `StableDOM` | complete content is of one document |
| `CollectorIsBounded` | `TypeOK` | the collector stays within its ceilings and keeps hops seen only |
| **`DNSTLSProofs`** | | |
| `OnlyCleanAnswersDialed` | `CleanAnswersOnly` | only clean answers reach the dialer |
| `RedirectsAccounted` | `HopsAccounted` | what is recorded are the requests sent |
| `SnapshotOfFinalConnection` | `TLSOfFinalConnection` | TLS evidence is of the final connection |
| `CompleteChannelsAreComplete` | `CompleteChannelsLoseNothing` | a complete channel has all the document held |
| `HTTPTypeCorrect` | `TypeOK` | the state keeps its type, idle connections are dialed ones |
| **`ScanPipelineProofs`** | | |
| `ResultsAreComplete` | `ResultComplete` | a result went through every analyzer, in order |
| `PagesAreIndependent` | `PagesIndependent` | short of cancellation every page has an outcome |
| `ExitCodes` | `ExitCodesAgree` | the exit code agrees with the pages |
| `PipelineImplementsContract` | `ImplementsContract` | the pipeline implements `ScanContract` |
| `PipelineTypes` | `TypeOK` | the state keeps its type |
| **`InteractiveScanProofs`** | | |
| `InteractiveTypes` | `TypeOK` | the state keeps its type |
| `NoScanIsOrphaned` | `NoOrphanScan` | the command never leaves its scan behind |
| `FullBar` | `FullBarIsTrue` | a full bar means every analyzer settled |
| `RecordedPages` | `RecordedPagesAreScanned` | a recorded result is that of a scan |
| **`CoverageProofs`** | | |
| `CoverageTypeOK` | `TypeOK` | scores stay within 0 and 100, each rule has one status |
| `NotDetectedConclusive` | `NotDetectedIsConclusive` | a negative status stands against all there was to see |
| `InsufficientJustified` | `InsufficientIsJustified` | the sources blamed could have made the difference |
| `BlameRequired` | | the sources blamed are among the required ones |

**Navigation** (`BudgetAssumption`: limits are naturals, as the configuration
validates them; `NavigationAssumption`: finitely many ids, distinct from the empty
one, and a slot). Lemmas state what each method of the budget preserves: its type,
the ceilings, the first policy error. The invariant is

    IInv == TypeOK /\ BudgetCeilings /\ ListenerInv /\ QueueInv /\ SlotsBalanced

`SlotsBalanced` alone is not inductive. Between taking a token and entering the
id in the map the listener owns a token without an entry, so the equation counts
it by the listener's position, and the insertion adds one to the map only if the
id is not there: `ListenerInv` says the id in the listener's hands is absent
between the check and the insertion, since nobody else inserts. `QueueInv` carries
the queue's argument: a command is queued for a request that was counted first,
so until a policy error the queue is no longer than the counter, and shorter
while the listener holds a counted request it has not queued; the counter is
within its limit and the capacity is one more. After a policy error no request is
admitted any more, only rejections are queued, and these are dropped when the
queue is full. Non-blocking release follows from `SlotsBalanced`
(an entry or a pop in flight implies a token), the ceiling from it and the range
of `sem`.

**Proxy** (`ProxyAssumption`, `BudgetAssumption`). Every method of the budget lets
it only evolve: counters within the limits, no policy error replaced, `done` never
taken back (`SoundBudgets`). `Installed`: the budget the proxy holds is that of a
navigation under way, a handler's that of one that is or was, and one that was
removed is stopped or in the window of `end` or `Close`. `Holds`: a handler beyond
its start, or a copy, has a budget. `Kept`: a policy error that a tunnel met is
recorded in its budget or still in its channel. What remains is when `connect` may
leave it there. `Counted`: an open tunnel has two copies and results, a handler that
read one leaves one, and a handler that returned with both has found its budget
stopped. `StopsExplained`: a budget that is held is stopped only by a policy error,
by `end` or by `Close`. Without a policy error recorded, an unread one is thus
waiting to be read, behind the result that was, or the navigation was over.
`CloseOrdered`: the flag is set first and the handlers are joined last.

**Session** (`FormAssumption`: at least one submission is allowed). One part per
party. `StartupSound`: nothing is cleaned up or answered before profile and proxy
are made, so the cleanup never runs ahead of what it removes. `CleanupSound`: what
each stage of the cleanup has done, and that a clean return saw its end.
`RecorderSound`: `captureMu` covers the installation of the recorder, therefore
the watcher of a dead browser finds it or comes first; the recorder is active
exactly until its `once` is through; a snapshot comes from the client's
own entry. `FormsSound`: the click comes once, and whatever stops its answer
leaves a record or an error. The types (`PositionTypes`, `FlagTypes`, `FormTypes`)
are inductive without it.

**Capture** (`CaptureAssumption`, `PagesAssumption`). The operations of the collector are lemmas about
any collector: evidence is only added and truncation never taken back (`Keeps`), an
accepted request and any response but a rejected one is kept or truncates its
channel, and each operation preserves `Correlated`, the correlation relative to
the number of hops of each id. `CollectorSound` says `Correlated` of the state,
with nothing open for an id not yet sent, for which a stale transaction would pass
as the new request's. `EvidenceSound` is completeness at every moment, not only at
the end. `DocumentsSound`: the main frame only moves on, so it was the same
document all the time between two looks that agree. The channels of the page need no
induction: `FirstIsAll` (a ceiling that is not exceeded cuts nothing off, by the
cardinality of proper subsets) and `WalkIsWhole` give one lemma per channel.
Types come second: `HopsSound` says that every hop had its event, so that the bound
on hops is one on the events seen, and that the collector `Fits`: it is below its
ceilings and names hops of those events only.

**HTTP, DNS/TLS** (`GuardAssumption`, `HTTPAssumption`, and `DNSTLSAssumption`: a
certificate is cut below the ceiling on DNS names, as the two constants in the code
are). `HTTPInv` has one part for the dial (the addresses pending and tried are of one
answer, and that one was not refused), one for the hops (between two requests all
that were sent are recorded, during one all but the last), one for the TLS metadata
(the connection in use serves the URL, and the result has its metadata) and one for
the channels (what is not flagged is all there, from the body over its text to the
resources); `DNSInv` adds that the second analyzer starts after a success only and
that its snapshot is the HTTP result's. `HTTPRest` and `DNSRest` complete the types: a
connection that comes from the pool was dialed.

**Pipeline** (`PipelineAssumption`: at least one analyzer and one page). Each part
ties one record of the scan to the position of the program: the pages with an
outcome, the pairs of events, what a finished analyzer leaves behind (no metadata
of another), the order of the signals. With it the refinement: the
contract's state is computed from the events and the outcome; the initial state
maps to its initial state, and every step to a step of `ScanContract` or to a
stutter.

**Interactive command** (`InteractiveAssumption`: a channel with room for a
message; `StagesAssumption`). `Phases`: the command starts its scan before its view
and joins it after, so outside of this bracket none runs. `ScanSound`,
`OutboxSound`, `ViewSound` type each party against its position. `FinalLast`:
nothing follows the final message where messages are, in the scan's hands, in the
channel or in the reader's. `Arrivals` carries the full bar: unless the scan is
doomed, the settled message of every analyzer that ended is on the screen or on
its way with no older message of the analyzer behind it; when the final message
arrives nothing is on its way any more.

**Rules and coverage** (`CoverageAssumption`: the rule sets are those the schema
accepts, signals those of the registry). The invariant is short: `CoverageInv` says
that the detections and the coverage are those of the signals seen, and `Sound`
that a channel an analyzer calls complete has shown all it would show. The rest is
about the operators, for every rule set, condition tree and set of signals:

* *Recursion.* The walks are recursive functions over nodes or rules that form no
  cycle. `FiniteRecursion` shows that such a function exists and satisfies its
  equation: of the sets of elements that a partial solution leaves out, a smallest
  one is empty. Later lemmas take a counterexample none of whose children or
  prerequisites is one (`MinimalNode`, `MinimalRule`). This replaces the library's
  induction theorems, whose operator parameter the provers cannot instantiate.
* *Sums.* `SumIsSize` turns a sum of naturals into the size of a set of units, so
  that injections compare sums: more evidence scores no less (`PositiveMonotone`),
  the upper bound is no less than any score it bounds, whatever the names of groups
  (`BoundIsAbove`), and is reached where no group has the name of an ungrouped
  predicate (`BoundIsReached`).
* *Soundness of a negative status.* `CoverageIsSound`: a condition that matches all
  there is to see is satisfiable for coverage, and its evidence is among the
  potential evidence. Penalties and conflicts only grow with more signals
  (`CandidatesMonotone`, `ConflictsStay`), so a rule that would qualify has an
  unknown own coverage (`OwnIsSound`); the prerequisites follow by minimality.
* *Justification of an inconclusive status.* `CoverageIsAttained`: a satisfiable
  condition matches once what it waits for is seen, with all its potential
  evidence. `OwnIsAttained` and `InsufficientIsSound` conclude that the rule and its
  prerequisites are then detected, conflicts aside.

`InsufficientJustified` has the hypothesis `Attainable(ruleSet)`, which the schema
leaves to the rules' authors: each capable source has a signal for the predicate, no
penalty looks at what a predicate looks for (the signal that helps would also
hurt), and no group has the name of an ungrouped predicate (section 6). The other
theorems have none; `BlameRequired` is its first half without it.

Only model-checked: everything temporal (`NavigationEnds`, `CloseTerminates`,
`EndStopsHandlers`, `CancelReturns`, `NothingLeftBehind`,
`VanishedViewNeverBlocks`, `InterruptExitsOne`, `CancellationIsFatal`), since
liveness and `ENABLED` are out of the prover's reach. Every invariant and every
action property of a run is a theorem.

## 6. Where the code and its documents disagree

Three runs expect a violation; each checks a sentence of the repository.

* **proxy_http**. `forwardHTTP` records every RoundTrip error as infrastructure
  (`proxy.go:217`), also a policy error of the guard in the transport's dialer or of
  the metered body; `connect` asks `isPolicyError` first. `docs/architecture.md:236`
  says policy violations dominate.
* **interactive_cancel**. When the final message is handled between Ctrl+C and the
  quit message, `RunProgress` (`progress.go:331`) no longer reports the
  cancellation: the command may exit 1 or 2, or go on to the next page.
  `docs/architecture.md:590` says exit code 0.
* **capture_oversized**. `beginRequest` drops an oversized URL without marking the
  requests truncated (`capture.go:270`), so the channel is declared complete;
  `capture.go:132` says the flag reports it.

Met while modelling, without a run of their own:

* `acquire` returns `ErrConcurrencyLimit` whenever the budget is done
  (`chromedp.go:594`), and the listener records it as the policy error. A deadline
  that stops the budget while a request is being paused is reported as a
  concurrency violation with a slot free; `browser.go:57` says the error means
  that a page exceeded its budget of active requests. `Navigation` has the
  behaviour: `budget.policyErr = "ErrConcurrencyLimit" => budget.requests >
  MaxConcurrentRequests` is not an invariant of it.
* `connect` reads one of the two results of its copies (`proxy.go:295`). When the
  other copy's transport error, or the end of its stream, comes first, a policy error
  of the second copy stays in the channel: the outcome of a navigation that still
  goes on is an infrastructure error or none, although `docs/architecture.md:236`
  says policy violations dominate. *TunnelPolicyDominates* without its case
  `copiers[h] + Len(results[h]) = 1` is violated; the next charge of the same budget
  meets the limit again unless it is smaller.
* A budget that is stopped does not end a `forwardHTTP` that is writing to its client
  (`proxy.go:492`), while `docs/architecture.md:231` says that a limit failure closes
  active proxy work. The client is Chromium on the loopback interface;
  *EndStopsHandlers* and the window of *OnlyActiveBudgetsOpen* say what is left.
* The form that is clicked need not be the one on record: `submitBoundedForm`
  inspects in one evaluation and clicks `document.forms[index]` in another
  (`forms.go:218`, `246`). When the page commits another document in between, a
  form that was never found eligible may be submitted under the descriptor of the
  first, and a context destroyed before the click is recorded as a submission
  (`forms.go:247`). In **session**, `snapForms # <<>> => snapForms = submitted` is
  violated; `docs/detector-rules.md:314` speaks of eligible forms only.
* `navigateChromedp` passes its target URL to `submitBoundedForm`, whose parameter
  is `finalURL` (`chromedp.go:482`, `forms.go:215`): after a redirect to another
  origin, "same origin" is that of the URL asked for.
* `httpanalyzer` cuts a certificate's DNS names at 256 and drops unsafe texts with
  a warning (`httpanalyzer/analyzer.go:457`), while the TLS properties are still
  declared complete. Its check lets Unicode spaces pass that `dnstls` refuses, with
  the whole snapshot, as an invalid observation (`dnstls/analyzer.go:229`).
* `rules/condition_coverage.go:238` keeps a predicate without a group apart by its
  index, `schema.go:430` groups it under its id when matching. In
  `any(a, b in group "a")` the two count as one group when matched and as two in
  the upper bound: with weights of 30 and a minimum score of 50 the rule stays
  `insufficient_coverage` with every channel complete and no source to name
  (`docs/report-schema.md:134` says the status lists them). The schema accepts
  such a rule; none of the repository's is one, and adding it to **coverage**
  violates *InsufficientIsJustified*. The set with such a name that **coverage** has
  is below this threshold; `NotDetectedConclusive` shows that the two countings
  never make a negative status wrong.
* `scoring.go:140` applies no conflict to a rule that is not a candidate yet, so
  the upper bound (`scanner.go:388`) ignores a conflict with a rule that is
  already detected, while negative evidence is counted at once: such a rule is
  `insufficient_coverage` although no completion would detect it.
  *InsufficientIsJustified* sets conflicts aside for this reason.
* `condition_coverage.go:82` bounds matched evidence by the confidence observed. A
  signal of lower confidence, which the model of signals allows and no analyzer
  emits, could be outdone by an incomplete channel after `not_detected`.
* `docs/security-and-ethics.md:184` allows a retry of the DOM only after an
  explicit invalidation of the execution context; `chromedp.go:890` also retries
  when the frame moved on and no error was seen.
* `main.go:415` and `541` build the interactive engine without a progress callback,
  so the live counters of `docs/architecture.md:609` never reach that view.
* `browser/analyzer.go:72` always returns network metadata, so a browser that
  fails to start is `partial`, where `scanner.go:70` reads `failed`.
* `BeginCapture` and `Finish` have no timeout of their own: with a context that
  has no deadline only the death of Chromium ends them. After a crash `Finish`
  may return a partial result or `ErrRecorderClosed`, whichever goroutine wins.

## 7. What is not modelled

* What the form submitter types into the fields. The values of headers and
  cookies, sanitising of URLs, warnings and the errors of `HTTPAnalyzer` beyond
  "refused initial target" or another. `ErrInvalidSignal` (every signal the
  analyzer builds is valid) and `ErrMissingHTTPMetadata` (a failed HTTP analyzer
  aborts the scan) cannot occur. The syntax `ParseURL` checks, of certificates and
  DNS names is a flag; the prefix tables of `policy.go` are the constant
  `Forbidden`.
* In `SafeProxy`: the 200 response of a tunnel is taken not to block, a request's body
  is read before the response headers arrive only, `begin` is one step (its
  validation touches no shared state), and the second result of a tunnel is always a
  transport error unless it is a policy error, since nobody reads it.
* In `Capture`: timing phases, the order of the transactions, and how long a cleaned
  URL may become (an oversized one is so already in the page). Nothing says that the final URL and the DOM are of one document; the
  code reads one after the other (`chromedp.go:786`).
* In `Coverage`: regular expressions and text patterns (equality or absence
  stands for them), confidences, floating-point sums, duplicate keys and syntax
  of rule files, levels and explanations.
* Decimal limits of the configuration, header rewriting, report formatting, safe
  output, the wizard's form fields, built-in data and the registry generator:
  pure data or input/output without a state to get wrong.
* `bubbletea`, `chromedp`, `net/http` and Chromium are external, modelled from
  how `src/` uses them.

## 8. Plan

Order: what guards the program first.

1. Done: budget, navigation, their proofs; proxy; session with its form phase;
   capture; HTTP, DNS/TLS and the network guard; pipeline with its contract;
   interactive command; rules and coverage.
2. Done: every invariant and action property of every run, for every value of the
   constants, the type invariants, and the refinement of `ScanContract`.
3. Next models: the timing phases of `Capture`; a shared abstract
   specification *analyzer* implemented by `BrowserSession` and `HTTPAnalyzer`,
   which `ScanPipeline` would use in place of its analyzers.
