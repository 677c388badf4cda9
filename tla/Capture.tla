------------------------------- MODULE Capture -------------------------------
(***************************************************************************)
(* One capture of the browser analyzer: the collector that turns CDP       *)
(* network events into requests, responses and correlated transactions     *)
(* (internal/browser/capture.go, chromedp.go recordNetworkEvent), the      *)
(* sequence of CDP calls that finishes it (chromedp.go finish,             *)
(* captureBoundedDOMWithOps), and the per-channel coverage the analyzer    *)
(* declares for it (analyzer.go browserCapabilityCoverage).                *)
(*                                                                         *)
(* The browser is external.  Its network stack sends each request as a     *)
(* chain of hops, interleaved with the others; its main frame commits new  *)
(* documents whenever the page asks for it.  A URL is the class            *)
(* classifyURL puts it in, a document is the number of its loader; what it *)
(* holds is chosen with the answers (module BoundedDOM), and what a        *)
(* response says is left out.                                              *)
(***************************************************************************)
EXTENDS BoundedDOM

CONSTANTS RequestIDs,    \* CDP request identifiers
          MaxHops,       \* bound: hops of all request chains
          MaxLoads       \* bound: documents the main frame commits

ASSUME CaptureAssumption ==
    /\ IsFiniteSet(RequestIDs)
    /\ MaxHops \in Nat \ {0} /\ MaxLoads \in Nat \ {0}

Classes == {"accepted", "rejected", "oversized"}

VARIABLES net,           \* the network stack's view of each request
          hops,          \* the URL class of each hop of each request
          collector,     \* captureCollector
          seen,          \* hops whose request, or response, event was recorded
          stopped,       \* the listener's context is canceled
          loader,        \* the document of the main frame
          fpc,           \* where finish is
          attempt,       \* captureBoundedDOMWithOps: 0 or 1
          frames,        \* the main frame before, of the world, and of the DOM
          observed,      \* the channels whose CDP calls succeeded
          page,          \* history: what the DOM and the cookies were of
          navigated      \* Navigate succeeded

env == <<net, hops, loader>>
finishing == <<fpc, attempt, frames, observed, page>>
vars == <<env, collector, seen, stopped, finishing, navigated>>

Hops == [id : RequestIDs, hop : 1..MaxHops]
Hop(id, hop) == [id |-> id, hop |-> hop]
Channels == {"finalURL", "cookies", "dom"}
NoPage == [items |-> <<>>, units |-> <<>>, cookies |-> <<>>]
NoFrames == [before |-> 0, world |-> 0, dom |-> 0, failed |-> "no"]

\* 0 stands for no index, and for no document.
TypeOK ==
    /\ net \in [RequestIDs -> {"unsent", "sent", "answered", "ended"}]
    /\ \A id \in RequestIDs : hops[id] \in Seq(Classes) /\ Len(hops[id]) <= MaxHops
    /\ collector.requests \in Seq(Hops) /\ Len(collector.requests) <= MaxItems
    /\ collector.responses \in Seq(Hops) /\ Len(collector.responses) <= MaxItems
    /\ collector.transactions \in Seq([of : Hops, patched : SUBSET Hops])
    /\ Len(collector.transactions) <= MaxItems
    /\ collector.pending \in [RequestIDs -> 0..MaxItems]
    /\ collector.truncated \subseteq {"requests", "responses"}
    /\ seen \in [requests : SUBSET Hops, responses : SUBSET Hops]
    /\ stopped \in BOOLEAN /\ navigated \in BOOLEAN
    /\ loader \in 1..MaxLoads
    /\ fpc \in {"capturing", "target", "cookies", "before", "world", "evaluate",
                "after", "snapshot", "done"}
    /\ attempt \in 0..1
    /\ frames \in [before : 0..MaxLoads, world : 0..MaxLoads, dom : 0..MaxLoads,
                   failed : {"no", "transient", "other"}]
    /\ observed \subseteq Channels
    /\ page \in Pages \cup {NoPage}

Init ==
    /\ net = [id \in RequestIDs |-> "unsent"]
    /\ hops = [id \in RequestIDs |-> <<>>]
    /\ collector = [requests |-> <<>>, responses |-> <<>>, transactions |-> <<>>,
                    pending |-> [id \in RequestIDs |-> 0], truncated |-> {}]
    /\ seen = [requests |-> {}, responses |-> {}]
    /\ stopped = FALSE /\ navigated = FALSE
    /\ loader = 1
    /\ fpc = "capturing" /\ attempt = 0
    /\ frames = NoFrames
    /\ observed = {} /\ page = NoPage

-----------------------------------------------------------------------------
(* The collector, under its mutex *)

full(s) == Len(s) >= MaxItems

truncate(c, channel) == [c EXCEPT !.truncated = @ \cup {channel}]

\* cleanURL drops an oversized URL without a trace.
appendRequest(c, h, class) ==
    CASE class # "accepted" -> c
      [] class = "accepted" /\ full(c.requests) -> truncate(c, "requests")
      [] OTHER -> [c EXCEPT !.requests = Append(@, h)]

\* appendResponseLocked: the ceiling and an oversized URL both truncate.
responseClassesUntracked == {}
responseDropped == {"oversized"}

appendResponse(c, h, class) ==
    CASE class \in responseDropped -> truncate(c, "responses")
      [] class \notin responseDropped /\ class # "accepted" -> c
      [] class = "accepted" /\ full(c.responses) -> truncate(c, "responses")
      [] OTHER -> [c EXCEPT !.responses = Append(@, h)]

pendingIDs(c) == {id \in RequestIDs : c.pending[id] # 0}

\* A transaction is opened whatever its URL, once per identifier and below the
\* ceilings.
openTransaction(c, h) ==
    IF \/ c.pending[h.id] # 0
       \/ Cardinality(pendingIDs(c)) >= MaxItems
       \/ full(c.transactions)
    THEN c
    ELSE [c EXCEPT !.transactions = Append(@, [of |-> h, patched |-> {}]),
                   !.pending[h.id] = Len(c.transactions) + 1]

beginRequest(c, h, class) == openTransaction(appendRequest(c, h, class), h)

patchTransaction(c, h) ==
    IF c.pending[h.id] = 0 THEN c
    ELSE [c EXCEPT !.transactions[c.pending[h.id]].patched = @ \cup {h}]

observeResponse(c, h, class) == patchTransaction(appendResponse(c, h, class), h)

endCorrelation(c, id) == [c EXCEPT !.pending[id] = 0]

observeRedirectOpen(c, h, class) == observeResponse(c, h, class)
observeRedirect(c, h, class) == endCorrelation(observeResponse(c, h, class), h.id)

-----------------------------------------------------------------------------
(* recordNetworkEvent, one disjunct of its switch per action *)

event(id) == ~stopped /\ net[id] # "ended"
current(id) == Hop(id, Len(hops[id]))
classOf(h) == hops[h.id][h.hop]
eventFrame == UNCHANGED <<loader, stopped, finishing, navigated>>

\* Every hop has its event.
anotherHop == Cardinality(seen.requests) < MaxHops

sees(requests, responses) ==
    seen' = [requests |-> seen.requests \cup requests,
             responses |-> seen.responses \cup responses]

RequestWillBeSent(id, class) ==
    /\ event(id) /\ net[id] = "unsent" /\ anotherHop
    /\ net' = [net EXCEPT ![id] = "sent"]
    /\ hops' = [hops EXCEPT ![id] = <<class>>]
    /\ collector' = beginRequest(collector, Hop(id, 1), class)
    /\ sees({Hop(id, 1)}, {})
    /\ eventFrame

\* The event of the next hop carries the response of the hop it leaves.
Redirected(id, class) ==
    /\ event(id) /\ net[id] = "sent" /\ anotherHop
    /\ hops' = [hops EXCEPT ![id] = Append(@, class)]
    /\ LET old == current(id)  new == Hop(id, old.hop + 1) IN
        /\ collector' = beginRequest(observeRedirect(collector, old, classOf(old)), new, class)
        /\ sees({new}, {old})
    /\ UNCHANGED net /\ eventFrame

ResponseReceived(id) ==
    /\ event(id) /\ net[id] = "sent"
    /\ net' = [net EXCEPT ![id] = "answered"]
    /\ collector' = observeResponse(collector, current(id), classOf(current(id)))
    /\ sees({}, {current(id)})
    /\ UNCHANGED hops /\ eventFrame

\* finishRequest and failRequest: the correlation window closes.
LoadingEnds(id) ==
    /\ event(id) /\ net[id] \in {"sent", "answered"}
    /\ net' = [net EXCEPT ![id] = "ended"]
    /\ collector' = endCorrelation(collector, id)
    /\ UNCHANGED <<hops, seen>> /\ eventFrame

\* The main frame commits another document; only those finish can observe.
Commits ==
    /\ loader < MaxLoads /\ fpc \in {"world", "evaluate", "after"}
    /\ loader' = loader + 1
    /\ UNCHANGED <<net, hops, collector, seen, stopped, finishing, navigated>>

-----------------------------------------------------------------------------
(* finish *)

finishFrame == UNCHANGED <<env, collector, seen, navigated, page>>

\* Observe finishes its capture whether or not Navigate succeeded.
Finish(ok) ==
    /\ fpc = "capturing"
    /\ stopped' = TRUE /\ navigated' = ok /\ fpc' = "target"
    /\ UNCHANGED <<env, collector, seen, attempt, frames, observed, page>>

\* Target.getTargetInfo, then Storage.getCookies: a failure stays with its own
\* channel and the next call is still made.
Query(ok) ==
    /\ \/ fpc = "target" /\ fpc' = "cookies"
          /\ observed' = IF ok THEN observed \cup {"finalURL"} ELSE observed
       \/ fpc = "cookies" /\ fpc' = "before"
          /\ observed' = IF ok THEN observed \cup {"cookies"} ELSE observed
    /\ UNCHANGED <<stopped, attempt, frames>> /\ finishFrame

\* The context ended before the calls were made, or the target is gone.
FinishCanceled ==
    /\ fpc \in {"target", "cookies", "before", "world", "evaluate", "after"}
    /\ fpc' = "snapshot" /\ attempt' = 0 /\ frames' = NoFrames
    /\ UNCHANGED <<stopped, observed>> /\ finishFrame

MainFrameBefore ==
    /\ fpc = "before"
    /\ frames' = [NoFrames EXCEPT !.before = loader]
    /\ fpc' = "world"
    /\ UNCHANGED <<stopped, attempt, observed>> /\ finishFrame

\* Page.createIsolatedWorld names the frame, not its document.
CreateWorld(failure) ==
    /\ fpc = "world"
    /\ frames' = IF failure = "no" THEN [frames EXCEPT !.world = loader]
                 ELSE [frames EXCEPT !.failed = failure]
    /\ fpc' = IF failure = "no" THEN "evaluate" ELSE "after"
    /\ UNCHANGED <<stopped, attempt, observed>> /\ finishFrame

\* The world went with its document, or the serializer runs in it.
Evaluate(failure) ==
    /\ fpc = "evaluate"
    /\ frames.world # loader => failure # "no"
    /\ frames' = IF failure = "no" THEN [frames EXCEPT !.dom = frames.world]
                 ELSE [frames EXCEPT !.failed = failure]
    /\ fpc' = "after"
    /\ UNCHANGED <<stopped, attempt, observed>> /\ finishFrame

transitionedFrameOnly == FALSE
transitioned == frames.before # loader

\* The frame is looked at again: the DOM is kept when it is the same document's,
\* and one transition is retried.
MainFrameAfter ==
    /\ fpc = "after"
    /\ CASE frames.failed = "no" /\ ~transitioned ->
              /\ observed' = observed \cup {"dom"} /\ fpc' = "snapshot" /\ attempt' = 0
              /\ UNCHANGED frames
         [] attempt = 0 /\ transitioned /\ frames.failed # "other" ->
              /\ attempt' = 1 /\ fpc' = "before" /\ frames' = NoFrames
              /\ UNCHANGED observed
         [] OTHER ->
              /\ fpc' = "snapshot" /\ attempt' = 0 /\ frames' = NoFrames
              /\ UNCHANGED observed
    /\ UNCHANGED stopped /\ finishFrame

\* Nothing depends on what was answered before the snapshot is made of it.
Snapshot ==
    /\ fpc = "snapshot"
    /\ fpc' = "done"
    /\ page' \in IF observed \cap {"dom", "cookies"} = {} THEN {NoPage} ELSE Pages
    /\ UNCHANGED <<env, collector, seen, navigated, stopped, attempt, frames, observed>>

-----------------------------------------------------------------------------
Failures == {"no", "transient", "other"}

Network ==
    \E id \in RequestIDs :
        \/ \E class \in Classes : RequestWillBeSent(id, class) \/ Redirected(id, class)
        \/ ResponseReceived(id) \/ LoadingEnds(id)

Finishing ==
    \/ FinishCanceled \/ MainFrameBefore \/ MainFrameAfter \/ Snapshot
    \/ \E ok \in BOOLEAN : Finish(ok) \/ Query(ok)
    \/ \E failure \in Failures : CreateWorld(failure) \/ Evaluate(failure)

Next == Network \/ Commits \/ Finishing

Spec == Init /\ [][Next]_vars

-----------------------------------------------------------------------------
(* The result and its declared coverage *)

finalURLDependent == ~navigated \/ "finalURL" \notin observed

complete(capability) ==
    CASE capability = "network_request" ->
            ~finalURLDependent /\ "requests" \notin collector.truncated
      [] capability = "network_response" ->
            navigated /\ "responses" \notin collector.truncated
      [] capability = "page_content" ->
            ~finalURLDependent /\ "dom" \in observed /\ ~domTruncated(page)
      [] capability \in {"script_url", "iframe_url"} ->
            ~finalURLDependent /\ "dom" \in observed /\ ~resourceTruncated(page, capability)
      [] capability = "cookie" ->
            ~finalURLDependent /\ "cookies" \in observed /\ ~cookiesTruncated(page)

in(s) == {s[i] : i \in DOMAIN s}

-----------------------------------------------------------------------------
(* Properties *)

\* Correlation: an open transaction belongs to the identifier it is filed
\* under and to its latest hop, no two identifiers share one, and a response
\* only ever patches the transaction of its own hop, redirect chains and
\* collection ceilings included (beginRequest, observeRedirect).
CorrelationSound ==
    /\ \A id \in pendingIDs(collector) :
        /\ collector.pending[id] \in DOMAIN collector.transactions
        /\ collector.transactions[collector.pending[id]].of = current(id)
    /\ \A i \in DOMAIN collector.transactions :
        collector.transactions[i].patched \subseteq {collector.transactions[i].of}

\* A channel declared complete has lost nothing: every response the listener
\* saw, and every request but those with an oversized URL, is in the result
\* unless its URL was no web URL; so is all the text of the document, every
\* script and iframe it loads and every cookie, wherever a ceiling cut the walk
\* (analyzer.go, "bounded evidence channels cannot produce false conclusive
\* negatives").
CompleteChannelsLoseNothing ==
    fpc = "done" =>
        /\ complete("network_response") =>
            {h \in seen.responses : classOf(h) # "rejected"} \subseteq in(collector.responses)
        /\ complete("network_request") =>
            {h \in seen.requests : classOf(h) = "accepted"} \subseteq in(collector.requests)
        /\ complete("page_content") => content(page) = DOMAIN page.units
        /\ \A kind \in {"script_url", "iframe_url"} : complete(kind) =>
            {i \in DOMAIN page.items : /\ page.items[i].kind = kind
                                      /\ page.items[i].url \in {"accepted", "oversized"}}
                \subseteq cleanResourceURLs(page, kind)
        /\ complete("cookie") => distinctCookies(page) = cleanCookies(page)

\* Page content is declared complete only for a DOM serialized in one document
\* that was the main frame's before and after, whatever the page committed
\* meanwhile (captureBoundedDOMWithOps).
StableDOM ==
    (fpc = "done" /\ complete("page_content")) =>
        frames.before = frames.world /\ frames.world = frames.dom

\* What capture.go says of RequestsTruncated: it reports that request capture
\* "reached its collection ceiling or omitted an oversized request URL".
OversizedRequestsReported ==
    (fpc = "done" /\ complete("network_request")) =>
        \A h \in seen.requests : classOf(h) # "oversized"

=============================================================================
