----------------------------- MODULE SafeProxy ------------------------------
(***************************************************************************)
(* The loopback safety proxy of a browser session (internal/browser/       *)
(* proxy.go): navigations install and remove their budget, http.Server     *)
(* runs one handler goroutine per browser connection, and Close races      *)
(* with both.                                                              *)
(*                                                                         *)
(* A handler reads p.active once and keeps that budget; it may outlive     *)
(* the navigation and meet the proxy's shutdown at any step.  Bytes are    *)
(* units; the guard, the upstream server and the client are external.      *)
(***************************************************************************)
EXTENDS NavigationBudget, Sequences

CONSTANTS Navigations,  \* navigations the session runs, one budget each
          Tunnels,      \* handler goroutines of CONNECT requests
          Forwards,     \* handler goroutines of plain HTTP requests
          None          \* no navigation

ASSUME ProxyAssumption ==
  /\ None \notin Navigations
  /\ Tunnels \cap Forwards = {}

Handlers == Tunnels \cup Forwards

VARIABLES
  budgets,   \* the budget of every navigation
  npc,       \* navigation; "ending": end has let go of p.mu, not yet stopped
  active,    \* p.active
  closing,   \* p.closing
  cpc,       \* Close: "joining" once the server is closed
  detached,  \* the budget Close took out of p.active
  hpc,       \* handler position
  hnav,      \* the navigation whose budget the handler holds
  copiers,   \* running tunnel goroutines of the handler
  results,   \* the handler's results channel
  failing,   \* the error the handler has decided to record
  refused    \* history: <<navigation, handler>> of every policy error met

handlerVars == <<hpc, hnav, copiers, results, failing>>
closeVars == <<closing, cpc, detached>>
vars == <<budgets, npc, active, closeVars, handlerVars, refused>>

NavPositions == {"new", "active", "ending", "ended", "refused"}
ClosePositions == {"open", "closing", "detached", "joining", "closed"}
Running == {"started", "authorize", "headers", "upstream", "copy", "write",
            "tunnel", "record"}

TypeOK ==
  /\ budgets \in [Navigations -> Budgets]
  /\ npc \in [Navigations -> NavPositions]
  /\ active \in Navigations \cup {None}
  /\ closing \in BOOLEAN
  /\ cpc \in ClosePositions
  /\ detached \in Navigations \cup {None}
  /\ hpc \in [Handlers -> Running \cup {"new", "done"}]
  /\ hnav \in [Handlers -> Navigations \cup {None}]
  /\ copiers \in [Handlers -> 0..2]
  /\ results \in [Handlers -> Seq(Errors \cup {Nil})]
  /\ failing \in [Handlers -> Errors \cup {Nil}]
  /\ refused \in SUBSET (Navigations \X Handlers)

Init ==
  /\ budgets = [n \in Navigations |-> newNavigationBudget]
  /\ npc = [n \in Navigations |-> "new"]
  /\ active = None
  /\ closing = FALSE
  /\ cpc = "open"
  /\ detached = None
  /\ hpc = [h \in Handlers |-> "new"]
  /\ hnav = [h \in Handlers |-> None]
  /\ copiers = [h \in Handlers |-> 0]
  /\ results = [h \in Handlers |-> <<>>]
  /\ failing = [h \in Handlers |-> Nil]
  /\ refused = {}
-----------------------------------------------------------------------------
(*                   Navigations: begin and end                            *)

(* begin: unless the URL or the guard's Validate refuses, install the      *)
(* budget under p.mu; another active navigation refuses it too.            *)
Begin(n, valid) ==
  /\ npc[n] = "new"
  /\ \/ /\ valid /\ active = None
        /\ active' = n
        /\ npc' = [npc EXCEPT ![n] = "active"]
        /\ UNCHANGED budgets
     \/ /\ valid /\ active # None
        /\ npc' = [npc EXCEPT ![n] = "refused"]
        /\ budgets' = [budgets EXCEPT ![n] = stop(@)]
        /\ UNCHANGED active
     \/ /\ ~valid
        /\ npc' = [npc EXCEPT ![n] = "refused"]
        /\ UNCHANGED <<budgets, active>>
  /\ UNCHANGED <<closeVars, handlerVars, refused>>

(* Mutated form: end removes whichever budget is installed. *)
EndDetachesAny(n) ==
  /\ npc[n] = "active"
  /\ npc' = [npc EXCEPT ![n] = "ending"]
  /\ active' = None
  /\ UNCHANGED <<budgets, closeVars, handlerVars, refused>>

(* end, under p.mu: remove the budget if it is still the installed one. *)
EndDetaches(n) ==
  /\ npc[n] = "active"
  /\ npc' = [npc EXCEPT ![n] = "ending"]
  /\ active' = IF active = n THEN None ELSE active
  /\ UNCHANGED <<budgets, closeVars, handlerVars, refused>>

(* end, after p.mu: stop the budget. *)
EndStops(n) ==
  /\ npc[n] = "ending"
  /\ npc' = [npc EXCEPT ![n] = "ended"]
  /\ budgets' = [budgets EXCEPT ![n] = stop(@)]
  /\ UNCHANGED <<active, closeVars, handlerVars, refused>>
-----------------------------------------------------------------------------
(*                              Close                                      *)

CloseBegins ==
  /\ cpc = "open"
  /\ cpc' = "closing"
  /\ closing' = TRUE
  /\ UNCHANGED <<budgets, npc, active, detached, handlerVars, refused>>

(* Under p.mu: take the installed budget out. *)
CloseDetaches ==
  /\ cpc = "closing"
  /\ cpc' = "detached"
  /\ detached' = active
  /\ active' = None
  /\ UNCHANGED <<budgets, npc, closing, handlerVars, refused>>

(* After p.mu: stop it.  server.Close follows and closes every connection  *)
(* that is not hijacked, from then on, at any time.                        *)
CloseStops ==
  /\ cpc = "detached"
  /\ cpc' = "joining"
  /\ budgets' = IF detached = None THEN budgets
                ELSE [budgets EXCEPT ![detached] = stop(@)]
  /\ UNCHANGED <<npc, active, closing, detached, handlerVars, refused>>

(* handlers.Wait returns when every started handler called Done. *)
CloseReturns ==
  /\ cpc = "joining"
  /\ \A h \in Handlers : hpc[h] \notin Running
  /\ cpc' = "closed"
  /\ UNCHANGED <<budgets, npc, active, closing, detached, handlerVars, refused>>
-----------------------------------------------------------------------------
(*                             Handlers                                    *)

(* Mutated form: a handler starts although the proxy is closing. *)
StartHandlerUnchecked(h) ==
  /\ hpc[h] = "new"
  /\ hpc' = [hpc EXCEPT ![h] = "started"]
  /\ UNCHANGED <<budgets, npc, active, closeVars, hnav, copiers, results,
                 failing, refused>>

(* startHandler: Add(1) and the closing flag share handlerMu; a handler    *)
(* that comes too late answers 503.                                        *)
StartHandler(h) ==
  /\ hpc[h] = "new"
  /\ hpc' = [hpc EXCEPT ![h] = IF closing THEN "done" ELSE "started"]
  /\ UNCHANGED <<budgets, npc, active, closeVars, hnav, copiers, results,
                 failing, refused>>

(* The budget is read once; without one the request is answered 503. *)
ReadCurrent(h) ==
  /\ hpc[h] = "started"
  /\ hnav' = [hnav EXCEPT ![h] = active]
  /\ hpc' = [hpc EXCEPT ![h] = IF active = None THEN "done" ELSE "authorize"]
  /\ UNCHANGED <<budgets, npc, active, closeVars, copiers, results, failing,
                 refused>>

budget(h) == budgets[hnav[h]]

(* The handler's budget becomes b and it goes on at `next`. *)
Continue(h, b, next) ==
  /\ budgets' = [budgets EXCEPT ![hnav[h]] = b]
  /\ hpc' = [hpc EXCEPT ![h] = next]
  /\ UNCHANGED <<failing, refused>>

(* The handler, its budget now b, met policy error err, records it and     *)
(* returns.                                                                *)
EndPolicyOn(h, b, err) ==
  /\ budgets' = [budgets EXCEPT ![hnav[h]] = failPolicy(b, err)]
  /\ hpc' = [hpc EXCEPT ![h] = "done"]
  /\ refused' = refused \cup {<<hnav[h], h>>}
  /\ UNCHANGED failing

EndPolicy(h, err) == EndPolicyOn(h, budget(h), err)

frame == UNCHANGED <<npc, active, closeVars, hnav, copiers, results>>

(* A charge of the budget: b and err are its two results. *)
Charge(h, b, err, next) ==
  \/ err = Nil /\ Continue(h, b, next)
  \/ err # Nil /\ EndPolicy(h, err)

Consume(h, next) ==
  Charge(h, consume(budget(h), 1), consumeErr(budget(h), 1), next)

AuthorizeProxy(h) ==
  /\ hpc[h] = "authorize"
  /\ Charge(h, authorizeProxy(budget(h)), authorizeProxyErr(budget(h)), "headers")
  /\ frame

(* Request bytes are consumed, then connect or forwardHTTP parses the URL. *)
ConsumeRequest(h, validURL) ==
  LET charged == consume(budget(h), 1) IN
  /\ hpc[h] = "headers"
  /\ \/ validURL /\ Consume(h, "upstream")
     \/ ~validURL /\ EndPolicyOn(h, charged, IF consumeErr(budget(h), 1) = Nil
                             THEN "ErrInvalidURL" ELSE consumeErr(budget(h), 1))
  /\ frame

(* shouldRecordInfraError: not on a stopped budget, a closing proxy or a   *)
(* request whose client is gone.                                           *)
shouldRecordInfraError(h, clientGone) ==
  ~budget(h).done /\ ~closing /\ ~clientGone

(* The handler ends on err, which it first records if it should. *)
OfferInfra(h, err, clientGone) ==
  /\ \/ /\ shouldRecordInfraError(h, clientGone)
        /\ hpc' = [hpc EXCEPT ![h] = "record"]
        /\ failing' = [failing EXCEPT ![h] = err]
     \/ /\ ~shouldRecordInfraError(h, clientGone)
        /\ hpc' = [hpc EXCEPT ![h] = "done"]
        /\ UNCHANGED failing
  /\ UNCHANGED budgets

EndInfra(h, err, clientGone) ==
  OfferInfra(h, err, clientGone) /\ UNCHANGED refused

(* failInfrastructure follows: the budget may have been stopped meanwhile. *)
RecordInfra(h) ==
  /\ hpc[h] = "record"
  /\ budgets' = [budgets EXCEPT ![hnav[h]] = failInfrastructure(@, failing[h])]
  /\ hpc' = [hpc EXCEPT ![h] = "done"]
  /\ failing' = [failing EXCEPT ![h] = Nil]
  /\ UNCHANGED refused
  /\ frame

(* The dial of connect fails: policy errors are told apart. *)
ConnectFails(h, err, clientGone) ==
  /\ hpc[h] = "upstream" /\ h \in Tunnels
  /\ \/ isPolicyError(err) /\ EndPolicy(h, err)
     \/ ~isPolicyError(err) /\ EndInfra(h, err, clientGone)
  /\ frame

(* RoundTrip fails, with the guard's refusal of the dialled address, the   *)
(* budget's refusal of the request body or any transport error:            *)
(* forwardHTTP offers them all to failInfrastructure.                      *)
RoundTripFails(h, err, clientGone) ==
  /\ hpc[h] = "upstream" /\ h \in Forwards
  /\ OfferInfra(h, err, clientGone)
  /\ refused' = IF isPolicyError(err)
                THEN refused \cup {<<hnav[h], h>>} ELSE refused
  /\ frame

(* The transport reads a piece of the request body. *)
UploadChunk(h, clientGone) ==
  LET err == consumeErr(budget(h), 1) IN
  /\ hpc[h] = "upstream" /\ h \in Forwards
  /\ \/ err = Nil /\ Continue(h, consume(budget(h), 1), "upstream") /\ frame
     \/ err # Nil /\ RoundTripFails(h, err, clientGone)

(* RoundTrip answers: response headers are consumed, then the body. *)
RoundTripAnswers(h) ==
  hpc[h] = "upstream" /\ h \in Forwards /\ Consume(h, "copy") /\ frame

(* A chunk of the body is read and charged, then written to the client. *)
CopyChunk(h) == hpc[h] = "copy" /\ Consume(h, "write") /\ frame

(* The upstream's end, or its failure. *)
CopyEnds(h, err, clientGone) ==
  /\ hpc[h] = "copy"
  /\ \/ err = Nil /\ Continue(h, budget(h), "done")
     \/ err # Nil /\ EndInfra(h, err, clientGone)
  /\ frame

(* The client takes the chunk, or its connection fails. *)
ClientReads(h) == hpc[h] = "write" /\ Continue(h, budget(h), "copy") /\ frame

ClientFails(h, clientGone) ==
  hpc[h] = "write" /\ EndInfra(h, "transport", clientGone) /\ frame

(* Mutated form: the dial and the round trip are not linked to the budget. *)
UpstreamUnlinked(h) ==
  /\ hpc[h] = "copy"
  /\ budget(h).done
  /\ Continue(h, budget(h), "done")
  /\ frame

(* A stopped budget cancels the linked context of the dial, the round trip *)
(* and the reading of the body; nothing is recorded.  A write to the       *)
(* client has no such context.                                             *)
UpstreamCanceled(h) ==
  /\ hpc[h] \in {"upstream", "copy"}
  /\ budget(h).done
  /\ Continue(h, budget(h), "done")
  /\ frame

(* server.Close closed the client's connection, which fails a write and    *)
(* ends the request's context; nothing is recorded while closing.          *)
ConnectionClosed(h) ==
  /\ hpc[h] \in {"upstream", "copy", "write"}
  /\ cpc = "joining"
  /\ Continue(h, budget(h), "done")
  /\ frame

(* The dial succeeds and the connection is hijacked: two copy goroutines. *)
TunnelOpens(h) ==
  /\ hpc[h] = "upstream" /\ h \in Tunnels
  /\ hpc' = [hpc EXCEPT ![h] = "tunnel"]
  /\ copiers' = [copiers EXCEPT ![h] = 2]
  /\ UNCHANGED <<budgets, npc, active, closeVars, hnav, results, failing,
                 refused>>

(* The connection cannot be hijacked, which is recorded at once, or        *)
(* hijacking or the 200 response fails.                                    *)
TunnelSetupFails(h, clientGone) ==
  /\ hpc[h] = "upstream" /\ h \in Tunnels
  /\ \/ Continue(h, failInfrastructure(budget(h), "transport"), "done")
     \/ EndInfra(h, "transport", clientGone)
  /\ frame

(* The results channel holds one entry per copy goroutine. *)
resultsCapacityOne == 1
resultsCapacity == 2

(* A copy goroutine ends with err and sends it. *)
CopierSends(h, err) ==
  /\ Len(results[h]) < resultsCapacity
  /\ copiers' = [copiers EXCEPT ![h] = @ - 1]
  /\ results' = [results EXCEPT ![h] = Append(@, err)]

(* A tunnel copy relays a chunk, or meets the limit or the policy error.   *)
(* After the handler returned, the write of the chunk in hand fails.       *)
CopierRelays(h) ==
  LET err == consumeErr(budget(h), 1) IN
  /\ copiers[h] > 0
  /\ \/ /\ err = Nil
        /\ budgets' = [budgets EXCEPT ![hnav[h]] = consume(@, 1)]
        /\ \/ hpc[h] # "done" /\ UNCHANGED <<copiers, results>>
           \/ hpc[h] = "done" /\ CopierSends(h, "transport")
        /\ UNCHANGED refused
     \/ /\ err # Nil
        /\ CopierSends(h, err)
        /\ refused' = refused \cup {<<hnav[h], h>>}
        /\ UNCHANGED budgets
  /\ UNCHANGED <<npc, active, closeVars, hpc, hnav, failing>>

(* Mutated form: a copy goroutine may send its result more than once. *)
CopierEndsAgain(h, err) ==
  /\ hpc[h] \in {"tunnel", "done"}
  /\ CopierSends(h, err)
  /\ UNCHANGED <<budgets, npc, active, closeVars, hpc, hnav, failing, refused>>

(* Either side ends the connection; after the handler returned, its        *)
(* deferred Close calls do.  Only the first result is ever read: how the   *)
(* connection of the second ends makes no difference.                      *)
CopierEnds(h, err) ==
  /\ copiers[h] > 0
  /\ copiers[h] = 1 \/ hpc[h] = "done" => err = "transport"
  /\ CopierSends(h, err)
  /\ UNCHANGED <<budgets, npc, active, closeVars, hpc, hnav, failing, refused>>

(* Mutated form: connect does not ask isPolicyError, as forwardHTTP. *)
TunnelResultAsInfra(h, clientGone) ==
  LET err == Head(results[h]) IN
  /\ hpc[h] = "tunnel"
  /\ results[h] # <<>>
  /\ results' = [results EXCEPT ![h] = Tail(@)]
  /\ \/ err = Nil /\ Continue(h, budget(h), "done")
     \/ err # Nil /\ EndInfra(h, err, clientGone)
  /\ UNCHANGED <<npc, active, closeVars, hnav, copiers>>

(* connect's final select: the first result, or a stopped budget. *)
TunnelResult(h, clientGone) ==
  LET err == Head(results[h]) IN
  /\ hpc[h] = "tunnel"
  /\ results[h] # <<>>
  /\ results' = [results EXCEPT ![h] = Tail(@)]
  /\ \/ err = Nil /\ Continue(h, budget(h), "done")
     \/ isPolicyError(err) /\ EndPolicy(h, err)
     \/ err # Nil /\ ~isPolicyError(err) /\ EndInfra(h, err, clientGone)
  /\ UNCHANGED <<npc, active, closeVars, hnav, copiers>>

(* Mutated form: the select has no case for the stopped budget. *)
TunnelUnstopped(h) ==
  /\ hpc[h] = "tunnel"
  /\ budget(h).done
  /\ copiers[h] = 0
  /\ Continue(h, budget(h), "done")
  /\ frame

TunnelStopped(h) ==
  /\ hpc[h] = "tunnel"
  /\ budget(h).done
  /\ Continue(h, budget(h), "done")
  /\ frame
-----------------------------------------------------------------------------
Navigation(n) ==
  \/ \E valid \in BOOLEAN : Begin(n, valid)
  \/ EndDetaches(n) \/ EndStops(n)

CloseRuns == CloseDetaches \/ CloseStops \/ CloseReturns

(* What a handler does without waiting for anyone. *)
Advance(h) == \/ ReadCurrent(h) \/ AuthorizeProxy(h)
              \/ \E validURL \in BOOLEAN : ConsumeRequest(h, validURL)
              \/ RecordInfra(h)

(* What a stopped budget and a closed server do to a waiting handler. *)
Released(h) == UpstreamCanceled(h) \/ ConnectionClosed(h) \/ TunnelStopped(h)

(* What the network and the peers make a handler do. *)
Peers(h) ==
  \/ StartHandler(h)
  \/ \E err \in {"ErrForbiddenDestination", "transport"}, gone \in BOOLEAN :
        ConnectFails(h, err, gone) \/ RoundTripFails(h, err, gone)
  \/ RoundTripAnswers(h) \/ CopyChunk(h) \/ ClientReads(h)
  \/ \E err \in {Nil, "transport"}, gone \in BOOLEAN : CopyEnds(h, err, gone)
  \/ \E gone \in BOOLEAN : UploadChunk(h, gone) \/ ClientFails(h, gone)
  \/ TunnelOpens(h)
  \/ \E gone \in BOOLEAN : TunnelSetupFails(h, gone)
  \/ CopierRelays(h)
  \/ \E err \in {Nil, "transport"} : CopierEnds(h, err)
  \/ \E gone \in BOOLEAN : TunnelResult(h, gone)

Handler(h) == Advance(h) \/ Released(h) \/ Peers(h)

Next == CloseBegins \/ CloseRuns \/ (\E n \in Navigations : Navigation(n))
        \/ (\E h \in Handlers : Handler(h))

Spec == Init /\ [][Next]_vars

(* Goroutines run, a navigation that began ends (module Navigation), a     *)
(* started Close runs on, and closed connections end their copies.  The    *)
(* peers owe nothing: an upstream may stay silent, and a client may leave  *)
(* a response unread, for ever.                                            *)
Fairness ==
  /\ WF_vars(CloseRuns)
  /\ \A n \in Navigations : WF_vars(EndDetaches(n) \/ EndStops(n))
  /\ \A h \in Handlers : WF_vars(Advance(h) \/ Released(h))
  /\ \A h \in Tunnels : WF_vars(hpc[h] = "done" /\ CopierEnds(h, "transport"))

FairSpec == Spec /\ Fairness
-----------------------------------------------------------------------------
(*                            Properties                                   *)

(* Every budget stays within its limits although any number of handlers    *)
(* and tunnel copies charge it concurrently.                               *)
BudgetCeilings == \A n \in Navigations : WithinLimits(budgets[n])

(* Close has really joined the handlers: once it returned none is running, *)
(* and none starts later.                                                  *)
ClosedMeansQuiet ==
  cpc = "closed" => \A h \in Handlers : hpc[h] \notin Running

(* end or Close has let go of p.mu with this budget and stops it next. *)
BeingStopped(n) == npc[n] = "ending" \/ (cpc = "detached" /\ detached = n)

(* The proxy is inactive outside an authorized navigation: whatever end,   *)
(* Close and the begin of another navigation do between each other's       *)
(* steps, the budget that a handler holds is installed, stopped, or about  *)
(* to be stopped by the one who removed it, and that of a navigation that  *)
(* ended is stopped.                                                       *)
OnlyActiveBudgetsOpen ==
  \A n \in Navigations :
    (npc[n] = "ended" \/ \E h \in Handlers : hnav[h] = n /\ active # n)
      => budgets[n].done \/ BeingStopped(n)

(* The navigation's budget was stopped by end or Close. *)
Over(n) ==
  \/ npc[n] = "ended"
  \/ cpc \in {"joining", "closed"} /\ detached = n

Unread(h) == \E i \in DOMAIN results[h] : isPolicyError(results[h][i])

(* A policy error met anywhere in a CONNECT handler, in a tunnel copy too, *)
(* decides the navigation's outcome, except one that a copy has sent and   *)
(* connect does not read: not yet, because it took the other copy's result *)
(* (it reads one of the two), or because the navigation was over first.    *)
TunnelPolicyDominates ==
  \A n \in Navigations, h \in Tunnels :
    <<n, h>> \in refused =>
      \/ isPolicyError(failure(budgets[n]))
      \/ /\ Unread(h)
         /\ \/ hpc[h] = "tunnel"
            \/ copiers[h] + Len(results[h]) = 1
            \/ Over(n)

(* Close returns although upstreams stay silent, clients read nothing and  *)
(* navigations begin while it runs.                                        *)
CloseTerminates == (cpc # "open") ~> (cpc = "closed")

(* Work left over from a navigation that ended: a handler still running or *)
(* a tunnel copy that has not delivered its result.  A handler in a write  *)
(* is its client's, not the navigation's.                                  *)
Lingering(h) ==
  /\ hnav[h] # None
  /\ npc[hnav[h]] = "ended"
  /\ hpc[h] \notin {"done", "write"} \/ copiers[h] > 0

(* The end of a navigation ends its handlers and their tunnel copies: left *)
(* over work stays for ever only in a write to a client that does not      *)
(* read, which linkedDoneContext does not reach.                           *)
EndStopsHandlers == []<>(\A h \in Handlers : ~Lingering(h))

(* "Policy violations dominate infrastructure failures belonging to the    *)
(* same navigation": a plain HTTP handler met a policy error, so the       *)
(* navigation's outcome is not an infrastructure error.                    *)
HTTPPolicyDominates ==
  \A n \in Navigations, h \in Forwards :
    <<n, h>> \in refused => failure(budgets[n]) \notin InfraErrors
=============================================================================
