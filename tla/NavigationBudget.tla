-------------------------- MODULE NavigationBudget --------------------------
(***************************************************************************)
(* navigationBudget (internal/browser/proxy.go): the counters, the two     *)
(* error slots and the stop channel that one navigation shares between     *)
(* the DevTools listener, the command worker, the watcher goroutine and    *)
(* every proxy handler.                                                    *)
(*                                                                         *)
(* Every method holds b.mu for its whole body, so a method is a function   *)
(* from a budget to a budget, with the error it returns as a second        *)
(* function.  Byte counts are abstract units; errors are their names.      *)
(***************************************************************************)
EXTENDS Integers

CONSTANTS MaxRequests,       \* config.MaxRequests
          MaxRedirects,      \* config.MaxRedirects
          MaxTransferBytes   \* config.MaxTransferBytes

ASSUME BudgetAssumption ==
  /\ MaxRequests \in Nat \ {0}
  /\ MaxRedirects \in Nat
  /\ MaxTransferBytes \in Nat \ {0}

Nil == "nil"

PolicyErrors == {"ErrRequestLimit", "ErrRedirectLimit", "ErrTransferLimit",
                 "ErrConcurrencyLimit", "ErrUnsupportedTarget",
                 "ErrInvalidURL", "ErrForbiddenDestination"}

InfraErrors == {"transport", "context.Canceled", "context.DeadlineExceeded"}

Errors == PolicyErrors \cup InfraErrors

isPolicyError(err) == err \in PolicyErrors

Budgets == [requests      : Nat,
            proxyRequests : Nat,
            redirects     : Nat,
            transferBytes : Nat,
            decodedBytes  : Nat,
            policyErr     : Errors \cup {Nil},
            infraErr      : Errors \cup {Nil},
            done          : BOOLEAN]

newNavigationBudget == [requests      |-> 0,
                        proxyRequests |-> 0,
                        redirects     |-> 0,
                        transferBytes |-> 0,
                        decodedBytes  |-> 0,
                        policyErr     |-> Nil,
                        infraErr      |-> Nil,
                        done          |-> FALSE]
-----------------------------------------------------------------------------
(* stop closes b.done once. *)
stop(b) == [b EXCEPT !.done = TRUE]

(* The first policy error is kept, and only that call stops the budget. *)
failPolicyLast(b, err) == [stop(b) EXCEPT !.policyErr = err]
failPolicy(b, err) ==
  IF b.policyErr = Nil THEN [stop(b) EXCEPT !.policyErr = err] ELSE b

(* The first infrastructure error is kept; it does not stop the budget. *)
failInfrastructure(b, err) ==
  IF b.infraErr = Nil THEN [b EXCEPT !.infraErr = err] ELSE b

failureInfraFirst(b) == IF b.infraErr # Nil THEN b.infraErr ELSE b.policyErr
failure(b) == IF b.policyErr # Nil THEN b.policyErr ELSE b.infraErr
-----------------------------------------------------------------------------
(* authorize counts a paused browser request before it looks at the        *)
(* redirect allowance: a request refused for its redirect stays counted.   *)
mayCountOffByOne(b) == b.policyErr = Nil /\ b.requests <= MaxRequests
mayCount(b) == b.policyErr = Nil /\ b.requests < MaxRequests

authorizeErr(b, validURL, redirect) ==
  CASE ~validURL                                -> "ErrInvalidURL"
    [] validURL /\ b.policyErr # Nil            -> b.policyErr
    [] validURL /\ b.policyErr = Nil /\ ~mayCount(b) -> "ErrRequestLimit"
    [] validURL /\ mayCount(b) /\ redirect /\ b.redirects >= MaxRedirects
                                                -> "ErrRedirectLimit"
    [] OTHER                                    -> Nil

authorize(b, validURL, redirect) ==
  IF ~validURL \/ ~mayCount(b) THEN b
  ELSE [b EXCEPT !.requests  = @ + 1,
                 !.redirects = IF redirect /\ @ < MaxRedirects
                               THEN @ + 1 ELSE @]

(* authorizeProxy counts a request that reached the proxy. *)
authorizeProxyErr(b) ==
  CASE b.policyErr # Nil                                        -> b.policyErr
    [] b.policyErr = Nil /\ b.proxyRequests >= MaxRequests -> "ErrRequestLimit"
    [] OTHER                                               -> Nil

authorizeProxy(b) ==
  IF authorizeProxyErr(b) = Nil
  THEN [b EXCEPT !.proxyRequests = @ + 1] ELSE b

(* consume and consumeDecoded share one shape: refuse the whole count when *)
(* it does not fit in what is left, else add it.                           *)
fitsOffByOne(count, used) == count <= MaxTransferBytes - used + 1
fits(count, used) == count <= MaxTransferBytes - used

spendErr(b, used, count) ==
  CASE count = 0                                               -> Nil
    [] count # 0 /\ b.policyErr # Nil                          -> b.policyErr
    [] count # 0 /\ b.policyErr = Nil /\ ~fits(count, used) -> "ErrTransferLimit"
    [] OTHER                                                   -> Nil

consumeErr(b, count) == spendErr(b, b.transferBytes, count)
consume(b, count) ==
  IF consumeErr(b, count) = Nil
  THEN [b EXCEPT !.transferBytes = @ + count] ELSE b

consumeDecodedErr(b, count) == spendErr(b, b.decodedBytes, count)
consumeDecoded(b, count) ==
  IF consumeDecodedErr(b, count) = Nil
  THEN [b EXCEPT !.decodedBytes = @ + count] ELSE b

(* No counter ever passes its configured limit. *)
WithinLimits(b) ==
  /\ b.requests <= MaxRequests
  /\ b.proxyRequests <= MaxRequests
  /\ b.redirects <= MaxRedirects
  /\ b.transferBytes <= MaxTransferBytes
  /\ b.decodedBytes <= MaxTransferBytes
=============================================================================
