---------------------------- MODULE ScanContract ----------------------------
(***************************************************************************)
(* What one call of Scanner.Scan promises to the code around it            *)
(* (internal/scanner/scanner.go): its lifecycle events come in pairs, one  *)
(* pair per configured analyzer and in the configured order, and a result  *)
(* is returned only when every analyzer has settled.  The classic command  *)
(* (ScanPipeline) is shown to implement it, and the interactive command    *)
(* (InteractiveScan) is built on it.                                       *)
(***************************************************************************)
EXTENDS Integers

CONSTANT Stages          \* how many analyzers the scanner was configured with

ASSUME StagesAssumption == Stages \in Nat \ {0}

VARIABLE scan            \* the scan of the page at hand

Outcomes == {"none", "result", "canceled", "failed"}

Scans == [settled : 0..Stages,      \* analyzers whose Finished was emitted
          running : BOOLEAN,        \* a Started not yet followed by Finished
          outcome : Outcomes]       \* what Scan returned, "none" while it runs

fresh == [settled |-> 0, running |-> FALSE, outcome |-> "none"]

ContractInit == scan = fresh

live == scan.outcome = "none"

\* The next analyzer starts.
Started ==
    /\ live /\ ~scan.running /\ scan.settled < Stages
    /\ scan' = [scan EXCEPT !.running = TRUE]

\* The running analyzer is classified: complete, partial or failed.
Settled ==
    /\ live /\ scan.running
    /\ scan' = [scan EXCEPT !.running = FALSE, !.settled = @ + 1]

ReturnsResult ==
    /\ live /\ ~scan.running /\ scan.settled = Stages
    /\ scan' = [scan EXCEPT !.outcome = "result"]

\* Scan may fail at any point; an analyzer it had started stays unfinished.
ReturnsError(why) ==
    /\ live /\ why \in {"canceled", "failed"}
    /\ scan' = [scan EXCEPT !.outcome = why]

\* The scan of the next page.
Again == ~live /\ scan' = fresh

ContractNext ==
    \/ Started
    \/ Settled
    \/ ReturnsResult
    \/ \E why \in Outcomes : ReturnsError(why)
    \/ Again

Contract == ContractInit /\ [][ContractNext]_scan

=============================================================================
