----------------------- MODULE InteractiveScanProofs ------------------------
(***************************************************************************)
(* Proofs about InteractiveScan for any number of analyzers and pages and  *)
(* for any capacity of the channel.  Two arguments: the main goroutine     *)
(* brackets the scan goroutine, and the messages of a scan whose result    *)
(* is still to be had reach the view complete and in order.                *)
(***************************************************************************)
EXTENDS InteractiveScan, SequenceTheorems, TLAPS

(* The main goroutine brackets the scan's and the view's. *)
Phases ==
  /\ spc = "idle" <=> mpc \notin {"viewing", "cancel", "join"}
  /\ closed => spc = "idle"
  /\ exit # -1 => mpc = "exited"
  /\ mpc # "viewing" => vpc \in {"off", "ended"}
  /\ mpc \in {"viewing", "cancel", "join", "close", "classify"} => Len(pages) < targets

(* How far the scan is, by the place of its goroutine. *)
ScanSound ==
  /\ scan.running => scan.settled < Stages
  /\ spc \in {"running", "sending", "passed"} => scan.outcome = "none"
  /\ spc = "passed" => scan.settled = Stages /\ ~scan.running
  /\ spc \in {"final", "deliver", "done"} => scan.outcome # "none"
  /\ scan.outcome = "result" => scan.settled = Stages

(* What the scan goroutine holds between making a message and sending it. *)
OutboxSound ==
  /\ spc \notin {"sending", "final"} => outbox = None
  /\ spc = "sending" => outbox \in Messages /\ outbox.kind # "final"
  /\ spc = "final" => outbox = Message("final", 0, scan.outcome)

(* A message on its way is with the reader, in the channel or in the outbox: *)
(* the lower its place, the sooner the view handles it.                      *)
Places == 0..Len(msgs) + 1
At(k) == IF k = 0 THEN reader ELSE IF k <= Len(msgs) THEN msgs[k] ELSE outbox

(* The final message has the scan's outcome, and nothing follows it. *)
FinalLast ==
  \A k \in Places : At(k).kind = "final" =>
     /\ At(k).outcome = scan.outcome /\ scan.outcome # "none"
     /\ \A l \in Places : l > k => At(l) = None

StartedMsg(i) == Message("started", i, "none")
SettledMsg(i) == Message("settled", i, "none")

(* The view has settled analyzer i, or will; no older message undoes it. *)
Arrives(i) ==
  \/ stages[i] = "settled" /\ \A k \in Places : At(k) # StartedMsg(i)
  \/ \E k \in Places : /\ At(k) = SettledMsg(i)
                       /\ \A l \in Places : l > k => At(l) # StartedMsg(i)

(* A scan that can no longer return a result. *)
Doomed ==
  \/ scanCtxDone /\ spc \in {"running", "sending"}
  \/ scan.outcome \in {"canceled", "failed"}

Arrivals == ~Doomed => \A i \in 1..scan.settled : Arrives(i)

(* What the view has seen of the outcome is the outcome. *)
ViewSound ==
  /\ shown # "none" => shown = scan.outcome /\ reader = None
  /\ (runErr = "nil" /\ mpc \in {"cancel", "join", "close", "classify"})
        => shown # "none"

IInv == /\ TypeOK /\ Phases /\ ScanSound /\ OutboxSound /\ FinalLast
        /\ Arrivals /\ ViewSound /\ FullBarIsTrue /\ RecordedPagesAreScanned
-----------------------------------------------------------------------------
(* The three kinds of messages and the two that are none differ. *)
LEMMA Kinds ==
  /\ None \notin Messages /\ Reading \notin Messages /\ None # Reading
  /\ None.kind # "final" /\ Reading.kind # "final"
  /\ \A i \in 1..Stages : /\ StartedMsg(i) \in Messages /\ StartedMsg(i).kind = "started"
                          /\ SettledMsg(i) \in Messages /\ SettledMsg(i).kind = "settled"
                          /\ StartedMsg(i).source = i /\ SettledMsg(i).source = i
                          /\ StartedMsg(i) \notin {None, Reading}
                          /\ SettledMsg(i) \notin {None, Reading}
  /\ \A o \in Outcomes \ {"none"} : /\ Message("final", 0, o) \in Messages
                                    /\ Message("final", 0, o).kind = "final"
                                    /\ Message("final", 0, o).outcome = o
BY DEF Messages, Message, None, Reading, StartedMsg, SettledMsg, Outcomes

LEMMA MessageForms ==
  ASSUME NEW m \in Messages
  PROVE  \/ m.kind = "started" /\ m.source \in 1..Stages /\ m = StartedMsg(m.source)
         \/ m.kind = "settled" /\ m.source \in 1..Stages /\ m = SettledMsg(m.source)
         \/ m.kind = "final" /\ m.source = 0 /\ m.outcome \in Outcomes \ {"none"}
BY DEF Messages, Message, StartedMsg, SettledMsg

(* The invariant holds initially. *)
LEMMA InitIInv == Init => IInv
<1> SUFFICES ASSUME Init PROVE IInv
  OBVIOUS
<1> USE InteractiveAssumption, StagesAssumption
<1>1. /\ <<>> \in Seq(Messages) /\ <<>> \in Seq({"result", "failed"})
      /\ Len(<<>>) = 0
  OBVIOUS
<1>2. scan \in Scans /\ scan.settled = 0 /\ ~scan.running /\ scan.outcome = "none"
  BY DEF Init, ContractInit, fresh, Scans, Outcomes
<1>3. TypeOK
  <2>1. msgs \in Seq(Messages) /\ Len(msgs) <= Buffer
    BY <1>1 DEF Init
  <2>2. pages \in Seq({"result", "failed"}) /\ Len(pages) <= targets
    BY <1>1 DEF Init
  <2>3. stages \in [1..Stages -> StageStates]
    BY DEF Init, AllPending, StageStates
  <2> QED
    BY <1>2, <2>1, <2>2, <2>3 DEF TypeOK, Init, Outcomes
<1>4. Phases
  BY DEF Phases, Init
<1>5. ScanSound /\ OutboxSound
  BY <1>2 DEF ScanSound, OutboxSound, Init
<1>6. \A k \in Places : At(k) = None
  BY <1>1 DEF Places, At, Init
<1>7. FinalLast
  BY <1>6, Kinds DEF FinalLast
<1>8. Arrivals
  BY <1>2 DEF Arrivals
<1>9. ViewSound /\ FullBarIsTrue /\ RecordedPagesAreScanned
  BY DEF ViewSound, FullBarIsTrue, RecordedPagesAreScanned, Init
<1> QED
  BY <1>3, <1>4, <1>5, <1>7, <1>8, <1>9 DEF IInv
-----------------------------------------------------------------------------
(* The steps, in the order Next lists them. *)
SmallSteps ==
  \/ AppCanceled \/ Emits \/ ScanPasses \/ ScanEnds \/ SendMsg \/ DropMsg \/ Deliver
  \/ ReaderTakes \/ UpdateEvent \/ UpdateFinal \/ ViewQuits \/ KeyPressed
  \/ ViewStops("killed") \/ ViewStops("failed")
  \/ StartPage \/ RunProgressReturns \/ CancelScan \/ Join \/ CloseMsgs
  \/ ViewBroke \/ PageCanceled \/ PageRecorded
  \/ (\E code \in {1, 2} : SingleFailed(code))
  \/ (\E ok \in BOOLEAN : WriteReport(ok))

LEMMA NextIsSmall == Next <=> SmallSteps
BY DEF Next, SmallSteps, ScanGoroutine, Sends, View, Main

(* What a scan's own step makes of its record. *)
LEMMA ScanSteps ==
  ASSUME scan \in Scans, scan.running => scan.settled < Stages
  PROVE  /\ Started => /\ scan' \in Scans /\ scan.settled < Stages
                       /\ scan'.running /\ scan'.settled = scan.settled
                       /\ scan'.outcome = "none"
         /\ Settled => /\ scan' \in Scans /\ scan.settled < Stages
                       /\ ~scan'.running /\ scan'.settled = scan.settled + 1
                       /\ scan'.outcome = "none"
         /\ ReturnsResult => /\ scan' \in Scans /\ scan.settled = Stages
                             /\ ~scan'.running /\ scan'.settled = scan.settled
                             /\ scan'.outcome = "result"
         /\ \A why \in Outcomes : ReturnsError(why) =>
              /\ scan' \in Scans /\ scan'.settled = scan.settled
              /\ scan'.running = scan.running
              /\ scan'.outcome = why /\ why \in {"canceled", "failed"}
<1> USE StagesAssumption
<1>0. /\ scan.settled \in 0..Stages /\ scan.running \in BOOLEAN
      /\ scan = [settled |-> scan.settled, running |-> scan.running, outcome |-> scan.outcome]
  BY DEF Scans
<1>1. Started => /\ scan' \in Scans /\ scan.settled < Stages
                 /\ scan'.running /\ scan'.settled = scan.settled
                 /\ scan'.outcome = "none"
  BY <1>0 DEF Started, live, Scans
<1>2. Settled => /\ scan' \in Scans /\ scan.settled < Stages
                 /\ ~scan'.running /\ scan'.settled = scan.settled + 1
                 /\ scan'.outcome = "none"
  <2> SUFFICES ASSUME Settled PROVE /\ scan' \in Scans /\ scan.settled < Stages
                                    /\ ~scan'.running /\ scan'.settled = scan.settled + 1
                                    /\ scan'.outcome = "none"
    OBVIOUS
  <2>1. scan.settled < Stages /\ scan.settled + 1 \in 0..Stages /\ scan.outcome = "none"
    BY <1>0 DEF Settled, live
  <2>2. scan' = [settled |-> scan.settled + 1, running |-> FALSE, outcome |-> "none"]
    BY <1>0, <2>1 DEF Settled
  <2> QED
    BY <2>1, <2>2 DEF Scans, Outcomes
<1>3. ReturnsResult => /\ scan' \in Scans /\ scan.settled = Stages
                       /\ ~scan'.running /\ scan'.settled = scan.settled
                       /\ scan'.outcome = "result"
  BY <1>0 DEF ReturnsResult, live, Scans, Outcomes
<1>4. \A why \in Outcomes : ReturnsError(why) =>
              /\ scan' \in Scans /\ scan'.settled = scan.settled
              /\ scan'.running = scan.running
              /\ scan'.outcome = why /\ why \in {"canceled", "failed"}
  BY <1>0 DEF ReturnsError, live, Scans, Outcomes
<1> QED
  BY <1>1, <1>2, <1>3, <1>4

LEMMA FreshScan ==
  fresh \in Scans /\ fresh.settled = 0 /\ ~fresh.running /\ fresh.outcome = "none"
BY StagesAssumption DEF fresh, Scans, Outcomes

(* Phases, ScanSound and OutboxSound are kept together: they say where the *)
(* goroutines are.                                                         *)
LEMMA PhaseStep ==
  ASSUME TypeOK, Phases, ScanSound, OutboxSound, [Next]_vars
  PROVE  Phases' /\ ScanSound' /\ OutboxSound'
<1> USE StagesAssumption, InteractiveAssumption
<1>0. SmallSteps \/ UNCHANGED vars
  BY NextIsSmall
<1>1. scan \in Scans /\ (scan.running => scan.settled < Stages)
  BY DEF TypeOK, ScanSound
<1>2. CASE AppCanceled
  BY <1>2 DEF AppCanceled, Phases, ScanSound, OutboxSound, scanVars, viewVars, mainVars
<1>3. CASE Emits
  <2>1. \/ Started /\ outbox' = StartedMsg(scan.settled + 1)
        \/ Settled /\ outbox' = SettledMsg(scan.settled + 1)
    BY <1>3 DEF Emits, StartedMsg, SettledMsg
  <2>2. /\ spc = "running" /\ spc' = "sending" /\ UNCHANGED <<mpc, closed, exit, vpc, pages, targets>>
    BY <1>3 DEF Emits, scanFrame, viewVars, mainVars
  <2>3. scan' \in Scans /\ scan.settled < Stages /\ scan'.outcome = "none"
        /\ (scan'.running => scan'.settled < Stages)
    BY <1>1, <2>1, ScanSteps DEF Scans
  <2>4. outbox' \in Messages /\ outbox'.kind # "final"
    <3>1. scan.settled + 1 \in 1..Stages
      BY <1>1, <2>3 DEF Scans
    <3> QED
      BY <2>1, <3>1, Kinds
  <2> QED
    BY <2>2, <2>3, <2>4 DEF Phases, ScanSound, OutboxSound
<1>4. CASE ScanPasses
  BY <1>4 DEF ScanPasses, Phases, ScanSound, OutboxSound, scanFrame, viewVars, mainVars
<1>5. CASE ScanEnds
  <2>1. /\ spc \in {"running", "passed"} /\ spc' = "final"
        /\ outbox' = Message("final", 0, scan'.outcome)
        /\ UNCHANGED <<mpc, closed, exit, vpc, pages, targets>>
    BY <1>5 DEF ScanEnds, scanFrame, viewVars, mainVars
  <2>2. ReturnsResult \/ \E why \in Outcomes : ReturnsError(why)
    BY <1>5 DEF ScanEnds, Outcomes
  <2>3. /\ scan'.outcome # "none" /\ (scan'.running => scan'.settled < Stages)
        /\ scan'.outcome = "result" => scan'.settled = Stages
    BY <1>1, <2>2, ScanSteps
  <2> QED
    BY <2>1, <2>3 DEF Phases, ScanSound, OutboxSound
<1>6. CASE SendMsg
  BY <1>6 DEF SendMsg, afterSend, Phases, ScanSound, OutboxSound, scanFrame, viewVars, mainVars
<1>7. CASE DropMsg
  BY <1>7 DEF DropMsg, afterSend, Phases, ScanSound, OutboxSound, scanFrame, viewVars, mainVars
<1>8. CASE Deliver
  BY <1>8 DEF Deliver, Phases, ScanSound, OutboxSound, scanFrame, viewVars, mainVars
<1>9. CASE \/ ReaderTakes \/ UpdateEvent \/ UpdateFinal \/ ViewQuits \/ KeyPressed
           \/ ViewStops("killed") \/ ViewStops("failed")
  <2>1. /\ UNCHANGED <<scan, spc, outbox, mpc, closed, exit, pages, targets>>
        /\ vpc \in {"running", "quitting"} \/ UNCHANGED vpc
    BY <1>9 DEF ReaderTakes, UpdateEvent, UpdateFinal, ViewQuits, KeyPressed, ViewStops,
                ViewRuns, viewFrame, scanVars, mainVars
  <2> QED
    BY <2>1 DEF Phases, ScanSound, OutboxSound
<1>10. CASE StartPage
  BY <1>10, FreshScan DEF StartPage, Phases, ScanSound, OutboxSound
<1>11. CASE RunProgressReturns \/ CancelScan
  BY <1>11 DEF RunProgressReturns, CancelScan, Phases, ScanSound, OutboxSound, mainFrame,
               scanVars, viewVars
<1>12. CASE Join
  BY <1>12 DEF Join, scanJoined, Phases, ScanSound, OutboxSound, mainFrame, viewVars
<1>13. CASE CloseMsgs
  BY <1>13 DEF CloseMsgs, Phases, ScanSound, OutboxSound, mainFrame, scanVars, viewVars
<1>14. CASE ViewBroke \/ PageCanceled \/ (\E code \in {1, 2} : SingleFailed(code))
  BY <1>14 DEF ViewBroke, PageCanceled, SingleFailed, Exits, classifyFrame, scanVars,
               viewVars, Phases, ScanSound, OutboxSound
<1>15. CASE PageRecorded
  <2>1. pages \in Seq({"result", "failed"}) /\ Len(pages) \in Nat /\ targets \in Nat
    BY DEF TypeOK
  <2>2. pageOutcome \in {"result", "failed"} /\ pages' = Append(pages, pageOutcome)
    BY <1>15 DEF PageRecorded
  <2>3. Len(pages') = Len(pages) + 1
    BY <2>1, <2>2
  <2> QED
    BY <1>15, <2>1, <2>3 DEF PageRecorded, classifyFrame, scanVars, viewVars, Phases,
                             ScanSound, OutboxSound
<1>16. CASE \E ok \in BOOLEAN : WriteReport(ok)
  BY <1>16 DEF WriteReport, Exits, classifyFrame, scanVars, viewVars, Phases, ScanSound,
               OutboxSound
<1>17. CASE UNCHANGED vars
  BY <1>17 DEF vars, scanVars, viewVars, mainVars, Phases, ScanSound, OutboxSound
<1> QED
  BY <1>0, <1>2, <1>3, <1>4, <1>5, <1>6, <1>7, <1>8, <1>9, <1>10, <1>11, <1>12, <1>13,
     <1>14, <1>15, <1>16, <1>17 DEF SmallSteps
-----------------------------------------------------------------------------
(* Where messages go. *)
LEMMA PlacesMove ==
  ASSUME TypeOK
  PROVE  /\ Len(msgs) \in Nat
         /\ At(Len(msgs) + 1) = outbox /\ At(0) = reader
         /\ UNCHANGED <<reader, msgs, outbox>> =>
              Places' = Places /\ \A k \in Places : At(k)' = At(k)
         /\ UNCHANGED <<reader, msgs>> =>
              /\ Places' = Places /\ \A k \in Places : k <= Len(msgs) => At(k)' = At(k)
              /\ At(Len(msgs) + 1)' = outbox'
         /\ UNCHANGED <<msgs, outbox>> =>
              /\ Places' = Places /\ \A k \in Places : k > 0 => At(k)' = At(k)
              /\ At(0)' = reader'
<1>1. Len(msgs) \in Nat
  BY DEF TypeOK
<1> QED
  BY <1>1 DEF At, Places

LEMMA SendMoves ==
  ASSUME TypeOK, SendMsg
  PROVE  /\ Places' = 0..Len(msgs) + 2
         /\ \A k \in Places : At(k)' = At(k)
         /\ At(Len(msgs) + 2)' = None
<1>1. msgs \in Seq(Messages) /\ Len(msgs) \in Nat
  BY DEF TypeOK
<1>2. msgs' = Append(msgs, outbox) /\ outbox' = None /\ reader' = reader
  BY DEF SendMsg, scanFrame, viewVars
<1>3. /\ Len(msgs') = Len(msgs) + 1
      /\ msgs'[Len(msgs) + 1] = outbox
      /\ \A k \in 1..Len(msgs) : msgs'[k] = msgs[k]
  BY <1>1, <1>2
<1> QED
  BY <1>1, <1>2, <1>3 DEF At, Places

LEMMA ReaderMoves ==
  ASSUME TypeOK, ReaderTakes
  PROVE  /\ At(0) = Reading
         /\ \A k \in Places : k > 0 => k - 1 \in Places' /\ At(k - 1)' = At(k)
         /\ \A k \in Places' : k + 1 \in Places /\ At(k)' = At(k + 1)
<1>1. msgs \in Seq(Messages) /\ Len(msgs) \in Nat /\ msgs # <<>>
  BY DEF TypeOK, ReaderTakes
<1>2. msgs' = Tail(msgs) /\ outbox' = outbox /\ reader' = Head(msgs) /\ reader = Reading
  BY DEF ReaderTakes, viewFrame, scanVars
<1>3. /\ Len(msgs) > 0 /\ Len(msgs') = Len(msgs) - 1
      /\ \A k \in 1..Len(msgs) - 1 : msgs'[k] = msgs[k + 1]
      /\ Head(msgs) = msgs[1]
  BY <1>1, <1>2, HeadTailProperties
<1> QED
  BY <1>1, <1>2, <1>3 DEF At, Places

(* The view's steps and the main goroutine's leave the scan's messages. *)
LEMMA QuietStream ==
  ASSUME TypeOK, FinalLast, Arrivals,
         UNCHANGED <<reader, msgs, outbox, scan, spc, stages>>,
         scanCtxDone => scanCtxDone'
  PROVE  FinalLast' /\ Arrivals'
<1>1. Places' = Places /\ \A k \in Places : At(k)' = At(k)
  BY PlacesMove
<1>2. FinalLast'
  BY <1>1 DEF FinalLast
<1>3. Doomed => Doomed'
  BY DEF Doomed
<1>4. \A i \in 1..scan.settled : Arrives(i) => Arrives(i)'
  BY <1>1 DEF Arrives
<1> QED
  BY <1>2, <1>3, <1>4 DEF Arrivals

LEMMA EmitsStream ==
  ASSUME TypeOK, ScanSound, OutboxSound, FinalLast, Arrivals, Emits
  PROVE  FinalLast' /\ Arrivals'
<1> DEFINE last == Len(msgs) + 1
<1>1. /\ UNCHANGED <<reader, msgs, stages, appDone, cancelCalled>>
      /\ spc = "running" /\ spc' = "sending" /\ outbox = None /\ scan.outcome = "none"
  BY DEF Emits, scanFrame, viewVars, OutboxSound, ScanSound
<1>2. /\ Len(msgs) \in Nat /\ last \in Places /\ Places' = Places
      /\ \A k \in Places : k # last => k < last /\ At(k)' = At(k)
      /\ At(last) = None /\ At(last)' = outbox'
  BY <1>1, PlacesMove DEF Places
<1>3. scan \in Scans /\ (scan.running => scan.settled < Stages)
  BY DEF TypeOK, ScanSound
<1>4. \/ Started /\ outbox' = StartedMsg(scan.settled + 1)
      \/ Settled /\ outbox' = SettledMsg(scan.settled + 1)
  BY DEF Emits, StartedMsg, SettledMsg
<1>5. scan.settled + 1 \in 1..Stages /\ scan.settled \in Nat /\ scan'.outcome = "none"
  BY <1>3, <1>4, ScanSteps, StagesAssumption DEF Scans
<1>6. outbox'.kind # "final"
  BY <1>4, <1>5, Kinds
<1>7. FinalLast'
  <2> SUFFICES ASSUME NEW k \in Places, At(k)'.kind = "final" PROVE FALSE
    BY <1>2 DEF FinalLast
  <2> QED
    BY <1>1, <1>2, <1>6 DEF FinalLast
<1>8. Doomed => Doomed'
  BY <1>1, <1>3 DEF Doomed, scanCtxDone
<1>9. ASSUME NEW i \in 1..scan.settled, Arrives(i)
      PROVE  Arrives(i)'
  <2>1. outbox' # StartedMsg(i)
    <3>1. CASE outbox' = StartedMsg(scan.settled + 1)
      BY <3>1, <1>5 DEF StartedMsg, Message
    <3>2. CASE outbox' = SettledMsg(scan.settled + 1)
      BY <3>2 DEF StartedMsg, SettledMsg, Message
    <3> QED
      BY <1>4, <3>1, <3>2
  <2>2. SettledMsg(i) # None
    BY DEF SettledMsg, Message, None
  <2> QED
    BY <1>1, <1>2, <1>9, <2>1, <2>2 DEF Arrives
<1>10. CASE Started
  <2>1. scan'.settled = scan.settled
    BY <1>10, <1>3, ScanSteps
  <2> QED
    BY <1>7, <1>8, <1>9, <2>1 DEF Arrivals
<1>11. CASE Settled
  <2>1. scan'.settled = scan.settled + 1
    BY <1>11, <1>3, ScanSteps
  <2>2. outbox' = SettledMsg(scan.settled + 1)
    <3>1. scan.running /\ ~(Started)
      BY <1>11 DEF Started, Settled
    <3> QED
      BY <3>1, <1>4
  <2>3. ASSUME NEW j \in 1..Stages, j = scan.settled + 1
        PROVE  Arrives(j)'
    <3>1. PICK k \in Places : k = last
      BY <1>2
    <3>2. k \in Places' /\ At(k)' = SettledMsg(j)
      BY <1>1, <1>2, <2>2, <2>3, <3>1 DEF At
    <3>3. \A l \in Places' : ~(l > k)
      BY <1>1, <1>2, <3>1 DEF Places
    <3> QED
      BY <3>2, <3>3 DEF Arrives
  <2>4. \A i \in 1..(scan.settled + 1) : i \in 1..scan.settled \/ i = scan.settled + 1
    BY <1>5
  <2>5. \A i \in 1..scan'.settled : i \in 1..scan.settled \/ (i \in 1..Stages /\ i = scan.settled + 1)
    BY <1>5, <2>1, <2>4
  <2> QED
    BY <1>7, <1>8, <1>9, <2>3, <2>5 DEF Arrivals
<1> QED
  BY <1>4, <1>10, <1>11

LEMMA ScanEndsStream ==
  ASSUME TypeOK, ScanSound, OutboxSound, FinalLast, Arrivals, ScanEnds
  PROVE  FinalLast' /\ Arrivals'
<1> DEFINE last == Len(msgs) + 1
<1>1. /\ UNCHANGED <<reader, msgs, stages, appDone, cancelCalled>>
      /\ spc \in {"running", "passed"} /\ spc' = "final" /\ outbox = None
      /\ scan.outcome = "none" /\ outbox' = Message("final", 0, scan'.outcome)
  BY DEF ScanEnds, scanFrame, viewVars, OutboxSound, ScanSound
<1>2. /\ Len(msgs) \in Nat /\ last \in Places /\ Places' = Places
      /\ \A k \in Places : k # last => k < last /\ At(k)' = At(k)
      /\ \A k \in Places : k = last => At(k)' = outbox' /\ At(k) = None
  BY <1>1, PlacesMove DEF Places, At
<1>3. scan \in Scans /\ (scan.running => scan.settled < Stages)
  BY DEF TypeOK, ScanSound
<1>4. /\ scan'.settled = scan.settled /\ scan'.outcome \in Outcomes \ {"none"}
      /\ spc = "running" => scan'.outcome \in {"canceled", "failed"}
  <2>1. \/ spc = "passed" /\ ReturnsResult
        \/ \E why \in Outcomes : ReturnsError(why)
    BY DEF ScanEnds, Outcomes
  <2> QED
    BY <2>1, <1>3, ScanSteps DEF Outcomes
<1>5. FinalLast'
  <2>1. \A k \in Places : At(k).kind # "final"
    BY <1>1 DEF FinalLast
  <2>2. outbox'.outcome = scan'.outcome
    BY <1>1, <1>4, Kinds
  <2> SUFFICES ASSUME NEW k \in Places', At(k)'.kind = "final"
               PROVE  /\ At(k)'.outcome = scan'.outcome /\ scan'.outcome # "none"
                      /\ \A l \in Places' : ~(l > k)
    BY DEF FinalLast
  <2>3. k \in Places /\ k = last
    BY <1>2, <2>1
  <2> QED
    BY <1>2, <1>4, <2>2, <2>3 DEF Places
<1>6. Doomed => Doomed'
  BY <1>1, <1>4 DEF Doomed
<1>7. ASSUME NEW i \in 1..scan.settled, Arrives(i)
      PROVE  Arrives(i)'
  <2>1. outbox' # StartedMsg(i) /\ None # SettledMsg(i)
    BY <1>1 DEF StartedMsg, SettledMsg, Message, None
  <2> QED
    BY <1>1, <1>2, <1>7, <2>1 DEF Arrives
<1> QED
  BY <1>4, <1>5, <1>6, <1>7 DEF Arrivals

LEMMA SendStream ==
  ASSUME TypeOK, ScanSound, OutboxSound, FinalLast, Arrivals, SendMsg
  PROVE  FinalLast' /\ Arrivals'
<1> DEFINE new == Len(msgs) + 2
<1>1. /\ UNCHANGED <<reader, stages, scan, appDone, cancelCalled>>
      /\ \/ spc = "sending" /\ spc' = "running"
         \/ spc = "final" /\ spc' = "deliver" /\ scan.outcome # "none"
  BY DEF SendMsg, afterSend, scanFrame, viewVars, ScanSound
<1>2. /\ Len(msgs) \in Nat /\ Places = 0..Len(msgs) + 1 /\ Places' = 0..new
      /\ \A k \in Places : At(k)' = At(k)
      /\ \A k \in Places' : k \in Places \/ (k = new /\ At(k)' = None)
  <2>1. Len(msgs) \in Nat
    BY PlacesMove
  <2>2. msgs \in Seq(Messages) /\ msgs' = Append(msgs, outbox) /\ outbox' = None
    BY DEF SendMsg, TypeOK
  <2>3. Len(msgs') = Len(msgs) + 1
    BY <2>2
  <2> QED
    BY <2>1, <2>2, <2>3, SendMoves DEF Places, At
<1>3. FinalLast'
  <2> SUFFICES ASSUME NEW k \in Places', At(k)'.kind = "final"
               PROVE  /\ At(k)'.outcome = scan'.outcome /\ scan'.outcome # "none"
                      /\ \A l \in Places' : l > k => At(l)' = None
    BY DEF FinalLast
  <2>1. k \in Places /\ At(k).kind = "final"
    BY <1>2, Kinds
  <2> QED
    BY <1>1, <1>2, <2>1 DEF FinalLast
<1>4. Doomed => Doomed'
  BY <1>1 DEF Doomed, scanCtxDone
<1>5. ASSUME NEW i \in 1..scan.settled, Arrives(i)
      PROVE  Arrives(i)'
  <2>1. Places \subseteq Places'
    BY <1>2
  <2>2. None # StartedMsg(i)
    BY DEF StartedMsg, Message, None
  <2> QED
    BY <1>1, <1>2, <1>5, <2>1, <2>2 DEF Arrives
<1> QED
  BY <1>1, <1>3, <1>4, <1>5 DEF Arrivals

LEMMA DropStream ==
  ASSUME TypeOK, ScanSound, OutboxSound, FinalLast, Arrivals, DropMsg
  PROVE  FinalLast' /\ Arrivals'
<1> DEFINE last == Len(msgs) + 1
<1>1. /\ UNCHANGED <<reader, msgs, stages, scan, appDone, cancelCalled>> /\ outbox' = None
      /\ \/ spc = "sending" /\ spc' = "running" /\ scanCtxDone /\ scanCtxDone'
         \/ /\ spc = "final" /\ spc' = "deliver" /\ scan.outcome # "none"
            /\ outbox = Message("final", 0, scan.outcome)
  BY DEF DropMsg, sendDropped, afterSend, scanFrame, viewVars, ScanSound, OutboxSound,
         scanCtxDone
<1>2. /\ Len(msgs) \in Nat /\ Places' = Places
      /\ \A k \in Places : k # last => k < last /\ At(k)' = At(k)
      /\ \A k \in Places : k = last => At(k)' = None /\ At(k) = outbox
  BY <1>1, PlacesMove DEF Places, At
<1>3. FinalLast'
  BY <1>1, <1>2, Kinds DEF FinalLast
<1>4. CASE spc = "sending"
  BY <1>1, <1>3, <1>4 DEF Arrivals, Doomed
<1>5. CASE spc = "final"
  <2>1. Doomed => Doomed'
    BY <1>1, <1>5 DEF Doomed
  <2>2. ASSUME NEW i \in 1..scan.settled, Arrives(i)
        PROVE  Arrives(i)'
    <3>1. outbox = Message("final", 0, scan.outcome)
      BY <1>1, <1>5
    <3>2. None # StartedMsg(i) /\ outbox # SettledMsg(i)
      BY <3>1 DEF StartedMsg, SettledMsg, Message, None
    <3> QED
      BY <1>1, <1>2, <2>2, <3>2 DEF Arrives
  <2> QED
    BY <1>1, <1>3, <2>1, <2>2 DEF Arrivals
<1> QED
  BY <1>1, <1>4, <1>5

LEMMA ReaderStream ==
  ASSUME TypeOK, FinalLast, Arrivals, ReaderTakes
  PROVE  FinalLast' /\ Arrivals'
<1>1. UNCHANGED <<stages, scan, spc, appDone, cancelCalled>>
  BY DEF ReaderTakes, viewFrame, scanVars
<1>2. /\ At(0) = Reading
      /\ \A k \in Places : k > 0 => k - 1 \in Places' /\ At(k - 1)' = At(k)
      /\ \A k \in Places' : k + 1 \in Places /\ At(k)' = At(k + 1)
      /\ \A k \in Places : k \in Nat
      /\ \A k \in Places' : k \in Nat
  BY ReaderMoves DEF Places
<1>3. FinalLast'
  <2> SUFFICES ASSUME NEW k \in Places', At(k)'.kind = "final"
               PROVE  /\ At(k)'.outcome = scan'.outcome /\ scan'.outcome # "none"
                      /\ \A l \in Places' : l > k => At(l)' = None
    BY DEF FinalLast
  <2>1. k + 1 \in Places /\ At(k + 1).kind = "final" /\ At(k)' = At(k + 1)
    BY <1>2
  <2>2. \A l \in Places' : l > k => l + 1 \in Places /\ l + 1 > k + 1 /\ At(l)' = At(l + 1)
    BY <1>2
  <2> QED
    BY <1>1, <2>1, <2>2 DEF FinalLast
<1>4. Doomed => Doomed'
  BY <1>1 DEF Doomed, scanCtxDone
<1>5. ASSUME NEW i \in 1..scan.settled, Arrives(i)
      PROVE  Arrives(i)'
  <2>1. CASE stages[i] = "settled" /\ \A k \in Places : At(k) # StartedMsg(i)
    BY <1>1, <1>2, <2>1 DEF Arrives
  <2>2. CASE \E k \in Places : /\ At(k) = SettledMsg(i)
                               /\ \A l \in Places : l > k => At(l) # StartedMsg(i)
    <3>1. PICK k \in Places : /\ At(k) = SettledMsg(i)
                              /\ \A l \in Places : l > k => At(l) # StartedMsg(i)
      BY <2>2
    <3>2. Reading # SettledMsg(i)
      BY DEF Reading, SettledMsg, Message
    <3>3. k > 0 /\ k - 1 \in Places' /\ At(k - 1)' = SettledMsg(i)
      BY <1>2, <3>1, <3>2
    <3>4. \A l \in Places' : l > k - 1 => l + 1 \in Places /\ l + 1 > k /\ At(l)' = At(l + 1)
      BY <1>2
    <3> QED
      BY <3>1, <3>3, <3>4 DEF Arrives
  <2> QED
    BY <1>5, <2>1, <2>2 DEF Arrives
<1> QED
  BY <1>1, <1>3, <1>4, <1>5 DEF Arrivals

LEMMA UpdateEventStream ==
  ASSUME TypeOK, FinalLast, Arrivals, UpdateEvent
  PROVE  FinalLast' /\ Arrivals'
<1>1. /\ UNCHANGED <<msgs, outbox, scan, spc, appDone, cancelCalled>>
      /\ reader \in Messages /\ reader.kind # "final" /\ reader' = Reading
      /\ stages' = [stages EXCEPT ![reader.source] =
                      IF reader.kind = "started" THEN "running" ELSE "settled"]
  BY DEF UpdateEvent, viewFrame, scanVars
<1>2. /\ 0 \in Places /\ At(0) = reader /\ Places' = Places
      /\ \A k \in Places : k # 0 => k > 0 /\ At(k)' = At(k)
      /\ \A k \in Places : k = 0 => At(k)' = Reading
      /\ \A k \in Places : ~(0 > k)
  BY <1>1, PlacesMove DEF Places, At
<1>3. \/ reader.source \in 1..Stages /\ reader = StartedMsg(reader.source)
                                     /\ reader.kind = "started"
      \/ reader.source \in 1..Stages /\ reader = SettledMsg(reader.source)
                                     /\ reader.kind = "settled"
  BY <1>1, MessageForms
<1>4. stages \in [1..Stages -> StageStates] /\ scan \in Scans
  BY DEF TypeOK
<1>5. FinalLast'
  BY <1>1, <1>2, Kinds DEF FinalLast
<1>6. Doomed => Doomed'
  BY <1>1 DEF Doomed, scanCtxDone
<1>7. ASSUME NEW i \in 1..scan.settled, Arrives(i)
      PROVE  Arrives(i)'
  <2>1. i \in 1..Stages
    BY <1>4, StagesAssumption DEF Scans
  <2>2. Reading # StartedMsg(i) /\ Reading # SettledMsg(i)
    BY DEF Reading, StartedMsg, SettledMsg, Message
  <2>3. CASE reader = SettledMsg(i) /\ reader.source = i /\ reader.kind = "settled"
    <3>1. stages'[i] = "settled"
      BY <1>1, <1>4, <2>1, <2>3
    <3>2. CASE \A k \in Places : k > 0 => At(k) # StartedMsg(i)
      BY <1>2, <2>2, <3>1, <3>2 DEF Arrives
    <3>3. CASE ~ \A k \in Places : k > 0 => At(k) # StartedMsg(i)
      <4>1. PICK k \in Places : /\ At(k) = SettledMsg(i)
                                /\ \A l \in Places : l > k => At(l) # StartedMsg(i)
        BY <1>7, <3>3 DEF Arrives
      <4>2. k # 0
        BY <3>3, <4>1
      <4> QED
        BY <1>2, <2>2, <4>1, <4>2 DEF Arrives
    <3> QED
      BY <3>2, <3>3
  <2>4. CASE reader = StartedMsg(i) /\ reader.source = i /\ reader.kind = "started"
    <3>1. PICK k \in Places : /\ At(k) = SettledMsg(i)
                              /\ \A l \in Places : l > k => At(l) # StartedMsg(i)
      BY <1>2, <1>7, <2>4 DEF Arrives
    <3>2. k # 0
      BY <1>2, <2>1, <2>4, <3>1, Kinds
    <3> QED
      BY <1>2, <2>2, <3>1, <3>2 DEF Arrives
  <2>5. CASE reader.source # i
    <3>1. reader # SettledMsg(i) /\ reader # StartedMsg(i) /\ stages'[i] = stages[i]
      BY <1>1, <1>4, <2>1, <2>5, Kinds
    <3> QED
      BY <1>2, <1>7, <2>2, <3>1 DEF Arrives
  <2> QED
    BY <1>3, <2>3, <2>4, <2>5
<1> QED
  BY <1>1, <1>5, <1>6, <1>7 DEF Arrivals

(* Nothing follows the final message, so every analyzer it vouches for has *)
(* been settled on the screen.                                             *)
LEMMA UpdateFinalStream ==
  ASSUME TypeOK, ScanSound, FinalLast, Arrivals, UpdateFinal
  PROVE  /\ FinalLast' /\ Arrivals'
         /\ reader.outcome = scan.outcome /\ scan.outcome # "none"
         /\ scan.outcome = "result" =>
              stages' = stages /\ \A i \in 1..Stages : stages[i] = "settled"
<1>1. /\ UNCHANGED <<msgs, outbox, scan, spc, appDone, cancelCalled>>
      /\ reader \in Messages /\ reader.kind = "final" /\ reader' = None
      /\ stages' = IF reader.outcome = "result" THEN stages
                   ELSE [i \in 1..Stages |-> "settled"]
  BY DEF UpdateFinal, viewFrame, scanVars
<1>2. /\ 0 \in Places /\ At(0) = reader /\ Places' = Places
      /\ \A k \in Places : k # 0 => k > 0 /\ At(k)' = At(k)
      /\ \A k \in Places : k = 0 => At(k)' = None
  BY <1>1, PlacesMove DEF Places, At
<1>3. /\ reader.outcome = scan.outcome /\ scan.outcome # "none"
      /\ \A k \in Places : k > 0 => At(k) = None
  BY <1>1, <1>2 DEF FinalLast
<1>4. \A k \in Places' : At(k)' = None
  BY <1>2, <1>3
<1>5. FinalLast'
  BY <1>4, Kinds DEF FinalLast
<1>6. scan \in Scans /\ scan.settled \in 0..Stages
  BY DEF TypeOK, Scans
<1>7. CASE scan.outcome = "result"
  <2>1. stages' = stages /\ ~Doomed /\ scan.settled = Stages
    <3>1. spc \notin {"running", "sending"}
      BY <1>7 DEF ScanSound
    <3>2. ~Doomed
      BY <1>7, <3>1 DEF Doomed
    <3> QED
      BY <1>1, <1>3, <1>7, <3>2 DEF ScanSound
  <2>2. ASSUME NEW i \in 1..Stages
        PROVE  stages[i] = "settled"
    <3>1. At(0) # SettledMsg(i) /\ None # SettledMsg(i)
      BY <1>1, <1>2, Kinds
    <3>2. Arrives(i)
      BY <2>1 DEF Arrivals
    <3> QED
      BY <1>2, <1>3, <3>1, <3>2 DEF Arrives
  <2>3. \A i \in 1..scan.settled : Arrives(i)'
    <3>1. \A i \in 1..Stages : None # StartedMsg(i)
      BY Kinds
    <3> QED
      BY <1>4, <2>1, <2>2, <3>1 DEF Arrives
  <2> QED
    BY <1>1, <1>3, <1>5, <2>1, <2>2, <2>3 DEF Arrivals
<1>8. CASE scan.outcome # "result"
  <2>1. scan.outcome \in {"canceled", "failed"}
    BY <1>3, <1>8 DEF TypeOK, Scans, Outcomes
  <2>2. Doomed'
    BY <1>1, <2>1 DEF Doomed
  <2> QED
    BY <1>3, <1>5, <1>8, <2>2 DEF Arrivals
<1> QED
  BY <1>7, <1>8

LEMMA StartPageStream == StartPage => FinalLast' /\ Arrivals'
<1> SUFFICES ASSUME StartPage PROVE FinalLast' /\ Arrivals'
  OBVIOUS
<1>1. /\ msgs' = <<>> /\ outbox' = None /\ reader' = Reading /\ Len(<<>>) = 0
      /\ scan' = fresh
  BY DEF StartPage
<1>2. \A k \in Places' : At(k)' \in {None, Reading}
  BY <1>1 DEF Places, At
<1>3. FinalLast'
  BY <1>2, Kinds DEF FinalLast
<1> QED
  BY <1>1, <1>3, FreshScan DEF Arrivals

LEMMA StreamStep ==
  ASSUME TypeOK, ScanSound, OutboxSound, FinalLast, Arrivals, [Next]_vars
  PROVE  FinalLast' /\ Arrivals'
<1>0. SmallSteps \/ UNCHANGED vars
  BY NextIsSmall
<1>1. CASE Emits
  BY <1>1, EmitsStream
<1>2. CASE ScanEnds
  BY <1>2, ScanEndsStream
<1>3. CASE SendMsg
  BY <1>3, SendStream
<1>4. CASE DropMsg
  BY <1>4, DropStream
<1>5. CASE ReaderTakes
  BY <1>5, ReaderStream
<1>6. CASE UpdateEvent
  BY <1>6, UpdateEventStream
<1>7. CASE UpdateFinal
  BY <1>7, UpdateFinalStream
<1>8. CASE StartPage
  BY <1>8, StartPageStream
<1>9. CASE ScanPasses \/ Deliver \/ Join
  <2>1. /\ UNCHANGED <<reader, msgs, outbox, scan, stages, appDone, cancelCalled>>
        /\ spc \in {"sending", "running"} => ~scanCtxDone
    BY <1>9 DEF ScanPasses, Deliver, Join, scanJoined, scanFrame, mainFrame, viewVars
  <2>2. Places' = Places /\ \A k \in Places : At(k)' = At(k)
    BY <2>1, PlacesMove
  <2>3. FinalLast'
    BY <2>1, <2>2 DEF FinalLast
  <2>4. Doomed => Doomed'
    BY <2>1 DEF Doomed
  <2>5. \A i \in 1..scan.settled : Arrives(i) => Arrives(i)'
    BY <2>1, <2>2 DEF Arrives
  <2> QED
    BY <2>1, <2>3, <2>4, <2>5 DEF Arrivals
<1>10. CASE \/ AppCanceled \/ ViewQuits \/ KeyPressed \/ ViewStops("killed")
            \/ ViewStops("failed") \/ RunProgressReturns \/ CancelScan \/ CloseMsgs
            \/ ViewBroke \/ PageCanceled \/ PageRecorded
            \/ (\E code \in {1, 2} : SingleFailed(code))
            \/ (\E ok \in BOOLEAN : WriteReport(ok)) \/ UNCHANGED vars
  <2>1. UNCHANGED <<reader, msgs, outbox, scan, spc, stages>>
    BY <1>10 DEF AppCanceled, ViewQuits, KeyPressed, ViewStops, RunProgressReturns,
                 CancelScan, CloseMsgs, ViewBroke, PageCanceled, PageRecorded,
                 SingleFailed, WriteReport, viewFrame, mainFrame, classifyFrame,
                 scanVars, viewVars, vars
  <2>2. scanCtxDone => scanCtxDone'
    BY <1>10 DEF AppCanceled, ViewQuits, KeyPressed, ViewStops, RunProgressReturns,
                 CancelScan, CloseMsgs, ViewBroke, PageCanceled, PageRecorded,
                 SingleFailed, WriteReport, viewFrame, mainFrame, classifyFrame, vars,
                 scanCtxDone
  <2> QED
    BY <2>1, <2>2, QuietStream
<1> QED
  BY <1>0, <1>1, <1>2, <1>3, <1>4, <1>5, <1>6, <1>7, <1>8, <1>9, <1>10 DEF SmallSteps
-----------------------------------------------------------------------------
(* What a page is taken for, by what the view returned. *)
LEMMA PageOutcomes ==
  ASSUME TypeOK
  PROVE  pageOutcome \in {"result", "failed"} => runErr = "nil" /\ pageOutcome = scan.outcome
BY DEF TypeOK, pageOutcome, Scans, Outcomes

(* What has been shown and recorded. *)
LEMMA ViewStep ==
  ASSUME TypeOK, Phases, ScanSound, FinalLast, Arrivals, ViewSound, FullBarIsTrue,
         RecordedPagesAreScanned, [Next]_vars
  PROVE  ViewSound' /\ FullBarIsTrue' /\ RecordedPagesAreScanned'
<1>0. SmallSteps \/ UNCHANGED vars
  BY NextIsSmall
<1> USE DEF ViewSound, FullBarIsTrue, RecordedPagesAreScanned
<1>1. CASE Emits \/ ScanPasses \/ ScanEnds \/ SendMsg \/ DropMsg \/ Deliver
  <2>1. /\ UNCHANGED <<shown, reader, stages, runErr, mpc, pages, broke>>
        /\ spc # "idle" /\ (scan' = scan \/ scan.outcome = "none")
    BY <1>1 DEF Emits, ScanPasses, ScanEnds, SendMsg, DropMsg, Deliver, scanFrame,
                viewVars, mainVars, ScanSound
  <2>2. mpc \notin {"page", "report"}
    BY <2>1 DEF Phases
  <2> QED
    BY <2>1, <2>2
<1>2. CASE ReaderTakes \/ UpdateEvent
  <2>1. /\ UNCHANGED <<shown, scan, runErr, mpc, pages, broke>> /\ reader # None
    BY <1>2, Kinds DEF ReaderTakes, UpdateEvent, viewFrame, scanVars, mainVars
  <2>2. shown = "none"
    BY <2>1
  <2> QED
    BY <2>1, <2>2
<1>3. CASE UpdateFinal
  <2>1. /\ UNCHANGED <<scan, runErr, mpc, pages, broke>> /\ shown' = reader.outcome
        /\ reader' = None /\ mpc = "viewing"
    BY <1>3 DEF UpdateFinal, viewFrame, scanVars, mainVars, ViewRuns, Phases
  <2>2. /\ reader.outcome = scan.outcome
        /\ scan.outcome = "result" =>
              stages' = stages /\ \A i \in 1..Stages : stages[i] = "settled"
    BY <1>3, UpdateFinalStream
  <2>3. stages = [i \in 1..Stages |-> stages[i]]
    BY DEF TypeOK
  <2> QED
    BY <2>1, <2>2, <2>3
<1>4. CASE \/ AppCanceled \/ ViewQuits \/ KeyPressed \/ ViewStops("killed")
           \/ ViewStops("failed") \/ UNCHANGED vars
  BY <1>4 DEF AppCanceled, ViewQuits, KeyPressed, ViewStops, viewFrame, scanVars, viewVars,
              mainVars, vars
<1>5. CASE StartPage
  BY <1>5 DEF StartPage
<1>6. CASE RunProgressReturns
  <2>1. /\ UNCHANGED <<shown, reader, stages, scan, pages, broke>> /\ mpc' = "cancel"
        /\ runErr' = "nil" => shown # "none"
    BY <1>6 DEF RunProgressReturns, mainFrame, scanVars, viewVars, TypeOK
  <2> QED
    BY <2>1
<1>7. CASE CancelScan \/ Join \/ CloseMsgs
  BY <1>7 DEF CancelScan, Join, CloseMsgs, mainFrame, scanVars, viewVars
<1>8. CASE ViewBroke \/ PageCanceled \/ (\E code \in {1, 2} : SingleFailed(code))
  BY <1>8 DEF ViewBroke, PageCanceled, SingleFailed, Exits, classifyFrame, scanVars, viewVars
<1>9. CASE PageRecorded
  <2>1. /\ pageOutcome \in {"result", "failed"} /\ pages' = Append(pages, pageOutcome)
        /\ UNCHANGED <<shown, reader, stages, scan, runErr>> /\ mpc = "classify"
        /\ mpc' \in {"page", "report"}
    BY <1>9 DEF PageRecorded, classifyFrame, scanVars, viewVars
  <2>2. runErr = "nil" /\ pageOutcome = scan.outcome /\ shown # "none"
    BY <2>1, PageOutcomes
  <2>3. pages \in Seq({"result", "failed"})
    BY DEF TypeOK
  <2>4. pages'[Len(pages')] = pageOutcome
    BY <2>1, <2>3
  <2> QED
    BY <2>1, <2>2, <2>4
<1>10. CASE \E ok \in BOOLEAN : WriteReport(ok)
  BY <1>10 DEF WriteReport, Exits, classifyFrame, scanVars, viewVars
<1> QED
  BY <1>0, <1>1, <1>2, <1>3, <1>4, <1>5, <1>6, <1>7, <1>8, <1>9, <1>10 DEF SmallSteps
-----------------------------------------------------------------------------
(* Types *)
LEMMA ScanTypes ==
  ASSUME TypeOK, ScanSound, OutboxSound,
         Emits \/ ScanPasses \/ ScanEnds \/ SendMsg \/ DropMsg \/ Deliver
  PROVE  TypeOK'
<1>0. /\ UNCHANGED <<targets, appDone, cancelCalled, closed, viewVars, mainVars>>
      /\ spc' \in {"idle", "running", "sending", "passed", "final", "deliver", "done"}
  BY DEF Emits, ScanPasses, ScanEnds, SendMsg, DropMsg, Deliver, scanFrame, afterSend
<1>1. scan \in Scans /\ (scan.running => scan.settled < Stages)
  BY DEF TypeOK, ScanSound
<1>2. scan' \in Scans
  <2>1. CASE Emits
    BY <2>1, <1>1, ScanSteps DEF Emits
  <2>2. CASE ScanEnds
    <3>1. ReturnsResult \/ \E why \in Outcomes : ReturnsError(why)
      BY <2>2 DEF ScanEnds, Outcomes
    <3> QED
      BY <3>1, <1>1, ScanSteps
  <2>3. CASE ScanPasses \/ SendMsg \/ DropMsg \/ Deliver
    BY <2>3, <1>1 DEF ScanPasses, SendMsg, DropMsg, Deliver
  <2> QED
    BY <2>1, <2>2, <2>3
<1>3. outbox' \in Messages \cup {None}
  <2>1. CASE Emits
    <3>1. \/ Started /\ outbox' = StartedMsg(scan.settled + 1)
          \/ Settled /\ outbox' = SettledMsg(scan.settled + 1)
      BY <2>1 DEF Emits, StartedMsg, SettledMsg
    <3>2. scan.settled + 1 \in 1..Stages
      BY <3>1, <1>1, ScanSteps, StagesAssumption DEF Scans
    <3> QED
      BY <3>1, <3>2, Kinds
  <2>2. CASE ScanEnds
    <3>1. ReturnsResult \/ \E why \in Outcomes : ReturnsError(why)
      BY <2>2 DEF ScanEnds, Outcomes
    <3>2. scan'.outcome \in Outcomes \ {"none"}
      BY <3>1, <1>1, ScanSteps DEF Outcomes
    <3> QED
      BY <2>2, <3>2, Kinds DEF ScanEnds
  <2>3. CASE ScanPasses \/ SendMsg \/ DropMsg \/ Deliver
    BY <2>3 DEF ScanPasses, SendMsg, DropMsg, Deliver, TypeOK
  <2> QED
    BY <2>1, <2>2, <2>3
<1>4. msgs' \in Seq(Messages) /\ Len(msgs') <= Buffer
  <2>1. CASE SendMsg
    <3>1. outbox \in Messages
      <4>1. scan.outcome \in Outcomes
        BY <1>1 DEF Scans
      <4>2. CASE spc = "sending"
        BY <4>2 DEF OutboxSound
      <4>3. CASE spc = "final"
        BY <4>1, <4>3, Kinds DEF OutboxSound, ScanSound
      <4> QED
        BY <2>1, <4>2, <4>3 DEF SendMsg
    <3>2. /\ msgs \in Seq(Messages) /\ Len(msgs) < Buffer /\ Buffer \in Nat
          /\ msgs' = Append(msgs, outbox)
      BY <2>1, InteractiveAssumption DEF SendMsg, TypeOK
    <3> QED
      BY <3>1, <3>2
  <2>2. CASE Emits \/ ScanEnds \/ ScanPasses \/ DropMsg \/ Deliver
    BY <2>2 DEF Emits, ScanEnds, ScanPasses, DropMsg, Deliver, TypeOK
  <2> QED
    BY <2>1, <2>2
<1> QED
  BY <1>0, <1>2, <1>3, <1>4 DEF TypeOK, viewVars, mainVars

LEMMA ViewTypes ==
  ASSUME TypeOK,
         \/ ReaderTakes \/ UpdateEvent \/ UpdateFinal \/ ViewQuits \/ KeyPressed
         \/ ViewStops("killed") \/ ViewStops("failed")
  PROVE  TypeOK'
<1>1. UNCHANGED <<targets, appDone, cancelCalled, scanVars, closed, mainVars>>
  BY DEF ReaderTakes, UpdateEvent, UpdateFinal, ViewQuits, KeyPressed, ViewStops, viewFrame
<1>2. /\ msgs \in Seq(Messages) /\ Len(msgs) <= Buffer /\ Len(msgs) \in Nat /\ Buffer \in Nat
      /\ reader \in Messages \cup {None, Reading}
      /\ stages \in [1..Stages -> StageStates] /\ shown \in Outcomes
      /\ vpc \in {"off", "running", "quitting", "ended"}
      /\ keyed \in {"no", "early", "late"} /\ progErr \in {"nil", "killed", "failed"}
  BY InteractiveAssumption DEF TypeOK
<1>3. /\ vpc' \in {"off", "running", "quitting", "ended"}
      /\ keyed' \in {"no", "early", "late"} /\ progErr' \in {"nil", "killed", "failed"}
  BY <1>2 DEF ReaderTakes, UpdateEvent, UpdateFinal, ViewQuits, KeyPressed, ViewStops
<1>4. /\ msgs' \in Seq(Messages) /\ Len(msgs') <= Buffer
      /\ reader' \in Messages \cup {None, Reading}
  <2>1. CASE ReaderTakes
    <3>1. msgs # <<>> /\ msgs' = Tail(msgs) /\ reader' = Head(msgs)
      BY <2>1 DEF ReaderTakes
    <3>2. /\ Tail(msgs) \in Seq(Messages) /\ Len(Tail(msgs)) = Len(msgs) - 1
          /\ Head(msgs) \in Messages
      BY <1>2, <3>1, HeadTailProperties
    <3> QED
      BY <1>2, <3>1, <3>2
  <2>2. CASE ~ReaderTakes
    <3>1. UNCHANGED msgs /\ reader' \in {reader, None, Reading}
      BY <2>2 DEF UpdateEvent, UpdateFinal, ViewQuits, KeyPressed, ViewStops
    <3> QED
      BY <1>2, <3>1
  <2> QED
    BY <2>1, <2>2
<1>5. stages' \in [1..Stages -> StageStates] /\ shown' \in Outcomes
  <2>1. CASE UpdateEvent
    BY <1>2, <2>1 DEF UpdateEvent, StageStates
  <2>2. CASE UpdateFinal
    <3>1. reader.outcome \in Outcomes /\ shown' = reader.outcome
      BY <2>2, MessageForms DEF UpdateFinal
    <3>2. [i \in 1..Stages |-> "settled"] \in [1..Stages -> StageStates]
      BY DEF StageStates
    <3> QED
      BY <1>2, <2>2, <3>1, <3>2 DEF UpdateFinal
  <2>3. CASE ReaderTakes \/ ViewQuits \/ KeyPressed \/ ViewStops("killed") \/ ViewStops("failed")
    BY <1>2, <2>3 DEF ReaderTakes, ViewQuits, KeyPressed, ViewStops
  <2> QED
    BY <2>1, <2>2, <2>3
<1> QED
  BY <1>1, <1>3, <1>4, <1>5 DEF TypeOK, scanVars, mainVars

LEMMA MainTypes ==
  ASSUME TypeOK, Phases,
         \/ AppCanceled
         \/ StartPage \/ RunProgressReturns \/ CancelScan \/ Join \/ CloseMsgs
         \/ ViewBroke \/ PageCanceled \/ PageRecorded
         \/ (\E code \in {1, 2} : SingleFailed(code))
         \/ (\E ok \in BOOLEAN : WriteReport(ok))
  PROVE  TypeOK'
<1>1. CASE AppCanceled
  BY <1>1 DEF AppCanceled, TypeOK, scanVars, viewVars, mainVars
<1>2. CASE StartPage
  <2>1. <<>> \in Seq(Messages) /\ Len(<<>>) = 0
    OBVIOUS
  <2>2. AllPending \in [1..Stages -> StageStates]
    BY DEF AllPending, StageStates
  <2>3. /\ scan' \in Scans /\ stages' \in [1..Stages -> StageStates]
        /\ msgs' \in Seq(Messages) /\ Len(msgs') <= Buffer
    BY <1>2, <2>1, <2>2, FreshScan, InteractiveAssumption DEF StartPage
  <2>4. /\ spc' = "running" /\ outbox' = None /\ vpc' = "running" /\ reader' = Reading
        /\ keyed' = "no" /\ shown' = "none" /\ progErr' = "nil" /\ mpc' = "viewing"
        /\ runErr' = "nil" /\ cancelCalled' = FALSE /\ closed' = FALSE
        /\ UNCHANGED <<targets, appDone, pages, broke, report, exit>>
    BY <1>2 DEF StartPage
  <2> QED
    BY <2>3, <2>4 DEF TypeOK, Outcomes
<1>3. CASE RunProgressReturns
  <2>1. runErr' \in {"nil", "ctx", "ErrViewCanceled", "failed"}
    BY <1>3 DEF RunProgressReturns
  <2> QED
    BY <1>3, <2>1 DEF RunProgressReturns, TypeOK, mainFrame, scanVars, viewVars
<1>4. CASE CancelScan \/ Join \/ CloseMsgs
  <2>1. /\ UNCHANGED <<targets, appDone, viewVars, scan, outbox, msgs, runErr, pages, broke,
                        report, exit>>
        /\ spc' \in {spc, "idle"} /\ mpc' \in {"join", "close", "classify"}
    BY <1>4 DEF CancelScan, Join, CloseMsgs, mainFrame, scanVars
  <2>2. cancelCalled' \in BOOLEAN /\ closed' \in BOOLEAN
    BY <1>4 DEF CancelScan, Join, CloseMsgs, TypeOK
  <2>3. spc' \in {"idle", "running", "sending", "passed", "final", "deliver", "done"}
    BY <2>1 DEF TypeOK
  <2> QED
    BY <2>1, <2>2, <2>3 DEF TypeOK, viewVars
<1>5. CASE ViewBroke \/ PageCanceled \/ (\E code \in {1, 2} : SingleFailed(code))
  BY <1>5 DEF ViewBroke, PageCanceled, SingleFailed, Exits, TypeOK, classifyFrame, scanVars,
              viewVars
<1>6. CASE PageRecorded
  <2>1. /\ pages \in Seq({"result", "failed"}) /\ Len(pages) < targets /\ targets \in Nat
        /\ pageOutcome \in {"result", "failed"} /\ pages' = Append(pages, pageOutcome)
    BY <1>6, InteractiveAssumption DEF PageRecorded, Phases, TypeOK
  <2>2. pages' \in Seq({"result", "failed"}) /\ Len(pages') <= targets
    BY <2>1
  <2> QED
    BY <1>6, <2>2 DEF PageRecorded, TypeOK, classifyFrame, scanVars, viewVars
<1>7. CASE \E ok \in BOOLEAN : WriteReport(ok)
  <2>1. report' \in {"written", "failed"} /\ exit' \in {0, 1} /\ mpc' = "exited"
    BY <1>7 DEF WriteReport, Exits, reportExit
  <2> QED
    BY <1>7, <2>1 DEF WriteReport, TypeOK, classifyFrame, scanVars, viewVars
<1> QED
  BY <1>1, <1>2, <1>3, <1>4, <1>5, <1>6, <1>7
-----------------------------------------------------------------------------
LEMMA StepIInv == IInv /\ [Next]_vars => IInv'
<1> SUFFICES ASSUME IInv, [Next]_vars PROVE IInv'
  OBVIOUS
<1>1. TypeOK'
  <2>1. SmallSteps \/ UNCHANGED vars
    BY NextIsSmall
  <2>2. CASE UNCHANGED vars
    BY <2>2 DEF IInv, TypeOK, vars, scanVars, viewVars, mainVars
  <2> QED
    BY <2>1, <2>2, ScanTypes, ViewTypes, MainTypes DEF IInv, SmallSteps
<1>2. Phases' /\ ScanSound' /\ OutboxSound'
  BY PhaseStep DEF IInv
<1>3. FinalLast' /\ Arrivals'
  BY StreamStep DEF IInv
<1>4. ViewSound' /\ FullBarIsTrue' /\ RecordedPagesAreScanned'
  BY ViewStep DEF IInv
<1> QED
  BY <1>1, <1>2, <1>3, <1>4 DEF IInv

THEOREM InteractiveInvariant == Spec => []IInv
<1>1. Init => IInv
  BY InitIInv
<1>2. IInv /\ [Next]_vars => IInv'
  BY StepIInv
<1> QED
  BY <1>1, <1>2, PTL DEF Spec

(* The state of the interactive command keeps its type. *)
THEOREM InteractiveTypes == Spec => []TypeOK
<1>1. IInv => TypeOK
  BY DEF IInv
<1> QED
  BY <1>1, InteractiveInvariant, PTL

(* Whenever the channel is closed or the command has returned, its scan has *)
(* been joined (runInteractivePage cancels, receives from scanDone, closes).  *)
THEOREM NoScanIsOrphaned == Spec => []NoOrphanScan
<1>1. IInv => NoOrphanScan
  BY DEF IInv, Phases, NoOrphanScan
<1> QED
  BY <1>1, InteractiveInvariant, PTL

(* A view that shows a result shows every analyzer settled, for any capacity *)
(* of the channel and any number of analyzers (sendMsg, applyEvent).          *)
THEOREM FullBar == Spec => []FullBarIsTrue
<1>1. IInv => FullBarIsTrue
  BY DEF IInv
<1> QED
  BY <1>1, InteractiveInvariant, PTL

(* The last page recorded is what its scan returned and its view showed      *)
(* (interactivePageOutcome).                                                 *)
THEOREM RecordedPages == Spec => []RecordedPagesAreScanned
<1>1. IInv => RecordedPagesAreScanned
  BY DEF IInv
<1> QED
  BY <1>1, InteractiveInvariant, PTL
=============================================================================
