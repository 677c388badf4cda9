------------------------- MODULE ScanPipelineProofs -------------------------
(***************************************************************************)
(* Proofs about ScanPipeline for any analyzers and policies, any metadata  *)
(* kinds and any ceiling of pages: what a result holds, what the exit code *)
(* says, and that the command's scans implement ScanContract.              *)
(***************************************************************************)
EXTENDS ScanPipeline, FiniteSetTheorems, SequenceTheorems, TLAPS

(* The places inside one call of Scan. *)
Scanning == {"entry", "next", "observe", "observed", "finished", "score"}

(* Pages and their outcomes, by the place of the command. *)
PagesSound ==
  /\ exit = -1 <=> pc # "exited"
  /\ pc \notin {"cli", "exited"} => targets <= MaxPages
  /\ Len(pages) <= targets
  /\ pc \in Scanning => Len(pages) < targets
  /\ pc = "page" => targets # 1
  /\ pc \in {"cli", "entry"} => events = <<>> /\ analyzers = <<>> /\ signals = <<>>
  /\ pc = "cli" => pages = <<>>
  /\ pc \notin Scanning /\ pages = <<>> => events = <<>>
  /\ pc \in {"classify", "render"} => canceled \/ Len(pages) = targets
  /\ pc = "render" => Len(pages) = targets /\ ~AllFailed

(* The lifecycle events of the scan, by its place. *)
Finished(s) == Cardinality({i \in DOMAIN s : s[i] = "finished"})
Open == pc \in {"observe", "observed"}
Settled == IF pc = "finished" THEN Len(analyzers) + 1 ELSE Len(analyzers)

EventsSound ==
  pc \in Scanning =>
    /\ Settled <= Stages /\ Finished(events) = Settled
    /\ Open => Len(analyzers) < Stages
    /\ Len(events) = IF Open THEN 2 * Settled + 1 ELSE 2 * Settled
    /\ events # <<>> => (Last(events) = "started" <=> Open)
    /\ pc = "score" => Len(analyzers) = Stages

(* What a finished analyzer leaves behind. *)
AnalyzersSound ==
  /\ \A i \in 1..Len(analyzers) :
       /\ Policies[i] = "abort" => analyzers[i].status = "complete"
       /\ analyzers[i].kinds \subseteq metadata
       /\ pc = "finished" => analyzers[i].kinds \cap obs.kinds = {}
  /\ pc = "finished" => obs.kinds \subseteq metadata
  /\ \A i, j \in 1..Len(analyzers) : i # j => analyzers[i].kinds \cap analyzers[j].kinds = {}

(* The aggregate signals are in the order of their analyzers. *)
SignalsSound ==
  /\ \A i \in 1..Len(analyzers) :
        analyzers[i].signals = 1 <=> \E k \in 1..Len(signals) : signals[k] = i
  /\ \A k \in 1..Len(signals) : signals[k] <= Len(analyzers)
  /\ \A k, l \in 1..Len(signals) : k < l => signals[k] < signals[l]

ResultsSound == Returned /\ Last(pages) = Nil => Len(analyzers) = Stages

IInv == /\ TypeOK /\ PagesSound /\ EventsSound /\ AnalyzersSound /\ SignalsSound
        /\ ResultsSound /\ ExitCodesAgree
-----------------------------------------------------------------------------
(* Sequences *)
Kinded == [signals : 0..1, kinds : SUBSET Kinds, status : {"complete", "partial", "failed"}]

LEMMA AppendLast ==
  ASSUME NEW S, NEW s \in Seq(S), NEW e \in S
  PROVE  /\ Append(s, e) \in Seq(S) /\ Append(s, e) # <<>>
         /\ Len(Append(s, e)) = Len(s) + 1 /\ Last(Append(s, e)) = e
         /\ Append(s, e)[Len(s) + 1] = e
         /\ \A i \in 1..Len(s) : Append(s, e)[i] = s[i]
         /\ Len(s) \in Nat /\ DOMAIN Append(s, e) = 1..Len(s) + 1 /\ DOMAIN s = 1..Len(s)
BY DEF Last

(* Counting a further event. *)
LEMMA FinishedAppend ==
  ASSUME NEW S, NEW s \in Seq(S), NEW e \in S
  PROVE  /\ Finished(s) \in Nat
         /\ Finished(Append(s, e)) = IF e = "finished" THEN Finished(s) + 1 ELSE Finished(s)
<1> DEFINE F == {i \in DOMAIN s : s[i] = "finished"}
           G == {i \in DOMAIN Append(s, e) : Append(s, e)[i] = "finished"}
<1>1. /\ Len(s) \in Nat /\ DOMAIN s = 1..Len(s)
      /\ DOMAIN Append(s, e) = 1..Len(s) + 1 /\ Append(s, e)[Len(s) + 1] = e
      /\ \A i \in 1..Len(s) : Append(s, e)[i] = s[i]
  BY AppendLast
<1>2. F \subseteq 1..Len(s) /\ Len(s) + 1 \notin F
  BY <1>1
<1>3. IsFiniteSet(F) /\ Cardinality(F) \in Nat
  <2> HIDE DEF F
  <2>1. IsFiniteSet(1..Len(s))
    BY <1>1, FS_Interval
  <2>2. IsFiniteSet(F)
    BY <1>2, <2>1, FS_Subset
  <2> QED
    BY <2>2, FS_CardinalityType
<1>4. G = IF e = "finished" THEN F \cup {Len(s) + 1} ELSE F
  BY <1>1
<1> HIDE DEF F, G
<1>5. Cardinality(G) = IF e = "finished" THEN Cardinality(F) + 1 ELSE Cardinality(F)
  BY <1>2, <1>3, <1>4, FS_AddElement
<1> QED
  BY <1>3, <1>5 DEF F, G, Finished

LEMMA FinishedNone == Finished(<<>>) = 0
<1>1. {i \in DOMAIN <<>> : <<>>[i] = "finished"} = {}
  OBVIOUS
<1> QED
  BY <1>1, FS_EmptySet DEF Finished

LEMMA StagesPositive == Stages \in Nat \ {0} /\ MaxPages \in Nat \ {0}
BY PipelineAssumption DEF Stages
-----------------------------------------------------------------------------
(* The invariant holds initially. *)
LEMMA InitIInv == Init => IInv
<1> SUFFICES ASSUME Init PROVE IInv
  OBVIOUS
<1> USE StagesPositive
<1>1. /\ <<>> \in Seq(ScanErrors \cup {Nil}) /\ <<>> \in Seq(Kinded) /\ Len(<<>>) = 0
      /\ <<>> \in Seq(1..Stages) /\ <<>> \in Seq({"started", "finished"})
  OBVIOUS
<1>2. Fresh \in Observations
  BY DEF Fresh, Observations
<1>3. TypeOK
  <2>1. pages \in Seq(ScanErrors \cup {Nil}) /\ Len(pages) <= MaxPages
    BY <1>1 DEF Init
  <2>2. analyzers \in Seq(Kinded) /\ Len(analyzers) <= Stages
    BY <1>1 DEF Init
  <2>3. /\ signals \in Seq(1..Stages) /\ metadata \subseteq Kinds
        /\ events \in Seq({"started", "finished"}) /\ Len(events) <= 2 * Stages
    BY <1>1 DEF Init
  <2> QED
    BY <1>2, <2>1, <2>2, <2>3 DEF Init, TypeOK, Kinded
<1>4. PagesSound
  BY <1>1 DEF Init, PagesSound, Scanning
<1>5. EventsSound /\ ResultsSound /\ ExitCodesAgree
  BY <1>1 DEF Init, EventsSound, ResultsSound, ExitCodesAgree, Scanning, Returned
<1>6. AnalyzersSound /\ SignalsSound
  BY <1>1 DEF Init, AnalyzersSound, SignalsSound
<1> QED
  BY <1>3, <1>4, <1>5, <1>6 DEF IInv
-----------------------------------------------------------------------------
(* Every way out of Scan. *)
Returning == ScanCanceled \/ RejectObservation \/ AbortScan \/ EvaluationFails \/ ScanReturns

SmallSteps ==
  \/ Cancel \/ TooManyPages \/ Begin \/ NextPage \/ PagesEnd
  \/ ClassifyCanceled \/ ClassifyFailed \/ ClassifySuccess \/ (\E ok \in BOOLEAN : Render(ok))
  \/ ScanEntry \/ StartAnalyzer \/ (\E o \in Observations : Observe(o))
  \/ FinishAnalyzer \/ RecordAnalyzer \/ EvaluateRules \/ Returning

LEMMA NextIsSmall == Next <=> SmallSteps
BY DEF Next, SmallSteps, Returning, Command, Scan

LEMMA ReturningSteps ==
  ASSUME TypeOK, Returning
  PROVE  \E err \in ScanErrors \cup {Nil} :
           /\ pages' = Append(pages, err)
           /\ pc' = IF targets = 1 THEN "classify" ELSE "page"
           /\ UNCHANGED <<canceled, targets, page, exit>>
           /\ pc \in Scanning /\ (err = Nil => pc = "score")
<1>1. obs.err \in ScanErrors \cup {Nil}
  BY DEF TypeOK, Observations, ScanErrors
<1>2. CASE ScanCanceled
  BY <1>2 DEF ScanCanceled, PageReturns, ScanErrors, Scanning, Nil
<1>3. CASE RejectObservation
  BY <1>3 DEF RejectObservation, PageReturns, ScanErrors, Scanning, Nil
<1>4. CASE AbortScan
  BY <1>1, <1>4 DEF AbortScan, aborts, PageReturns, Scanning
<1>5. CASE EvaluationFails
  BY <1>5 DEF EvaluationFails, PageReturns, ScanErrors, Scanning, Nil
<1>6. CASE ScanReturns
  BY <1>6 DEF ScanReturns, PageReturns, Scanning
<1> QED
  BY <1>2, <1>3, <1>4, <1>5, <1>6 DEF Returning

(* What recording an analyzer makes of the aggregate signals. *)
LEMMA RecordedSignals ==
  ASSUME TypeOK, RecordAnalyzer, Len(analyzers) < Stages
  PROVE  /\ signals' \in Seq(1..Stages) /\ Len(signals) \in Nat
         /\ obs.signals \in 0..1 /\ Len(signals') = Len(signals) + obs.signals
         /\ \A k \in 1..Len(signals) : signals'[k] = signals[k]
         /\ obs.signals = 1 => signals'[Len(signals) + 1] = Len(analyzers) + 1
<1> DEFINE new == [i \in 1..obs.signals |-> current]
<1>1. /\ signals \in Seq(1..Stages) /\ obs.signals \in 0..1 /\ Len(analyzers) \in Nat
      /\ Stages \in Nat /\ signals' = signals \o new
  BY StagesPositive DEF TypeOK, Observations, RecordAnalyzer
<1>2. current = Len(analyzers) + 1 /\ current \in 1..Stages
  BY <1>1 DEF current
<1>3. /\ new \in Seq(1..Stages) /\ Len(new) = obs.signals
      /\ \A i \in 1..obs.signals : new[i] = current
  <2>1. /\ new \in [1..obs.signals -> 1..Stages] /\ obs.signals \in Nat
        /\ DOMAIN new = 1..obs.signals /\ \A i \in 1..obs.signals : new[i] = current
    BY <1>1, <1>2
  <2> HIDE DEF new
  <2>2. new \in Seq(1..Stages)
    BY <2>1, SeqDef
  <2> QED
    BY <2>1, <2>2
<1> HIDE DEF new
<1> QED
  BY <1>1, <1>2, <1>3

(* Types *)
LEMMA TypeStep ==
  ASSUME TypeOK, PagesSound, EventsSound, [Next]_vars
  PROVE  TypeOK'
<1> USE StagesPositive
<1>0. SmallSteps \/ UNCHANGED vars
  BY NextIsSmall
<1>a. /\ pages \in Seq(ScanErrors \cup {Nil}) /\ Len(pages) \in Nat /\ targets \in Nat
      /\ analyzers \in Seq(Kinded) /\ Len(analyzers) \in Nat
      /\ signals \in Seq(1..Stages) /\ events \in Seq({"started", "finished"})
      /\ Len(events) \in Nat /\ obs \in Observations
  BY DEF TypeOK, Kinded
<1>1. CASE Cancel
  BY <1>1 DEF Cancel, TypeOK, page
<1>2. CASE TooManyPages \/ ClassifyCanceled \/ ClassifyFailed \/ (\E ok \in BOOLEAN : Render(ok))
  <2>1. /\ UNCHANGED <<canceled, targets, pages, page>> /\ pc' = "exited"
        /\ exit' \in {0, 1, 2}
    BY <1>2 DEF TooManyPages, ClassifyCanceled, ClassifyFailed, Render, Exits, failureCode
  <2> QED
    BY <2>1 DEF TypeOK, page
<1>3. CASE Begin \/ PagesEnd \/ ClassifySuccess \/ ScanEntry \/ EvaluateRules
  <2>1. /\ UNCHANGED <<canceled, targets, pages, page, exit>>
        /\ pc' \in {"entry", "page", "classify", "render", "next", "score"}
    BY <1>3 DEF Begin, PagesEnd, ClassifySuccess, ScanEntry, EvaluateRules
  <2> QED
    BY <2>1 DEF TypeOK, page
<1>4. CASE NextPage
  <2>1. /\ <<>> \in Seq(Kinded) /\ <<>> \in Seq(1..Stages) /\ Len(<<>>) = 0
        /\ <<>> \in Seq({"started", "finished"})
    OBVIOUS
  <2>2. Fresh \in Observations
    BY DEF Fresh, Observations
  <2>3. /\ analyzers' \in Seq(Kinded) /\ Len(analyzers') <= Stages
        /\ signals' \in Seq(1..Stages) /\ metadata' \subseteq Kinds /\ obs' \in Observations
        /\ events' \in Seq({"started", "finished"}) /\ Len(events') <= 2 * Stages
    BY <1>4, <2>1, <2>2 DEF NextPage
  <2>4. UNCHANGED <<canceled, targets, pages, exit>> /\ pc' = "entry"
    BY <1>4 DEF NextPage
  <2> QED
    BY <2>3, <2>4 DEF TypeOK, Kinded
<1>5. CASE StartAnalyzer
  <2>1. /\ UNCHANGED <<canceled, targets, pages, analyzers, signals, metadata, obs, exit>>
        /\ events' = Append(events, "started") /\ pc' = "observe"
        /\ pc = "next" /\ Len(analyzers) < Stages
    BY <1>5, <1>a DEF StartAnalyzer, current
  <2>2. Len(events) = 2 * Len(analyzers)
    BY <2>1 DEF EventsSound, Open, Settled, Scanning
  <2>3. events' \in Seq({"started", "finished"}) /\ Len(events') <= 2 * Stages
    BY <1>a, <2>1, <2>2
  <2> QED
    BY <2>1, <2>3 DEF TypeOK
<1>6. CASE \E o \in Observations : Observe(o)
  BY <1>6 DEF Observe, TypeOK
<1>7. CASE FinishAnalyzer
  <2>1. /\ UNCHANGED <<canceled, targets, pages, analyzers, signals, obs, exit>>
        /\ events' = Append(events, "finished") /\ pc' = "finished"
        /\ pc = "observed" /\ metadata' = metadata \cup obs.kinds
    BY <1>7 DEF FinishAnalyzer
  <2>2. Len(events) = 2 * Len(analyzers) + 1 /\ Len(analyzers) < Stages
    BY <2>1 DEF EventsSound, Open, Settled, Scanning
  <2>3. events' \in Seq({"started", "finished"}) /\ Len(events') <= 2 * Stages
    BY <1>a, <2>1, <2>2
  <2>4. metadata' \subseteq Kinds
    BY <2>1 DEF TypeOK, Observations
  <2> QED
    BY <2>1, <2>3, <2>4 DEF TypeOK
<1>8. CASE RecordAnalyzer
  <2>1. /\ UNCHANGED <<canceled, targets, pages, metadata, obs, events, exit>>
        /\ pc = "finished" /\ pc' = "next"
    BY <1>8 DEF RecordAnalyzer
  <2>2. Len(analyzers) < Stages
    BY <1>a, <2>1 DEF EventsSound, Settled, Scanning
  <2>3. analyzers' \in Seq(Kinded) /\ Len(analyzers') <= Stages
    <3>1. status \in {"complete", "partial", "failed"}
      BY DEF status
    <3>2. [signals |-> obs.signals, kinds |-> obs.kinds, status |-> status] \in Kinded
      BY <1>a, <3>1 DEF Observations, Kinded
    <3> QED
      BY <1>8, <1>a, <2>2, <3>2 DEF RecordAnalyzer
  <2>4. signals' \in Seq(1..Stages)
    BY <1>8, <2>2, RecordedSignals
  <2> QED
    BY <2>1, <2>3, <2>4 DEF TypeOK, Kinded
<1>9. CASE Returning
  <2>1. PICK err \in ScanErrors \cup {Nil} :
           /\ pages' = Append(pages, err)
           /\ pc' = IF targets = 1 THEN "classify" ELSE "page"
           /\ UNCHANGED <<canceled, targets, page, exit>>
           /\ pc \in Scanning /\ (err = Nil => pc = "score")
    BY <1>9, ReturningSteps
  <2>2. Len(pages) < targets /\ targets <= MaxPages
    BY <2>1 DEF PagesSound, Scanning
  <2>3. pages' \in Seq(ScanErrors \cup {Nil}) /\ Len(pages') <= MaxPages
    BY <1>a, <2>1, <2>2
  <2> QED
    BY <2>1, <2>3 DEF TypeOK, page
<1>10. CASE UNCHANGED vars
  BY <1>10 DEF vars, page, TypeOK
<1> QED
  BY <1>0, <1>1, <1>2, <1>3, <1>4, <1>5, <1>6, <1>7, <1>8, <1>9, <1>10 DEF SmallSteps
-----------------------------------------------------------------------------
(* Pages and exit codes *)
LEMMA PagesStep ==
  ASSUME TypeOK, PagesSound, ExitCodesAgree, [Next]_vars
  PROVE  PagesSound' /\ ExitCodesAgree'
<1> USE StagesPositive DEF PagesSound, ExitCodesAgree, Scanning
<1>0. SmallSteps \/ UNCHANGED vars
  BY NextIsSmall
<1>a. /\ pages \in Seq(ScanErrors \cup {Nil}) /\ Len(pages) \in Nat /\ targets \in Nat
      /\ Len(<<>>) = 0
  BY DEF TypeOK
<1>1. CASE Cancel \/ UNCHANGED vars
  BY <1>1 DEF Cancel, vars, page, AllFailed
<1>2. CASE TooManyPages
  BY <1>2, <1>a DEF TooManyPages, Exits, page, AllFailed
<1>3. CASE Begin
  <2>1. targets \in Nat \ {0}
    BY DEF TypeOK
  <2> QED
    BY <1>3, <1>a, <2>1 DEF Begin, tooMany, page
<1>4. CASE NextPage
  BY <1>4, <1>a DEF NextPage
<1>5. CASE PagesEnd \/ ClassifySuccess
  BY <1>5, <1>a DEF PagesEnd, ClassifySuccess, page, AllFailed
<1>6. CASE ClassifyCanceled
  BY <1>6 DEF ClassifyCanceled, Exits, page
<1>7. CASE ClassifyFailed
  <2>1. /\ UNCHANGED <<canceled, targets, pages, page>> /\ pc' = "exited" /\ exit' = failureCode
        /\ pc = "classify" /\ Len(pages) = targets
    BY <1>7 DEF ClassifyFailed, Exits
  <2>2. failureCode \in {1, 2} /\ (failureCode = 2 => targets = 1 /\ pages[1] = "ErrInitialTarget")
    BY DEF failureCode
  <2>3. exit' = 2 => pages = <<"ErrInitialTarget">>
    BY <1>a, <2>1, <2>2
  <2> QED
    BY <2>1, <2>2, <2>3 DEF page
<1>8. CASE \E ok \in BOOLEAN : Render(ok)
  <2>1. /\ UNCHANGED <<canceled, targets, pages, page>> /\ pc' = "exited" /\ exit' \in {0, 1}
        /\ pc = "render"
    BY <1>8 DEF Render, Exits
  <2> QED
    BY <2>1 DEF page, AllFailed
<1>9. CASE ScanEntry \/ EvaluateRules \/ (\E o \in Observations : Observe(o))
  BY <1>9 DEF ScanEntry, EvaluateRules, Observe, page
<1>10. CASE StartAnalyzer \/ FinishAnalyzer \/ RecordAnalyzer
  BY <1>10 DEF StartAnalyzer, FinishAnalyzer, RecordAnalyzer
<1>11. CASE Returning
  <2>1. PICK err \in ScanErrors \cup {Nil} :
           /\ pages' = Append(pages, err)
           /\ pc' = IF targets = 1 THEN "classify" ELSE "page"
           /\ UNCHANGED <<canceled, targets, page, exit>>
           /\ pc \in Scanning /\ (err = Nil => pc = "score")
    BY <1>11, ReturningSteps
  <2>2. Len(pages') = Len(pages) + 1 /\ pages' # <<>>
    BY <1>a, <2>1, AppendLast
  <2> QED
    BY <1>a, <2>1, <2>2 DEF page
<1> QED
  BY <1>0, <1>1, <1>2, <1>3, <1>4, <1>5, <1>6, <1>7, <1>8, <1>9, <1>10, <1>11 DEF SmallSteps

(* Lifecycle events *)
LEMMA EventsStep ==
  ASSUME TypeOK, PagesSound, EventsSound, [Next]_vars
  PROVE  EventsSound'
<1> USE StagesPositive DEF EventsSound, Open, Settled
<1>0. SmallSteps \/ UNCHANGED vars
  BY NextIsSmall
<1>a. /\ events \in Seq({"started", "finished"}) /\ Len(analyzers) \in Nat
      /\ Len(events) \in Nat /\ Len(<<>>) = 0 /\ Len(analyzers) <= Stages
      /\ analyzers \in Seq(Kinded)
  BY DEF TypeOK, Kinded
<1>1. CASE Cancel \/ UNCHANGED vars
  BY <1>1 DEF Cancel, vars, page
<1>2. CASE TooManyPages \/ PagesEnd \/ ClassifyCanceled \/ ClassifyFailed \/ ClassifySuccess
           \/ (\E ok \in BOOLEAN : Render(ok))
  BY <1>2 DEF TooManyPages, PagesEnd, ClassifyCanceled, ClassifyFailed, ClassifySuccess,
              Render, Exits, Scanning
<1>3. CASE Begin
  <2>1. UNCHANGED page /\ pc' \in {"entry", "page"} /\ events = <<>> /\ analyzers = <<>>
    BY <1>3 DEF Begin, PagesSound
  <2> QED
    BY <1>a, <2>1, FinishedNone DEF page, Scanning
<1>4. CASE NextPage
  BY <1>4, <1>a, FinishedNone DEF NextPage
<1>5. CASE ScanEntry
  <2>1. UNCHANGED page /\ pc = "entry" /\ pc' = "next" /\ events = <<>> /\ analyzers = <<>>
    BY <1>5 DEF ScanEntry, PagesSound
  <2> QED
    BY <1>a, <2>1, FinishedNone DEF page
<1>6. CASE StartAnalyzer
  <2>1. /\ events' = Append(events, "started") /\ analyzers' = analyzers
        /\ pc = "next" /\ pc' = "observe" /\ Len(analyzers) < Stages
    BY <1>6, <1>a DEF StartAnalyzer, current
  <2>2. /\ Len(events') = Len(events) + 1 /\ Last(events') = "started"
        /\ Finished(events') = Finished(events)
    BY <1>a, <2>1, AppendLast, FinishedAppend
  <2> QED
    BY <1>a, <2>1, <2>2 DEF Scanning
<1>7. CASE \E o \in Observations : Observe(o)
  BY <1>7 DEF Observe, Scanning
<1>8. CASE FinishAnalyzer
  <2>1. /\ events' = Append(events, "finished") /\ analyzers' = analyzers
        /\ pc = "observed" /\ pc' = "finished"
    BY <1>8 DEF FinishAnalyzer
  <2>2. /\ Len(events') = Len(events) + 1 /\ Last(events') = "finished"
        /\ Finished(events') = Finished(events) + 1
    BY <1>a, <2>1, AppendLast, FinishedAppend
  <2> QED
    BY <1>a, <2>1, <2>2 DEF Scanning
<1>9. CASE RecordAnalyzer
  <2>1. events' = events /\ pc = "finished" /\ pc' = "next" /\ Len(analyzers') = Len(analyzers) + 1
    BY <1>9, <1>a DEF RecordAnalyzer
  <2> QED
    BY <1>a, <2>1 DEF Scanning
<1>10. CASE EvaluateRules
  <2>1. UNCHANGED page /\ pc = "next" /\ pc' = "score" /\ Len(analyzers) = Stages
    BY <1>10, <1>a DEF EvaluateRules, current
  <2> QED
    BY <2>1 DEF page, Scanning
<1>11. CASE Returning
  <2>1. pc' \in {"classify", "page"}
    BY <1>11, ReturningSteps
  <2> QED
    BY <2>1 DEF Scanning
<1> QED
  BY <1>0, <1>1, <1>2, <1>3, <1>4, <1>5, <1>6, <1>7, <1>8, <1>9, <1>10, <1>11 DEF SmallSteps
-----------------------------------------------------------------------------
(* Results *)

(* Steps that leave what the scan has gathered. *)
Gathers == FinishAnalyzer \/ RecordAnalyzer \/ NextPage

LEMMA GatheredKept ==
  ASSUME [Next]_vars, ~Gathers
  PROVE  /\ UNCHANGED <<analyzers, signals, metadata>>
         /\ pc' # "finished" \/ UNCHANGED <<pc, obs>>
<1>0. SmallSteps \/ UNCHANGED vars
  BY NextIsSmall
<1>1. CASE \/ Cancel \/ TooManyPages \/ Begin \/ PagesEnd \/ ClassifyCanceled
           \/ ClassifyFailed \/ ClassifySuccess \/ (\E ok \in BOOLEAN : Render(ok))
           \/ ScanEntry \/ EvaluateRules \/ UNCHANGED vars
  BY <1>1 DEF Cancel, TooManyPages, Begin, PagesEnd, ClassifyCanceled, ClassifyFailed,
              ClassifySuccess, Render, Exits, ScanEntry, EvaluateRules, vars, page
<1>2. CASE StartAnalyzer \/ (\E o \in Observations : Observe(o))
  BY <1>2 DEF StartAnalyzer, Observe
<1>3. CASE Returning
  BY <1>3 DEF Returning, ScanCanceled, RejectObservation, AbortScan, EvaluationFails,
              ScanReturns, PageReturns, page
<1> QED
  BY <1>0, <1>1, <1>2, <1>3 DEF SmallSteps, Gathers

LEMMA AnalyzersStep ==
  ASSUME TypeOK, PagesSound, EventsSound, AnalyzersSound, [Next]_vars
  PROVE  AnalyzersSound'
<1> USE StagesPositive DEF AnalyzersSound
<1>a. /\ analyzers \in Seq(Kinded) /\ Len(analyzers) \in Nat /\ Len(<<>>) = 0
  BY DEF TypeOK, Kinded
<1>1. CASE ~Gathers
  BY <1>1, GatheredKept
<1>2. CASE NextPage
  BY <1>2, <1>a DEF NextPage
<1>3. CASE FinishAnalyzer
  <2>1. /\ UNCHANGED <<analyzers, obs>> /\ pc = "observed"
        /\ metadata' = metadata \cup obs.kinds /\ obs.kinds \cap metadata = {}
    BY <1>3 DEF FinishAnalyzer, acceptable
  <2> QED
    BY <2>1
<1>4. CASE RecordAnalyzer
  <2> DEFINE n == Len(analyzers)
             new == [signals |-> obs.signals, kinds |-> obs.kinds, status |-> status]
  <2>1. /\ analyzers' = Append(analyzers, new) /\ metadata' = metadata
        /\ pc = "finished" /\ pc' = "next" /\ ~aborts
    BY <1>4 DEF RecordAnalyzer
  <2>2. Policies[n + 1] = "abort" => status = "complete"
    BY <2>1 DEF aborts, status, current
  <2>3. new.kinds = obs.kinds /\ new.status = status
    OBVIOUS
  <2>4. new \in Kinded
    BY DEF Kinded, TypeOK, Observations, status
  <2> HIDE DEF new
  <2>5. /\ Len(analyzers') = n + 1 /\ analyzers'[n + 1] = new
        /\ \A i \in 1..n : analyzers'[i] = analyzers[i]
    BY <1>a, <2>1, <2>4, AppendLast
  <2>6. \A i \in 1..(n + 1) : i \in 1..n \/ i = n + 1
    BY <1>a
  <2> HIDE DEF n
  <2>7. \A i \in 1..n : n + 1 # i /\ analyzers[i].kinds \cap new.kinds = {}
    BY <1>a, <2>1, <2>3 DEF n
  <2>8. ASSUME NEW i \in 1..(n + 1)
        PROVE  /\ Policies[i] = "abort" => analyzers'[i].status = "complete"
               /\ analyzers'[i].kinds \subseteq metadata'
    <3>1. CASE i \in 1..n
      BY <2>1, <2>5, <3>1 DEF n
    <3>2. CASE i = n + 1
      BY <2>1, <2>2, <2>3, <2>5, <3>2
    <3> QED
      BY <2>6, <3>1, <3>2
  <2>9. ASSUME NEW i \in 1..(n + 1), NEW j \in 1..(n + 1), i # j
        PROVE  analyzers'[i].kinds \cap analyzers'[j].kinds = {}
    <3>1. CASE i \in 1..n /\ j \in 1..n
      BY <2>5, <2>9, <3>1 DEF n
    <3>2. CASE i \in 1..n /\ j = n + 1
      BY <2>5, <2>7, <3>2
    <3>3. CASE i = n + 1 /\ j \in 1..n
      BY <2>5, <2>7, <3>3
    <3> QED
      BY <2>6, <2>9, <3>1, <3>2, <3>3
  <2> QED
    BY <2>1, <2>5, <2>8, <2>9
<1> QED
  BY <1>1, <1>2, <1>3, <1>4 DEF Gathers

LEMMA SignalsStep ==
  ASSUME TypeOK, PagesSound, EventsSound, SignalsSound, [Next]_vars
  PROVE  SignalsSound'
<1> USE StagesPositive DEF SignalsSound
<1>a. /\ analyzers \in Seq(Kinded) /\ Len(analyzers) \in Nat /\ Len(<<>>) = 0
  BY DEF TypeOK, Kinded
<1>1. CASE ~Gathers
  BY <1>1, GatheredKept
<1>2. CASE NextPage
  BY <1>2, <1>a DEF NextPage
<1>3. CASE FinishAnalyzer
  BY <1>3 DEF FinishAnalyzer
<1>4. CASE RecordAnalyzer
  <2> DEFINE n == Len(analyzers)
             m == Len(signals)
             new == [signals |-> obs.signals, kinds |-> obs.kinds, status |-> status]
  <2>1. n < Stages /\ analyzers' = Append(analyzers, new)
    BY <1>4, <1>a DEF RecordAnalyzer, EventsSound, Settled, Scanning
  <2>2. new.signals = obs.signals /\ new \in Kinded
    BY DEF Kinded, TypeOK, Observations, status
  <2> HIDE DEF new
  <2>3. /\ Len(analyzers') = n + 1 /\ analyzers'[n + 1].signals = obs.signals
        /\ \A i \in 1..n : analyzers'[i] = analyzers[i]
    BY <1>a, <2>1, <2>2, AppendLast
  <2>4. /\ m \in Nat /\ obs.signals \in 0..1 /\ Len(signals') = m + obs.signals
        /\ \A k \in 1..m : signals'[k] = signals[k] /\ signals[k] \in Nat /\ signals[k] <= n
        /\ obs.signals = 1 => signals'[m + 1] = n + 1
    <3>1. \A k \in 1..Len(signals) : signals[k] \in Nat
      BY DEF TypeOK
    <3> QED
      BY <1>4, <2>1, <3>1, RecordedSignals
  <2>5. \A k \in 1..Len(signals') : k \in 1..m \/ (k = m + 1 /\ obs.signals = 1)
    BY <2>4
  <2>6. 1..m \subseteq 1..Len(signals') /\ (obs.signals = 1 => m + 1 \in 1..Len(signals'))
    BY <2>4
  <2>7. \A k \in 1..Len(signals') : signals'[k] <= Len(analyzers')
    BY <1>a, <2>3, <2>4, <2>5
  <2>8. \A k, l \in 1..Len(signals') : k < l => signals'[k] < signals'[l]
    BY <1>a, <2>4, <2>5
  <2>9. ASSUME NEW i \in 1..Len(analyzers')
        PROVE  analyzers'[i].signals = 1 <=> \E k \in 1..Len(signals') : signals'[k] = i
    <3>1. i \in 1..n \/ i = n + 1
      BY <1>a, <2>3
    <3>2. CASE i \in 1..n
      <4>1. analyzers[i].signals = 1 <=> \E k \in 1..m : signals[k] = i
        BY <3>2
      <4>2. i # n + 1
        BY <1>a, <3>2
      <4> QED
        BY <2>3, <2>4, <2>5, <2>6, <3>2, <4>1, <4>2
    <3>3. CASE i = n + 1
      <4>1. \A k \in 1..m : signals'[k] # i
        BY <1>a, <2>4, <3>3
      <4> QED
        BY <2>3, <2>4, <2>5, <2>6, <3>3, <4>1
    <3> QED
      BY <3>1, <3>2, <3>3
  <2> QED
    BY <2>7, <2>8, <2>9
<1> QED
  BY <1>1, <1>2, <1>3, <1>4 DEF Gathers

LEMMA ResultsStep ==
  ASSUME TypeOK, PagesSound, EventsSound, ResultsSound, [Next]_vars
  PROVE  ResultsSound'
<1> USE DEF ResultsSound, Returned
<1>0. SmallSteps \/ UNCHANGED vars
  BY NextIsSmall
<1>1. CASE Cancel \/ PagesEnd \/ ClassifyCanceled \/ ClassifyFailed \/ ClassifySuccess
           \/ (\E ok \in BOOLEAN : Render(ok)) \/ UNCHANGED vars
  BY <1>1 DEF Cancel, PagesEnd, ClassifyCanceled, ClassifyFailed, ClassifySuccess, Render,
              Exits, vars, page
<1>2. CASE TooManyPages \/ Begin
  BY <1>2 DEF TooManyPages, Begin, Exits, PagesSound
<1>3. CASE \/ NextPage \/ ScanEntry \/ StartAnalyzer \/ (\E o \in Observations : Observe(o))
           \/ FinishAnalyzer \/ RecordAnalyzer \/ EvaluateRules
  BY <1>3 DEF NextPage, ScanEntry, StartAnalyzer, Observe, FinishAnalyzer, RecordAnalyzer,
              EvaluateRules
<1>4. CASE Returning
  <2>1. PICK err \in ScanErrors \cup {Nil} :
           /\ pages' = Append(pages, err)
           /\ pc' = IF targets = 1 THEN "classify" ELSE "page"
           /\ UNCHANGED <<canceled, targets, page, exit>>
           /\ pc \in Scanning /\ (err = Nil => pc = "score")
    BY <1>4, ReturningSteps
  <2>2. Last(pages') = err
    BY <2>1, AppendLast DEF TypeOK
  <2> QED
    BY <2>1, <2>2 DEF page, EventsSound
<1> QED
  BY <1>0, <1>1, <1>2, <1>3, <1>4 DEF SmallSteps

LEMMA StepIInv == IInv /\ [Next]_vars => IInv'
<1> SUFFICES ASSUME IInv, [Next]_vars PROVE IInv'
  OBVIOUS
<1>1. TypeOK'
  BY TypeStep DEF IInv
<1>2. PagesSound' /\ ExitCodesAgree'
  BY PagesStep DEF IInv
<1>3. EventsSound'
  BY EventsStep DEF IInv
<1>4. AnalyzersSound' /\ SignalsSound' /\ ResultsSound'
  BY AnalyzersStep, SignalsStep, ResultsStep DEF IInv
<1> QED
  BY <1>1, <1>2, <1>3, <1>4 DEF IInv

THEOREM PipelineInvariant == Spec => []IInv
<1>1. Init => IInv
  BY InitIInv
<1>2. IInv /\ [Next]_vars => IInv'
  BY StepIInv
<1> QED
  BY <1>1, <1>2, PTL DEF Spec

(* A page with a result went through every analyzer, whose metadata kinds   *)
(* are disjoint and whose signals are aggregated in their order (Scan).     *)
THEOREM ResultsAreComplete == Spec => []ResultComplete
<1>1. IInv => ResultComplete
  <2> SUFFICES ASSUME IInv, Returned, Last(pages) = Nil PROVE ResultComplete
    BY DEF ResultComplete
  <2>1. Len(analyzers) = Stages
    BY DEF IInv, ResultsSound
  <2>2. DOMAIN signals = 1..Len(signals)
    BY DEF IInv, TypeOK
  <2>3. \A i \in 1..Stages : analyzers[i].signals = 1 <=> i \in Range(signals)
    BY <2>1, <2>2 DEF IInv, SignalsSound, Range
  <2>4. \A k, l \in DOMAIN signals : k < l => signals[k] < signals[l]
    BY <2>2 DEF IInv, SignalsSound
  <2> QED
    BY <2>1, <2>3, <2>4 DEF IInv, AnalyzersSound, ResultComplete
<1> QED
  BY <1>1, PipelineInvariant, PTL

(* A page that fails never blocks the pages after it (ScanPages). *)
THEOREM PagesAreIndependent == Spec => []PagesIndependent
<1>1. IInv => PagesIndependent
  BY DEF IInv, PagesSound, PagesIndependent
<1> QED
  BY <1>1, PipelineInvariant, PTL

(* The exit code agrees with the outcomes of the pages (runSinglePageScan,  *)
(* runMultiPageScan).                                                       *)
THEOREM ExitCodes == Spec => []ExitCodesAgree
<1>1. IInv => ExitCodesAgree
  BY DEF IInv
<1> QED
  BY <1>1, PipelineInvariant, PTL
-----------------------------------------------------------------------------
(* Refinement: the initial state, and every step, by what it does to the    *)
(* pages and the events.                                                    *)
LEMMA InitContract == Init => Contract!ContractInit
<1> SUFFICES ASSUME Init PROVE contractScan = Contract!fresh
  BY DEF Contract!ContractInit
<1>1. Finished(<<>>) = 0 /\ events = <<>> /\ ~Returned
  BY FinishedNone DEF Init, Returned
<1> QED
  BY <1>1 DEF contractScan, Contract!fresh, Finished

outcome == IF ~Returned THEN "none"
           ELSE CASE Last(pages) = Nil -> "result"
                  [] Last(pages) = "canceled" -> "canceled"
                  [] OTHER -> "failed"
running == events # <<>> /\ Last(events) = "started"

LEMMA ContractForm ==
  contractScan = [settled |-> Finished(events), running |-> running, outcome |-> outcome]
BY DEF contractScan, Finished, running, outcome

(* A record of the contract, and its updates. *)
Rec(n, r) == [settled |-> n, running |-> r, outcome |-> "none"]

LEMMA RecordUpdates ==
  ASSUME NEW n \in Nat
  PROVE  /\ Rec(n, TRUE) = [Rec(n, FALSE) EXCEPT !.running = TRUE]
         /\ Rec(n + 1, FALSE) = [Rec(n, TRUE) EXCEPT !.running = FALSE, !.settled = @ + 1]
         /\ \A r \in BOOLEAN : /\ Rec(n, r).outcome = "none" /\ Rec(n, r).settled = n
                               /\ Rec(n, r).running = r
<1> DEFINE S == [settled : Nat, running : BOOLEAN, outcome : {"none"}]
           u == [Rec(n, FALSE) EXCEPT !.running = TRUE]
           w == [Rec(n, TRUE) EXCEPT !.running = FALSE]
           v == [w EXCEPT !.settled = n + 1]
<1>1. \A x \in S : x = [settled |-> x.settled, running |-> x.running, outcome |-> x.outcome]
  OBVIOUS
<1>2. \A r \in BOOLEAN : /\ Rec(n, r) \in S /\ Rec(n, r).outcome = "none"
                         /\ Rec(n, r).settled = n /\ Rec(n, r).running = r
  BY DEF Rec
<1>3. u \in S /\ u.settled = n /\ u.running = TRUE /\ u.outcome = "none"
  BY <1>2
<1>4. w \in S /\ w.settled = n /\ w.running = FALSE /\ w.outcome = "none"
  BY <1>2
<1> HIDE DEF w
<1>5. v \in S /\ v.settled = n + 1 /\ v.running = FALSE /\ v.outcome = "none"
  BY <1>4
<1> HIDE DEF S, u, v
<1>6. u = Rec(n, TRUE)
  BY <1>1, <1>3 DEF Rec
<1>7. v = Rec(n + 1, FALSE)
  BY <1>1, <1>5 DEF Rec
<1>8. v = [Rec(n, TRUE) EXCEPT !.running = FALSE, !.settled = @ + 1]
  BY <1>2 DEF v, w
<1> QED
  BY <1>2, <1>6, <1>7, <1>8 DEF u

LEMMA StepContract == IInv /\ [Next]_vars => [Contract!ContractNext]_contractScan
<1> SUFFICES ASSUME IInv, [Next]_vars
             PROVE  Contract!ContractNext \/ contractScan' = contractScan
  OBVIOUS
<1> USE StagesPositive
<1>0. SmallSteps \/ UNCHANGED vars
  BY NextIsSmall
<1>a. /\ TypeOK /\ PagesSound /\ EventsSound
      /\ events \in Seq({"started", "finished"}) /\ pages \in Seq(ScanErrors \cup {Nil})
  BY DEF IInv, TypeOK
<1>b. ASSUME UNCHANGED <<events, pages>>, Returned' <=> Returned
      PROVE  contractScan' = contractScan
  BY <1>b DEF contractScan
<1>c. ASSUME pc \in Scanning
      PROVE  /\ contractScan = [settled |-> Settled, running |-> Open, outcome |-> "none"]
             /\ contractScan.settled = Settled /\ (contractScan.running <=> Open)
             /\ contractScan.outcome = "none"
  <2>1. Finished(events) = Settled /\ (running <=> Open) /\ ~Returned
    <3>1. events = <<>> => ~Open
      BY <1>a, <1>c DEF EventsSound, Settled, Open, TypeOK
    <3> QED
      BY <1>a, <1>c, <3>1 DEF EventsSound, running, Returned, Scanning
  <2>2. running = Open
    BY <2>1 DEF running, Open
  <2> QED
    BY <2>1, <2>2, ContractForm DEF outcome
<1>1. CASE UNCHANGED vars
  BY <1>1, <1>b DEF vars, page, Returned
<1>2. CASE \/ Cancel \/ PagesEnd \/ ClassifyCanceled \/ ClassifyFailed \/ ClassifySuccess
           \/ (\E ok \in BOOLEAN : Render(ok)) \/ ScanEntry \/ EvaluateRules
  <2>1. UNCHANGED <<events, pages>> /\ (Returned' <=> Returned)
    BY <1>2 DEF Cancel, PagesEnd, ClassifyCanceled, ClassifyFailed, ClassifySuccess, Render,
                Exits, ScanEntry, EvaluateRules, Returned, page
  <2> QED
    BY <1>b, <2>1
<1>3. CASE TooManyPages \/ Begin
  <2>1. UNCHANGED <<events, pages>> /\ pages = <<>>
    BY <1>3, <1>a DEF TooManyPages, Begin, page, PagesSound
  <2> QED
    BY <1>b, <2>1 DEF Returned
<1>4. CASE (\E o \in Observations : Observe(o)) \/ RecordAnalyzer
  <2>1. UNCHANGED <<events, pages>> /\ ~Returned /\ ~Returned'
    BY <1>4 DEF Observe, RecordAnalyzer, Returned
  <2> QED
    BY <1>b, <2>1
<1>5. CASE NextPage
  <2>1. /\ events' = <<>> /\ pages' = pages /\ pc = "page" /\ ~Returned'
    BY <1>5 DEF NextPage, Returned
  <2>2. Finished(events') = 0 /\ ~running'
    BY <2>1, FinishedNone DEF running
  <2>3. contractScan' = Contract!fresh
    <3>1. contractScan' = [settled |-> 0, running |-> FALSE, outcome |-> "none"]
      BY <2>1, <2>2 DEF contractScan, Finished, running
    <3> QED
      BY <3>1 DEF Contract!fresh
  <2>4. CASE pages = <<>>
    <3>1. events = <<>> /\ ~Returned
      BY <1>a, <2>1, <2>4 DEF PagesSound, Scanning, Returned
    <3> QED
      BY <1>b, <2>1, <3>1
  <2>5. CASE pages # <<>>
    <3>1. contractScan.outcome # "none"
      BY <2>1, <2>5 DEF contractScan, Returned
    <3> QED
      BY <2>3, <3>1 DEF Contract!ContractNext, Contract!Again, Contract!live
  <2> QED
    BY <2>4, <2>5
<1>6. CASE StartAnalyzer
  <2>1. /\ events' = Append(events, "started") /\ pages' = pages /\ pc = "next" /\ pc' = "observe"
        /\ Len(analyzers) < Stages
    BY <1>6 DEF StartAnalyzer, current, IInv, TypeOK
  <2>2. contractScan = Rec(Len(analyzers), FALSE) /\ Len(analyzers) \in Nat
    BY <1>a, <1>c, <2>1 DEF Scanning, Settled, Open, Rec, TypeOK
  <2>3. contractScan' = Rec(Len(analyzers), TRUE)
    <3>1. Finished(events') = Finished(events) /\ events' # <<>> /\ Last(events') = "started"
      BY <1>a, <2>1, AppendLast, FinishedAppend
    <3>2. Finished(events) = Len(analyzers)
      BY <1>a, <2>1 DEF EventsSound, Scanning, Settled
    <3>3. running' = TRUE /\ ~Returned'
      BY <2>1, <3>1 DEF running, Returned
    <3> QED
      BY <3>1, <3>2, <3>3 DEF contractScan, Finished, running, Rec
  <2> QED
    <3>1. contractScan' = [contractScan EXCEPT !.running = TRUE]
      BY <2>2, <2>3, RecordUpdates
    <3>2. Contract!Started
      BY <2>1, <2>2, <3>1, RecordUpdates DEF Contract!Started, Contract!live
    <3> QED
      BY <3>2 DEF Contract!ContractNext
<1>7. CASE FinishAnalyzer
  <2>1. /\ events' = Append(events, "finished") /\ pages' = pages
        /\ pc = "observed" /\ pc' = "finished"
    BY <1>7 DEF FinishAnalyzer
  <2>2. contractScan = Rec(Len(analyzers), TRUE) /\ Len(analyzers) \in Nat
    BY <1>a, <1>c, <2>1 DEF Scanning, Settled, Open, Rec, TypeOK
  <2>3. contractScan' = Rec(Len(analyzers) + 1, FALSE)
    <3>1. Finished(events') = Finished(events) + 1 /\ events' # <<>> /\ Last(events') = "finished"
      BY <1>a, <2>1, AppendLast, FinishedAppend
    <3>2. Finished(events) = Len(analyzers)
      BY <1>a, <2>1 DEF EventsSound, Scanning, Settled
    <3>3. running' = FALSE /\ ~Returned'
      BY <2>1, <3>1 DEF running, Returned
    <3> QED
      BY <3>1, <3>2, <3>3 DEF contractScan, Finished, running, Rec
  <2> QED
    <3>1. contractScan' = [contractScan EXCEPT !.running = FALSE, !.settled = @ + 1]
      BY <2>2, <2>3, RecordUpdates
    <3>2. Contract!Settled
      BY <2>1, <2>2, <3>1, RecordUpdates DEF Contract!Settled, Contract!live
    <3> QED
      BY <3>2 DEF Contract!ContractNext
<1>8. CASE Returning
  <2>1. PICK err \in ScanErrors \cup {Nil} :
           /\ pages' = Append(pages, err)
           /\ pc' = IF targets = 1 THEN "classify" ELSE "page"
           /\ UNCHANGED <<canceled, targets, page, exit>>
           /\ pc \in Scanning /\ (err = Nil => pc = "score")
    BY <1>a, <1>8, ReturningSteps
  <2> DEFINE out == IF err = Nil THEN "result" ELSE IF err = "canceled" THEN "canceled"
                    ELSE "failed"
  <2>2. contractScan = [settled |-> Settled, running |-> Open, outcome |-> "none"]
    BY <1>c, <2>1
  <2>3. contractScan' = [settled |-> Settled, running |-> Open, outcome |-> out]
    <3>1. Last(pages') = err /\ pages' # <<>>
      BY <1>a, <2>1, AppendLast
    <3>2. Returned' /\ events' = events
      BY <2>1, <3>1 DEF Returned, page
    <3>3. contractScan' = [settled |-> Finished(events), running |-> running, outcome |-> out]
      <4>1. outcome' = out
        BY <3>1, <3>2 DEF outcome, Nil
      <4>2. contractScan' = [settled |-> Finished(events'), running |-> running',
                             outcome |-> outcome']
        BY DEF contractScan, Finished, running, outcome
      <4>3. running' = running /\ Finished(events') = Finished(events)
        BY <3>2 DEF running
      <4> QED
        BY <4>1, <4>2, <4>3
    <3>4. contractScan = [settled |-> Finished(events), running |-> running, outcome |-> outcome]
      BY ContractForm
    <3> QED
      BY <2>2, <3>3, <3>4
  <2>4. CASE err = Nil
    <3>1. Settled = Stages /\ Open = FALSE /\ out = "result"
      BY <1>a, <2>1, <2>4 DEF EventsSound, Settled, Open, Scanning
    <3> QED
      BY <2>2, <2>3, <3>1 DEF Contract!ContractNext, Contract!ReturnsResult, Contract!live
  <2>5. CASE err # Nil
    <3>1. out \in {"canceled", "failed"} /\ out \in Contract!Outcomes
      BY <2>5 DEF Contract!Outcomes
    <3>2. Contract!ReturnsError(out)
      <4> HIDE DEF out
      <4> QED
        BY <2>2, <2>3, <3>1 DEF Contract!ReturnsError, Contract!live
    <3> QED
      BY <3>1, <3>2 DEF Contract!ContractNext
  <2> QED
    BY <2>4, <2>5
<1> QED
  BY <1>0, <1>1, <1>2, <1>3, <1>4, <1>5, <1>6, <1>7, <1>8 DEF SmallSteps

(* Every behaviour of the classic command is, scan by scan, one that the    *)
(* interactive command may rely on (ScanContract).                          *)
THEOREM PipelineImplementsContract == Spec => ImplementsContract
<1>1. Init => Contract!ContractInit
  BY InitContract
<1>2. IInv /\ [Next]_vars => [Contract!ContractNext]_contractScan
  BY StepContract
<1> QED
  BY <1>1, <1>2, PipelineInvariant, PTL DEF Spec, ImplementsContract, Contract!Contract

(* The records of the scan keep their types, whatever the analyzers and    *)
(* pages (runScan, classify).                                              *)
THEOREM PipelineTypes == Spec => []TypeOK
<1>1. IInv => TypeOK
  BY DEF IInv
<1> QED
  BY <1>1, PipelineInvariant, PTL
=============================================================================
