------------------------------ MODULE Coverage ------------------------------
(***************************************************************************)
(* From observations to detections: rules are matched and scored           *)
(* (internal/rules/match.go, internal/scoring/scoring.go), and every rule  *)
(* that was not detected is told conclusive from inconclusive              *)
(* (internal/rules/condition_coverage.go, internal/scanner/scanner.go).    *)
(*                                                                         *)
(* A signal is a source, a type and a key; text patterns are equality or   *)
(* no constraint.  Signals carry full confidence, as every analyzer of     *)
(* the program emits them, so a weight is a score.  world is a ghost: what *)
(* the page would show to channels that miss nothing.                      *)
(*                                                                         *)
(* A condition is a tree: the sequence of its nodes in document order,     *)
(* where a node names its children by their positions.  A leaf has the     *)
(* predicate it looks for.                                                 *)
(***************************************************************************)
EXTENDS Integers, Sequences, FiniteSets, FiniteSetsExt, Functions

CONSTANTS Pipeline,      \* the analyzers' sources, in order
          Capabilities,  \* the registry: pairs of a source and a signal type
          Signals,       \* the signals a page can show
          RuleSets       \* the rule sets evaluated, each a function from rule ids

VARIABLES world, ruleSet, pc, analyzers, signals, detections, coverage

vars == <<world, ruleSet, pc, analyzers, signals, detections, coverage>>

NoGroup == "no group"
AnySource == "any source"

Types(s) == {c[2] : c \in {d \in Capabilities : d[1] = s}}

\* What an analyzer declares of its channels; nothing when it declares none.
Declarations(s) == UNION {[T -> {"complete", "incomplete"}] : T \in SUBSET Types(s)}

-----------------------------------------------------------------------------
(* What the schema accepts *)

evidenceGroup(e) == IF e.group = NoGroup THEN e.id ELSE e.group

leaves(c) == {i \in DOMAIN c : c[i].op = "signal"}
predicates(c) == {c[i].evidence : i \in leaves(c)}

\* The nodes form one tree whose root is the first, children after parents.
IsCondition(c) ==
    /\ c \in Seq(Range(c)) /\ Len(c) > 0
    /\ \A i \in DOMAIN c : /\ c[i].op \in {"signal", "all", "any"}
                          /\ c[i].children \subseteq (i + 1)..Len(c)
    /\ \A i \in 2..Len(c) : \E parent \in DOMAIN c :
          {p \in DOMAIN c : i \in c[p].children} = {parent}

depths(c) ==
    LET depth[i \in DOMAIN c] ==
          IF i = 1 THEN 1 ELSE depth[CHOOSE p \in DOMAIN c : i \in c[p].children] + 1
    IN depth

validateCondition(c) ==
    /\ IsCondition(c)
    /\ \A i \in DOMAIN c :
          /\ depths(c)[i] <= 16
          /\ i \in leaves(c) <=> c[i].children = {}
    /\ \A i \in leaves(c) : c[i].evidence.weight \in 1..100
    /\ \A i, j \in leaves(c) : c[i].evidence.id = c[j].evidence.id => i = j

validatePenaltyEvidence(e) == e.group = NoGroup /\ e.weight \in 1..100

validateRule(rule) ==
    LET positive == predicates(rule.match)
    IN /\ rule.minimumScore \in 25..100
       /\ validateCondition(rule.match)
       /\ rule.minimumEvidence \in 1..Cardinality({evidenceGroup(e) : e \in positive})
       /\ IsFiniteSet(rule.penalties)
       /\ \A e \in rule.penalties : /\ validatePenaltyEvidence(e)
                                    /\ \A f \in positive : e.id # f.id
       /\ \A e, f \in rule.penalties : e.id = f.id => e = f
       /\ IsFiniteSet(rule.conflicts)
       /\ \A c \in rule.conflicts : c.penalty \in 1..100

\* Every set of rules has one that requires none of the set: no cycle.
validateDependencyGraph(rs) ==
    \A S \in SUBSET DOMAIN rs \ {{}} : \E r \in S : rs[r].requires \cap S = {}

Validate(rs) ==
    /\ DOMAIN rs # {} /\ IsFiniteSet(DOMAIN rs)
    /\ \A r \in DOMAIN rs :
          /\ validateRule(rs[r])
          /\ rs[r].requires \subseteq DOMAIN rs \ {r}
          /\ \A c \in rs[r].conflicts : c.rule \in DOMAIN rs \ ({r} \cup rs[r].requires)
          /\ \A c, d \in rs[r].conflicts : c.rule = d.rule => c = d
    /\ validateDependencyGraph(rs)

ASSUME CoverageAssumption ==
    /\ Pipeline \in Seq(Range(Pipeline))
    /\ Capabilities \subseteq Range(Pipeline) \X {c[2] : c \in Capabilities}
    /\ \A x \in Signals : <<x.source, x.type>> \in Capabilities
    /\ \A rs \in RuleSets : Validate(rs)

-----------------------------------------------------------------------------
(* Matching and scoring *)

\* Its type, and its source and key where constrained.
matchEvidence(e, x) == x.type = e.type /\ x.key = e.key /\ e.source \in {AnySource, x.source}

strongestMatch(e, sigs) == \E x \in sigs : matchEvidence(e, x)

matchEvidenceList(list, sigs) == {e \in list : strongestMatch(e, sigs)}

evaluateSignal(e, sigs) ==
    [matched |-> strongestMatch(e, sigs), evidence |-> matchEvidenceList({e}, sigs)]

pool(outcomes, I) == UNION {outcomes[i].evidence : i \in I}

evaluateAll(outcomes) ==
    [matched |-> \A i \in DOMAIN outcomes : outcomes[i].matched,
     evidence |-> pool(outcomes, DOMAIN outcomes)]

\* Branches that did not match count only when none did.
evaluateAny(outcomes) ==
    LET matching == {i \in DOMAIN outcomes : outcomes[i].matched}
    IN [matched |-> matching # {},
        evidence |-> pool(outcomes, IF matching # {} THEN matching ELSE DOMAIN outcomes)]

evaluateNode(node, sigs, outcomes) ==
    CASE node.op = "signal" -> evaluateSignal(node.evidence, sigs)
      [] node.op = "all" -> evaluateAll(outcomes)
      [] node.op = "any" -> evaluateAny(outcomes)

evaluateNodes(c, sigs) ==
    LET outcome[i \in DOMAIN c] ==
          evaluateNode(c[i], sigs, [j \in c[i].children |-> outcome[j]])
    IN outcome

evaluateCondition(c, sigs) == evaluateNodes(c, sigs)[1]

countEvidenceGroups(evidence) == Cardinality({evidenceGroup(e) : e \in evidence})

\* One rule's MatchResult.
Match(rule, sigs) ==
    LET outcome == evaluateCondition(rule.match, sigs)
    IN [candidate |-> /\ outcome.matched
                      /\ countEvidenceGroups(outcome.evidence) >= rule.minimumEvidence,
        positive  |-> outcome.evidence,
        negative  |-> matchEvidenceList(rule.penalties, sigs)]   \* negative and ambiguous

clamp(n) == IF n < 0 THEN 0 ELSE IF n > 100 THEN 100 ELSE n

totalWeight(evidence) == SumFunction([e \in evidence |-> e.weight])

heaviest(evidence) == Max({e.weight : e \in evidence})

\* Each correlation group counts its heaviest member.
scorePositive(evidence) ==
    SumFunction([g \in {evidenceGroup(e) : e \in evidence} |->
                    heaviest({e \in evidence : evidenceGroup(e) = g})])

totalPenalty(conflicts) == SumFunction([c \in conflicts |-> c.penalty])

appliedConflicts(matches, rs, r) ==
    {c \in rs[r].conflicts : /\ matches[r].candidate /\ matches[c.rule].candidate
                             /\ scorePositive(matches[c.rule].positive) > 0}

evidenceScore(matches, rs, r) ==
    IF ~matches[r].candidate THEN 0
    ELSE clamp(scorePositive(matches[r].positive) - totalWeight(matches[r].negative)
                 - totalPenalty(appliedConflicts(matches, rs, r)))

qualifies(matches, rs, r) ==
    matches[r].candidate /\ evidenceScore(matches, rs, r) >= rs[r].minimumScore

eligible(matches, rs) ==
    LET ok[r \in DOMAIN rs] ==
          qualifies(matches, rs, r) /\ \A d \in rs[r].requires : ok[d]
    IN ok

matchRules(rs, sigs) == [r \in DOMAIN rs |-> Match(rs[r], sigs)]

scoreMatches(rs, sigs) ==
    LET matches == matchRules(rs, sigs)
        ok == eligible(matches, rs)
    IN [r \in DOMAIN rs |->
          [detected  |-> ok[r],
           score     |-> IF \A d \in rs[r].requires : ok[d]
                         THEN evidenceScore(matches, rs, r) ELSE 0,
           negative  |-> matches[r].negative,
           conflicts |-> appliedConflicts(matches, rs, r)]]

-----------------------------------------------------------------------------
(* Coverage of one condition: matched, not_matched or unknown *)

CapableSources(e) ==
    {s \in Range(Pipeline) : <<s, e.type>> \in Capabilities /\ e.source \in {AnySource, s}}

\* Mutant: success vouches for the channels nobody declared.
claimsCompleteByStatus(a, type) ==
    \/ type \in {t \in DOMAIN a.declared : a.declared[t] = "complete"}
    \/ type \notin DOMAIN a.declared /\ a.status = "complete"

\* An analyzer that declares a channel is complete where it says so, and nowhere
\* else; one that declares none is complete when it returned no error.
claimsComplete(a, type) ==
    IF DOMAIN a.declared # {} THEN type \in {t \in DOMAIN a.declared : a.declared[t] = "complete"}
    ELSE a.status = "complete"

completeCapability(results) ==
    {c \in Capabilities : \E i \in DOMAIN results :
        results[i].source = c[1] /\ claimsComplete(results[i], c[2])}

\* Potential evidence names the incomplete sources it waits for: none when it
\* was observed.
conditionResult(state, potential, incomplete, required) ==
    [state |-> state, potential |-> potential, incomplete |-> incomplete, required |-> required]

signalCoverage(e, sigs, complete) ==
    LET capable == CapableSources(e)
        missing == {s \in capable : <<s, e.type>> \notin complete}
        waiting(S) == {[evidence |-> e, incomplete |-> S]}
    IN CASE strongestMatch(e, sigs) -> conditionResult("matched", waiting({}), {}, capable)
         [] ~strongestMatch(e, sigs) /\ missing = {} ->
                conditionResult("not_matched", {}, {}, capable)
         [] OTHER -> conditionResult("unknown", waiting(missing), missing, capable)

inState(results, state) == {i \in DOMAIN results : results[i].state = state}

gather(results, I, field) == UNION {results[i][field] : i \in I}

\* The walk stops at the first child that cannot be satisfied.
allCoverage(results) ==
    LET failed == inState(results, "not_matched")
        unknown == inState(results, "unknown")
    IN IF failed # {}
       THEN conditionResult("not_matched", {}, {}, gather(results, {i \in DOMAIN results : i <= Min(failed)}, "required"))
       ELSE conditionResult(IF unknown # {} THEN "unknown" ELSE "matched",
                            gather(results, DOMAIN results, "potential"),
                            gather(results, unknown, "incomplete"),
                            gather(results, DOMAIN results, "required"))

\* Mutant: a branch that matched makes the unknown ones irrelevant.
anyCoverageMatchedWins(results) ==
    LET matched == inState(results, "matched")
        kept == IF matched # {} THEN matched ELSE inState(results, "unknown")
        required == gather(results, DOMAIN results, "required")
    IN IF kept = {} THEN conditionResult("not_matched", {}, {}, required)
       ELSE conditionResult(IF matched = {} THEN "unknown" ELSE "matched",
                            gather(results, kept, "potential"),
                            gather(results, kept, "incomplete"), required)

anyCoverage(results) ==
    LET satisfiable == DOMAIN results \ inState(results, "not_matched")
        required == gather(results, DOMAIN results, "required")
    IN IF satisfiable = {} THEN conditionResult("not_matched", {}, {}, required)
       ELSE conditionResult(IF inState(results, "unknown") # {} THEN "unknown" ELSE "matched",
                            gather(results, satisfiable, "potential"),
                            gather(results, satisfiable, "incomplete"), required)

coverNode(node, sigs, complete, results) ==
    CASE node.op = "signal" -> signalCoverage(node.evidence, sigs, complete)
      [] node.op = "all" -> allCoverage(results)
      [] node.op = "any" -> anyCoverage(results)

coverNodes(c, sigs, complete) ==
    LET result[i \in DOMAIN c] ==
          coverNode(c[i], sigs, complete, [j \in c[i].children |-> result[j]])
    IN result

EvaluateConditionCoverage(c, sigs, complete) == coverNodes(c, sigs, complete)[1]

\* A potential evidence without a group is a group of its own.
groupKey(e) == IF e.group = NoGroup THEN <<"independent", e.id>> ELSE <<"group", e.group>>

upperBoundScore(evidence) ==
    SumFunction([g \in {groupKey(e) : e \in evidence} |->
                    heaviest({e \in evidence : groupKey(e) = g})])

upperBoundGroups(evidence) == Cardinality({groupKey(e) : e \in evidence})

\* A rule that was not detected: can what is missing still reach its thresholds?
EvaluateRuleCoverage(rule, c, penalties) ==
    LET possible == {p.evidence : p \in c.potential}
    IN IF /\ c.state # "not_matched"
          /\ clamp(upperBoundScore(possible) - penalties) >= rule.minimumScore
          /\ upperBoundGroups(possible) >= rule.minimumEvidence
       THEN [state |-> "unknown", incomplete |-> UNION {p.incomplete : p \in c.potential}]
       ELSE [state |-> "not_matched", incomplete |-> {}]

observedPenalties(det) == totalWeight(det.negative) + totalPenalty(det.conflicts)

\* Mutant: only its own sources.
combinedIncompleteOwn(own, deps) == own.incomplete

\* The sources that keep a rule inconclusive: its own and its prerequisites'.
combinedIncomplete(own, deps) ==
    own.incomplete \cup UNION {deps[d].incomplete : d \in DOMAIN deps}

evalRule(rule, det, condition, deps) ==
    LET own == EvaluateRuleCoverage(rule, condition, observedPenalties(det))
        required == condition.required \cup UNION {deps[d].required : d \in DOMAIN deps}
    IN CASE det.detected ->
                [status |-> "detected", incomplete |-> {}, required |-> condition.required]
         [] /\ ~det.detected
            /\ own.state = "not_matched" \/ \E d \in DOMAIN deps : deps[d].status = "not_detected" ->
                [status |-> "not_detected", incomplete |-> {}, required |-> required]
         [] OTHER ->
                [status |-> "insufficient_coverage", required |-> required,
                 incomplete |-> combinedIncomplete(own, deps)]

coverConditions(rs, sigs, complete) ==
    [r \in DOMAIN rs |-> EvaluateConditionCoverage(rs[r].match, sigs, complete)]

\* Dependencies form no cycle: rule sets that have one are refused on loading.
evalRules(rs, dets, conditions) ==
    LET status[r \in DOMAIN rs] ==
          evalRule(rs[r], dets[r], conditions[r], [d \in rs[r].requires |-> status[d]])
    IN status

buildDetectionCoverage(rs, dets, results, sigs) ==
    evalRules(rs, dets, coverConditions(rs, sigs, completeCapability(results)))

-----------------------------------------------------------------------------
Init ==
    /\ world \in SUBSET Signals
    /\ ruleSet \in RuleSets
    /\ pc = "observe"
    /\ analyzers = <<>> /\ signals = {}
    /\ detections = <<>> /\ coverage = <<>>

\* A channel an analyzer calls complete has missed nothing of the world; an
\* analyzer that declares no channel vouches for all with its success.  A
\* failed analyzer returned no signal.
Vouches(s, seen, a) ==
    /\ \A x \in {y \in world : y.source = s} :
          IF DOMAIN a.declared # {}
          THEN x \in seen \/ x.type \notin {t \in DOMAIN a.declared : a.declared[t] = "complete"}
          ELSE x \in seen \/ a.status # "complete"
    /\ a.status = "failed" => seen = {}

\* The next analyzer of the pipeline returns.
Observe ==
    /\ pc = "observe" /\ Len(analyzers) < Len(Pipeline)
    /\ LET s == Pipeline[Len(analyzers) + 1]
       IN \E seen \in SUBSET {x \in world : x.source = s},
             a \in [source : {s}, declared : Declarations(s),
                    status : {"complete", "partial", "failed"}] :
             /\ Vouches(s, seen, a)
             /\ analyzers' = Append(analyzers, a)
             /\ signals' = signals \cup seen
    /\ UNCHANGED <<world, ruleSet, pc, detections, coverage>>

\* scoring.Evaluate over all the signals.
Evaluate ==
    /\ pc = "observe" /\ Len(analyzers) = Len(Pipeline)
    /\ detections' = scoreMatches(ruleSet, signals)
    /\ pc' = "cover"
    /\ UNCHANGED <<world, ruleSet, analyzers, signals, coverage>>

BuildCoverage ==
    /\ pc = "cover"
    /\ coverage' = buildDetectionCoverage(ruleSet, detections, analyzers, signals)
    /\ pc' = "done"
    /\ UNCHANGED <<world, ruleSet, analyzers, signals, detections>>

Next == Observe \/ Evaluate \/ BuildCoverage

Spec == Init /\ [][Next]_vars

-----------------------------------------------------------------------------
(* Properties *)

\* Scores stay between 0 and 100 and every rule of the set gets one status,
\* one score and sources of the pipeline (scoring.Detection and
\* scanner.DetectionCoverage).
TypeOK ==
    /\ world \subseteq Signals /\ signals \subseteq world
    /\ ruleSet \in RuleSets
    /\ pc \in {"observe", "cover", "done"}
    /\ Len(analyzers) \in 0..Len(Pipeline)
    /\ pc # "observe" => /\ DOMAIN detections = DOMAIN ruleSet
                         /\ \A r \in DOMAIN detections : detections[r].score \in 0..100
    /\ pc = "done" => /\ DOMAIN coverage = DOMAIN ruleSet
                      /\ \A r \in DOMAIN coverage :
                            coverage[r].incomplete \subseteq Range(Pipeline)

\* A rule reported not_detected is not detected by an analysis that misses
\* nothing either: whatever the incomplete channels would have added, the
\* thresholds, the correlation groups, the penalties already observed and the
\* prerequisites keep it below (scanner.go buildDetectionCoverage).
NotDetectedIsConclusive ==
    pc = "done" => \A r \in DOMAIN ruleSet :
        coverage[r].status = "not_detected" => ~scoreMatches(ruleSet, world)[r].detected

\* What the channels a status names could still have shown: every signal of
\* theirs that was not declared complete.
Undisclosed(sources) ==
    {x \in Signals : x.source \in sources
                     /\ <<x.source, x.type>> \notin completeCapability(analyzers)}

\* The rule set with its conflicts left out: what evidence and prerequisites say.
Unopposed(rs) ==
    [r \in DOMAIN rs |->
        [match |-> rs[r].match, minimumScore |-> rs[r].minimumScore,
         minimumEvidence |-> rs[r].minimumEvidence, penalties |-> rs[r].penalties,
         requires |-> rs[r].requires, conflicts |-> {}]]

\* What the schema leaves to the rules' authors: each capable source has a
\* signal for the predicate, no penalty looks at what a predicate looks for,
\* and no group has the id of a predicate without one.
Attainable(rs) ==
    \A r \in DOMAIN rs : \A e \in predicates(rs[r].match) :
        /\ \A s \in CapableSources(e) : \E x \in Signals : x.source = s /\ matchEvidence(e, x)
        /\ \A q \in DOMAIN rs : \A p \in rs[q].penalties : p.type # e.type \/ p.key # e.key
        /\ \A f \in predicates(rs[r].match) : e.group = NoGroup => f.group # e.id

\* A rule reported insufficient_coverage names sources that are to blame: each
\* has a channel the rule or a prerequisite needs, and signals of these sources
\* alone would have satisfied its thresholds and its prerequisites
\* (condition_coverage.go EvaluateRuleCoverage, scanner.go evalRule).  Conflicts
\* are set aside, as the code does: a rule that is no candidate yet has none
\* applied, so a conflict that is certain does not make it conclusive.
InsufficientIsJustified ==
    pc = "done" => \A r \in DOMAIN ruleSet :
        coverage[r].status = "insufficient_coverage" =>
            /\ coverage[r].incomplete \subseteq coverage[r].required
            /\ \E more \in SUBSET Undisclosed(coverage[r].incomplete) :
                  scoreMatches(Unopposed(ruleSet), signals \cup more)[r].detected

=============================================================================
