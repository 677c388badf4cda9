------------------------------ MODULE FormPhase ------------------------------
(***************************************************************************)
(* The bounded form interaction of one navigation (internal/browser/       *)
(* forms.go): what is eligible, which form is picked, and the log that     *)
(* Finish copies into its snapshot.  Inspection and submission are two     *)
(* evaluations in two isolated worlds, each of the main frame as it is     *)
(* then: the page may commit another document in between.                  *)
(***************************************************************************)

EXTENDS Integers, Sequences, FiniteSets, FiniteSetsExt

CONSTANTS
  Documents,          \* what the main frame may hold: [forms, truncated]
  MaxFormFields, MaxSubmissions

ASSUME FormAssumption ==
  /\ MaxFormFields \in Nat /\ MaxSubmissions \in Nat \ {0}
  /\ \A d \in Documents : d.forms \in Seq(
       [password : BOOLEAN, file : BOOLEAN, has_submit : BOOLEAN, fillable : Nat,
        action : {"none", "target", "other", "auth", "oversized"}])

VARIABLES
  doc,         \* document of the main frame
  picked,      \* index and descriptor of the form to submit
  submitted,   \* history: forms that were clicked
  formLog,     \* formSubmissionLog
  snapForms    \* FormSubmissions of the snapshot

formVars == <<doc, picked, submitted, formLog, snapForms>>

NoForm == [index |-> 0, form |-> [password |-> FALSE, file |-> FALSE, has_submit |-> FALSE,
                                   fillable |-> 0, action |-> "none"]]
Form == UNION {{d.forms[i] : i \in DOMAIN d.forms} : d \in Documents}

FormTypeOK ==
  /\ doc \in Documents
  /\ picked.index # 0 => picked.form \in Form
  /\ submitted \in Seq(Form)
  /\ {formLog, snapForms} \subseteq Seq(Form)
  /\ Len(formLog) <= MaxSubmissions

FormInit ==
  /\ doc \in Documents
  /\ picked = NoForm
  /\ submitted = <<>> /\ formLog = <<>> /\ snapForms = <<>>

(* "target" is an action of the origin navigated to, "auth" one with a     *)
(* path of that origin that suggests credentials; "oversized" passes here  *)
(* and fails the URL minimization below.                                   *)
eligible(form) ==
  /\ ~form.password /\ ~form.file /\ form.has_submit
  /\ form.fillable \in 1..MaxFormFields
  /\ form.action \in {"target", "oversized"}

eligibleFormIndexes(d) == {i \in DOMAIN d.forms : eligible(d.forms[i])}

(* The first eligible form is picked, or none: the next one is not tried   *)
(* when its URL cannot be cleaned.                                         *)
pick(d) ==
  IF d.truncated \/ eligibleFormIndexes(d) = {} THEN NoForm
  ELSE LET i == Min(eligibleFormIndexes(d)) IN
       IF d.forms[i].action = "oversized" THEN NoForm
       ELSE [index |-> i, form |-> d.forms[i]]

add(log, form) == IF Len(log) >= MaxSubmissions THEN log ELSE Append(log, form)

(* boundedFormSubmitter: document.forms[index] of the document as it is. *)
present == picked.index \in DOMAIN doc.forms
Click == submitted' = Append(submitted, doc.forms[picked.index])

(* Mutated form: a destroyed context is taken for nothing submitted. *)
SubmitInterruptedUnlogged ==
  /\ \/ present /\ Click
     \/ UNCHANGED submitted
  /\ UNCHANGED formLog

(* The context is destroyed before or after the click; both are taken for  *)
(* a submission that started a navigation.                                 *)
SubmitInterrupted ==
  /\ \/ present /\ Click
     \/ UNCHANGED submitted
  /\ formLog' = add(formLog, picked.form)

(* The submitter answers: it clicked, or the form is missing. *)
SubmitAnswers ==
  \/ /\ present
     /\ Click
     /\ formLog' = add(formLog, picked.form)
  \/ /\ ~present
     /\ UNCHANGED <<submitted, formLog>>

(* The evaluation fails otherwise, on either side of the click. *)
SubmitFails ==
  /\ \/ present /\ Click
     \/ UNCHANGED submitted
  /\ UNCHANGED formLog
=============================================================================
