---------------------------- MODULE NetworkGuard ----------------------------
(***************************************************************************)
(* The destination policy shared by the HTTP analyzer and the safety proxy *)
(* (internal/networkguard).  A guard keeps no state: it resolves a name    *)
(* again whenever it is asked, so two answers for one name may differ.     *)
(***************************************************************************)

EXTENDS Naturals, Sequences, SequencesExt

CONSTANTS
  Address,     \* IP addresses, IPv4-mapped ones already unmapped
  Forbidden,   \* those outside the public destinations
  Name,        \* DNS names
  Answers      \* what the resolver may answer; <<>> is an error or no address

ASSUME GuardAssumption ==
  /\ Forbidden \subseteq Address
  /\ Name \cap Address = {}
  /\ Answers \subseteq Seq(Address)

Host == Address \cup Name
URL == [scheme : {"http", "https"}, host : Host]

Allowed(address) == address \notin Forbidden

(* A literal address is its own answer. *)
lookup(host) == IF host \in Address THEN {<<host>>} ELSE Answers

(* Mutated form: an answer is refused only when none of it is allowed. *)
refusedWhenAllAre(answer) ==
  answer # <<>> /\ \A a \in ToSet(answer) : ~Allowed(a)

(* resolve: one address that is not allowed refuses the whole answer. *)
refused(answer) == \E a \in ToSet(answer) : ~Allowed(a)

resolve(answer) ==
  IF answer = <<>> THEN "error" ELSE IF refused(answer) THEN "forbidden" ELSE "ok"
=============================================================================
