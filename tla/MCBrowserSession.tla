-------------------------- MODULE MCBrowserSession --------------------------
(* A small instance of BrowserSession for TLC. *)
EXTENDS BrowserSession

form(action) == [password |-> FALSE, file |-> FALSE, has_submit |-> TRUE,
                  fillable |-> 1, action |-> action]
login == [form("target") EXCEPT !.password = TRUE]

(* An eligible form behind a login, one alone, one whose URL is too long,  *)
(* none at all, and more forms than are inspected.                         *)
MCDocuments ==
  {[forms |-> <<login, form("target")>>, truncated |-> FALSE],
   [forms |-> <<form("target")>>, truncated |-> FALSE],
   [forms |-> <<form("auth"), form("oversized"), form("target")>>, truncated |-> FALSE],
   [forms |-> <<>>, truncated |-> FALSE],
   [forms |-> <<form("target")>>, truncated |-> TRUE]}
=============================================================================
