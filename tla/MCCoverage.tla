----------------------------- MODULE MCCoverage -----------------------------
(* Two analyzers: headers and scripts over HTTP, scripts in the browser.   *)
(* Every capable source of a predicate can show the signal it looks for.   *)
(* Rule sets as the schema allows them, at the boundaries: groups, any and  *)
(* all below each other, penalties, conflicts, prerequisites.               *)
EXTENDS Coverage

MCPipeline == <<"http", "browser">>
MCCapabilities == {<<"http", "header">>, <<"http", "script">>, <<"browser", "script">>}

sig(s, t, k) == [source |-> s, type |-> t, key |-> k]
MCSignals == {sig("http", "header", "a"), sig("http", "script", "b"),
              sig("browser", "script", "b"), sig("browser", "script", "c"),
              sig("http", "header", "d")}

ev(id, t, w) == [id |-> id, group |-> NoGroup, type |-> t, source |-> AnySource,
                 key |-> id, weight |-> w]
leaf(e) == [op |-> "signal", evidence |-> e, children |-> {}]
all(children) == [op |-> "all", children |-> children]
any(children) == [op |-> "any", children |-> children]
in(g, e) == [e EXCEPT !.group = g]
from(s, e) == [e EXCEPT !.source = s]

rule(c, score, evidence) == [match |-> c, minimumScore |-> score, minimumEvidence |-> evidence,
                             penalties |-> {}, requires |-> {}, conflicts |-> {}]

A(w) == ev("a", "header", w)
B(w) == ev("b", "script", w)
C(w) == from("browser", ev("c", "script", w))
D(w) == ev("d", "header", w)

\* Any keeps what unknown branches could add; two of three groups suffice.
Sums == [r |-> rule(<<any(2..4), leaf(A(30)), leaf(B(40)), leaf(C(30))>>, 60, 2)]
\* Members of a group do not add up.
Groups == [r |-> rule(<<any(2..4), leaf(in("g", A(30))), leaf(in("g", B(50))), leaf(C(25))>>,
                      50, 2)]
\* A group with the name of another predicate is one group for the score.
Merged == [r |-> rule(<<any(2..4), leaf(in("b", A(30))), leaf(B(40)), leaf(C(30))>>, 40, 1)]
\* All below any below all, and a predicate bound to one source.
Nested == [r |-> rule(<<all({2, 3}), leaf(A(25)), any({4, 5}), leaf(B(50)),
                        all({6, 7}), leaf(C(30)), leaf(D(30))>>, 75, 1)]
\* Penalties, and scores that leave the range at both ends.
Penalties == [r |-> [rule(<<any({2, 3}), leaf(A(80)), leaf(B(60))>>, 75, 1)
                       EXCEPT !.penalties = {C(50), D(100)}]]
\* A rule with a prerequisite that conflicts with a third.
Chain == [r |-> [rule(<<leaf(A(60))>>, 50, 1) EXCEPT !.requires = {"s"}],
          s |-> [rule(<<any({2, 3}), leaf(B(40)), leaf(C(40))>>, 40, 1)
                   EXCEPT !.conflicts = {[rule |-> "t", penalty |-> 30]}],
          t |-> rule(<<leaf(D(30))>>, 25, 1)]

MCRuleSets == {Sums, Groups, Merged, Nested, Penalties, Chain}

ASSUME MCAttainable == \A rs \in MCRuleSets \ {Merged} : Attainable(rs)
=============================================================================
