------------------------------ MODULE MCCapture ------------------------------
(* Small instances of Capture for TLC. *)
EXTENDS Capture, TLC

CONSTANTS r1, r2
MCRequestIDs == {r1, r2}
MCSymmetry == Permutations(MCRequestIDs)

node == [kind |-> "other", url |-> "rejected"]
script(class) == [kind |-> "script_url", url |-> class]
iframe(class) == [kind |-> "iframe_url", url |-> class]
MCPage(items, units, cookies) == [items |-> items, units |-> units, cookies |-> cookies]

ok == "accepted"
(* Below, at and beyond each of the ceilings: four items of work, three   *)
(* units of text, two resources of a kind, two cookies.                    *)
MCPages ==
  { MCPage(<<>>, <<>>, <<>>),
    MCPage(<<script(ok), node, iframe(ok), script(ok)>>, <<1, 2, 4>>, <<1, 2>>),
    MCPage(<<iframe(ok), node, node, node, script(ok)>>, <<1, 2>>, <<0, 1>>),
    MCPage(<<node, node, script(ok)>>, <<1, 1, 2, 3>>, <<1, 2, 3>>),
    MCPage(<<script(ok), script("rejected"), script("unsafe"), script(ok)>>, <<1>>, <<2, 2, 1>>),
    MCPage(<<iframe(ok), iframe(ok), iframe(ok), script("unsafe")>>, <<2, 3>>, <<>>),
    MCPage(<<iframe("oversized"), script(ok)>>, <<1, 2>>, <<0>>),
    MCPage(<<script("oversized"), iframe(ok)>>, <<2>>, <<3, 1, 2>>) }
=============================================================================
