------------------------------ MODULE MCDNSTLS ------------------------------
(* A small instance of DNSTLS for TLC. *)
EXTENDS DNSTLS

CONSTANTS pub1, pub2, priv, name1, name2

MCAddress == {pub1, pub2, priv}
MCForbidden == {priv}
MCName == {name1, name2}
MCAnswers == {<<>>, <<pub1>>, <<pub2, pub1>>, <<pub1, priv>>}
MCTargets == {[scheme |-> "http", host |-> name1], [scheme |-> "https", host |-> name1],
              [scheme |-> "http", host |-> priv], [scheme |-> "https", host |-> pub2]}
MCCertificates == {[text |-> "plain", names |-> 2], [text |-> "control", names |-> 0],
                   [text |-> "spaced", names |-> 1]}
MCText == [type |-> "text", host |-> name1]
MCScript == [type |-> "script", host |-> name1]
MCTags == {MCScript, [type |-> "script", host |-> name2],
           [type |-> "iframe", host |-> name1]}
MCBodies ==
  [html : {TRUE}, charset : {"known"}, growth : {1, 2},
   units : BoundedSeq(MCTags, 4) \cup BoundedSeq({MCText, MCScript}, 2)]
  \cup [html : {TRUE}, charset : {"unknown"}, growth : {1}, units : BoundedSeq({MCText}, 1)]
  \cup [html : {FALSE}, charset : {"known"}, growth : {1}, units : BoundedSeq({MCText}, 4)]
=============================================================================
