----------------------------- MODULE BoundedDOM -----------------------------
(***************************************************************************)
(* What a capture keeps of the page it finds: the serializer that walks    *)
(* the document in an isolated world (chromedp.go boundedDOMSerializer),   *)
(* the cleaning of its resource URLs and of the cookies (capture.go).      *)
(*                                                                         *)
(* A document is the sequence of its items, one per unit of work of the    *)
(* walk: a node, or an attribute of the element before it.  An item that   *)
(* completes a script or an iframe has the class of its URL; the units of  *)
(* text name the item that writes them, closing tags included.             *)
(***************************************************************************)
EXTENDS Integers, Sequences, FiniteSets

CONSTANTS Pages,      \* what the browser may answer: [items, units, cookies]
          MaxItems,   \* maxCaptureItems
          MaxWork,    \* maxDOMWorkItems
          MaxBytes    \* maxDOMBytes, in units

\* "unsafe" is a web URL for the page that classifyURL rejects; "rejected" is
\* none for either, "oversized" is too long already for the page.  A cookie is
\* a number, 0 one that is cleaned away.
Items == [kind : {"script_url", "iframe_url", "other"},
          url : {"accepted", "rejected", "unsafe", "oversized"}]

ASSUME PagesAssumption ==
    /\ {MaxItems, MaxWork, MaxBytes} \subseteq Nat \ {0}
    /\ \A p \in Pages :
        /\ p.items \in Seq(Items)
        /\ p.units \in Seq(DOMAIN p.items)
        /\ \A k, l \in DOMAIN p.units : k <= l => p.units[k] <= p.units[l]
        /\ p.cookies \in Seq(Nat)

\* The first n elements of a set of numbers, or all there are.
first(S, n) == {i \in S : Cardinality({j \in S : j < i}) < n}

-----------------------------------------------------------------------------
(* boundedDOMSerializer *)

visited(p) == {i \in DOMAIN p.items : i <= MaxWork}
traversalTruncated(p) == Len(p.items) > MaxWork

\* appendRaw: what is left of the ceiling is written, the rest is truncated.
written(p) == {k \in DOMAIN p.units : p.units[k] \in visited(p)}
content(p) == {k \in written(p) : k <= MaxBytes}
domTruncated(p) == traversalTruncated(p) \/ content(p) # written(p)

\* collectResource goes on beyond the ceiling of the text.
resources(p, kind, classes) ==
    {i \in visited(p) : p.items[i].kind = kind /\ p.items[i].url \in classes}
offered(p, kind) == resources(p, kind, {"accepted", "unsafe"})
collected(p, kind) == first(offered(p, kind), MaxItems)

-----------------------------------------------------------------------------
(* snapshotInternal *)

\* Mutated form: a walk that was cut off does not mark its resources.
resourceTruncatedByCount(p, kind) ==
    \/ Cardinality(offered(p, kind)) > MaxItems
    \/ resources(p, kind, {"oversized"}) # {}

\* A URL is dropped at the ceiling, for its size, or with the walk.
resourceTruncated(p, kind) ==
    \/ traversalTruncated(p)
    \/ Cardinality(offered(p, kind)) > MaxItems
    \/ resources(p, kind, {"oversized"}) # {}

cleanResourceURLs(p, kind) == {i \in collected(p, kind) : p.items[i].url = "accepted"}

\* cleanCookies: distinct, sorted, cut at the ceiling.
distinctCookies(p) == {p.cookies[i] : i \in DOMAIN p.cookies} \ {0}
cleanCookies(p) == first(distinctCookies(p), MaxItems)
cookiesTruncated(p) == Cardinality(distinctCookies(p)) > MaxItems

=============================================================================
