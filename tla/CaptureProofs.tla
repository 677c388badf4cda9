---------------------------- MODULE CaptureProofs ----------------------------
(***************************************************************************)
(* Proofs about Capture for any set of request identifiers and any         *)
(* ceilings.  First what each operation of the collector does to any       *)
(* collector, then the invariant of the steps.                             *)
(***************************************************************************)
EXTENDS Capture, FiniteSetTheorems, TLAPS

AnyHops == [id : RequestIDs, hop : Nat \ {0}]
Transactions == [of : AnyHops, patched : SUBSET AnyHops]
Collectors == [requests : Seq(AnyHops), responses : Seq(AnyHops),
               transactions : Seq(Transactions), pending : [RequestIDs -> Nat],
               truncated : SUBSET {"requests", "responses"}]

(* Evidence is only added, and a truncation is never taken back. *)
Keeps(c, d) ==
  /\ in(c.requests) \subseteq in(d.requests)
  /\ in(c.responses) \subseteq in(d.responses)
  /\ c.truncated \subseteq d.truncated

(* Open transactions belong to the latest of the n[id] hops of their id. *)
Correlated(c, n) ==
  /\ \A id \in RequestIDs : c.pending[id] # 0 =>
       /\ c.pending[id] \in DOMAIN c.transactions
       /\ c.transactions[c.pending[id]].of = Hop(id, n[id])
  /\ \A i \in DOMAIN c.transactions :
       c.transactions[i].patched \subseteq {c.transactions[i].of}

SameEvidence(c, d) ==
  d.requests = c.requests /\ d.responses = c.responses /\ d.truncated = c.truncated
SameTransactions(c, d) == d.transactions = c.transactions /\ d.pending = c.pending
-----------------------------------------------------------------------------
(*                        The collector                                    *)

LEMMA InAppend ==
  ASSUME NEW S, NEW s \in Seq(S), NEW x \in S
  PROVE  Append(s, x) \in Seq(S) /\ in(Append(s, x)) = in(s) \cup {x}
<1>1. DOMAIN Append(s, x) = DOMAIN s \cup {Len(s) + 1}
  OBVIOUS
<1>2. \A i \in DOMAIN s : Append(s, x)[i] = s[i]
  OBVIOUS
<1>3. Append(s, x)[Len(s) + 1] = x
  OBVIOUS
<1>4. Len(s) + 1 \notin DOMAIN s
  OBVIOUS
<1>5. Append(s, x) \in Seq(S)
  OBVIOUS
<1> QED
  BY <1>1, <1>2, <1>3, <1>4, <1>5 DEF in

LEMMA TruncateFacts ==
  ASSUME NEW c \in Collectors, NEW channel \in {"requests", "responses"}
  PROVE  /\ truncate(c, channel) \in Collectors
         /\ SameTransactions(c, truncate(c, channel))
         /\ Keeps(c, truncate(c, channel))
         /\ channel \in truncate(c, channel).truncated
BY DEF truncate, Collectors, SameTransactions, Keeps

(* An accepted request is kept or the channel is truncated. *)
LEMMA RequestFacts ==
  ASSUME NEW c \in Collectors, NEW h \in AnyHops, NEW class \in Classes
  PROVE  LET d == appendRequest(c, h, class) IN
         /\ d \in Collectors /\ SameTransactions(c, d) /\ Keeps(c, d)
         /\ class = "accepted" => h \in in(d.requests) \/ "requests" \in d.truncated
<1> DEFINE d == appendRequest(c, h, class)
<1>1. CASE class # "accepted"
  <2>1. d = c
    BY <1>1 DEF appendRequest
  <2> QED
    BY <1>1, <2>1 DEF SameTransactions, Keeps
<1>2. CASE class = "accepted" /\ full(c.requests)
  <2>1. d = truncate(c, "requests")
    BY <1>2 DEF appendRequest
  <2> QED
    BY <2>1, TruncateFacts
<1>3. CASE class = "accepted" /\ ~full(c.requests)
  <2>1. d = [c EXCEPT !.requests = Append(@, h)]
    BY <1>3 DEF appendRequest
  <2>2. c.requests \in Seq(AnyHops)
    BY DEF Collectors
  <2>3. Append(c.requests, h) \in Seq(AnyHops)
        /\ in(Append(c.requests, h)) = in(c.requests) \cup {h}
    BY <2>2, InAppend
  <2>4. d.requests = Append(c.requests, h) /\ d.responses = c.responses
        /\ d.truncated = c.truncated /\ SameTransactions(c, d) /\ d \in Collectors
    BY <2>1, <2>3 DEF Collectors, SameTransactions
  <2> QED
    BY <2>3, <2>4 DEF Keeps
<1> QED
  BY <1>1, <1>2, <1>3

(* A response is kept or the channel is truncated, unless it was rejected. *)
LEMMA ResponseFacts ==
  ASSUME NEW c \in Collectors, NEW h \in AnyHops, NEW class \in Classes
  PROVE  LET d == appendResponse(c, h, class) IN
         /\ d \in Collectors /\ SameTransactions(c, d) /\ Keeps(c, d)
         /\ class # "rejected" => h \in in(d.responses) \/ "responses" \in d.truncated
<1> DEFINE d == appendResponse(c, h, class)
<1>1. CASE class = "oversized" \/ (class = "accepted" /\ full(c.responses))
  <2>1. d = truncate(c, "responses")
    BY <1>1 DEF appendResponse, responseDropped
  <2> QED
    BY <2>1, TruncateFacts
<1>2. CASE class = "rejected"
  <2>1. d = c
    BY <1>2 DEF appendResponse, responseDropped
  <2> QED
    BY <1>2, <2>1 DEF SameTransactions, Keeps
<1>3. CASE class = "accepted" /\ ~full(c.responses)
  <2>1. d = [c EXCEPT !.responses = Append(@, h)]
    BY <1>3 DEF appendResponse, responseDropped
  <2>2. c.responses \in Seq(AnyHops)
    BY DEF Collectors
  <2>3. Append(c.responses, h) \in Seq(AnyHops)
        /\ in(Append(c.responses, h)) = in(c.responses) \cup {h}
    BY <2>2, InAppend
  <2>4. d.responses = Append(c.responses, h) /\ d.requests = c.requests
        /\ d.truncated = c.truncated /\ SameTransactions(c, d) /\ d \in Collectors
    BY <2>1, <2>3 DEF Collectors, SameTransactions
  <2> QED
    BY <2>3, <2>4 DEF Keeps
<1> QED
  BY <1>1, <1>2, <1>3 DEF Classes

(* A hop opens at most its own transaction. *)
LEMMA OpenFacts ==
  ASSUME NEW c \in Collectors, NEW h \in AnyHops, NEW n, NEW m, Correlated(c, n),
         c.pending[h.id] = 0, m[h.id] = h.hop,
         \A id \in RequestIDs \ {h.id} : m[id] = n[id],
         NEW d, d = openTransaction(c, h)
  PROVE  /\ d \in Collectors /\ SameEvidence(c, d) /\ Correlated(d, m)
         /\ \A id \in RequestIDs \ {h.id} : d.pending[id] = c.pending[id]
<1> DEFINE t == [of |-> h, patched |-> {}]
           s == Append(c.transactions, t)
           pending == [c.pending EXCEPT ![h.id] = Len(c.transactions) + 1]
<1>1. c.transactions \in Seq(Transactions) /\ c.pending \in [RequestIDs -> Nat] /\ h.id \in RequestIDs
  BY DEF Collectors, AnyHops
<1>2. CASE d = c
  BY <1>2 DEF SameEvidence, Correlated
<1>3. CASE d = [c EXCEPT !.transactions = s, !.pending[h.id] = Len(c.transactions) + 1]
  <2>1. t \in Transactions /\ t.of = h /\ t.patched = {}
    BY DEF Transactions
  <2>2. s \in Seq(Transactions) /\ Len(s) = Len(c.transactions) + 1
        /\ s[Len(c.transactions) + 1] = t /\ DOMAIN s = DOMAIN c.transactions \cup {Len(c.transactions) + 1}
        /\ \A i \in DOMAIN c.transactions : s[i] = c.transactions[i]
    <3> HIDE DEF t
    <3> QED BY <1>1, <2>1
  <2>3. Len(c.transactions) + 1 \in Nat
    BY <1>1
  <2> HIDE DEF s, t
  <2>4. d.transactions = s /\ SameEvidence(c, d)
        /\ d.pending = pending
    BY <1>3 DEF Collectors, SameEvidence
  <2>5. d \in Collectors
    <3>1. pending \in [RequestIDs -> Nat]
      BY <1>1, <2>3
    <3>2. d = [[c EXCEPT !.transactions = s] EXCEPT !.pending = pending]
      BY <1>3
    <3> HIDE DEF pending
    <3> QED
      BY <2>2, <3>1, <3>2 DEF Collectors
  <2>6. d.pending[h.id] = Len(c.transactions) + 1
        /\ \A id \in RequestIDs \ {h.id} : d.pending[id] = c.pending[id]
    BY <1>1, <2>4
  <2>7. h = Hop(h.id, h.hop)
    BY DEF AnyHops, Hop
  <2>8. Correlated(d, m)
    BY <2>1, <2>2, <2>4, <2>6, <2>7 DEF Correlated
  <2> QED
    BY <2>4, <2>5, <2>6, <2>8
<1>4. d = c \/ d = [c EXCEPT !.transactions = s, !.pending[h.id] = Len(c.transactions) + 1]
  BY DEF openTransaction
<1> QED
  BY <1>2, <1>3, <1>4

(* A response patches the transaction of its own hop. *)
LEMMA PatchFacts ==
  ASSUME NEW c \in Collectors, NEW h \in AnyHops, NEW n, Correlated(c, n), h.hop = n[h.id],
         NEW d, d = patchTransaction(c, h)
  PROVE  /\ d \in Collectors /\ SameEvidence(c, d) /\ Correlated(d, n)
         /\ d.pending = c.pending
         /\ DOMAIN d.transactions = DOMAIN c.transactions
         /\ \A i \in DOMAIN d.transactions : d.transactions[i].of = c.transactions[i].of
<1> DEFINE p == c.pending[h.id]
           t == [c.transactions[p] EXCEPT !.patched = @ \cup {h}]
           s == [c.transactions EXCEPT ![p] = t]
<1>1. c.transactions \in Seq(Transactions) /\ c.pending \in [RequestIDs -> Nat] /\ h.id \in RequestIDs
  BY DEF Collectors, AnyHops
<1>2. CASE p = 0
  BY <1>2 DEF SameEvidence, Correlated, patchTransaction
<1>3. CASE p # 0
  <2>1. p \in DOMAIN c.transactions /\ c.transactions[p].of = h
    BY <1>1, <1>3 DEF Correlated, Hop, AnyHops
  <2>2. c.transactions[p] \in Transactions /\ c.transactions[p].patched \subseteq {h}
    BY <1>1, <2>1 DEF Correlated
  <2>3. t \in Transactions /\ t.of = h /\ t.patched \subseteq {h}
    BY <2>1, <2>2 DEF Transactions
  <2>4. d = [c EXCEPT !.transactions = s]
    BY <1>3 DEF patchTransaction
  <2> HIDE DEF t
  <2>5. s \in Seq(Transactions) /\ DOMAIN s = DOMAIN c.transactions /\ s[p] = t
        /\ \A i \in DOMAIN s \ {p} : s[i] = c.transactions[i]
    BY <1>1, <2>1, <2>3
  <2> HIDE DEF s
  <2>6. d \in Collectors /\ SameEvidence(c, d) /\ d.pending = c.pending /\ d.transactions = s
    BY <2>4, <2>5 DEF Collectors, SameEvidence
  <2> HIDE DEF p
  <2>7. \A i \in DOMAIN s : s[i].of = c.transactions[i].of
    BY <2>1, <2>3, <2>5
  <2>8. \A i \in DOMAIN s : s[i].patched \subseteq {s[i].of}
    BY <2>3, <2>5 DEF Correlated
  <2>9. Correlated(d, n)
    BY <2>5, <2>6, <2>7, <2>8 DEF Correlated
  <2> QED
    BY <2>5, <2>6, <2>7, <2>9
<1> QED
  BY <1>2, <1>3

LEMMA EndFacts ==
  ASSUME NEW c \in Collectors, NEW id \in RequestIDs, NEW n, Correlated(c, n),
         NEW d, d = endCorrelation(c, id)
  PROVE  /\ d \in Collectors /\ SameEvidence(c, d) /\ Correlated(d, n)
         /\ d.pending[id] = 0
         /\ \A j \in RequestIDs \ {id} : d.pending[j] = c.pending[j]
<1>1. d \in Collectors /\ SameEvidence(c, d) /\ d.transactions = c.transactions
      /\ d.pending = [c.pending EXCEPT ![id] = 0]
  BY DEF endCorrelation, Collectors, SameEvidence
<1>2. c.pending \in [RequestIDs -> Nat]
  BY DEF Collectors
<1>3. d.pending[id] = 0 /\ \A j \in RequestIDs \ {id} : d.pending[j] = c.pending[j]
  BY <1>1, <1>2
<1>4. Correlated(d, n)
  BY <1>1, <1>3 DEF Correlated
<1> QED
  BY <1>1, <1>3, <1>4

(* The three operations that an event applies. *)
LEMMA BeginFacts ==
  ASSUME NEW c \in Collectors, NEW h \in AnyHops, NEW class \in Classes, NEW n, NEW m,
         Correlated(c, n), c.pending[h.id] = 0, m[h.id] = h.hop,
         \A id \in RequestIDs \ {h.id} : m[id] = n[id],
         NEW d, d = beginRequest(c, h, class)
  PROVE  /\ d \in Collectors /\ Keeps(c, d) /\ Correlated(d, m)
         /\ class = "accepted" => h \in in(d.requests) \/ "requests" \in d.truncated
         /\ \A id \in RequestIDs \ {h.id} : d.pending[id] = c.pending[id]
<1> DEFINE r == appendRequest(c, h, class)
<1>1. r \in Collectors /\ SameTransactions(c, r) /\ Keeps(c, r)
      /\ (class = "accepted" => h \in in(r.requests) \/ "requests" \in r.truncated)
  BY RequestFacts
<1>2. d = openTransaction(r, h)
  BY DEF beginRequest
<1> HIDE DEF r
<1>3. Correlated(r, n) /\ r.pending[h.id] = 0
  BY <1>1 DEF SameTransactions, Correlated
<1>4. /\ d \in Collectors /\ SameEvidence(r, d) /\ Correlated(d, m)
      /\ \A id \in RequestIDs \ {h.id} : d.pending[id] = r.pending[id]
  BY <1>1, <1>2, <1>3, OpenFacts
<1> QED
  BY <1>1, <1>4 DEF SameEvidence, SameTransactions, Keeps

LEMMA ObserveFacts ==
  ASSUME NEW c \in Collectors, NEW h \in AnyHops, NEW class \in Classes, NEW n,
         Correlated(c, n), h.hop = n[h.id],
         NEW d, d = observeResponse(c, h, class)
  PROVE  /\ d \in Collectors /\ Keeps(c, d) /\ Correlated(d, n) /\ d.pending = c.pending
         /\ class # "rejected" => h \in in(d.responses) \/ "responses" \in d.truncated
<1> DEFINE r == appendResponse(c, h, class)
<1>1. r \in Collectors /\ SameTransactions(c, r) /\ Keeps(c, r)
      /\ (class # "rejected" => h \in in(r.responses) \/ "responses" \in r.truncated)
  BY ResponseFacts
<1>2. d = patchTransaction(r, h)
  BY DEF observeResponse
<1> HIDE DEF r
<1>3. Correlated(r, n)
  BY <1>1 DEF SameTransactions, Correlated
<1>4. d \in Collectors /\ SameEvidence(r, d) /\ Correlated(d, n) /\ d.pending = r.pending
  BY <1>1, <1>2, <1>3, PatchFacts
<1> QED
  BY <1>1, <1>4 DEF SameEvidence, SameTransactions, Keeps

LEMMA RedirectFacts ==
  ASSUME NEW c \in Collectors, NEW h \in AnyHops, NEW class \in Classes, NEW n,
         Correlated(c, n), h.hop = n[h.id],
         NEW d, d = observeRedirect(c, h, class)
  PROVE  /\ d \in Collectors /\ Keeps(c, d) /\ Correlated(d, n) /\ d.pending[h.id] = 0
         /\ \A id \in RequestIDs \ {h.id} : d.pending[id] = c.pending[id]
         /\ class # "rejected" => h \in in(d.responses) \/ "responses" \in d.truncated
<1> DEFINE r == observeResponse(c, h, class)
<1>1. /\ r \in Collectors /\ Keeps(c, r) /\ Correlated(r, n) /\ r.pending = c.pending
      /\ class # "rejected" => h \in in(r.responses) \/ "responses" \in r.truncated
  BY ObserveFacts
<1>2. d = endCorrelation(r, h.id) /\ h.id \in RequestIDs
  BY DEF observeRedirect, AnyHops
<1> HIDE DEF r
<1>3. /\ d \in Collectors /\ SameEvidence(r, d) /\ Correlated(d, n) /\ d.pending[h.id] = 0
      /\ \A j \in RequestIDs \ {h.id} : d.pending[j] = r.pending[j]
  BY <1>1, <1>2, EndFacts
<1> QED
  BY <1>1, <1>3 DEF SameEvidence, Keeps
-----------------------------------------------------------------------------
(*                       What is kept of a page                            *)

IsPage(p) ==
  /\ p.items \in Seq(Items)
  /\ p.units \in Seq(DOMAIN p.items)
  /\ p.cookies \in Seq(Nat)

LEMMA PagesArePages == \A p \in Pages : IsPage(p)
BY PagesAssumption DEF IsPage

LEMMA NoPageIsPage == IsPage(NoPage)
<1>1. \A S : <<>> \in Seq(S)
  OBVIOUS
<1> QED
  BY <1>1 DEF IsPage, NoPage

(* A ceiling that is not exceeded cuts nothing off. *)
LEMMA FirstIsAll ==
  ASSUME NEW S \in SUBSET Nat, IsFiniteSet(S), NEW n \in Nat, ~(Cardinality(S) > n)
  PROVE  first(S, n) = S
<1> SUFFICES ASSUME NEW i \in S PROVE Cardinality({j \in S : j < i}) < n
  BY DEF first
<1> DEFINE T == {j \in S : j < i}
<1>1. T \in SUBSET S /\ T # S
  <2>1. i \notin T
    OBVIOUS
  <2> QED
    BY <2>1
<1> HIDE DEF T
<1>2. IsFiniteSet(T) /\ Cardinality(T) <= Cardinality(S) /\ Cardinality(T) # Cardinality(S)
  BY <1>1, FS_Subset
<1>3. Cardinality(T) \in Nat /\ Cardinality(S) \in Nat
  BY <1>2, FS_CardinalityType
<1>4. Cardinality(T) < n
  BY <1>2, <1>3
<1> QED
  BY <1>4 DEF T

LEMMA WalkIsWhole ==
  ASSUME NEW p, IsPage(p), ~traversalTruncated(p)
  PROVE  visited(p) = DOMAIN p.items
BY PagesAssumption DEF IsPage, traversalTruncated, visited

LEMMA ContentIsWhole ==
  ASSUME NEW p, IsPage(p), ~domTruncated(p)
  PROVE  content(p) = DOMAIN p.units
<1>1. ~traversalTruncated(p) /\ content(p) = written(p)
  BY DEF domTruncated
<1>2. visited(p) = DOMAIN p.items
  BY <1>1, WalkIsWhole
<1>3. \A k \in DOMAIN p.units : p.units[k] \in DOMAIN p.items
  BY DEF IsPage
<1> QED
  BY <1>1, <1>2, <1>3 DEF written

(* A resource is collected and accepted, or its channel is truncated. *)
LEMMA ResourcesAreWhole ==
  ASSUME NEW p, IsPage(p), NEW kind, ~resourceTruncated(p, kind)
  PROVE  {i \in DOMAIN p.items : /\ p.items[i].kind = kind
                                /\ p.items[i].url \in {"accepted", "oversized"}}
           \subseteq cleanResourceURLs(p, kind)
<1> DEFINE S == offered(p, kind)
<1>1. /\ ~traversalTruncated(p) /\ ~(Cardinality(S) > MaxItems)
      /\ resources(p, kind, {"oversized"}) = {}
  BY DEF resourceTruncated
<1>2. visited(p) = DOMAIN p.items
  BY <1>1, WalkIsWhole
<1>3. S \in SUBSET (1..Len(p.items)) /\ Len(p.items) \in Nat
  BY <1>2 DEF IsPage, offered, resources
<1>4. IsFiniteSet(S) /\ S \in SUBSET Nat
  <2> HIDE DEF S
  <2>1. IsFiniteSet(1..Len(p.items))
    BY <1>3, FS_Interval
  <2>2. IsFiniteSet(S)
    BY <1>3, <2>1, FS_Subset
  <2> QED
    BY <1>3, <2>2
<1>5. MaxItems \in Nat
  BY PagesAssumption
<1>6. collected(p, kind) = S
  <2> HIDE DEF S
  <2>1. first(S, MaxItems) = S
    BY <1>1, <1>4, <1>5, FirstIsAll
  <2> QED
    BY <2>1 DEF collected, S
<1> QED
  BY <1>1, <1>2, <1>6 DEF cleanResourceURLs, offered, resources

LEMMA CookiesAreWhole ==
  ASSUME NEW p, IsPage(p), ~cookiesTruncated(p)
  PROVE  distinctCookies(p) = cleanCookies(p)
<1> DEFINE S == distinctCookies(p)
           all == {p.cookies[i] : i \in 1..Len(p.cookies)}
<1>1. p.cookies \in Seq(Nat) /\ Len(p.cookies) \in Nat /\ DOMAIN p.cookies = 1..Len(p.cookies)
  BY DEF IsPage
<1>2. IsFiniteSet(1..Len(p.cookies))
  BY <1>1, FS_Interval
<1>3. IsFiniteSet(all)
  <2>1. p.cookies \in Surjection(1..Len(p.cookies), all)
    BY <1>1 DEF Surjection
  <2> QED
    BY <1>2, <2>1, FS_Surjection
<1>4. S \in SUBSET all /\ S \in SUBSET Nat
  BY <1>1 DEF distinctCookies
<1>5. IsFiniteSet(S) /\ ~(Cardinality(S) > MaxItems) /\ MaxItems \in Nat
  BY <1>3, <1>4, FS_Subset, PagesAssumption DEF cookiesTruncated
<1>6. first(S, MaxItems) = S
  <2> HIDE DEF S
  <2> QED BY <1>4, <1>5, FirstIsAll
<1> QED
  BY <1>6 DEF cleanCookies
-----------------------------------------------------------------------------
(*                          The invariant                                  *)

lengths == [id \in RequestIDs |-> Len(hops[id])]

(* The events of a request come in the order of its hops. *)
NetworkSound ==
  /\ net \in [RequestIDs -> {"unsent", "sent", "answered", "ended"}]
  /\ hops \in [RequestIDs -> Seq(Classes)]
  /\ \A id \in RequestIDs : net[id] = "unsent" <=> hops[id] = <<>>
  /\ \A h \in seen.requests \cup seen.responses : h \in AnyHops /\ h.hop \in DOMAIN hops[h.id]

CollectorSound ==
  /\ collector \in Collectors
  /\ Correlated(collector, lengths)
  /\ \A id \in RequestIDs : net[id] = "unsent" => collector.pending[id] = 0

(* What an event showed is in the result, or its channel is truncated. *)
EvidenceSound ==
  /\ \A h \in seen.requests : classOf(h) = "accepted" =>
       h \in in(collector.requests) \/ "requests" \in collector.truncated
  /\ \A h \in seen.responses : classOf(h) # "rejected" =>
       h \in in(collector.responses) \/ "responses" \in collector.truncated

(* The main frame moves on only: what it is before and after one capture   *)
(* it was in between.                                                      *)
DocumentsSound ==
  /\ loader \in Nat
  /\ frames \in [before : Nat, world : Nat, dom : Nat, failed : Failures]
  /\ fpc \in {"world", "evaluate", "after"} => frames.before <= loader
  /\ fpc \in {"world", "evaluate"} => frames.failed = "no"
  /\ fpc = "evaluate" \/ (fpc = "after" /\ frames.failed = "no") =>
       frames.before <= frames.world /\ frames.world <= loader
  /\ fpc = "after" /\ frames.failed = "no" => frames.dom = frames.world
  /\ "dom" \in observed =>
       fpc \in {"snapshot", "done"} /\ frames.before = frames.world /\ frames.world = frames.dom

PageSound == page \in Pages \cup {NoPage}

IInv == NetworkSound /\ CollectorSound /\ EvidenceSound /\ DocumentsSound /\ PageSound
-----------------------------------------------------------------------------
LEMMA EmptyFacts ==
  /\ \A S : <<>> \in Seq(S)
  /\ Len(<<>>) = 0 /\ DOMAIN <<>> = {}
OBVIOUS

LEMMA InitIInv == Init => IInv
<1> SUFFICES ASSUME Init PROVE IInv
  OBVIOUS
<1>1. collector \in Collectors
  <2>1. [id \in RequestIDs |-> 0] \in [RequestIDs -> Nat]
    OBVIOUS
  <2>2. <<>> \in Seq(AnyHops) /\ <<>> \in Seq(Transactions)
    BY EmptyFacts
  <2> QED
    BY <2>1, <2>2 DEF Init, Collectors
<1>2. CollectorSound
  BY <1>1, EmptyFacts DEF Init, CollectorSound, Correlated
<1>3. NetworkSound
  <2>1. [id \in RequestIDs |-> <<>>] \in [RequestIDs -> Seq(Classes)]
    BY EmptyFacts
  <2> QED
    BY <2>1 DEF Init, NetworkSound
<1>4. EvidenceSound
  BY DEF Init, EvidenceSound
<1>5. DocumentsSound
  BY DEF Init, DocumentsSound, Failures, NoFrames
<1>6. PageSound
  BY DEF Init, PageSound
<1> QED
  BY <1>2, <1>3, <1>4, <1>5, <1>6 DEF IInv

(* Evidence that was kept, or whose channel is truncated, stays so. *)
LEMMA EvidenceStays ==
  ASSUME NEW c \in Collectors, NEW d \in Collectors, Keeps(c, d), NEW h,
         NEW channel \in {"requests", "responses"},
         h \in in(c[channel]) \/ channel \in c.truncated
  PROVE  h \in in(d[channel]) \/ channel \in d.truncated
BY DEF Keeps, Collectors

(* The class of a hop stays what it was when its event came. *)
LEMMA ClassesStay ==
  ASSUME NetworkSound, NEW id \in RequestIDs, NEW class \in Classes,
         hops' = [hops EXCEPT ![id] = Append(@, class)]
  PROVE  /\ hops' \in [RequestIDs -> Seq(Classes)]
         /\ lengths' = [lengths EXCEPT ![id] = @ + 1]
         /\ Hop(id, Len(hops[id]) + 1) \in AnyHops
         /\ Len(hops[id]) + 1 \in DOMAIN hops'[id]
         /\ hops'[id][Len(hops[id]) + 1] = class
         /\ \A h \in seen.requests \cup seen.responses :
              h.hop \in DOMAIN hops'[h.id] /\ hops'[h.id][h.hop] = hops[h.id][h.hop]
<1> DEFINE s == hops[id]
           t == Append(s, class)
<1>1. s \in Seq(Classes) /\ Len(s) \in Nat /\ DOMAIN s = 1..Len(s)
  BY DEF NetworkSound
<1>2. t \in Seq(Classes) /\ Len(t) = Len(s) + 1 /\ DOMAIN t = 1..(Len(s) + 1)
      /\ t[Len(s) + 1] = class /\ \A i \in DOMAIN s : i \in DOMAIN t /\ t[i] = s[i]
  BY <1>1
<1>3. hops' = [hops EXCEPT ![id] = t]
  OBVIOUS
<1> HIDE DEF t
<1>4. hops' \in [RequestIDs -> Seq(Classes)] /\ hops'[id] = t
      /\ \A j \in RequestIDs \ {id} : hops'[j] = hops[j]
  BY <1>2, <1>3 DEF NetworkSound
<1>5. lengths' = [lengths EXCEPT ![id] = @ + 1]
  BY <1>2, <1>4 DEF lengths
<1>6. Hop(id, Len(hops[id]) + 1) \in AnyHops /\ Len(hops[id]) + 1 \in DOMAIN hops'[id]
  BY <1>1, <1>2, <1>4 DEF Hop, AnyHops
<1>7. hops'[id][Len(hops[id]) + 1] = class
  BY <1>2, <1>4
<1>8. \A h \in seen.requests \cup seen.responses :
        h.hop \in DOMAIN hops'[h.id] /\ hops'[h.id][h.hop] = hops[h.id][h.hop]
  BY <1>2, <1>4 DEF NetworkSound, AnyHops
<1> QED
  BY <1>4, <1>5, <1>6, <1>7, <1>8

(* The evidence of an event is added to that of the events before it. *)
LEMMA EvidenceStep ==
  ASSUME EvidenceSound, collector \in Collectors, collector' \in Collectors,
         Keeps(collector, collector'),
         \A h \in seen.requests \cup seen.responses : hops'[h.id][h.hop] = hops[h.id][h.hop],
         NEW requests, NEW responses, sees(requests, responses),
         \A h \in requests : hops'[h.id][h.hop] = "accepted" =>
           h \in in(collector'.requests) \/ "requests" \in collector'.truncated,
         \A h \in responses : hops'[h.id][h.hop] # "rejected" =>
           h \in in(collector'.responses) \/ "responses" \in collector'.truncated
  PROVE  EvidenceSound'
<1>1. seen'.requests = seen.requests \cup requests /\ seen'.responses = seen.responses \cup responses
  BY DEF sees
<1>2. ASSUME NEW h \in seen'.requests, hops'[h.id][h.hop] = "accepted"
      PROVE  h \in in(collector'.requests) \/ "requests" \in collector'.truncated
  <2>1. CASE h \in requests
    BY <1>2, <2>1
  <2>2. CASE h \in seen.requests
    BY <1>2, <2>2 DEF EvidenceSound, classOf, Keeps
  <2> QED
    BY <1>1, <2>1, <2>2
<1>3. ASSUME NEW h \in seen'.responses, hops'[h.id][h.hop] # "rejected"
      PROVE  h \in in(collector'.responses) \/ "responses" \in collector'.truncated
  <2>1. CASE h \in responses
    BY <1>3, <2>1
  <2>2. CASE h \in seen.responses
    BY <1>3, <2>2 DEF EvidenceSound, classOf, Keeps
  <2> QED
    BY <1>1, <2>1, <2>2
<1> QED
  BY <1>2, <1>3 DEF EvidenceSound, classOf

NetSound == NetworkSound /\ CollectorSound /\ EvidenceSound

LEMMA SentStep ==
  ASSUME NetSound, NEW id \in RequestIDs, NEW class \in Classes, RequestWillBeSent(id, class)
  PROVE  NetSound'
<1> DEFINE h == Hop(id, 1)
<1>1. hops[id] = <<>> /\ Len(hops[id]) = 0 /\ collector.pending[id] = 0
  BY EmptyFacts DEF NetSound, NetworkSound, CollectorSound, RequestWillBeSent
<1>2. hops' = [hops EXCEPT ![id] = Append(@, class)] /\ hops'[id] # <<>>
  BY <1>1 DEF RequestWillBeSent, NetSound, NetworkSound
<1>3. /\ hops' \in [RequestIDs -> Seq(Classes)]
      /\ lengths' = [lengths EXCEPT ![id] = @ + 1]
      /\ h \in AnyHops /\ 1 \in DOMAIN hops'[id] /\ hops'[id][1] = class
      /\ \A k \in seen.requests \cup seen.responses :
           k.hop \in DOMAIN hops'[k.id] /\ hops'[k.id][k.hop] = hops[k.id][k.hop]
  <2> DEFINE k == Len(hops[id]) + 1
  <2>1. /\ hops' \in [RequestIDs -> Seq(Classes)]
        /\ lengths' = [lengths EXCEPT ![id] = @ + 1]
        /\ Hop(id, k) \in AnyHops /\ k \in DOMAIN hops'[id] /\ hops'[id][k] = class
        /\ \A g \in seen.requests \cup seen.responses :
             g.hop \in DOMAIN hops'[g.id] /\ hops'[g.id][g.hop] = hops[g.id][g.hop]
    BY <1>2, ClassesStay DEF NetSound
  <2>2. k = 1
    BY <1>1
  <2> HIDE DEF k
  <2> QED
    BY <2>1, <2>2
<1>4. lengths'[id] = 1 /\ \A j \in RequestIDs \ {id} : lengths'[j] = lengths[j]
  <2>1. lengths[id] = 0 /\ DOMAIN lengths = RequestIDs
    BY <1>1 DEF lengths
  <2> QED
    BY <1>3, <2>1
<1>5. h.id = id /\ h.hop = 1
  BY DEF Hop
<1>6. collector \in Collectors /\ Correlated(collector, lengths)
  BY DEF NetSound, CollectorSound
<1>7. collector' = beginRequest(collector, h, class) /\ sees({h}, {})
  BY DEF RequestWillBeSent
<1> HIDE DEF h
<1>8. /\ collector' \in Collectors /\ Keeps(collector, collector') /\ Correlated(collector', lengths')
      /\ class = "accepted" => h \in in(collector'.requests) \/ "requests" \in collector'.truncated
      /\ \A j \in RequestIDs \ {id} : collector'.pending[j] = collector.pending[j]
  <2>1. lengths'[h.id] = h.hop /\ collector.pending[h.id] = 0
        /\ \A j \in RequestIDs \ {h.id} : lengths'[j] = lengths[j]
    BY <1>1, <1>4, <1>5
  <2>2. /\ collector' \in Collectors /\ Keeps(collector, collector') /\ Correlated(collector', lengths')
        /\ class = "accepted" => h \in in(collector'.requests) \/ "requests" \in collector'.truncated
        /\ \A j \in RequestIDs \ {h.id} : collector'.pending[j] = collector.pending[j]
    <3>1. ASSUME NEW c, NEW d, NEW n, NEW m, c = collector, d = collector', n = lengths, m = lengths'
          PROVE  /\ d \in Collectors /\ Keeps(c, d) /\ Correlated(d, m)
                 /\ class = "accepted" => h \in in(d.requests) \/ "requests" \in d.truncated
                 /\ \A j \in RequestIDs \ {h.id} : d.pending[j] = c.pending[j]
      <4>1. c \in Collectors /\ Correlated(c, n) /\ c.pending[h.id] = 0 /\ m[h.id] = h.hop
            /\ (\A j \in RequestIDs \ {h.id} : m[j] = n[j]) /\ d = beginRequest(c, h, class)
        BY <1>6, <1>7, <2>1, <3>1
      <4>2. h \in AnyHops
        BY <1>3
      <4> QED
        BY <4>1, <4>2, BeginFacts
    <3> QED
      BY <3>1
  <2> QED
    BY <1>5, <2>2
<1>9. net' = [net EXCEPT ![id] = "sent"] /\ hops' = [hops EXCEPT ![id] = <<class>>]
  BY DEF RequestWillBeSent
<1>10. NetworkSound'
  <2>1. net' \in [RequestIDs -> {"unsent", "sent", "answered", "ended"}]
    BY <1>9 DEF NetSound, NetworkSound
  <2>2. \A j \in RequestIDs : net'[j] = "unsent" <=> hops'[j] = <<>>
    BY <1>2, <1>9 DEF NetSound, NetworkSound
  <2>3. seen'.requests \cup seen'.responses = seen.requests \cup seen.responses \cup {h}
    BY <1>7 DEF sees
  <2>4. \A k \in seen'.requests \cup seen'.responses : k \in AnyHops /\ k.hop \in DOMAIN hops'[k.id]
    BY <1>3, <1>5, <2>3 DEF NetSound, NetworkSound
  <2> QED
    BY <1>3, <2>1, <2>2, <2>4 DEF NetworkSound
<1>11. CollectorSound'
  <2>1. \A j \in RequestIDs : net'[j] = "unsent" => j # id /\ net[j] = "unsent"
    BY <1>9 DEF NetSound, NetworkSound
  <2> QED
    BY <1>8, <2>1 DEF CollectorSound, NetSound
<1>12. EvidenceSound'
  BY <1>3, <1>5, <1>6, <1>7, <1>8, EvidenceStep DEF NetSound
<1> QED
  BY <1>10, <1>11, <1>12 DEF NetSound

(* The latest hop of a request that was sent. *)
LEMMA CurrentHop ==
  ASSUME NetworkSound, NEW id \in RequestIDs, net[id] # "unsent"
  PROVE  /\ current(id) \in AnyHops /\ current(id).id = id
         /\ current(id).hop = Len(hops[id]) /\ current(id).hop = lengths[id]
         /\ current(id).hop \in DOMAIN hops[id]
         /\ classOf(current(id)) = hops[id][Len(hops[id])] /\ classOf(current(id)) \in Classes
<1>1. hops[id] \in Seq(Classes) /\ hops[id] # <<>>
  BY DEF NetworkSound
<1>2. Len(hops[id]) \in Nat \ {0} /\ Len(hops[id]) \in DOMAIN hops[id]
      /\ hops[id][Len(hops[id])] \in Classes
  BY <1>1
<1>3. current(id).id = id /\ current(id).hop = Len(hops[id]) /\ current(id) \in AnyHops
  BY <1>2 DEF current, Hop, AnyHops
<1>4. lengths[id] = Len(hops[id])
  BY DEF lengths
<1> QED
  BY <1>2, <1>3, <1>4 DEF classOf

LEMMA RedirectedStep ==
  ASSUME NetSound, NEW id \in RequestIDs, NEW class \in Classes, Redirected(id, class)
  PROVE  NetSound'
<1> DEFINE old == current(id)
           new == Hop(id, Len(hops[id]) + 1)
           closed == observeRedirect(collector, old, classOf(old))
<1>1. /\ net[id] = "sent" /\ net' = net /\ hops' = [hops EXCEPT ![id] = Append(@, class)]
      /\ old.id = id /\ old.hop = Len(hops[id]) /\ old.hop = lengths[id] /\ old \in AnyHops
      /\ old.hop \in DOMAIN hops[id] /\ classOf(old) = hops[id][old.hop] /\ classOf(old) \in Classes
  BY CurrentHop DEF Redirected, NetSound
<1>2. collector' = beginRequest(closed, new, class) /\ sees({new}, {old})
  BY <1>1 DEF Redirected
<1>3. /\ hops' \in [RequestIDs -> Seq(Classes)]
      /\ lengths' = [lengths EXCEPT ![id] = @ + 1]
      /\ new \in AnyHops /\ Len(hops[id]) + 1 \in DOMAIN hops'[id]
      /\ hops'[id][Len(hops[id]) + 1] = class
      /\ \A g \in seen.requests \cup seen.responses :
           g.hop \in DOMAIN hops'[g.id] /\ hops'[g.id][g.hop] = hops[g.id][g.hop]
  BY <1>1, ClassesStay DEF NetSound
<1>4. old.hop \in DOMAIN hops'[id] /\ hops'[id][old.hop] = classOf(old) /\ hops'[id] # <<>>
  <2> DEFINE s == hops[id]
  <2>1. s \in Seq(Classes) /\ id \in DOMAIN hops
    BY DEF NetSound, NetworkSound
  <2>2. hops'[id] = Append(s, class)
    BY <1>1, <2>1
  <2>3. Append(s, class)[old.hop] = s[old.hop] /\ old.hop \in DOMAIN Append(s, class)
        /\ Append(s, class) # <<>>
    BY <1>1, <2>1
  <2> QED
    BY <1>1, <2>2, <2>3
<1>5. new.id = id /\ new.hop = Len(hops[id]) + 1
  BY DEF Hop
<1>6. lengths'[id] = new.hop /\ \A j \in RequestIDs \ {id} : lengths'[j] = lengths[j]
  <2>1. DOMAIN lengths = RequestIDs
    BY DEF lengths
  <2> QED
    BY <1>1, <1>3, <1>5, <2>1
<1>7. collector \in Collectors /\ Correlated(collector, lengths)
  BY DEF NetSound, CollectorSound
<1> HIDE DEF old, new
<1>8. ASSUME NEW c, NEW b, NEW d, NEW n, NEW m, NEW o, NEW w, NEW k,
             c = collector, b = closed, d = collector', n = lengths, m = lengths',
             o = old, w = new, k = classOf(old)
      PROVE  /\ d \in Collectors /\ Keeps(c, d) /\ Correlated(d, m)
             /\ class = "accepted" => w \in in(d.requests) \/ "requests" \in d.truncated
             /\ k # "rejected" => o \in in(d.responses) \/ "responses" \in d.truncated
             /\ \A j \in RequestIDs \ {id} : d.pending[j] = c.pending[j]
  <2>1. /\ c \in Collectors /\ Correlated(c, n) /\ o \in AnyHops /\ o.id = id /\ o.hop = n[o.id]
        /\ k \in Classes /\ b = observeRedirect(c, o, k)
    BY <1>1, <1>7, <1>8
  <2>2. /\ b \in Collectors /\ Keeps(c, b) /\ Correlated(b, n) /\ b.pending[o.id] = 0
        /\ \A j \in RequestIDs \ {o.id} : b.pending[j] = c.pending[j]
        /\ k # "rejected" => o \in in(b.responses) \/ "responses" \in b.truncated
    BY <2>1, RedirectFacts
  <2>3. /\ w \in AnyHops /\ w.id = id /\ b.pending[w.id] = 0 /\ m[w.id] = w.hop
        /\ (\A j \in RequestIDs \ {w.id} : m[j] = n[j]) /\ d = beginRequest(b, w, class)
    BY <1>2, <1>3, <1>5, <1>6, <1>8, <2>1, <2>2
  <2>4. /\ d \in Collectors /\ Keeps(b, d) /\ Correlated(d, m)
        /\ class = "accepted" => w \in in(d.requests) \/ "requests" \in d.truncated
        /\ \A j \in RequestIDs \ {w.id} : d.pending[j] = b.pending[j]
    BY <2>2, <2>3, BeginFacts
  <2> QED
    BY <2>1, <2>2, <2>3, <2>4 DEF Keeps
<1>9. /\ collector' \in Collectors /\ Keeps(collector, collector') /\ Correlated(collector', lengths')
      /\ class = "accepted" => new \in in(collector'.requests) \/ "requests" \in collector'.truncated
      /\ classOf(old) # "rejected" =>
           old \in in(collector'.responses) \/ "responses" \in collector'.truncated
      /\ \A j \in RequestIDs \ {id} : collector'.pending[j] = collector.pending[j]
  BY <1>8
<1>10. NetworkSound'
  <2>1. \A j \in RequestIDs : net'[j] = "unsent" <=> hops'[j] = <<>>
    BY <1>1, <1>4 DEF NetSound, NetworkSound
  <2>2. seen'.requests \cup seen'.responses = seen.requests \cup seen.responses \cup {old, new}
    BY <1>2 DEF sees
  <2>3. \A g \in seen'.requests \cup seen'.responses : g \in AnyHops /\ g.hop \in DOMAIN hops'[g.id]
    BY <1>1, <1>3, <1>4, <1>5, <2>2 DEF NetSound, NetworkSound
  <2> QED
    BY <1>1, <1>3, <2>1, <2>3 DEF NetworkSound, NetSound
<1>11. CollectorSound'
  <2>1. \A j \in RequestIDs : net'[j] = "unsent" => j # id /\ net[j] = "unsent"
    BY <1>1
  <2> QED
    BY <1>9, <2>1 DEF CollectorSound, NetSound
<1>12. EvidenceSound'
  <2>1. \A g \in {new} : hops'[g.id][g.hop] = "accepted" =>
          g \in in(collector'.requests) \/ "requests" \in collector'.truncated
    BY <1>3, <1>5, <1>9
  <2>2. \A g \in {old} : hops'[g.id][g.hop] # "rejected" =>
          g \in in(collector'.responses) \/ "responses" \in collector'.truncated
    BY <1>1, <1>4, <1>9
  <2> QED
    BY <1>2, <1>3, <1>7, <1>9, <2>1, <2>2, EvidenceStep DEF NetSound
<1> QED
  BY <1>10, <1>11, <1>12 DEF NetSound

LEMMA ResponseStep ==
  ASSUME NetSound, NEW id \in RequestIDs, ResponseReceived(id)
  PROVE  NetSound'
<1> DEFINE h == current(id)
<1>1. /\ net[id] = "sent" /\ net' = [net EXCEPT ![id] = "answered"] /\ hops' = hops
      /\ h.id = id /\ h.hop = lengths[id] /\ h \in AnyHops
      /\ h.hop \in DOMAIN hops[id] /\ classOf(h) = hops[id][h.hop] /\ classOf(h) \in Classes
      /\ collector' = observeResponse(collector, h, classOf(h)) /\ sees({}, {h})
  BY CurrentHop DEF ResponseReceived, NetSound
<1>2. collector \in Collectors /\ Correlated(collector, lengths) /\ lengths' = lengths
  BY <1>1 DEF NetSound, CollectorSound, lengths
<1> HIDE DEF h
<1>3. ASSUME NEW c, NEW d, NEW n, NEW o, NEW k,
             c = collector, d = collector', n = lengths, o = h, k = classOf(h)
      PROVE  /\ d \in Collectors /\ Keeps(c, d) /\ Correlated(d, n) /\ d.pending = c.pending
             /\ k # "rejected" => o \in in(d.responses) \/ "responses" \in d.truncated
  <2>1. /\ c \in Collectors /\ Correlated(c, n) /\ o \in AnyHops /\ o.hop = n[o.id]
        /\ k \in Classes /\ d = observeResponse(c, o, k)
    BY <1>1, <1>2, <1>3
  <2> QED
    BY <2>1, ObserveFacts
<1>4. /\ collector' \in Collectors /\ Keeps(collector, collector') /\ Correlated(collector', lengths')
      /\ collector'.pending = collector.pending
      /\ classOf(h) # "rejected" => h \in in(collector'.responses) \/ "responses" \in collector'.truncated
  BY <1>2, <1>3
<1>5. NetworkSound'
  <2>1. seen'.requests \cup seen'.responses = seen.requests \cup seen.responses \cup {h}
    BY <1>1 DEF sees
  <2> QED
    BY <1>1, <2>1 DEF NetworkSound, NetSound
<1>6. CollectorSound'
  BY <1>1, <1>4 DEF CollectorSound, NetSound, NetworkSound
<1>7. EvidenceSound'
  <2>1. \A g \in {h} : hops'[g.id][g.hop] # "rejected" =>
          g \in in(collector'.responses) \/ "responses" \in collector'.truncated
    BY <1>1, <1>4
  <2> QED
    BY <1>1, <1>2, <1>4, <2>1, EvidenceStep DEF NetSound
<1> QED
  BY <1>5, <1>6, <1>7 DEF NetSound

LEMMA EndStep ==
  ASSUME NetSound, NEW id \in RequestIDs, LoadingEnds(id)
  PROVE  NetSound'
<1>1. /\ net[id] \in {"sent", "answered"} /\ net' = [net EXCEPT ![id] = "ended"]
      /\ hops' = hops /\ seen' = seen /\ lengths' = lengths
      /\ collector' = endCorrelation(collector, id)
  BY DEF LoadingEnds, lengths
<1>2. ASSUME NEW c, NEW d, NEW n, c = collector, d = collector', n = lengths
      PROVE  /\ d \in Collectors /\ SameEvidence(c, d) /\ Correlated(d, n) /\ d.pending[id] = 0
             /\ \A j \in RequestIDs \ {id} : d.pending[j] = c.pending[j]
  <2>1. c \in Collectors /\ Correlated(c, n) /\ d = endCorrelation(c, id)
    BY <1>1, <1>2 DEF NetSound, CollectorSound
  <2> QED
    BY <2>1, EndFacts
<1>3. /\ collector' \in Collectors /\ SameEvidence(collector, collector')
      /\ Correlated(collector', lengths') /\ collector'.pending[id] = 0
      /\ \A j \in RequestIDs \ {id} : collector'.pending[j] = collector.pending[j]
  BY <1>1, <1>2
<1>4. NetworkSound'
  BY <1>1 DEF NetworkSound, NetSound
<1>5. CollectorSound'
  BY <1>1, <1>3 DEF CollectorSound, NetSound, NetworkSound
<1>6. EvidenceSound'
  BY <1>1, <1>3 DEF EvidenceSound, NetSound, SameEvidence, classOf
<1> QED
  BY <1>4, <1>5, <1>6 DEF NetSound

(* finish and the page leave the network and the collector alone. *)
LEMMA NetFrame ==
  ASSUME NetSound, UNCHANGED <<net, hops, collector, seen>>
  PROVE  NetSound'
BY DEF NetSound, NetworkSound, CollectorSound, EvidenceSound, lengths, classOf

LEMMA NetSoundStep == NetSound /\ [Next]_vars => NetSound'
<1> SUFFICES ASSUME NetSound, [Next]_vars PROVE NetSound'
  OBVIOUS
<1>1. CASE Network
  BY <1>1, SentStep, RedirectedStep, ResponseStep, EndStep DEF Network
<1>2. CASE Commits
  BY <1>2, NetFrame DEF Commits
<1>3. CASE Finishing
  BY <1>3, NetFrame DEF Finishing, FinishCanceled, MainFrameBefore, MainFrameAfter, Snapshot,
                        Finish, Query, CreateWorld, Evaluate, finishFrame, env
<1>4. CASE UNCHANGED vars
  BY <1>4, NetFrame DEF vars, env
<1> QED
  BY <1>1, <1>2, <1>3, <1>4 DEF Next

LEMMA DocumentsStep == DocumentsSound /\ [Next]_vars => DocumentsSound'
<1> SUFFICES ASSUME DocumentsSound, [Next]_vars PROVE DocumentsSound'
  OBVIOUS
<1> USE DEF DocumentsSound, Failures
<1>1. CASE Network
  BY <1>1 DEF Network, RequestWillBeSent, Redirected, ResponseReceived, LoadingEnds,
              eventFrame, finishing
<1>2. CASE Commits
  BY <1>2 DEF Commits, finishing
<1>3. CASE Finishing
  <2> USE DEF finishFrame, env
  <2>1. CASE FinishCanceled
    BY <2>1 DEF FinishCanceled, NoFrames
  <2>2. CASE MainFrameBefore
    BY <2>2 DEF MainFrameBefore, NoFrames
  <2>3. CASE MainFrameAfter
    <3>1. CASE frames.failed = "no" /\ ~transitioned
      BY <2>3, <3>1 DEF MainFrameAfter, transitioned
    <3>2. CASE ~(frames.failed = "no" /\ ~transitioned)
      BY <2>3, <3>2 DEF MainFrameAfter, NoFrames
    <3> QED
      BY <3>1, <3>2
  <2>4. CASE Snapshot
    BY <2>4 DEF Snapshot
  <2>5. ASSUME NEW ok \in BOOLEAN, Finish(ok) PROVE DocumentsSound'
    BY <2>5 DEF Finish
  <2>6. ASSUME NEW ok \in BOOLEAN, Query(ok) PROVE DocumentsSound'
    BY <2>6 DEF Query
  <2>7. ASSUME NEW failure \in Failures, CreateWorld(failure) PROVE DocumentsSound'
    BY <2>7 DEF CreateWorld
  <2>8. ASSUME NEW failure \in Failures, Evaluate(failure) PROVE DocumentsSound'
    BY <2>8 DEF Evaluate
  <2> QED
    BY <1>3, <2>1, <2>2, <2>3, <2>4, <2>5, <2>6, <2>7, <2>8 DEF Finishing
<1>4. CASE UNCHANGED vars
  BY <1>4 DEF vars, env, finishing
<1> QED
  BY <1>1, <1>2, <1>3, <1>4 DEF Next

LEMMA PageStep == PageSound /\ [Next]_vars => PageSound'
<1> SUFFICES ASSUME PageSound, [Next]_vars PROVE PageSound'
  OBVIOUS
<1>1. CASE Snapshot
  BY <1>1 DEF Snapshot, PageSound
<1>2. CASE Network
  BY <1>2 DEF Network, RequestWillBeSent, Redirected, ResponseReceived, LoadingEnds,
              eventFrame, finishing, PageSound
<1>3. CASE Commits
  BY <1>3 DEF Commits, finishing, PageSound
<1>4. CASE Finishing /\ ~Snapshot
  BY <1>4 DEF Finishing, FinishCanceled, MainFrameBefore, MainFrameAfter, Finish, Query,
              CreateWorld, Evaluate, finishFrame, PageSound
<1>5. CASE UNCHANGED vars
  BY <1>5 DEF vars, finishing, PageSound
<1> QED
  BY <1>1, <1>2, <1>3, <1>4, <1>5 DEF Next, Finishing

LEMMA StepIInv == IInv /\ [Next]_vars => IInv'
BY NetSoundStep, DocumentsStep, PageStep DEF IInv, NetSound
-----------------------------------------------------------------------------
(* The inductive invariant of a capture. *)
THEOREM CaptureInvariant == Spec => []IInv
<1> QED
  BY InitIInv, StepIInv, PTL DEF Spec

(* An open transaction is filed under its own identifier and belongs to    *)
(* the latest hop, and a response patches the transaction of its own hop   *)
(* only (captureCollector.beginRequest, observeResponse, observeRedirect). *)
THEOREM CorrelationIsSound == Spec => []CorrelationSound
<1>1. IInv => CorrelationSound
  <2> SUFFICES ASSUME IInv PROVE CorrelationSound
    OBVIOUS
  <2>1. \A id \in RequestIDs : lengths[id] = Len(hops[id])
    BY DEF lengths
  <2> QED
    BY <2>1 DEF IInv, CollectorSound, Correlated, CorrelationSound, pendingIDs, current
<1> QED
  BY <1>1, CaptureInvariant, PTL

(* A channel whose coverage is complete has lost nothing of what the       *)
(* listener saw, nor of the page, whatever the ceilings are                *)
(* (appendRequestLocked, appendResponseLocked, boundedDOMSerializer,       *)
(* cleanCookies, browserCapabilityCoverage).                               *)
THEOREM CompleteChannels == Spec => []CompleteChannelsLoseNothing
<1>1. IInv => CompleteChannelsLoseNothing
  <2> SUFFICES ASSUME IInv PROVE CompleteChannelsLoseNothing
    OBVIOUS
  <2>1. complete("network_response") =>
          {h \in seen.responses : classOf(h) # "rejected"} \subseteq in(collector.responses)
    BY DEF IInv, EvidenceSound, complete
  <2>2. complete("network_request") =>
          {h \in seen.requests : classOf(h) = "accepted"} \subseteq in(collector.requests)
    BY DEF IInv, EvidenceSound, complete
  <2>3. IsPage(page)
    BY PagesArePages, NoPageIsPage DEF IInv, PageSound
  <2>4. complete("page_content") => content(page) = DOMAIN page.units
    BY <2>3, ContentIsWhole DEF complete
  <2>5. ASSUME NEW kind \in {"script_url", "iframe_url"}, complete(kind)
        PROVE  {i \in DOMAIN page.items : /\ page.items[i].kind = kind
                                         /\ page.items[i].url \in {"accepted", "oversized"}}
                 \subseteq cleanResourceURLs(page, kind)
    <3>1. ~resourceTruncated(page, kind)
      BY <2>5 DEF complete
    <3> QED
      BY <2>3, <3>1, ResourcesAreWhole
  <2>6. complete("cookie") => distinctCookies(page) = cleanCookies(page)
    BY <2>3, CookiesAreWhole DEF complete
  <2> QED
    BY <2>1, <2>2, <2>4, <2>5, <2>6 DEF CompleteChannelsLoseNothing
<1> QED
  BY <1>1, CaptureInvariant, PTL

(* Page content that is complete is that of one document, the main frame's *)
(* before and after it was serialized (captureBoundedDOMWithOps).          *)
THEOREM StableContent == Spec => []StableDOM
<1>1. IInv => StableDOM
  BY DEF IInv, DocumentsSound, StableDOM, complete
<1> QED
  BY <1>1, CaptureInvariant, PTL
-----------------------------------------------------------------------------
(*                       Ceilings and types                                *)

(* The collector is below its ceilings and names hops of S only. *)
Fits(c, S) ==
  /\ Len(c.requests) <= MaxItems /\ Len(c.responses) <= MaxItems
  /\ Len(c.transactions) <= MaxItems
  /\ in(c.requests) \subseteq S /\ in(c.responses) \subseteq S
  /\ \A i \in DOMAIN c.transactions : c.transactions[i].of \in S

LEMMA AppendBelow ==
  ASSUME NEW S, NEW s \in Seq(S), NEW x \in S, ~full(s)
  PROVE  Len(Append(s, x)) <= MaxItems
<1>1. Len(s) \in Nat /\ MaxItems \in Nat /\ ~(Len(s) >= MaxItems)
  BY PagesAssumption DEF full
<1> QED
  BY <1>1

LEMMA FitsAppended ==
  ASSUME NEW c \in Collectors, NEW h \in AnyHops, NEW class \in Classes, NEW S, h \in S, Fits(c, S),
         NEW d, d = appendRequest(c, h, class) \/ d = appendResponse(c, h, class)
  PROVE  Fits(d, S)
<1>0. c.requests \in Seq(AnyHops) /\ c.responses \in Seq(AnyHops)
  BY DEF Collectors
<1>1. CASE d = c
  BY <1>1
<1>2. ASSUME NEW channel \in {"requests", "responses"}, d = truncate(c, channel)
      PROVE  Fits(d, S)
  <2>1. d.requests = c.requests /\ d.responses = c.responses /\ d.transactions = c.transactions
    BY <1>2 DEF truncate, Collectors
  <2> QED
    BY <2>1 DEF Fits
<1>3. CASE ~full(c.requests) /\ d = [c EXCEPT !.requests = Append(@, h)]
  <2>1. /\ d.requests = Append(c.requests, h) /\ d.responses = c.responses
        /\ d.transactions = c.transactions
    BY <1>3 DEF Collectors
  <2>2. Len(Append(c.requests, h)) <= MaxItems
    BY <1>0, <1>3, AppendBelow
  <2>3. in(Append(c.requests, h)) = in(c.requests) \cup {h}
    BY <1>0, InAppend
  <2> QED
    BY <2>1, <2>2, <2>3 DEF Fits
<1>4. CASE ~full(c.responses) /\ d = [c EXCEPT !.responses = Append(@, h)]
  <2>1. /\ d.responses = Append(c.responses, h) /\ d.requests = c.requests
        /\ d.transactions = c.transactions
    BY <1>4 DEF Collectors
  <2>2. Len(Append(c.responses, h)) <= MaxItems
    BY <1>0, <1>4, AppendBelow
  <2>3. in(Append(c.responses, h)) = in(c.responses) \cup {h}
    BY <1>0, InAppend
  <2> QED
    BY <2>1, <2>2, <2>3 DEF Fits
<1>5. \/ d = c \/ d = truncate(c, "requests") \/ d = truncate(c, "responses")
      \/ ~full(c.requests) /\ d = [c EXCEPT !.requests = Append(@, h)]
      \/ ~full(c.responses) /\ d = [c EXCEPT !.responses = Append(@, h)]
  BY DEF appendRequest, appendResponse, responseDropped, Classes
<1> QED
  BY <1>1, <1>2, <1>3, <1>4, <1>5

LEMMA FitsOpened ==
  ASSUME NEW c \in Collectors, NEW h \in AnyHops, NEW S, h \in S, Fits(c, S),
         NEW d, d = openTransaction(c, h)
  PROVE  Fits(d, S)
<1> DEFINE t == [of |-> h, patched |-> {}]
           s == Append(c.transactions, t)
<1>0. c.transactions \in Seq(Transactions) /\ t \in Transactions /\ t.of = h
  BY DEF Collectors, Transactions
<1> HIDE DEF t
<1>1. CASE d = c
  BY <1>1
<1>2. CASE ~full(c.transactions) /\ d = [c EXCEPT !.transactions = s,
                                               !.pending[h.id] = Len(c.transactions) + 1]
  <2>1. Len(s) <= MaxItems
    BY <1>0, <1>2, AppendBelow
  <2>2. /\ DOMAIN s = DOMAIN c.transactions \cup {Len(c.transactions) + 1}
        /\ s[Len(c.transactions) + 1] = t
        /\ \A i \in DOMAIN c.transactions : s[i] = c.transactions[i]
    BY <1>0
  <2> HIDE DEF s
  <2>3. d.transactions = s /\ d.requests = c.requests /\ d.responses = c.responses
    BY <1>2 DEF Collectors
  <2> QED
    BY <1>0, <2>1, <2>2, <2>3 DEF Fits
<1>3. d = c \/ (~full(c.transactions)
                /\ d = [c EXCEPT !.transactions = s, !.pending[h.id] = Len(c.transactions) + 1])
  BY DEF openTransaction, t
<1> QED
  BY <1>1, <1>2, <1>3

LEMMA FitsPatched ==
  ASSUME NEW c \in Collectors, NEW h \in AnyHops, NEW n, Correlated(c, n), h.hop = n[h.id],
         NEW S, Fits(c, S), NEW d, d = patchTransaction(c, h)
  PROVE  Fits(d, S)
<1>1. /\ d \in Collectors /\ SameEvidence(c, d)
      /\ DOMAIN d.transactions = DOMAIN c.transactions
      /\ \A i \in DOMAIN d.transactions : d.transactions[i].of = c.transactions[i].of
  BY PatchFacts
<1>2. Len(d.transactions) = Len(c.transactions)
  <2>1. d.transactions \in Seq(Transactions) /\ c.transactions \in Seq(Transactions)
    BY <1>1 DEF Collectors
  <2>2. /\ Len(d.transactions) \in Nat /\ DOMAIN d.transactions = 1..Len(d.transactions)
        /\ Len(c.transactions) \in Nat /\ DOMAIN c.transactions = 1..Len(c.transactions)
    BY <2>1
  <2>3. ASSUME NEW a \in Nat, NEW b \in Nat, 1..a = 1..b PROVE a <= b
    <3>1. a = 0 \/ a \in 1..a
      BY SMT
    <3>2. a = 0 \/ a \in 1..b
      BY <2>3, <3>1
    <3> QED
      BY <3>2
  <2>4. /\ Len(d.transactions) <= Len(c.transactions)
        /\ Len(c.transactions) <= Len(d.transactions)
    <3>1. 1..Len(d.transactions) = 1..Len(c.transactions)
      BY <1>1, <2>2
    <3> QED
      BY <2>2, <2>3, <3>1
  <2> QED
    BY <2>2, <2>4
<1> QED
  BY <1>1, <1>2 DEF Fits, SameEvidence

LEMMA FitsEnded ==
  ASSUME NEW c \in Collectors, NEW id, NEW S, Fits(c, S), NEW d, d = endCorrelation(c, id)
  PROVE  Fits(d, S)
<1>1. d.requests = c.requests /\ d.responses = c.responses /\ d.transactions = c.transactions
  BY DEF endCorrelation, Collectors
<1> QED
  BY <1>1 DEF Fits

(* Every hop had its event, so the events count the hops; the collector    *)
(* only knows hops that had one.                                           *)
HopsSound ==
  /\ seen = [requests |-> seen.requests, responses |-> seen.responses]
  /\ IsFiniteSet(seen.requests) /\ Cardinality(seen.requests) <= MaxHops
  /\ seen.responses \subseteq seen.requests
  /\ \A id \in RequestIDs : \A n \in 1..Len(hops[id]) : Hop(id, n) \in seen.requests
  /\ Fits(collector, seen.requests)

LEMMA AnotherHop ==
  ASSUME HopsSound, anotherHop, NEW h, NEW S, h \in S, seen.requests \cup {h} = S
  PROVE  IsFiniteSet(S) /\ Cardinality(S) <= MaxHops
<1>1. /\ IsFiniteSet(seen.requests) /\ Cardinality(seen.requests) < MaxHops
      /\ Cardinality(seen.requests) \in Nat
  BY FS_CardinalityType DEF HopsSound, anotherHop
<1>2. /\ IsFiniteSet(seen.requests \cup {h})
      /\ Cardinality(seen.requests \cup {h}) = IF h \in seen.requests THEN Cardinality(seen.requests)
                                               ELSE Cardinality(seen.requests) + 1
  BY <1>1, FS_AddElement
<1>3. Cardinality(seen.requests \cup {h}) <= MaxHops
  <2>1. Cardinality(seen.requests \cup {h}) \in {Cardinality(seen.requests), Cardinality(seen.requests) + 1}
    BY <1>2
  <2>2. MaxHops \in Nat
    BY CaptureAssumption
  <2> QED
    BY <1>1, <2>1, <2>2
<1> QED
  BY <1>2, <1>3

LEMMA FitsMore ==
  ASSUME NEW c, NEW S, NEW T, Fits(c, S), S \subseteq T
  PROVE  Fits(c, T)
BY DEF Fits

LEMMA HopsSent ==
  ASSUME NetSound, HopsSound, NEW id \in RequestIDs, NEW class \in Classes,
         RequestWillBeSent(id, class)
  PROVE  HopsSound'
<1> DEFINE h == Hop(id, 1)
           S == seen.requests \cup {h}
           c == appendRequest(collector, h, class)
<1>1. h \in AnyHops /\ collector \in Collectors /\ Fits(collector, S) /\ h \in S
  BY FitsMore DEF Hop, AnyHops, NetSound, CollectorSound, HopsSound
<1>2. c \in Collectors /\ Fits(c, S)
  <2>1. c \in Collectors
    BY <1>1, RequestFacts
  <2> HIDE DEF S, h
  <2> QED
    BY <1>1, <2>1, FitsAppended
<1>3. collector' = openTransaction(c, h) /\ sees({h}, {})
      /\ hops' = [hops EXCEPT ![id] = <<class>>] /\ anotherHop
  BY DEF RequestWillBeSent, beginRequest
<1>4. seen' = [requests |-> S, responses |-> seen.responses]
  BY <1>3 DEF sees
<1>5. IsFiniteSet(S) /\ Cardinality(S) <= MaxHops
  BY <1>1, <1>3, AnotherHop
<1>6. Fits(collector', S)
  <2> HIDE DEF S, h, c
  <2> QED
    BY <1>1, <1>2, <1>3, FitsOpened
<1>7. ASSUME NEW j \in RequestIDs, NEW n \in 1..Len(hops'[j]) PROVE Hop(j, n) \in S
  <2>1. CASE j = id
    <3>1. hops'[j] = <<class>>
      BY <1>3, <2>1 DEF NetSound, NetworkSound
    <3>2. n = 1
      BY <1>7, <3>1
    <3> QED
      BY <2>1, <3>2
  <2>2. CASE j # id
    BY <1>3, <1>7, <2>2 DEF HopsSound, NetSound, NetworkSound
  <2> QED
    BY <2>1, <2>2
<1> HIDE DEF S
<1> QED
  BY <1>4, <1>5, <1>6, <1>7 DEF HopsSound, S

LEMMA HopsRedirected ==
  ASSUME NetSound, HopsSound, NEW id \in RequestIDs, NEW class \in Classes, Redirected(id, class)
  PROVE  HopsSound'
<1> DEFINE old == current(id)
           h == Hop(id, Len(hops[id]) + 1)
           S == seen.requests \cup {h}
           answered == appendResponse(collector, old, classOf(old))
           patched == patchTransaction(answered, old)
           closed == endCorrelation(patched, id)
           begun == appendRequest(closed, h, class)
<1>1. /\ old.id = id /\ old.hop = lengths[id] /\ old.hop = Len(hops[id]) /\ old \in AnyHops
      /\ old.hop \in DOMAIN hops[id] /\ classOf(old) \in Classes /\ net[id] = "sent"
      /\ anotherHop /\ hops' = [hops EXCEPT ![id] = Append(@, class)]
  BY CurrentHop DEF Redirected, NetSound
<1>2. hops[id] \in Seq(Classes) /\ Len(hops[id]) \in Nat
      /\ DOMAIN hops[id] = 1..Len(hops[id])
  BY DEF NetSound, NetworkSound
<1>3. h \in AnyHops /\ h.id = id
  BY <1>2 DEF Hop, AnyHops
<1>4. old \in seen.requests
  BY <1>1, <1>2 DEF HopsSound, current
<1>5. /\ collector' = openTransaction(begun, h) /\ sees({h}, {old})
  <2>1. Hop(id, old.hop + 1) = h
    BY <1>1
  <2>2. /\ collector' = beginRequest(observeRedirect(collector, old, classOf(old)), h, class)
        /\ sees({h}, {old})
    BY <2>1 DEF Redirected
  <2>3. observeRedirect(collector, old, classOf(old)) = closed
    BY <1>1 DEF observeRedirect, observeResponse
  <2> QED
    BY <2>2, <2>3 DEF beginRequest
<1>6. seen' = [requests |-> S, responses |-> seen.responses \cup {old}]
  BY <1>5 DEF sees
<1>7. IsFiniteSet(S) /\ Cardinality(S) <= MaxHops
  <2>1. h \in S
    OBVIOUS
  <2> QED
    BY <1>1, <2>1, AnotherHop
<1>8. ASSUME NEW j \in RequestIDs, NEW n \in 1..Len(hops'[j]) PROVE Hop(j, n) \in S
  <2>1. CASE j = id
    <3>1. Len(hops'[j]) = Len(hops[id]) + 1
      BY <1>1, <1>2, <2>1 DEF NetSound, NetworkSound
    <3>2. n \in 1..Len(hops[id]) \/ n = Len(hops[id]) + 1
      BY <1>2, <1>8, <3>1
    <3> QED
      BY <2>1, <3>2 DEF HopsSound
  <2>2. CASE j # id
    BY <1>1, <1>8, <2>2 DEF HopsSound, NetSound, NetworkSound
  <2> QED
    BY <2>1, <2>2
<1>9. /\ collector \in Collectors /\ Correlated(collector, lengths) /\ Fits(collector, S)
      /\ old \in S /\ h \in S
  BY <1>4, FitsMore DEF NetSound, CollectorSound, HopsSound
<1> HIDE DEF old, h, S
<1>10. /\ answered \in Collectors /\ Fits(answered, S) /\ Correlated(answered, lengths)
  <2>1. answered \in Collectors /\ SameTransactions(collector, answered)
    BY <1>1, <1>9, ResponseFacts
  <2>2. Fits(answered, S)
    BY <1>1, <1>9, FitsAppended
  <2> QED
    BY <1>9, <2>1, <2>2 DEF SameTransactions, Correlated
<1> HIDE DEF answered
<1>11. patched \in Collectors /\ Fits(patched, S) /\ Correlated(patched, lengths)
  <2>1. patched \in Collectors /\ Correlated(patched, lengths)
    BY <1>1, <1>10, PatchFacts
  <2> QED
    BY <1>1, <1>10, <2>1, FitsPatched
<1> HIDE DEF patched
<1>12. closed \in Collectors /\ Fits(closed, S)
  BY <1>11, EndFacts, FitsEnded
<1> HIDE DEF closed
<1>13. begun \in Collectors /\ Fits(begun, S)
  BY <1>3, <1>9, <1>12, RequestFacts, FitsAppended
<1> HIDE DEF begun
<1>14. Fits(collector', S)
  BY <1>3, <1>5, <1>9, <1>13, FitsOpened
<1> QED
  BY <1>4, <1>6, <1>7, <1>8, <1>14 DEF HopsSound, S

LEMMA HopsAnswered ==
  ASSUME NetSound, HopsSound, NEW id \in RequestIDs, ResponseReceived(id)
  PROVE  HopsSound'
<1> DEFINE h == current(id)
           answered == appendResponse(collector, h, classOf(h))
<1>1. /\ h.id = id /\ h.hop = lengths[id] /\ h.hop = Len(hops[id]) /\ h \in AnyHops
      /\ h.hop \in DOMAIN hops[id] /\ classOf(h) \in Classes /\ hops' = hops
      /\ collector' = patchTransaction(answered, h) /\ sees({}, {h})
  BY CurrentHop DEF ResponseReceived, NetSound, observeResponse
<1>2. hops[id] \in Seq(Classes) /\ DOMAIN hops[id] = 1..Len(hops[id])
  BY DEF NetSound, NetworkSound
<1>3. h \in seen.requests
  BY <1>1, <1>2 DEF HopsSound, current
<1>4. seen' = [requests |-> seen.requests, responses |-> seen.responses \cup {h}]
  BY <1>1 DEF sees
<1>5. collector \in Collectors /\ Correlated(collector, lengths) /\ Fits(collector, seen.requests)
  BY DEF NetSound, CollectorSound, HopsSound
<1> HIDE DEF h
<1>6. /\ answered \in Collectors /\ Fits(answered, seen.requests) /\ Correlated(answered, lengths)
  <2>1. answered \in Collectors /\ SameTransactions(collector, answered)
    BY <1>1, <1>5, ResponseFacts
  <2>2. Fits(answered, seen.requests)
    BY <1>1, <1>3, <1>5, FitsAppended
  <2> QED
    BY <1>5, <2>1, <2>2 DEF SameTransactions, Correlated
<1> HIDE DEF answered
<1>7. Fits(collector', seen.requests)
  BY <1>1, <1>6, FitsPatched
<1> QED
  BY <1>1, <1>3, <1>4, <1>7 DEF HopsSound

LEMMA HopsStep ==
  ASSUME NetSound, HopsSound, [Next]_vars
  PROVE  HopsSound'
<1>1. ASSUME NEW id \in RequestIDs, LoadingEnds(id) PROVE HopsSound'
  <2>1. collector \in Collectors /\ collector' = endCorrelation(collector, id)
        /\ UNCHANGED <<hops, seen>>
    BY <1>1 DEF LoadingEnds, NetSound, CollectorSound
  <2>2. Fits(collector', seen.requests)
    BY <2>1, FitsEnded DEF HopsSound
  <2> QED
    BY <2>1, <2>2 DEF HopsSound
<1>2. CASE Network
  BY <1>1, <1>2, HopsSent, HopsRedirected, HopsAnswered DEF Network
<1>3. CASE UNCHANGED <<hops, collector, seen>>
  BY <1>3 DEF HopsSound
<1>4. Commits \/ Finishing \/ UNCHANGED vars => UNCHANGED <<hops, collector, seen>>
  BY DEF Commits, Finishing, FinishCanceled, MainFrameBefore, MainFrameAfter, Snapshot,
         Finish, Query, CreateWorld, Evaluate, finishFrame, env, vars
<1> QED
  BY <1>2, <1>3, <1>4 DEF Next

(* The calls of finish name documents the main frame had. *)
FinishTypes ==
  /\ stopped \in BOOLEAN /\ navigated \in BOOLEAN
  /\ loader \in 1..MaxLoads
  /\ fpc \in {"capturing", "target", "cookies", "before", "world", "evaluate",
              "after", "snapshot", "done"}
  /\ attempt \in 0..1
  /\ frames \in [before : 0..MaxLoads, world : 0..MaxLoads, dom : 0..MaxLoads, failed : Failures]
  /\ observed \subseteq Channels

LEMMA FinishTypesStep ==
  ASSUME FinishTypes, [Next]_vars
  PROVE  FinishTypes'
<1>0. MaxLoads \in Nat \ {0} /\ loader \in 0..MaxLoads
      /\ NoFrames \in [before : 0..MaxLoads, world : 0..MaxLoads, dom : 0..MaxLoads, failed : Failures]
  BY CaptureAssumption DEF FinishTypes, NoFrames, Failures
<1> USE DEF FinishTypes
<1>1. CASE Network
  <2>1. UNCHANGED <<loader, stopped, finishing, navigated>>
    BY <1>1 DEF Network, RequestWillBeSent, Redirected, ResponseReceived, LoadingEnds, eventFrame
  <2> QED
    BY <2>1 DEF finishing
<1>2. CASE Commits
  BY <1>0, <1>2 DEF Commits, finishing
<1>3. CASE Finishing
  <2> USE DEF finishFrame, env
  <2>1. CASE FinishCanceled
    BY <1>0, <2>1 DEF FinishCanceled
  <2>2. CASE MainFrameBefore
    BY <1>0, <2>2 DEF MainFrameBefore
  <2>3. CASE MainFrameAfter
    <3>1. /\ attempt' \in 0..1 /\ fpc' \in {"snapshot", "before"} /\ frames' \in {frames, NoFrames}
          /\ observed' \in {observed, observed \cup {"dom"}} /\ UNCHANGED <<stopped, loader, navigated>>
      BY <2>3 DEF MainFrameAfter
    <3> QED
      BY <1>0, <3>1 DEF Channels
  <2>4. CASE Snapshot
    BY <2>4 DEF Snapshot
  <2>5. ASSUME NEW ok \in BOOLEAN, Finish(ok) PROVE FinishTypes'
    BY <2>5 DEF Finish
  <2>6. ASSUME NEW ok \in BOOLEAN, Query(ok) PROVE FinishTypes'
    BY <2>6 DEF Query, Channels
  <2>7. ASSUME NEW failure \in Failures, CreateWorld(failure) PROVE FinishTypes'
    BY <1>0, <2>7 DEF CreateWorld
  <2>8. ASSUME NEW failure \in Failures, Evaluate(failure) PROVE FinishTypes'
    BY <1>0, <2>8 DEF Evaluate
  <2> QED
    BY <1>3, <2>1, <2>2, <2>3, <2>4, <2>5, <2>6, <2>7, <2>8 DEF Finishing
<1>4. CASE UNCHANGED vars
  BY <1>4 DEF vars, env, finishing
<1> QED
  BY <1>1, <1>2, <1>3, <1>4 DEF Next

(* Hops below the bound, and the ceilings, from what the invariant says. *)
LEMMA HopsBounded ==
  ASSUME NetSound, HopsSound
  PROVE  /\ \A id \in RequestIDs : Len(hops[id]) <= MaxHops
         /\ seen.requests \subseteq Hops
<1>1. ASSUME NEW id \in RequestIDs PROVE Len(hops[id]) <= MaxHops
  <2> DEFINE n == Len(hops[id])
             f == [k \in 1..n |-> Hop(id, k)]
  <2>1. n \in Nat
    BY DEF NetSound, NetworkSound
  <2>2. f \in Injection(1..n, seen.requests)
    <3>1. f \in [1..n -> seen.requests]
      BY DEF HopsSound
    <3>2. \A j, k \in 1..n : f[j] = f[k] => j = k
      BY DEF Hop
    <3> QED
      BY <3>1, <3>2 DEF Injection, IsInjective
  <2>3. IsFiniteSet(seen.requests) /\ Cardinality(seen.requests) <= MaxHops
        /\ Cardinality(seen.requests) \in Nat /\ MaxHops \in Nat
    BY CaptureAssumption, FS_CardinalityType DEF HopsSound
  <2>4. Cardinality(1..n) <= Cardinality(seen.requests)
    <3> HIDE DEF f, n
    <3> QED
      BY <2>2, <2>3, FS_Injection
  <2>5. Cardinality(1..n) = n
    <3> HIDE DEF n
    <3> QED
      BY <2>1, FS_Interval
  <2> HIDE DEF n
  <2>6. n <= MaxHops
    BY <2>1, <2>3, <2>4, <2>5
  <2> QED
    BY <2>6 DEF n
<1>2. ASSUME NEW h \in seen.requests PROVE h \in Hops
  <2>1. h \in AnyHops /\ h.hop \in DOMAIN hops[h.id] /\ hops[h.id] \in Seq(Classes)
    BY DEF NetSound, NetworkSound, AnyHops
  <2>2. h.id \in RequestIDs /\ h.hop \in 1..Len(hops[h.id]) /\ Len(hops[h.id]) \in Nat
    BY <2>1 DEF AnyHops
  <2>3. h.hop \in 1..MaxHops
    BY <1>1, <2>2, CaptureAssumption
  <2> QED
    BY <2>1, <2>3 DEF AnyHops, Hops
<1> QED
  BY <1>1, <1>2

LEMMA CollectorTyped ==
  ASSUME CollectorSound, HopsSound, seen.requests \subseteq Hops
  PROVE  /\ collector.requests \in Seq(Hops) /\ Len(collector.requests) <= MaxItems
         /\ collector.responses \in Seq(Hops) /\ Len(collector.responses) <= MaxItems
         /\ collector.transactions \in Seq([of : Hops, patched : SUBSET Hops])
         /\ Len(collector.transactions) <= MaxItems
         /\ collector.pending \in [RequestIDs -> 0..MaxItems]
         /\ collector.truncated \subseteq {"requests", "responses"}
<1> DEFINE Known == [of : Hops, patched : SUBSET Hops]
<1>1. /\ collector.requests \in Seq(AnyHops) /\ collector.responses \in Seq(AnyHops)
      /\ collector.transactions \in Seq(Transactions) /\ collector.pending \in [RequestIDs -> Nat]
      /\ collector.truncated \subseteq {"requests", "responses"}
  BY DEF CollectorSound, Collectors
<1>2. Fits(collector, seen.requests)
  BY DEF HopsSound
<1>3. ASSUME NEW S, NEW T, NEW s \in Seq(S), \A i \in DOMAIN s : s[i] \in T
      PROVE  s \in Seq(T)
  BY <1>3
<1>4. collector.requests \in Seq(Hops) /\ collector.responses \in Seq(Hops)
  <2>1. /\ \A i \in DOMAIN collector.requests : collector.requests[i] \in Hops
        /\ \A i \in DOMAIN collector.responses : collector.responses[i] \in Hops
    BY <1>2 DEF Fits, in
  <2> QED
    BY <1>1, <1>3, <2>1
<1>5. collector.transactions \in Seq(Known)
  <2>1. ASSUME NEW i \in DOMAIN collector.transactions
        PROVE  collector.transactions[i] \in Known
    <3>1. collector.transactions[i].of \in Hops
      BY <1>2 DEF Fits
    <3>2. collector.transactions[i].patched \subseteq Hops
      BY <3>1 DEF CollectorSound, Correlated
    <3>3. collector.transactions[i] \in Transactions
      BY <1>1
    <3> QED
      BY <3>1, <3>2, <3>3 DEF Transactions
  <2> HIDE DEF Known
  <2> QED
    BY <1>1, <1>3, <2>1
<1>6. ASSUME NEW id \in RequestIDs PROVE collector.pending[id] \in 0..MaxItems
  <2>1. /\ Len(collector.transactions) \in Nat /\ MaxItems \in Nat
        /\ DOMAIN collector.transactions = 1..Len(collector.transactions)
        /\ Len(collector.transactions) <= MaxItems
    BY <1>1, <1>2, PagesAssumption DEF Fits
  <2>2. collector.pending[id] = 0 \/ collector.pending[id] \in DOMAIN collector.transactions
    BY DEF CollectorSound, Correlated
  <2> QED
    BY <2>1, <2>2
<1> QED
  BY <1>1, <1>2, <1>4, <1>5, <1>6 DEF Fits

(* The collector stays within its ceilings for any pages, identifiers and  *)
(* redirects, and whatever it keeps is a hop whose event was seen          *)
(* (captureCollector, finish).                                             *)
THEOREM CollectorIsBounded == Spec => []TypeOK
<1>1. Init => HopsSound /\ FinishTypes
  <2> SUFFICES ASSUME Init PROVE HopsSound /\ FinishTypes
    OBVIOUS
  <2>1. \A id \in RequestIDs : 1..Len(hops[id]) = {}
    BY EmptyFacts DEF Init
  <2>2. /\ Fits(collector, seen.requests) /\ IsFiniteSet(seen.requests)
        /\ Cardinality(seen.requests) <= MaxHops
    BY EmptyFacts, FS_EmptySet, PagesAssumption, CaptureAssumption DEF Init, Fits, in
  <2>3. HopsSound
    BY <2>1, <2>2 DEF Init, HopsSound
  <2>4. FinishTypes
    <3>1. /\ 1 \in 1..MaxLoads /\ 0 \in 0..MaxLoads /\ 0 \in 0..1
          /\ {} \subseteq Channels /\ "no" \in Failures
      BY CaptureAssumption DEF Failures
    <3>2. frames \in [before : 0..MaxLoads, world : 0..MaxLoads, dom : 0..MaxLoads, failed : Failures]
      BY <3>1 DEF Init, NoFrames
    <3> QED
      BY <3>1, <3>2 DEF Init, FinishTypes
  <2> QED
    BY <2>3, <2>4
<1>2. IInv /\ HopsSound /\ FinishTypes /\ [Next]_vars => HopsSound' /\ FinishTypes'
  BY HopsStep, FinishTypesStep DEF IInv, NetSound
<1>3. IInv /\ HopsSound /\ FinishTypes => TypeOK
  <2> SUFFICES ASSUME IInv, HopsSound, FinishTypes PROVE TypeOK
    OBVIOUS
  <2>1. /\ \A id \in RequestIDs : Len(hops[id]) <= MaxHops
        /\ seen.requests \subseteq Hops
    BY HopsBounded DEF IInv, NetSound
  <2>2. seen \in [requests : SUBSET Hops, responses : SUBSET Hops]
    BY <2>1 DEF HopsSound
  <2>3. net \in [RequestIDs -> {"unsent", "sent", "answered", "ended"}]
        /\ \A id \in RequestIDs : hops[id] \in Seq(Classes)
    BY DEF IInv, NetworkSound
  <2>4. /\ collector.requests \in Seq(Hops) /\ Len(collector.requests) <= MaxItems
        /\ collector.responses \in Seq(Hops) /\ Len(collector.responses) <= MaxItems
        /\ collector.transactions \in Seq([of : Hops, patched : SUBSET Hops])
        /\ Len(collector.transactions) <= MaxItems
        /\ collector.pending \in [RequestIDs -> 0..MaxItems]
        /\ collector.truncated \subseteq {"requests", "responses"}
    BY <2>1, CollectorTyped DEF IInv
  <2> QED
    BY <2>1, <2>2, <2>3, <2>4 DEF TypeOK, FinishTypes, Failures, IInv, PageSound
<1> QED
  BY <1>1, <1>2, <1>3, CaptureInvariant, PTL DEF Spec
=============================================================================
