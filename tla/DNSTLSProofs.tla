---------------------------- MODULE DNSTLSProofs ----------------------------
(***************************************************************************)
(* Proofs about HTTPAnalyzer and DNSTLS for any resolver, any redirects    *)
(* and documents and every ceiling.  The invariant says, position by       *)
(* position, what is already known: which answer the dialer works on, how  *)
(* the history of requests relates to the result, whose connection and     *)
(* which document the result describes.                                    *)
(***************************************************************************)
EXTENDS DNSTLS, WellFoundedInduction, SequenceTheorems, TLAPS

TLSData == [host : Host \cup {"none"}, address : Address \cup {"none"},
            text : {c.text : c \in Certificates} \cup {"none"}, names : Nat]

Connections == [scheme : {"http", "https"}, tls : TLSData]

Results ==
  [responses : Seq(Targets), redirects : Seq([from : Targets, to : Targets]),
   tls : TLSData, final : Targets \cup {NoURL}, content : Seq(Unit),
   resources : SUBSET Unit, hosts : SUBSET Host,
   BodyTruncated : BOOLEAN, HTMLTruncated : BOOLEAN,
   PageContentIncomplete : BOOLEAN, ResourcesIncomplete : BOOLEAN]

BeforeSend == {"start", "validate", "send", "dial"}

(* A final response is there and nothing failed since. *)
Succeeded ==
  \/ pc \in {"read", "html", "resources", "return"}
  \/ pc = "done" /\ err = "none"

HTTPTypes ==
  /\ url \in Targets /\ sent \in Seq(Targets)
  /\ answer \in Seq(Address) /\ pending \in Seq(Address)
  /\ pool \subseteq Connections
  /\ pc = "await" \/ Succeeded => conn \in Connections
  /\ Succeeded => body \in Bodies
  /\ text \in Seq(Unit)
  /\ result \in Results
  /\ pc # "done" => err = "none"

(* The dialer tries the addresses of one answer that was not refused. *)
DialInv ==
  /\ ToSet(pending) \subseteq ToSet(answer)
  /\ tried \subseteq ToSet(answer)
  /\ pc = "dial" \/ tried # {} => ~refused(answer)
  /\ pc \in {"start", "validate", "send"} => tried = {}

(* Between requests every one was answered and redirected; during one, all *)
(* but the last were; at the end the last one has the final response.      *)
HopInv ==
  /\ Len(sent) <= MaxRedirects + 1
  /\ pc = "start" => sent = <<>>
  /\ pc \in BeforeSend => /\ result.responses = sent
                          /\ Len(result.redirects) = Len(sent)
                          /\ Len(sent) <= MaxRedirects
  /\ pc = "await" => /\ sent = Append(result.responses, url)
                     /\ Len(result.redirects) = Len(sent) - 1
  /\ Succeeded => /\ result.responses = sent
                  /\ Len(result.redirects) = Len(sent) - 1
                  /\ result.final = Last(sent) /\ result.final = url
  /\ err = "ErrInitialTarget" => sent = <<>> /\ tried = {}

(* The connection in use is one to the requested host, and the snapshot    *)
(* is the one of the connection that carried the final response.           *)
TLSInv ==
  /\ pc = "await" \/ Succeeded => serves(conn, url)
  /\ Succeeded => result.tls = collectTLSMetadata(conn)

(* Nothing that is not flagged was lost so far. *)
ChannelInv ==
  /\ pc = "html" /\ ~result.BodyTruncated => text = body.units
  /\ pc = "resources" /\ ~contentTruncated
       => text = body.units /\ result.content = body.units
  /\ (pc = "return" \/ (pc = "done" /\ err = "none")) /\ body.html =>
         /\ ~contentTruncated => result.content = body.units
         /\ ~resourcesTruncated =>
              /\ result.resources = tags(body.units)
              /\ result.hosts = {u.host : u \in {t \in tags(body.units) : thirdParty(t)}}

(* The DNS/TLS analyzer only runs after a success and uses its snapshot. *)
DNSInv ==
  /\ observation \in [tls : TLSData, cname : BOOLEAN]
  /\ dpc # "idle" => pc = "done" /\ err = "none"
  /\ dpc # "done" => status = "none"
  /\ dpc # "idle" => IF status = "ErrInvalidObservation"
                     THEN ~normalizable(result.tls)
                     ELSE observation.tls = result.tls

HTTPInv == HTTPTypes /\ DialInv /\ HopInv /\ TLSInv /\ ChannelInv
IInv == HTTPInv /\ DNSInv
-----------------------------------------------------------------------------
(* A prefix is a sequence of the same elements, as long as asked for, and  *)
(* a prefix as long as the sequence is the sequence.                       *)
LEMMA TakeProperties ==
  ASSUME NEW s \in Seq(Unit), NEW n \in Nat
  PROVE  /\ take(s, n) \in Seq(Unit)
         /\ Len(take(s, n)) = IF n <= Len(s) THEN n ELSE Len(s)
         /\ n >= Len(s) => take(s, n) = s
<1> DEFINE m == Min({n, Len(s)})
<1>1. Len(s) \in Nat
  BY LenProperties
<1>2. m = IF n <= Len(s) THEN n ELSE Len(s)
  <2>1. PICK x \in {n, Len(s)} : \A y \in {n, Len(s)} : x <= y
    BY <1>1
  <2>2. m \in {n, Len(s)} /\ \A y \in {n, Len(s)} : m <= y
    BY <2>1 DEF Min
  <2> QED
    BY <1>1, <2>2
<1>3. take(s, n) = SubSeq(s, 1, m)
  BY DEF take
<1> HIDE DEF m
<1>4. m \in Nat /\ m <= Len(s)
  BY <1>1, <1>2
<1>5. n >= Len(s) => SubSeq(s, 1, m) = s
  BY <1>1, <1>2, SubSeqFull
<1>6. SubSeq(s, 1, m) \in Seq(Unit) /\ Len(SubSeq(s, 1, m)) = m
  <2>1. \A i \in 1..m : s[i] \in Unit
    BY <1>1, <1>4
  <2> QED
    BY <1>4, <2>1, SubSeqProperties
<1> QED
  BY <1>1, <1>2, <1>3, <1>5, <1>6

(* A set of naturals that is not empty has a smallest element. *)
LEMMA MinType ==
  ASSUME NEW S \in SUBSET Nat, S # {}
  PROVE  Min(S) \in Nat
<1> DEFINE less == {ss \in Nat \X Nat : ss[1] < ss[2]}
<1>1. IsWellFoundedOn(less, Nat)
  BY NatLessThanWellFounded DEF OpToRel
<1>2. PICK x \in S : \A y \in S : ~ (<<y, x>> \in less)
  <2> HIDE DEF less
  <2> QED
    BY <1>1, WFMin
<1>3. ASSUME NEW y \in S PROVE x <= y
  <2>1. <<y, x>> \in Nat \X Nat /\ ~ (y < x) /\ x \in Int /\ y \in Int
    BY <1>2
  <2> QED
    BY <2>1
<1> QED
  BY <1>3 DEF Min

(* Every answer is a sequence of addresses. *)
LEMMA LookupType ==
  ASSUME NEW host, NEW addresses, addresses \in lookup(host)
  PROVE  addresses \in Seq(Address)
<1>1. CASE host \in Address
  <2>1. addresses = <<host>> /\ <<host>> \in Seq(Address)
    BY <1>1 DEF lookup
  <2> QED
    BY <2>1
<1>2. CASE host \notin Address
  BY <1>2, GuardAssumption DEF lookup
<1> QED
  BY <1>1, <1>2

(* What no request has touched is typed. *)
LEMMA EmptyTypes ==
  /\ EmptyResult \in Results /\ NoTLS \in TLSData
  /\ EmptyResult.responses = <<>> /\ EmptyResult.redirects = <<>>
<1>1. NoTLS \in TLSData
  BY DEF NoTLS, TLSData
<1>2. /\ <<>> \in Seq(Targets) /\ <<>> \in Seq([from : Targets, to : Targets])
      /\ <<>> \in Seq(Unit)
  BY EmptySeq
<1> QED
  BY <1>1, <1>2 DEF EmptyResult, Results

(* The snapshot of a connection is typed, and the HTTP analyzer's bounds   *)
(* leave only one reason to refuse it.                                     *)
LEMMA SnapshotFacts ==
  ASSUME NEW c \in Connections
  PROVE  /\ tlsOf(c) \in TLSData
         /\ tlsOf(c).host = c.tls.host /\ tlsOf(c).address = c.tls.address
         /\ ~normalizable(tlsOf(c)) => c.tls.text = "spaced"
         /\ normalizable(NoTLS)
<1>1. c.tls \in TLSData /\ MaxDNSNames \in Nat /\ MaxTLSDNSNames \in Nat
      /\ MaxDNSNames <= MaxTLSDNSNames
  BY HTTPAssumption, DNSTLSAssumption DEF Connections
<1>2. normalizable(NoTLS)
  BY <1>1 DEF normalizable, safeProperty, NoTLS
<1>3. tlsOf(c) \in TLSData /\ tlsOf(c).host = c.tls.host /\ tlsOf(c).address = c.tls.address
  BY <1>1 DEF tlsOf, TLSData, boundedCertificateText
<1>4. /\ tlsOf(c).names <= MaxTLSDNSNames
      /\ tlsOf(c).text = "spaced" => c.tls.text = "spaced"
  BY <1>1 DEF tlsOf, TLSData, boundedCertificateText
<1> QED
  BY <1>2, <1>3, <1>4 DEF normalizable, safeProperty
-----------------------------------------------------------------------------
(* What the dialer holds, between the steps that leave it alone. *)
DialingTyped ==
  /\ answer \in Seq(Address) /\ pending \in Seq(Address)
  /\ ToSet(pending) \subseteq ToSet(answer) /\ tried \subseteq ToSet(answer)
  /\ tried # {} => ~refused(answer)

(* A failure that leaves the requests as they are keeps the invariant. *)
LEMMA FailKeeps ==
  ASSUME HTTPInv, pc # "done", NEW error \in {"ErrInitialTarget", "other"},
         Fail(error), sent' = sent, url' \in Targets, DialingTyped',
         pool' \subseteq Connections, text' \in Seq(Unit),
         error = "ErrInitialTarget" => sent = <<>> /\ tried' = {}
  PROVE  HTTPInv'
<1> USE DEF HTTPInv
<1>1. pc' = "done" /\ err' \notin {"none"} /\ ~Succeeded'
  BY DEF Fail, Succeeded
<1>2. HTTPTypes'
  BY <1>1, EmptyTypes DEF HTTPTypes, DialingTyped, Fail
<1>3. DialInv'
  BY <1>1 DEF DialInv, DialingTyped
<1>4. HopInv' /\ TLSInv' /\ ChannelInv'
  BY <1>1 DEF HopInv, TLSInv, ChannelInv, BeforeSend, Fail
<1> QED
  BY <1>2, <1>3, <1>4

LEMMA DialingKept ==
  ASSUME HTTPInv
  PROVE  /\ DialingTyped
         /\ dialing' = dialing => DialingTyped'
         /\ DialOver => DialingTyped' /\ tried' = {}
         /\ pool \subseteq Connections /\ text \in Seq(Unit) /\ url \in Targets
<1>1. DialingTyped
  BY DEF HTTPInv, HTTPTypes, DialInv, DialingTyped
<1>2. DialOver => DialingTyped'
  <2>1. <<>> \in Seq(Address) /\ ToSet(<<>>) = {}
    BY EmptySeq DEF ToSet
  <2> QED
    BY <2>1 DEF DialOver, DialingTyped
<1> QED
  BY <1>1, <1>2 DEF DialingTyped, dialing, DialOver, HTTPInv, HTTPTypes

(* The steps before a connection: cancellation, Start, Validate, a reused  *)
(* connection or a name resolved for a new one.                            *)
LEMMA RequestStep ==
  ASSUME HTTPInv, NEW valid \in BOOLEAN, NEW addresses \in Seq(Address),
         \/ ContextEnds \/ Start(valid) \/ Validate(addresses)
         \/ DialContext(addresses) \/ ReuseConnection
  PROVE  HTTPInv'
<1>d. /\ DialingTyped /\ pool \subseteq Connections /\ text \in Seq(Unit) /\ url \in Targets
      /\ dialing' = dialing => DialingTyped'
  BY DialingKept
<1>1. CASE ContextEnds
  BY <1>1 DEF ContextEnds, dialing, connections, HTTPInv, HTTPTypes, DialInv,
     HopInv, TLSInv, ChannelInv, Succeeded, contentTruncated, resourcesTruncated,
     thirdParty, collectTLSMetadata
<1>2. CASE Start(valid)
  <2>1. pc = "start" /\ sent = <<>> /\ tried = {} /\ beforeRequest
    BY <1>2 DEF Start, HTTPInv, HopInv, DialInv
  <2>2. CASE Fail("other") \/ Fail("ErrInitialTarget")
    BY <1>d, <2>1, <2>2, FailKeeps DEF beforeRequest, dialing, connections
  <2>3. CASE pc' = "validate" /\ UNCHANGED <<result, err>>
    BY <2>1, <2>3 DEF beforeRequest, dialing, connections, HTTPInv, HTTPTypes,
       DialInv, HopInv, TLSInv, ChannelInv, Succeeded, BeforeSend
  <2> QED
    BY <1>2, <2>2, <2>3 DEF Start
<1>3. CASE Validate(addresses)
  <2>1. pc = "validate" /\ tried = {} /\ beforeRequest
    BY <1>3 DEF Validate, HTTPInv, DialInv
  <2>2. CASE Fail("other") \/ (sent = <<>> /\ Fail("ErrInitialTarget"))
    BY <1>d, <2>1, <2>2, FailKeeps DEF beforeRequest, dialing, connections
  <2>3. CASE pc' = "send" /\ UNCHANGED <<result, err>>
    BY <2>1, <2>3 DEF beforeRequest, dialing, connections, HTTPInv, HTTPTypes,
       DialInv, HopInv, TLSInv, ChannelInv, Succeeded, BeforeSend
  <2> QED
    BY <1>3, <2>2, <2>3 DEF Validate, initialError
<1>4. CASE DialContext(addresses)
  <2>1. pc = "send" /\ pool' \subseteq Connections /\ tried' = {}
        /\ UNCHANGED <<ctxDone, url, sent, conn, body, text>>
    BY <1>d, <1>4 DEF DialContext
  <2>2. CASE Fail("other") /\ UNCHANGED <<answer, pending>>
    <3>1. DialingTyped'
      BY <1>d, <2>1, <2>2 DEF DialingTyped
    <3> QED
      BY <1>d, <2>1, <2>2, <3>1, FailKeeps
  <2>3. CASE /\ resolve(addresses) = "ok" /\ answer' = addresses /\ pending' = addresses
             /\ pc' = "dial" /\ UNCHANGED <<result, err>>
    <3>1. ~refused(answer')
      BY <2>3 DEF resolve
    <3> QED
      BY <2>1, <2>3, <3>1 DEF HTTPInv, HTTPTypes, DialInv, HopInv, TLSInv,
         ChannelInv, Succeeded, BeforeSend
  <2> QED
    BY <1>4, <2>2, <2>3 DEF DialContext
<1>5. CASE ReuseConnection
  <2>1. /\ pc = "send" /\ pc' = "await" /\ tried = {} /\ sent' = Append(sent, url)
        /\ conn' \in Connections /\ serves(conn', url) /\ pool' \subseteq Connections
        /\ UNCHANGED <<ctxDone, url, dialing, body, text, result, err>>
    BY <1>d, <1>5 DEF ReuseConnection, HTTPInv, DialInv
  <2>2. /\ sent \in Seq(Targets) /\ url \in Targets /\ sent' \in Seq(Targets)
        /\ Len(sent') = Len(sent) + 1 /\ Len(sent) \in Nat
    BY <2>1 DEF HTTPInv, HTTPTypes
  <2>3. HTTPTypes' /\ DialInv'
    BY <2>1, <2>2 DEF HTTPInv, HTTPTypes, DialInv, Succeeded, dialing
  <2>4. HopInv'
    BY <2>1, <2>2, HTTPAssumption DEF HTTPInv, HTTPTypes, HopInv, Succeeded,
       BeforeSend, dialing
  <2>5. TLSInv' /\ ChannelInv'
    BY <2>1 DEF TLSInv, ChannelInv, Succeeded, serves
  <2> QED
    BY <2>3, <2>4, <2>5 DEF HTTPInv
<1> QED
  BY <1>1, <1>2, <1>3, <1>4, <1>5

(* Head and tail of what is pending are among it. *)
LEMMA HeadTailIn ==
  ASSUME NEW S, NEW s \in Seq(S), s # <<>>
  PROVE  /\ Head(s) \in S /\ Tail(s) \in Seq(S)
         /\ Head(s) \in ToSet(s) /\ ToSet(Tail(s)) \subseteq ToSet(s)
<1>1. Len(s) \in Nat \ {0} /\ DOMAIN s = 1..Len(s) /\ Head(s) = s[1]
  BY EmptySeq, LenProperties
<1>2. /\ Tail(s) \in Seq(S) /\ Len(Tail(s)) = Len(s) - 1
      /\ \A i \in 1..Len(Tail(s)) : Tail(s)[i] = s[i + 1]
  BY <1>1, HeadTailProperties
<1>3. DOMAIN Tail(s) = 1..Len(Tail(s))
  BY <1>2, LenProperties
<1> QED
  BY <1>1, <1>2, <1>3, HeadTailProperties DEF ToSet

(* The dial of one address, and the ways to give a request up. *)
LEMMA DialStep ==
  ASSUME HTTPInv, NEW connects \in BOOLEAN, NEW handshake \in BOOLEAN,
         DialAddress(connects, handshake) \/ GivesUp
  PROVE  HTTPInv'
<1>d. /\ DialingTyped /\ pool \subseteq Connections /\ text \in Seq(Unit) /\ url \in Targets
      /\ dialing' = dialing => DialingTyped'
  BY DialingKept
<1>1. CASE GivesUp
  <2>1. pc # "done" /\ beforeRequest /\ Fail("other")
    BY <1>1 DEF GivesUp, DialFails, RequestFails
  <2> QED
    BY <1>d, <2>1, FailKeeps DEF beforeRequest, dialing, connections
<1>2. CASE DialAddress(connects, handshake)
  <2>1. /\ pc = "dial" /\ pending # <<>> /\ ~refused(answer)
        /\ tried' = tried \cup {Head(pending)} /\ pending' = Tail(pending)
        /\ UNCHANGED <<ctxDone, url, answer, pool, body, text>>
    BY <1>2 DEF DialAddress, HTTPInv, DialInv
  <2>2. DialingTyped' /\ Head(pending) \in Address /\ ~refused(answer')
    <3>1. /\ Head(pending) \in Address /\ Tail(pending) \in Seq(Address)
          /\ Head(pending) \in ToSet(pending)
          /\ ToSet(Tail(pending)) \subseteq ToSet(pending)
      BY <1>d, <2>1, HeadTailIn DEF DialingTyped
    <3> QED
      BY <1>d, <2>1, <3>1 DEF DialingTyped
  <2>3. CASE ~connects /\ UNCHANGED <<pc, sent, conn, result, err>>
    BY <2>1, <2>2, <2>3 DEF DialingTyped, HTTPInv, HTTPTypes, DialInv, HopInv,
       TLSInv, ChannelInv, Succeeded, BeforeSend
  <2>4. CASE Fail("other") /\ UNCHANGED <<sent, conn>>
    BY <1>d, <2>1, <2>2, <2>4, FailKeeps
  <2>5. CASE /\ \E certificate \in Certificates :
                  conn' = [scheme |-> url.scheme,
                           tls |-> [host |-> url.host, address |-> Head(pending),
                                    text |-> certificate.text, names |-> certificate.names]]
             /\ sent' = Append(sent, url) /\ pc' = "await" /\ UNCHANGED <<result, err>>
    <3>1. conn' \in Connections /\ serves(conn', url')
      BY <1>d, <2>1, <2>2, <2>5, HTTPAssumption DEF Connections, TLSData, URL, serves
    <3>2. /\ sent \in Seq(Targets) /\ url \in Targets /\ sent' \in Seq(Targets)
          /\ Len(sent') = Len(sent) + 1 /\ Len(sent) \in Nat
      BY <2>5 DEF HTTPInv, HTTPTypes
    <3>3. HTTPTypes' /\ DialInv'
      BY <2>1, <2>2, <2>5, <3>1, <3>2 DEF DialingTyped, HTTPInv, HTTPTypes,
         DialInv, Succeeded
    <3>4. HopInv'
      <4>1. /\ pc' = "await" /\ err' = "none" /\ url' = url /\ result' = result
            /\ sent' = Append(sent, url)
        BY <2>1, <2>5 DEF HTTPInv, HTTPTypes
      <4>2. /\ result.responses = sent /\ Len(result.redirects) = Len(sent)
            /\ Len(sent) <= MaxRedirects /\ MaxRedirects \in Nat
        BY <2>1, HTTPAssumption DEF HTTPInv, HopInv, BeforeSend
      <4> QED
        BY <3>2, <4>1, <4>2 DEF HopInv, Succeeded, BeforeSend
    <3>5. TLSInv' /\ ChannelInv'
      BY <2>5, <3>1 DEF TLSInv, ChannelInv, Succeeded
    <3> QED
      BY <3>3, <3>4, <3>5 DEF HTTPInv
  <2> QED
    BY <1>2, <2>3, <2>4, <2>5 DEF DialAddress
<1> QED
  BY <1>1, <1>2

(* The answer of a request: a redirect, followed or not, or the final one. *)
LEMMA ResponseStep ==
  ASSUME HTTPInv, NEW target \in Targets, NEW valid \in BOOLEAN,
         NEW page \in Bodies \cup {NoBody},
         Redirect(target, valid) \/ (page \in Bodies /\ Respond(page))
  PROVE  HTTPInv'
<1>1. /\ pc = "await" /\ DialOver /\ conn \in Connections /\ serves(conn, url)
      /\ pool \subseteq Connections /\ text \in Seq(Unit) /\ url \in Targets
      /\ DialingTyped' /\ tried' = {} /\ UNCHANGED <<ctxDone, sent, text>>
      /\ result \in Results /\ err = "none" /\ sent \in Seq(Targets)
  BY DialingKept DEF HTTPInv, HTTPTypes, TLSInv, Redirect, Respond
<1>2. collectTLSMetadata(conn) \in TLSData
  BY <1>1, SnapshotFacts, EmptyTypes DEF collectTLSMetadata
<1>3. /\ sent = Append(result.responses, url) /\ Len(result.redirects) = Len(sent) - 1
      /\ Len(sent) <= MaxRedirects + 1 /\ Len(sent) \in Nat
      /\ result.responses \in Seq(Targets)
      /\ result.redirects \in Seq([from : Targets, to : Targets])
  BY <1>1 DEF HTTPInv, HopInv, Results
<1>4. /\ collectResponse \in Results /\ collectResponse.responses = sent
      /\ collectResponse.redirects = result.redirects
      /\ collectResponse.tls = collectTLSMetadata(conn)
  <2>1. Append(result.responses, url) \in Seq(Targets)
    BY <1>1, <1>3
  <2> QED
    BY <1>1, <1>2, <1>3, <2>1 DEF collectResponse, Results
<1>5. CASE Redirect(target, valid)
  <2>1. url' = target /\ pool' \subseteq Connections
    BY <1>1, <1>5 DEF Redirect
  <2>2. CASE Fail("other")
    BY <1>1, <2>1, <2>2, FailKeeps
  <2>3. CASE /\ ~tooManyRedirects(Len(sent)) /\ pc' = "validate" /\ UNCHANGED err
             /\ result' = [collectResponse EXCEPT
                             !.redirects = Append(@, [from |-> url, to |-> target])]
    <3>1. /\ Append(result.redirects, [from |-> url, to |-> target])
               \in Seq([from : Targets, to : Targets])
          /\ Len(Append(result.redirects, [from |-> url, to |-> target])) = Len(sent)
      BY <1>1, <1>3
    <3>2. /\ result' \in Results /\ result'.responses = sent
          /\ Len(result'.redirects) = Len(sent)
      BY <1>4, <2>3, <3>1 DEF Results
    <3>3. HTTPTypes' /\ DialInv'
      BY <1>1, <2>1, <2>3, <3>2 DEF DialingTyped, HTTPTypes, DialInv, Succeeded
    <3>4. HopInv'
      <4>1. Len(sent) <= MaxRedirects /\ MaxRedirects \in Nat
        BY <1>3, <2>3, HTTPAssumption DEF tooManyRedirects
      <4> QED
        BY <1>1, <1>3, <2>3, <3>2, <4>1 DEF HopInv, Succeeded, BeforeSend
    <3>5. TLSInv' /\ ChannelInv'
      BY <2>3 DEF TLSInv, ChannelInv, Succeeded
    <3> QED
      BY <3>3, <3>4, <3>5 DEF HTTPInv
  <2> QED
    BY <1>5, <2>2, <2>3 DEF Redirect
<1>6. CASE page \in Bodies /\ Respond(page)
  <2>1. /\ pc' = "read" /\ body' = page /\ result' = [collectResponse EXCEPT !.final = url]
        /\ UNCHANGED <<url, connections, err>>
    BY <1>6 DEF Respond
  <2>2. /\ result' \in Results /\ result'.responses = sent
        /\ result'.redirects = result.redirects /\ result'.final = url
        /\ result'.tls = collectTLSMetadata(conn)
    BY <1>1, <1>4, <2>1 DEF Results
  <2>3. Last(sent) = url
    BY <1>1, <1>3 DEF Last
  <2>4. HTTPTypes' /\ DialInv'
    BY <1>1, <1>6, <2>1, <2>2 DEF DialingTyped, HTTPTypes, DialInv, Succeeded, connections
  <2>5. HopInv'
    BY <1>1, <1>3, <2>1, <2>2, <2>3 DEF HopInv, Succeeded, BeforeSend
  <2>6. TLSInv' /\ ChannelInv'
    <3>1. collectTLSMetadata(conn)' = collectTLSMetadata(conn)
      BY <1>1, <2>1 DEF collectTLSMetadata, tlsOf, connections
    <3> QED
      BY <1>1, <2>1, <2>2, <3>1 DEF TLSInv, ChannelInv, Succeeded, connections
  <2> QED
    BY <2>4, <2>5, <2>6 DEF HTTPInv
<1> QED
  BY <1>5, <1>6

(* What the steps after the final response leave alone. *)
LEMMA AfterResponseKeeps ==
  ASSUME HTTPInv, Succeeded, pc # "done", afterResponse,
         pc' = "done" \/ pc' \in {"html", "resources", "return"}, err' = err,
         result' \in Results, text' \in Seq(Unit),
         result'.responses = result.responses, result'.redirects = result.redirects,
         result'.final = result.final, result'.tls = result.tls, ChannelInv'
  PROVE  HTTPInv'
<1>1. Succeeded' /\ err = "none" /\ pc \notin {"start", "validate", "send", "dial", "await"}
  BY DEF Succeeded, HTTPInv, HTTPTypes
<1>2. HTTPTypes'
  BY <1>1 DEF HTTPInv, HTTPTypes, afterResponse, dialing, connections
<1>3. DialInv'
  BY <1>1 DEF HTTPInv, DialInv, afterResponse, dialing, refused
<1>4. HopInv'
  BY <1>1 DEF HTTPInv, HopInv, afterResponse, dialing, BeforeSend
<1>5. TLSInv'
  <2>1. conn.scheme = "https" \/ conn.scheme = "http"
    BY DEF HTTPInv, HTTPTypes, Connections
  <2>2. collectTLSMetadata(conn)' = collectTLSMetadata(conn)
    BY DEF afterResponse, connections, collectTLSMetadata, tlsOf
  <2> QED
    BY <1>1, <2>2 DEF HTTPInv, TLSInv, afterResponse, connections, serves
<1> QED
  BY <1>2, <1>3, <1>4, <1>5 DEF HTTPInv

(* Reading and decoding the body. *)
LEMMA BodyStep ==
  ASSUME HTTPInv, NEW ok \in BOOLEAN, ReadBody(ok) \/ DecodeHTML \/ Return
  PROVE  HTTPInv'
<1>1. /\ Succeeded /\ pc # "done" /\ afterResponse /\ err = "none"
      /\ DialingTyped' /\ pool' \subseteq Connections /\ url' \in Targets
      /\ text \in Seq(Unit) /\ result \in Results /\ sent' = sent
      /\ body' = body /\ body \in Bodies
  BY DialingKept DEF ReadBody, DecodeHTML, Return, Succeeded, afterResponse,
     connections, HTTPInv, HTTPTypes
<1>2. /\ body.units \in Seq(Unit) /\ body.growth \in Nat \ {0}
      /\ MaxBodyBytes \in Nat /\ MaxBodyBytes + 1 \in Nat
  BY <1>1, HTTPAssumption
<1>3. CASE ReadBody(ok)
  <2> DEFINE read == take(body.units, readLimit)
  <2>1. /\ read \in Seq(Unit) /\ Len(read) \in Nat
        /\ Len(read) <= MaxBodyBytes => read = body.units
    <3>1. readLimit \in Nat /\ readLimit = MaxBodyBytes + 1
      BY <1>2 DEF readLimit
    <3>2. /\ read \in Seq(Unit)
          /\ Len(read) = IF readLimit <= Len(body.units) THEN readLimit ELSE Len(body.units)
          /\ readLimit >= Len(body.units) => read = body.units
      BY <1>2, <3>1, TakeProperties
    <3>3. Len(body.units) \in Nat
      BY <1>2, LenProperties
    <3> QED
      BY <1>2, <3>1, <3>2, <3>3
  <2> HIDE DEF read
  <2>2. /\ take(read, MaxBodyBytes) \in Seq(Unit)
        /\ Len(read) <= MaxBodyBytes => take(read, MaxBodyBytes) = read
    BY <1>2, <2>1, TakeProperties
  <2>3. CASE Fail("other") /\ UNCHANGED text
    BY <1>1, <2>3, FailKeeps
  <2>4. CASE /\ text' = take(read, MaxBodyBytes)
             /\ result' = [result EXCEPT !.BodyTruncated = Len(read) > MaxBodyBytes]
             /\ pc' = IF body.html THEN "html" ELSE "return"
             /\ UNCHANGED err
    <3>1. /\ result' \in Results /\ result'.responses = result.responses
          /\ result'.redirects = result.redirects /\ result'.final = result.final
          /\ result'.tls = result.tls
          /\ result'.BodyTruncated <=> Len(read) > MaxBodyBytes
      <4>1. PICK cut \in BOOLEAN : cut = (Len(read) > MaxBodyBytes)
        <5>1. (Len(read) > MaxBodyBytes) \in BOOLEAN
          BY SMT
        <5> QED
          BY <5>1, Zenon
      <4>2. result' = [result EXCEPT !.BodyTruncated = cut]
        BY <2>4, <4>1
      <4>3. result' \in Results /\ result'.BodyTruncated = cut
        BY <1>1, <4>2 DEF Results
      <4>4. /\ result'.responses = result.responses
            /\ result'.redirects = result.redirects /\ result'.final = result.final
            /\ result'.tls = result.tls
        BY <1>1, <4>2 DEF Results
      <4> QED
        BY <4>1, <4>3, <4>4
    <3>2. ~result'.BodyTruncated => text' = body.units
      BY <1>2, <2>1, <2>2, <2>4, <3>1
    <3>3. ChannelInv'
      BY <1>1, <2>4, <3>2 DEF ChannelInv
    <3> QED
      BY <1>1, <2>2, <2>4, <3>1, <3>3, AfterResponseKeeps
  <2> QED
    BY <1>3, <2>3, <2>4 DEF ReadBody, read
<1>4. CASE DecodeHTML
  <2> DEFINE bytes == body.growth * Len(text)
             kept == take(text, MaxBodyBytes \div body.growth)
  <2>1. kept \in Seq(Unit)
    <3>1. MaxBodyBytes \div body.growth \in Nat
      BY <1>2
    <3> QED
      BY <1>1, <3>1, TakeProperties
  <2> HIDE DEF bytes, kept
  <2>2. CASE Fail("other") /\ UNCHANGED text
    BY <1>1, <2>2, FailKeeps
  <2>3. CASE /\ result' = [result EXCEPT !.PageContentIncomplete = TRUE,
                                         !.ResourcesIncomplete = TRUE]
             /\ pc' = "return" /\ UNCHANGED <<text, err>>
    <3>1. /\ result' \in Results /\ result'.responses = result.responses
          /\ result'.redirects = result.redirects /\ result'.final = result.final
          /\ result'.tls = result.tls /\ result'.PageContentIncomplete
      BY <1>1, <2>3 DEF Results
    <3>2. ChannelInv'
      BY <2>3, <3>1 DEF ChannelInv, contentTruncated, resourcesTruncated
    <3> QED
      BY <1>1, <2>3, <3>1, <3>2, AfterResponseKeeps
  <2>4. CASE /\ pc = "html" /\ text' = IF bytes > MaxBodyBytes THEN kept ELSE text
             /\ result' = [result EXCEPT !.HTMLTruncated = bytes > MaxBodyBytes,
                                         !.content = text']
             /\ pc' = "resources" /\ UNCHANGED err
    <3>1. text' \in Seq(Unit)
      BY <1>1, <2>1, <2>4
    <3>2. /\ result' \in Results /\ result'.responses = result.responses
          /\ result'.redirects = result.redirects /\ result'.final = result.final
          /\ result'.tls = result.tls /\ result'.content = text'
          /\ result'.BodyTruncated = result.BodyTruncated
          /\ result'.HTMLTruncated <=> bytes > MaxBodyBytes
      <4>1. PICK cut \in BOOLEAN : cut = (bytes > MaxBodyBytes)
        <5>1. (bytes > MaxBodyBytes) \in BOOLEAN
          BY SMT
        <5> QED
          BY <5>1, Zenon
      <4>2. result' = [result EXCEPT !.HTMLTruncated = cut, !.content = text']
        BY <2>4, <4>1
      <4>3. result' \in Results /\ result'.HTMLTruncated = cut
        BY <1>1, <3>1, <4>2 DEF Results
      <4>4. /\ result'.responses = result.responses
            /\ result'.redirects = result.redirects /\ result'.final = result.final
            /\ result'.tls = result.tls /\ result'.content = text'
            /\ result'.BodyTruncated = result.BodyTruncated
        BY <1>1, <4>2 DEF Results
      <4> QED
        BY <4>1, <4>3, <4>4
    <3>3. ChannelInv'
      BY <1>1, <2>4, <3>2 DEF HTTPInv, ChannelInv, contentTruncated
    <3> QED
      BY <1>1, <2>4, <3>1, <3>2, <3>3, AfterResponseKeeps
  <2> QED
    BY <1>4, <2>2, <2>3, <2>4 DEF DecodeHTML, bytes, kept
<1>5. CASE Return
  <2>1. CASE Fail("other")
    BY <1>1, <1>5, <2>1, FailKeeps DEF Return
  <2>2. CASE pc' = "done" /\ UNCHANGED <<result, err>>
    <3>1. ChannelInv'
      BY <1>1, <1>5, <2>2 DEF Return, HTTPInv, ChannelInv, contentTruncated,
         resourcesTruncated, thirdParty, afterResponse
    <3> QED
      BY <1>1, <1>5, <2>2, <3>1, AfterResponseKeeps DEF Return
  <2> QED
    BY <1>5, <2>1, <2>2 DEF Return
<1> QED
  BY <1>3, <1>4, <1>5

(* Collecting the resources of the HTML. *)
LEMMA ResourcesStep ==
  ASSUME HTTPInv, NEW parsed \in 0..Len(text), CollectResources(parsed)
  PROVE  HTTPInv'
<1> DEFINE scanned == take(text, parsed)
           seen == IF reaches(scanned) # {} THEN take(scanned, Min(reaches(scanned)))
                   ELSE scanned
<1>1. /\ pc = "resources" /\ Succeeded /\ pc # "done" /\ afterResponse /\ err = "none"
      /\ DialingTyped' /\ pool' \subseteq Connections /\ url' = url /\ url \in Targets
      /\ text \in Seq(Unit) /\ result \in Results /\ sent' = sent /\ text' = text
      /\ body' = body /\ body \in Bodies
  BY DialingKept DEF CollectResources, Succeeded, afterResponse, connections,
     HTTPInv, HTTPTypes
<1>2. parsed \in Nat /\ Len(text) \in Nat /\ parsed <= Len(text)
  BY <1>1, LenProperties
<1>3. scanned \in Seq(Unit) /\ (parsed >= Len(text) => scanned = text)
  BY <1>1, <1>2, TakeProperties
<1>4. seen \in Seq(Unit)
  <2>1. CASE reaches(scanned) # {}
    <3>1. \A k \in reaches(scanned) : k \in Nat
      BY <1>3, LenProperties DEF reaches
    <3>2. Min(reaches(scanned)) \in Nat
      BY <2>1, <3>1, MinType
    <3> QED
      BY <1>3, <2>1, <3>2, TakeProperties
  <2> QED
    BY <1>3, <2>1
<1> DEFINE hosts == {u.host : u \in {t \in tags(seen) : thirdParty(t)}}
<1>5. tags(seen) \in SUBSET Unit /\ hosts \in SUBSET Host
  <2>1. \A i \in DOMAIN seen : seen[i] \in Unit
    BY <1>4, LenProperties, ElementOfSeq
  <2>2. tags(seen) \subseteq Unit
    BY <2>1 DEF tags, ToSet
  <2> QED
    BY <2>2 DEF Unit
<1>6. ~limited(scanned) => seen = scanned
  BY DEF limited
<1>7. CASE Fail("other")
  BY <1>1, <1>7, FailKeeps
<1>8. CASE /\ result' = [result EXCEPT
                           !.resources = tags(seen), !.hosts = hosts,
                           !.ResourcesIncomplete = limited(scanned) \/ parsed < Len(text)]
           /\ pc' = "return" /\ UNCHANGED err
  <2>1. /\ result' \in Results /\ result'.responses = result.responses
        /\ result'.redirects = result.redirects /\ result'.final = result.final
        /\ result'.tls = result.tls /\ result'.content = result.content
        /\ result'.resources = tags(seen) /\ result'.hosts = hosts
        /\ contentTruncated' = contentTruncated
        /\ result'.ResourcesIncomplete <=> limited(scanned) \/ parsed < Len(text)
    BY <1>1, <1>5, <1>8 DEF Results, contentTruncated, limited
  <2>2. ~contentTruncated => text = body.units /\ result.content = body.units
    BY <1>1 DEF HTTPInv, ChannelInv
  <2>3. ~resourcesTruncated' => seen = body.units
    BY <1>2, <1>3, <1>6, <2>1, <2>2 DEF resourcesTruncated
  <2>4. \A t : thirdParty(t)' <=> thirdParty(t)
    BY <1>1 DEF thirdParty
  <2>5. ChannelInv'
    BY <1>1, <1>8, <2>1, <2>2, <2>3, <2>4 DEF ChannelInv, resourcesTruncated
  <2> QED
    BY <1>1, <1>8, <2>1, <2>5, AfterResponseKeeps
<1> QED
  BY <1>7, <1>8 DEF CollectResources

(* Every step of the HTTP analyzer keeps its invariant. *)
LEMMA HTTPStep ==
  ASSUME HTTPInv, HTTPNext
  PROVE  HTTPInv'
<1>1. CASE ContextEnds \/ ReuseConnection
  <2>1. <<>> \in Seq(Address) /\ TRUE \in BOOLEAN
    BY EmptySeq
  <2> QED
    BY <1>1, <2>1, RequestStep
<1>2. CASE Program
  <2>1. CASE \E valid \in BOOLEAN : Start(valid)
    <3>1. <<>> \in Seq(Address)
      BY EmptySeq
    <3> QED
      BY <2>1, <3>1, RequestStep
  <2>2. CASE \E addresses \in lookup(url.host) : Validate(addresses) \/ DialContext(addresses)
    <3>1. PICK addresses \in lookup(url.host) : Validate(addresses) \/ DialContext(addresses)
      BY <2>2
    <3>2. addresses \in Seq(Address) /\ TRUE \in BOOLEAN
      BY LookupType
    <3> QED
      BY <3>1, <3>2, RequestStep
  <2>3. CASE DecodeHTML \/ Return
    BY <2>3, BodyStep
  <2>4. CASE \E parsed \in 0..Len(text) : CollectResources(parsed)
    BY <2>4, ResourcesStep
  <2> QED
    BY <1>2, <2>1, <2>2, <2>3, <2>4 DEF Program
<1>3. CASE (\E connects, handshake \in BOOLEAN : DialAddress(connects, handshake)) \/ GivesUp
  <2>1. ASSUME NEW connects \in BOOLEAN, NEW handshake \in BOOLEAN,
               DialAddress(connects, handshake)
        PROVE  HTTPInv'
    BY <2>1, DialStep
  <2>2. CASE GivesUp
    <3>1. TRUE \in BOOLEAN
      OBVIOUS
    <3> QED
      BY <2>2, <3>1, DialStep
  <2> QED
    BY <1>3, <2>1, <2>2
<1>4. CASE \E target \in Targets, valid \in BOOLEAN : Redirect(target, valid)
  <2>1. PICK target \in Targets, valid \in BOOLEAN : Redirect(target, valid)
    BY <1>4
  <2>2. NoBody \in Bodies \cup {NoBody}
    OBVIOUS
  <2> QED
    BY <2>1, <2>2, ResponseStep
<1>5. CASE \E page \in Bodies : Respond(page)
  <2>1. url \in Targets /\ TRUE \in BOOLEAN
    BY DEF HTTPInv, HTTPTypes
  <2> QED
    BY <1>5, <2>1, ResponseStep
<1>6. CASE \E ok \in BOOLEAN : ReadBody(ok)
  BY <1>6, BodyStep
<1> QED
  BY <1>1, <1>2, <1>3, <1>4, <1>5, <1>6 DEF HTTPNext, Network

(* The invariant of the HTTP analyzer only speaks of its variables. *)
LEMMA HTTPStutters ==
  ASSUME HTTPInv, UNCHANGED httpVars
  PROVE  HTTPInv'
<1>1. /\ UNCHANGED <<pc, url, sent, body, text, result, err>>
      /\ UNCHANGED <<answer, pending, tried, conn, pool>>
  BY DEF httpVars, dialing, connections
<1>2. Succeeded' = Succeeded
  BY <1>1 DEF Succeeded
<1>3. HTTPTypes' /\ DialInv' /\ HopInv'
  BY <1>1, <1>2 DEF HTTPInv, HTTPTypes, DialInv, HopInv, refused
<1>4. TLSInv'
  BY <1>1, <1>2 DEF HTTPInv, TLSInv, serves, collectTLSMetadata, tlsOf
<1>5. ChannelInv'
  BY <1>1 DEF HTTPInv, ChannelInv, contentTruncated, resourcesTruncated, thirdParty
<1> QED
  BY <1>3, <1>4, <1>5 DEF HTTPInv

(* The steps of the DNS/TLS analyzer only read the result. *)
LEMMA DNSStep ==
  ASSUME IInv, \/ Observe \/ LookupFails
               \/ \E alias \in BOOLEAN : LookupCNAME(alias)
  PROVE  IInv'
<1>1. UNCHANGED httpVars
  BY DEF Observe, LookupFails, LookupCNAME
<1>2. HTTPInv'
  BY <1>1, HTTPStutters DEF IInv
<1>3. UNCHANGED <<pc, err, result>>
  BY <1>1 DEF httpVars
<1>4. CASE Observe
  <2>1. result.tls \in TLSData /\ pc = "done" /\ err = "none" /\ dpc = "idle"
        /\ observation \in [tls : TLSData, cname : BOOLEAN] /\ status = "none"
    BY <1>4 DEF Observe, IInv, DNSInv, HTTPInv, HTTPTypes, Results
  <2> QED
    BY <1>2, <1>3, <1>4, <2>1 DEF Observe, IInv, DNSInv
<1>5. CASE LookupFails \/ \E alias \in BOOLEAN : LookupCNAME(alias)
  BY <1>2, <1>3, <1>5 DEF LookupFails, LookupCNAME, IInv, DNSInv
<1> QED
  BY <1>4, <1>5

(* The invariant holds initially and is inductive. *)
LEMMA InitIInv == DInit => IInv
<1> SUFFICES ASSUME DInit PROVE IInv
  OBVIOUS
<1>1. /\ <<>> \in Seq(Targets) /\ <<>> \in Seq(Address) /\ <<>> \in Seq(Unit)
      /\ ToSet(<<>>) = {} /\ Len(<<>>) = 0 /\ MaxRedirects \in Nat
  BY EmptySeq, HTTPAssumption DEF ToSet
<1>2. HTTPTypes
  BY <1>1, EmptyTypes DEF DInit, Init, HTTPTypes, Succeeded
<1>3. DialInv
  BY <1>1 DEF DInit, Init, DialInv
<1>4. HopInv
  BY <1>1, EmptyTypes DEF DInit, Init, HopInv, Succeeded, BeforeSend
<1>5. TLSInv /\ ChannelInv
  BY DEF DInit, Init, TLSInv, ChannelInv, Succeeded
<1>6. DNSInv
  BY EmptyTypes DEF DInit, DNSInv, NoObservation
<1> QED
  BY <1>2, <1>3, <1>4, <1>5, <1>6 DEF IInv, HTTPInv

LEMMA Inductive == IInv /\ [Next]_vars => IInv'
<1> SUFFICES ASSUME IInv, [Next]_vars PROVE IInv'
  OBVIOUS
<1>1. CASE HTTPNext /\ UNCHANGED dnsVars
  <2>1. HTTPInv' /\ pc # "done"
    <3>1. pc # "done"
      BY <1>1 DEF HTTPNext, Program, Network, GivesUp, ContextEnds, Start, Validate,
         DialContext, DecodeHTML, Return, CollectResources, ReuseConnection,
         DialAddress, Redirect, Respond, ReadBody, DialFails, RequestFails
    <3> QED
      BY <1>1, <3>1, HTTPStep DEF IInv
  <2>2. DNSInv'
    BY <1>1, <2>1 DEF IInv, DNSInv, dnsVars
  <2> QED
    BY <2>1, <2>2 DEF IInv
<1>2. CASE Observe \/ LookupFails \/ \E alias \in BOOLEAN : LookupCNAME(alias)
  BY <1>2, DNSStep
<1>3. CASE UNCHANGED vars
  <2>1. UNCHANGED httpVars /\ UNCHANGED <<pc, err, result, dpc, observation, status>>
    BY <1>3 DEF vars, dnsVars, httpVars
  <2> QED
    BY <2>1, HTTPStutters DEF IInv, DNSInv
<1> QED
  BY <1>1, <1>2, <1>3 DEF Next
-----------------------------------------------------------------------------
(* Every reachable state satisfies the invariant. *)
THEOREM HTTPInvariant == Spec => []IInv
BY InitIInv, Inductive, PTL DEF Spec

(* Whatever a resolver answers at validation and at each dial, only        *)
(* addresses of an answer all of which is allowed are dialed (resolve,     *)
(* DialContext).                                                           *)
THEOREM OnlyCleanAnswersDialed == Spec => []CleanAnswersOnly
<1>1. IInv => CleanAnswersOnly
  BY DEF IInv, HTTPInv, DialInv, CleanAnswersOnly, refused, Allowed
<1> QED
  BY <1>1, HTTPInvariant, PTL

(* For any number of redirects the history of requests is the one that the *)
(* result and the initial-target error tell (CheckRedirect, Analyze).      *)
THEOREM RedirectsAccounted == Spec => []HopsAccounted
<1>1. IInv => HopsAccounted
  BY DEF IInv, HTTPInv, HopInv, HopsAccounted, Succeeded
<1> QED
  BY <1>1, HTTPInvariant, PTL

(* The snapshot that becomes TLS signals is that of the connection which   *)
(* carried the final response (collectTLSMetadata, normalizeTLS).          *)
THEOREM SnapshotOfFinalConnection == Spec => []TLSOfFinalConnection
<1>1. IInv => TLSOfFinalConnection
  <2> SUFFICES ASSUME IInv, dpc = "done" PROVE TLSOfFinalConnection
    BY DEF TLSOfFinalConnection
  <2>1. /\ Succeeded /\ conn \in Connections /\ serves(conn, url) /\ result.final = url
        /\ result.tls = collectTLSMetadata(conn) /\ url \in Targets
    BY DEF IInv, DNSInv, HTTPInv, HTTPTypes, HopInv, TLSInv, Succeeded
  <2>2. conn.scheme = result.final.scheme /\ conn.tls.host = result.final.host
        /\ result.final.scheme \in {"http", "https"}
    BY <2>1, HTTPAssumption DEF serves, URL
  <2>3. /\ normalizable(NoTLS) /\ tlsOf(conn).host = conn.tls.host
        /\ tlsOf(conn).address = conn.tls.address
        /\ ~normalizable(tlsOf(conn)) => conn.tls.text = "spaced"
    BY <2>1, SnapshotFacts
  <2>4. CASE status = "ErrInvalidObservation"
    <3>1. ~normalizable(result.tls)
      BY <2>4 DEF IInv, DNSInv
    <3> QED
      BY <2>1, <2>2, <2>3, <2>4, <3>1 DEF collectTLSMetadata, TLSOfFinalConnection
  <2>5. CASE status # "ErrInvalidObservation"
    <3>1. observation.tls = result.tls
      BY <2>5 DEF IInv, DNSInv
    <3> QED
      BY <2>1, <2>2, <2>3, <2>5, <3>1 DEF collectTLSMetadata, TLSOfFinalConnection
  <2> QED
    BY <2>4, <2>5
<1> QED
  BY <1>1, HTTPInvariant, PTL

(* A channel declared complete has everything the document held, for every *)
(* document and every ceiling (readLimitedBody, collectHTML,               *)
(* collectHTMLResources, capabilityCoverage).                              *)
THEOREM CompleteChannelsAreComplete == Spec => []CompleteChannelsLoseNothing
<1>1. IInv => CompleteChannelsLoseNothing
  <2> SUFFICES ASSUME IInv, pc = "done", err = "none", body.html
               PROVE  CompleteChannelsLoseNothing
    BY DEF CompleteChannelsLoseNothing
  <2>1. /\ ~contentTruncated => result.content = body.units
        /\ ~resourcesTruncated =>
             /\ result.resources = tags(body.units)
             /\ result.hosts = {u.host : u \in {t \in tags(body.units) : thirdParty(t)}}
    BY DEF IInv, HTTPInv, ChannelInv
  <2>2. \A type : has(type) \subseteq tags(body.units)
    BY DEF has
  <2> QED
    BY <2>1, <2>2 DEF CompleteChannelsLoseNothing, capabilityCoverage
<1> QED
  BY <1>1, HTTPInvariant, PTL
-----------------------------------------------------------------------------
(* What the type invariant says beyond IInv: a connection was dialed to an *)
(* address, and one in use will be idle as it is.                          *)
Dialed ==
  [scheme : {"http", "https"},
   tls : [host : Host, address : Address, text : {c.text : c \in Certificates}, names : Nat]]

Positions == {"start", "validate", "send", "dial", "await", "read", "html",
              "resources", "return", "done"}

HTTPRest ==
  /\ ctxDone \in BOOLEAN
  /\ pc \in Positions
  /\ pool \subseteq Dialed
  /\ pc = "await" => conn \in Dialed
  /\ body \in Bodies \cup {NoBody}
  /\ err \in {"none", "ErrInitialTarget", "other"}

DNSRest ==
  /\ dpc \in {"idle", "lookup", "done"}
  /\ status \in {"none", "ErrInvalidObservation", "lookup"}

LEMMA ConnectionsDialed ==
  ASSUME IInv, HTTPRest, NEW connects \in BOOLEAN, NEW handshake \in BOOLEAN,
         ReuseConnection \/ DialAddress(connects, handshake)
  PROVE  HTTPRest'
<1>1. CASE ReuseConnection
  BY <1>1 DEF ReuseConnection, HTTPRest, Positions
<1>2. CASE DialAddress(connects, handshake)
  <2>1. /\ pc = "dial" /\ pending # <<>> /\ pending \in Seq(Address) /\ url \in URL
        /\ UNCHANGED <<ctxDone, pool, body>>
    BY <1>2, HTTPAssumption DEF DialAddress, IInv, HTTPInv, HTTPTypes
  <2>2. Head(pending) \in Address /\ url.scheme \in {"http", "https"} /\ url.host \in Host
    BY <2>1, HeadTailIn DEF URL
  <2>3. CASE UNCHANGED <<pc, err>> \/ Fail("other")
    BY <2>1, <2>3 DEF HTTPRest, Positions, Fail
  <2>4. CASE /\ \E certificate \in Certificates :
                  conn' = [scheme |-> url.scheme,
                           tls |-> [host |-> url.host, address |-> Head(pending),
                                    text |-> certificate.text, names |-> certificate.names]]
             /\ pc' = "await" /\ UNCHANGED err
    <3>1. conn' \in Dialed
      BY <2>2, <2>4, HTTPAssumption DEF Dialed
    <3> QED
      BY <2>1, <2>4, <3>1 DEF HTTPRest, Positions
  <2> QED
    BY <1>2, <2>3, <2>4 DEF DialAddress
<1> QED
  BY <1>1, <1>2

LEMMA RestStep ==
  ASSUME IInv, HTTPRest, [HTTPNext]_httpVars
  PROVE  HTTPRest'
<1>1. CASE ContextEnds
  BY <1>1 DEF ContextEnds, HTTPRest, dialing, connections
<1>2. CASE Program
  <2>1. CASE \E valid \in BOOLEAN : Start(valid)
    BY <2>1 DEF Start, HTTPRest, Positions, Fail, beforeRequest, dialing, connections
  <2>2. ASSUME NEW addresses, Validate(addresses) PROVE HTTPRest'
    <3>1. /\ \/ pc' = "send" /\ UNCHANGED err
             \/ pc' = "done" /\ err' \in {"ErrInitialTarget", "other"}
          /\ pc = "validate" /\ beforeRequest
      BY <2>2 DEF Validate, Fail
    <3> QED
      BY <3>1 DEF HTTPRest, Positions, beforeRequest, dialing, connections
  <2>3. ASSUME NEW addresses, DialContext(addresses) PROVE HTTPRest'
    BY <2>3 DEF DialContext, HTTPRest, Positions, Fail
  <2>4. CASE DecodeHTML \/ Return \/ \E parsed \in 0..Len(text) : CollectResources(parsed)
    <3>1. pc' \in {"done", "return", "resources"} /\ err' \in {err, "other"} /\ afterResponse
      BY <2>4 DEF DecodeHTML, Return, CollectResources, Fail
    <3> QED
      BY <3>1 DEF HTTPRest, Positions, afterResponse, dialing, connections
  <2> QED
    BY <1>2, <2>1, <2>2, <2>3, <2>4 DEF Program
<1>3. CASE ReuseConnection \/ \E connects, handshake \in BOOLEAN :
                                DialAddress(connects, handshake)
  <2>1. TRUE \in BOOLEAN
    OBVIOUS
  <2> QED
    BY <1>3, <2>1, ConnectionsDialed
<1>4. ASSUME NEW target, NEW valid, Redirect(target, valid) PROVE HTTPRest'
  <2>1. /\ pc = "await" /\ pc' \in {"done", "validate"} /\ err' \in {err, "other"}
        /\ pool' = pool \cup {conn} /\ UNCHANGED <<ctxDone, body>>
    BY <1>4 DEF Redirect, Fail
  <2> QED
    BY <2>1 DEF HTTPRest, Positions
<1>5. CASE \E page \in Bodies : Respond(page)
  BY <1>5 DEF Respond, HTTPRest, Positions, connections
<1>6. ASSUME NEW ok, ReadBody(ok) PROVE HTTPRest'
  <2>1. pc' \in {"done", "html", "return"} /\ err' \in {err, "other"} /\ afterResponse
    BY <1>6 DEF ReadBody, Fail
  <2> QED
    BY <2>1 DEF HTTPRest, Positions, afterResponse, dialing, connections
<1>7. CASE GivesUp
  <2>1. pc' = "done" /\ err' = "other" /\ beforeRequest
    BY <1>7 DEF GivesUp, DialFails, RequestFails, Fail
  <2> QED
    BY <2>1 DEF HTTPRest, Positions, beforeRequest, dialing, connections
<1>8. CASE UNCHANGED httpVars
  BY <1>8 DEF httpVars, dialing, connections, HTTPRest
<1> QED
  BY <1>1, <1>2, <1>3, <1>4, <1>5, <1>6, <1>7, <1>8 DEF HTTPNext, Network

LEMMA DNSRestStep == DNSRest /\ [Next]_vars => DNSRest'
BY DEF DNSRest, Next, vars, dnsVars, Observe, LookupFails, LookupCNAME

(* The variables of both analyzers keep their types for any resolver,      *)
(* redirects and documents (Analyze, Observe).                             *)
THEOREM HTTPTypeCorrect == Spec => []TypeOK
<1>1. DInit => HTTPRest /\ DNSRest
  BY DEF DInit, Init, HTTPRest, DNSRest, Positions
<1>2. IInv /\ HTTPRest /\ DNSRest /\ [Next]_vars => HTTPRest' /\ DNSRest'
  <2>1. [Next]_vars => [HTTPNext]_httpVars
    BY DEF Next, vars, Observe, LookupFails, LookupCNAME
  <2> QED
    BY <2>1, RestStep, DNSRestStep
<1>3. IInv /\ HTTPRest /\ DNSRest => TypeOK
  <2> SUFFICES ASSUME IInv, HTTPRest, DNSRest PROVE TypeOK
    OBVIOUS
  <2>1. tried \subseteq Address
    <3>1. answer \in Seq(Address) /\ tried \subseteq ToSet(answer)
      BY DEF IInv, HTTPInv, HTTPTypes, DialInv
    <3>2. \A i \in DOMAIN answer : answer[i] \in Address
      BY <3>1, LenProperties, ElementOfSeq
    <3> QED
      BY <3>1, <3>2 DEF ToSet
  <2>2. observation.cname \in BOOLEAN
    BY DEF IInv, DNSInv
  <2> QED
    BY <2>1, <2>2 DEF IInv, HTTPInv, HTTPTypes, HTTPRest, DNSRest, TypeOK, Dialed, Positions
<1> QED
  BY <1>1, <1>2, <1>3, HTTPInvariant, PTL DEF Spec
=============================================================================
