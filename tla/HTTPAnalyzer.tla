---------------------------- MODULE HTTPAnalyzer ----------------------------
(***************************************************************************)
(* One bounded HTTP navigation (internal/httpanalyzer): Analyzer.Analyze   *)
(* from the initial validation over dialing, redirects and the final body  *)
(* to the static resources of its HTML, and the capability coverage that   *)
(* Observe declares.  net/http's client and transport are external: they   *)
(* ask CheckRedirect, reuse idle connections and dial through the guard.   *)
(*                                                                         *)
(* A body is a sequence of units, each text or a tag that names a script   *)
(* or an iframe; decoding turns a unit of `growth` bytes of UTF-8 out of   *)
(* one byte, so a body within its ceiling may decode to HTML above it.     *)
(***************************************************************************)

EXTENDS NetworkGuard, FiniteSets, FiniteSetsExt

CONSTANTS
  Targets,           \* URLs a scan may start from or a server redirect to
  MaxRedirects, MaxBodyBytes, MaxHTMLResources,
  Certificates,      \* leaf certificates: [text, names]
  MaxDNSNames,       \* DNS names kept of a certificate
  Bodies             \* bodies of final responses: [html, charset, growth, units]

(* A piece of a document: text, or a tag that names a resource of a host. *)
Unit == [type : {"text", "script", "iframe"}, host : Host]

ASSUME HTTPAssumption ==
  /\ Targets \subseteq URL
  /\ {MaxRedirects, MaxBodyBytes, MaxHTMLResources, MaxDNSNames} \subseteq Nat
  /\ MaxBodyBytes > 0 /\ MaxHTMLResources > 0
  /\ \A c \in Certificates : c.names \in Nat
  /\ Bodies \subseteq [html : BOOLEAN, charset : {"known", "unknown"},
                      growth : Nat \ {0}, units : Seq(Unit)]

VARIABLES
  ctxDone,     \* the scan was canceled or TotalTimeout has passed
  pc,
  url,         \* URL of the request being prepared or answered
  sent,        \* history: URLs of the requests written, in order
  answer,      \* history: what the name resolved to for the dial under way
  pending,     \* addresses of it still to try
  tried,       \* history: addresses of it given to the dialer
  conn, pool,  \* connection of the request, idle connections
  body,        \* body of the final response
  text,        \* the part of it that was read or decoded
  result,
  err

dialing == <<answer, pending, tried>>
connections == <<conn, pool>>
httpVars == <<ctxDone, pc, url, sent, dialing, connections, body, text, result, err>>

(* The absent values. *)
NoURL == [scheme |-> "none", host |-> "none"]
NoTLS == [host |-> "none", address |-> "none", text |-> "none", names |-> 0]
NoConn == [scheme |-> "none", tls |-> NoTLS]
NoBody == [html |-> FALSE, charset |-> "known", growth |-> 1, units |-> <<>>]

EmptyResult ==
  [responses |-> <<>>, redirects |-> <<>>, tls |-> NoTLS, final |-> NoURL,
   content |-> <<>>, resources |-> {}, hosts |-> {},
   BodyTruncated |-> FALSE, HTMLTruncated |-> FALSE,
   PageContentIncomplete |-> FALSE, ResourcesIncomplete |-> FALSE]

Init ==
  /\ ctxDone = FALSE
  /\ pc = "start"
  /\ url \in Targets
  /\ sent = <<>>
  /\ answer = <<>> /\ pending = <<>> /\ tried = {}
  /\ conn = NoConn /\ pool = {}
  /\ body = NoBody /\ text = <<>>
  /\ result = EmptyResult
  /\ err = "none"

(* An error returns Result{}: nothing that was collected survives it. *)
Fail(error) ==
  /\ pc' = "done"
  /\ err' = error
  /\ result' = EmptyResult
-----------------------------------------------------------------------------
(*                           Context                                       *)

ContextEnds ==
  /\ pc # "done" /\ ~ctxDone
  /\ ctxDone' = TRUE
  /\ UNCHANGED <<pc, url, sent, dialing, connections, body, text, result, err>>
-----------------------------------------------------------------------------
(*                    Validation of the first target                       *)

beforeRequest == UNCHANGED <<ctxDone, url, sent, dialing, connections, body, text>>

(* ParseURL accepts the target or not (valid). *)
Start(valid) ==
  /\ pc = "start"
  /\ \/ ctxDone /\ Fail("other")
     \/ ~ctxDone /\ ~valid /\ Fail("ErrInitialTarget")
     \/ ~ctxDone /\ valid /\ pc' = "validate" /\ UNCHANGED <<result, err>>
  /\ beforeRequest

(* Mutated form: a redirect target refused later is an initial one, too. *)
initialErrorAnyHop == TRUE
initialError == sent = <<>>

(* Guard.Validate, for the first target and from CheckRedirect. *)
Validate(addresses) ==
  /\ pc = "validate"
  /\ CASE resolve(addresses) = "ok" -> pc' = "send" /\ UNCHANGED <<result, err>>
       [] resolve(addresses) = "forbidden" /\ initialError -> Fail("ErrInitialTarget")
       [] OTHER -> Fail("other")
  /\ beforeRequest
-----------------------------------------------------------------------------
(*                 Connections: transport and DialContext                  *)

serves(c, u) == c.scheme = u.scheme /\ c.tls.host = u.host

(* The transport takes an idle connection of the same scheme and host; no  *)
(* name is resolved for it.                                                *)
ReuseConnection ==
  /\ pc = "send" /\ ~ctxDone
  /\ \E c \in pool : /\ serves(c, url)
                     /\ conn' = c
                     /\ pool' = pool \ {c}
  /\ sent' = Append(sent, url)
  /\ pc' = "await"
  /\ UNCHANGED <<ctxDone, url, dialing, body, text, result, err>>

(* Otherwise, or when the server closed the idle one, DialContext resolves *)
(* the name anew and keeps the whole answer to try it in order.            *)
DialContext(addresses) ==
  /\ pc = "send"
  /\ pool' = {c \in pool : ~serves(c, url)}
  /\ \/ /\ ~ctxDone /\ resolve(addresses) = "ok"
        /\ answer' = addresses
        /\ pending' = addresses
        /\ pc' = "dial"
        /\ UNCHANGED <<result, err>>
     \/ /\ ctxDone \/ resolve(addresses) # "ok"
        /\ Fail("other")
        /\ UNCHANGED <<answer, pending>>
  /\ tried' = {}
  /\ UNCHANGED <<ctxDone, url, sent, conn, body, text>>

(* One address is dialed.  A TLS handshake over the connection may fail,   *)
(* a plain request is written at once.                                     *)
DialAddress(connects, handshake) ==
  /\ pc = "dial" /\ pending # <<>> /\ ~ctxDone
  /\ tried' = tried \cup {Head(pending)}
  /\ pending' = Tail(pending)
  /\ \/ ~connects /\ UNCHANGED <<pc, sent, conn, result, err>>
     \/ /\ connects /\ handshake
        /\ \E certificate \in Certificates :
             conn' = [scheme |-> url.scheme,
                      tls |-> [host |-> url.host, address |-> Head(pending),
                               text |-> certificate.text, names |-> certificate.names]]
        /\ sent' = Append(sent, url)
        /\ pc' = "await"
        /\ UNCHANGED <<result, err>>
     \/ /\ connects /\ ~handshake /\ url.scheme = "https"
        /\ Fail("other")
        /\ UNCHANGED <<sent, conn>>
  /\ UNCHANGED <<ctxDone, url, answer, pool, body, text>>

(* No address is left, or the context ended (the connect timeout included).*)
DialFails ==
  /\ pc = "dial"
  /\ Fail("other")
  /\ beforeRequest

(* The transport gives a request up: header timeout, broken connection.    *)
RequestFails ==
  /\ pc = "await"
  /\ Fail("other")
  /\ beforeRequest
-----------------------------------------------------------------------------
(*                            Responses                                    *)

(* collectTLSMetadata of a connection: text with control characters is     *)
(* dropped, names beyond the ceiling are cut; a plain response has none.   *)
boundedCertificateText(t) == IF t = "control" THEN "none" ELSE t

tlsOf(c) ==
  [c.tls EXCEPT !.text = boundedCertificateText(@),
                !.names = IF @ > MaxDNSNames THEN MaxDNSNames ELSE @]

(* Mutated form: a plain response leaves the metadata of an earlier hop. *)
collectTLSMetadataKept(c) == IF c.scheme = "https" THEN tlsOf(c) ELSE result.tls
collectTLSMetadata(c) == IF c.scheme = "https" THEN tlsOf(c) ELSE NoTLS

collectResponse ==
  [result EXCEPT !.responses = Append(@, url), !.tls = collectTLSMetadata(conn)]

(* Mutated form: one redirect more than MaxRedirects is followed. *)
tooManyRedirectsLate(via) == via > MaxRedirects + 1
tooManyRedirects(via) == via > MaxRedirects

(* The histories of a dial end with its request. *)
DialOver == answer' = <<>> /\ pending' = <<>> /\ tried' = {}

(* CheckRedirect: the response is collected and the redirect recorded      *)
(* before the budget and the new URL are looked at.                        *)
Redirect(target, valid) ==
  /\ pc = "await"
  /\ IF tooManyRedirects(Len(sent)) \/ ~valid
     THEN Fail("other")
     ELSE /\ result' = [collectResponse EXCEPT
                          !.redirects = Append(@, [from |-> url, to |-> target])]
          /\ pc' = "validate"
          /\ UNCHANGED err
  /\ url' = target
  /\ pool' = pool \cup {conn}
  /\ conn' = NoConn
  /\ DialOver
  /\ UNCHANGED <<ctxDone, sent, body, text>>

(* The final response, whatever its status. *)
Respond(page) ==
  /\ pc = "await"
  /\ result' = [collectResponse EXCEPT !.final = url]
  /\ body' = page
  /\ pc' = "read"
  /\ DialOver
  /\ UNCHANGED <<ctxDone, url, sent, connections, text, err>>
-----------------------------------------------------------------------------
(*                         Body and HTML                                   *)

afterResponse == UNCHANGED <<ctxDone, url, sent, dialing, connections, body>>

(* Mutated form: the reader stops at the ceiling and never sees more. *)
readLimitAtCeiling == MaxBodyBytes
readLimit == MaxBodyBytes + 1

take(s, n) == SubSeq(s, 1, Min({n, Len(s)}))

(* At most one byte beyond the ceiling is read, and cut off again. *)
ReadBody(ok) ==
  LET read == take(body.units, readLimit) IN
  /\ pc = "read"
  /\ \/ ~ok /\ Fail("other") /\ UNCHANGED text
     \/ /\ ok
        /\ text' = take(read, MaxBodyBytes)
        /\ result' = [result EXCEPT !.BodyTruncated = Len(read) > MaxBodyBytes]
        /\ pc' = IF body.html THEN "html" ELSE "return"
        /\ UNCHANGED err
  /\ afterResponse

(* collectHTML, first half: charset and page content. *)
DecodeHTML ==
  LET bytes == body.growth * Len(text)
      kept == take(text, MaxBodyBytes \div body.growth)
  IN
  /\ pc = "html"
  /\ \/ ctxDone /\ Fail("other") /\ UNCHANGED text
     \/ /\ ~ctxDone /\ body.charset # "known"
        /\ result' = [result EXCEPT !.PageContentIncomplete = TRUE,
                                    !.ResourcesIncomplete = TRUE]
        /\ pc' = "return"
        /\ UNCHANGED <<text, err>>
     \/ /\ ~ctxDone /\ body.charset = "known"
        /\ text' = IF bytes > MaxBodyBytes THEN kept ELSE text
        /\ result' = [result EXCEPT !.HTMLTruncated = bytes > MaxBodyBytes,
                                    !.content = text']
        /\ pc' = "resources"
        /\ UNCHANGED err
  /\ afterResponse

thirdParty(unit) == unit.host # url.host

(* The distinct resources of a text. *)
tags(units) == {u \in ToSet(units) : u.type # "text"}

(* collectHTMLResources, second half of collectHTML: tags in order until   *)
(* the limit is reached or the tokenizer fails after `parsed` units.       *)
reaches(units) == {k \in 0..Len(units) : Cardinality(tags(take(units, k))) = MaxHTMLResources}

(* Mutated form: a scan that ends at the limit counts as a complete one. *)
limitedNever(units) == FALSE
limited(units) == reaches(units) # {}

CollectResources(parsed) ==
  LET scanned == take(text, parsed)
      seen == IF reaches(scanned) # {} THEN take(scanned, Min(reaches(scanned))) ELSE scanned
  IN
  /\ pc = "resources"
  /\ parsed \in 0..Len(text)
  /\ \/ ctxDone /\ Fail("other")
     \/ /\ ~ctxDone
        /\ result' = [result EXCEPT
                        !.resources = tags(seen),
                        !.hosts = {u.host : u \in {t \in tags(seen) : thirdParty(t)}},
                        !.ResourcesIncomplete = limited(scanned) \/ parsed < Len(text)]
        /\ pc' = "return"
        /\ UNCHANGED err
  /\ UNCHANGED text
  /\ afterResponse

(* The last look at the context. *)
Return ==
  /\ pc = "return"
  /\ \/ ctxDone /\ Fail("other")
     \/ ~ctxDone /\ pc' = "done" /\ UNCHANGED <<result, err>>
  /\ UNCHANGED text
  /\ afterResponse
-----------------------------------------------------------------------------
(* Steps of the program, and those of it that wait for somebody else. *)
Program ==
  \/ \E valid \in BOOLEAN : Start(valid)
  \/ \E addresses \in lookup(url.host) : Validate(addresses) \/ DialContext(addresses)
  \/ DecodeHTML \/ Return
  \/ \E parsed \in 0..Len(text) : CollectResources(parsed)

Network ==
  \/ ReuseConnection
  \/ \E connects, handshake \in BOOLEAN : DialAddress(connects, handshake)
  \/ \E target \in Targets, valid \in BOOLEAN : Redirect(target, valid)
  \/ \E page \in Bodies : Respond(page)
  \/ \E ok \in BOOLEAN : ReadBody(ok)

GivesUp == DialFails \/ RequestFails

HTTPNext == ContextEnds \/ Program \/ Network \/ GivesUp

(* The coverage that Observe declares for a successful navigation. *)
contentTruncated ==
  result.BodyTruncated \/ result.HTMLTruncated \/ result.PageContentIncomplete
resourcesTruncated == contentTruncated \/ result.ResourcesIncomplete

capabilityCoverage(type) ==
  CASE type \in {"script_url", "iframe_url", "resource_host"} -> ~resourcesTruncated
    [] type = "page_content" -> ~contentTruncated
    [] OTHER -> TRUE
=============================================================================
