------------------------------- MODULE DNSTLS -------------------------------
(***************************************************************************)
(* The DNS/TLS analyzer (internal/dnstls) behind the HTTP analyzer whose   *)
(* metadata it reuses: it opens no connection, turns the TLS snapshot of   *)
(* the final response into signals and looks up one CNAME under a timeout  *)
(* of its own.  A failed HTTP navigation aborts the scan before it.        *)
(***************************************************************************)

EXTENDS HTTPAnalyzer

CONSTANT MaxTLSDNSNames   \* DNS names accepted in a snapshot

(* It accepts every snapshot the HTTP analyzer can make: both limits are 256. *)
ASSUME DNSTLSAssumption == MaxTLSDNSNames \in Nat /\ MaxDNSNames <= MaxTLSDNSNames

VARIABLES
  dpc,           \* Analyzer.Observe: idle, lookup or done
  observation,   \* the TLS snapshot in the signals, and the CNAME signal
  status         \* error of Observe

dnsVars == <<dpc, observation, status>>
vars == <<httpVars, dnsVars>>

NoObservation == [tls |-> NoTLS, cname |-> FALSE]

TypeOK ==
  /\ ctxDone \in BOOLEAN
  /\ pc \in {"start", "validate", "send", "dial", "await", "read", "html",
             "resources", "return", "done"}
  /\ url \in Targets
  /\ sent \in Seq(Targets)
  /\ {answer, pending} \subseteq Seq(Address) /\ tried \subseteq Address
  /\ pool \subseteq [scheme : {"http", "https"}, tls :
       [host : Host, address : Address, text : {c.text : c \in Certificates}, names : Nat]]
  /\ body \in Bodies \cup {NoBody}
  /\ err \in {"none", "ErrInitialTarget", "other"}
  /\ dpc \in {"idle", "lookup", "done"}
  /\ observation.cname \in BOOLEAN
  /\ status \in {"none", "ErrInvalidObservation", "lookup"}

DInit == Init /\ dpc = "idle" /\ observation = NoObservation /\ status = "none"

(* A property with a space other than U+0020 is unsafe here, although the  *)
(* HTTP analyzer lets it pass.                                             *)
safeProperty(t) == t # "spaced"

(* normalizeTLS: one unsafe property or too many names and the whole       *)
(* snapshot is refused.                                                    *)
normalizable(tls) == safeProperty(tls.text) /\ tls.names <= MaxTLSDNSNames

(* An IP literal has no alias to look up. *)
Observe ==
  /\ dpc = "idle" /\ pc = "done" /\ err = "none"
  /\ \/ /\ ~normalizable(result.tls)
        /\ status' = "ErrInvalidObservation"
        /\ dpc' = "done"
        /\ UNCHANGED observation
     \/ /\ normalizable(result.tls)
        /\ observation' = [observation EXCEPT !.tls = result.tls]
        /\ dpc' = IF result.final.host \in Address THEN "done" ELSE "lookup"
        /\ UNCHANGED status
  /\ UNCHANGED httpVars

(* A canonical name other than the host becomes a signal before the others.*)
LookupCNAME(alias) ==
  /\ dpc = "lookup"
  /\ observation' = [observation EXCEPT !.cname = alias]
  /\ dpc' = "done"
  /\ UNCHANGED <<httpVars, status>>

(* Mutated form: a failed lookup returns an empty observation. *)
LookupFailsEmpty ==
  /\ dpc = "lookup"
  /\ status' = "lookup"
  /\ observation' = NoObservation
  /\ dpc' = "done"
  /\ UNCHANGED httpVars

(* The lookup fails, its timeout fires or the scan is canceled; the TLS    *)
(* signals are kept beside the error.                                      *)
LookupFails ==
  /\ dpc = "lookup"
  /\ status' = "lookup"
  /\ dpc' = "done"
  /\ UNCHANGED <<httpVars, observation>>

Next ==
  \/ HTTPNext /\ UNCHANGED dnsVars
  \/ Observe \/ LookupFails
  \/ \E alias \in BOOLEAN : LookupCNAME(alias)

Spec == DInit /\ [][Next]_vars
-----------------------------------------------------------------------------
(*                            Properties                                   *)

(* Whatever the resolver answers at validation and at dial time, the       *)
(* dialer is only given addresses of an answer all of which is allowed: a  *)
(* name that changes its answer in between, or mixes public and private    *)
(* addresses, is never connected to.                                       *)
CleanAnswersOnly == tried # {} => tried \cap Forbidden = {} /\ ~refused(answer)

(* A channel the analyzer declares complete has every piece of evidence    *)
(* the final document held: its text, its scripts and iframes and their    *)
(* third-party hosts, at and around every ceiling.                         *)
has(type) == {u \in tags(body.units) : u.type = type}
CompleteChannelsLoseNothing ==
  pc = "done" /\ err = "none" /\ body.html =>
    /\ capabilityCoverage("page_content") => result.content = body.units
    /\ capabilityCoverage("script_url") => has("script") \subseteq result.resources
    /\ capabilityCoverage("iframe_url") => has("iframe") \subseteq result.resources
    /\ capabilityCoverage("resource_host") =>
         {u.host : u \in {t \in tags(body.units) : thirdParty(t)}} \subseteq result.hosts

(* TLS evidence is that of the connection which carried the final          *)
(* response: none after a redirect to plain HTTP, not that of an earlier   *)
(* hop, and still there when only the CNAME lookup failed.  The bounds of  *)
(* the HTTP analyzer leave nothing for the second ceiling to refuse.       *)
TLSOfFinalConnection ==
  dpc = "done" =>
    CASE status = "ErrInvalidObservation" -> conn.tls.text = "spaced"
      [] result.final.scheme = "http" -> observation.tls = NoTLS
      [] OTHER -> /\ observation.tls.host = result.final.host
                  /\ observation.tls.address = conn.tls.address

(* Every request that was sent has its response collected once, in order,  *)
(* within the redirect budget; and the error that the command reports as a *)
(* refused target is only returned when nothing was sent or dialed.        *)
HopsAccounted ==
  /\ Len(sent) <= MaxRedirects + 1
  /\ pc = "done" /\ err = "none" => /\ result.responses = sent
                                    /\ Len(result.redirects) = Len(sent) - 1
                                    /\ result.final = Last(sent)
  /\ err = "ErrInitialTarget" => sent = <<>> /\ tried = {}
=============================================================================
