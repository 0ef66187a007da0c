------------------------------- MODULE UrlBoot -------------------------------
(***************************************************************************)
(* url_boot: one observation of a URL after another.  The route boots,     *)
(* fetches along redirects it follows itself, resolving each hop's name    *)
(* and connecting to the address it admitted, commits an envelope for what *)
(* was observed, and hands a receipt to Evidence.                          *)
(*                                                                         *)
(* The name service may answer differently at any time, and other writers  *)
(* advance the State while the fetch is away.  A location is a host: port, *)
(* scheme, path and query are abstracted, as is what a boundary says of    *)
(* fields, sizes, media types and the time window (observed_at is the      *)
(* caller's, and no clock is read).                                        *)
(***************************************************************************)
EXTENDS CommittedRecords

CONSTANTS
    Hosts,          \* hosts that a request or a redirect may name
    AdmittedHosts,  \* boundary.network_scope
    MaxRedirects,   \* boundary.redirect_policy.max_redirects
    Addresses,
    SafeAddresses,  \* neither loopback, private, link-local nor reserved
    NoUrl

ASSUME AdmittedHostsAssumption == AdmittedHosts \subseteq Hosts
ASSUME MaxRedirectsAssumption == MaxRedirects \in Nat
ASSUME SafeAddressesAssumption == SafeAddresses \subseteq Addresses

VARIABLES
    dns,            \* the address an admitted host resolves to, or none
    fetch,          \* the observation under way
    observed        \* the envelope of the Evidence derived last

urlVars == <<dns, fetch, observed>>

-----------------------------------------------------------------------------
(* Outcomes that end a fetch without an envelope.                          *)

(* URL_OUTCOME_TO_RECEIPT_STATUS. *)
ReceiptStatus(outcome) ==
    CASE outcome = "OBSERVED" -> "VERIFIED"
      [] outcome \in {"DNS_FAILURE", "CONNECTION_FAILURE", "TLS_FAILURE",
                      "TIMEOUT", "MALFORMED"} -> "UNAVAILABLE"
      [] OTHER -> "FAILED"

NoFetch == [pc |-> "idle", boot |-> NoUrl, host |-> NoUrl, hop |-> 0,
            bound |-> {}, reached |-> <<>>, envelope |-> NoUrl,
            status |-> NoUrl]

Fetching(pc) == fetch.pc = pc

(* canonical_source_identity, require_source_within_network_scope. *)
WithinScope(host) == host \in AdmittedHosts

(* _boot_authority_context: the State's fingerprint and its transition are *)
(* read together.                                                          *)
BootPair == Snapshot

(* observe, up to the first hop. *)
ObserveUrl(host) ==
    /\ fetch.pc \in {"idle", "over"} /\ WithinScope(host)
    /\ fetch' = [NoFetch EXCEPT !.pc = "resolve", !.boot = BootPair,
                                !.host = host]
    /\ observed' = NoUrl
    /\ UNCHANGED <<storeVars, dns>>

(* A receipt without envelope. *)
HopResult(outcome) ==
    fetch' = [NoFetch EXCEPT !.pc = "over", !.status = ReceiptStatus(outcome)]

(* require_safe_resolved_address. *)
Safe(address) == address \in SafeAddresses

(* One address for a host in one fetch, the first that was resolved.       *)
SameAsBound(address) ==
    \A b \in fetch.bound : b.host = fetch.host => b.address = address

(* perform_resolution and the checks of its answer. *)
Resolve ==
    LET address == dns[fetch.host] IN
    /\ Fetching("resolve")
    /\ IF address = NoUrl THEN HopResult("DNS_FAILURE")
       ELSE IF ~Safe(address) \/ ~SameAsBound(address)
            THEN HopResult("BOUNDARY_REFUSED")
            ELSE fetch' = [fetch EXCEPT !.pc = "connect",
                             !.bound = @ \cup {[host |-> fetch.host,
                                                address |-> address]}]
    /\ UNCHANGED <<storeVars, dns, observed>>

(* The address the hop was admitted with, not the name, is connected to.   *)
Admitted == (CHOOSE b \in fetch.bound : b.host = fetch.host).address

\* Seeded fault: the name is resolved again for the connection.
ResolvedAgain == dns[fetch.host]
(* connect_and_request_hop. *)
ConnectedTo == Admitted

Reached == Append(fetch.reached, [host |-> fetch.host, address |-> ConnectedTo])

(* perform_admitted_connection: timeout, TLS and connection failures. *)
ConnectFails ==
    /\ Fetching("connect")
    /\ fetch' = [NoFetch EXCEPT !.pc = "over", !.reached = Reached,
                                !.status = ReceiptStatus("TIMEOUT")]
    /\ UNCHANGED <<storeVars, dns, observed>>

\* Seeded fault: one hop more than the policy has.
LastHopBeyond == fetch.hop > MaxRedirects
LastHop == fetch.hop = MaxRedirects

(* _resolve_redirect_target and the checks of where it leads. *)
Redirected(host) ==
    /\ Fetching("connect")
    /\ IF LastHop \/ ~WithinScope(host)
       THEN fetch' = [NoFetch EXCEPT !.pc = "over", !.reached = Reached,
                        !.status = ReceiptStatus("REDIRECT_REFUSED")]
       ELSE fetch' = [fetch EXCEPT !.pc = "resolve", !.host = host,
                                   !.hop = @ + 1, !.reached = Reached]
    /\ UNCHANGED <<storeVars, dns, observed>>

(* _classify_terminal_response: oversized, of another type, malformed or   *)
(* of another identity ...                                                 *)
Unusable ==
    /\ Fetching("connect")
    /\ \E o \in {"OVERSIZED_RESPONSE", "UNSUPPORTED_MEDIA_TYPE", "MALFORMED",
                 "IDENTITY_MISMATCH"} :
          fetch' = [NoFetch EXCEPT !.pc = "over", !.status = ReceiptStatus(o),
                                   !.reached = Reached]
    /\ UNCHANGED <<storeVars, dns, observed>>

\* Seeded fault: the fingerprint is that of the State found afterwards.
UrlEnvelopeLate ==
    [kind |-> "url_source_observation_envelope", effective |-> fetch.host,
     boot |-> [revision |-> fetch.boot.revision, content |-> Snapshot.content],
     hops |-> fetch.hop, resolved |-> fetch.bound]
(* derive_url_source_observation_envelope. *)
UrlEnvelope ==
    [kind |-> "url_source_observation_envelope", boot |-> fetch.boot,
     effective |-> fetch.host, hops |-> fetch.hop, resolved |-> fetch.bound]

(* ... or observed: the envelope is derived and will be committed. *)
Usable ==
    /\ Fetching("connect")
    /\ fetch' = [fetch EXCEPT !.pc = "commit", !.reached = Reached,
                              !.envelope = UrlEnvelope]
    /\ UNCHANGED <<storeVars, dns, observed>>

(* _commit_envelope. *)
CommitUrlEnvelope ==
    /\ Fetching("commit")
    /\ \/ /\ CommitRecords({Record(fetch.envelope, fetch.envelope)})
          /\ fetch' = [fetch EXCEPT !.pc = "over", !.status = "VERIFIED"]
       \/ CommitRaises /\ fetch' = [NoFetch EXCEPT !.pc = "over"]
    /\ UNCHANGED <<dns, observed>>

(* _reresolve_and_verify_boot_context: the transition named led to a State *)
(* of that fingerprint.                                                    *)
BootReal(boot) ==
    /\ boot.revision \in DOMAIN history
    /\ history[boot.revision] = boot.content

(* route_url_observation_to_evidence, some time later: only for a receipt  *)
(* that is verified, of an envelope that is committed.                     *)
HandOffUrl ==
    /\ Fetching("over") /\ fetch.status = "VERIFIED"
    /\ Committed(fetch.envelope)
    /\ BootReal(Body(fetch.envelope).boot)
    /\ observed' = fetch.envelope
    /\ UNCHANGED <<storeVars, dns, fetch>>

DnsChanges(host) ==
    /\ \E a \in (Addresses \cup {NoUrl}) \ {dns[host]} :
          dns' = [dns EXCEPT ![host] = a]
    /\ UNCHANGED <<storeVars, fetch, observed>>

UrlInit ==
    /\ dns \in [AdmittedHosts -> Addresses \cup {NoUrl}]
    /\ fetch = NoFetch
    /\ observed = NoUrl

UrlNext ==
    \/ \E h \in Hosts : ObserveUrl(h) \/ Redirected(h)
    \/ \E h \in AdmittedHosts : DnsChanges(h)
    \/ Resolve \/ ConnectFails \/ Unusable \/ Usable \/ CommitUrlEnvelope
    \/ HandOffUrl

-----------------------------------------------------------------------------

(* Whatever the name service answers from hop to hop, one fetch connects   *)
(* to one address for each host, it is a safe one, and the host is within  *)
(* the boundary, be it reached by the request or by a redirect.            *)
ConnectionsPinned ==
    \A i, j \in DOMAIN fetch.reached :
        LET c == fetch.reached[i]  d == fetch.reached[j] IN
        /\ c.host \in AdmittedHosts /\ c.address \in SafeAddresses
        /\ c.host = d.host => c.address = d.address

(* A chain of redirects, in a circle or not, is followed for no more hops  *)
(* than the boundary has.                                                  *)
HopsBounded == Len(fetch.reached) <= MaxRedirects + 1

(* What is committed as observed says truly where it was observed: on a    *)
(* State that the Store really had, and at the addresses that were in fact *)
(* connected to.                                                           *)
ObservedProvenance ==
    /\ \A r \in records :
          r.key.kind = "url_source_observation_envelope" => BootReal(r.key.boot)
    /\ \A e \in {fetch.envelope, observed} \ {NoUrl} :
          /\ e.resolved = {fetch.reached[i] : i \in DOMAIN fetch.reached}
          /\ e = observed => Committed(e)

(* What a fetch promises: it stays within its boundary, and what it        *)
(* commits says truly where it was.                                        *)
FetchSound == ConnectionsPinned /\ HopsBounded /\ ObservedProvenance
=============================================================================
