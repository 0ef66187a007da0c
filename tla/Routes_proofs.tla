---------------------------- MODULE Routes_proofs ----------------------------
(***************************************************************************)
(* Proofs about the routes outside of the State Store's own: the three     *)
(* that leave the process between their checks and their commits (UrlBoot, *)
(* IndependentVerification and ProjectionRoute), the notices of a work     *)
(* unit, the benchmark and the Observation engine, for any hosts,          *)
(* addresses, grants, declarations, callers, policies, runs, keys,         *)
(* requests and bounds.                                                    *)
(*                                                                         *)
(* Each of the three runs here beside every other writer of the project:   *)
(* its specification adds to the route's own steps a State of any content, *)
(* and the commit of any set of records that are not of the route's own    *)
(* kinds.  Committed records stay committed and a past State stays what it *)
(* was (CommitGrows, TransitionGrows): what a route found before it left   *)
(* is there when it comes back.                                            *)
(***************************************************************************)
EXTENDS UrlBoot, IndependentVerification, ProjectionRoute, WorkTimeCoordination,
        ObservationEngine, BenchmarkRoute, FiniteSetTheorems, SequenceTheorems, TLAPS

(* What every route relies on of the Store. *)
HistoryOK == history \in Seq(Contents) /\ history # <<>>

(* A commit adds records, and one State with the content of the last.      *)
LEMMA CommitGrows ==
  ASSUME HistoryOK, NEW new, CommitRecords(new)
  PROVE  /\ HistoryOK'
         /\ new \subseteq records' /\ \A r \in records' : r \in records \/ r \in new
         /\ \A key : Committed(key) => Committed(key)'
         /\ \A i \in DOMAIN history : i \in DOMAIN history' /\ history'[i] = history[i]
<1>1. /\ Len(history) \in Nat \ {0} /\ history[Len(history)] \in Contents
      /\ history' = Append(history, history[Len(history)])
  BY DEF HistoryOK, CommitRecords, Revision
<1>2. HistoryOK'
  BY <1>1 DEF HistoryOK
<1>3. \A i \in DOMAIN history : i \in DOMAIN history' /\ history'[i] = history[i]
  BY <1>1 DEF HistoryOK
<1>4. records' = {r \in records : \A n \in new : r.key # n.key} \cup new
  BY DEF CommitRecords
<1>5. ASSUME NEW key, Committed(key) PROVE Committed(key)'
  <2>1. PICK r \in records : r.key = key
    BY <1>5 DEF Committed
  <2>2. CASE \E n \in new : r.key = n.key
    BY <1>4, <2>1, <2>2, Zenon DEF Committed
  <2>3. CASE \A n \in new : r.key # n.key
    BY <1>4, <2>1, <2>3, Zenon DEF Committed
  <2> QED
    BY <2>2, <2>3
<1> QED
  BY <1>2, <1>3, <1>4, <1>5

(* Another writer's State is added behind the others. *)
LEMMA TransitionGrows ==
  ASSUME HistoryOK, NEW c \in Contents, Transition(c)
  PROVE  /\ HistoryOK' /\ records' = records
         /\ \A i \in DOMAIN history : i \in DOMAIN history' /\ history'[i] = history[i]
BY DEF HistoryOK, Transition

(* The first State. *)
LEMMA HistoryInit == StoreInit => HistoryOK
BY DEF StoreInit, HistoryOK

-----------------------------------------------------------------------------
(* URL Boot. *)

Connection == [host : AdmittedHosts, address : SafeAddresses]
StatePair == [revision : Nat, content : Contents]
UrlEnvelopeType ==
    [kind : {"url_source_observation_envelope"}, boot : StatePair,
     effective : AdmittedHosts, hops : Nat, resolved : SUBSET Connection]

FetchType ==
    [pc : {"idle", "resolve", "connect", "commit", "over"},
     boot : StatePair \cup {NoUrl}, host : AdmittedHosts \cup {NoUrl}, hop : Nat,
     bound : SUBSET Connection, reached : Seq(Connection),
     envelope : UrlEnvelopeType \cup {NoUrl},
     status : {"VERIFIED", "UNAVAILABLE", "FAILED", NoUrl}]

(* The connections of the fetch under way. *)
Connections == {fetch.reached[i] : i \in DOMAIN fetch.reached}

(* A hop connects to the address its host was bound to first. *)
BoundOK ==
    /\ \A b, c \in fetch.bound : b.host = c.host => b = c
    /\ fetch.pc = "resolve" => fetch.bound = Connections
    /\ fetch.pc = "connect" =>
          /\ \E b \in fetch.bound : b.host = fetch.host
          /\ fetch.bound = Connections \cup {b \in fetch.bound : b.host = fetch.host}

(* Every connection took one hop. *)
HopOK ==
    /\ fetch.pc \in {"resolve", "connect"} =>
          /\ fetch.host \in AdmittedHosts
          /\ fetch.boot \in StatePair /\ BootReal(fetch.boot)
          /\ fetch.hop <= MaxRedirects /\ Len(fetch.reached) = fetch.hop

(* An envelope is of the fetch that derived it. *)
EnvelopeTrue ==
    /\ fetch.envelope \in UrlEnvelopeType
    /\ BootReal(fetch.envelope.boot) /\ fetch.envelope.resolved = Connections

EnvelopeOK ==
    /\ fetch.pc = "commit" => EnvelopeTrue
    /\ fetch.envelope # NoUrl => fetch.pc \in {"commit", "over"} /\ EnvelopeTrue
    /\ observed # NoUrl =>
          fetch.pc = "over" /\ observed = fetch.envelope /\ Committed(observed)

UrlRecordsOK ==
    \A r \in records :
        r.key.kind = "url_source_observation_envelope" => BootReal(r.key.boot)

UrlInv ==
    /\ HistoryOK /\ dns \in [AdmittedHosts -> Addresses \cup {NoUrl}]
    /\ fetch \in FetchType
    /\ BoundOK /\ HopOK /\ EnvelopeOK /\ UrlRecordsOK
    /\ ConnectionsPinned /\ HopsBounded

(* The other writers of the project: Reflow's transitions, and the commits *)
(* of every other route.                                                   *)
UrlOthers ==
    /\ \/ \E c \in Contents : Transition(c)
       \/ \E new :
             /\ \A n \in new : n.key.kind # "url_source_observation_envelope"
             /\ CommitRecords(new)
    /\ UNCHANGED urlVars

UrlSpec ==
    StoreInit /\ UrlInit /\ [][UrlNext \/ UrlOthers]_<<storeVars, urlVars>>

(* FetchSound is what the invariant says. *)
LEMMA UrlInvSound == UrlInv => FetchSound
<1> SUFFICES ASSUME UrlInv PROVE FetchSound
  OBVIOUS
<1>1. ASSUME NEW e \in {fetch.envelope, observed} \ {NoUrl}
      PROVE  e.resolved = Connections /\ (e = observed => Committed(e))
  <2>1. e = fetch.envelope
    BY <1>1 DEF UrlInv, EnvelopeOK
  <2> QED
    BY <1>1, <2>1 DEF UrlInv, EnvelopeOK, EnvelopeTrue
<1> QED
  BY <1>1 DEF UrlInv, FetchSound, ObservedProvenance, UrlRecordsOK, Connections

(* No fetch is under way in the first State. *)
LEMMA UrlInvInit == StoreInit /\ UrlInit => UrlInv
<1> SUFFICES ASSUME StoreInit, UrlInit PROVE UrlInv
  OBVIOUS
<1>1. HistoryOK /\ records = {}
  BY HistoryInit DEF StoreInit
<1>2. fetch = NoFetch /\ observed = NoUrl
  BY DEF UrlInit
<1>3. fetch \in FetchType
  BY <1>2 DEF NoFetch, FetchType
<1>4. BoundOK /\ HopOK /\ ConnectionsPinned /\ HopsBounded
  BY <1>2, MaxRedirectsAssumption DEF NoFetch, BoundOK, HopOK, ConnectionsPinned, HopsBounded
<1>5. EnvelopeOK
  BY <1>2 DEF EnvelopeOK, NoFetch
<1> QED
  BY <1>1, <1>3, <1>4, <1>5 DEF UrlInit, UrlInv, UrlRecordsOK

(* A step that leaves the fetch alone and loses nothing of the Store keeps *)
(* what the fetch says.                                                    *)
LEMMA UrlStoreKeeps ==
  ASSUME UrlInv, HistoryOK', UNCHANGED urlVars,
         \A i \in DOMAIN history : i \in DOMAIN history' /\ history'[i] = history[i],
         \A key : Committed(key) => Committed(key)',
         UrlRecordsOK'
  PROVE  UrlInv'
<1>1. \A boot : BootReal(boot) => BootReal(boot)'
  BY DEF BootReal
<1>2. Connections' = Connections
  BY DEF Connections, urlVars
<1>3. BoundOK' /\ HopOK' /\ ConnectionsPinned' /\ HopsBounded'
  BY <1>1, <1>2 DEF UrlInv, urlVars, BoundOK, HopOK, ConnectionsPinned, HopsBounded
<1>4. EnvelopeOK'
  BY <1>1, <1>2 DEF UrlInv, urlVars, EnvelopeOK, EnvelopeTrue
<1> QED
  BY <1>3, <1>4 DEF UrlInv, urlVars

(* Whatever Reflow and the other routes commit while the fetch is away. *)
LEMMA UrlOthersKeep == UrlInv /\ UrlOthers => UrlInv'
<1> SUFFICES ASSUME UrlInv, UrlOthers PROVE UrlInv'
  OBVIOUS
<1>1. CASE \E c \in Contents : Transition(c)
  <2>1. /\ HistoryOK' /\ records' = records
        /\ \A i \in DOMAIN history : i \in DOMAIN history' /\ history'[i] = history[i]
    BY <1>1, TransitionGrows DEF UrlInv
  <2>2. UrlRecordsOK'
    BY <2>1 DEF UrlInv, UrlRecordsOK, BootReal
  <2>3. \A key : Committed(key) => Committed(key)'
    BY <2>1 DEF Committed
  <2> QED
    BY <2>1, <2>2, <2>3, UrlStoreKeeps DEF UrlOthers
<1>2. ASSUME NEW new, CommitRecords(new),
             \A n \in new : n.key.kind # "url_source_observation_envelope"
      PROVE  UrlInv'
  <2>1. /\ HistoryOK' /\ \A r \in records' : r \in records \/ r \in new
        /\ \A key : Committed(key) => Committed(key)'
        /\ \A i \in DOMAIN history : i \in DOMAIN history' /\ history'[i] = history[i]
    BY <1>2, CommitGrows DEF UrlInv
  <2>2. UrlRecordsOK'
    BY <1>2, <2>1 DEF UrlInv, UrlRecordsOK, BootReal
  <2> QED
    BY <2>1, <2>2, UrlStoreKeeps DEF UrlOthers
<1> QED
  BY <1>1, <1>2 DEF UrlOthers

(* The connection of a hop is to the address admitted for its host, so     *)
(* that what was reached is what was bound.                                *)
LEMMA ReachedBound ==
  ASSUME UrlInv, Fetching("connect")
  PROVE  /\ Reached \in Seq(Connection) /\ Len(Reached) = fetch.hop + 1
         /\ {Reached[i] : i \in DOMAIN Reached} = fetch.bound
         /\ \A i, j \in DOMAIN Reached :
               /\ Reached[i].host \in AdmittedHosts /\ Reached[i].address \in SafeAddresses
               /\ Reached[i].host = Reached[j].host => Reached[i] = Reached[j]
<1>1. /\ fetch \in FetchType /\ BoundOK /\ HopOK /\ fetch.pc = "connect"
      /\ fetch.bound \subseteq Connection /\ fetch.reached \in Seq(Connection)
  BY DEF UrlInv, Fetching, FetchType
<1>2. PICK b \in fetch.bound : b.host = fetch.host
  BY <1>1 DEF BoundOK
<1>3. (CHOOSE c \in fetch.bound : c.host = fetch.host) = b
  BY <1>1, <1>2 DEF BoundOK
<1>4. [host |-> fetch.host, address |-> ConnectedTo] = b
  <2>1. ConnectedTo = b.address
    BY <1>3, Zenon DEF ConnectedTo, Admitted
  <2> QED
    BY <1>1, <1>2, <2>1 DEF Connection
<1>5. Reached = Append(fetch.reached, b)
  BY <1>4, Zenon DEF Reached
<1>6. PICK s \in Seq(Connection) : s = fetch.reached
  BY <1>1
<1>7. /\ Append(s, b) \in Seq(Connection) /\ Len(Append(s, b)) = Len(s) + 1
      /\ \A i \in DOMAIN s : i \in DOMAIN Append(s, b) /\ Append(s, b)[i] = s[i]
      /\ Len(s) + 1 \in DOMAIN Append(s, b) /\ Append(s, b)[Len(s) + 1] = b
      /\ \A i \in DOMAIN Append(s, b) : i \in DOMAIN s \/ i = Len(s) + 1
  BY <1>1, <1>2
<1>8. {Append(s, b)[i] : i \in DOMAIN Append(s, b)} = {s[i] : i \in DOMAIN s} \cup {b}
  BY <1>7
<1>9. {c \in fetch.bound : c.host = fetch.host} = {b}
  BY <1>1, <1>2 DEF BoundOK
<1>10. fetch.bound = {s[i] : i \in DOMAIN s} \cup {b}
  BY <1>1, <1>6, <1>9 DEF BoundOK, Connections
<1>11. {Reached[i] : i \in DOMAIN Reached} = fetch.bound
  BY <1>5, <1>6, <1>8, <1>10
<1>12. \A i \in DOMAIN Reached : Reached[i] \in fetch.bound
  BY <1>11
<1>13. Reached \in Seq(Connection) /\ Len(Reached) = fetch.hop + 1
  BY <1>1, <1>5, <1>6, <1>7 DEF HopOK
<1>14. \A c, d \in fetch.bound : c.host = d.host => c = d
  BY <1>1 DEF BoundOK
<1>15. \A c \in fetch.bound : c.host \in AdmittedHosts /\ c.address \in SafeAddresses
  BY <1>1 DEF Connection
<1> HIDE DEF Reached
<1> QED
  BY <1>11, <1>12, <1>13, <1>14, <1>15

(* The fetch before it begins. *)
LEMMA NoFetchTyped ==
  /\ NoFetch \in FetchType /\ NoFetch.reached = <<>> /\ NoFetch.envelope = NoUrl
  /\ NoFetch.bound = {} /\ NoFetch.hop = 0
BY DEF NoFetch, FetchType

(* A fetch that ends without an envelope. *)
LEMMA FetchEnds ==
  ASSUME UrlInv, UNCHANGED <<storeVars, dns>>, observed' = observed \/ observed' = NoUrl,
         observed = NoUrl,
         NEW reached \in Seq(Connection), Len(reached) <= MaxRedirects + 1,
         \A i, j \in DOMAIN reached : reached[i].host = reached[j].host => reached[i] = reached[j],
         fetch' \in FetchType, fetch'.pc = "over", fetch'.reached = reached,
         fetch'.envelope = NoUrl, fetch'.bound = {}
  PROVE  UrlInv'
<1>1. /\ fetch'.pc = "over" /\ fetch'.reached = reached /\ fetch'.envelope = NoUrl
      /\ fetch'.bound = {} /\ fetch' \in FetchType
  OBVIOUS
<1>2. \A i \in DOMAIN reached : reached[i] \in Connection
  OBVIOUS
<1>3. BoundOK' /\ HopOK' /\ ConnectionsPinned' /\ HopsBounded'
  BY <1>1, <1>2 DEF BoundOK, HopOK, ConnectionsPinned, HopsBounded, Connection
<1>4. EnvelopeOK'
  BY <1>1 DEF EnvelopeOK
<1>5. HistoryOK' /\ UrlRecordsOK'
  BY DEF UrlInv, HistoryOK, UrlRecordsOK, BootReal, storeVars
<1> QED
  BY <1>1, <1>3, <1>4, <1>5 DEF UrlInv

(* The classification of an outcome. *)
LEMMA StatusType ==
  ASSUME NEW outcome
  PROVE  ReceiptStatus(outcome) \in {"VERIFIED", "UNAVAILABLE", "FAILED", NoUrl}
BY DEF ReceiptStatus

(* The receipt of a fetch that ends before it connected. *)
LEMMA EndsUnconnected ==
  ASSUME UrlInv, UNCHANGED <<storeVars, dns, observed>>, observed = NoUrl,
         fetch' \in FetchType, fetch'.pc = "over", fetch'.reached = <<>>,
         fetch'.envelope = NoUrl, fetch'.bound = {}
  PROVE  UrlInv'
<1>1. PICK reached : reached = <<>> /\ reached \in Seq(Connection)
  <2>1. <<>> \in Seq(Connection)
    OBVIOUS
  <2> QED
    BY <2>1
<1>2. /\ Len(reached) <= MaxRedirects + 1
      /\ \A i, j \in DOMAIN reached : reached[i].host = reached[j].host => reached[i] = reached[j]
  BY <1>1, MaxRedirectsAssumption
<1> QED
  BY <1>1, <1>2, FetchEnds

(* Outside of "over" nothing is observed yet. *)
LEMMA NothingObserved == UrlInv /\ fetch.pc # "over" => observed = NoUrl
BY DEF UrlInv, EnvelopeOK

(* A hop that was answered, with a redirect, a result or a failure. *)
LEMMA ConnectKeeps ==
  ASSUME UrlInv, ConnectFails \/ Unusable \/ Usable \/ \E h \in Hosts : Redirected(h)
  PROVE  UrlInv'
<1>1. /\ Fetching("connect") /\ UNCHANGED <<storeVars, dns, observed>> /\ observed = NoUrl
      /\ fetch \in FetchType /\ fetch.pc = "connect"
  BY NothingObserved DEF ConnectFails, Unusable, Usable, Redirected, Fetching, UrlInv
<1>2. PICK reached : reached = Reached
  OBVIOUS
<1>3. /\ reached \in Seq(Connection) /\ Len(reached) = fetch.hop + 1
      /\ {reached[i] : i \in DOMAIN reached} = fetch.bound
      /\ \A i, j \in DOMAIN reached :
            /\ reached[i].host \in AdmittedHosts /\ reached[i].address \in SafeAddresses
            /\ reached[i].host = reached[j].host => reached[i] = reached[j]
  BY <1>1, <1>2, ReachedBound, Zenon
<1>4. fetch.hop \in Nat /\ fetch.hop <= MaxRedirects /\ Len(reached) <= MaxRedirects + 1
  BY <1>1, <1>3, MaxRedirectsAssumption DEF UrlInv, HopOK, FetchType
<1>5. ASSUME NEW outcome,
             fetch' = [NoFetch EXCEPT !.pc = "over", !.reached = reached,
                                      !.status = ReceiptStatus(outcome)]
      PROVE  UrlInv'
  <2>1. PICK s \in {"VERIFIED", "UNAVAILABLE", "FAILED", NoUrl} : s = ReceiptStatus(outcome)
    BY StatusType
  <2>2. fetch' = [NoFetch EXCEPT !.pc = "over", !.reached = reached, !.status = s]
    BY <1>5, <2>1
  <2>3. /\ fetch' \in FetchType /\ fetch'.pc = "over" /\ fetch'.reached = reached
        /\ fetch'.envelope = NoUrl /\ fetch'.bound = {}
    BY <1>3, <2>2 DEF NoFetch, FetchType
  <2> QED
    BY <1>1, <1>3, <1>4, <2>3, FetchEnds
<1>6. CASE ConnectFails
  BY <1>2, <1>5, <1>6 DEF ConnectFails
<1>7. CASE Unusable
  <2>1. PICK o : fetch' = [NoFetch EXCEPT !.pc = "over", !.status = ReceiptStatus(o),
                                          !.reached = Reached]
    BY <1>7 DEF Unusable
  <2>2. fetch' = [NoFetch EXCEPT !.pc = "over", !.reached = reached,
                                 !.status = ReceiptStatus(o)]
    BY <1>2, <2>1 DEF NoFetch
  <2> QED
    BY <1>5, <2>2
<1>8. HistoryOK' /\ UrlRecordsOK' /\ \A boot : BootReal(boot) => BootReal(boot)'
  BY <1>1 DEF UrlInv, HistoryOK, UrlRecordsOK, BootReal, storeVars
<1>9. CASE Usable
  <2>1. fetch' = [fetch EXCEPT !.pc = "commit", !.reached = reached, !.envelope = UrlEnvelope]
    BY <1>2, <1>9 DEF Usable
  <2>2. UrlEnvelope \in UrlEnvelopeType
        /\ UrlEnvelope.boot = fetch.boot /\ UrlEnvelope.resolved = fetch.bound
    <3>1. fetch.boot \in StatePair
      BY <1>1 DEF UrlInv, HopOK
    <3>2. fetch.host \in AdmittedHosts /\ fetch.bound \in SUBSET Connection
      BY <1>1 DEF UrlInv, HopOK, FetchType
    <3> QED
      BY <1>4, <3>1, <3>2 DEF UrlEnvelope, UrlEnvelopeType
  <2>3. /\ fetch'.pc = "commit" /\ fetch'.reached = reached /\ fetch'.bound = fetch.bound
        /\ fetch'.envelope = UrlEnvelope /\ fetch' \in FetchType
    BY <1>1, <1>3, <2>1, <2>2 DEF FetchType
  <2>4. BootReal(fetch.boot)
    BY <1>1 DEF UrlInv, HopOK
  <2>5. Connections' = fetch.bound
    BY <1>3, <2>3, Zenon DEF Connections
  <2>6. EnvelopeOK'
    BY <1>1, <1>8, <2>2, <2>3, <2>4, <2>5 DEF EnvelopeOK, EnvelopeTrue, BootReal, storeVars
  <2>7. BoundOK' /\ HopOK' /\ ConnectionsPinned' /\ HopsBounded'
    BY <1>3, <1>4, <2>3 DEF UrlInv, BoundOK, HopOK, ConnectionsPinned, HopsBounded
  <2> QED
    BY <1>1, <1>8, <2>3, <2>6, <2>7 DEF UrlInv
<1>10. ASSUME NEW h \in Hosts, Redirected(h) PROVE UrlInv'
  <2>1. CASE LastHop \/ ~WithinScope(h)
    BY <1>2, <1>5, <1>10, <2>1 DEF Redirected
  <2>2. CASE ~LastHop /\ WithinScope(h)
    <3>1. fetch' = [fetch EXCEPT !.pc = "resolve", !.host = h, !.hop = fetch.hop + 1,
                                 !.reached = reached]
      BY <1>2, <1>10, <2>2 DEF Redirected
    <3>2. /\ fetch'.pc = "resolve" /\ fetch'.reached = reached /\ fetch'.bound = fetch.bound
          /\ fetch'.envelope = fetch.envelope /\ fetch'.boot = fetch.boot
          /\ fetch'.host = h /\ fetch'.hop = fetch.hop + 1
      BY <1>1, <3>1 DEF FetchType
    <3>3. h \in AdmittedHosts /\ fetch.envelope = NoUrl
      BY <1>1, <2>2 DEF WithinScope, UrlInv, EnvelopeOK
    <3>4. fetch' \in FetchType
      <4>1. PICK n \in Nat : n = fetch.hop + 1
        BY <1>4
      <4>2. fetch' = [fetch EXCEPT !.pc = "resolve", !.host = h, !.hop = n,
                                   !.reached = reached]
        BY <3>1, <4>1
      <4> QED
        BY <1>1, <1>3, <3>3, <4>2 DEF FetchType
    <3>5. fetch.hop + 1 <= MaxRedirects
      BY <1>4, <2>2, MaxRedirectsAssumption DEF LastHop
    <3>6. Connections' = fetch.bound
      BY <1>3, <3>2, Zenon DEF Connections
    <3>7. BoundOK' /\ EnvelopeOK'
      BY <1>1, <3>2, <3>3, <3>6 DEF UrlInv, BoundOK, EnvelopeOK
    <3>8. HopOK' /\ ConnectionsPinned' /\ HopsBounded'
      BY <1>1, <1>3, <1>4, <1>8, <3>2, <3>3, <3>5
         DEF UrlInv, HopOK, ConnectionsPinned, HopsBounded, BootReal, storeVars
    <3> QED
      BY <1>1, <1>8, <3>4, <3>7, <3>8 DEF UrlInv
  <2> QED
    BY <2>1, <2>2
<1> QED
  BY <1>6, <1>7, <1>9, <1>10

(* The first hop to a host binds its address, a later one is held to it.   *)
LEMMA ResolveKeeps == UrlInv /\ Resolve => UrlInv'
<1> SUFFICES ASSUME UrlInv, Resolve PROVE UrlInv'
  OBVIOUS
<1>1. /\ fetch.pc = "resolve" /\ UNCHANGED <<storeVars, dns, observed>> /\ observed = NoUrl
      /\ fetch \in FetchType /\ BoundOK /\ HopOK
  BY NothingObserved DEF Resolve, Fetching, UrlInv
<1>2. /\ fetch.host \in AdmittedHosts /\ fetch.bound = Connections
      /\ fetch.bound \subseteq Connection
  BY <1>1 DEF BoundOK, HopOK, FetchType
<1>3. ASSUME NEW outcome, HopResult(outcome) PROVE UrlInv'
  <2>1. PICK s \in {"VERIFIED", "UNAVAILABLE", "FAILED", NoUrl} : s = ReceiptStatus(outcome)
    BY StatusType
  <2>2. fetch' = [NoFetch EXCEPT !.pc = "over", !.status = s]
    BY <1>3, <2>1 DEF HopResult
  <2>3. /\ fetch' \in FetchType /\ fetch'.pc = "over" /\ fetch'.reached = <<>>
        /\ fetch'.envelope = NoUrl /\ fetch'.bound = {}
    BY <2>2, NoFetchTyped DEF FetchType
  <2> QED
    BY <1>1, <2>3, EndsUnconnected
<1>4. ASSUME Safe(dns[fetch.host]), SameAsBound(dns[fetch.host]),
             fetch' = [fetch EXCEPT !.pc = "connect",
                         !.bound = @ \cup {[host |-> fetch.host,
                                            address |-> dns[fetch.host]]}]
      PROVE  UrlInv'
  <2>1. PICK b : b = [host |-> fetch.host, address |-> dns[fetch.host]]
    OBVIOUS
  <2>2. b \in Connection /\ \A c \in fetch.bound : c.host = b.host => c = b
    BY <1>2, <1>4, <2>1 DEF Safe, SameAsBound, Connection
  <2>3. fetch' = [fetch EXCEPT !.pc = "connect", !.bound = fetch.bound \cup {b}]
    BY <1>4, <2>1
  <2>4. /\ fetch'.pc = "connect" /\ fetch'.bound = fetch.bound \cup {b}
        /\ fetch'.reached = fetch.reached /\ fetch'.envelope = fetch.envelope
        /\ fetch'.host = fetch.host /\ fetch'.hop = fetch.hop /\ fetch'.boot = fetch.boot
        /\ fetch' \in FetchType
    BY <1>1, <1>2, <2>2, <2>3 DEF FetchType
  <2>5. Connections' = fetch.bound
    BY <1>2, <2>4 DEF Connections
  <2>6. b.host = fetch.host
    BY <2>1
  <2>7. BoundOK'
    BY <1>1, <2>2, <2>4, <2>5, <2>6 DEF BoundOK
  <2>8. HopOK' /\ ConnectionsPinned' /\ HopsBounded' /\ HistoryOK' /\ UrlRecordsOK'
    BY <1>1, <2>4 DEF UrlInv, HopOK, ConnectionsPinned, HopsBounded, BootReal, storeVars,
                      HistoryOK, UrlRecordsOK
  <2>9. EnvelopeOK'
    BY <1>1, <2>4 DEF UrlInv, EnvelopeOK
  <2> QED
    BY <1>1, <2>4, <2>7, <2>8, <2>9 DEF UrlInv
<1>5. \/ \E outcome : HopResult(outcome)
      \/ /\ Safe(dns[fetch.host]) /\ SameAsBound(dns[fetch.host])
         /\ fetch' = [fetch EXCEPT !.pc = "connect",
                         !.bound = @ \cup {[host |-> fetch.host,
                                            address |-> dns[fetch.host]]}]
  BY Zenon DEF Resolve
<1> QED
  BY <1>3, <1>4, <1>5

(* The envelope that is committed is the one the fetch derived. *)
LEMMA CommitUrlKeeps == UrlInv /\ CommitUrlEnvelope => UrlInv'
<1> SUFFICES ASSUME UrlInv, CommitUrlEnvelope PROVE UrlInv'
  OBVIOUS
<1>1. /\ fetch.pc = "commit" /\ UNCHANGED <<dns, observed>> /\ observed = NoUrl
      /\ EnvelopeTrue /\ fetch \in FetchType
  BY NothingObserved DEF CommitUrlEnvelope, Fetching, UrlInv, EnvelopeOK
<1>2. CASE CommitRaises /\ fetch' = [NoFetch EXCEPT !.pc = "over"]
  <2>1. /\ fetch' \in FetchType /\ fetch'.pc = "over" /\ fetch'.reached = <<>>
        /\ fetch'.envelope = NoUrl /\ fetch'.bound = {}
    BY <1>2, NoFetchTyped DEF FetchType
  <2> QED
    BY <1>1, <1>2, <2>1, EndsUnconnected DEF CommitRaises
<1>3. CASE /\ CommitRecords({Record(fetch.envelope, fetch.envelope)})
           /\ fetch' = [fetch EXCEPT !.pc = "over", !.status = "VERIFIED"]
  <2>1. /\ HistoryOK'
        /\ \A r \in records' : r \in records \/ r = Record(fetch.envelope, fetch.envelope)
        /\ \A i \in DOMAIN history : i \in DOMAIN history' /\ history'[i] = history[i]
    BY <1>3, CommitGrows DEF UrlInv
  <2>2. \A boot : BootReal(boot) => BootReal(boot)'
    BY <2>1 DEF BootReal
  <2>3. UrlRecordsOK'
    <3>1. ASSUME NEW r \in records', r.key.kind = "url_source_observation_envelope"
          PROVE  BootReal(r.key.boot)
      <4>1. CASE r \in records
        BY <3>1, <4>1 DEF UrlInv, UrlRecordsOK
      <4>2. CASE r = Record(fetch.envelope, fetch.envelope)
        BY <1>1, <4>2 DEF Record, EnvelopeTrue
      <4> QED
        BY <2>1, <4>1, <4>2
    <3> QED
      BY <2>2, <3>1 DEF UrlRecordsOK, BootReal
  <2>4. /\ fetch'.pc = "over" /\ fetch'.reached = fetch.reached /\ fetch'.bound = fetch.bound
        /\ fetch'.envelope = fetch.envelope /\ fetch' \in FetchType
    BY <1>1, <1>3 DEF FetchType
  <2>5. Connections' = Connections
    BY <2>4 DEF Connections
  <2>6. EnvelopeOK'
    BY <1>1, <2>2, <2>4, <2>5 DEF EnvelopeOK, EnvelopeTrue
  <2>7. BoundOK' /\ HopOK' /\ ConnectionsPinned' /\ HopsBounded'
    BY <2>4 DEF UrlInv, BoundOK, HopOK, ConnectionsPinned, HopsBounded
  <2> QED
    BY <1>1, <2>1, <2>3, <2>4, <2>6, <2>7 DEF UrlInv
<1> QED
  BY <1>2, <1>3 DEF CommitUrlEnvelope

(* A fetch starts from the State there is, and one that is over is handed  *)
(* off as it is; the name service may answer differently at any time.      *)
LEMMA ObserveKeeps ==
  ASSUME UrlInv,
         (\E h \in Hosts : ObserveUrl(h)) \/ HandOffUrl \/ \E h \in AdmittedHosts : DnsChanges(h)
  PROVE  UrlInv'
<1>1. UNCHANGED storeVars
  BY DEF ObserveUrl, HandOffUrl, DnsChanges
<1>2. HistoryOK' /\ UrlRecordsOK'
  BY <1>1 DEF UrlInv, HistoryOK, UrlRecordsOK, BootReal, storeVars
<1>3. ASSUME NEW h \in Hosts, ObserveUrl(h) PROVE UrlInv'
  <2>1. BootPair \in StatePair /\ BootReal(BootPair)
    BY DEF BootPair, Snapshot, BootReal, Revision, UrlInv, HistoryOK, StatePair
  <2>2. PICK boot \in StatePair : boot = BootPair /\ BootReal(boot)
    BY <2>1
  <2>3. fetch' = [NoFetch EXCEPT !.pc = "resolve", !.boot = boot, !.host = h]
    BY <1>3, <2>2, Zenon DEF ObserveUrl
  <2>4. h \in AdmittedHosts /\ UNCHANGED dns /\ observed' = NoUrl
    BY <1>3 DEF ObserveUrl, WithinScope
  <2>5. /\ fetch'.pc = "resolve" /\ fetch'.boot = boot /\ fetch'.host = h /\ fetch'.hop = 0
        /\ fetch'.bound = {} /\ fetch'.reached = <<>> /\ fetch'.envelope = NoUrl
    BY <2>3 DEF NoFetch
  <2>10. fetch' \in FetchType
    BY <2>3, <2>4, NoFetchTyped DEF FetchType
  <2>6. Connections' = {}
    BY <2>5 DEF Connections
  <2>7. BoundOK' /\ ConnectionsPinned' /\ HopsBounded' /\ EnvelopeOK'
    BY <2>4, <2>5, <2>6, MaxRedirectsAssumption
       DEF BoundOK, ConnectionsPinned, HopsBounded, EnvelopeOK
  <2>8. BootReal(boot)'
    BY <1>1, <2>2 DEF BootReal, storeVars
  <2>9. HopOK'
    BY <2>4, <2>5, <2>8, MaxRedirectsAssumption DEF HopOK
  <2> QED
    BY <1>2, <2>4, <2>5, <2>7, <2>9, <2>10 DEF UrlInv
<1>4. CASE UNCHANGED fetch
  <2>1. Connections' = Connections /\ \A boot : BootReal(boot) => BootReal(boot)'
    BY <1>1, <1>4 DEF Connections, BootReal, storeVars
  <2>2. BoundOK' /\ HopOK' /\ ConnectionsPinned' /\ HopsBounded'
    BY <1>4, <2>1 DEF UrlInv, BoundOK, HopOK, ConnectionsPinned, HopsBounded
  <2>3. CASE HandOffUrl
    <3>1. observed' = fetch.envelope /\ fetch.pc = "over" /\ Committed(fetch.envelope)
      BY <2>3 DEF HandOffUrl, Fetching
    <3>2. Committed(observed)'
      BY <1>1, <3>1 DEF Committed, storeVars
    <3>3. EnvelopeOK'
      BY <1>4, <2>1, <3>1, <3>2 DEF UrlInv, EnvelopeOK, EnvelopeTrue
    <3> QED
      BY <1>2, <1>4, <2>2, <2>3, <3>3 DEF UrlInv, HandOffUrl
  <2>4. ASSUME NEW h \in AdmittedHosts, DnsChanges(h) PROVE UrlInv'
    <3>1. dns' \in [AdmittedHosts -> Addresses \cup {NoUrl}] /\ UNCHANGED observed
      BY <2>4 DEF DnsChanges, UrlInv
    <3>2. EnvelopeOK'
      BY <1>1, <1>4, <2>1, <3>1 DEF UrlInv, EnvelopeOK, EnvelopeTrue, Committed, storeVars
    <3> QED
      BY <1>2, <1>4, <2>2, <3>1, <3>2 DEF UrlInv
  <2>5. \/ HandOffUrl
        \/ \E h \in AdmittedHosts : DnsChanges(h)
        \/ \E h \in Hosts : ObserveUrl(h)
    OBVIOUS
  <2> QED
    BY <1>3, <2>3, <2>4, <2>5
<1> QED
  BY <1>3, <1>4 DEF HandOffUrl, DnsChanges

(* Every step of the fetch, of the name service and of the others. *)
LEMMA UrlInvNext ==
  UrlInv /\ [UrlNext \/ UrlOthers]_<<storeVars, urlVars>> => UrlInv'
<1> SUFFICES ASSUME UrlInv, [UrlNext \/ UrlOthers]_<<storeVars, urlVars>> PROVE UrlInv'
  OBVIOUS
<1>1. CASE UrlOthers
  BY <1>1, UrlOthersKeep
<1>2. CASE UrlNext
  BY <1>2, ConnectKeeps, ResolveKeeps, CommitUrlKeeps, ObserveKeeps DEF UrlNext
<1>3. CASE UNCHANGED <<storeVars, urlVars>>
  <2>1. UNCHANGED urlVars /\ HistoryOK' /\ UrlRecordsOK' /\ history' = history
        /\ \A key : Committed(key) => Committed(key)'
    BY <1>3 DEF UrlInv, storeVars, HistoryOK, UrlRecordsOK, BootReal, Committed
  <2> QED
    BY <2>1, UrlStoreKeeps
<1> QED
  BY <1>1, <1>2, <1>3

(* Whatever the name service answers from hop to hop, wherever the         *)
(* redirects lead and whatever other routes commit meanwhile: a fetch      *)
(* stays within its boundary, pinned to one safe address a host, and what  *)
(* it commits and hands off says truly where it was observed.              *)
THEOREM FetchesHold == UrlSpec => []FetchSound
<1> QED
  BY UrlInvInit, UrlInvNext, UrlInvSound, PTL DEF UrlSpec

-----------------------------------------------------------------------------
(* Independent verification. *)

RunType ==
    [pc : {"idle", "authority", "verifier", "result"}, grants : SUBSET Grants,
     declarations : SUBSET Declarations, targets : SUBSET Targets,
     inputs : SUBSET (Targets \cup Sources)]

(* A committed statement of the human selects the verifier of a run, and   *)
(* its targets are committed.                                              *)
SelectedRun(r) ==
    /\ \E d \in r.declarations :
          /\ Committed(DeclarationKey(d))
          /\ d.signed /\ d.by = Human /\ d.status = "ACTIVE" /\ d.content = Selection
          /\ \E g \in r.grants : g.id = d.grant /\ g.status = "ACTIVE"
    /\ \A t \in r.targets : Committed(TargetKey(t))

(* What was resolved and found when the run passed its checks stays so     *)
(* while the verifier is away and until the result is handed off.          *)
VerificationInv ==
    /\ HistoryOK /\ run \in RunType
    /\ run.pc \in {"verifier", "result"} => SelectedRun(run)
    /\ run.pc = "result" => run.inputs \ run.targets # {}
    /\ handed # NoRun => SelectedRun(handed) /\ handed.inputs \ handed.targets # {}

(* The other writers of the project, whatever they commit. *)
AnyOthers == (\E c \in Contents : Transition(c)) \/ \E new : CommitRecords(new)

VerificationSpec ==
    StoreInit /\ VerificationInit
    /\ [][VerificationNext \/ (AnyOthers /\ UNCHANGED verificationVars)]_
          <<storeVars, verificationVars>>

(* A grant that no check excludes is active, and some declaration, active, *)
(* of the human, signed, and of the grant's own content, anchors it.       *)
LEMMA AuthorizesSays ==
  ASSUME NEW grants, NEW declarations, NEW content,
         Authorizes(grants, declarations, content)
  PROVE  \E g \in grants, d \in declarations :
            /\ g.status = "ACTIVE" /\ d.grant = g.id
            /\ d.signed /\ d.by = Human /\ d.status = "ACTIVE" /\ d.content = content
<1>1. PICK g \in grants : Matches(g, content) /\ Excluded(g, declarations) = NotExcluded
  BY DEF Authorizes, Binding
<1>2. g.status = "ACTIVE" /\ Anchoring(g, declarations) # {}
  <2>1. g.status = "ACTIVE"
    BY <1>1, NotExcludedAssumption, Zenon DEF Excluded
  <2>2. CASE Anchoring(g, declarations) = {}
    BY <1>1, <2>1, <2>2, NotExcludedAssumption DEF Excluded
  <2> QED
    BY <2>1, <2>2
<1>3. PICK d \in Anchoring(g, declarations) : TRUE
  BY <1>2
<1>4. /\ d \in declarations /\ d.grant = g.id /\ d.by = Human /\ d.status = "ACTIVE"
      /\ d.content = g.content /\ d.signed
  BY <1>3 DEF Anchoring, Restating, InForce, OfHuman, Anchored, Anchors, Restates, SignedByHuman
<1> QED
  BY <1>1, <1>2, <1>4 DEF Matches

(* Records only grow in number: what a run resolved stays resolved. *)
LEMMA VerificationStoreKeeps ==
  ASSUME VerificationInv, AnyOthers \/ OthersCommit, UNCHANGED verificationVars
  PROVE  VerificationInv'
<1>1. HistoryOK' /\ \A key : Committed(key) => Committed(key)'
  <2>1. CASE \E c \in Contents : Transition(c)
    BY <2>1, TransitionGrows DEF VerificationInv, Committed
  <2>2. CASE \E new : CommitRecords(new)
    BY <2>2, CommitGrows DEF VerificationInv
  <2> QED
    BY <2>1, <2>2 DEF AnyOthers, OthersCommit
<1>2. \A r : SelectedRun(r) => SelectedRun(r)'
  BY <1>1 DEF SelectedRun, DeclarationKey, TargetKey
<1> QED
  BY <1>1, <1>2 DEF VerificationInv, verificationVars

(* The steps of the run itself. *)
LEMMA VerificationInvNext ==
  VerificationInv /\ [VerificationNext \/ (AnyOthers /\ UNCHANGED verificationVars)]_
                        <<storeVars, verificationVars>>
    => VerificationInv'
<1> SUFFICES ASSUME VerificationInv,
                    [VerificationNext \/ (AnyOthers /\ UNCHANGED verificationVars)]_
                        <<storeVars, verificationVars>>
             PROVE  VerificationInv'
  OBVIOUS
<1>1. CASE UNCHANGED storeVars
  <2>1. HistoryOK' /\ \A r : SelectedRun(r) => SelectedRun(r)'
    BY <1>1 DEF VerificationInv, storeVars, HistoryOK, SelectedRun, Committed
  <2>2. CASE RunVerification
    <3>1. PICK g \in SUBSET Grants, d \in SUBSET Declarations, t \in SUBSET Targets :
             run' = [NoRun EXCEPT !.pc = "authority", !.grants = g,
                                  !.declarations = d, !.targets = t]
      BY <2>2 DEF RunVerification, Run
    <3>2. run' \in RunType /\ run'.pc = "authority"
      BY <3>1 DEF NoRun, RunType
    <3>3. handed' = NoRun
      BY <2>2 DEF RunVerification
    <3> QED
      BY <2>1, <3>2, <3>3 DEF VerificationInv, NoRun
  <2>3. NoRun \in RunType /\ NoRun.pc = "idle"
    BY DEF NoRun, RunType
  <2>4. CASE CheckSelection
    <3>1. CASE Resolved /\ Selected /\ TargetsResolved
      <4>1. run' = [run EXCEPT !.pc = "verifier"] /\ handed' = handed
        BY <2>4, <3>1 DEF CheckSelection, Run
      <4>2. /\ run' \in RunType /\ run'.pc = "verifier" /\ run'.grants = run.grants
            /\ run'.declarations = run.declarations /\ run'.targets = run.targets
        BY <4>1 DEF VerificationInv, RunType
      <4>3. SelectedRun(run)
        BY <3>1, AuthorizesSays DEF Resolved, Selected, TargetsResolved, SelectedRun
      <4>4. SelectedRun(run)'
        BY <2>1, <4>2, <4>3 DEF SelectedRun
      <4> QED
        BY <2>1, <4>1, <4>2, <4>4 DEF VerificationInv, NoRun
    <3>2. CASE ~(Resolved /\ Selected /\ TargetsResolved)
      BY <2>1, <2>3, <2>4, <3>2 DEF CheckSelection, Run, VerificationInv, NoRun
    <3> QED
      BY <3>1, <3>2
  <2>5. CASE VerifierReturns
    <3>1. CASE run' = NoRun
      BY <2>1, <2>3, <2>5, <3>1 DEF VerifierReturns, VerificationInv, NoRun
    <3>2. ASSUME NEW inputs \in SUBSET (Targets \cup Sources), InputsAccepted(inputs),
                 run' = [run EXCEPT !.pc = "result", !.inputs = inputs]
          PROVE  VerificationInv'
      <4>1. /\ run' \in RunType /\ run'.pc = "result" /\ run'.grants = run.grants
            /\ run'.declarations = run.declarations /\ run'.targets = run.targets
            /\ run'.inputs = inputs
        BY <3>2 DEF VerificationInv, RunType
      <4>2. SelectedRun(run) /\ inputs \ run.targets # {} /\ handed' = handed
        BY <2>5, <3>2 DEF VerifierReturns, VerificationInv, InputsAccepted
      <4>3. SelectedRun(run)'
        BY <2>1, <4>1, <4>2 DEF SelectedRun
      <4> QED
        BY <2>1, <4>1, <4>2, <4>3 DEF VerificationInv, NoRun
    <3> QED
      BY <2>5, <3>1, <3>2 DEF VerifierReturns, Run
  <2>6. CASE HandOffResult
    BY <2>1, <2>3, <2>6 DEF HandOffResult, Run, VerificationInv, NoRun
  <2>7. CASE UNCHANGED verificationVars
    BY <2>1, <2>7 DEF VerificationInv, verificationVars, NoRun
  <2>8. CASE OthersCommit \/ (AnyOthers /\ UNCHANGED verificationVars)
    BY <2>8, VerificationStoreKeeps DEF OthersCommit
  <2> QED
    BY <2>2, <2>4, <2>5, <2>6, <2>7, <2>8 DEF VerificationNext
<1>2. CASE OthersCommit \/ (AnyOthers /\ UNCHANGED verificationVars)
  BY <1>2, VerificationStoreKeeps DEF OthersCommit
<1> QED
  BY <1>1, <1>2 DEF VerificationNext, RunVerification, CheckSelection, VerifierReturns,
                    HandOffResult

(* A result that became Evidence goes back to a committed, signed, active  *)
(* declaration of the very selection, and rests on something besides its   *)
(* committed targets, whatever grants and declarations the caller refers   *)
(* to and whoever commits what while the verifier is away.                 *)
THEOREM VerificationsHold == VerificationSpec => []VerificationSound
<1>1. StoreInit /\ VerificationInit => VerificationInv
  BY HistoryInit DEF VerificationInit, VerificationInv, NoRun, RunType
<1>2. VerificationInv => VerificationSound
  BY DEF VerificationInv, SelectedRun, VerificationSound, SelectedByHuman, VerifiedIndependently
<1> QED
  BY <1>1, <1>2, VerificationInvNext, PTL DEF VerificationSpec

-----------------------------------------------------------------------------
(* Projection. *)

SlotKeys == {IntentKey, AttemptKey, EnvelopeOf, TransactionKey}

ProjectionType ==
    [pc : Over \cup {"authorize", "intent", "search", "attempted", "attempt", "post",
                     "answer", "load", "envelope", "observe"},
     claim : Claims \cup {Nothing}, payload : Payloads \cup {Nothing},
     artifact : Projections \cup {Nothing}, base : Nat \cup {Nothing},
     receipt : {"VERIFIED", "FAILED", "UNAVAILABLE", Nothing},
     reuse : BOOLEAN, shared : BOOLEAN]

ArtifactType ==
    [by : Projections, state : {"sent", "created", "indexed"}, edits : Nat,
     content : Payloads \cup {Nothing}]

(* The calls that have claimed the slot and not yet bound it. *)
PastIntent == {"search", "attempted", "attempt", "post", "answer", "load", "envelope"}

(* A key of the slot has one body. *)
BodiesUnique ==
    \A r, s \in records : r.key \in SlotKeys /\ r.key = s.key => r.body = s.body

Carried(artifact) == \E a \in artifacts : a.by = artifact /\ a.state # "sent"

(* From the intent on, what a call does is done under its own claim, and a *)
(* request is sent only after the attempt is committed.                    *)
ClaimsHold ==
    /\ \A p \in Projections :
          /\ projection[p].pc \in PastIntent =>
                Committed(IntentKey) /\ Body(IntentKey) = projection[p].claim
          /\ projection[p].pc \in {"post", "answer"} => Committed(AttemptKey)
          /\ projection[p].pc \in {"load", "envelope"} => Carried(projection[p].artifact)
          /\ projection[p].pc = "idle" => ~projection[p].shared
    /\ artifacts # {} => Committed(AttemptKey)

AttemptOfIntent ==
    Committed(AttemptKey) =>
        Committed(IntentKey) /\ Body(AttemptKey) = Body(IntentKey)

EnvelopeOfClaim ==
    Committed(EnvelopeOf) =>
        /\ Committed(AttemptKey) /\ Body(IntentKey) = Body(EnvelopeOf).claim
        /\ Carried(Body(EnvelopeOf).artifact)

NoneShared == \A p \in Projections : ~projection[p].shared

(* While no two calls under way share a token: one call at most is past    *)
(* the intent, it is past the attempt's look-up only while there is no     *)
(* attempt, and it sends while nothing was sent.                           *)
OneSends ==
    /\ \A p, q \in Projections :
          /\ p # q /\ projection[p].pc \notin Over /\ projection[q].pc \notin Over
          => projection[p].claim.token # projection[q].claim.token
    /\ \A p \in Projections :
          /\ projection[p].pc = "attempt" => ~Committed(AttemptKey)
          /\ projection[p].pc = "post" => artifacts = {}
    /\ \A a, b \in artifacts : a = b

ProjectionInv ==
    /\ HistoryOK /\ BodiesUnique
    /\ projection \in [Projections -> ProjectionType] /\ artifacts \subseteq ArtifactType
    /\ ClaimsHold /\ AttemptOfIntent /\ EnvelopeOfClaim
    /\ NoneShared => OneSends
    /\ EvidenceIsCurrent

(* The other writers: Reflow, and calls and routes with other keys. *)
ProjectionOthers ==
    /\ \/ \E c \in Contents : Transition(c)
       \/ \E new : (\A n \in new : n.key \notin SlotKeys) /\ CommitRecords(new)
    /\ UNCHANGED projectionVars

ProjectionSpec ==
    StoreInit /\ ProjectionInit
    /\ [][ProjectionNext \/ ProjectionOthers]_<<storeVars, projectionVars>>

(* The records of a slot are under keys of their own. *)
LEMMA SlotKeysDiffer ==
  /\ IntentKey # AttemptKey /\ IntentKey # EnvelopeOf /\ AttemptKey # EnvelopeOf
  /\ TransactionKey # IntentKey /\ TransactionKey # AttemptKey /\ TransactionKey # EnvelopeOf
<1>1. /\ IntentKey.kind = "projection_intent"
      /\ AttemptKey.kind = "projection_materialize_attempt"
      /\ EnvelopeOf.kind = "projection_envelope"
      /\ TransactionKey.kind = "transaction_of_envelope"
  BY DEF IntentKey, AttemptKey, EnvelopeOf, TransactionKey
<1> QED
  BY <1>1

(* The body of a key that has one. *)
LEMMA BodyIs ==
  ASSUME BodiesUnique, NEW r \in records, r.key \in SlotKeys
  PROVE  Body(r.key) = r.body
<1>1. PICK c : c = (CHOOSE s \in records : s.key = r.key)
  OBVIOUS
<1>2. c \in records /\ c.key = r.key
  BY <1>1
<1>3. c.body = r.body
  BY <1>2 DEF BodiesUnique
<1> QED
  BY <1>1, <1>3 DEF Body

(* What a commit does to the slot. *)
LEMMA SlotCommit ==
  ASSUME HistoryOK, BodiesUnique, NEW new, CommitRecords(new),
         \A m, n \in new : m.key = n.key => m = n
  PROVE  /\ HistoryOK' /\ BodiesUnique'
         /\ \A key \in SlotKeys :
               /\ Committed(key)' <=> Committed(key) \/ \E n \in new : n.key = key
               /\ Committed(key) => (Body(key))' = Body(key)
         /\ \A n \in new : n.key \in SlotKeys => (Body(n.key))' = n.body
<1>1. /\ HistoryOK' /\ new \subseteq records' /\ \A r \in records' : r \in records \/ r \in new
      /\ \A key : Committed(key) => Committed(key)'
  BY CommitGrows
<1>2. /\ \A r \in new, s \in records : r.key = s.key => r.body = s.body
      /\ records' = {r \in records : \A n \in new : r.key # n.key} \cup new
  BY DEF CommitRecords, Conflicts
<1>3. BodiesUnique'
  <2>1. ASSUME NEW r \in records', NEW s \in records', r.key \in SlotKeys, r.key = s.key
        PROVE  r.body = s.body
    BY <1>1, <1>2, <2>1 DEF BodiesUnique
  <2> QED
    BY <2>1 DEF BodiesUnique, SlotKeys, IntentKey, AttemptKey, EnvelopeOf, TransactionKey
<1>4. ASSUME NEW r \in records', r.key \in SlotKeys PROVE (Body(r.key))' = r.body
  <2>1. PICK c : c = (CHOOSE s \in records' : s.key = r.key)
    OBVIOUS
  <2>2. c \in records' /\ c.key = r.key
    BY <2>1
  <2>3. c.body = r.body
    BY <1>3, <1>4, <2>2
       DEF BodiesUnique, SlotKeys, IntentKey, AttemptKey, EnvelopeOf, TransactionKey
  <2> QED
    BY <2>1, <2>3 DEF Body
<1>5. ASSUME NEW key \in SlotKeys, Committed(key) PROVE (Body(key))' = Body(key)
  <2>1. PICK r \in records : r.key = key
    BY <1>5 DEF Committed
  <2>2. PICK s \in records' : s.key = key /\ s.body = r.body
    <3>1. CASE \E n \in new : n.key = key
      BY <1>1, <1>2, <2>1, <3>1
    <3>2. CASE \A n \in new : n.key # key
      BY <1>2, <2>1, <3>2
    <3> QED
      BY <3>1, <3>2
  <2>3. (Body(key))' = s.body
    BY <1>4, <2>2
  <2>4. Body(key) = r.body
    BY <2>1, BodyIs
  <2> QED
    BY <2>2, <2>3, <2>4
<1>6. \A key \in SlotKeys : Committed(key)' <=> Committed(key) \/ \E n \in new : n.key = key
  BY <1>1 DEF Committed
<1>7. \A n \in new : n.key \in SlotKeys => (Body(n.key))' = n.body
  BY <1>1, <1>4
<1> QED
  BY <1>1, <1>3, <1>5, <1>6, <1>7

(* Two calls past the intent are one, when none share a token. *)
LEMMA OneClaims ==
  ASSUME ProjectionInv, NoneShared, NEW p \in Projections, NEW q \in Projections,
         projection[p].pc \in PastIntent, projection[q].pc \in PastIntent
  PROVE  p = q
<1>1. projection[p].claim = projection[q].claim
  BY DEF ProjectionInv, ClaimsHold
<1>2. projection[p].pc \notin Over /\ projection[q].pc \notin Over
  BY DEF PastIntent, Over
<1> QED
  BY <1>1, <1>2 DEF ProjectionInv, OneSends

(* A step of one call that sends nothing: what it must see to for the      *)
(* invariant to hold.                                                      *)
LEMMA CallKeeps ==
  ASSUME ProjectionInv, HistoryOK', BodiesUnique',
         UNCHANGED <<artifacts, evidence>>,
         Committed(IntentKey) => Committed(IntentKey)' /\ Body(IntentKey)' = Body(IntentKey),
         Committed(AttemptKey) => Committed(AttemptKey)',
         AttemptOfIntent', EnvelopeOfClaim',
         NEW p \in Projections, NEW r \in ProjectionType, Set(p, r),
         r.shared = projection[p].shared, r.pc # "idle",
         r.pc \notin Over => projection[p].pc \notin Over /\ r.claim = projection[p].claim,
         r.pc \in PastIntent => Committed(IntentKey)' /\ Body(IntentKey)' = r.claim,
         r.pc \in {"post", "answer"} => Committed(AttemptKey)',
         r.pc \in {"load", "envelope"} => Carried(r.artifact),
         r.pc = "attempt" => ~Committed(AttemptKey)',
         Committed(AttemptKey)' => Committed(AttemptKey) \/ projection[p].pc = "attempt",
         r.pc = "post" /\ NoneShared => artifacts = {}
  PROVE  ProjectionInv'
<1>1. /\ projection' \in [Projections -> ProjectionType] /\ projection'[p] = r
      /\ \A q \in Projections \ {p} : projection'[q] = projection[q]
  BY DEF ProjectionInv, Set
<1>2. \A artifact : Carried(artifact)' <=> Carried(artifact)
  BY DEF Carried
<1>3. ClaimsHold'
  <2>1. ASSUME NEW q \in Projections
        PROVE  /\ projection'[q].pc \in PastIntent =>
                     Committed(IntentKey)' /\ Body(IntentKey)' = projection'[q].claim
               /\ projection'[q].pc \in {"post", "answer"} => Committed(AttemptKey)'
               /\ projection'[q].pc \in {"load", "envelope"} =>
                     Carried(projection'[q].artifact)
               /\ projection'[q].pc = "idle" => ~projection'[q].shared
    <3>1. CASE q = p
      BY <1>1, <3>1
    <3>2. CASE q # p
      BY <1>1, <3>2 DEF ProjectionInv, ClaimsHold
    <3> QED
      BY <3>1, <3>2
  <2>2. artifacts' # {} => Committed(AttemptKey)'
    BY DEF ProjectionInv, ClaimsHold
  <2> QED
    BY <1>2, <2>1, <2>2 DEF ClaimsHold, PastIntent
<1>4. NoneShared' => NoneShared
  BY <1>1 DEF NoneShared
<1>5. ASSUME NoneShared PROVE OneSends'
  <2>1. OneSends
    BY <1>5 DEF ProjectionInv
  <2>2. ASSUME NEW x \in Projections, NEW y \in Projections, x # y,
               projection'[x].pc \notin Over, projection'[y].pc \notin Over
        PROVE  projection'[x].claim.token # projection'[y].claim.token
    <3>1. \A q \in {x, y} : projection[q].pc \notin Over
                           /\ projection'[q].claim = projection[q].claim
      BY <1>1, <2>2
    <3> QED
      BY <2>1, <2>2, <3>1 DEF OneSends
  <2>3. ASSUME NEW q \in Projections, projection'[q].pc = "attempt"
        PROVE  ~Committed(AttemptKey)'
    <3>1. CASE q = p
      BY <1>1, <2>3, <3>1
    <3>2. CASE q # p
      <4>1. projection[q].pc = "attempt" /\ ~Committed(AttemptKey)
        BY <1>1, <2>1, <2>3, <3>2 DEF OneSends
      <4>2. projection[p].pc # "attempt"
        BY <1>5, <3>2, <4>1, OneClaims DEF PastIntent
      <4> QED
        BY <4>1, <4>2
    <3> QED
      BY <3>1, <3>2
  <2>4. ASSUME NEW q \in Projections, projection'[q].pc = "post" PROVE artifacts' = {}
    BY <1>1, <1>5, <2>1, <2>4 DEF OneSends
  <2> QED
    BY <2>1, <2>2, <2>3, <2>4 DEF OneSends, Over
<1>6. artifacts' \subseteq ArtifactType /\ EvidenceIsCurrent'
  BY DEF ProjectionInv, EvidenceIsCurrent
<1> QED
  BY <1>1, <1>3, <1>4, <1>5, <1>6 DEF ProjectionInv

(* ... and that leaves the Store alone. *)
LEMMA LocalKeeps ==
  ASSUME ProjectionInv, UNCHANGED <<storeVars, artifacts, evidence>>,
         NEW p \in Projections, NEW r \in ProjectionType, Set(p, r),
         r.shared = projection[p].shared, r.pc # "idle",
         r.pc \notin Over => projection[p].pc \notin Over /\ r.claim = projection[p].claim,
         r.pc \in PastIntent => projection[p].pc \in PastIntent,
         r.pc \notin {"post", "answer"},
         r.pc \in {"load", "envelope"} => Carried(r.artifact),
         r.pc = "attempt" => ~Committed(AttemptKey)
  PROVE  ProjectionInv'
<1>1. HistoryOK' /\ BodiesUnique' /\ AttemptOfIntent' /\ EnvelopeOfClaim'
  BY DEF ProjectionInv, storeVars, HistoryOK, BodiesUnique, AttemptOfIntent, EnvelopeOfClaim,
         Committed, Body, Carried, SlotKeys, IntentKey, AttemptKey, EnvelopeOf, TransactionKey
<1>2. /\ Committed(IntentKey)' <=> Committed(IntentKey)
      /\ Committed(AttemptKey)' <=> Committed(AttemptKey)
      /\ Body(IntentKey)' = Body(IntentKey)
  BY DEF storeVars, Committed, Body, IntentKey, AttemptKey
<1>3. r.pc \in PastIntent => Committed(IntentKey) /\ Body(IntentKey) = r.claim
  BY DEF ProjectionInv, ClaimsHold, PastIntent, Over
<1> QED
  BY <1>1, <1>2, <1>3, CallKeeps

(* A call that is refused, or that dies. *)
LEMMA RefusedKeeps ==
  ASSUME ProjectionInv, NEW p \in Projections, Refused(p),
         UNCHANGED <<storeVars, artifacts, evidence>>
  PROVE  ProjectionInv'
<1>1. projection[p].shared \in BOOLEAN
  BY DEF ProjectionInv, ProjectionType
<1>2. PICK r : r = [NoProjection EXCEPT !.pc = "raised", !.shared = projection[p].shared]
  OBVIOUS
<1>3. r \in ProjectionType /\ r.pc = "raised" /\ r.shared = projection[p].shared
  BY <1>1, <1>2 DEF NoProjection, ProjectionType, Over
<1>4. Set(p, r)
  BY <1>2, Zenon DEF Refused
<1> QED
  BY <1>3, <1>4, LocalKeeps DEF Over, PastIntent

(* A call goes on to its next point, where only the claim it holds counts. *)
LEMMA ProceedKeeps ==
  ASSUME ProjectionInv, UNCHANGED <<storeVars, artifacts, evidence>>,
         NEW p \in Projections, NEW pc \in {"intent", "attempted", "attempt", "observe"},
         Proceed(p, pc), projection[p].pc \notin Over,
         pc \in {"attempted", "attempt"} => projection[p].pc \in PastIntent,
         pc = "attempt" => ~Committed(AttemptKey)
  PROVE  ProjectionInv'
<1>1. PICK r : r = [projection[p] EXCEPT !.pc = pc]
  OBVIOUS
<1>2. projection[p] \in ProjectionType
  BY DEF ProjectionInv
<1>3. /\ r \in ProjectionType /\ r.pc = pc /\ r.shared = projection[p].shared
      /\ r.claim = projection[p].claim
  BY <1>1, <1>2 DEF ProjectionType, Over
<1>4. Set(p, r)
  BY <1>1, Zenon DEF Proceed
<1> QED
  BY <1>3, <1>4, LocalKeeps DEF Over, PastIntent

(* _authorize_projection and the envelope that may be there already. *)
LEMMA AuthorizeKeeps ==
  ASSUME ProjectionInv, NEW p \in Projections, Authorize(p) PROVE ProjectionInv'
<1>1. /\ projection[p].pc = "authorize" /\ projection[p] \in ProjectionType
      /\ UNCHANGED <<storeVars, artifacts, evidence>>
  BY DEF Authorize, On, ProjectionInv
<1>2. CASE Refused(p)
  BY <1>1, <1>2, RefusedKeeps
<1>3. CASE Proceed(p, "intent")
  BY <1>1, <1>3, ProceedKeeps DEF Over
<1>4. ASSUME Committed(EnvelopeOf),
             Set(p, [projection[p] EXCEPT !.pc = "observe",
                       !.artifact = Body(EnvelopeOf).artifact])
      PROVE  ProjectionInv'
  <2>1. PICK a \in Projections : a = Body(EnvelopeOf).artifact
    BY <1>4 DEF ProjectionInv, EnvelopeOfClaim, Carried, ArtifactType
  <2>2. PICK r : r = [projection[p] EXCEPT !.pc = "observe", !.artifact = a]
    OBVIOUS
  <2>3. /\ r \in ProjectionType /\ r.pc = "observe" /\ r.shared = projection[p].shared
        /\ r.claim = projection[p].claim
    BY <1>1, <2>1, <2>2 DEF ProjectionType, Over
  <2>4. Set(p, r)
    BY <1>4, <2>1, <2>2
  <2> QED
    BY <1>1, <2>3, <2>4, LocalKeeps DEF Over, PastIntent
<1> QED
  BY <1>2, <1>3, <1>4 DEF Authorize

(* An artifact that is there is adopted. *)
LEMMA AdoptKeeps ==
  ASSUME ProjectionInv, UNCHANGED <<storeVars, artifacts, evidence>>,
         NEW p \in Projections, projection[p].pc \in {"search", "answer"},
         NEW a \in Projections, Carried(a),
         Set(p, [projection[p] EXCEPT !.pc = "load", !.artifact = a])
  PROVE  ProjectionInv'
<1>1. PICK r : r = [projection[p] EXCEPT !.pc = "load", !.artifact = a]
  OBVIOUS
<1>2. projection[p] \in ProjectionType
  BY DEF ProjectionInv
<1>3. /\ r \in ProjectionType /\ r.pc = "load" /\ r.shared = projection[p].shared
      /\ r.claim = projection[p].claim /\ r.artifact = a
  BY <1>1, <1>2 DEF ProjectionType, Over
<1>4. Set(p, r)
  BY <1>1
<1> QED
  BY <1>3, <1>4, LocalKeeps DEF Over, PastIntent

(* The search before the attempt, and the answer to the request. *)
LEMMA SearchKeeps ==
  ASSUME ProjectionInv, NEW p \in Projections,
         SearchFinds(p) \/ SearchFails(p) \/ MaterializeAnswers(p)
  PROVE  ProjectionInv'
<1>1. CASE SearchFinds(p)
  <2>1. PICK b \in Found :
           Set(p, [projection[p] EXCEPT !.pc = "load", !.artifact = b])
    BY <1>1 DEF SearchFinds
  <2>2. b \in Projections /\ Carried(b)
    BY DEF Found, Existing, Carried, ProjectionInv, ArtifactType
  <2> QED
    BY <1>1, <2>1, <2>2, AdoptKeeps DEF SearchFinds, On
<1>2. CASE SearchFails(p)
  BY <1>2, ProceedKeeps DEF SearchFails, On, Over, PastIntent
<1>3. CASE MaterializeAnswers(p)
  BY <1>3, AdoptKeeps DEF MaterializeAnswers, On, Carried
<1> QED
  BY <1>1, <1>2, <1>3

(* The attempt is claimed only where none is committed. *)
LEMMA CheckAttemptKeeps ==
  ASSUME ProjectionInv, NEW p \in Projections, CheckAttempt(p) PROVE ProjectionInv'
<1>1. projection[p].pc = "attempted" /\ UNCHANGED <<storeVars, artifacts, evidence>>
  BY DEF CheckAttempt, On
<1>2. CASE Refused(p)
  BY <1>1, <1>2, RefusedKeeps
<1>3. CASE ~Committed(AttemptKey) /\ Proceed(p, "attempt")
  BY <1>1, <1>3, ProceedKeeps DEF Over, PastIntent
<1> QED
  BY <1>2, <1>3 DEF CheckAttempt, MayCreate

(* The State that the envelope's commit is tried on. *)
LEMMA LoadKeeps ==
  ASSUME ProjectionInv, NEW p \in Projections, LoadForEnvelope(p) PROVE ProjectionInv'
<1>1. PICK n \in Nat : n = Revision
  BY DEF ProjectionInv, HistoryOK, Revision
<1>2. PICK r : r = [projection[p] EXCEPT !.pc = "envelope", !.base = n]
  OBVIOUS
<1>3. /\ projection[p] \in ProjectionType /\ projection[p].pc = "load"
      /\ Carried(projection[p].artifact)
  BY DEF ProjectionInv, ClaimsHold, LoadForEnvelope, On
<1>4. /\ r \in ProjectionType /\ r.pc = "envelope" /\ r.shared = projection[p].shared
      /\ r.claim = projection[p].claim /\ r.artifact = projection[p].artifact
  BY <1>1, <1>2, <1>3 DEF ProjectionType, Over
<1>5. Set(p, r) /\ UNCHANGED <<storeVars, artifacts, evidence>>
  BY <1>1, <1>2, Zenon DEF LoadForEnvelope
<1> QED
  BY <1>3, <1>4, <1>5, LocalKeeps DEF Over, PastIntent

(* The observation that is returned with the envelope. *)
LEMMA ObserveReceiptKeeps ==
  ASSUME ProjectionInv, NEW p \in Projections, Observe(p) PROVE ProjectionInv'
<1>1. PICK status \in {"VERIFIED", "FAILED", "UNAVAILABLE"} :
         Set(p, [projection[p] EXCEPT !.pc = "returned", !.receipt = status])
  BY DEF Observe, Observations, Classified
<1>2. PICK r : r = [projection[p] EXCEPT !.pc = "returned", !.receipt = status]
  OBVIOUS
<1>3. projection[p] \in ProjectionType
  BY DEF ProjectionInv
<1>4. r \in ProjectionType /\ r.pc = "returned" /\ r.shared = projection[p].shared
  BY <1>2, <1>3 DEF ProjectionType, Over
<1>5. Set(p, r) /\ UNCHANGED <<storeVars, artifacts, evidence>>
  BY <1>1, <1>2 DEF Observe
<1> QED
  BY <1>4, <1>5, LocalKeeps DEF Over, PastIntent

(* A call that begins brings a token that no other call under way has,     *)
(* unless it is marked as sharing it.                                      *)
LEMMA ProjectKeeps ==
  ASSUME ProjectionInv, NEW p \in Projections, NEW claim \in Claims,
         NEW payload \in Payloads, NEW reuse \in BOOLEAN, Project(p, claim, payload, reuse)
  PROVE  ProjectionInv'
<1>1. PICK s \in BOOLEAN : s = Shared(p, claim)
  BY DEF Shared
<1>2. PICK r : r = [NoProjection EXCEPT !.pc = "authorize", !.claim = claim,
                      !.payload = payload, !.reuse = reuse, !.shared = s]
  OBVIOUS
<1>3. /\ NoProjection \in ProjectionType
      /\ projection[p].pc = "idle" /\ UNCHANGED <<storeVars, artifacts, evidence>>
  BY DEF NoProjection, ProjectionType, Over, Project, On
<1>4. r \in ProjectionType /\ r.pc = "authorize" /\ r.claim = claim /\ r.shared = s
  BY <1>2, <1>3 DEF ProjectionType, Over
<1>5. Set(p, r)
  BY <1>1, <1>2, Zenon DEF Project
<1>6. /\ projection' \in [Projections -> ProjectionType] /\ projection'[p] = r
      /\ \A q \in Projections \ {p} : projection'[q] = projection[q]
  BY <1>4, <1>5 DEF ProjectionInv, Set
<1>7. /\ HistoryOK' /\ BodiesUnique' /\ AttemptOfIntent' /\ EnvelopeOfClaim'
      /\ EvidenceIsCurrent'
  BY <1>3 DEF ProjectionInv, storeVars, HistoryOK, BodiesUnique, AttemptOfIntent,
     EnvelopeOfClaim, EvidenceIsCurrent, Committed, Body, Carried, SlotKeys, IntentKey,
     AttemptKey, EnvelopeOf, TransactionKey
<1>8. /\ Committed(IntentKey)' <=> Committed(IntentKey)
      /\ Committed(AttemptKey)' <=> Committed(AttemptKey)
      /\ Body(IntentKey)' = Body(IntentKey)
  BY <1>3 DEF storeVars, Committed, Body, IntentKey, AttemptKey
<1>9. \A a : Carried(a)' <=> Carried(a)
  BY <1>3 DEF Carried
<1>10. ClaimsHold'
  <2>1. \A q \in Projections : q = p => projection'[q].pc = "authorize"
    BY <1>4, <1>6
  <2> QED
    BY <1>3, <1>6, <1>8, <1>9, <2>1 DEF ProjectionInv, ClaimsHold, PastIntent
<1>11. ASSUME NoneShared' PROVE OneSends'
  <2>1. NoneShared /\ ~s
    <3>1. ~projection[p].shared
      BY <1>3 DEF ProjectionInv, ClaimsHold
    <3> QED
      BY <1>4, <1>6, <1>11, <3>1 DEF NoneShared
  <2>2. OneSends
    BY <2>1 DEF ProjectionInv
  <2>3. ASSUME NEW q \in Projections \ {p}, projection[q].pc \notin Over
        PROVE  projection[q].claim.token # claim.token
    BY <1>1, <2>1, <2>3 DEF Shared
  <2>4. ASSUME NEW x \in Projections, NEW y \in Projections, x # y,
               projection'[x].pc \notin Over, projection'[y].pc \notin Over
        PROVE  projection'[x].claim.token # projection'[y].claim.token
    <3>1. CASE x = p
      BY <1>4, <1>6, <2>3, <2>4, <3>1
    <3>2. CASE y = p
      BY <1>4, <1>6, <2>3, <2>4, <3>2
    <3>3. CASE x # p /\ y # p
      BY <1>6, <2>2, <2>4, <3>3 DEF OneSends
    <3> QED
      BY <3>1, <3>2, <3>3
  <2>5. ASSUME NEW q \in Projections, projection'[q].pc \in {"attempt", "post"}
        PROVE  projection'[q] = projection[q]
    BY <1>4, <1>6, <2>5
  <2> QED
    BY <1>3, <1>8, <2>2, <2>4, <2>5 DEF OneSends, Over
<1> QED
  BY <1>3, <1>6, <1>7, <1>10, <1>11 DEF ProjectionInv

(* The slot is claimed, or another claim is there and the call is refused. *)
LEMMA ClaimIntentKeeps ==
  ASSUME ProjectionInv, NEW p \in Projections, ClaimIntent(p) PROVE ProjectionInv'
<1> DEFINE claim == projection[p].claim
           new == {Intent(claim)}
<1>1. /\ projection[p].pc = "intent" /\ projection[p] \in ProjectionType
      /\ UNCHANGED <<artifacts, evidence>>
  BY DEF ClaimIntent, On, ProjectionInv
<1>2. CASE Refused(p) /\ UNCHANGED storeVars
  BY <1>1, <1>2, RefusedKeeps
<1>3. CASE CommitRecords(new) /\ Proceed(p, "search")
  <2>1. /\ Intent(claim) \in new /\ Intent(claim).key = IntentKey
        /\ Intent(claim).body = claim /\ \A n \in new : n = Intent(claim)
    BY DEF Intent, Record
  <2>2. IntentKey \in SlotKeys /\ AttemptKey \in SlotKeys /\ EnvelopeOf \in SlotKeys
    BY DEF SlotKeys
  <2> HIDE DEF new, claim
  <2>3. /\ HistoryOK' /\ BodiesUnique'
        /\ \A key \in SlotKeys :
              /\ Committed(key)' <=> Committed(key) \/ \E n \in new : n.key = key
              /\ Committed(key) => (Body(key))' = Body(key)
        /\ \A n \in new : n.key \in SlotKeys => (Body(n.key))' = n.body
    BY <1>3, <2>1, SlotCommit DEF ProjectionInv
  <2>4. /\ Committed(IntentKey)' /\ Body(IntentKey)' = claim
        /\ Committed(IntentKey) => Body(IntentKey)' = Body(IntentKey)
        /\ Committed(AttemptKey)' <=> Committed(AttemptKey)
        /\ Committed(AttemptKey) => Body(AttemptKey)' = Body(AttemptKey)
        /\ Committed(EnvelopeOf)' <=> Committed(EnvelopeOf)
        /\ Committed(EnvelopeOf) => Body(EnvelopeOf)' = Body(EnvelopeOf)
    BY <2>1, <2>2, <2>3, SlotKeysDiffer
  <2>5. AttemptOfIntent'
    BY <2>4 DEF ProjectionInv, AttemptOfIntent
  <2>6. EnvelopeOfClaim'
    BY <1>1, <2>4 DEF ProjectionInv, AttemptOfIntent, EnvelopeOfClaim, Carried
  <2>7. PICK r : r = [projection[p] EXCEPT !.pc = "search"]
    OBVIOUS
  <2>8. /\ r \in ProjectionType /\ r.pc = "search" /\ r.shared = projection[p].shared
        /\ r.claim = projection[p].claim
    BY <1>1, <2>7 DEF ProjectionType, Over
  <2>9. Set(p, r) /\ claim = projection[p].claim
    BY <1>3, <2>7, Zenon DEF Proceed, claim
  <2> QED
    BY <1>1, <2>3, <2>4, <2>5, <2>6, <2>8, <2>9, CallKeeps DEF Over
<1> QED
  BY <1>2, <1>3 DEF ClaimIntent, ClaimSlot

(* The attempt is made under the claim of the intent, and none before it. *)
LEMMA ClaimAttemptKeeps ==
  ASSUME ProjectionInv, NEW p \in Projections, ClaimAttempt(p) PROVE ProjectionInv'
<1> DEFINE claim == projection[p].claim
           new == {Attempt(claim)}
<1>1. /\ projection[p].pc = "attempt" /\ projection[p] \in ProjectionType
      /\ Committed(IntentKey) /\ Body(IntentKey) = claim
      /\ UNCHANGED <<artifacts, evidence>>
  BY DEF ClaimAttempt, On, ProjectionInv, ClaimsHold, PastIntent
<1>2. CASE Refused(p) /\ UNCHANGED storeVars
  BY <1>1, <1>2, RefusedKeeps
<1>3. CASE CommitRecords(new) /\ Proceed(p, "post")
  <2>1. /\ Attempt(claim) \in new /\ Attempt(claim).key = AttemptKey
        /\ Attempt(claim).body = claim /\ \A n \in new : n = Attempt(claim)
    BY DEF Attempt, Record
  <2>2. IntentKey \in SlotKeys /\ AttemptKey \in SlotKeys /\ EnvelopeOf \in SlotKeys
    BY DEF SlotKeys
  <2>3. projection[p].claim = claim
    OBVIOUS
  <2> HIDE DEF new, claim
  <2>4. /\ HistoryOK' /\ BodiesUnique'
        /\ \A key \in SlotKeys :
              /\ Committed(key)' <=> Committed(key) \/ \E n \in new : n.key = key
              /\ Committed(key) => (Body(key))' = Body(key)
        /\ \A n \in new : n.key \in SlotKeys => (Body(n.key))' = n.body
    BY <1>3, <2>1, SlotCommit DEF ProjectionInv
  <2>5. /\ Committed(IntentKey)' /\ Body(IntentKey)' = Body(IntentKey)
        /\ Committed(AttemptKey)' /\ Body(AttemptKey)' = claim
        /\ Committed(EnvelopeOf)' <=> Committed(EnvelopeOf)
        /\ Committed(EnvelopeOf) => Body(EnvelopeOf)' = Body(EnvelopeOf)
    BY <1>1, <2>1, <2>2, <2>4, SlotKeysDiffer
  <2>6. AttemptOfIntent'
    BY <1>1, <2>5 DEF AttemptOfIntent
  <2>7. EnvelopeOfClaim'
    BY <1>1, <2>5 DEF ProjectionInv, EnvelopeOfClaim, Carried
  <2>8. NoneShared => artifacts = {}
    BY <1>1 DEF ProjectionInv, OneSends, ClaimsHold
  <2>9. PICK r : r = [projection[p] EXCEPT !.pc = "post"]
    OBVIOUS
  <2>10. /\ r \in ProjectionType /\ r.pc = "post" /\ r.shared = projection[p].shared
         /\ r.claim = projection[p].claim
    BY <1>1, <2>9 DEF ProjectionType, Over
  <2>11. Set(p, r)
    BY <1>3, <2>9, Zenon DEF Proceed
  <2> QED
    BY <1>1, <2>3, <2>4, <2>5, <2>6, <2>7, <2>8, <2>10, <2>11, CallKeeps DEF Over
<1> QED
  BY <1>2, <1>3 DEF ClaimAttempt, ClaimSlot

(* The envelope binds an artifact that was carried out to the claim of the *)
(* intent; an artifact is of an attempt.                                   *)
LEMMA CommitEnvelopeKeeps ==
  ASSUME ProjectionInv, NEW p \in Projections, CommitEnvelope(p) PROVE ProjectionInv'
<1> DEFINE own == OwnEnvelope(p)
           base == Record(TransactionKey, projection[p].base)
           new == {own, base}
<1>1. /\ projection[p].pc = "envelope" /\ projection[p] \in ProjectionType
      /\ Committed(IntentKey) /\ Body(IntentKey) = projection[p].claim
      /\ Carried(projection[p].artifact) /\ Committed(AttemptKey)
      /\ UNCHANGED <<artifacts, evidence>>
  BY DEF CommitEnvelope, On, ProjectionInv, ClaimsHold, PastIntent, Carried
<1>2. CASE Refused(p) /\ UNCHANGED storeVars
  BY <1>1, <1>2, RefusedKeeps
<1>3. CASE Proceed(p, "observe") /\ UNCHANGED storeVars
  BY <1>1, <1>3, ProceedKeeps DEF Over
<1>4. CASE CommitRecords(new) /\ Proceed(p, "observe") /\ ~Committed(EnvelopeOf)
  <2>1. /\ own \in new /\ own.key = EnvelopeOf /\ own.body.claim = projection[p].claim
        /\ own.body.artifact = projection[p].artifact
        /\ base.key = TransactionKey /\ \A n \in new : n = own \/ n = base
    BY DEF OwnEnvelope, ProjectionEnvelope, Record
  <2>2. IntentKey \in SlotKeys /\ AttemptKey \in SlotKeys /\ EnvelopeOf \in SlotKeys
    BY DEF SlotKeys
  <2> HIDE DEF new, own, base
  <2>3. \A m, n \in new : m.key = n.key => m = n
    BY <2>1, SlotKeysDiffer
  <2>4. /\ HistoryOK' /\ BodiesUnique'
        /\ \A key \in SlotKeys :
              /\ Committed(key)' <=> Committed(key) \/ \E n \in new : n.key = key
              /\ Committed(key) => (Body(key))' = Body(key)
        /\ \A n \in new : n.key \in SlotKeys => (Body(n.key))' = n.body
    BY <1>4, <2>3, SlotCommit DEF ProjectionInv
  <2>5. /\ Committed(IntentKey)' /\ Body(IntentKey)' = Body(IntentKey)
        /\ Committed(AttemptKey)' /\ Body(AttemptKey)' = Body(AttemptKey)
        /\ Body(EnvelopeOf)' = own.body
    BY <1>1, <2>1, <2>2, <2>4
  <2>6. AttemptOfIntent'
    BY <1>1, <2>5 DEF ProjectionInv, AttemptOfIntent
  <2>7. EnvelopeOfClaim'
    BY <1>1, <2>1, <2>5 DEF EnvelopeOfClaim, Carried
  <2>8. PICK r : r = [projection[p] EXCEPT !.pc = "observe"]
    OBVIOUS
  <2>9. /\ r \in ProjectionType /\ r.pc = "observe" /\ r.shared = projection[p].shared
        /\ r.claim = projection[p].claim
    BY <1>1, <2>8 DEF ProjectionType, Over
  <2>10. Set(p, r)
    BY <1>4, <2>8, Zenon DEF Proceed
  <2> QED
    BY <1>1, <2>4, <2>5, <2>6, <2>7, <2>9, <2>10, CallKeeps DEF Over, PastIntent
<1> QED
  BY <1>2, <1>3, <1>4, Zenon DEF CommitEnvelope

(* Steps that leave the calls and the slot's records alone. *)
LEMMA SlotKeeps ==
  ASSUME ProjectionInv, HistoryOK', BodiesUnique', UNCHANGED projection,
         \A key \in SlotKeys :
            /\ Committed(key)' <=> Committed(key)
            /\ Committed(key) => (Body(key))' = Body(key),
         artifacts' \subseteq ArtifactType, artifacts = {} <=> artifacts' = {},
         \A a : Carried(a) => Carried(a)',
         (\A a, b \in artifacts : a = b) => \A a, b \in artifacts' : a = b,
         EvidenceIsCurrent'
  PROVE  ProjectionInv'
<1>1. /\ Committed(IntentKey)' <=> Committed(IntentKey)
      /\ Committed(AttemptKey)' <=> Committed(AttemptKey)
      /\ Committed(EnvelopeOf)' <=> Committed(EnvelopeOf)
      /\ Committed(IntentKey) => Body(IntentKey)' = Body(IntentKey)
      /\ Committed(AttemptKey) => Body(AttemptKey)' = Body(AttemptKey)
      /\ Committed(EnvelopeOf) => Body(EnvelopeOf)' = Body(EnvelopeOf)
  BY DEF SlotKeys
<1>2. ClaimsHold'
  BY <1>1 DEF ProjectionInv, ClaimsHold
<1>3. AttemptOfIntent' /\ EnvelopeOfClaim'
  BY <1>1 DEF ProjectionInv, AttemptOfIntent, EnvelopeOfClaim
<1>4. NoneShared' => OneSends'
  BY <1>1 DEF ProjectionInv, NoneShared, OneSends
<1> QED
  BY <1>2, <1>3, <1>4 DEF ProjectionInv

(* A request is carried out, found, edited or deleted: it stays the        *)
(* request of its call.                                                    *)
LEMMA GitHubKeeps == ProjectionInv /\ GitHubStep => ProjectionInv'
<1> SUFFICES ASSUME ProjectionInv, GitHubStep PROVE ProjectionInv'
  OBVIOUS
<1>1. UNCHANGED <<storeVars, projection, evidence>>
  BY DEF GitHubStep
<1>2. PICK a \in artifacts, b \in ArtifactType :
         Edit(a, b) /\ b.by = a.by /\ b.state # "sent"
  <2>1. PICK a \in artifacts :
           \/ a.state = "sent" /\ Edit(a, [a EXCEPT !.state = "created"])
           \/ a.state = "created" /\ Edit(a, [a EXCEPT !.state = "indexed"])
           \/ /\ a.state # "sent"
              /\ \E x \in Payloads \cup {Nothing} :
                    Edit(a, [a EXCEPT !.content = x, !.edits = @ + 1])
    BY DEF GitHubStep
  <2>2. a \in ArtifactType
    BY DEF ProjectionInv
  <2>3. ASSUME NEW state \in {"created", "indexed"}, Edit(a, [a EXCEPT !.state = state])
        PROVE  \E b \in ArtifactType : Edit(a, b) /\ b.by = a.by /\ b.state # "sent"
    <3>1. /\ [a EXCEPT !.state = state] \in ArtifactType
          /\ [a EXCEPT !.state = state].by = a.by /\ [a EXCEPT !.state = state].state = state
      BY <2>2 DEF ArtifactType
    <3> QED
      BY <2>3, <3>1
  <2>4. ASSUME NEW x \in Payloads \cup {Nothing}, a.state # "sent",
               Edit(a, [a EXCEPT !.content = x, !.edits = @ + 1])
        PROVE  \E b \in ArtifactType : Edit(a, b) /\ b.by = a.by /\ b.state # "sent"
    <3>1. PICK n \in Nat : n = a.edits + 1
      BY <2>2 DEF ArtifactType
    <3>2. PICK b : b = [a EXCEPT !.content = x, !.edits = n]
      OBVIOUS
    <3>3. b \in ArtifactType /\ b.by = a.by /\ b.state # "sent"
      BY <2>2, <2>4, <3>2 DEF ArtifactType
    <3>4. Edit(a, b)
      BY <2>4, <3>1, <3>2, Zenon
    <3> QED
      BY <3>3, <3>4
  <2> QED
    BY <2>1, <2>3, <2>4
<1>3. artifacts' = (artifacts \ {a}) \cup {b}
  BY <1>2 DEF Edit
<1>4. \A artifact : Carried(artifact) => Carried(artifact)'
  BY <1>2, <1>3 DEF Carried
<1>5. HistoryOK' /\ BodiesUnique' /\ EvidenceIsCurrent'
  BY <1>1 DEF ProjectionInv, storeVars, HistoryOK, BodiesUnique, EvidenceIsCurrent,
     SlotKeys, IntentKey, AttemptKey, EnvelopeOf, TransactionKey
<1>6. \A key \in SlotKeys :
         (Committed(key)' <=> Committed(key)) /\ (Body(key))' = Body(key)
  BY <1>1 DEF storeVars, Committed, Body
<1>7. /\ artifacts' \subseteq ArtifactType
      /\ artifacts = {} <=> artifacts' = {}
      /\ (\A x, y \in artifacts : x = y) => \A x, y \in artifacts' : x = y
  BY <1>2, <1>3 DEF ProjectionInv
<1> QED
  BY <1>1, <1>4, <1>5, <1>6, <1>7, SlotKeeps

(* The request: the only one, as its call is the only one past the intent. *)
LEMMA MaterializeKeeps ==
  ASSUME ProjectionInv, NEW p \in Projections, Materialize(p) PROVE ProjectionInv'
<1>1. /\ projection[p].pc = "post" /\ projection[p] \in ProjectionType
      /\ UNCHANGED <<storeVars, evidence>> /\ Committed(AttemptKey)
  BY DEF Materialize, On, ProjectionInv, ClaimsHold
<1>2. PICK r : r = [projection[p] EXCEPT !.pc = "answer"]
  OBVIOUS
<1>3. /\ r \in ProjectionType /\ r.pc = "answer" /\ r.shared = projection[p].shared
      /\ r.claim = projection[p].claim
  BY <1>1, <1>2 DEF ProjectionType, Over
<1>4. Set(p, r)
  BY <1>2, Zenon DEF Materialize, Proceed
<1>5. /\ projection' \in [Projections -> ProjectionType] /\ projection'[p] = r
      /\ \A q \in Projections \ {p} : projection'[q] = projection[q]
  BY <1>3, <1>4 DEF ProjectionInv, Set
<1>6. PICK a \in ArtifactType : artifacts' = artifacts \cup {a}
  <2>1. projection[p].payload \in Payloads \cup {Nothing}
    BY <1>1 DEF ProjectionType
  <2> QED
    BY <2>1 DEF Materialize, ArtifactType
<1>7. \A artifact : Carried(artifact) => Carried(artifact)'
  BY <1>6 DEF Carried
<1>8. /\ HistoryOK' /\ BodiesUnique' /\ AttemptOfIntent' /\ EvidenceIsCurrent'
      /\ artifacts' \subseteq ArtifactType
  BY <1>1, <1>6 DEF ProjectionInv, storeVars, HistoryOK, BodiesUnique, AttemptOfIntent,
     EvidenceIsCurrent, Committed, Body, SlotKeys, IntentKey, AttemptKey, EnvelopeOf,
     TransactionKey
<1>9. /\ Committed(IntentKey)' <=> Committed(IntentKey)
      /\ Committed(AttemptKey)' <=> Committed(AttemptKey)
      /\ Committed(EnvelopeOf)' <=> Committed(EnvelopeOf)
      /\ Body(IntentKey)' = Body(IntentKey) /\ Body(EnvelopeOf)' = Body(EnvelopeOf)
  BY <1>1 DEF storeVars, Committed, Body, IntentKey, AttemptKey, EnvelopeOf
<1>10. EnvelopeOfClaim'
  BY <1>7, <1>9 DEF ProjectionInv, EnvelopeOfClaim
<1>11. ClaimsHold'
  <2>1. ASSUME NEW q \in Projections
        PROVE  /\ projection'[q].pc \in PastIntent =>
                     Committed(IntentKey) /\ Body(IntentKey) = projection'[q].claim
               /\ projection'[q].pc \in {"post", "answer"} => Committed(AttemptKey)
               /\ projection'[q].pc \in {"load", "envelope"} =>
                     Carried(projection'[q].artifact)
               /\ projection'[q].pc = "idle" => ~projection'[q].shared
    <3>1. CASE q = p
      BY <1>1, <1>3, <1>5, <3>1 DEF ProjectionInv, ClaimsHold, PastIntent
    <3>2. CASE q # p
      BY <1>5, <3>2 DEF ProjectionInv, ClaimsHold
    <3> QED
      BY <3>1, <3>2
  <2> QED
    BY <1>1, <1>7, <1>9, <2>1 DEF ClaimsHold, PastIntent
<1>12. ASSUME NoneShared' PROVE OneSends'
  <2>1. NoneShared
    BY <1>3, <1>5, <1>12 DEF NoneShared
  <2>2. OneSends /\ artifacts = {}
    BY <1>1, <2>1 DEF ProjectionInv, OneSends
  <2>3. ASSUME NEW x \in Projections, NEW y \in Projections, x # y,
               projection'[x].pc \notin Over, projection'[y].pc \notin Over
        PROVE  projection'[x].claim.token # projection'[y].claim.token
    <3>1. \A q \in {x, y} : projection[q].pc \notin Over
                           /\ projection'[q].claim = projection[q].claim
      BY <1>1, <1>3, <1>5, <2>3 DEF Over
    <3> QED
      BY <2>2, <2>3, <3>1 DEF OneSends
  <2>4. ASSUME NEW q \in Projections, projection'[q].pc \in {"attempt", "post"}
        PROVE  FALSE
    <3>1. q # p /\ projection[q].pc \in {"attempt", "post"}
      BY <1>3, <1>5, <2>4
    <3> QED
      BY <1>1, <2>1, <3>1, OneClaims DEF PastIntent
  <2>5. \A x, y \in artifacts' : x = y
    BY <1>6, <2>2
  <2> QED
    BY <2>3, <2>4, <2>5 DEF OneSends, Over
<1> QED
  BY <1>5, <1>8, <1>10, <1>11, <1>12 DEF ProjectionInv

(* What is handed off is observed in the very step. *)
LEMMA HandOffKeeps ==
  ASSUME ProjectionInv, NEW p \in Projections, HandOffReceipt(p) PROVE ProjectionInv'
<1>1. UNCHANGED <<storeVars, projection, artifacts>>
  BY DEF HandOffReceipt
<1>2. EvidenceIsCurrent'
  <2>1. PICK status \in Reobserved(p) :
           evidence' = [status |-> status,
                        true |-> Classified(Body(EnvelopeOf).artifact,
                                            Body(EnvelopeOf).payload)]
    BY DEF HandOffReceipt
  <2>2. status \in {Classified(Body(EnvelopeOf).artifact, Body(EnvelopeOf).payload),
                    "UNAVAILABLE"}
    BY DEF Reobserved, Observations
  <2> QED
    BY <2>1, <2>2 DEF EvidenceIsCurrent
<1>3. HistoryOK' /\ BodiesUnique'
  BY <1>1 DEF ProjectionInv, storeVars, HistoryOK, BodiesUnique,
     SlotKeys, IntentKey, AttemptKey, EnvelopeOf, TransactionKey
<1>4. \A key \in SlotKeys :
         (Committed(key)' <=> Committed(key)) /\ (Body(key))' = Body(key)
  BY <1>1 DEF storeVars, Committed, Body
<1>5. artifacts' \subseteq ArtifactType /\ \A a : Carried(a) => Carried(a)'
  BY <1>1 DEF ProjectionInv, Carried
<1> QED
  BY <1>1, <1>2, <1>3, <1>4, <1>5, SlotKeeps

(* Whatever is committed under other keys. *)
LEMMA ProjectionOthersKeep == ProjectionInv /\ ProjectionOthers => ProjectionInv'
<1> SUFFICES ASSUME ProjectionInv, ProjectionOthers PROVE ProjectionInv'
  OBVIOUS
<1>1. /\ UNCHANGED <<projection, artifacts, evidence>> /\ artifacts' \subseteq ArtifactType
      /\ EvidenceIsCurrent' /\ \A a : Carried(a) => Carried(a)'
  BY DEF ProjectionOthers, projectionVars, ProjectionInv, EvidenceIsCurrent, Carried
<1>2. ASSUME NEW c \in Contents, Transition(c) PROVE ProjectionInv'
  <2>1. HistoryOK' /\ records' = records
    BY <1>2, TransitionGrows DEF ProjectionInv
  <2>2. BodiesUnique'
    BY <2>1 DEF ProjectionInv, BodiesUnique, SlotKeys, IntentKey, AttemptKey, EnvelopeOf,
                TransactionKey
  <2>3. \A key \in SlotKeys :
           (Committed(key)' <=> Committed(key)) /\ (Body(key))' = Body(key)
    BY <2>1 DEF Committed, Body
  <2> QED
    BY <1>1, <2>1, <2>2, <2>3, SlotKeeps
<1>3. ASSUME NEW new, \A n \in new : n.key \notin SlotKeys, CommitRecords(new)
      PROVE  ProjectionInv'
  <2>1. /\ HistoryOK' /\ new \subseteq records'
        /\ \A r \in records' : r \in records \/ r \in new
        /\ records' = {r \in records : \A n \in new : r.key # n.key} \cup new
    BY <1>3, CommitGrows DEF ProjectionInv, CommitRecords
  <2>2. \A r : r.key \in SlotKeys => (r \in records' <=> r \in records)
    BY <1>3, <2>1
  <2>3. BodiesUnique'
    <3>1. \A r, s \in records' : r.key \in SlotKeys /\ r.key = s.key => r.body = s.body
      BY <2>2 DEF ProjectionInv, BodiesUnique
    <3> QED
      BY <3>1 DEF BodiesUnique, SlotKeys, IntentKey, AttemptKey, EnvelopeOf, TransactionKey
  <2>4. ASSUME NEW key \in SlotKeys
        PROVE  /\ Committed(key)' <=> Committed(key)
               /\ Committed(key) => (Body(key))' = Body(key)
    <3>1. Committed(key)' <=> Committed(key)
      BY <2>2 DEF Committed
    <3>2. ASSUME Committed(key) PROVE (Body(key))' = Body(key)
      <4>1. PICK r \in records : r.key = key
        BY <3>2 DEF Committed
      <4>2. Body(key) = r.body
        BY <4>1, BodyIs DEF ProjectionInv
      <4>3. PICK c : c = (CHOOSE s \in records' : s.key = key)
        OBVIOUS
      <4>4. c \in records' /\ c.key = key
        BY <2>2, <4>1, <4>3
      <4>5. c.body = r.body
        BY <2>2, <4>1, <4>4 DEF ProjectionInv, BodiesUnique
      <4> QED
        BY <4>2, <4>3, <4>5 DEF Body
    <3> QED
      BY <3>1, <3>2
  <2> QED
    BY <1>1, <2>1, <2>3, <2>4, SlotKeeps
<1> QED
  BY <1>2, <1>3 DEF ProjectionOthers

(* Every step of every call, of GitHub and of the others. *)
LEMMA ProjectionInvNext ==
  ProjectionInv /\ [ProjectionNext \/ ProjectionOthers]_<<storeVars, projectionVars>>
    => ProjectionInv'
<1> SUFFICES ASSUME ProjectionInv,
                    [ProjectionNext \/ ProjectionOthers]_<<storeVars, projectionVars>>
             PROVE  ProjectionInv'
  OBVIOUS
<1>1. ASSUME NEW p \in Projections, ProjectionStep(p) PROVE ProjectionInv'
  <2>1. CASE ProjectionEnds(p)
    BY <2>1, RefusedKeeps DEF ProjectionEnds
  <2>2. CASE \E c \in Claims, x \in Payloads, r \in BOOLEAN : Project(p, c, x, r)
    BY <2>2, ProjectKeeps
  <2> QED
    BY <1>1, <2>1, <2>2, AuthorizeKeeps, ClaimIntentKeeps, SearchKeeps, CheckAttemptKeeps,
       ClaimAttemptKeeps, MaterializeKeeps, LoadKeeps, CommitEnvelopeKeeps,
       ObserveReceiptKeeps, HandOffKeeps DEF ProjectionStep
<1>2. CASE GitHubStep
  BY <1>2, GitHubKeeps
<1>3. CASE ProjectionOthers
  BY <1>3, ProjectionOthersKeep
<1>4. CASE UNCHANGED <<storeVars, projectionVars>>
  <2>1. HistoryOK' /\ BodiesUnique' /\ EvidenceIsCurrent'
    BY <1>4 DEF ProjectionInv, storeVars, projectionVars, HistoryOK, BodiesUnique,
       EvidenceIsCurrent, SlotKeys, IntentKey, AttemptKey, EnvelopeOf, TransactionKey
  <2>2. \A key \in SlotKeys :
           (Committed(key)' <=> Committed(key)) /\ (Body(key))' = Body(key)
    BY <1>4 DEF storeVars, Committed, Body
  <2>3. artifacts' \subseteq ArtifactType /\ \A a : Carried(a) => Carried(a)'
    BY <1>4 DEF ProjectionInv, projectionVars, Carried
  <2> QED
    BY <1>4, <2>1, <2>2, <2>3, SlotKeeps DEF projectionVars
<1> QED
  BY <1>1, <1>2, <1>3, <1>4 DEF ProjectionNext

(* However calls with different claims overlap, die and are repeated,      *)
(* however long GitHub takes and whatever others commit: one request at    *)
(* most is sent, the artifact that is bound is that of the claim that owns *)
(* the slot, and what reaches Evidence as verified is so at that moment.   *)
THEOREM ProjectionsHold == ProjectionSpec => []ProjectionSound
<1>1. StoreInit /\ ProjectionInit => ProjectionInv
  <2> SUFFICES ASSUME StoreInit, ProjectionInit PROVE ProjectionInv
    OBVIOUS
  <2>1. HistoryOK /\ records = {}
    BY HistoryInit DEF StoreInit
  <2>2. NoProjection \in ProjectionType /\ NoProjection.pc = "idle" /\ ~NoProjection.shared
    BY DEF NoProjection, ProjectionType, Over
  <2>3. \A p \in Projections : projection[p] = NoProjection
    BY DEF ProjectionInit
  <2>4. projection \in [Projections -> ProjectionType] /\ artifacts = {}
    BY <2>2 DEF ProjectionInit
  <2>5. EvidenceIsCurrent
    BY DEF ProjectionInit, EvidenceIsCurrent
  <2>6. \A key : ~Committed(key)
    BY <2>1 DEF Committed
  <2>7. ClaimsHold /\ AttemptOfIntent /\ EnvelopeOfClaim /\ OneSends /\ BodiesUnique
    BY <2>1, <2>2, <2>3, <2>4, <2>6
       DEF ClaimsHold, PastIntent, AttemptOfIntent, EnvelopeOfClaim, OneSends, BodiesUnique, Over
  <2> QED
    BY <2>1, <2>4, <2>5, <2>7 DEF ProjectionInv
<1>2. ProjectionInv => ProjectionSound
  <2> SUFFICES ASSUME ProjectionInv PROVE ProjectionSound
    OBVIOUS
  <2>1. OnePost
    <3>1. ASSUME NoneShared PROVE Cardinality(artifacts) <= 1
      <4>1. \A a, b \in artifacts : a = b
        BY <3>1 DEF ProjectionInv, OneSends
      <4>2. CASE artifacts = {}
        BY <4>2, FS_EmptySet
      <4>3. ASSUME NEW a \in artifacts PROVE Cardinality(artifacts) <= 1
        <5>1. artifacts = {a}
          BY <4>1, <4>3
        <5> QED
          BY <5>1, FS_Singleton
      <4> QED
        BY <4>2, <4>3
    <3> QED
      BY <3>1 DEF OnePost, NoneShared
  <2>2. OneOwner
    BY DEF ProjectionInv, AttemptOfIntent, EnvelopeOfClaim, Carried, OneOwner
  <2> QED
    BY <2>1, <2>2 DEF ProjectionInv, ProjectionSound
<1> QED
  BY <1>1, <1>2, ProjectionInvNext, PTL DEF ProjectionSpec

-----------------------------------------------------------------------------
(* The notices of a work unit, for any callers, clocks and bounds. *)

(* n may be published directly behind chain[i]. *)
BehindAt(n, i) ==
    /\ chain[i].kind # "terminal" /\ n.kind # "open"
    /\ n.after = KeyOf(chain[i])
    /\ n.kind = "update" => KeyOf(chain[i]) = UpdateKey(n.seq - 1)
    /\ n.time >= chain[i].time
    /\ n.late <=> Elapsed(n.time) > chain[i].due

Behind(n) == n.kind = "open" \/ \E i \in DOMAIN chain : BehindAt(n, i)

Reporting == {"ResolveTerminal", "ResolvePredecessor", "CommitUpdate"}

(* What a caller's variables say of the chain. *)
CallOK(c) ==
    /\ c.pc = "Open" => c.notice \in NoticeType /\ c.notice.kind = "open"
    /\ c.pc # "idle" => c.opened \in Seconds /\ c.told = None
    /\ c.pc \notin {"idle", "Open"} => c.tip \in Key
    /\ c.pc \in Reporting =>
          c.notice \in NoticeType /\ c.notice.kind = "update"
    /\ c.pc \in {"ResolveTip", "CommitTerminal"} =>
          c.notice \in NoticeType /\ c.notice.kind = "terminal"
    /\ c.pc \in {"CommitUpdate", "CommitTerminal"} => Behind(c.notice)
    /\ c.told \in Outcome =>
          \E i \in Published(TerminalKey) : chain[i].outcome = c.told

ChainOK ==
    /\ ChainContiguous /\ NothingAfterTerminal
    /\ TimesMonotone /\ LatenessRecorded

WorkTimeInv == TypeOK /\ ChainOK /\ \A p \in Callers : CallOK(call[p])

-----------------------------------------------------------------------------
(* Rounding to minutes is off by half a minute at most. *)
LEMMA NearestFact ==
  ASSUME NEW s \in Nat
  PROVE  /\ NearestMinute(s) \in Nat
         /\ 60 * NearestMinute(s) <= s + 30 /\ s <= 60 * NearestMinute(s) + 30
<1>1. \A k \in {29, 30} : /\ (s + k) \div 60 \in Nat
                          /\ 60 * ((s + k) \div 60) <= s + 30
                          /\ s <= 60 * ((s + k) \div 60) + 30
  OBVIOUS
<1> QED
  BY <1>1 DEF NearestMinute

(* A deadline is a number of minutes. *)
LEMMA DueIsNatural ==
  ASSUME NEW x \in NoticeType
  PROVE  x.due \in Nat
<1>1. CASE x \in [kind : {"open"}, seq : {0}, after : {None}, time : Seconds,
                  due : Minutes, late : {FALSE}, outcome : {None}]
  BY <1>1, TimeAssumption
<1>2. CASE x \in [kind : {"update"}, seq : Nat \ {0}, after : Key, time : Seconds,
                  due : Minutes, late : BOOLEAN, outcome : {None}]
  BY <1>2, TimeAssumption
<1>3. CASE x \in [kind : {"terminal"}, seq : {0}, after : Key, time : Seconds,
                  due : {0}, late : BOOLEAN, outcome : Outcome]
  BY <1>3, TimeAssumption
<1> QED
  BY <1>1, <1>2, <1>3 DEF NoticeType

(* Hence a deadline found missed is, and one missed by more is found so. *)
LEMMA LatenessFact ==
  ASSUME NEW s \in Nat, NEW due \in Nat
  PROVE  /\ NearestMinute(s) > due => s > 60 * due
         /\ s > 60 * due + 30 => NearestMinute(s) > due
<1>1. PICK m \in Nat : /\ m = NearestMinute(s)
                       /\ 60 * m <= s + 30 /\ s <= 60 * m + 30
  BY NearestFact
<1> QED
  BY <1>1

(* A notice is one of the three kinds, and each kind numbers itself. *)
LEMMA NoticeKinds ==
  ASSUME NEW n \in NoticeType
  PROVE  /\ n.kind \in {"open", "update", "terminal"}
         /\ n.kind = "update" => n.seq \in Nat \ {0}
         /\ n.kind # "update" => n.seq = 0
         /\ n.time \in Nat /\ KeyOf(n) \in Key
BY TimeAssumption DEF NoticeType, KeyOf, Key

(* A published notice keeps the chain in order. *)
LEMMA PublishKeeps ==
  ASSUME chain \in Seq(NoticeType), ChainOK, NEW n \in NoticeType, Publish(n),
         Behind(n)
  PROVE  chain' \in Seq(NoticeType) /\ ChainOK'
<1> DEFINE m == Len(chain)
<1>1. /\ chain' \in Seq(NoticeType) /\ m \in Nat /\ Len(chain') = m + 1
      /\ DOMAIN chain = 1 .. m /\ DOMAIN chain' = 1 .. m + 1
      /\ chain'[m + 1] = n
      /\ \A i \in 1 .. m : chain'[i] = chain[i] /\ chain[i] \in NoticeType
  BY AppendProperties DEF Publish
<1>2. CASE n.kind = "open"
  <2>1. n.seq = 0
    BY <1>2 DEF NoticeType
  <2>2. \A i \in 1 .. m : KeyOf(chain[i]) # KeyOf(n)
    BY <1>1 DEF Publish, Published
  <2>3. m = 0
    <3> SUFFICES ASSUME m > 0 PROVE FALSE
      BY <1>1
    <3>1. chain[1].kind = "open" /\ chain[1] \in NoticeType
      BY <1>1 DEF ChainOK, ChainContiguous
    <3>2. chain[1].seq = 0
      BY <3>1 DEF NoticeType
    <3> QED
      BY <1>1, <1>2, <2>1, <2>2, <3>1, <3>2 DEF KeyOf
  <2>4. n.time \in Nat
    BY TimeAssumption DEF NoticeType
  <2> QED
    BY <1>1, <1>2, <2>3, <2>4
       DEF ChainOK, ChainContiguous, NothingAfterTerminal, TimesMonotone,
           LatenessRecorded
<1>3. CASE n.kind # "open"
  <2>1. PICK k \in 1 .. m : BehindAt(n, k)
    BY <1>1, <1>3 DEF Behind
  <2>2. n.after = KeyOf(chain[m])
    BY <1>1, <2>1 DEF Publish, AtTip
  <2>3. k = m
    <3>1. chain[k].kind = chain[m].kind /\ chain[k].seq = chain[m].seq
      BY <2>1, <2>2 DEF BehindAt, KeyOf
    <3>2. m \in 1 .. m
      BY <1>1
    <3>3. chain[k].kind \in {"open", "update"}
      BY <1>1, <2>1, NoticeKinds DEF BehindAt
    <3>4. CASE chain[k].kind = "open"
      <4>1. k = 1 /\ m = 1
        BY <1>1, <3>1, <3>2, <3>4 DEF ChainOK, ChainContiguous
      <4> QED
        BY <4>1
    <3>5. CASE chain[k].kind = "update"
      <4>1. chain[k].seq = k - 1 /\ chain[m].seq = m - 1
        BY <1>1, <3>1, <3>2, <3>5 DEF ChainOK, ChainContiguous
      <4> QED
        <5>1. k \in Nat /\ m \in Nat
          BY <1>1
        <5>2. k - 1 = m - 1
          BY <3>1, <4>1
        <5> QED
          BY <5>1, <5>2
    <3> QED
      BY <3>3, <3>4, <3>5
  <2>4. n.kind = "update" => n.seq = m
    <3>1. n.kind = "update" => n.seq \in Nat \ {0}
      BY DEF NoticeType
    <3>2. n.kind = "update" => chain[m].seq = n.seq - 1
      BY <2>1, <2>3, <3>1 DEF BehindAt, KeyOf, UpdateKey, OpenKey
    <3>3. chain[m].kind = "open" => m = 1 /\ chain[m].seq = 0
      BY <1>1, <2>1, <2>3 DEF ChainOK, ChainContiguous, NoticeType
    <3>4. chain[m].kind = "update" => chain[m].seq = m - 1
      BY <1>1, <2>1, <2>3 DEF ChainOK, ChainContiguous
    <3>5. chain[m].kind \in {"open", "update"}
      BY <1>1, <2>1, <2>3 DEF BehindAt, NoticeType
    <3> QED
      BY <1>1, <3>1, <3>2, <3>3, <3>4, <3>5
  <2>5. ChainContiguous'
    <3> SUFFICES ASSUME NEW i \in 1 .. m + 1
                 PROVE  /\ chain'[i].kind = "open" <=> i = 1
                        /\ chain'[i].kind = "update" => chain'[i].seq = i - 1
                        /\ i > 1 => chain'[i].after = KeyOf(chain'[i - 1])
      BY <1>1 DEF ChainContiguous, KeyOf
    <3>1. m \in 1 .. m
      BY <1>1, <2>1
    <3>2. CASE i \in 1 .. m
      <4>1. i > 1 => i - 1 \in 1 .. m
        BY <1>1
      <4> QED
        BY <1>1, <3>2, <4>1 DEF ChainOK, ChainContiguous
    <3>3. CASE i = m + 1
      BY <1>1, <1>3, <2>2, <2>4, <3>1, <3>3
    <3> QED
      BY <1>1, <3>2, <3>3
  <2>6. NothingAfterTerminal'
    BY <1>1, <2>1, <2>3 DEF ChainOK, NothingAfterTerminal, BehindAt
  <2>7. n.time \in Nat /\ \A i \in 1 .. m : chain[i].time \in Nat
    BY <1>1, TimeAssumption DEF NoticeType
  <2>8. TimesMonotone'
    BY <1>1, <2>1, <2>3, <2>7 DEF ChainOK, TimesMonotone, BehindAt
  <2>9. chain[1].time <= n.time
    BY <1>1, <2>1, <2>3, <2>7 DEF ChainOK, TimesMonotone, BehindAt
  <2>10. /\ n.late => n.time - chain[1].time > 60 * chain[m].due
         /\ n.time - chain[1].time > 60 * chain[m].due + 30 => n.late
    <3>1. /\ n.time - chain[1].time \in Nat /\ chain[m].due \in Nat
          /\ n.late <=> NearestMinute(n.time - chain[1].time) > chain[m].due
      <4>1. chain[m] \in NoticeType /\ chain[1].time \in Nat
        BY <1>1, <2>1, <2>3, <2>7
      <4>2. chain[m].due \in Nat
        BY <4>1, DueIsNatural
      <4>3. n.late <=> Elapsed(n.time) > chain[m].due
        BY <2>1, <2>3 DEF BehindAt
      <4> QED
        BY <2>7, <2>9, <4>1, <4>2, <4>3 DEF Elapsed
    <3> QED
      BY <3>1, LatenessFact
  <2>11. LatenessRecorded'
    BY <1>1, <2>10, <2>1 DEF ChainOK, LatenessRecorded
  <2> QED
    BY <1>1, <2>5, <2>6, <2>8, <2>11 DEF ChainOK
<1> QED
  BY <1>2, <1>3

(* What a caller knows of the chain stays true as the chain grows. *)
LEMMA GrowthKeeps ==
  ASSUME chain \in Seq(NoticeType),
         NEW n, (n \in NoticeType /\ Publish(n)) \/ UNCHANGED chain,
         NEW c, CallOK(c)
  PROVE  CallOK(c)'
<1>1. CASE UNCHANGED chain
  BY <1>1 DEF CallOK, Behind, BehindAt, Published, Elapsed
<1>2. CASE n \in NoticeType /\ Publish(n)
  <2>1. \A i \in DOMAIN chain : i \in DOMAIN chain' /\ chain'[i] = chain[i]
    BY <1>2, AppendProperties DEF Publish
  <2>2. \A k : Published(k) \subseteq Published(k)'
    BY <2>1 DEF Published
  <2>3. \A x, i : i \in DOMAIN chain /\ BehindAt(x, i) => BehindAt(x, i)'
    <3> TAKE x, i
    <3> HAVE i \in DOMAIN chain /\ BehindAt(x, i)
    <3>1. 1 \in DOMAIN chain
      OBVIOUS
    <3> QED
      BY <2>1, <3>1 DEF BehindAt, Elapsed
  <2>4. \A x : Behind(x) => Behind(x)'
    BY <2>1, <2>3 DEF Behind
  <2>5. \A i \in Published(TerminalKey) : chain'[i] = chain[i]
    BY <2>1 DEF Published
  <2> QED
    BY <2>2, <2>4, <2>5 DEF CallOK
<1> QED
  BY <1>1, <1>2

-----------------------------------------------------------------------------
(* A step of p: the chain grows by a notice that may stand where it is put, *)
(* or stays, and p's new variables say no more than is so.                  *)
Grows == UNCHANGED chain
         \/ \E n \in NoticeType : Publish(n) /\ Behind(n)

LEMMA Becomes ==
  ASSUME WorkTimeInv, Grows, NEW p \in Callers,
         call' = [call EXCEPT ![p] = call'[p]],
         call'[p] \in CallType, CallOK(call[p])'
  PROVE  WorkTimeInv'
<1>1. chain' \in Seq(NoticeType) /\ ChainOK'
  <2>1. CASE UNCHANGED chain
    BY <2>1 DEF WorkTimeInv, TypeOK, ChainOK, ChainContiguous,
                NothingAfterTerminal, TimesMonotone, LatenessRecorded
  <2>2. CASE \E n \in NoticeType : Publish(n) /\ Behind(n)
    BY <2>2, PublishKeeps DEF WorkTimeInv, TypeOK
  <2> QED
    BY <2>1, <2>2 DEF Grows
<1>2. call' \in [Callers -> CallType]
      /\ \A q \in Callers \ {p} : call'[q] = call[q]
  BY DEF WorkTimeInv, TypeOK
<1>3. \A q \in Callers : CallOK(call[q])'
  <2> SUFFICES ASSUME NEW q \in Callers, q # p PROVE CallOK(call[q])'
    OBVIOUS
  <2>1. PICK d : d = call[q]
    OBVIOUS
  <2>2. CallOK(d)
    BY <2>1 DEF WorkTimeInv, CallOK
  <2>3. CallOK(d)'
    BY <2>2, GrowthKeeps DEF WorkTimeInv, TypeOK, Grows
  <2>4. call'[q] = d
    BY <1>2, <2>1
  <2> QED
    BY <2>3, <2>4 DEF CallOK
<1> QED
  BY <1>1, <1>2, <1>3 DEF WorkTimeInv, TypeOK

(* A call that ends without an outcome leaves no claim about the chain. *)
LEMMA EndKeeps ==
  ASSUME WorkTimeInv, Grows, NEW p \in Callers,
         End(p, None) \/ End(p, "refused")
  PROVE  WorkTimeInv'
<1>1. /\ call' = [call EXCEPT ![p] = call'[p]]
      /\ \/ call'[p] = [NoCall EXCEPT !.told = None]
         \/ call'[p] = [NoCall EXCEPT !.told = "refused"]
  BY DEF WorkTimeInv, TypeOK, End, Become
<1>2. call'[p] \in CallType /\ CallOK(call[p])'
  BY <1>1, AbsentAssumption DEF NoCall, CallType, CallOK, Outcome, Reporting
<1> QED
  BY <1>1, <1>2, Becomes

(* report(): its caller keeps the tip it had, chain or no chain. *)
LEMMA ReportRaisesKeeps ==
  ASSUME WorkTimeInv, Grows, NEW p \in Callers, call[p].pc \in Reporting,
         ReportRaises(p)
  PROVE  WorkTimeInv'
<1>1. call[p] \in CallType /\ CallOK(call[p])
  BY DEF WorkTimeInv, TypeOK
<1>2. /\ call' = [call EXCEPT ![p] = call'[p]]
      /\ call'[p] = [call[p] EXCEPT !.pc = "Perform", !.notice = None]
  BY DEF WorkTimeInv, TypeOK, ReportRaises, Become
<1>3. call'[p] \in CallType
  BY <1>1, <1>2 DEF CallType
<1>4. CallOK(call[p])'
  BY <1>1, <1>2, AbsentAssumption DEF CallOK, CallType, Reporting, Outcome
<1> QED
  BY <1>2, <1>3, <1>4, Becomes

-----------------------------------------------------------------------------
(* Every step of a caller keeps the invariant. *)
LEMMA StepKeeps ==
  ASSUME WorkTimeInv, NEW p \in Callers, Step(p)
  PROVE  WorkTimeInv'
<1> DEFINE c == call[p]
<1>1. /\ chain \in Seq(NoticeType) /\ call \in [Callers -> CallType]
      /\ c \in CallType /\ CallOK(c) /\ ChainOK
  BY DEF WorkTimeInv, TypeOK
<1>2. ASSUME NEW time \in Seconds, NEW due \in Minutes, Begin(p, time, due)
      PROVE  WorkTimeInv'
  <2> DEFINE n == Notice(OpenKey, None, time, due, FALSE, None)
  <2>1. n \in NoticeType /\ n.kind = "open"
    BY DEF Notice, OpenKey, NoticeType
  <2>2. /\ call' = [call EXCEPT ![p] = call'[p]]
        /\ call'[p] = [NoCall EXCEPT !.pc = "Open", !.opened = time,
                                     !.notice = n]
    BY <1>1, <1>2 DEF Begin, Become
  <2>3. call'[p] \in CallType
    <3> HIDE DEF n
    <3>1. NoCall \in CallType
      BY DEF CallType, NoCall
    <3> QED
      BY <2>1, <2>2, <3>1 DEF CallType
  <2>4. CallOK(call[p])'
    BY <2>1, <2>2, AbsentAssumption DEF CallOK, NoCall, Reporting, Outcome
  <2> QED
    BY <1>2, <2>2, <2>3, <2>4, Becomes DEF Begin, Grows
<1>3. ASSUME NEW time \in Seconds, NEW due \in Minutes, Report(p, time, due)
      PROVE  WorkTimeInv'
  <2> DEFINE n == Notice(UpdateKey(c.seq + 1), c.tip, time, due, FALSE, None)
  <2>1. c.pc = "Perform" /\ c.tip \in Key /\ c.opened \in Seconds
        /\ c.seq + 1 \in Nat \ {0} /\ c.told = None
    BY <1>1, <1>3 DEF Report, At, CallOK, CallType
  <2>2. n \in NoticeType /\ n.kind = "update"
    BY <2>1 DEF Notice, UpdateKey, NoticeType
  <2>3. /\ call' = [call EXCEPT ![p] = call'[p]]
        /\ call'[p] = [c EXCEPT !.pc = "ResolveTerminal", !.seq = c.seq + 1,
                                !.notice = n]
    BY <1>1, <1>3 DEF Report, NextSequence, Become
  <2>4. call'[p] \in CallType
    <3> HIDE DEF n
    <3> QED
      BY <1>1, <2>1, <2>2, <2>3 DEF CallType
  <2>5. CallOK(call[p])'
    BY <1>1, <2>1, <2>2, <2>3, AbsentAssumption
       DEF CallOK, CallType, Reporting, Outcome
  <2> QED
    BY <1>3, <2>3, <2>4, <2>5, Becomes DEF Report, Grows
<1>4. ASSUME Open(p) PROVE WorkTimeInv'
  <2>1. c.pc = "Open" /\ c.notice \in NoticeType /\ Behind(c.notice)
        /\ c.told = None /\ c.opened \in Seconds
    BY <1>1, <1>4 DEF Open, At, CallOK, Behind
  <2>2. CASE Commit(c.notice)
             /\ Become(p, [c EXCEPT !.pc = "Perform", !.tip = OpenKey,
                                    !.notice = None])
    <3>1. Grows /\ OpenKey \in Key
      BY <2>1, <2>2 DEF Commit, Grows, OpenKey, Key
    <3>2. /\ call' = [call EXCEPT ![p] = call'[p]]
          /\ call'[p] = [c EXCEPT !.pc = "Perform", !.tip = OpenKey,
                                  !.notice = None]
      BY <1>1, <2>2 DEF Become
    <3>3. call'[p] \in CallType
      BY <1>1, <3>1, <3>2 DEF CallType
    <3>4. CallOK(call[p])'
      BY <1>1, <2>1, <3>1, <3>2, AbsentAssumption
         DEF CallOK, CallType, Reporting, Outcome
    <3> QED
      BY <3>1, <3>2, <3>3, <3>4, Becomes
  <2>3. CASE Conflict(c.notice) /\ End(p, "refused")
    BY <2>3, EndKeeps DEF Conflict, Grows
  <2> QED
    BY <1>4, <2>2, <2>3 DEF Open
<1>5. ASSUME ResolveTerminal(p) PROVE WorkTimeInv'
  <2>1. c.pc = "ResolveTerminal" /\ UNCHANGED chain
    BY <1>5 DEF ResolveTerminal, At
  <2>2. CASE ReportRaises(p)
    BY <2>1, <2>2, ReportRaisesKeeps DEF Grows, Reporting
  <2>3. CASE Become(p, [c EXCEPT !.pc = "ResolvePredecessor"])
    <3>1. /\ call' = [call EXCEPT ![p] = call'[p]]
          /\ call'[p] = [c EXCEPT !.pc = "ResolvePredecessor"]
      BY <1>1, <2>3 DEF Become
    <3>2. call'[p] \in CallType
      BY <1>1, <3>1 DEF CallType
    <3>3. CallOK(call[p])'
      BY <1>1, <2>1, <3>1, AbsentAssumption
         DEF CallOK, CallType, Reporting, Outcome
    <3> QED
      BY <2>1, <3>1, <3>2, <3>3, Becomes DEF Grows
  <2> QED
    BY <1>5, <2>2, <2>3 DEF ResolveTerminal
<1>6. ASSUME ResolvePredecessor(p) PROVE WorkTimeInv'
  <2>1. c.pc = "ResolvePredecessor" /\ UNCHANGED chain
        /\ c.notice \in NoticeType /\ c.notice.kind = "update"
    BY <1>1, <1>6 DEF ResolvePredecessor, At, CallOK, Reporting
  <2>2. CASE ReportRaises(p)
    BY <2>1, <2>2, ReportRaisesKeeps DEF Grows, Reporting
  <2>3. ASSUME NEW i \in DOMAIN chain, Admissible(c.notice, i),
               Become(p, [c EXCEPT !.pc = "CommitUpdate",
                  !.notice = [c.notice EXCEPT
                                !.late = Late(chain[i], c.notice.time)]])
        PROVE  WorkTimeInv'
    <3> DEFINE n == [c.notice EXCEPT !.late = Late(chain[i], c.notice.time)]
    <3>1. n \in NoticeType /\ n.kind = "update"
      <4>1. c.notice \in [kind : {"update"}, seq : Nat \ {0}, after : Key,
                          time : Seconds, due : Minutes, late : BOOLEAN,
                          outcome : {None}]
        BY <2>1 DEF NoticeType
      <4>2. Late(chain[i], c.notice.time) \in BOOLEAN
        BY DEF Late
      <4>3. n \in [kind : {"update"}, seq : Nat \ {0}, after : Key,
                   time : Seconds, due : Minutes, late : BOOLEAN,
                   outcome : {None}]
        BY <4>1, <4>2
      <4> QED
        BY <4>3 DEF NoticeType
    <3>2. BehindAt(n, i)
      <4>1. /\ n.after = c.notice.after /\ n.time = c.notice.time
            /\ n.seq = c.notice.seq /\ n.kind = "update"
            /\ n.late = (Elapsed(n.time) > chain[i].due)
        BY <2>1 DEF NoticeType, Late
      <4>2. KeyOf(chain[i]) = UpdateKey(n.seq - 1) /\ KeyOf(chain[i]) = n.after
        BY <2>3, <4>1 DEF Admissible, Follows
      <4>3. chain[i].kind # "terminal"
        BY <4>2 DEF KeyOf, UpdateKey, OpenKey
      <4> QED
        BY <2>3, <4>1, <4>2, <4>3 DEF BehindAt, Admissible, NotBefore
    <3>3. /\ call' = [call EXCEPT ![p] = call'[p]]
          /\ call'[p] = [c EXCEPT !.pc = "CommitUpdate", !.notice = n]
      BY <1>1, <2>3 DEF Become
    <3>4. call'[p] \in CallType
      BY <1>1, <3>1, <3>3 DEF CallType
    <3>5. Behind(call[p].notice)'
      <4>1. PICK x : x = n
        OBVIOUS
      <4>2. call'[p].notice = x
        BY <1>1, <3>3, <4>1 DEF CallType
      <4>3. Behind(x)
        BY <3>2, <4>1 DEF Behind, BehindAt
      <4>4. Behind(x)'
        BY <2>1, <4>3 DEF Behind, BehindAt, Elapsed
      <4> QED
        BY <4>2, <4>4 DEF Behind
    <3>6. CallOK(call[p])'
      BY <1>1, <2>1, <3>1, <3>3, <3>5, AbsentAssumption
         DEF CallOK, CallType, Reporting, Outcome
    <3> QED
      BY <2>1, <3>3, <3>4, <3>6, Becomes DEF Grows
  <2> QED
    BY <1>6, <2>2, <2>3 DEF ResolvePredecessor
<1>7. ASSUME CommitUpdate(p) PROVE WorkTimeInv'
  <2>1. c.pc = "CommitUpdate" /\ c.notice \in NoticeType
        /\ Behind(c.notice) /\ KeyOf(c.notice) \in Key
    BY <1>1, <1>7, NoticeKinds DEF CommitUpdate, At, CallOK, Reporting
  <2>2. Grows
    BY <1>7, <2>1 DEF CommitUpdate, Commit, Conflict, Grows
  <2>3. CASE ReportRaises(p)
    BY <2>1, <2>2, <2>3, ReportRaisesKeeps DEF Reporting
  <2>4. CASE Become(p, [c EXCEPT !.pc = "Perform", !.notice = None,
                                 !.tip = KeyOf(c.notice)])
    <3>1. /\ call' = [call EXCEPT ![p] = call'[p]]
          /\ call'[p] = [c EXCEPT !.pc = "Perform", !.notice = None,
                                  !.tip = KeyOf(c.notice)]
      BY <1>1, <2>4 DEF Become
    <3>2. call'[p] \in CallType
      BY <1>1, <2>1, <3>1 DEF CallType
    <3>3. CallOK(call[p])'
      BY <1>1, <2>1, <3>1, AbsentAssumption
         DEF CallOK, CallType, Reporting, Outcome
    <3> QED
      BY <2>2, <3>1, <3>2, <3>3, Becomes
  <2> QED
    BY <1>7, <2>3, <2>4 DEF CommitUpdate
<1>8. ASSUME NEW time \in Seconds, NEW outcome \in Outcome,
             Finish(p, time, outcome)
      PROVE  WorkTimeInv'
  <2> DEFINE n == Notice(TerminalKey, c.tip, time, 0, FALSE, outcome)
  <2>1. c.pc = "Perform" /\ c.tip \in Key /\ c.opened \in Seconds
        /\ c.told = None /\ UNCHANGED chain
    BY <1>1, <1>8 DEF Finish, At, CallOK
  <2>2. n \in NoticeType /\ n.kind = "terminal"
    BY <2>1 DEF Notice, TerminalKey, NoticeType
  <2>3. CASE End(p, None)
    BY <2>1, <2>3, EndKeeps DEF Grows
  <2>4. CASE Become(p, [c EXCEPT !.pc = "ResolveTip", !.walked = 0,
                                 !.notice = n])
    <3> HIDE DEF n
    <3>1. /\ call' = [call EXCEPT ![p] = call'[p]]
          /\ call'[p] = [c EXCEPT !.pc = "ResolveTip", !.walked = 0,
                                  !.notice = n]
      BY <1>1, <2>4 DEF Become
    <3>2. call'[p] \in CallType
      <4>1. PICK zero \in Nat : zero = 0
        OBVIOUS
      <4>2. call'[p] = [c EXCEPT !.pc = "ResolveTip", !.walked = zero,
                                 !.notice = n]
        BY <3>1, <4>1
      <4> QED
        BY <1>1, <2>2, <4>2 DEF CallType
    <3>3. CallOK(call[p])'
      BY <1>1, <2>1, <2>2, <3>1, AbsentAssumption
         DEF CallOK, CallType, Reporting, Outcome
    <3> QED
      BY <2>1, <3>1, <3>2, <3>3, Becomes DEF Grows
  <2> QED
    BY <1>8, <2>3, <2>4 DEF Finish, OutcomeOf
<1>9. ASSUME ResolveTip(p) PROVE WorkTimeInv'
  <2>1. c.pc = "ResolveTip" /\ UNCHANGED chain
        /\ c.notice \in NoticeType /\ c.notice.kind = "terminal"
    BY <1>1, <1>9 DEF ResolveTip, At, CallOK
  <2>2. CASE End(p, None)
    BY <2>1, <2>2, EndKeeps DEF Grows
  <2>3. CASE Become(p, [c EXCEPT !.walked = c.walked + 1])
    <3>1. /\ call' = [call EXCEPT ![p] = call'[p]]
          /\ call'[p] = [c EXCEPT !.walked = c.walked + 1]
      BY <1>1, <2>3 DEF Become
    <3>2. call'[p] \in CallType
      <4>1. PICK w \in Nat : w = c.walked + 1
        BY <1>1 DEF CallType
      <4>2. call'[p] = [c EXCEPT !.walked = w]
        BY <3>1, <4>1
      <4> QED
        BY <1>1, <4>2 DEF CallType
    <3>3. CallOK(call[p])'
      BY <1>1, <2>1, <3>1, AbsentAssumption
         DEF CallOK, CallType, Reporting, Outcome
    <3> QED
      BY <2>1, <3>1, <3>2, <3>3, Becomes DEF Grows
  <2>4. ASSUME NEW i \in Published(UpdateKey(c.walked)),
               c.notice.after = KeyOf(chain[i]), NotBefore(chain[i], c.notice.time),
               Become(p, [c EXCEPT !.pc = "CommitTerminal",
                  !.notice = [c.notice EXCEPT
                                !.late = Late(chain[i], c.notice.time)]])
        PROVE  WorkTimeInv'
    <3> DEFINE n == [c.notice EXCEPT !.late = Late(chain[i], c.notice.time)]
    <3>1. n \in NoticeType /\ n.kind = "terminal"
      <4>1. c.notice \in [kind : {"terminal"}, seq : {0}, after : Key,
                          time : Seconds, due : {0}, late : BOOLEAN,
                          outcome : Outcome]
        BY <2>1 DEF NoticeType
      <4>2. Late(chain[i], c.notice.time) \in BOOLEAN
        BY DEF Late
      <4>3. n \in [kind : {"terminal"}, seq : {0}, after : Key,
                   time : Seconds, due : {0}, late : BOOLEAN,
                   outcome : Outcome]
        BY <4>1, <4>2
      <4> QED
        BY <4>3 DEF NoticeType
    <3>2. BehindAt(n, i)
      <4>1. /\ n.after = c.notice.after /\ n.time = c.notice.time
            /\ n.kind = "terminal"
            /\ n.late = (Elapsed(n.time) > chain[i].due)
        BY <2>1 DEF NoticeType, Late
      <4>2. chain[i].kind # "terminal"
        BY <2>4 DEF Published, KeyOf, UpdateKey, OpenKey
      <4> QED
        BY <2>4, <4>1, <4>2 DEF BehindAt, NotBefore
    <3>3. /\ call' = [call EXCEPT ![p] = call'[p]]
          /\ call'[p] = [c EXCEPT !.pc = "CommitTerminal", !.notice = n]
      BY <1>1, <2>4 DEF Become
    <3>4. call'[p] \in CallType
      BY <1>1, <3>1, <3>3 DEF CallType
    <3>5. Behind(call[p].notice)'
      <4>1. PICK x : x = n
        OBVIOUS
      <4>2. call'[p].notice = x
        BY <1>1, <3>3, <4>1 DEF CallType
      <4>3. Behind(x)
        BY <2>4, <3>2, <4>1 DEF Behind, BehindAt, Published
      <4>4. Behind(x)'
        BY <2>1, <4>3 DEF Behind, BehindAt, Elapsed
      <4> QED
        BY <4>2, <4>4 DEF Behind
    <3>6. CallOK(call[p])'
      BY <1>1, <2>1, <3>1, <3>3, <3>5, AbsentAssumption
         DEF CallOK, CallType, Reporting, Outcome
    <3> QED
      BY <2>1, <3>3, <3>4, <3>6, Becomes DEF Grows
  <2> QED
    BY <1>9, <2>2, <2>3, <2>4 DEF ResolveTip
<1>10. ASSUME CommitTerminal(p) PROVE WorkTimeInv'
  <2>1. c.pc = "CommitTerminal" /\ c.notice \in NoticeType
        /\ c.notice.kind = "terminal" /\ Behind(c.notice)
    BY <1>1, <1>10 DEF CommitTerminal, At, CallOK
  <2>2. Grows
    BY <1>10, <2>1 DEF CommitTerminal, Commit, Conflict, Grows
  <2>3. CASE Conflict(c.notice) /\ End(p, None)
    BY <2>2, <2>3, EndKeeps
  <2>4. CASE Commit(c.notice) /\ End(p, c.notice.outcome)
    <3>1. c.notice.outcome \in Outcome /\ KeyOf(c.notice) = TerminalKey
      BY <2>1 DEF NoticeType, KeyOf, TerminalKey
    <3>2. /\ call' = [call EXCEPT ![p] = call'[p]]
          /\ call'[p] = [NoCall EXCEPT !.told = c.notice.outcome]
      BY <1>1, <2>4 DEF End, Become
    <3>3. call'[p] \in CallType
      BY <3>1, <3>2 DEF CallType, NoCall
    <3>4. \E i \in DOMAIN chain' : chain'[i] = c.notice
      BY <1>1, <2>1, <2>4, AppendProperties
         DEF Commit, Publish, SameBody, Published
    <3>5. CallOK(call[p])'
      BY <3>1, <3>2, <3>4 DEF CallOK, NoCall, Reporting, Published
    <3> QED
      BY <2>2, <3>2, <3>3, <3>5, Becomes
  <2> QED
    BY <1>10, <2>3, <2>4 DEF CommitTerminal
<1>11. ASSUME StoreRaises(p) PROVE WorkTimeInv'
  <2>1. Grows
    <3>1. c.pc \in {"Open", "CommitUpdate", "CommitTerminal"} =>
             c.notice \in NoticeType /\ Behind(c.notice)
      BY <1>1 DEF CallOK, Reporting, Behind
    <3> QED
      BY <1>11, <3>1 DEF StoreRaises, Grows
  <2> QED
    BY <1>11, <2>1, EndKeeps, ReportRaisesKeeps
       DEF StoreRaises, Raise, Reporting
<1>12. ASSUME Crash(p) PROVE WorkTimeInv'
  BY <1>12, EndKeeps DEF Crash, Grows
<1> QED
  BY <1>2, <1>3, <1>4, <1>5, <1>6, <1>7, <1>8, <1>9, <1>10, <1>11, <1>12
     DEF Step, Outcome

-----------------------------------------------------------------------------
(* One chain per work unit, whoever writes it: however the callers of a    *)
(* work unit interleave, fail, retry and read differing clocks, the ledger *)
(* has one unbroken run of updates closed at most once, with times in      *)
(* order and every deadline missed by more than half a minute marked, and  *)
(* who is told an outcome is told the recorded one.                        *)
THEOREM WorkTimeSafe ==
  Spec => [](/\ TypeOK /\ NothingAfterTerminal /\ ChainContiguous
             /\ TimesMonotone /\ LatenessRecorded /\ ToldIsRecorded)
<1>1. Init => WorkTimeInv
  <2> SUFFICES ASSUME Init PROVE WorkTimeInv
    OBVIOUS
  <2>1. chain = <<>> /\ call = [p \in Callers |-> NoCall]
    BY DEF Init
  <2>2. TypeOK
    BY <2>1 DEF TypeOK, CallType, NoCall
  <2>3. ChainOK
    BY <2>1 DEF ChainOK, ChainContiguous, NothingAfterTerminal,
                TimesMonotone, LatenessRecorded
  <2>4. CallOK(NoCall)
    BY AbsentAssumption DEF CallOK, NoCall, Reporting, Outcome
  <2> QED
    BY <2>1, <2>2, <2>3, <2>4 DEF WorkTimeInv
<1>2. WorkTimeInv /\ [Next]_vars => WorkTimeInv'
  <2> SUFFICES ASSUME WorkTimeInv, [Next]_vars PROVE WorkTimeInv'
    OBVIOUS
  <2>1. CASE Next
    BY <2>1, StepKeeps DEF Next
  <2>2. CASE UNCHANGED vars
    BY <2>2 DEF vars, WorkTimeInv, TypeOK, ChainOK, ChainContiguous,
                NothingAfterTerminal, TimesMonotone, LatenessRecorded,
                CallOK, Behind, BehindAt, Published, Elapsed
  <2> QED
    BY <2>1, <2>2
<1>3. WorkTimeInv => /\ TypeOK /\ NothingAfterTerminal /\ ChainContiguous
                     /\ TimesMonotone /\ LatenessRecorded /\ ToldIsRecorded
  BY DEF WorkTimeInv, ChainOK, CallOK, ToldIsRecorded
<1> QED
  BY <1>1, <1>2, <1>3, PTL DEF Spec

(* Whatever callers race over a work unit, each update extends the one     *)
(* before it in number and time, is marked late where its deadline was     *)
(* missed by more than half a minute and only where it was missed, and an  *)
(* outcome a caller is told is the one on the chain.                       *)
THEOREM NoticesHold == Spec => []NoticesSound
<1>1. /\ ChainContiguous /\ TimesMonotone /\ LatenessRecorded /\ ToldIsRecorded
      => NoticesSound
  BY DEF NoticesSound
<1> QED
  BY <1>1, WorkTimeSafe, PTL

-----------------------------------------------------------------------------
(* What the records of the benchmark say of one another, for any policies, *)
(* runs, actors, keys and instants.                                        *)

(* An identity names one record, and a key's is that of its own fields: so *)
(* no second key is registered for an actor and a protocol.                *)
IdsUnique == \A r, q \in benchmark : r.id = q.id => r = q
AnchorsNamed ==
    \A a \in OfKind("trust_anchor") :
       a.id = AnchorId(a.body.actor, a.body.freeze) /\ a.body \in TrustAnchors

BenchmarkInv ==
    /\ IdsUnique /\ AnchorsNamed
    /\ ResultsRederive /\ NothingLeftOut /\ ReproductionsAreOwn

(* A group whose own events are the corpus, task by task, and each of an   *)
(* outcome that is counted, has as many counted as the corpus has tasks.   *)
LEMMA CorpusCounted ==
  ASSUME NEW events, NEW policy, ExactCorpus(events, policy), Recognized(events),
         NEW g \in Groups(policy)
  PROVE Metrics(events, policy)[g]["raw_event_count"] = Len(policy.tasks)
<1>1. {i \in DOMAIN events : events[i].group = g /\ events[i].outcome \in Outcomes}
         = {i \in DOMAIN events : events[i].group = g}
  BY DEF Recognized
<1>2. Counted(events, g, Outcomes) = Len(policy.tasks)
  BY <1>1 DEF Counted, ExactCorpus
<1>3. Metrics(events, policy)[g]["raw_event_count"] = Counted(events, g, Outcomes)
  BY DEF Metrics, Outcomes
<1>4. QED
  BY <1>2, <1>3

(* What is filed is added, under an identity that was not taken. *)
LEMMA FiledIsAdded ==
  ASSUME NEW id, NEW body, File(id, body)
  PROVE /\ benchmark' = benchmark \cup {[id |-> id, body |-> body]}
        /\ \A r \in benchmark : r.id # id
BY DEF File, Free, Filed

(* The parts of the invariant that are about what a record says itself     *)
(* survive every record that says so, too.                                 *)
Rederived(r, known) ==
    /\ r.id.kind = "result_bundle" =>
          LET policy == r.body.freeze.body.policy IN
          /\ r.body.freeze \in known
          /\ r.body.metrics = Metrics(r.body.events, policy)
          /\ r.body.claims = BoundedClaims(r.body.metrics, policy)
    /\ r.id.kind \in {"reproduction_receipt", "submission"} =>
          /\ r.body.freeze \in known /\ r.body.bundle \in known
          /\ r.body.agreement =
                Agreement(Metrics(r.body.events, r.body.freeze.body.policy),
                          r.body.bundle.body.metrics)

(* What a record that has numbers says of the frozen corpus. *)
CountsAll(r) ==
    r.id.kind \in {"result_bundle", "reproduction_receipt", "submission"} =>
       \A g \in Groups(r.body.freeze.body.policy) :
          r.body.metrics[g]["raw_event_count"] = Len(r.body.freeze.body.policy.tasks)

LEMMA ResultsRederiveByRecord ==
  ResultsRederive <=> \A r \in benchmark : Rederived(r, benchmark)
BY DEF ResultsRederive, Rederived, OfKind

Signed(s, known) ==
    \E a \in known :
       /\ a.id.kind = "trust_anchor"
       /\ a.body.actor = s.body.by.actor /\ a.body.freeze = s.body.freeze
       /\ a.body.key = s.body.by.signer /\ HeldAbout(a, s.body.by.time)

Own(r, known) ==
    /\ r.id.kind = "reproduction_receipt" =>
          r.body.by.process # r.body.bundle.body.process
    /\ r.id.kind = "submission" => Signed(r, known)

(* With identities unique, one actor signs under one protocol with one key. *)
LEMMA OwnByRecord ==
  ASSUME IdsUnique, AnchorsNamed, \A r \in benchmark : Own(r, benchmark)
  PROVE ReproductionsAreOwn
<1>1. \A r \in OfKind("reproduction_receipt") :
         r.body.by.process # r.body.bundle.body.process
  BY DEF Own, OfKind
<1>2. ASSUME NEW s \in OfKind("submission")
      PROVE \E a \in OfKind("trust_anchor") :
               /\ a.body.actor = s.body.by.actor /\ a.body.freeze = s.body.freeze
               /\ a.body.key = s.body.by.signer /\ HeldAbout(a, s.body.by.time)
  BY <1>2 DEF Own, Signed, OfKind
<1>3. ASSUME NEW s \in OfKind("submission"), NEW t \in OfKind("submission"),
             s.body.by.actor = t.body.by.actor, s.body.freeze = t.body.freeze
      PROVE s.body.by.signer = t.body.by.signer
  <2>1. PICK a \in OfKind("trust_anchor") :
           a.body.actor = s.body.by.actor /\ a.body.freeze = s.body.freeze
           /\ a.body.key = s.body.by.signer
    BY <1>2
  <2>2. PICK b \in OfKind("trust_anchor") :
           b.body.actor = t.body.by.actor /\ b.body.freeze = t.body.freeze
           /\ b.body.key = t.body.by.signer
    BY <1>2
  <2>3. a.id = b.id
    BY <1>3, <2>1, <2>2 DEF AnchorsNamed
  <2>4. QED
    BY <2>1, <2>2, <2>3 DEF IdsUnique, OfKind
<1>4. QED
  BY <1>1, <1>2, <1>3 DEF ReproductionsAreOwn

LEMMA OwnOfRecord ==
  ASSUME ReproductionsAreOwn
  PROVE \A r \in benchmark : Own(r, benchmark)
BY DEF ReproductionsAreOwn, Own, Signed, OfKind

(* Filing a record that is what it says keeps the invariant. *)
LEMMA FilingKeeps ==
  ASSUME BenchmarkInv, NEW id, NEW body, File(id, body),
         Rederived([id |-> id, body |-> body], benchmark),
         CountsAll([id |-> id, body |-> body]),
         Own([id |-> id, body |-> body], benchmark),
         id.kind = "trust_anchor" =>
            id = AnchorId(body.actor, body.freeze) /\ body \in TrustAnchors
  PROVE BenchmarkInv'
<1> DEFINE new == [id |-> id, body |-> body]
<1>1. benchmark' = benchmark \cup {new} /\ \A r \in benchmark : r.id # id
  BY FiledIsAdded
<1>2. IdsUnique'
  BY <1>1 DEF IdsUnique, BenchmarkInv
<1>3. AnchorsNamed'
  BY <1>1 DEF AnchorsNamed, OfKind, BenchmarkInv
<1>4. (\A r \in benchmark : Rederived(r, benchmark))'
  <2>1. \A r \in benchmark : Rederived(r, benchmark)
    BY ResultsRederiveByRecord DEF BenchmarkInv
  <2>2. QED
    BY <1>1, <2>1 DEF Rederived
<1>5. (\A r \in benchmark : Own(r, benchmark))'
  <2>1. \A r \in benchmark : Own(r, benchmark)
    BY OwnOfRecord DEF BenchmarkInv
  <2>2. QED
    BY <1>1, <2>1 DEF Own, Signed
<1>6. ResultsRederive'
  BY <1>4, ResultsRederiveByRecord, PTL
<1>7. ReproductionsAreOwn'
  BY <1>2, <1>3, <1>5, OwnByRecord, PTL
<1>8. NothingLeftOut'
  BY <1>1 DEF NothingLeftOut, CountsAll, BenchmarkInv
<1>9. QED
  BY <1>2, <1>3, <1>6, <1>7, <1>8 DEF BenchmarkInv

LEMMA FreezeKeeps == BenchmarkInv /\ CommitFreeze => BenchmarkInv'
<1> SUFFICES ASSUME BenchmarkInv, NEW policy \in Policies, NEW at \in Times,
                    File(FreezeId(policy), [policy |-> policy, at |-> at])
             PROVE BenchmarkInv'
  BY DEF CommitFreeze
<1>1. FreezeId(policy).kind = "protocol_freeze"
  BY DEF FreezeId
<1>2. QED
  BY <1>1, FilingKeeps DEF Rederived, CountsAll, Own

LEMMA BundleKeeps == BenchmarkInv /\ CommitBundle => BenchmarkInv'
<1> SUFFICES ASSUME BenchmarkInv, NEW freeze \in OfKind("protocol_freeze"),
                    NEW events \in EventLists, NEW process \in Processes,
                    ExactCorpus(events, freeze.body.policy), Recognized(events),
                    File(BundleId(freeze, events), Result(freeze, events, process))
             PROVE BenchmarkInv'
  BY DEF CommitBundle
<1>1. BundleId(freeze, events).kind = "result_bundle"
  BY DEF BundleId
<1>2. /\ Result(freeze, events, process).freeze = freeze
      /\ Result(freeze, events, process).events = events
      /\ Result(freeze, events, process).metrics = Metrics(events, freeze.body.policy)
      /\ Result(freeze, events, process).claims =
            BoundedClaims(Metrics(events, freeze.body.policy), freeze.body.policy)
  BY DEF Result
<1>3. freeze \in benchmark
  BY DEF OfKind
<1>4. CountsAll([id |-> BundleId(freeze, events),
                 body |-> Result(freeze, events, process)])
  BY <1>2, CorpusCounted DEF CountsAll
<1>5. QED
  BY <1>1, <1>2, <1>3, <1>4, FilingKeeps DEF Rederived, Own

LEMMA ReceiptKeeps == BenchmarkInv /\ CommitReceipt => BenchmarkInv'
<1> SUFFICES ASSUME BenchmarkInv, NEW freeze \in OfKind("protocol_freeze"),
                    NEW outcome \in OfKind("result_bundle"),
                    NEW events \in EventLists, NEW actor \in Reproducers,
                    NEW process \in Processes, SeparateProcess(process, outcome),
                    ExactCorpus(events, freeze.body.policy), Recognized(events),
                    File(ReceiptId(outcome, [actor |-> actor, process |-> process]),
                         Reproduction(freeze, outcome, events,
                                      [actor |-> actor, process |-> process]))
             PROVE BenchmarkInv'
  BY DEF CommitReceipt
<1> DEFINE by == [actor |-> actor, process |-> process]
           body == Reproduction(freeze, outcome, events, by)
<1>1. ReceiptId(outcome, by).kind = "reproduction_receipt"
  BY DEF ReceiptId
<1>2. /\ body.freeze = freeze /\ body.bundle = outcome /\ body.events = events
      /\ body.agreement = Agreement(Metrics(events, freeze.body.policy),
                                    outcome.body.metrics)
      /\ body.metrics = Metrics(events, freeze.body.policy)
      /\ body.by.process = process
  BY DEF Reproduction
<1>3. freeze \in benchmark /\ outcome \in benchmark
  BY DEF OfKind
<1>4. CountsAll([id |-> ReceiptId(outcome, by), body |-> body])
  BY <1>2, CorpusCounted DEF CountsAll
<1>5. QED
  BY <1>1, <1>2, <1>3, <1>4, FilingKeeps DEF Rederived, Own, SeparateProcess

LEMMA AnchorKeeps == BenchmarkInv /\ AdmitAnchor => BenchmarkInv'
<1> SUFFICES ASSUME BenchmarkInv, NEW anchor \in TrustAnchors,
                    File(AnchorId(anchor.actor, anchor.freeze), anchor)
             PROVE BenchmarkInv'
  BY DEF AdmitAnchor
<1>1. AnchorId(anchor.actor, anchor.freeze).kind = "trust_anchor"
  BY DEF AnchorId
<1>2. QED
  BY <1>1, FilingKeeps DEF Rederived, CountsAll, Own

(* The written order of two instants differs from theirs within a second.  *)
LEMMA TextFact ==
  ASSUME NEW t \in Nat, NEW u \in Nat
  PROVE  /\ Text(t) >= Text(u) => t + Second > u
         /\ Text(t) < Text(u) => t < u + Second
<1>1. /\ Text(t) \in {t, t + 10} /\ Text(u) \in {u, u + 10}
      /\ Text(t) = t + 10 => t % 10 = 0
      /\ Text(u) = u => u % 10 # 0
  BY DEF Text, Second
<1>2. t + 10 = u => t % 10 = u % 10
  OBVIOUS
<1>3. QED
  BY <1>1, <1>2 DEF Second

(* Hence a key that is found in force is, or is within less than a second. *)
LEMMA HeldFact ==
  ASSUME NEW anchor, anchor.body \in TrustAnchors, NEW time \in Times,
         KeyInForce(anchor, time)
  PROVE  HeldAbout(anchor, time)
<1>1. /\ time \in Nat /\ anchor.body.from \in Nat
      /\ anchor.body.until # Never => anchor.body.until \in Nat
  BY TimesAssumption
<1>2. time + Second > anchor.body.from
  BY <1>1, TextFact DEF KeyInForce
<1>3. anchor.body.until # Never => time < anchor.body.until + Second
  BY <1>1, TextFact DEF KeyInForce
<1>4. QED
  BY <1>2, <1>3 DEF HeldAbout, KeyInForce

LEMMA SubmissionKeeps == BenchmarkInv /\ AdmitSubmission => BenchmarkInv'
<1> SUFFICES ASSUME BenchmarkInv, NEW freeze \in OfKind("protocol_freeze"),
                    NEW outcome \in OfKind("result_bundle"),
                    NEW anchor \in OfKind("trust_anchor"), NEW s \in Submissions,
                    anchor.id = AnchorId(anchor.body.actor, freeze),
                    KeyInForce(anchor, s.time), SignedFor(s.key, s.signer, anchor),
                    Rederives(s, freeze, outcome),
                    File(SubmissionId(outcome, anchor.body.actor),
                         [freeze |-> freeze, bundle |-> outcome, events |-> s.events,
                          metrics |-> Metrics(s.claimed, freeze.body.policy),
                          agreement |-> s.agreement,
                          by |-> [actor |-> anchor.body.actor, time |-> s.time,
                                  signer |-> s.signer]])
             PROVE BenchmarkInv'
  BY DEF AdmitSubmission
<1> DEFINE body == [freeze |-> freeze, bundle |-> outcome, events |-> s.events,
                    metrics |-> Metrics(s.claimed, freeze.body.policy),
                    agreement |-> s.agreement,
                    by |-> [actor |-> anchor.body.actor, time |-> s.time,
                            signer |-> s.signer]]
           id == SubmissionId(outcome, anchor.body.actor)
<1>1. id.kind = "submission"
  BY DEF SubmissionId
<1>2. /\ freeze \in benchmark /\ outcome \in benchmark
      /\ anchor \in benchmark /\ anchor.id.kind = "trust_anchor"
  BY DEF OfKind
<1>3. Rederived([id |-> id, body |-> body], benchmark)
  BY <1>1, <1>2 DEF Rederived, Rederives
<1>4. anchor.body.freeze = freeze
  <2>1. AnchorId(anchor.body.actor, anchor.body.freeze)
           = AnchorId(anchor.body.actor, freeze)
    BY DEF BenchmarkInv, AnchorsNamed
  <2>2. QED
    BY <2>1 DEF AnchorId
<1>5. Own([id |-> id, body |-> body], benchmark)
  <2>1. anchor.body \in TrustAnchors /\ s.time \in Times
    BY DEF BenchmarkInv, AnchorsNamed, Submissions
  <2>2. HeldAbout(anchor, s.time)
    BY <2>1, HeldFact
  <2>3. Signed([id |-> id, body |-> body], benchmark)
    BY <1>2, <1>4, <2>2 DEF Signed, SignedFor
  <2>4. QED
    BY <1>1, <2>3 DEF Own
<1>6. CountsAll([id |-> id, body |-> body])
  BY CorpusCounted DEF CountsAll, Rederives
<1>7. QED
  BY <1>1, <1>3, <1>5, <1>6, FilingKeeps

(* Whatever is frozen, committed, registered, reproduced and submitted in  *)
(* whatever order: every result can be derived again from records that     *)
(* stand and counts every task of the corpus, and every reproduction is    *)
(* its reproducer's own.                                                   *)
THEOREM BenchmarkCorrect == BenchmarkSpec => []BenchmarkSound
<1>1. BenchmarkInit => BenchmarkInv
  BY DEF BenchmarkInit, BenchmarkInv, IdsUnique, AnchorsNamed, ResultsRederive,
         NothingLeftOut, ReproductionsAreOwn, OfKind
<1>2. BenchmarkInv /\ [BenchmarkNext]_benchmark => BenchmarkInv'
  <2>1. CASE UNCHANGED benchmark
    BY <2>1 DEF BenchmarkInv, IdsUnique, AnchorsNamed, ResultsRederive,
                NothingLeftOut, ReproductionsAreOwn, OfKind
  <2>2. QED
    BY <2>1, FreezeKeeps, BundleKeeps, ReceiptKeeps, AnchorKeeps, SubmissionKeeps
       DEF BenchmarkNext
<1>3. BenchmarkInv => BenchmarkSound
  BY DEF BenchmarkInv, BenchmarkSound
<1>4. QED
  BY <1>1, <1>2, <1>3, PTL DEF BenchmarkSpec

-----------------------------------------------------------------------------
(* ObservationEngine.                                                      *)

(* e is the current position of x.                                         *)
IsCurrent(e, evaluations, x) ==
    /\ e \in EvaluationsOf(evaluations, x)
    /\ \A o \in EvaluationsOf(evaluations, x) : o = e \/ o.revision < e.revision

(* The current position of a fact names every contradiction of it.         *)
NamesAll(e, f) ==
    /\ SharingCoordinate(bundle.facts, f) \ {f} \subseteq e.facts
    /\ \A n \in SharingCoordinate(bundle.negatives, f) : NegativeId(n) \in e.negatives

FactsNameAll ==
    \A f \in bundle.facts :
        /\ IsFiniteSet(EvaluationsOf(bundle.factEvaluations, f))
        /\ \E e \in bundle.factEvaluations :
              IsCurrent(e, bundle.factEvaluations, f) /\ NamesAll(e, f)

(* Only facts have evaluations of facts.                                   *)
EvaluatedAreFacts ==
    \A e \in bundle.factEvaluations : e.of \in bundle.facts

NegativesObserved ==
    \A n \in bundle.negatives : \E o \in bundle.observations : o.id = n.observation

(* A request that was answered left everything it says in the bundle.      *)
AnswerKept ==
    \A r \in acknowledged :
        /\ Known(r)
        /\ MetNothingEarlier(r) => RetryAccepted(r)
        /\ BindingsIn(r) \subseteq bundle.bindings

EngineInv ==
    /\ Verified(bundle)
    /\ FactsNameAll /\ EvaluatedAreFacts /\ NegativesObserved /\ AnswerKept

ObservationSpec == EngineInit /\ [][EngineNext]_engineVars

-----------------------------------------------------------------------------
(* There is one current position. *)
LEMMA CurrentIsLatest ==
  ASSUME NEW evaluations, NEW x, NEW e, IsCurrent(e, evaluations, x),
         \A o \in evaluations : o.revision \in Int
  PROVE  Latest(evaluations, x) = e
<1>1. /\ e \in EvaluationsOf(evaluations, x)
      /\ \A o \in EvaluationsOf(evaluations, x) : o.revision <= e.revision
  BY DEF IsCurrent, EvaluationsOf
<1>2. \A d \in EvaluationsOf(evaluations, x) :
        (\A o \in EvaluationsOf(evaluations, x) : o.revision <= d.revision) => d = e
  BY DEF IsCurrent, EvaluationsOf
<1> QED
  BY <1>1, <1>2 DEF Latest

(* Revisions count from 0. *)
LEMMA RevisionsInt ==
  ASSUME NEW evaluations, LineageContiguous(evaluations)
  PROVE  \A o \in evaluations : o.revision \in Int
BY DEF LineageContiguous

(* Contradictions are kept.                                                *)
LEMMA ContradictionsFound == EngineInv => ContradictionsKept
<1> SUFFICES ASSUME EngineInv, NEW f \in bundle.facts
             PROVE  LET current == Latest(bundle.factEvaluations, f) IN
                    /\ SharingCoordinate(bundle.facts, f) \ {f} \subseteq current.facts
                    /\ \A n \in SharingCoordinate(bundle.negatives, f) :
                          /\ NegativeId(n) \in current.negatives
                          /\ f \in Latest(bundle.negativeEvaluations, NegativeId(n)).facts
  BY Zenon DEF ContradictionsKept
<1>1. PICK e \in bundle.factEvaluations :
         IsCurrent(e, bundle.factEvaluations, f) /\ NamesAll(e, f)
  BY DEF EngineInv, FactsNameAll
<1>2. Latest(bundle.factEvaluations, f) = e
  BY <1>1, CurrentIsLatest, RevisionsInt DEF EngineInv, Verified
<1>3. NegativesNamed(bundle.factEvaluations, f) = e.negatives
  BY <1>1, <1>2 DEF NegativesNamed, IsCurrent
<1>4. ASSUME NEW n \in SharingCoordinate(bundle.negatives, f)
      PROVE  f \in Latest(bundle.negativeEvaluations, NegativeId(n)).facts
  <2>1. n \in bundle.negatives /\ NegativeId(n) \in NegativesNamed(bundle.factEvaluations, f)
    BY <1>1, <1>3 DEF NamesAll, SharingCoordinate
  <2>2. f \in FactsNamed(bundle.negativeEvaluations, NegativeId(n))
    BY <2>1 DEF EngineInv, Verified, ConflictsMutual
  <2> QED
    BY <2>2 DEF FactsNamed
<1> QED
  BY <1>1, <1>2, <1>4 DEF NamesAll

(* The new position of a fact, when it gets one.                           *)
LEMMA EvaluationNamesAll ==
  ASSUME EngineInv, NEW r, ~Known(r), bundle' = ExtendedBundle(r),
         NEW f \in ReevaluatedFacts(r, bundle'.facts),
         NEW e, e = FactEvaluation(r, bundle'.facts, f)
  PROVE  NamesAll(e, f)'
<1> DEFINE facts == bundle'.facts
           claimed == NegativesIn(r, facts)
<1>1. /\ facts = bundle.facts \cup ObservedFacts(r)
      /\ bundle'.negatives = bundle.negatives \cup claimed
      /\ f \in facts
  BY DEF ExtendedBundle, ReevaluatedFacts
<1>2. f \in bundle.facts =>
        /\ SharingCoordinate(bundle.facts, f) \ {f}
              \subseteq FactsNamed(bundle.factEvaluations, f)
        /\ \A n \in SharingCoordinate(bundle.negatives, f) :
              NegativeId(n) \in NegativesNamed(bundle.factEvaluations, f)
  <2> HAVE f \in bundle.facts
  <2>1. PICK c \in bundle.factEvaluations :
           IsCurrent(c, bundle.factEvaluations, f) /\ NamesAll(c, f)
    BY DEF EngineInv, FactsNameAll
  <2>2. Latest(bundle.factEvaluations, f) = c
    BY <2>1, CurrentIsLatest, RevisionsInt DEF EngineInv, Verified
  <2> QED
    BY <2>1, <2>2 DEF NamesAll, FactsNamed, NegativesNamed, IsCurrent
<1>3. SharingCoordinate(facts, f) \ {f} \subseteq e.facts
  <2>1. CASE f \in ObservedFacts(r) \/ PositiveConflicts(r, facts, f) # {}
    <3>1. PositiveConflicts(r, facts, f) = SharingCoordinate(facts, f) \ {f}
      BY <2>1 DEF PositiveConflicts, SharingCoordinate
    <3> QED
      BY <2>1, <3>1 DEF FactEvaluation
  <2>2. CASE f \notin ObservedFacts(r) /\ PositiveConflicts(r, facts, f) = {}
    <3>1. e.facts = FactsNamed(bundle.factEvaluations, f)
      BY <2>2 DEF FactEvaluation
    <3>2. ASSUME NEW g \in SharingCoordinate(facts, f), g # f
          PROVE  g \in SharingCoordinate(bundle.facts, f)
      <4>1. g \notin ObservedFacts(r)
        BY <2>2, <3>2 DEF PositiveConflicts, SharingCoordinate
      <4> QED
        BY <1>1, <3>2, <4>1 DEF SharingCoordinate
    <3> QED
      BY <1>1, <1>2, <2>2, <3>1, <3>2
  <2> QED
    BY <2>1, <2>2
<1>4. ASSUME NEW n \in SharingCoordinate(bundle'.negatives, f)
      PROVE  NegativeId(n) \in e.negatives
  <2>1. e.negatives = NegativesNamed(bundle.factEvaluations, f)
                        \cup NegativesMeeting(r, facts, f)
    BY DEF FactEvaluation
  <2>2. CASE n \in claimed
    BY <1>4, <2>1, <2>2 DEF NegativesMeeting, SharingCoordinate
  <2>3. CASE n \in bundle.negatives /\ f \in bundle.facts
    BY <1>2, <1>4, <2>1, <2>3 DEF SharingCoordinate
  <2>4. CASE n \in bundle.negatives /\ f \notin bundle.facts
    BY <1>1, <1>4, <2>1, <2>4 DEF NegativesMeeting, SharingCoordinate
  <2> QED
    BY <1>1, <1>4, <2>2, <2>3, <2>4 DEF SharingCoordinate
<1> QED
  BY <1>3, <1>4 DEF NamesAll, SharingCoordinate

(* ... and whether or not it gets one. *)
LEMMA ExtensionNamesAll ==
  ASSUME EngineInv, NEW r, ~Known(r), bundle' = ExtendedBundle(r), Verified(bundle')
  PROVE  FactsNameAll' /\ EvaluatedAreFacts'
<1> DEFINE facts == bundle'.facts
           old == bundle.factEvaluations
<1>1. /\ facts = bundle.facts \cup ObservedFacts(r)
      /\ bundle'.negatives = bundle.negatives \cup NegativesIn(r, facts)
      /\ bundle'.factEvaluations =
            old \cup {FactEvaluation(r, facts, f) : f \in ReevaluatedFacts(r, facts)}
  BY DEF ExtendedBundle
<1>2. PICK again, ev : /\ again = ReevaluatedFacts(r, facts)
                       /\ ev = [f \in again |-> FactEvaluation(r, facts, f)]
  OBVIOUS
<1>5. \A e : e \in bundle'.factEvaluations <=> e \in old \/ \E f \in again : e = ev[f]
  <2>1. {FactEvaluation(r, facts, f) : f \in ReevaluatedFacts(r, facts)} = {ev[f] : f \in again}
    BY <1>2
  <2> QED
    BY <1>1, <2>1
<1>6. \A f \in again : ev[f].of = f
  BY <1>2 DEF FactEvaluation, NextEvaluation
<1>7. \A f \in again : ev[f].revision = Cardinality(EvaluationsOf(old, f))
  BY <1>2 DEF FactEvaluation, NextEvaluation
<1>3. EvaluatedAreFacts'
  <2>1. again \subseteq facts
    BY <1>2 DEF ReevaluatedFacts
  <2>2. \A e \in bundle'.factEvaluations : e \in old \/ e.of \in again
    BY <1>5, <1>6
  <2>3. \A e \in old : e.of \in bundle.facts
    BY DEF EngineInv, EvaluatedAreFacts
  <2>4. bundle.facts \subseteq facts
    BY <1>1
  <2> QED
    BY <2>1, <2>2, <2>3, <2>4 DEF EvaluatedAreFacts
<1>4. ASSUME NEW f \in facts
      PROVE  /\ IsFiniteSet(EvaluationsOf(bundle'.factEvaluations, f))
             /\ \E e \in bundle'.factEvaluations :
                  IsCurrent(e, bundle'.factEvaluations, f) /\ NamesAll(e, f)'
  <2>1. IsFiniteSet(EvaluationsOf(old, f))
    <3>1. CASE f \in bundle.facts
      BY <3>1 DEF EngineInv, FactsNameAll
    <3>2. CASE f \notin bundle.facts
      <4>1. EvaluationsOf(old, f) = {}
        BY <3>2 DEF EngineInv, EvaluatedAreFacts, EvaluationsOf
      <4> QED
        BY <4>1, FS_EmptySet
    <3> QED
      BY <3>1, <3>2
  <2>2. CASE f \in again
    <3>1. PICK e : e = FactEvaluation(r, facts, f) /\ e = ev[f]
      BY <1>2, <2>2
    <3>2. e.of = f /\ e.revision = Cardinality(EvaluationsOf(old, f))
      BY <1>6, <1>7, <2>2, <3>1
    <3>3. EvaluationsOf(bundle'.factEvaluations, f) = EvaluationsOf(old, f) \cup {e}
      <4>1. \A x \in bundle'.factEvaluations : x.of = f => x \in old \/ x = e
        BY <1>5, <1>6, <3>1
      <4>2. e \in bundle'.factEvaluations /\ old \subseteq bundle'.factEvaluations
        BY <1>5, <2>2, <3>1
      <4> QED
        BY <3>2, <4>1, <4>2 DEF EvaluationsOf
    <3>4. Cardinality(EvaluationsOf(old, f)) \in Nat
      BY <2>1, FS_CardinalityType
    <3>5. \A o \in EvaluationsOf(old, f) : o.revision < e.revision
      <4>1. \A o \in EvaluationsOf(old, f) :
              o.revision \in 0 .. Cardinality(EvaluationsOf(old, f)) - 1
        BY DEF EngineInv, Verified, LineageContiguous, EvaluationsOf
      <4> QED
        BY <3>2, <3>4, <4>1
    <3>6. IsCurrent(e, bundle'.factEvaluations, f) /\ e \in bundle'.factEvaluations
      BY <1>5, <2>2, <3>1, <3>2, <3>3, <3>5 DEF IsCurrent, EvaluationsOf
    <3>7. NamesAll(e, f)'
      BY <1>2, <2>2, <3>1, EvaluationNamesAll
    <3> QED
      BY <2>1, <3>3, <3>6, <3>7, FS_AddElement
  <2>3. CASE f \notin again
    <3>1. /\ f \in bundle.facts
          /\ SharingCoordinate(facts, f) \ {f} = SharingCoordinate(bundle.facts, f) \ {f}
      BY <1>1, <1>2, <2>3 DEF ReevaluatedFacts, PositiveConflicts, SharingCoordinate
    <3>2. SharingCoordinate(bundle'.negatives, f) = SharingCoordinate(bundle.negatives, f)
      <4>1. \A n \in NegativesIn(r, facts) : \E claim \in r.claims : Coordinate(n) = Coordinate(claim)
        BY DEF NegativesIn, NegativeRecord, Coordinate
      <4>2. SharingCoordinate(r.claims, f) = {}
        BY <1>2, <2>3 DEF ReevaluatedFacts
      <4> QED
        BY <1>1, <4>1, <4>2 DEF SharingCoordinate
    <3>3. EvaluationsOf(bundle'.factEvaluations, f) = EvaluationsOf(old, f)
      <4>1. \A x \in bundle'.factEvaluations : x.of = f => x \in old
        BY <1>5, <1>6, <2>3
      <4>2. old \subseteq bundle'.factEvaluations
        BY <1>5
      <4> QED
        BY <4>1, <4>2 DEF EvaluationsOf
    <3>4. PICK e \in old : IsCurrent(e, old, f) /\ NamesAll(e, f)
      BY <3>1 DEF EngineInv, FactsNameAll
    <3>5. IsCurrent(e, bundle'.factEvaluations, f) /\ NamesAll(e, f)'
      BY <3>1, <3>2, <3>3, <3>4 DEF IsCurrent, NamesAll
    <3> QED
      BY <1>5, <2>1, <3>3, <3>4, <3>5
  <2> QED
    BY <2>2, <2>3
<1> QED
  BY <1>3, <1>4 DEF FactsNameAll

-----------------------------------------------------------------------------
(* What a request says does not depend on the bundle.                      *)
LEMMA RequestRigid ==
  ASSUME NEW r
  PROVE  /\ ObservationId(r)' = ObservationId(r) /\ ObservedFacts(r)' = ObservedFacts(r)
         /\ BindingsIn(r)' = BindingsIn(r) /\ BaseStatus(r)' = BaseStatus(r)
         /\ ScopeAdmits(r)' <=> ScopeAdmits(r)
         /\ FactsAdmitted(r)' <=> FactsAdmitted(r)
BY DEF ObservationId, ObservedFacts, FactsIn, NormalizeFact, BindingsIn, BindingOf, BaseStatus,
       Results, ScopeAdmits, FactsAdmitted, BoundaryObserved

(* Nor do its claims, of given facts. *)
LEMMA ClaimsRigid ==
  ASSUME NEW r, NEW F
  PROVE  /\ ClaimsAdmitted(r, F)' <=> ClaimsAdmitted(r, F)
         /\ NegativesIn(r, F)' = NegativesIn(r, F)
BY RequestRigid
   DEF ClaimsAdmitted, ClaimAdmitted, BoundaryObserved, Completed, Results, SharingCoordinate,
       Coordinate, NegativesIn, NegativeRecord

(* Other observations leave what an earlier one said as it was.            *)
LEMMA OthersApart ==
  ASSUME EngineInv, NEW r, Known(r), BindingsIn(r) \subseteq bundle.bindings,
         NEW q, ~Known(q), bundle' = ExtendedBundle(q)
  PROVE  /\ ObservationId(q) # ObservationId(r)
         /\ RetryFacts(r)' = RetryFacts(r)
         /\ OwnNegatives(r)' = OwnNegatives(r)
         /\ bundle.observations \subseteq bundle'.observations
         /\ bundle.bindings \subseteq bundle'.bindings
<1>1. ObservationId(q) # ObservationId(r)
  BY DEF Known
<1>2. /\ bundle'.bindings = bundle.bindings \cup BindingsIn(q)
      /\ bundle'.negatives = bundle.negatives \cup NegativesIn(q, bundle.facts \cup ObservedFacts(q))
      /\ bundle.observations \subseteq bundle'.observations
  BY DEF ExtendedBundle
<1>3. \A b \in BindingsIn(q) : b.observation = ObservationId(q)
  BY DEF BindingsIn, BindingOf
<1>4. \A n \in NegativesIn(q, bundle.facts \cup ObservedFacts(q)) : n.observation = ObservationId(q)
  BY DEF NegativesIn, NegativeRecord
<1>5. RetryFacts(r)' = RetryFacts(r)
  <2>1. {b \in bundle'.bindings \cup BindingsIn(r) : b.observation = ObservationId(r)}
          = {b \in bundle.bindings \cup BindingsIn(r) : b.observation = ObservationId(r)}
    BY <1>1, <1>2, <1>3
  <2> QED
    BY <2>1, RequestRigid DEF RetryFacts
<1>6. OwnNegatives(r)' = OwnNegatives(r)
  <2>1. {n \in bundle'.negatives : n.observation = ObservationId(r)}
          = {n \in bundle.negatives : n.observation = ObservationId(r)}
    BY <1>1, <1>2, <1>4
  <2> QED
    BY <2>1, RequestRigid DEF OwnNegatives
<1> QED
  BY <1>1, <1>2, <1>5, <1>6

(* So that its exact retry stays acceptable. *)
LEMMA RetryStays ==
  ASSUME EngineInv, NEW r, Known(r), BindingsIn(r) \subseteq bundle.bindings,
         RetryAccepted(r),
         NEW q, ~Known(q), bundle' = ExtendedBundle(q), Verified(bundle')
  PROVE  RetryAccepted(r)'
<1>1. /\ RetryFacts(r)' = RetryFacts(r) /\ OwnNegatives(r)' = OwnNegatives(r)
      /\ bundle.observations \subseteq bundle'.observations
      /\ bundle.bindings \subseteq bundle'.bindings
  BY OthersApart
<1>2. RequestAdmitted(r)'
  <2>1. NoCollision(bundle.bindings \cup BindingsIn(r))'
    <3>1. bundle'.bindings \cup BindingsIn(r) = bundle'.bindings
      BY <1>1
    <3> QED
      BY <3>1, RequestRigid DEF Verified, IdentitiesUnique, NoCollision, BindingId
  <2> QED
    BY <2>1, RequestRigid DEF RetryAccepted, RequestAdmitted
<1>3. Known(r)'
  BY <1>1, RequestRigid DEF Known
<1>4. RetryIdentical(r)'
  <2>1. PICK F, N : F = RetryFacts(r) /\ N = OwnNegatives(r)
    OBVIOUS
  <2>2. F = RetryFacts(r)' /\ N = OwnNegatives(r)'
    BY <1>1, <2>1
  <2>3. ClaimsAdmitted(r, F) /\ NegativesIn(r, F) = N
    BY <2>1 DEF RetryAccepted, RetryIdentical
  <2>4. RetryStatus(r)' = RetryStatus(r)
    BY <1>1, RequestRigid DEF RetryStatus, SharingCoordinate, Coordinate
  <2>5. ObservationRecord(r, RetryStatus(r))' = ObservationRecord(r, RetryStatus(r))
    BY <2>4, RequestRigid DEF ObservationRecord
  <2>6. {BindingId(b) : b \in BindingsIn(r)} \subseteq {BindingId(b) : b \in bundle'.bindings}
    BY <1>1
  <2> QED
    BY <1>1, <2>1, <2>2, <2>3, <2>5, <2>6, ClaimsRigid, RequestRigid
    DEF RetryAccepted, RetryIdentical, BindingId
<1> QED
  BY <1>2, <1>3, <1>4 DEF RetryAccepted

(* The first answer, had it met no contradiction, is the retry's.          *)
LEMMA FirstAnswerRepeats ==
  ASSUME EngineInv, NEW r, ObserveNew(r), MetNothingEarlier(r)'
  PROVE  RetryAccepted(r)'
<1> DEFINE id == ObservationId(r)
           seen == ObservedFacts(r)
           facts == bundle.facts \cup seen
           claimed == NegativesIn(r, facts)
<1>1. /\ RequestAdmitted(r) /\ ~Known(r) /\ ClaimsAdmitted(r, facts)
      /\ Verified(bundle') /\ bundle' = ExtendedBundle(r)
  BY DEF ObserveNew
<1>2. /\ bundle'.bindings = bundle.bindings \cup BindingsIn(r)
      /\ bundle'.negatives = bundle.negatives \cup claimed
      /\ bundle'.observations =
            bundle.observations \cup {ObservationRecord(r, FinalStatus(r, facts))}
  BY <1>1 DEF ExtendedBundle
<1>3. FinalStatus(r, facts) # "CONFLICTED"
  <2>1. PICK o \in bundle'.observations : o.id = id /\ o.status # "CONFLICTED"
    BY RequestRigid DEF MetNothingEarlier
  <2>2. o \notin bundle.observations
    BY <1>1, <2>1 DEF Known
  <2>3. o = ObservationRecord(r, FinalStatus(r, facts))
    BY <1>2, <2>1, <2>2
  <2>4. o.status = FinalStatus(r, facts)
    BY <2>3 DEF ObservationRecord
  <2> QED
    BY <2>1, <2>4
<1>4. /\ \A f \in facts : PositiveConflicts(r, facts, f) = {}
      /\ \A n \in claimed : n.facts = {}
      /\ FinalStatus(r, facts) = BaseStatus(r)
  BY <1>3 DEF FinalStatus
<1>5. RetryFacts(r)' = seen
  <2>1. \A b \in bundle.bindings : b.observation # id
    BY <1>1 DEF EngineInv, Verified, BindingsResolve, Known
  <2>2. \A b \in BindingsIn(r) : b.observation = id
    BY DEF BindingsIn, BindingOf
  <2>3. {b \in bundle'.bindings \cup BindingsIn(r) : b.observation = id} = BindingsIn(r)
    BY <1>2, <2>1, <2>2
  <2>4. RetryFacts(r)' = {b.fact : b \in BindingsIn(r)}
    BY <2>3, RequestRigid DEF RetryFacts
  <2>5. {b.fact : b \in BindingsIn(r)} = seen
    <3>1. \A o, f : BindingOf(r, o, f).fact = f
      BY DEF BindingOf
    <3>2. BindingsIn(r) = UNION {{BindingOf(r, o, f) : f \in FactsIn(o)} : o \in r.occurrences}
      BY DEF BindingsIn
    <3>3. \A f \in seen : \E b \in BindingsIn(r) : b.fact = f
      BY <3>1, <3>2 DEF ObservedFacts
    <3>4. \A b \in BindingsIn(r) : b.fact \in seen
      BY <3>1, <3>2 DEF ObservedFacts
    <3> QED
      BY <3>3, <3>4
  <2> QED
    BY <2>4, <2>5
<1>6. OwnNegatives(r)' = claimed
  <2>1. \A n \in bundle.negatives : n.observation # id
    BY <1>1 DEF EngineInv, NegativesObserved, Known
  <2>2. \A n \in claimed : n.observation = id
    BY DEF NegativesIn, NegativeRecord
  <2> QED
    BY <1>2, <2>1, <2>2, RequestRigid DEF OwnNegatives
<1>7. \A claim \in r.claims : SharingCoordinate(facts, claim) = {}
  <2>1. \A claim : NegativeRecord(r, claim, facts).facts = SharingCoordinate(facts, claim)
    BY DEF NegativeRecord
  <2>2. \A claim \in r.claims : NegativeRecord(r, claim, facts) \in claimed
    BY DEF NegativesIn
  <2> QED
    BY <1>4, <2>1, <2>2
<1>8. \A claim \in r.claims : SharingCoordinate(seen, claim) = {}
  BY <1>7 DEF SharingCoordinate
<1>9. NegativesIn(r, seen) = claimed
  BY <1>7, <1>8 DEF NegativesIn, NegativeRecord
<1>10. ClaimsAdmitted(r, seen)
  BY <1>1, <1>8 DEF ClaimsAdmitted, ClaimAdmitted
<1>11. RetryStatus(r)' = BaseStatus(r)
  <2>1. ASSUME NEW f \in seen
        PROVE  SharingCoordinate(seen, f) = {f} /\ SharingCoordinate(claimed, f) = {}
    <3>1. SharingCoordinate(facts, f) \ {f} = {}
      BY <1>4 DEF PositiveConflicts, SharingCoordinate
    <3>2. SharingCoordinate(seen, f) = {f}
      BY <3>1 DEF SharingCoordinate
    <3>3. ASSUME NEW n \in SharingCoordinate(claimed, f) PROVE FALSE
      <4>1. PICK claim \in r.claims : n = NegativeRecord(r, claim, facts)
        BY <3>3 DEF SharingCoordinate, NegativesIn
      <4>2. Coordinate(claim) = Coordinate(f)
        BY <3>3, <4>1 DEF SharingCoordinate, NegativeRecord, Coordinate
      <4>3. f \in SharingCoordinate(facts, claim)
        BY <4>2 DEF SharingCoordinate
      <4> QED
        BY <1>7, <4>3
    <3> QED
      BY <3>2, <3>3
  <2>2. PICK F, N : F = seen /\ N = claimed
    OBVIOUS
  <2>3. RetryFacts(r)' = F /\ OwnNegatives(r)' = N
    BY <1>5, <1>6, <2>2
  <2>4. \A f \in F : SharingCoordinate(F, f) = {f} /\ SharingCoordinate(N, f) = {}
    BY <2>1, <2>2
  <2>5. \A f \in F : SharingCoordinate(F, f)' = {f} /\ SharingCoordinate(N, f)' = {}
    BY <2>4 DEF SharingCoordinate, Coordinate
  <2> QED
    BY <2>3, <2>5, RequestRigid DEF RetryStatus
<1>12. RequestAdmitted(r)' /\ Known(r)'
  <2>1. bundle'.bindings \cup BindingsIn(r) = bundle'.bindings
    BY <1>2
  <2>2. NoCollision(bundle.bindings \cup BindingsIn(r))'
    BY <1>1, <2>1, RequestRigid DEF Verified, IdentitiesUnique, NoCollision, BindingId
  <2>3. Known(r)'
    BY RequestRigid DEF MetNothingEarlier, Known
  <2> QED
    BY <1>1, <2>2, <2>3, RequestRigid DEF RequestAdmitted
<1>13. RetryIdentical(r)'
  <2>1. ObservationRecord(r, RetryStatus(r))' \in bundle'.observations
    <3>1. ObservationRecord(r, RetryStatus(r))' = ObservationRecord(r, BaseStatus(r))
      BY <1>11, RequestRigid DEF ObservationRecord
    <3> QED
      BY <1>2, <1>4, <3>1
  <2>2. PICK F, N : F = seen /\ N = claimed
    OBVIOUS
  <2>3. F = RetryFacts(r)' /\ N = OwnNegatives(r)'
    BY <1>5, <1>6, <2>2
  <2>4. ClaimsAdmitted(r, F) /\ NegativesIn(r, F) = N
    BY <1>9, <1>10, <2>2
  <2>5. {BindingId(b) : b \in BindingsIn(r)} \subseteq {BindingId(b) : b \in bundle'.bindings}
    BY <1>2
  <2> QED
    BY <2>1, <2>3, <2>4, <2>5, ClaimsRigid, RequestRigid DEF RetryIdentical, BindingId
<1> QED
  BY <1>12, <1>13 DEF RetryAccepted

(* A new observation. *)
LEMMA ObserveNewStep == ASSUME EngineInv, NEW r, ObserveNew(r) PROVE EngineInv'
<1>1. /\ ~Known(r) /\ Verified(bundle') /\ bundle' = ExtendedBundle(r)
      /\ acknowledged' = acknowledged \cup {r}
  BY DEF ObserveNew
<1>2. FactsNameAll' /\ EvaluatedAreFacts'
  BY <1>1, ExtensionNamesAll
<1>3. NegativesObserved'
  <2>1. /\ bundle'.negatives = bundle.negatives \cup NegativesIn(r, bundle.facts \cup ObservedFacts(r))
        /\ bundle'.observations = bundle.observations \cup
             {ObservationRecord(r, FinalStatus(r, bundle.facts \cup ObservedFacts(r)))}
    BY <1>1 DEF ExtendedBundle
  <2>2. \A n \in NegativesIn(r, bundle.facts \cup ObservedFacts(r)) : n.observation = ObservationId(r)
    BY DEF NegativesIn, NegativeRecord
  <2>3. \A s : ObservationRecord(r, s).id = ObservationId(r)
    BY DEF ObservationRecord
  <2> QED
    BY <2>1, <2>2, <2>3 DEF EngineInv, NegativesObserved
<1>4. ASSUME NEW q \in acknowledged'
      PROVE  Known(q)' /\ (MetNothingEarlier(q) => RetryAccepted(q))'
             /\ (BindingsIn(q) \subseteq bundle.bindings)'
  <2>1. /\ bundle'.bindings = bundle.bindings \cup BindingsIn(r)
        /\ bundle'.observations = bundle.observations \cup
             {ObservationRecord(r, FinalStatus(r, bundle.facts \cup ObservedFacts(r)))}
    BY <1>1 DEF ExtendedBundle
  <2>2. \A s : ObservationRecord(r, s).id = ObservationId(r)
    BY DEF ObservationRecord
  <2>3. CASE q = r
    <3>1. Known(r)'
      BY <2>1, <2>2, RequestRigid DEF Known
    <3>2. MetNothingEarlier(r)' => RetryAccepted(r)'
      BY FirstAnswerRepeats
    <3> QED
      BY <2>1, <2>3, <3>1, <3>2, RequestRigid
  <2>4. CASE q # r
    <3>1. /\ q \in acknowledged /\ Known(q) /\ BindingsIn(q) \subseteq bundle.bindings
          /\ MetNothingEarlier(q) => RetryAccepted(q)
      BY <1>1, <2>4 DEF EngineInv, AnswerKept
    <3>2. Known(q)' /\ (BindingsIn(q) \subseteq bundle.bindings)'
      BY <2>1, <3>1, RequestRigid DEF Known
    <3>3. MetNothingEarlier(q)' => MetNothingEarlier(q)
      <4>1. ObservationId(r) # ObservationId(q)
        BY <1>1, <3>1 DEF Known
      <4> QED
        BY <2>1, <2>2, <4>1, RequestRigid DEF MetNothingEarlier
    <3>4. RetryAccepted(q) => RetryAccepted(q)'
      BY <1>1, <3>1, RetryStays
    <3> QED
      BY <3>1, <3>2, <3>3, <3>4
  <2> QED
    BY <2>3, <2>4
<1> QED
  BY <1>1, <1>2, <1>3, <1>4 DEF EngineInv, AnswerKept

(* The same bundle, with the same answers or an exact retry's. *)
LEMMA SameBundle ==
  ASSUME EngineInv, bundle' = bundle,
         \A r \in acknowledged' :
            \/ r \in acknowledged
            \/ Known(r) /\ RetryAccepted(r) /\ BindingsIn(r) \subseteq bundle.bindings
  PROVE  EngineInv'
<1>1. \A r : /\ Known(r)' <=> Known(r)
             /\ MetNothingEarlier(r)' <=> MetNothingEarlier(r)
             /\ RetryAccepted(r)' <=> RetryAccepted(r)
             /\ (BindingsIn(r) \subseteq bundle.bindings)'
                   <=> BindingsIn(r) \subseteq bundle.bindings
  <2> TAKE r
  <2>1. /\ Known(r)' <=> Known(r)
        /\ MetNothingEarlier(r)' <=> MetNothingEarlier(r)
        /\ (BindingsIn(r) \subseteq bundle.bindings)'
              <=> BindingsIn(r) \subseteq bundle.bindings
    BY RequestRigid DEF Known, MetNothingEarlier
  <2>2. RequestAdmitted(r)' <=> RequestAdmitted(r)
    BY RequestRigid DEF RequestAdmitted, NoCollision, BindingId
  <2>3. RetryIdentical(r)' <=> RetryIdentical(r)
    <3>1. RetryFacts(r)' = RetryFacts(r) /\ OwnNegatives(r)' = OwnNegatives(r)
      BY RequestRigid DEF RetryFacts, OwnNegatives
    <3>2. RetryStatus(r)' = RetryStatus(r)
      BY <3>1, RequestRigid DEF RetryStatus, SharingCoordinate, Coordinate
    <3>3. ObservationRecord(r, RetryStatus(r))' = ObservationRecord(r, RetryStatus(r))
      BY <3>2, RequestRigid DEF ObservationRecord
    <3>4. PICK F : F = RetryFacts(r)
      OBVIOUS
    <3> QED
      BY <3>1, <3>3, <3>4, ClaimsRigid, RequestRigid DEF RetryIdentical, BindingId
  <2> QED
    BY <2>1, <2>2, <2>3 DEF RetryAccepted
<1>2. AnswerKept'
  BY <1>1 DEF EngineInv, AnswerKept
<1> QED
  BY <1>2 DEF EngineInv, FactsNameAll, NamesAll, EvaluatedAreFacts, NegativesObserved

(* A retry. *)
LEMMA RetryStep == ASSUME EngineInv, NEW r, Retry(r) PROVE EngineInv'
<1>1. RetryAccepted(r) /\ acknowledged' = acknowledged \cup {r} /\ bundle' = bundle
  BY DEF Retry
<1>2. BindingsIn(r) \subseteq bundle.bindings
  <2> SUFFICES ASSUME NEW b \in BindingsIn(r) PROVE b \in bundle.bindings
    OBVIOUS
  <2>1. PICK c \in bundle.bindings : BindingId(c) = BindingId(b)
    BY <1>1 DEF RetryAccepted, RetryIdentical
  <2>2. b = c
    BY <1>1, <2>1 DEF RetryAccepted, RequestAdmitted, NoCollision
  <2> QED
    BY <2>2
<1>3. Known(r)
  BY <1>1 DEF RetryAccepted
<1> QED
  BY <1>1, <1>2, <1>3, SameBundle

(* Whatever is asked, in any order and however often: no contradiction is  *)
(* lost, and an answer that met none is given again to an exact retry.     *)
THEOREM BundlesHold == ObservationSpec => []BundleSound
<1>1. EngineInit => EngineInv
  BY FS_EmptySet
  DEF EngineInit, EngineInv, Verified, SchemaHolds, IdentitiesUnique, NoCollision, BindingsResolve,
      LineageContiguous, RevisionZeroMatches, ConflictsMutual, EvidenceDeclared, ConflictPositions,
      FactsNameAll, EvaluatedAreFacts, NegativesObserved, AnswerKept
<1>2. EngineInv /\ [EngineNext]_engineVars => EngineInv'
  <2> SUFFICES ASSUME EngineInv, [EngineNext]_engineVars PROVE EngineInv'
    OBVIOUS
  <2>1. CASE UNCHANGED engineVars
    BY <2>1, SameBundle DEF engineVars
  <2>2. CASE EngineNext
    BY <2>2, ObserveNewStep, RetryStep DEF EngineNext
  <2> QED
    BY <2>1, <2>2
<1>3. EngineInv => RetryOutlivesConflicts
  BY DEF EngineInv, AnswerKept, RetryOutlivesConflicts
<1> QED
  BY <1>1, <1>2, <1>3, ContradictionsFound, PTL DEF ObservationSpec, BundleSound
=============================================================================
