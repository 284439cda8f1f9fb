--------------------------- MODULE UpstreamProofs ---------------------------
(* Proofs about Upstream, for all hosts and addresses, whichever of them are *)
(* allowed, all sources and calls, and all bounds.                           *)
EXTENDS Upstream, TLAPS

-----------------------------------------------------------------------------
\* The invariant.

\* What is left to try, of this hop, was in the answer for its host and allowed;
\* a body that breaks off leads back to it.
LeftIsChecked ==
    at \in {"connect", "body"} => /\ answer.host = host
                                  /\ left \subseteq answer.addresses \cap Allowed

HopHasAddress == at = "connect" => left # {}

\* The timer is never set again within a download.
TimerIsTime == at \in Downloading => spent = timer

\* Where an error of the protocol source is recorded, and where it is not.
ErrorTracksSource ==
    /\ at \in {"login", "subscribe"} => source = "protocol"
    /\ at # "idle" /\ call # "refresh" => source = "protocol"
    /\ at # "idle" /\ source = "fallback" /\ HasProtocol => protocolError
    /\ at \in Downloading \cup {"storing"} /\ source = "protocol" => ~protocolError

\* A protocol test ends before the download.
TestsStopEarly == at \in Downloading \cup {"storing"} => call # "test"

Inv ==
    /\ TypeOK /\ TestsStopEarly
    /\ LeftIsChecked /\ HopHasAddress
    /\ TimerIsTime
    /\ ErrorTracksSource /\ StatusTellsOutcome

LEMMA Initially == Init => Inv
  <1> SUFFICES ASSUME Init PROVE Inv
    OBVIOUS
  <1>1. protocolError \in BOOLEAN
    BY Zenon DEF Init
  <1>2. host \in Hosts /\ answer \in [host: Hosts, addresses: SUBSET Addresses]
    BY DEF Init
  <1>3. TypeOK
    BY <1>1, <1>2, UpstreamAssumption DEF Init, TypeOK
  <1>4. QED
    BY <1>3
       DEF Init, Inv, TestsStopEarly, LeftIsChecked, HopHasAddress, TimerIsTime, ErrorTracksSource,
           StatusTellsOutcome, Downloading

\* A call that raised leaves the status alone.
LEMMA RaisedKeepsInv ==
  ASSUME Inv, at # "idle", End("raised"),
         protocolError' \in BOOLEAN,
         source = "fallback" /\ HasProtocol => protocolError'
  PROVE  Inv'
  BY UpstreamAssumption
     DEF End, NoHop, NoClock, Inv, TypeOK, TestsStopEarly, LeftIsChecked, HopHasAddress, TimerIsTime,
         ErrorTracksSource, StatusTellsOutcome, Downloading, Requests, HasProtocol

\* A failed attempt, wherever it failed, leads to a state of the invariant.
LEMMA FailureKeepsInv ==
  ASSUME Inv, at # "idle", NEW retryAuth \in BOOLEAN, AttemptFails(retryAuth)
  PROVE  Inv'
  <1>raised. CASE source = "protocol" /\ End("raised") /\ UNCHANGED protocolError
    <2>1. protocolError' \in BOOLEAN /\ source # "fallback"
      BY <1>raised, Zenon DEF Inv, TypeOK
    <2>2. QED
      BY <1>raised, <2>1, RaisedKeepsInv
  <1> SUFFICES ASSUME protocolError' = (source = "protocol" \/ protocolError), TryNext(retryAuth)
               PROVE  Inv'
    BY <1>raised DEF AttemptFails
  <1>1. TryNext(retryAuth)
    OBVIOUS
  <1>error. /\ source = "protocol" => protocolError' = TRUE
            /\ source # "protocol" /\ protocolError => protocolError' = TRUE
            /\ source # "protocol" /\ ~protocolError => protocolError' = FALSE
    BY Zenon
  <1>2. CASE call = "refresh" /\ source = "protocol" /\ retryAuth /\ attempt = 0
    BY <1>1, <1>error, <1>2, UpstreamAssumption
       DEF TryNext, Login, NoHop, NoClock, Inv, TypeOK, TestsStopEarly, LeftIsChecked, HopHasAddress,
           TimerIsTime, ErrorTracksSource, StatusTellsOutcome, Downloading, Requests, HasProtocol
  <1>3. CASE /\ ~(call = "refresh" /\ source = "protocol" /\ retryAuth /\ attempt = 0)
             /\ call = "refresh" /\ source = "protocol" /\ "fallback" \in Sources
    BY <1>1, <1>error, <1>3, UpstreamAssumption
       DEF TryNext, Download, NoClock, Inv, TypeOK, TestsStopEarly, LeftIsChecked, HopHasAddress,
           TimerIsTime, ErrorTracksSource, StatusTellsOutcome, Downloading, Requests, HasProtocol
  <1>4. CASE End("nobody")
    <2>1. TypeOK'
      <3>1. protocolError' \in BOOLEAN
        BY <1>error
      <3>2. QED
        BY <3>1, <1>4, UpstreamAssumption DEF End, NoHop, NoClock, Inv, TypeOK
    <2>2. HasProtocol => protocolError' = TRUE
      BY <1>error DEF Inv, TypeOK, TestsStopEarly, ErrorTracksSource
    <2>3. at' = "idle" /\ outcome' = "nobody" /\ (HasProtocol <=> HasProtocol')
      BY <1>4 DEF End, HasProtocol
    <2>4. QED
      BY <2>1, <2>2, <2>3
         DEF Inv, TestsStopEarly, LeftIsChecked, HopHasAddress, TimerIsTime, ErrorTracksSource,
             StatusTellsOutcome, Downloading
  <1>5. CASE End("raised")
    <2>1. protocolError' \in BOOLEAN
      BY <1>error
    <2>2. source = "fallback" /\ HasProtocol => protocolError'
      BY <1>error DEF Inv, TypeOK, ErrorTracksSource
    <2>3. QED
      BY <1>5, <2>1, <2>2, RaisedKeepsInv
  <1>6. QED
    BY <1>1, <1>2, <1>3, <1>4, <1>5 DEF TryNext

LEMMA BrokenConnectionKeepsInv ==
  ASSUME Inv, at \in {"connect", "body"}, NEW rest \in SUBSET left, AddressFails(rest)
  PROVE  Inv'
  <1>1. CASE rest = {}
    BY <1>1, FailureKeepsInv DEF AddressFails
  <1>2. CASE rest # {}
    BY <1>2, UpstreamAssumption
       DEF AddressFails, Inv, TypeOK, TestsStopEarly, LeftIsChecked, HopHasAddress, TimerIsTime,
           ErrorTracksSource, StatusTellsOutcome, Downloading, Requests, HasProtocol, clocks
  <1>3. QED
    BY <1>1, <1>2

LEMMA EndKeepsInv ==
  ASSUME Inv, at # "idle",
         NEW result \in {"protocol", "fallback", "resolved", "unsaved"}, End(result),
         protocolError' \in BOOLEAN,
         result = "fallback" => protocolError' \/ ~HasProtocol,
         result # "fallback" => ~protocolError'
  PROVE  Inv'
  BY UpstreamAssumption
     DEF End, NoHop, NoClock, Inv, TypeOK, TestsStopEarly, LeftIsChecked, HopHasAddress, TimerIsTime,
         ErrorTracksSource, StatusTellsOutcome, Downloading, Requests, HasProtocol

LEMMA BeginKeepsInv ==
  ASSUME Inv, NEW c \in Calls, Begin(c)
  PROVE  Inv'
  <1>1. CASE HasProtocol
    BY <1>1, UpstreamAssumption
       DEF Begin, Login, NoHop, NoClock, Inv, TypeOK, TestsStopEarly, LeftIsChecked, HopHasAddress,
           TimerIsTime, ErrorTracksSource, StatusTellsOutcome, Downloading, Requests, HasProtocol
  <1>2. CASE ~HasProtocol
    BY <1>2, UpstreamAssumption
       DEF Begin, Download, NoClock, Inv, TypeOK, TestsStopEarly, LeftIsChecked, HopHasAddress,
           TimerIsTime, ErrorTracksSource, StatusTellsOutcome, Downloading, Requests, HasProtocol
  <1>3. QED
    BY <1>1, <1>2

LEMMA RedirectKeepsInv ==
  ASSUME Inv, NEW a \in Addresses, NEW h \in Hosts, Redirected(a, h)
  PROVE  Inv'
  <1>1. CASE redirects = MaxRedirects
    BY <1>1, FailureKeepsInv DEF Redirected
  <1>2. CASE redirects # MaxRedirects
    BY <1>2, UpstreamAssumption
       DEF Redirected, Inv, TypeOK, TestsStopEarly, LeftIsChecked, HopHasAddress, TimerIsTime,
           ErrorTracksSource, StatusTellsOutcome, Downloading, Requests, HasProtocol, clocks
  <1>3. QED
    BY <1>1, <1>2

\* Every answer, in every order, keeps the invariant.
LEMMA ProceedKeepsInv == Inv /\ Proceed => Inv'
  <1> SUFFICES ASSUME Inv, Proceed PROVE Inv'
    OBVIOUS
  <1>1. CASE LoggedIn
    BY <1>1, UpstreamAssumption
       DEF LoggedIn, Inv, TypeOK, TestsStopEarly, LeftIsChecked, HopHasAddress, TimerIsTime,
           ErrorTracksSource, StatusTellsOutcome, Downloading, Requests, HasProtocol, hop, clocks
  <1>2. CASE LoginFails
    BY <1>2, FailureKeepsInv DEF LoginFails
  <1>3. ASSUME NEW h \in Hosts, Subscribed(h) PROVE Inv'
    <2>typed. protocolError' \in BOOLEAN
      BY <1>3, Zenon DEF Subscribed
    <2>1. CASE call = "test"
      BY <1>3, <2>typed, <2>1, EndKeepsInv DEF Subscribed
    <2>2. CASE call # "test"
      BY <1>3, <2>typed, <2>2, UpstreamAssumption
         DEF Subscribed, Download, NoClock, Inv, TypeOK, TestsStopEarly, LeftIsChecked, HopHasAddress,
             TimerIsTime, ErrorTracksSource, StatusTellsOutcome, Downloading, Requests, HasProtocol
    <2>3. QED
      BY <2>1, <2>2
  <1>4. ASSUME NEW retryAuth \in BOOLEAN, SubscribeFails(retryAuth) PROVE Inv'
    BY <1>4, FailureKeepsInv DEF SubscribeFails
  <1>5. ASSUME NEW retryAuth \in BOOLEAN, BodyRejected(retryAuth) PROVE Inv'
    BY <1>5, FailureKeepsInv DEF BodyRejected
  <1>6. ASSUME NEW addresses \in SUBSET Addresses, Resolved(addresses) PROVE Inv'
    BY <1>6, UpstreamAssumption
       DEF Resolved, Inv, TypeOK, TestsStopEarly, LeftIsChecked, HopHasAddress, TimerIsTime,
           ErrorTracksSource, StatusTellsOutcome, Downloading, Requests, HasProtocol, clocks
  <1>7. CASE ResolveFails
    BY <1>7, FailureKeepsInv DEF ResolveFails
  <1>8. ASSUME NEW a \in Addresses, ConnectFails(a) PROVE Inv'
    BY <1>8, BrokenConnectionKeepsInv DEF ConnectFails
  <1>9. ASSUME NEW a \in Addresses, NEW h \in Hosts, Redirected(a, h) PROVE Inv'
    BY <1>9, RedirectKeepsInv
  <1>10. ASSUME NEW a \in Addresses, NEW s \in {"success", "refused", "error"}, Responds(a, s)
         PROVE  Inv'
    BY <1>10, UpstreamAssumption
       DEF Responds, Inv, TypeOK, TestsStopEarly, LeftIsChecked, HopHasAddress, TimerIsTime,
           ErrorTracksSource, StatusTellsOutcome, Downloading, Requests, HasProtocol, clocks
  <1>11. CASE BodyBreaks
    BY <1>11, BrokenConnectionKeepsInv DEF BodyBreaks
  <1>12. CASE BodyAccepted
    <2>1. CASE call = "credentials" /\ End("unsaved")
      BY <1>12, <2>1, EndKeepsInv
         DEF BodyAccepted, Inv, TypeOK, TestsStopEarly, ErrorTracksSource, Downloading
    <2>2. CASE at' = "storing" /\ NoHop /\ NoClock /\ UNCHANGED <<call, source, attempt, outcome>>
      BY <1>12, <2>2, UpstreamAssumption
         DEF BodyAccepted, NoHop, NoClock, Inv, TypeOK, TestsStopEarly, LeftIsChecked, HopHasAddress,
             TimerIsTime, ErrorTracksSource, StatusTellsOutcome, Downloading, Requests, HasProtocol
    <2>3. QED
      BY <1>12, <2>1, <2>2 DEF BodyAccepted
  <1>13. CASE TimedOut
    BY <1>13, FailureKeepsInv DEF TimedOut, Downloading
  <1>14. CASE Stored
    BY <1>14, EndKeepsInv DEF Stored, Inv, TypeOK, TestsStopEarly, ErrorTracksSource
  <1>15. CASE StoreFails
    BY <1>15, FailureKeepsInv DEF StoreFails
  <1>16. CASE DatabaseRaises
    <2>1. protocolError' \in BOOLEAN
      BY <1>16, Zenon DEF DatabaseRaises, Inv, TypeOK
    <2>2. source = "fallback" /\ HasProtocol => protocolError'
      BY <1>16 DEF DatabaseRaises, Inv, ErrorTracksSource
    <2>3. QED
      BY <1>16, <2>1, <2>2, RaisedKeepsInv DEF DatabaseRaises
  <1>17. QED
    BY <1>1, <1>2, <1>3, <1>4, <1>5, <1>6, <1>7, <1>8, <1>9, <1>10, <1>11, <1>12, <1>13,
       <1>14, <1>15, <1>16
       DEF Proceed

LEMMA StepKeepsInv == Inv /\ [Next]_vars => Inv'
  <1> SUFFICES ASSUME Inv, [Next]_vars PROVE Inv'
    OBVIOUS
  <1>1. CASE Proceed
    BY <1>1, ProceedKeepsInv
  <1>2. CASE Tick
    BY <1>2, UpstreamAssumption
       DEF Tick, Inv, TypeOK, TestsStopEarly, LeftIsChecked, HopHasAddress, TimerIsTime, ErrorTracksSource,
           StatusTellsOutcome, Downloading, Requests, HasProtocol, hop
  <1>3. ASSUME NEW c \in Calls, Begin(c) PROVE Inv'
    BY <1>3, BeginKeepsInv
  <1>4. CASE UNCHANGED vars
    BY <1>4
       DEF vars, Inv, TypeOK, TestsStopEarly, LeftIsChecked, HopHasAddress, TimerIsTime, ErrorTracksSource,
           StatusTellsOutcome, HasProtocol, hop, clocks
  <1>5. QED
    BY <1>1, <1>2, <1>3, <1>4 DEF Next

THEOREM Invariance == Spec => []Inv
  BY Initially, StepKeepsInv, PTL DEF Spec

-----------------------------------------------------------------------------
\* Its consequences.

\* Every variable has its type.
THEOREM TypeCorrect == Spec => []TypeOK
  <1>1. Inv => TypeOK
    BY DEF Inv
  <1>2. QED
    BY <1>1, Invariance, PTL

\* _fetch_download_hop is given only addresses that _validate_download_url has
\* passed for the host of the very URL it fetches.
THEOREM HopsChecked == Spec => []HopsAreChecked
  <1>1. Inv => HopsAreChecked
    BY DEF Inv, LeftIsChecked, HopHasAddress, HopsAreChecked
  <1>2. QED
    BY <1>1, Invariance, PTL

\* A download takes no longer than DOWNLOAD_TOTAL_DEADLINE, however many hops,
\* addresses and broken connections it has.
THEOREM DownloadEnds == Spec => []DownloadBounded
  <1>1. Inv => DownloadBounded
    BY UpstreamAssumption DEF Inv, TypeOK, TestsStopEarly, TimerIsTime, DownloadBounded
  <1>2. QED
    BY <1>1, Invariance, PTL

\* The status that _refresh_from_source leaves is that of the last call; after an
\* error of the database under the protocol source, that of an earlier record.
THEOREM StatusTrue == Spec => []StatusTellsOutcome
  <1>1. Inv => StatusTellsOutcome
    BY DEF Inv
  <1>2. QED
    BY <1>1, Invariance, PTL

-----------------------------------------------------------------------------
\* The order of sources and logins.

LEMMA OrderInit == Init => Order!Init
  BY DEF Init, Order!Init, Stage, Downloading

\* The variables of FetchOrder, but for the stage.
visible == <<call, source, attempt, outcome>>

LEMMA SameStage ==
  ASSUME TypeOK, TypeOK', Stage' = Stage, UNCHANGED visible
  PROVE  UNCHANGED Order!vars
  BY DEF Order!vars, visible

LEMMA EndRefines ==
  ASSUME NEW result, End(result)
  PROVE  Order!End(result)
  BY DEF End, Order!End, Stage, Downloading

\* An exception ends the call.
LEMMA RaisedRefines ==
  ASSUME at # "idle", End("raised")
  PROVE  Order!Proceed
  <1>1. Order!Raised
    BY EndRefines DEF Order!Raised, Stage, Downloading
  <1>2. QED
    BY <1>1 DEF Order!Proceed

\* What follows a failure: another login if the first gave what was refused, the
\* next source, or the end.
LEMMA FailureRefines ==
  ASSUME TypeOK, at # "idle", NEW retryAuth \in BOOLEAN, AttemptFails(retryAuth),
         retryAuth => at \in {"subscribe"} \cup Downloading
  PROVE  Order!Proceed
  <1> SUFFICES ASSUME TryNext(retryAuth) PROVE Order!Proceed
    BY RaisedRefines DEF AttemptFails
  <1>1. TryNext(retryAuth)
    OBVIOUS
  <1>2. CASE call = "refresh" /\ source = "protocol" /\ retryAuth /\ attempt = 0
    <2>1. Order!Refused
      BY <1>1, <1>2 DEF TryNext, Login, Order!Refused, Stage, Downloading
    <2>2. QED
      BY <2>1 DEF Order!Proceed
  <1>3. CASE ~(call = "refresh" /\ source = "protocol" /\ retryAuth /\ attempt = 0)
    <2>1. Stage # "idle"
      BY DEF Stage, Downloading
    <2>2. CASE call = "refresh" /\ source = "protocol" /\ "fallback" \in Sources
      <3>1. Order!Failed
        BY <1>1, <1>3, <2>1, <2>2 DEF TryNext, Download, Order!Failed, Stage, Downloading
      <3>2. QED
        BY <3>1 DEF Order!Proceed
    <2>3. CASE ~(call = "refresh" /\ source = "protocol" /\ "fallback" \in Sources)
      <3>1. CASE End("nobody")
        <4>1. Order!Failed
          BY <2>1, <2>3, <3>1, EndRefines DEF Order!Failed
        <4>2. QED
          BY <4>1 DEF Order!Proceed
      <3>2. CASE End("raised")
        BY <3>2, RaisedRefines
      <3>3. QED
        BY <1>1, <1>3, <2>3, <3>1, <3>2 DEF TryNext
    <2>4. QED
      BY <2>2, <2>3
  <1>4. QED
    BY <1>2, <1>3

LEMMA ProceedRefines ==
  ASSUME Inv, Inv', Proceed
  PROVE  Order!Proceed \/ UNCHANGED Order!vars
  <1>typed. TypeOK /\ TypeOK'
    BY DEF Inv
  <1>1. CASE LoggedIn
    <2>1. Order!LoggedIn
      BY <1>1 DEF LoggedIn, Order!LoggedIn, Stage, Downloading
    <2>2. QED
      BY <2>1 DEF Order!Proceed
  <1>2. CASE LoginFails
    BY <1>2, <1>typed, FailureRefines DEF LoginFails
  <1>3. ASSUME NEW h \in Hosts, Subscribed(h) PROVE Order!Proceed \/ UNCHANGED Order!vars
    <2>1. CASE call = "test"
      <3>1. Order!Tested
        BY <1>3, <2>1, EndRefines DEF Subscribed, Order!Tested, Stage, Downloading
      <3>2. QED
        BY <3>1 DEF Order!Proceed
    <2>2. CASE call # "test"
      BY <1>3, <1>typed, <2>2, SameStage DEF Subscribed, Download, Stage, visible, Downloading
    <2>3. QED
      BY <2>1, <2>2
  <1>4. ASSUME NEW retryAuth \in BOOLEAN, SubscribeFails(retryAuth) PROVE Order!Proceed
    BY <1>4, <1>typed, FailureRefines DEF SubscribeFails
  <1>5. ASSUME NEW retryAuth \in BOOLEAN, BodyRejected(retryAuth) PROVE Order!Proceed
    BY <1>5, <1>typed, FailureRefines DEF BodyRejected, Downloading
  <1>6. ASSUME NEW addresses \in SUBSET Addresses, Resolved(addresses)
        PROVE  UNCHANGED Order!vars
    BY <1>6, <1>typed, SameStage DEF Resolved, Stage, visible, Downloading
  <1>7. CASE ResolveFails
    BY <1>7, <1>typed, FailureRefines DEF ResolveFails
  <1>broken. ASSUME at \in {"connect", "body"}, NEW rest, AddressFails(rest)
             PROVE  Order!Proceed \/ UNCHANGED Order!vars
    <2>1. CASE rest = {}
      BY <1>broken, <1>typed, <2>1, FailureRefines DEF AddressFails
    <2>2. CASE rest # {}
      BY <1>broken, <1>typed, <2>2, SameStage DEF AddressFails, Stage, visible, Downloading
    <2>3. QED
      BY <2>1, <2>2
  <1>8. ASSUME NEW a \in Addresses, ConnectFails(a)
        PROVE  Order!Proceed \/ UNCHANGED Order!vars
    BY <1>8, <1>broken DEF ConnectFails
  <1>9. ASSUME NEW a \in Addresses, NEW h \in Hosts, Redirected(a, h)
        PROVE  Order!Proceed \/ UNCHANGED Order!vars
    <2>1. CASE redirects = MaxRedirects
      BY <1>9, <1>typed, <2>1, FailureRefines DEF Redirected
    <2>2. CASE redirects # MaxRedirects
      BY <1>9, <1>typed, <2>2, SameStage DEF Redirected, Stage, visible, Downloading
    <2>3. QED
      BY <2>1, <2>2
  <1>10. ASSUME NEW a \in Addresses, NEW s \in {"success", "refused", "error"}, Responds(a, s)
         PROVE  UNCHANGED Order!vars
    BY <1>10, <1>typed, SameStage DEF Responds, Stage, visible, Downloading
  <1>11. CASE BodyBreaks
    BY <1>11, <1>broken DEF BodyBreaks
  <1>12. CASE BodyAccepted
    <2>1. call # "test"
      BY <1>12 DEF BodyAccepted, Inv, TestsStopEarly, Downloading
    <2>2. Order!Downloaded
      <3>1. CASE call = "credentials" /\ End("unsaved")
        BY <1>12, <2>1, <3>1, EndRefines DEF BodyAccepted, Order!Downloaded, Stage, Downloading
      <3>2. CASE at' = "storing" /\ UNCHANGED visible
        BY <1>12, <2>1, <3>2 DEF BodyAccepted, Order!Downloaded, visible, Stage, Downloading
      <3>3. QED
        BY <1>12, <3>1, <3>2 DEF BodyAccepted, visible
    <2>3. QED
      BY <2>2 DEF Order!Proceed
  <1>13. CASE TimedOut
    BY <1>13, <1>typed, FailureRefines DEF TimedOut, Downloading
  <1>14. CASE Stored
    <2>1. Order!Stored
      BY <1>14, EndRefines DEF Stored, Order!Stored, Stage, Downloading
    <2>2. QED
      BY <2>1 DEF Order!Proceed
  <1>15. CASE StoreFails
    BY <1>15, <1>typed, FailureRefines DEF StoreFails
  <1>16. CASE DatabaseRaises
    BY <1>16, RaisedRefines DEF DatabaseRaises
  <1>17. QED
    BY <1>1, <1>2, <1>3, <1>4, <1>5, <1>6, <1>7, <1>8, <1>9, <1>10, <1>11, <1>12, <1>13,
       <1>14, <1>15, <1>16
       DEF Proceed

LEMMA OrderStep ==
  Inv /\ Inv' /\ [Next]_vars => [Order!Next]_Order!vars
  <1> SUFFICES ASSUME Inv, Inv', [Next]_vars PROVE Order!Next \/ UNCHANGED Order!vars
    OBVIOUS
  <1>typed. TypeOK /\ TypeOK'
    BY DEF Inv
  <1>1. CASE Proceed
    BY <1>1, ProceedRefines DEF Order!Next
  <1>2. CASE Tick
    BY <1>2, <1>typed, SameStage DEF Tick, Stage, visible
  <1>3. ASSUME NEW c \in Calls, Begin(c) PROVE Order!Next
    <2>1. c \in Order!Kinds
      BY UpstreamAssumption DEF Order!Kinds
    <2>2. Order!Begin(c)
      BY <1>3, UpstreamAssumption
         DEF Begin, Login, Download, Order!Begin, HasProtocol, Order!HasProtocol, Stage,
             Downloading
    <2>3. QED
      BY <2>1, <2>2 DEF Order!Next
  <1>4. CASE UNCHANGED vars
    BY <1>4, <1>typed, SameStage DEF vars, Stage, visible
  <1>5. QED
    BY <1>1, <1>2, <1>3, <1>4 DEF Next

\* Whatever is answered, the sources are used in order, and the airport is
\* logged in to again only by a refresh, once, after a refusal of what the first
\* login gave (_refresh_from_source, _refresh_locked).
THEOREM RefinesFetchOrder == Spec => Order!Order
  BY OrderInit, OrderStep, Invariance, PTL DEF Spec, Order!Order
=============================================================================
