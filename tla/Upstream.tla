------------------------------ MODULE Upstream ------------------------------
(* One call of the refresher at the requests it makes, which hold the lock:  *)
(* the login and the subscription URL (v2board_client.py, sources.py), then  *)
(* the download with its redirects, name resolutions and addresses           *)
(* (_download and what it calls in subscription.py), and the retries and     *)
(* sources around it (_refresh_from_source, _refresh_locked).  Refresher     *)
(* takes all of this as two steps, "resolving" and "downloading"; FetchOrder *)
(* says what it may rely on.                                                 *)
(*                                                                           *)
(* The airport, the name servers and the download servers are not part of    *)
(* the program: what they answer is left open.  A URL is its host.           *)
EXTENDS Integers, FiniteSets

CONSTANTS
    Sources,        \* the configured ones of "protocol" and "fallback"
    Calls,          \* the calls made in this instance
    Hosts,          \* hosts of subscription URLs and of redirects
    Addresses,      \* what names resolve to
    Allowed,        \* the public ones and those in allowed_download_cidrs
    MaxRedirects,   \* MAX_REDIRECTS
    Deadline        \* DOWNLOAD_TOTAL_DEADLINE, in ticks

ASSUME UpstreamAssumption ==
    /\ Sources \in SUBSET {"protocol", "fallback"} /\ Sources # {}
    /\ Calls \subseteq {"refresh", "test", "credentials"}
    /\ Hosts # {} /\ Allowed \subseteq Addresses /\ IsFiniteSet(Addresses)
    /\ MaxRedirects \in Nat /\ Deadline \in Nat

VARIABLES
    call,       \* the call being made, or the last one
    at,         \* the request it waits for
    source,     \* the source being used
    attempt,    \* of the loop in _refresh_from_source
    host,       \* of current_url in _download
    redirects,  \* redirect_count
    answer,     \* the last answer of a name server, and the name it is for
    left,       \* addresses of this hop that were not tried yet
    status,     \* of the response whose body is being read
    timer,      \* ticks since the deadline of the download was set
    protocolError, \* last_protocol_error_category is set
    outcome,    \* of the last call: the source, "resolved", "unsaved", "nobody",
                \* or "raised"
    spent       \* history: ticks since the download began

hop == <<host, redirects, answer, left, status>>
clocks == <<timer, spent>>
vars == <<call, at, source, attempt, hop, clocks, protocolError, outcome>>

Requests == {"login", "subscribe", "resolve", "connect", "body"}
Downloading == {"resolve", "connect", "body"}

TypeOK ==
    /\ call \in {"refresh", "test", "credentials"}
    /\ at \in Requests \cup {"idle", "storing"}
    /\ source \in {"protocol", "fallback"}
    /\ attempt \in 0..1
    /\ host \in Hosts /\ redirects \in 0..MaxRedirects
    /\ answer \in [host: Hosts, addresses: SUBSET Addresses]
    /\ left \in SUBSET Addresses
    /\ status \in {"none", "success", "refused", "error"}
    /\ timer \in 0..Deadline /\ spent \in Nat
    /\ protocolError \in BOOLEAN
    /\ outcome \in {"none", "pending", "protocol", "fallback", "resolved", "unsaved", "nobody",
                    "raised"}

HasProtocol == "protocol" \in Sources

Init ==
    /\ call = "refresh" /\ at = "idle"
    /\ source = "fallback" /\ attempt = 0
    /\ \E h \in Hosts : host = h /\ answer = [host |-> h, addresses |-> {}]
    /\ redirects = 0 /\ left = {} /\ status = "none"
    /\ timer = 0 /\ spent = 0
    /\ protocolError = FALSE
    /\ outcome = "none"

-----------------------------------------------------------------------------
\* How a call, an attempt or a download begins and ends.

\* Nothing of a hop outlives it; of the name server's answer nothing is kept.
NoHop == redirects' = 0 /\ left' = {} /\ status' = "none" /\ UNCHANGED <<host, answer>>
NoClock == timer' = 0 /\ spent' = 0

End(result) ==
    /\ at' = "idle"
    /\ outcome' = result
    /\ NoHop /\ NoClock
    /\ UNCHANGED <<call, source, attempt>>

Login ==
    /\ at' = "login"
    /\ NoHop /\ NoClock

\* _download of a URL; its deadline starts.
Download(h) ==
    /\ at' = "resolve"
    /\ host' = h /\ redirects' = 0 /\ left' = {} /\ status' = "none"
    /\ NoClock
    /\ UNCHANGED answer

\* The loops of _refresh_from_source and of _refresh_locked after a failure.  A
\* test and an update of the credentials have one attempt and one source.  That
\* all sources failed, a refresh records, which may raise sqlite3.Error.
TryNext(retryAuth) ==
    IF call = "refresh" /\ source = "protocol" /\ retryAuth /\ attempt = 0
    THEN Login /\ attempt' = 1 /\ UNCHANGED <<call, source, outcome>>
    ELSE IF call = "refresh" /\ source = "protocol" /\ "fallback" \in Sources
    THEN /\ source' = "fallback"
         /\ \E h \in Hosts : Download(h)
         /\ UNCHANGED <<call, attempt, outcome>>
    ELSE \/ End("nobody")
         \/ call = "refresh" /\ End("raised")

\* Deviation: only failures on the way to the subscription URL are recorded.
AttemptFailsUnrecorded(retryAuth) ==
    /\ protocolError' = (at \in {"login", "subscribe"} \/ protocolError)
    /\ TryNext(retryAuth)

\* Their except clause: the category is recorded, and whether to log in again is
\* read off the error.  An error of record_protocol_failure itself is caught
\* nowhere.
AttemptFails(retryAuth) ==
    \/ /\ protocolError' = (source = "protocol" \/ protocolError)
       /\ TryNext(retryAuth)
    \/ /\ source = "protocol"
       /\ End("raised")
       /\ UNCHANGED protocolError

-----------------------------------------------------------------------------
Begin(c) ==
    /\ at = "idle"
    /\ c \in Calls
    /\ c = "refresh" \/ HasProtocol
    /\ call' = c
    /\ attempt' = 0
    /\ outcome' = "pending"
    /\ IF HasProtocol
       THEN source' = "protocol" /\ Login
       ELSE source' = "fallback" /\ \E h \in Hosts : Download(h)
    /\ UNCHANGED protocolError

\* fetch_subscription: POST /passport/auth/login gave auth_data.
LoggedIn ==
    /\ at = "login"
    /\ at' = "subscribe"
    /\ UNCHANGED <<call, source, attempt, hop, clocks, protocolError, outcome>>

\* Deviation: a refused account is tried again like an expired login.
LoginFailsRetryably ==
    /\ at = "login"
    /\ \E retryAuth \in BOOLEAN : AttemptFails(retryAuth)

\* Network errors, captchas, malformed answers; and a refusal of the account
\* itself, which is not tried again.
LoginFails ==
    /\ at = "login"
    /\ AttemptFails(FALSE)

\* GET /user/getSubscribe named an https URL; the success is recorded before the
\* download.
Subscribed(h) ==
    /\ at = "subscribe"
    /\ protocolError' = FALSE
    /\ IF call = "test"
       THEN End("resolved")
       ELSE Download(h) /\ UNCHANGED <<call, source, attempt, outcome>>

\* The login is not accepted any more (401, 403), or another error.
SubscribeFails(retryAuth) ==
    /\ at = "subscribe"
    /\ AttemptFails(retryAuth)

-----------------------------------------------------------------------------
\* One round of the loop in _download.

\* _validate_download_url: the name is resolved for this hop, and what is not
\* public is left out of the answer.  An address in the URL is its own answer.
Resolved(addresses) ==
    /\ at = "resolve"
    /\ addresses \cap Allowed # {}
    /\ answer' = [host |-> host, addresses |-> addresses]
    /\ left' = addresses \cap Allowed
    /\ at' = "connect"
    /\ UNCHANGED <<call, source, attempt, host, redirects, status, clocks, protocolError, outcome>>

\* The URL is not an https URL, the name does not resolve, or to nothing public.
ResolveFails ==
    /\ at = "resolve"
    /\ AttemptFails(FALSE)

\* A TransportError, before the response or inside its body: the next address is
\* tried, and after the last one the error is raised.
AddressFails(rest) ==
    IF rest = {} THEN AttemptFails(FALSE)
    ELSE /\ at' = "connect"
         /\ left' = rest
         /\ status' = "none"
         /\ UNCHANGED <<call, source, attempt, host, redirects, answer, clocks, protocolError, outcome>>

ConnectFails(a) ==
    /\ at = "connect" /\ a \in left
    /\ AddressFails(left \ {a})

\* Deviation: the next hop goes to the addresses of this one.
RedirectedConnected(a, h) ==
    /\ at = "connect" /\ a \in left
    /\ IF redirects = MaxRedirects
       THEN AttemptFails(FALSE)
       ELSE /\ redirects' = redirects + 1
            /\ host' = h
            /\ UNCHANGED <<call, at, source, attempt, answer, left, status, clocks, protocolError, outcome>>

\* Deviation: every hop has the whole time.
RedirectedAnew(a, h) ==
    /\ at = "connect" /\ a \in left
    /\ IF redirects = MaxRedirects
       THEN AttemptFails(FALSE)
       ELSE /\ redirects' = redirects + 1
            /\ host' = h
            /\ left' = {}
            /\ at' = "resolve"
            /\ timer' = 0
            /\ UNCHANGED <<call, source, attempt, answer, status, spent, protocolError, outcome>>

\* A redirect, whose body is not read.
Redirected(a, h) ==
    /\ at = "connect" /\ a \in left
    /\ IF redirects = MaxRedirects
       THEN AttemptFails(FALSE)
       ELSE /\ redirects' = redirects + 1
            /\ host' = h
            /\ left' = {}
            /\ at' = "resolve"
            /\ UNCHANGED <<call, source, attempt, answer, status, clocks, protocolError, outcome>>

\* Another response; a redirect without a location is an error like others.
Responds(a, s) ==
    /\ at = "connect" /\ a \in left
    /\ at' = "body"
    /\ left' = left \ {a}
    /\ status' = s
    /\ UNCHANGED <<call, source, attempt, host, redirects, answer, clocks, protocolError, outcome>>

BodyBreaks ==
    /\ at = "body"
    /\ AddressFails(left)

\* validate_subscription accepts the body.  New credentials are given up here
\* when there is no key to seal them with.
BodyAccepted ==
    /\ at = "body" /\ status = "success"
    /\ \/ call = "credentials" /\ End("unsaved")
       \/ /\ at' = "storing"
          /\ NoHop /\ NoClock
          /\ UNCHANGED <<call, source, attempt, outcome>>
    /\ UNCHANGED protocolError

\* It is no subscription; or the response was no success.  Of a refusal (401,
\* 403) a new login may help, unless its body is a challenge, encoded, or longer
\* than what is read of it: those are other errors.
BodyRejected(retryAuth) ==
    /\ at = "body"
    /\ retryAuth => status = "refused"
    /\ AttemptFails(retryAuth)

\* asyncio.timeout(DOWNLOAD_TOTAL_DEADLINE).
TimedOut ==
    /\ at \in Downloading /\ timer = Deadline
    /\ AttemptFails(FALSE)

\* _commit_success and, for new credentials, storing them: Refresher has the
\* steps.
Stored ==
    /\ at = "storing"
    /\ End(source)
    /\ UNCHANGED protocolError

\* An OSError; for new credentials also sqlite3.Error and SecretStoreUnavailable.
StoreFails ==
    /\ at = "storing"
    /\ AttemptFails(FALSE)

\* sqlite3.Error is in the except clause of an update of the credentials only: of
\* record_refresh_success it ends a refresh, of record_protocol_success a refresh
\* or a test, with no failure recorded and no other source tried.
DatabaseRaises ==
    /\ \/ at = "storing" /\ call = "refresh"
       \/ at = "subscribe" /\ call # "credentials"
    /\ End("raised")
    /\ UNCHANGED protocolError

\* The timer of a download fires before more time passes.
Tick ==
    /\ at \in Downloading /\ timer < Deadline
    /\ timer' = timer + 1
    /\ spent' = spent + 1
    /\ UNCHANGED <<call, at, source, attempt, hop, protocolError, outcome>>

-----------------------------------------------------------------------------
Proceed ==
    \/ LoggedIn \/ LoginFails
    \/ \E h \in Hosts : Subscribed(h)
    \/ \E retryAuth \in BOOLEAN : SubscribeFails(retryAuth) \/ BodyRejected(retryAuth)
    \/ \E addresses \in SUBSET Addresses : Resolved(addresses)
    \/ ResolveFails
    \/ \E a \in Addresses :
        \/ ConnectFails(a)
        \/ \E h \in Hosts : Redirected(a, h)
        \/ \E s \in {"success", "refused", "error"} : Responds(a, s)
    \/ BodyBreaks \/ BodyAccepted
    \/ TimedOut
    \/ Stored \/ StoreFails \/ DatabaseRaises

Next == Proceed \/ Tick \/ \E c \in Calls : Begin(c)

Spec == Init /\ [][Next]_vars

\* Every request has a timeout of its own, and no body is read without a bound.
LiveSpec == Spec /\ WF_vars(Proceed)

-----------------------------------------------------------------------------
\* The stage of a call: what it waits for once the login is made uses what that
\* gave, up to the body.
Stage ==
    CASE at = "login" -> "login"
      [] at \in {"subscribe"} \cup Downloading -> "using"
      [] OTHER -> at

Order == INSTANCE FetchOrder WITH stage <- Stage

\* Whatever the airport, the name servers and the download servers answer, and
\* whenever: the sources in order, one more login only after a refusal of what
\* the first one gave, and an outcome in the end.
ImplementsFetchOrder == Order!Spec

\* test_download_resolves_dns_again_for_each_redirect_hop, for every sequence of
\* hops, broken connections and retries: an address is contacted only if it is
\* allowed and a name server gave it for the host of the URL at hand.
HopsAreChecked ==
    at = "connect" => /\ answer.host = host
                      /\ left # {} /\ left \subseteq answer.addresses \cap Allowed

\* "The wall-clock limit of the whole download, redirects and resolutions
\* included, so that a slow trickle does not occupy the refresh lock".
DownloadBounded == at \in Downloading => spent <= Deadline

\* What the admin page says of the protocol source is what the last call made of
\* it: no success of the fallback hides an error, and no error stays after a
\* second attempt that went well.  Except for a call that raised: when the
\* database failed under the protocol source, the status is whatever was recorded
\* before, be it the success of the login of this very call, whose body was then
\* not stored.  Under the fallback, the error stays recorded all the same.
StatusTellsOutcome ==
    at = "idle" =>
        /\ outcome \in {"protocol", "resolved", "unsaved"} => ~protocolError
        /\ outcome \in {"fallback", "nobody"} /\ HasProtocol => protocolError
        /\ outcome = "raised" /\ source = "fallback" /\ HasProtocol => protocolError
=============================================================================
