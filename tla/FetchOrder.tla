----------------------------- MODULE FetchOrder -----------------------------
(* What a call of the refresher promises about the upstream, whatever the    *)
(* single requests come to: the sources are used in their order, the next    *)
(* one only when the one before failed; the airport is logged in to once,    *)
(* and once more only by a refresh, when the airport or the download server  *)
(* refused what the first login had given; and there is an outcome.          *)
EXTENDS Naturals

CONSTANT Sources    \* the configured ones of "protocol" and "fallback"

VARIABLES
    call,       \* the call being made, or the last one
    stage,      \* "login", "using" what it gave, "storing" the body, or "idle"
    source,     \* the source being used
    attempt,    \* 1 after the login was repeated
    outcome     \* of the last call: the source, "resolved", "unsaved", "nobody",
                \* or "raised"

vars == <<call, stage, source, attempt, outcome>>

Kinds == {"refresh", "test", "credentials"}
HasProtocol == "protocol" \in Sources

\* Only a refresh does without the protocol source.
Begin(c) ==
    /\ stage = "idle"
    /\ c = "refresh" \/ HasProtocol
    /\ call' = c
    /\ attempt' = 0
    /\ source' = IF HasProtocol THEN "protocol" ELSE "fallback"
    /\ stage' = IF HasProtocol THEN "login" ELSE "using"
    /\ outcome' = "pending"

\* The call has its answer.
End(result) ==
    /\ stage' = "idle"
    /\ outcome' = result
    /\ UNCHANGED <<call, source, attempt>>

LoggedIn ==
    /\ stage = "login"
    /\ stage' = "using"
    /\ UNCHANGED <<call, source, attempt, outcome>>

\* A protocol test ends with the subscription URL.
Tested == stage = "using" /\ call = "test" /\ End("resolved")

Downloaded ==
    /\ stage = "using" /\ call # "test"
    /\ \/ stage' = "storing" /\ UNCHANGED <<call, source, attempt, outcome>>
       \/ call = "credentials" /\ End("unsaved")

Stored == stage = "storing" /\ End(source)

\* The first login of a refresh is used up: another one.
Refused ==
    /\ stage = "using" /\ call = "refresh"
    /\ source = "protocol" /\ attempt = 0
    /\ stage' = "login"
    /\ attempt' = 1
    /\ UNCHANGED <<call, source, outcome>>

\* The source failed for good.
Failed ==
    /\ stage # "idle"
    /\ IF call = "refresh" /\ source = "protocol" /\ "fallback" \in Sources
       THEN /\ source' = "fallback"
            /\ stage' = "using"
            /\ UNCHANGED <<call, attempt, outcome>>
       ELSE End("nobody")

\* The database did: the caller gets the exception, no other source is tried.
Raised == stage # "idle" /\ End("raised")

Init ==
    /\ call = "refresh" /\ stage = "idle" /\ attempt = 0
    /\ source = "fallback" /\ outcome = "none"

Proceed == LoggedIn \/ Tested \/ Downloaded \/ Stored \/ Refused \/ Failed \/ Raised

Next == Proceed \/ \E c \in Kinds : Begin(c)

Order == Init /\ [][Next]_vars

\* Every call has an outcome: each step leads nearer to it.
Spec == Order /\ WF_vars(Proceed)
=============================================================================
