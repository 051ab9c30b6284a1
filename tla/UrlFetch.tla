------------------------------ MODULE UrlFetch ------------------------------
(***************************************************************************)
(* POST /ingest/url: one page, or every page of a sitemap one after the     *)
(* other, is fetched over its redirects and submitted                       *)
(* (src/src/api/ingest.ts, src/src/ingestion/url_fetcher.ts); each target   *)
(* is checked against the URL policy before it is asked for                 *)
(* (src/src/ingestion/url_policy.ts). A server may send nothing, or its     *)
(* body for ever.                                                           *)
(***************************************************************************)
EXTENDS Naturals, Sequences

CONSTANTS
    MaxPages,          \* pages taken from a sitemap (maxPages)
    MaxRedirects       \* REDIRECT_POLICY.maxRedirects

ASSUME FetchAssumption == MaxPages \in Nat /\ MaxRedirects \in Nat

VARIABLES
    fetching,          \* what the current fetch is for: "page", "sitemap" or nothing
    at,                \* the await the fetch is at
    hop,               \* redirects followed
    abortTimer,        \* the timer of the hop: "off", "on" or "fired"
    waiting,           \* pages of the sitemap not fetched yet, the current one too
    submissions,       \* per page fetched: "submitted", "denied" or "failed"
    answer             \* what the request was answered

fetchVars == <<fetching, at, hop, abortTimer, waiting, submissions, answer>>

Outcomes == {"submitted", "denied", "failed"}

FetchTypeOK ==
    /\ fetching \in {"none", "page", "sitemap"}
    /\ at \in {"idle", "check", "request", "recheck", "body"}
    /\ hop \in 0 .. MaxRedirects
    /\ abortTimer \in {"off", "on", "fired"}
    /\ waiting \in 0 .. MaxPages
    /\ submissions \in Seq(Outcomes) /\ Len(submissions) + waiting <= MaxPages
    /\ answer \in Outcomes \cup {"none"}
    /\ at \in {"request", "recheck"} => abortTimer # "off"

FetchInit ==
    /\ fetching = "none"
    /\ at = "idle"
    /\ hop = 0
    /\ abortTimer = "off"
    /\ waiting = 0
    /\ submissions = << >>
    /\ answer = "none"

-----------------------------------------------------------------------------
\* A fetch starts with the check of its URL; no timer runs yet.
StartFetch(what) ==
    /\ fetching' = what
    /\ at' = "check"
    /\ hop' = 0
    /\ abortTimer' = "off"

Reply(outcome) ==
    /\ fetching' = "none"
    /\ at' = "idle"
    /\ hop' = 0
    /\ abortTimer' = "off"
    /\ answer' = outcome

PostUrl(what) ==
    /\ fetching = "none"
    /\ answer = "none"
    /\ StartFetch(what)
    /\ UNCHANGED <<waiting, submissions, answer>>

\* fetchSingleUrl has returned or thrown. A page of a sitemap that failed does not
\* stop the others; a sitemap of sitemaps is refused.
FetchEnds(outcome) ==
    \/ /\ fetching = "page" /\ waiting = 0
       /\ Reply(outcome)
       /\ UNCHANGED <<waiting, submissions>>
    \/ /\ fetching = "page" /\ waiting > 0
       /\ submissions' = Append(submissions, outcome)
       /\ waiting' = waiting - 1
       /\ IF waiting = 1 THEN Reply("submitted") ELSE StartFetch("page") /\ UNCHANGED answer
    \/ /\ fetching = "sitemap" /\ outcome = "submitted"
       /\ \/ Reply("failed") /\ UNCHANGED waiting
          \/ Reply("submitted") /\ UNCHANGED waiting
          \/ \E n \in 1 .. MaxPages :
                waiting' = n /\ StartFetch("page") /\ UNCHANGED answer
       /\ UNCHANGED submissions
    \/ /\ fetching = "sitemap" /\ outcome # "submitted"
       /\ Reply(outcome)
       /\ UNCHANGED <<waiting, submissions>>

Stays == UNCHANGED <<fetching, waiting, submissions, answer>>

\* checkUrl: the scheme, then every address the host resolves to.
CheckReturns ==
    /\ at = "check"
    /\ \/ FetchEnds("denied")
       \/ at' = "request" /\ abortTimer' = "on" /\ UNCHANGED hop /\ Stays

\* Mutation: the timer is cleared when the headers are here.
TimerCleared == "off"

\* The timer goes on to cover the body.
TimerOverBody == abortTimer

\* Mutation: one redirect too many.
MayFollowOneMore == hop <= MaxRedirects

MayFollow == hop < MaxRedirects

\* Headers: a body to read, an error status, or a redirect.
HeadersArrive ==
    /\ at = "request"
    /\ \/ at' = "body" /\ abortTimer' = TimerOverBody /\ UNCHANGED hop /\ Stays
       \/ FetchEnds("failed")
       \/ /\ MayFollow
          /\ at' = "recheck"
          /\ hop' = hop + 1
          /\ UNCHANGED abortTimer
          /\ Stays

\* A redirect's target is resolved and checked again; the next hop has a timer of its
\* own.
RecheckReturns ==
    /\ at = "recheck"
    /\ \/ FetchEnds("denied")
       \/ at' = "request" /\ abortTimer' = "on" /\ UNCHANGED hop /\ Stays

\* The body ends; or it is too long, or has taken too long.
BodyEnds ==
    /\ at = "body"
    /\ FetchEnds("submitted") \/ FetchEnds("failed")

TimerFires ==
    /\ abortTimer = "on"
    /\ abortTimer' = "fired"
    /\ UNCHANGED <<at, hop>>
    /\ Stays

\* The abort makes fetch, or the reader of the body, reject.
RequestAborts ==
    /\ at \in {"request", "body"}
    /\ abortTimer = "fired"
    /\ FetchEnds("failed")

FetchNext ==
    \/ \E what \in {"page", "sitemap"} : PostUrl(what)
    \/ CheckReturns
    \/ HeadersArrive
    \/ RecheckReturns
    \/ BodyEnds
    \/ TimerFires
    \/ RequestAborts

\* Host names are resolved, timers fire; nothing is assumed of the servers asked.
FetchFairness ==
    /\ WF_fetchVars(CheckReturns)
    /\ WF_fetchVars(RecheckReturns)
    /\ WF_fetchVars(TimerFires)
    /\ WF_fetchVars(RequestAborts)

-----------------------------------------------------------------------------
(* Property. *)

\* The request is answered although servers hang before their headers or in the
\* middle of a body, redirect for ever, or fail some of the pages (the per-hop timer
\* that covers the body, maxRedirects, the catch inside the sitemap loop).
FetchSettles == fetching # "none" ~> answer # "none"
=============================================================================
