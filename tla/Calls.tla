--------------------------------- MODULE Calls ---------------------------------
(***************************************************************************)
(* One call of a remote service: request_with_retry and the retry loop of   *)
(* McpSession.call, what their callers make of the last answer, and how the *)
(* destination classifies an error.  The service limits the rate of calls   *)
(* in its own ways, or breaks the connection; otherwise it tells the truth. *)
(***************************************************************************)
EXTENDS Naturals

CONSTANTS MaxAttempts,    \* _MAX_ATTEMPTS, _MAX_RETRIES, _MAX_429_RETRIES
          MaxDelay        \* _MAX_DELAY_SECONDS

\* All three are 6; one try more, and the pauses alone could last a minute.
ASSUME CallsAssumption ==
    MaxAttempts \in Nat \ {0} /\ MaxAttempts <= 6 /\ MaxDelay \in Nat

VARIABLES caller,      \* which operation asks, "nobody" before the call
          truth,       \* what the service has to say: [status, text]
          resp,        \* the last answer
          tries,       \* requests sent
          slept,       \* seconds slept
          limited,     \* history: answers that only said "later"
          named,       \* history: an answer named a time to wait
          outcome      \* what the caller made of it, "pending" before

callVars == <<caller, truth, resp, tries, slept, limited, named, outcome>>

Rest == {"asana_request", "jira_request", "luma_write", "contentful_cma"}
OrNothing == {"get_repo", "get_event", "get_event_hosts", "get_issue", "entry_version_or_none"}
OrEmpty == {"fetch_readme", "fetch_languages", "fetch_contributors"}
OrRaise == {"youtube_get", "contentful_get"}
Mcp == {"notion_mcp", "contentful_mcp"}
Callers == Rest \cup OrNothing \cup OrEmpty \cup OrRaise \cup Mcp

\* A status and what stands out in the text: a word of a refusal ("forbidden"),
\* Asana's "not authorized", a number 403 or 429 of its own.
Texts == {"plain", "needle", "asana_needle", "says_403", "says_429"}
Truths == {[status |-> 200, text |-> "plain"], [status |-> 401, text |-> "needle"],
           [status |-> 403, text |-> "plain"], [status |-> 403, text |-> "asana_needle"]}
          \cup {[status |-> s, text |-> "plain"] : s \in {404, 500}}
          \cup {[status |-> 422, text |-> t] : t \in Texts}
Limits == {[status |-> 429, text |-> "says_429"], [status |-> 403, text |-> "plain"]}
NoAnswer == [status |-> 0, text |-> "plain", after |-> "none", later |-> FALSE]

(* http.py: a 403 counts as a limit only with a Retry-After or nothing left. *)
ShouldRetry(r) == r.status = 429 \/ (r.status = 403 /\ r.later)
Smaller(a, b) == IF a < b THEN a ELSE b
RetryDelay(r, attempt) ==
    CASE r.after = "long" -> MaxDelay
      [] OTHER -> Smaller(2 ^ attempt, MaxDelay)      \* none, or a date
(* transport/mcp.py: an error that says 429. *)
McpShouldRetry(r) == r.status # 200 /\ r.text = "says_429"

-----------------------------------------------------------------------------
\* mutant of AuthErrorInChain: a number in the text counts beside a status, too.
AuthErrorInAnyText(status, text, extra) ==
    status \in {401, 403} \/ text = "needle" \/ text \in extra \/ text = "says_403"

(* core.py: a status of its own, a needle, else a number in the text. *)
AuthErrorInChain(status, text, extra) ==
    \/ status \in {401, 403}
    \/ text = "needle" \/ text \in extra
    \/ status = 0 /\ text = "says_403"
AsanaIsAuthError(r) == AuthErrorInChain(r.status, r.text, {"asana_needle"})
HttpIsAuthError(r) == AuthErrorInChain(r.status, r.text, {})
\* An MCP error has no status; the server puts its own in words.
McpText(r) == CASE r.status = 401 -> "needle"
                [] r.status = 403 -> "says_403"
                [] OTHER -> r.text
McpIsAuthError(r) == AuthErrorInChain(0, McpText(r), {})

Raise(isAuth) == IF isAuth THEN "refused" ELSE "error"

\* raise for 400 and above
RestRequest(r) ==
    IF r.status < 400 THEN "value"
    ELSE Raise(IF caller = "asana_request" THEN AsanaIsAuthError(r) ELSE HttpIsAuthError(r))
JiraRequest(r) == RestRequest(r)
LumaWrite(r) == RestRequest(r)
ContentfulCma(r) == RestRequest(r)
\* the same, but 404 is no error
GetIssue(r) == IF r.status = 404 THEN "nothing" ELSE RestRequest(r)
EntryVersionOrNone(r) == GetIssue(r)
\* httpx's raise_for_status: nobody asks whether a source was refused
YouTubeGet(r) == IF r.status < 400 THEN "value" ELSE "error"
ContentfulGet(r) == YouTubeGet(r)
GetRepo(r) == IF r.status = 404 THEN "nothing" ELSE YouTubeGet(r)
GetEvent(r) == GetRepo(r)
GetEventHosts(r) == GetRepo(r)
\* anything but 200 is an empty answer
FetchContributors(r) == IF r.status = 200 THEN "value" ELSE "nothing"
McpCall(r) == IF r.status = 200 THEN "value" ELSE Raise(McpIsAuthError(r))

Made(r) ==
    CASE caller = "asana_request" -> RestRequest(r)
      [] caller = "jira_request" -> JiraRequest(r)
      [] caller = "luma_write" -> LumaWrite(r)
      [] caller = "contentful_cma" -> ContentfulCma(r)
      [] caller = "get_issue" -> GetIssue(r)
      [] caller = "entry_version_or_none" -> EntryVersionOrNone(r)
      [] caller = "get_repo" -> GetRepo(r)
      [] caller = "get_event" -> GetEvent(r)
      [] caller = "get_event_hosts" -> GetEventHosts(r)
      [] caller \in OrEmpty -> FetchContributors(r)
      [] caller = "youtube_get" -> YouTubeGet(r)
      [] caller = "contentful_get" -> ContentfulGet(r)
      [] caller \in Mcp -> McpCall(r)

-----------------------------------------------------------------------------
CallsInit ==
    /\ caller = "nobody" /\ truth = [status |-> 200, text |-> "plain"] /\ resp = NoAnswer
    /\ tries = 0 /\ slept = 0 /\ limited = 0 /\ named = FALSE /\ outcome = "pending"

Ask(c, t) ==
    /\ caller = "nobody"
    /\ caller' = c /\ truth' = t
    /\ UNCHANGED <<resp, tries, slept, limited, named, outcome>>

Waiting == caller # "nobody" /\ outcome = "pending" /\ resp = NoAnswer
\* MCP tools report a limit in words only.
AnswerLimited ==
    /\ Waiting
    /\ \E l \in Limits, a \in {"none", "long"} :
          /\ caller \in Mcp => l.status = 429 /\ a = "none"
          /\ resp' = [status |-> l.status, text |-> l.text, after |-> a, later |-> TRUE]
          /\ named' = (named \/ a = "long")
    /\ tries' = tries + 1 /\ limited' = limited + 1
    /\ UNCHANGED <<caller, truth, slept, outcome>>

AnswerTrue ==
    /\ Waiting
    /\ resp' = [status |-> truth.status, text |-> truth.text, after |-> "none", later |-> FALSE]
    /\ tries' = tries + 1
    /\ UNCHANGED <<caller, truth, slept, limited, named, outcome>>

\* A network error goes to Temporal, which tries the whole activity again.
Break ==
    /\ Waiting /\ tries' = tries + 1 /\ outcome' = "error"
    /\ UNCHANGED <<caller, truth, resp, slept, limited, named>>

TryLater(r) == IF caller \in Mcp THEN McpShouldRetry(r) ELSE ShouldRetry(r)
\* mutant of RequestWithRetry: one try too many.
RequestOnceMore ==
    /\ outcome = "pending" /\ resp # NoAnswer
    /\ TryLater(resp) /\ tries <= MaxAttempts
    /\ slept' = slept + RetryDelay(resp, tries - 1) /\ resp' = NoAnswer
    /\ UNCHANGED <<caller, truth, tries, limited, named, outcome>>

RequestWithRetry ==
    /\ outcome = "pending" /\ resp # NoAnswer
    /\ TryLater(resp) /\ tries < MaxAttempts
    /\ slept' = slept + RetryDelay(resp, tries - 1) /\ resp' = NoAnswer
    /\ UNCHANGED <<caller, truth, tries, limited, named, outcome>>

Return ==
    /\ outcome = "pending" /\ resp # NoAnswer
    /\ ~TryLater(resp) \/ tries >= MaxAttempts
    /\ outcome' = Made(resp)
    /\ UNCHANGED <<caller, truth, resp, tries, slept, limited, named>>

-----------------------------------------------------------------------------
\* Properties.

CallsTypeOK ==
    /\ caller \in Callers \cup {"nobody"} /\ truth \in Truths
    /\ tries \in 0 .. MaxAttempts /\ limited \in 0 .. tries /\ slept \in Nat
    /\ outcome \in {"pending", "value", "nothing", "error", "refused"}

Refused == truth.status \in {401, 403}
\* Words of a refusal in another error's text, and a tool's number 403, mislead.
Misleading ==
    \/ truth.text = "needle" \/ (caller = "asana_request" /\ truth.text = "asana_needle")
    \/ caller \in Mcp /\ truth.text = "says_403"

\* The caller gets what the service has to say, however often it was put off
\* before, and only that: the value if there is one, nothing for what is gone
\* where the caller allows it; and the workflow is paused for a human if and only
\* if a destination's service refused the credentials.  A call that was put off
\* to the last try is an error a later attempt may get over, unless the limit had
\* the face of a refusal.  And the pauses between the tries stay below the
\* heartbeat timeout of a minute as long as the service names no time to wait.
CallTells ==
    /\ ~named => slept < 60
    /\ outcome # "pending" /\ limited < tries /\ resp # NoAnswer =>
          /\ (outcome = "value") = (truth.status = 200)
          /\ caller \in OrNothing => ((outcome = "nothing") = (truth.status = 404))
          /\ caller \in Rest \cup Mcp \cup {"get_issue", "entry_version_or_none"} /\ ~Misleading =>
                ((outcome = "refused") = Refused)
          /\ caller \in OrRaise /\ truth.status # 200 => outcome = "error"
    /\ limited = MaxAttempts /\ outcome # "pending" =>
          /\ tries = MaxAttempts
          /\ outcome = "refused" => resp.status = 403
          /\ caller \notin OrEmpty => outcome \in {"error", "refused"}
=============================================================================
