--------------------------- MODULE Connectors_proofs ---------------------------
(***************************************************************************)
(* Proofs about what surrounds the sync: single calls, what a sync writes    *)
(* into a row, the units of work, and tables made from a sample, each for    *)
(* any inputs; then that the behaviours TLC looks at are among these.        *)
(***************************************************************************)
EXTENDS Connectors, Paging_proofs, EntryUpsert_proofs, CredentialFile_proofs,
        FiniteSetTheorems, SequenceTheorems, TLAPS

-----------------------------------------------------------------------------
(***************************************************************************)
(* Calls.                                                                  *)
(***************************************************************************)
\* The two kinds of answer: the truth, and "later".
TrueAnswer == [status |-> truth.status, text |-> truth.text, after |-> "none", later |-> FALSE]
LaterAnswer(r) ==
    /\ r \in [status : {403, 429}, text : {"plain", "says_429"}, after : {"none", "long"},
              later : {TRUE}]
    /\ caller \in Mcp => r.status = 429 /\ r.text = "says_429" /\ r.after = "none"
    /\ r.text = "plain" <=> r.status = 403

\* A tool's own text may say 429, which sounds like a limit.
SoundsLimited == caller \in Mcp /\ truth.text = "says_429"

\* How often the caller has slept, and how long at most if no time was named.
Asking == resp = NoAnswer /\ outcome = "pending"
Pauses == IF Asking THEN tries ELSE tries - 1

CallTyped ==
    /\ caller \in Callers \cup {"nobody"} /\ truth \in Truths /\ named \in BOOLEAN
    /\ tries \in Nat /\ tries <= MaxAttempts
    /\ limited \in Nat /\ limited <= tries /\ slept \in Nat
    /\ outcome \in {"pending", "value", "nothing", "error", "refused"}

Answered ==
    /\ resp = NoAnswer \/ resp = TrueAnswer \/ LaterAnswer(resp)
    /\ ~named /\ resp # NoAnswer => resp.after = "none"

Tried ==
    /\ caller = "nobody" => Asking /\ tries = 0 /\ slept = 0
    /\ Asking => tries < MaxAttempts
    /\ ~Asking => tries > 0
    /\ resp = TrueAnswer => limited < tries
    /\ resp # TrueAnswer /\ limited < tries /\ (Asking \/ resp # NoAnswer) => SoundsLimited

Concluded ==
    outcome # "pending" =>
        IF resp = NoAnswer THEN outcome = "error" /\ limited < tries
        ELSE outcome = Made(resp) /\ (~TryLater(resp) \/ tries >= MaxAttempts)

Paused == ~named => slept <= 2 ^ Pauses - 1

CallsInv == CallTyped /\ Answered /\ Tried /\ Concluded /\ Paused

\* The pauses double; five of them are all there is.
LEMMA Doubling ==
  ASSUME NEW n \in Nat, n <= 5
  PROVE  2 ^ n \in Nat /\ 2 ^ n <= 32 /\ (n < 5 => 2 ^ (n + 1) = 2 ^ n + 2 ^ n)
  <1>1. 2 ^ 0 = 1 /\ 2 ^ 1 = 2 /\ 2 ^ 2 = 4 /\ 2 ^ 3 = 8 /\ 2 ^ 4 = 16 /\ 2 ^ 5 = 32
    OBVIOUS
  <1>2. n = 0 \/ n = 1 \/ n = 2 \/ n = 3 \/ n = 4 \/ n = 5
    OBVIOUS
  <1>3. CASE n = 0
    BY <1>1, <1>3
  <1>4. CASE n = 1
    BY <1>1, <1>4
  <1>5. CASE n = 2
    BY <1>1, <1>5
  <1>6. CASE n = 3
    BY <1>1, <1>6
  <1>7. CASE n = 4
    BY <1>1, <1>7
  <1>8. CASE n = 5
    BY <1>1, <1>8
  <1>9. QED
    BY <1>2, <1>3, <1>4, <1>5, <1>6, <1>7, <1>8

\* What a caller makes of an answer is one of four things.
LEMMA MadeTyped ==
  ASSUME caller \in Callers, NEW r PROVE Made(r) \in {"value", "nothing", "error", "refused"}
  BY DEF Made, Callers, Rest, OrNothing, OrEmpty, OrRaise, Mcp, RestRequest, JiraRequest, LumaWrite,
         ContentfulCma, GetIssue, EntryVersionOrNone, YouTubeGet, ContentfulGet, GetRepo, GetEvent,
         GetEventHosts, FetchContributors, McpCall, Raise

\* The two answers differ, and from none at all.
LEMMA AnswersDiffer ==
  ASSUME CallTyped
  PROVE  /\ TrueAnswer # NoAnswer /\ TrueAnswer.after = "none" /\ ~LaterAnswer(TrueAnswer)
         /\ ~LaterAnswer(NoAnswer)
         /\ TryLater(TrueAnswer) => SoundsLimited
  BY DEF CallTyped, TrueAnswer, NoAnswer, LaterAnswer, Truths, Texts, TryLater, ShouldRetry,
         McpShouldRetry, SoundsLimited

LEMMA CallsStart == ASSUME CallsInit PROVE CallsInv
  <1>1. truth \in Truths
    BY DEF CallsInit, Truths
  <1>2. TrueAnswer # NoAnswer
    BY DEF TrueAnswer, NoAnswer, CallsInit
  <1>3. Answered /\ Concluded
    BY DEF CallsInit, Answered, Concluded
  <1>7. CallTyped
    <2>1. tries \in Nat /\ tries <= MaxAttempts /\ limited \in Nat /\ limited <= tries /\ slept \in Nat
      BY CallsAssumption DEF CallsAssumption, CallsInit
    <2>2. caller \in Callers \cup {"nobody"} /\ named \in BOOLEAN /\ outcome = "pending"
      BY DEF CallsInit
    <2>3. QED
      BY <1>1, <2>1, <2>2 DEF CallTyped
  <1>4. Tried
    BY <1>2, CallsAssumption DEF CallsAssumption, CallsInit, Tried, Asking
  <1>5. Paused
    BY Doubling DEF CallsInit, Paused, Pauses, Asking
  <1>6. QED
    BY <1>3, <1>4, <1>5, <1>7 DEF CallsInv

\* Who asks for what does not change.
LEMMA CallStays ==
  ASSUME UNCHANGED <<caller, truth>>
  PROVE  /\ TrueAnswer' = TrueAnswer /\ SoundsLimited' = SoundsLimited
         /\ \A r : LaterAnswer(r)' = LaterAnswer(r) /\ TryLater(r)' = TryLater(r)
         /\ \A r : Made(r)' = Made(r)
  BY DEF TrueAnswer, SoundsLimited, LaterAnswer, TryLater, Made, RestRequest, JiraRequest, LumaWrite,
         ContentfulCma, GetIssue, EntryVersionOrNone, YouTubeGet, ContentfulGet, GetRepo, GetEvent,
         GetEventHosts, FetchContributors, McpCall, Raise

LEMMA CallsKept == ASSUME CallsInv, MakeCall PROVE CallsInv'
  <1> USE CallsAssumption DEF CallsInv, CallsAssumption
  <1>1. ASSUME NEW c \in Callers, NEW t \in Truths, Ask(c, t) PROVE CallsInv'
    <2>1. /\ Asking /\ caller' = c /\ truth' = t
          /\ UNCHANGED <<resp, tries, slept, limited, named, outcome>>
      BY <1>1 DEF Ask, Tried
    <2>2. CallTyped' /\ Concluded' /\ Paused'
      BY <2>1 DEF CallTyped, Asking, Concluded, Paused, Pauses
    <2>3. TrueAnswer' # NoAnswer
      BY <2>2, AnswersDiffer DEF TrueAnswer, NoAnswer, Truths, CallTyped
    <2>4. Answered' /\ Tried'
      BY <1>1, <2>1, <2>2, <2>3 DEF Ask, Answered, Tried, Asking, CallTyped
    <2>5. QED
      BY <2>2, <2>4
  <1>2. CASE AnswerLimited
    <2>1. /\ Asking /\ caller \in Callers
          /\ UNCHANGED <<caller, truth, slept, outcome>> /\ outcome = "pending"
          /\ tries' = tries + 1 /\ limited' = limited + 1
      BY <1>2 DEF AnswerLimited, Waiting, Asking, CallTyped
    <2>2. LaterAnswer(resp') /\ (named' = (named \/ resp'.after = "long"))
          /\ resp'.after \in {"none", "long"}
      BY <1>2, <2>1 DEF AnswerLimited, LaterAnswer, Limits
    <2>3. resp' # NoAnswer /\ resp' # TrueAnswer
      BY <2>2, AnswersDiffer
    <2>4. CallTyped'
      BY <2>1, <2>2 DEF CallTyped, Tried
    <2>5. Answered'
      BY <2>1, <2>2, CallStays DEF Answered, CallTyped
    <2>9. Concluded'
      BY <2>1 DEF Concluded
    <2>6. Tried'
      <3>1. caller # "nobody"
        BY <2>1 DEF Callers, Rest, OrNothing, OrEmpty, OrRaise, Mcp
      <3>2. limited' < tries' => SoundsLimited
        BY <2>1, AnswersDiffer DEF Tried, CallTyped, Asking
      <3>3. QED
        BY <2>1, <2>3, <3>1, <3>2, CallStays DEF Tried, CallTyped, Asking
    <2>7. Paused'
      BY <2>1, <2>2, <2>3 DEF Paused, Pauses, Asking, CallTyped
    <2>8. QED
      BY <2>4, <2>5, <2>6, <2>7, <2>9
  <1>3. CASE AnswerTrue
    <2>1. /\ Asking /\ caller \in Callers /\ outcome = "pending"
          /\ UNCHANGED <<caller, truth, slept, limited, named, outcome>>
          /\ tries' = tries + 1 /\ resp' = TrueAnswer
      BY <1>3 DEF AnswerTrue, Waiting, Asking, CallTyped, TrueAnswer
    <2>2. resp' # NoAnswer /\ resp'.after = "none"
      BY <2>1, AnswersDiffer
    <2>3. CallTyped' /\ Answered' /\ Concluded'
      BY <2>1, <2>2, CallStays DEF CallTyped, Tried, Answered, Concluded
    <2>4. Tried'
      BY <2>1, <2>2, CallStays DEF Tried, Asking, CallTyped, Callers, Rest, OrNothing, OrEmpty,
         OrRaise, Mcp
    <2>5. Paused'
      BY <2>1, <2>2 DEF Paused, Pauses, Asking, CallTyped
    <2>6. QED
      BY <2>3, <2>4, <2>5
  <1>4. CASE Break
    <2>1. /\ Asking /\ caller \in Callers /\ outcome' = "error" /\ tries' = tries + 1
          /\ UNCHANGED <<caller, truth, resp, slept, limited, named>> /\ resp = NoAnswer
      BY <1>4 DEF Break, Waiting, Asking, CallTyped
    <2>2. CallTyped' /\ Answered' /\ Concluded'
      BY <2>1, CallStays DEF CallTyped, Tried, Answered, Concluded
    <2>3. Tried'
      BY <2>1, AnswersDiffer, CallStays DEF Tried, Asking, CallTyped, Callers, Rest, OrNothing, OrEmpty,
         OrRaise, Mcp
    <2>4. Paused'
      BY <2>1 DEF Paused, Pauses, Asking, CallTyped
    <2>5. QED
      BY <2>2, <2>3, <2>4
  <1>5. CASE RequestWithRetry
    <2>1. /\ ~Asking /\ outcome = "pending" /\ outcome' = "pending" /\ resp' = NoAnswer
          /\ resp # NoAnswer /\ UNCHANGED <<caller, truth, tries, limited, named>>
          /\ slept' = slept + RetryDelay(resp, tries - 1) /\ tries < MaxAttempts
          /\ TryLater(resp)
      BY <1>5 DEF RequestWithRetry, Asking
    <2>2. PICK n \in Nat : tries = n + 1 /\ n < 5
      <3>1. tries - 1 \in Nat /\ tries = (tries - 1) + 1 /\ tries - 1 < 5
        BY <2>1 DEF Tried, CallTyped
      <3>2. QED
        BY <3>1
    <2>3. /\ 2 ^ n \in Nat /\ 2 ^ tries = 2 ^ n + 2 ^ n /\ tries - 1 = n
          /\ RetryDelay(resp, tries - 1) \in Nat
          /\ resp.after = "none" => RetryDelay(resp, tries - 1) <= 2 ^ n
      <3>1. 2 ^ n \in Nat /\ 2 ^ tries = 2 ^ n + 2 ^ n /\ tries - 1 = n
        BY <2>2, Doubling
      <3>2. QED
        BY <3>1 DEF RetryDelay, Smaller
    <2>4. CallTyped' /\ Answered' /\ Concluded'
      BY <2>1, <2>3 DEF CallTyped, Answered, Concluded
    <2>5. Tried'
      <3>1. caller' # "nobody" /\ resp' # TrueAnswer'
        BY <2>1, CallStays, AnswersDiffer DEF Tried
      <3>2. limited < tries => SoundsLimited
        BY <2>1, AnswersDiffer DEF Tried
      <3>3. QED
        BY <2>1, <3>1, <3>2, CallStays DEF Tried, Asking
    <2>6. Paused'
      <3> SUFFICES ASSUME ~named PROVE slept' <= 2 ^ tries - 1
        BY <2>1 DEF Paused, Pauses, Asking
      <3>1. slept <= 2 ^ n - 1 /\ resp.after = "none"
        BY <2>1, <2>3 DEF Paused, Pauses, Answered
      <3>2. QED
        BY <2>1, <2>3, <3>1 DEF CallTyped
    <2>7. QED
      BY <2>4, <2>5, <2>6
  <1>6. CASE Return
    <2>1. /\ ~Asking /\ outcome = "pending" /\ resp # NoAnswer /\ outcome' = Made(resp)
          /\ UNCHANGED <<caller, truth, resp, tries, slept, limited, named>>
          /\ ~TryLater(resp) \/ tries >= MaxAttempts
      BY <1>6 DEF Return, Asking
    <2>2. caller \in Callers
      BY <2>1 DEF CallTyped, Tried
    <2>3. outcome' \in {"value", "nothing", "error", "refused"}
      BY <2>1, <2>2, MadeTyped
    <2>4. CallTyped' /\ Answered' /\ Concluded'
      BY <2>1, <2>3, CallStays DEF CallTyped, Answered, Concluded
    <2>5. Tried' /\ Paused'
      BY <2>1, CallStays DEF Tried, Paused, Pauses, Asking
    <2>6. QED
      BY <2>4, <2>5
  <1>7. QED
    BY <1>1, <1>2, <1>3, <1>4, <1>5, <1>6 DEF MakeCall

LEMMA CallsStutter == ASSUME CallsInv, UNCHANGED callVars PROVE CallsInv'
  <1>1. UNCHANGED <<caller, truth>> /\ UNCHANGED <<resp, tries, slept, limited, named, outcome>>
    BY DEF callVars
  <1>2. QED
    BY <1>1, CallStays DEF CallsInv, CallTyped, Answered, Tried, Concluded, Paused, Pauses, Asking

\* The callers fall into five groups.
Rejecting == Rest \cup {"get_issue", "entry_version_or_none"}
Forgiving == {"get_issue", "entry_version_or_none", "get_repo", "get_event", "get_event_hosts"}
RestAuth(r) ==
    \/ r.status \in {401, 403} \/ r.text = "needle"
    \/ caller = "asana_request" /\ r.text = "asana_needle"
    \/ r.status = 0 /\ r.text = "says_403"

LEMMA MadeByGroup ==
  ASSUME caller \in Callers, NEW r
  PROVE  /\ caller \in Forgiving /\ r.status = 404 => Made(r) = "nothing"
         /\ caller \in Rejecting /\ ~(caller \in Forgiving /\ r.status = 404) =>
               Made(r) = IF r.status < 400 THEN "value"
                         ELSE IF RestAuth(r) THEN "refused" ELSE "error"
         /\ caller \in (OrRaise \cup Forgiving) \ Rejecting
               /\ ~(caller \in Forgiving /\ r.status = 404) =>
               Made(r) = IF r.status < 400 THEN "value" ELSE "error"
         /\ caller \in OrEmpty => Made(r) = IF r.status = 200 THEN "value" ELSE "nothing"
         /\ caller \in Mcp => Made(r) = IF r.status = 200 THEN "value"
                                        ELSE IF McpIsAuthError(r) THEN "refused" ELSE "error"
  <1> USE DEF Rest, OrNothing, OrEmpty, OrRaise, Mcp, Rejecting, Forgiving
  <1>1. RestRequest(r) = IF r.status < 400 THEN "value"
                         ELSE IF RestAuth(r) THEN "refused" ELSE "error"
    <2>1. CASE caller = "asana_request"
      BY <2>1 DEF RestRequest, Raise, AsanaIsAuthError, AuthErrorInChain, RestAuth
    <2>2. CASE caller # "asana_request"
      BY <2>2 DEF RestRequest, Raise, HttpIsAuthError, AuthErrorInChain, RestAuth
    <2>3. QED
      BY <2>1, <2>2
  <1>2. CASE caller \in Rest
    BY <1>1, <1>2 DEF Made, JiraRequest, LumaWrite, ContentfulCma
  <1>3. CASE caller \in {"get_issue", "entry_version_or_none"}
    BY <1>1, <1>3 DEF Made, GetIssue, EntryVersionOrNone
  <1>4. CASE caller \in {"get_repo", "get_event", "get_event_hosts"}
    BY <1>4 DEF Made, GetRepo, GetEvent, GetEventHosts, YouTubeGet
  <1>5. CASE caller \in OrEmpty
    BY <1>5 DEF Made, FetchContributors
  <1>6. CASE caller \in OrRaise
    BY <1>6 DEF Made, YouTubeGet, ContentfulGet
  <1>7. CASE caller \in Mcp
    BY <1>7 DEF Made, McpCall, Raise
  <1>8. QED
    BY <1>2, <1>3, <1>4, <1>5, <1>6, <1>7 DEF Callers

LEMMA Groups ==
  /\ Callers = Rejecting \cup (OrRaise \cup Forgiving) \cup OrEmpty \cup Mcp
  /\ OrNothing \subseteq Forgiving /\ Rest \cap Forgiving = {}
  /\ OrEmpty \cap (Rejecting \cup OrRaise \cup Forgiving \cup Mcp) = {}
  /\ Mcp \cap (Rejecting \cup OrRaise \cup Forgiving) = {}
  /\ OrRaise \cap (Rejecting \cup Forgiving) = {}
  /\ "asana_request" \notin Mcp
  BY DEF Callers, Rest, OrNothing, OrEmpty, OrRaise, Mcp, Rejecting, Forgiving

LEMMA Telling == ASSUME CallsInv PROVE CallTells
  <1> USE DEF CallsInv
  <1>1. ~named => slept < 60
    <2> SUFFICES ASSUME ~named PROVE slept < 60
      OBVIOUS
    <2>1. Pauses \in Nat /\ Pauses <= 5
      BY CallsAssumption DEF CallsAssumption, Pauses, CallTyped, Tried
    <2>2. 2 ^ Pauses \in Nat /\ 2 ^ Pauses <= 32
      BY <2>1, Doubling
    <2>3. QED
      BY <2>2 DEF Paused, CallTyped
  <1>2. ASSUME outcome # "pending", resp # NoAnswer
        PROVE  outcome = Made(resp) /\ caller \in Callers
    BY <1>2 DEF Concluded, Tried, CallTyped, Asking
  <1>3. ASSUME outcome # "pending", limited < tries, resp # NoAnswer
        PROVE  /\ (outcome = "value") = (truth.status = 200)
               /\ caller \in OrNothing => ((outcome = "nothing") = (truth.status = 404))
               /\ caller \in Rest \cup Mcp \cup {"get_issue", "entry_version_or_none"}
                     /\ ~Misleading => ((outcome = "refused") = Refused)
               /\ caller \in OrRaise /\ truth.status # 200 => outcome = "error"
    <2>1. outcome = Made(resp) /\ caller \in Callers
      BY <1>2, <1>3
    <2>2. CASE resp = TrueAnswer
      <3>1. /\ resp.status = truth.status /\ resp.text = truth.text
        BY <2>2 DEF TrueAnswer
      <3>2. truth \in Truths
        BY DEF CallTyped
      <3>3. CASE caller \in Rejecting
        BY <2>1, <3>1, <3>2, <3>3, MadeByGroup, Groups
           DEF Truths, Texts, RestAuth, Misleading, Refused
      <3>4. CASE caller \in (OrRaise \cup Forgiving) \ Rejecting
        BY <2>1, <3>1, <3>2, <3>4, MadeByGroup, Groups DEF Truths, Texts, Rejecting
      <3>5. CASE caller \in OrEmpty
        BY <2>1, <3>1, <3>2, <3>5, MadeByGroup, Groups DEF Truths, Rejecting
      <3>6. CASE caller \in Mcp
        BY <2>1, <3>1, <3>2, <3>6, MadeByGroup, Groups
           DEF Truths, Texts, Misleading, Refused, McpIsAuthError, McpText, AuthErrorInChain
      <3>7. QED
        BY <2>1, <3>3, <3>4, <3>5, <3>6, Groups
    <2>3. CASE LaterAnswer(resp) /\ SoundsLimited
      <3>1. caller \in Mcp /\ truth.status = 422 /\ resp.status = 429 /\ resp.text = "says_429"
        BY <2>3 DEF LaterAnswer, SoundsLimited, CallTyped, Truths
      <3>2. QED
        BY <2>1, <3>1, MadeByGroup, Groups
           DEF Refused, McpIsAuthError, McpText, AuthErrorInChain, Rejecting
    <2>4. QED
      BY <1>3, <2>2, <2>3 DEF Answered, Tried
  <1>4. ASSUME limited = MaxAttempts, outcome # "pending"
        PROVE  /\ tries = MaxAttempts
               /\ outcome = "refused" => resp.status = 403
               /\ caller \notin OrEmpty => outcome \in {"error", "refused"}
    <2>1. tries = MaxAttempts /\ limited = tries
      BY <1>4, CallsAssumption DEF CallTyped, CallsAssumption
    <2>2. LaterAnswer(resp) /\ resp # NoAnswer
      BY <1>4, <2>1 DEF Answered, Tried, Concluded, CallTyped
    <2>3. outcome = Made(resp) /\ caller \in Callers
      BY <1>2, <1>4, <2>2
    <2>4. QED
      BY <2>1, <2>2, <2>3, MadeByGroup, Groups
         DEF LaterAnswer, RestAuth, McpIsAuthError, McpText, AuthErrorInChain
  <1>5. QED
    BY <1>1, <1>3, <1>4 DEF CallTells

\* The parts share no state: a step of one is a step or a stutter of another.
LEMMA Parted ==
  ASSUME [Next]_vars
  PROVE  /\ [ReadLists]_pagingVars /\ [SyncRow]_rowVars /\ [UpsertNext]_upsertVars
         /\ [RunUnits]_unitVars /\ [MakeTable]_schemaVars /\ [MakeCall]_callVars
         /\ [FileNext]_fileVars
  BY DEF Next, vars

\* A caller gets what the service has to say and only that, however often it was
\* put off; it pauses the workflow if and only if a destination refused the
\* credentials; and it sleeps less than a minute (request_with_retry, McpSession.call).
THEOREM CallsTell == Spec => []CallTells
  <1>1. Init => CallsInv
    BY CallsStart DEF Init
  <1>2. CallsInv /\ [Next]_vars => CallsInv'
    BY CallsKept, CallsStutter, Parted
  <1>3. CallsInv => CallTells
    BY Telling
  <1>4. QED
    BY <1>1, <1>2, <1>3, PTL DEF Spec

-----------------------------------------------------------------------------
(***************************************************************************)
(* Rows.                                                                   *)
(***************************************************************************)
\* Every plan and every edit, not only those the run looks at.
Plans == [source : Sources, destination : Destinations, role : Roles, createOnly : BOOLEAN,
          restricted : BOOLEAN, owned : BOOLEAN, keyOwned : BOOLEAN,
          columns : [{"value", "key"} -> BOOLEAN]]
AnyRowStep ==
    \/ \E p \in Plans, v \in Real : Configure(p, v)
    \/ \E v \in {Missing, Empty} \cup Real : SourceEdit(v)
    \/ \E v \in Value \ {Missing} : HumanEdit(v)
    \/ RenameKey \/ Sync

RowTyped ==
    /\ plan \in Plans /\ raw \in {Missing, Empty} \cup Real
    /\ row \in [value : Value \ {Missing}, found : BOOLEAN]
    /\ rows \in Nat /\ rows <= 2 /\ edits \in Nat /\ edits <= Unconfigured
    /\ human \in BOOLEAN /\ fresh \in BOOLEAN

\* Nothing is written before there is a plan; a repository always has a name.
Planned ==
    /\ edits = Unconfigured => rows = 0 /\ ~row.found /\ ~fresh
    /\ edits # Unconfigured /\ plan.source = "github" /\ plan.role = "title" => raw \in Real

\* A row with its key can be found.
Findable == (plan.destination = "notion" => plan.columns["key"] /\ KeyInRecord)
             => rows = 0 \/ (rows = 1 /\ row.found)

RowInv == RowTyped /\ Planned /\ Findable /\ RowShowsSource

\* What is written is a value or nothing.
LEMMA WrittenTyped ==
  ASSUME RowTyped, NEW making \in BOOLEAN, NEW failed \in BOOLEAN, NEW readable \in BOOLEAN,
         NEW label \in Labels
  PROVE  Written(making, failed, readable, label) \in Value
  <1> DEFINE F == Fetched(failed)
             B == BuildTransform(F)
             E == IF plan.destination = "notion" THEN SessionEnrich(B, making, label) ELSE B
  <1> USE DEF Value, Real, Missing, Empty, Fallback, Or, Truthy
  <1>1. F \in Value
    BY DEF Fetched, RecordsForRepos, GithubRecord, FetchReadme, FetchLanguages, ToRecord,
           JiraRecord, LumaRecord, YouTubeRecord, ContentfulRecord, ContentRecord, RowTyped, Plans,
           Sources
  <1>2. B \in Value
    BY <1>1 DEF BuildTransform, RestrictToOwned
  <1>3. E \in Value
    BY <1>2 DEF SessionEnrich, Classify, Validate, Labels, Failed, OffVocabulary
  <1>4. Encode(E, making, readable) \in Value
    <2> HIDE DEF E
    <2>1. plan.destination \in Destinations
      BY DEF RowTyped, Plans
    <2>2. QED
      BY <1>3, <2>1 DEF Encode, NotionCreate, NotionUpdate, NotionEncode, DropUnknown, EncodeTask,
         EncodeIssue, EncodeEvent, EncodeFields, Destinations
  <1>5. QED
    BY <1>4 DEF Written

\* The key column is never taken for unknown while it exists.
LEMMA KeyKept ==
  ASSUME RowTyped, NEW readable \in BOOLEAN,
         plan.destination = "notion" => plan.columns["key"] /\ KeyInRecord
  PROVE  KeyWritten(readable)
  BY DEF KeyWritten, DropUnknown, KnownColumns

\* A create-only property is not written again.
LEMMA OnceOnly ==
  ASSUME RowTyped, plan.createOnly, ~WrittenAnyway, NEW v, NEW readable \in BOOLEAN
  PROVE  Encode(v, FALSE, readable) = Missing
  <1>1. plan.destination \in Destinations /\ plan.role \in Roles
    BY DEF RowTyped, Plans
  <1>2. QED
    BY <1>1 DEF Destinations, Encode, NotionUpdate, EncodeTask, EncodeIssue, EncodeEvent,
       EncodeFields, Skipped, WrittenAnyway

\* What a sync writes where the property has its place.
LEMMA WrittenPlaced ==
  ASSUME RowTyped, Planned, edits # Unconfigured, Placed, NEW making \in BOOLEAN,
         NEW readable \in BOOLEAN, NEW label \in Labels
  PROVE  /\ raw \in Real => Written(making, FALSE, readable, label) = raw
         /\ plan.role \in {"title", "text"} /\ raw \notin Real
               /\ ~(plan.source = "contentful" /\ plan.role = "title") =>
               Written(making, FALSE, readable, label) \in {Empty, Fallback}
  <1> DEFINE F == Fetched(FALSE)
  <1> USE DEF Real, Missing, Empty, Fallback, Or, Truthy
  <1>1. plan.source \in Sources /\ plan.destination \in Destinations /\ plan.role \in Roles
    BY DEF RowTyped, Plans
  <1>2. plan.role # "seed" /\ ~plan.createOnly
    BY DEF Placed
  <1>3. /\ raw \in Real => F = raw
        /\ plan.role \in {"title", "text"} /\ raw \notin Real
              /\ ~(plan.source = "contentful" /\ plan.role = "title") => F \in {Empty, Fallback}
    BY <1>1, <1>2 DEF Planned, RowTyped, Fetched, RecordsForRepos, GithubRecord, FetchReadme,
       FetchLanguages, ToRecord, JiraRecord, LumaRecord, YouTubeRecord, ContentfulRecord,
       ContentRecord, Sources
  <1> HIDE DEF F
  <1>4. Written(making, FALSE, readable, label) = Encode(F, making, readable)
    BY <1>2 DEF Written, F, BuildTransform, RestrictToOwned, SessionEnrich, Placed
  <1>5. DropUnknown("value", F, readable) = F \/ ~plan.columns["value"]
    BY DEF DropUnknown, KnownColumns
  <1>6. ASSUME F \in Real PROVE Encode(F, making, readable) = F
    BY <1>1, <1>2, <1>5, <1>6 DEF Placed, Destinations, Encode, NotionCreate, NotionUpdate,
       NotionEncode, EncodeTask, EncodeIssue, EncodeEvent, EncodeFields, Skipped
  <1>7. ASSUME plan.role \in {"title", "text"} PROVE Encode(F, making, readable) = F
    BY <1>1, <1>2, <1>5, <1>7 DEF Placed, Destinations, Encode, NotionCreate, NotionUpdate,
       NotionEncode, IsList, EncodeTask, EncodeIssue, EncodeEvent, EncodeFields, Skipped
  <1>8. QED
    BY <1>3, <1>4, <1>6, <1>7

LEMMA RowsStart == ASSUME RowsInit PROVE RowInv
  <1> USE RowsAssumption DEF RowsAssumption, RowsInit
  <1>1. plan \in Plans
    BY DEF Plans, Sources, Destinations, Roles
  <1>2. /\ row \in [value : Value \ {Missing}, found : BOOLEAN]
        /\ raw \in {Missing, Empty} \cup Real
    BY DEF Value, Missing, Empty, Fallback, Real
  <1>5. rows \in Nat /\ rows <= 2 /\ edits \in Nat /\ edits <= Unconfigured
    BY DEF Unconfigured
  <1>3. RowTyped
    BY <1>1, <1>2, <1>5 DEF RowTyped
  <1>4. QED
    BY <1>3 DEF RowInv, Planned, Findable, RowShowsSource

LEMMA SyncTyped ==
  ASSUME RowTyped, Sync
  PROVE  /\ RowTyped' /\ UNCHANGED <<plan, raw, edits>> /\ edits # Unconfigured
  <1>1. UNCHANGED <<plan, raw, edits>> /\ edits # Unconfigured
    BY DEF Sync
  <1>2. PICK failed \in BOOLEAN, readable \in BOOLEAN, label \in Labels :
           /\ Create(failed, readable, label) \/ Update(failed, readable, label)
           /\ fresh' = ~failed
    BY DEF Sync, Labels
  <1>6. fresh' \in BOOLEAN
    BY <1>2
  <1>3. CASE Create(failed, readable, label)
    <2> DEFINE v == Written(TRUE, failed, readable, label)
    <2>6. v \in Value
      BY WrittenTyped
    <2>1. Or(v, Empty) \in Value \ {Missing}
      <3> HIDE DEF v
      <3>1. QED
        BY <2>6 DEF Or, Value, Missing, Empty, Real, Fallback
    <2>2. KeyWritten(readable) \in BOOLEAN
      BY DEF KeyWritten
    <2>3. row' \in [value : Value \ {Missing}, found : BOOLEAN]
      <3>1. row' = [value |-> Or(v, Empty), found |-> KeyWritten(readable)]
        BY <1>3 DEF Create
      <3> HIDE DEF v
      <3>2. QED
        BY <2>1, <2>2, <3>1
    <2>7. rows < 2 /\ rows' = rows + 1 /\ human' = FALSE
      BY <1>3 DEF Create
    <2> HIDE DEF v
    <2>8. rows \in Nat
      BY DEF RowTyped
    <2>4. rows' \in Nat /\ rows' <= 2 /\ human' \in BOOLEAN
      <3>1. rows' \in Nat 
        BY <2>7, <2>8
      <3>2. rows' <= 2
        BY <2>7, <2>8
      <3>3. human' \in BOOLEAN
        BY <2>7
      <3>4. QED
        BY <3>1, <3>2, <3>3
    <2>5. QED
      BY <1>1, <1>6, <2>3, <2>4 DEF RowTyped
  <1>4. CASE Update(failed, readable, label)
    <2>1. Written(FALSE, failed, readable, label) \in Value
      BY WrittenTyped
    <2>2. row' \in [value : Value \ {Missing}, found : BOOLEAN]
      BY <1>4, <2>1 DEF Update, RowTyped
    <2>3. rows' \in Nat /\ rows' <= 2 /\ human' \in BOOLEAN
      BY <1>4 DEF Update, RowTyped
    <2>4. QED
      BY <1>1, <1>6, <2>2, <2>3 DEF RowTyped
  <1>5. QED
    BY <1>1, <1>2, <1>3, <1>4

LEMMA SyncShows ==
  ASSUME RowInv, Sync, fresh', Placed
  PROVE  IF raw \in Real THEN row'.value = raw
         ELSE plan.role \in {"title", "text"} => row'.value \in {Empty, Fallback}
  <1> USE DEF RowInv
  <1>1. PICK readable \in BOOLEAN, label \in Labels :
           Create(FALSE, readable, label) \/ Update(FALSE, readable, label)
    BY DEF Sync, Labels
  <1>2. edits # Unconfigured /\ (plan.source = "contentful" /\ plan.role = "title" => raw \in Real)
    BY DEF Sync, RowTyped
  <1>3. ASSUME NEW making \in BOOLEAN
        PROVE  /\ raw \in Real => Written(making, FALSE, readable, label) = raw
               /\ plan.role \in {"title", "text"} /\ raw \notin Real =>
                     Written(making, FALSE, readable, label) \in {Empty, Fallback}
    BY <1>2, WrittenPlaced
  <1>4. CASE Create(FALSE, readable, label)
    <2> DEFINE v == Written(TRUE, FALSE, readable, label)
    <2>1. row'.value = Or(v, Empty)
      BY <1>4 DEF Create
    <2>2. /\ raw \in Real => v = raw
          /\ plan.role \in {"title", "text"} /\ raw \notin Real => v \in {Empty, Fallback}
      BY <1>3
    <2> HIDE DEF v
    <2>3. QED
      BY <2>1, <2>2 DEF Or, Real, Missing, Empty, Fallback
  <1>5. CASE Update(FALSE, readable, label)
    <2> DEFINE v == Written(FALSE, FALSE, readable, label)
    <2>1. row'.value = IF v = Missing THEN row.value ELSE v
      BY <1>5 DEF Update, RowTyped
    <2> HIDE DEF v
    <2>2. /\ raw \in Real => v = raw
          /\ plan.role \in {"title", "text"} /\ raw \notin Real => v \in {Empty, Fallback}
      BY <1>3 DEF v
    <2>3. QED
      BY <2>1, <2>2 DEF Real, Missing, Empty, Fallback
  <1>6. QED
    BY <1>1, <1>4, <1>5

LEMMA SyncFinds == ASSUME RowInv, Sync PROVE Findable'
  <1> USE DEF RowInv
  <1>1. PICK failed \in BOOLEAN, readable \in BOOLEAN, label \in Labels :
           Create(failed, readable, label) \/ Update(failed, readable, label)
    BY DEF Sync, Labels
  <1>2. plan' = plan
    BY DEF Sync
  <1>3. SUFFICES ASSUME plan.destination = "notion" => plan.columns["key"] /\ KeyInRecord
                 PROVE  rows' = 0 \/ (rows' = 1 /\ row'.found)
    BY <1>2 DEF Findable, KeyInRecord
  <1>4. CASE Create(failed, readable, label)
    <2>1. ~row.found /\ rows' = rows + 1 /\ row'.found = KeyWritten(readable)
      BY <1>4 DEF Create
    <2>2. QED
      BY <1>3, <2>1, KeyKept DEF Findable
  <1>5. CASE Update(failed, readable, label)
    <2>1. row.found /\ rows' = rows /\ row'.found = row.found
      BY <1>5 DEF Update, RowTyped
    <2>2. QED
      BY <1>3, <2>1 DEF Findable
  <1>6. QED
    BY <1>1, <1>4, <1>5

LEMMA RowsKept == ASSUME RowInv, AnyRowStep PROVE RowInv'
  <1> USE RowsAssumption DEF RowInv, RowsAssumption
  <1>1. ASSUME NEW p \in Plans, NEW v \in Real, Configure(p, v) PROVE RowInv'
    <2>1. /\ plan' = p /\ raw' = v /\ edits' = 0 /\ edits = Unconfigured
          /\ UNCHANGED <<row, rows, human, fresh>> /\ rows = 0 /\ ~fresh
      BY <1>1 DEF Configure, Planned
    <2>2. RowTyped'
      BY <2>1 DEF RowTyped, Unconfigured
    <2>3. QED
      BY <2>1, <2>2 DEF Planned, Findable, RowShowsSource, Unconfigured
  <1>2. ASSUME NEW v \in {Missing, Empty} \cup Real, SourceEdit(v) PROVE RowInv'
    <2>1. /\ edits < MaxEdits /\ raw' = v /\ edits' = edits + 1 /\ ~fresh' /\ fresh' = FALSE
          /\ v \in {Missing, Empty} => ~(plan.source = "github" /\ plan.role = "title")
          /\ UNCHANGED <<plan, row, rows, human>>
      BY <1>2 DEF SourceEdit
    <2>5. edits' \in Nat /\ edits' <= Unconfigured /\ edits' # Unconfigured
      BY <2>1 DEF RowTyped, Unconfigured
    <2>2. RowTyped'
      BY <2>1, <2>5 DEF RowTyped, Unconfigured
    <2>3. Findable'
      BY <2>1 DEF Findable, KeyInRecord
    <2>4. QED
      BY <2>1, <2>2, <2>3, <2>5 DEF Planned, RowShowsSource
  <1>3. ASSUME NEW v \in Value \ {Missing}, HumanEdit(v) PROVE RowInv'
    <2>1. /\ edits < MaxEdits /\ row' = [row EXCEPT !.value = v] /\ edits' = edits + 1
          /\ human' = TRUE /\ fresh' = FALSE /\ UNCHANGED <<plan, raw, rows>>
      BY <1>3 DEF HumanEdit
    <2>5. /\ edits' \in Nat /\ edits' <= Unconfigured /\ edits' # Unconfigured
          /\ edits # Unconfigured
      BY <2>1 DEF RowTyped, Unconfigured
    <2>6. row' \in [value : Value \ {Missing}, found : BOOLEAN] /\ row'.found = row.found
      BY <2>1 DEF RowTyped
    <2>2. RowTyped'
      BY <2>1, <2>5, <2>6 DEF RowTyped, Unconfigured
    <2>3. Findable'
      BY <2>1, <2>6 DEF Findable, KeyInRecord
    <2>4. QED
      BY <2>1, <2>2, <2>3, <2>5 DEF Planned, RowShowsSource
  <1>4. CASE RenameKey
    <2>1. /\ edits < MaxEdits /\ plan.destination = "notion"
          /\ plan' = [plan EXCEPT !.columns["key"] = FALSE]
          /\ row' = [row EXCEPT !.found = FALSE]
          /\ edits' = edits + 1 /\ fresh' = FALSE /\ UNCHANGED <<raw, rows, human>>
      BY <1>4 DEF RenameKey
    <2>2. /\ plan' \in Plans /\ plan'.destination = "notion" /\ plan'.columns["key"] = FALSE
          /\ plan'.source = plan.source /\ plan'.role = plan.role
      BY <2>1 DEF RowTyped, Plans
    <2>5. /\ edits' \in Nat /\ edits' <= Unconfigured /\ edits' # Unconfigured
          /\ edits # Unconfigured
      BY <2>1 DEF RowTyped, Unconfigured
    <2>6. row' \in [value : Value \ {Missing}, found : BOOLEAN]
      BY <2>1 DEF RowTyped
    <2>3. RowTyped'
      BY <2>1, <2>2, <2>5, <2>6 DEF RowTyped, Unconfigured
    <2>4. QED
      BY <2>1, <2>2, <2>3, <2>5 DEF Planned, Findable, RowShowsSource
  <1>5. CASE Sync
    <2>1. RowTyped' /\ UNCHANGED <<plan, raw, edits>> /\ edits # Unconfigured
      BY <1>5, SyncTyped
    <2>2. Planned'
      BY <2>1 DEF Planned, Unconfigured
    <2>3. RowShowsSource'
      BY <1>5, <2>1, SyncShows DEF RowShowsSource, Placed
    <2>4. QED
      BY <1>5, <2>1, <2>2, <2>3, SyncFinds
  <1>6. QED
    BY <1>1, <1>2, <1>3, <1>4, <1>5 DEF AnyRowStep

LEMMA RowsStutter == ASSUME RowInv, UNCHANGED rowVars PROVE RowInv'
  <1>1. UNCHANGED <<plan, raw, row>> /\ UNCHANGED <<rows, edits, human, fresh>>
    BY DEF rowVars
  <1>2. RowTyped' /\ Planned' /\ Findable'
    BY <1>1 DEF RowInv, RowTyped, Planned, Findable, KeyInRecord
  <1>3. RowShowsSource'
    BY <1>1 DEF RowInv, RowShowsSource, Placed
  <1>4. QED
    BY <1>2, <1>3 DEF RowInv

\* The plans and edits of the run are among all of them.
LEMMA AnyPlan == ASSUME SyncRow PROVE AnyRowStep
  <1>1. ASSUME NEW s \in Sources, NEW d \in Destinations, NEW r \in Roles,
               NEW p \in Oddities(Ordinary(s, d, r))
        PROVE  p \in Plans
    <2> DEFINE o == Ordinary(s, d, r)
    <2>1. o \in Plans
      BY DEF Ordinary, Plans
    <2> HIDE DEF o
    <2>2. /\ [o EXCEPT !.createOnly = TRUE] \in Plans
          /\ [o EXCEPT !.restricted = TRUE] \in Plans
          /\ [o EXCEPT !.restricted = TRUE, !.owned = FALSE] \in Plans
          /\ [o EXCEPT !.restricted = TRUE, !.keyOwned = FALSE] \in Plans
      BY <2>1 DEF Plans
    <2>3. [o EXCEPT !.columns["value"] = FALSE] \in Plans
      BY <2>1 DEF Plans
    <2>4. [o EXCEPT !.columns["key"] = FALSE] \in Plans
      BY <2>1 DEF Plans
    <2>5. p \in Oddities(o)
      BY <1>1 DEF o
    <2>6. QED
      BY <2>1, <2>2, <2>3, <2>4, <2>5 DEF Oddities
  <1>2. 1 \in Real /\ 2 \in Real /\ 2 \in Value \ {Missing}
    BY DEF Real, Value, Missing
  <1>3. QED
    BY <1>1, <1>2 DEF SyncRow, AnyRowStep

AnyRowsSpec == RowsInit /\ [][AnyRowStep]_rowVars

LEMMA RowsAlways == AnyRowsSpec => []RowInv
  <1>1. RowInv /\ [AnyRowStep]_rowVars => RowInv'
    BY RowsKept, RowsStutter
  <1>2. QED
    BY <1>1, RowsStart, PTL DEF AnyRowsSpec

\* No plan and no edit gives an item a second row, while the column of Notion's
\* key exists and the route owns it (NotionDestination.create, known_columns).
THEOREM FoundAgainAlways == AnyRowsSpec => []FoundAgain
  <1>1. RowInv => FoundAgain
    BY DEF RowInv, RowTyped, Findable, FoundAgain, KeyInRecord
  <1>2. QED
    BY <1>1, RowsAlways, PTL

\* Right after a sync that was told everything a row shows what the source has, in
\* every destination and for every role of a property (transforms, encoders).
THEOREM ShowsSource == AnyRowsSpec => []RowShowsSource
  <1>1. RowInv => RowShowsSource
    BY DEF RowInv
  <1>2. QED
    BY <1>1, RowsAlways, PTL

\* No sync touches a human's edit of a create-only property, for any source, label
\* of the model or schema that could not be read (create_only_properties).
THEOREM SeedsAlwaysSurvive == AnyRowsSpec => SeedsSurvive
  <1> DEFINE Seeds == plan.createOnly /\ human /\ rows' = rows /\ edits' = edits /\ ~WrittenAnyway
                        => row'.value = row.value
  <1>1. RowInv /\ [AnyRowStep]_rowVars => [Seeds]_rowVars
    <2> SUFFICES ASSUME RowInv, AnyRowStep, plan.createOnly, rows' = rows, edits' = edits,
                        ~WrittenAnyway
                 PROVE  row'.value = row.value
      OBVIOUS
    <2> USE DEF RowInv
    <2>1. edits \in Nat /\ edits # edits + 1 /\ rows \in Nat /\ rows # rows + 1
      BY DEF RowTyped
    <2>2. Sync
      BY <2>1, RowsAssumption
         DEF AnyRowStep, Configure, SourceEdit, HumanEdit, RenameKey, Unconfigured, RowsAssumption
    <2>3. PICK failed \in BOOLEAN, readable \in BOOLEAN, label \in Labels :
             Create(failed, readable, label) \/ Update(failed, readable, label)
      BY <2>2 DEF Sync, Labels
    <2>4. Update(failed, readable, label)
      BY <2>1, <2>3 DEF Create
    <2>5. Written(FALSE, failed, readable, label) = Missing
      BY OnceOnly DEF Written
    <2>6. QED
      BY <2>4, <2>5 DEF Update, RowTyped
  <1>2. QED
    BY <1>1, RowsAlways, PTL DEF AnyRowsSpec, SeedsSurvive

-----------------------------------------------------------------------------
(***************************************************************************)
(* Units.                                                                  *)
(***************************************************************************)
\* Any units; the run wires some of them.
AnyUnitStep ==
    \/ \E S \in SUBSET Unit, b, resolve \in BOOLEAN, d \in TargetKind :
          WireApp([units |-> S, bundled |-> b, destination |-> d, resolve |-> resolve])
    \/ RunScript \/ StartWorkflow \/ ScriptDies \/ MakeWorker \/ StopWorker \/ FetchPage

\* The first part of a key tells the connector, and whether it is in a bundle.
FirstParts == [github |-> {"org", "repos"}, jira |-> {"jql", "project"}, luma |-> {"events"},
               youtube |-> {"channel"}, contentful |-> {"type"}, notion |-> {"ds"}]

KeyParts == UnitName \cup Connector \cup (UNION {FirstParts[s] : s \in Connector})
                \cup {"named", "durable-sync"}

\* What a unit's spec carries besides its key.
Params(u) == IF u.source = "luma" THEN Nothing ELSE Content(u)

LEMMA UnitParts ==
  ASSUME NEW u \in Unit
  PROVE  /\ u.source \in Connector /\ u.kind \in UnitKinds[u.source]
         /\ u.name \in UnitName /\ u.about \in UnitName
  <1>1. PICK s \in Connector :
          u \in [source : {s}, kind : UnitKinds[s], name : UnitName, about : UnitName]
    BY DEF Unit
  <1>2. QED
    BY <1>1

LEMMA InnerKey ==
  ASSUME NEW u \in Unit
  PROVE  /\ u.source \in Connector
         /\ InnerSpec(u).key \in Seq(KeyParts) /\ InnerSpec(u).key # <<>>
         /\ InnerSpec(u).key[1] \in FirstParts[u.source]
         /\ InnerSpec(u) = [key |-> InnerSpec(u).key, params |-> Params(u)]
  <1> DEFINE s == u.source
             Fits(spec) == /\ spec.key \in Seq(KeyParts) /\ spec.key # <<>>
                           /\ spec.key[1] \in FirstParts[s]
                           /\ spec = [key |-> spec.key, params |-> Params(u)]
  <1>1. s \in Connector /\ u.kind \in UnitKinds[s] /\ u.name \in KeyParts
    BY UnitParts DEF KeyParts
  <1>2. ASSUME NEW first \in FirstParts[s]
        PROVE  first \in KeyParts
    BY <1>1 DEF KeyParts
  <1>3. "named" \in KeyParts
    BY DEF KeyParts
  <1>4. ASSUME NEW first \in FirstParts[s], NEW second \in KeyParts
        PROVE  /\ Fits(SourceSpec(<<first, second>>, Params(u)))
               /\ Fits(SourceSpec(<<first>>, Params(u)))
    <2>1. ASSUME NEW p PROVE /\ SourceSpec(<<first, second>>, p) = [key |-> <<first, second>>, params |-> p]
                             /\ SourceSpec(<<first>>, p) = [key |-> <<first>>, params |-> p]
      BY DEF SourceSpec
    <2>2. /\ <<first, second>> \in Seq(KeyParts) /\ <<first>> \in Seq(KeyParts)
          /\ <<first, second>> # <<>> /\ <<first>> # <<>>
          /\ <<first, second>>[1] = first /\ <<first>>[1] = first
      BY <1>2
    <2>3. ASSUME NEW k \in Seq(KeyParts), k # <<>>, k[1] \in FirstParts[s]
          PROVE  Fits([key |-> k, params |-> Params(u)])
      <3>1. PICK p : p = Params(u)
        OBVIOUS
      <3>2. QED
        BY <2>3, <3>1
    <2> HIDE DEF Fits
    <2>4. QED
      BY <2>1, <2>2, <2>3
  <1>5. s # "luma" => Params(u) = Content(u)
    BY DEF Params
  <1> HIDE DEF Fits
  <1>6. Fits(InnerSpec(u))
    <2>1. CASE s = "github"
      <3>1. InnerSpec(u) = SourceSpec(<<"org", u.name>>, Content(u))
              \/ InnerSpec(u) = SourceSpec(<<"repos", "named">>, Content(u))
        BY <2>1 DEF InnerSpec, GithubSpec
      <3>2. "org" \in FirstParts[s] /\ "repos" \in FirstParts[s]
        BY <2>1 DEF FirstParts
      <3>3. QED
        BY <1>1, <1>3, <1>4, <1>5, <2>1, <3>1, <3>2
    <2>2. CASE s = "jira"
      <3>1. InnerSpec(u) = SourceSpec(<<u.kind, u.name>>, Content(u))
        BY <2>2 DEF InnerSpec, JiraSpec
      <3>2. u.kind \in FirstParts[s]
        BY <1>1, <2>2 DEF FirstParts, UnitKinds
      <3>3. QED
        BY <1>1, <1>4, <1>5, <2>2, <3>1, <3>2
    <2>3. CASE s = "luma"
      <3>1. InnerSpec(u) = SourceSpec(<<"events">>, Params(u))
        BY <2>3 DEF InnerSpec, LumaSpec, Params
      <3>2. "events" \in FirstParts[s]
        BY <2>3 DEF FirstParts
      <3>3. QED
        BY <1>3, <1>4, <3>1, <3>2
    <2>4. CASE s \in {"youtube", "contentful", "notion"}
      <3>1. PICK first \in FirstParts[s] :
              InnerSpec(u) = SourceSpec(<<first, u.name>>, Content(u))
        BY <2>4 DEF InnerSpec, YouTubeSpec, ContentfulSpec, NotionSpec, FirstParts
      <3>2. QED
        BY <1>1, <1>4, <1>5, <2>4, <3>1
    <2>5. QED
      BY <1>1, <2>1, <2>2, <2>3, <2>4 DEF Connector
  <1>7. QED
    BY <1>1, <1>6 DEF Fits

\* A part put in front of a key comes off again.
LEMMA InFront ==
  ASSUME NEW S, NEW x \in S, NEW k \in Seq(S)
  PROVE  /\ <<x>> \o k \in Seq(S) /\ <<x>> \o k # <<>>
         /\ Head(<<x>> \o k) = x /\ Tail(<<x>> \o k) = k
  OBVIOUS

\* The key of a unit, in a bundle or not.
LEMMA SpecKey ==
  ASSUME NEW u \in Unit, NEW b \in BOOLEAN
  PROVE  /\ SpecOf(u, b).key \in Seq(KeyParts) /\ SpecOf(u, b).key # <<>>
         /\ SpecOf(u, b) = [key |-> SpecOf(u, b).key, params |-> Params(u)]
         /\ b => /\ Head(SpecOf(u, b).key) = u.source
                 /\ Tail(SpecOf(u, b).key) = InnerSpec(u).key
         /\ ~b => SpecOf(u, b) = InnerSpec(u)
  <1> DEFINE inner == InnerSpec(u).key
  <1>1. u.source \in KeyParts /\ inner \in Seq(KeyParts)
    BY InnerKey DEF KeyParts
  <1>2. InnerSpec(u) = [key |-> inner, params |-> Params(u)]
    BY InnerKey
  <1> HIDE DEF inner
  <1>3. Qualified(u.source, InnerSpec(u)) = [key |-> <<u.source>> \o inner, params |-> Params(u)]
    <2> DEFINE plain == [key |-> inner, params |-> Params(u)]
               front == <<u.source>> \o plain.key
    <2>1. Qualified(u.source, plain) = [plain EXCEPT !.key = front]
      BY DEF Qualified
    <2>2. plain.key = inner
      OBVIOUS
    <2> HIDE DEF front
    <2>3. [plain EXCEPT !.key = front] = [key |-> front, params |-> Params(u)]
      OBVIOUS
    <2>4. QED
      BY <1>2, <2>1, <2>2, <2>3 DEF front
  <1>4. CASE b
    <2> DEFINE whole == <<u.source>> \o inner
    <2>1. SpecOf(u, b) = [key |-> whole, params |-> Params(u)]
      BY <1>3, <1>4 DEF SpecOf
    <2>2. /\ whole \in Seq(KeyParts) /\ whole # <<>>
          /\ Head(whole) = u.source /\ Tail(whole) = inner
      BY <1>1, InFront
    <2> HIDE DEF whole
    <2>3. SpecOf(u, b).key = whole
      BY <2>1
    <2>4. QED
      BY <1>4, <2>1, <2>2, <2>3 DEF inner
  <1>5. CASE ~b
    BY <1>5, InnerKey DEF SpecOf
  <1>6. QED
    BY <1>4, <1>5

\* A unit of one connector has no key that starts like another's, nor like a
\* connector's name.
LEMMA FirstPartsDiffer ==
  ASSUME NEW s \in Connector, NEW t \in Connector, NEW first \in FirstParts[s]
  PROVE  first \notin Connector /\ (first \in FirstParts[t] => s = t)
  BY DEF Connector, FirstParts

\* A workflow's id tells everything about its unit that the unit's key tells, and
\* the source, and whether it was started for a bundle.
LEMMA Naming ==
  ASSUME NEW u \in Unit, NEW v \in Unit, NEW b \in BOOLEAN, NEW c \in BOOLEAN,
         WorkflowId(SpecOf(u, b)) = WorkflowId(SpecOf(v, c))
  PROVE  b = c /\ u.source = v.source /\ InnerSpec(u).key = InnerSpec(v).key
  <1> DEFINE k == SpecOf(u, b).key
             l == SpecOf(v, c).key
  <1>1. k \in Seq(KeyParts) /\ k # <<>> /\ l \in Seq(KeyParts) /\ l # <<>>
    BY SpecKey
  <1>2. <<"durable-sync">> \o k = <<"durable-sync">> \o l
    BY DEF WorkflowId
  <1>3. "durable-sync" \in KeyParts
    BY DEF KeyParts
  <1> HIDE DEF k, l
  <1>4. k = l
    <2>1. Tail(<<"durable-sync">> \o k) = k /\ Tail(<<"durable-sync">> \o l) = l
      BY <1>1, <1>3, InFront
    <2>2. QED
      BY <1>2, <2>1
  <1>5. /\ b => Head(k) = u.source /\ Tail(k) = InnerSpec(u).key
        /\ ~b => k = InnerSpec(u).key /\ Head(k) \in FirstParts[u.source]
        /\ u.source \in Connector
    BY SpecKey, InnerKey DEF k
  <1>6. /\ c => Head(l) = v.source /\ Tail(l) = InnerSpec(v).key
        /\ ~c => l = InnerSpec(v).key /\ Head(l) \in FirstParts[v.source]
        /\ v.source \in Connector
    BY SpecKey, InnerKey DEF l
  <1>7. b = c
    BY <1>4, <1>5, <1>6, FirstPartsDiffer
  <1>8. QED
    BY <1>4, <1>5, <1>6, <1>7, FirstPartsDiffer

\* What a workflow is started as, and what the worker makes of it.
Started(u, b) == [id |-> WorkflowId(SpecOf(u, b)), spec |-> SpecOf(u, b)]
To(u, b) == Routed(SpecOf(u, b), serving)
Cached(source) == source = "notion" /\ serving.resolve
FetchedFor(u, b) ==
    /\ fetched.id = WorkflowId(SpecOf(u, b))
    /\ fetched.source = To(u, b).source /\ fetched.spec = To(u, b).spec
    /\ Cached(fetched.source) => fetched.read = resolved /\ resolved # Nothing
    /\ ~Cached(fetched.source) /\ fetched.source # "none"
         => fetched.read = Told(fetched.source, fetched.spec, serving)

\* A configuration made of units there were; outside a bundle there is one source.
Wired(c) ==
    /\ c.units \subseteq ever /\ c.bundled \in BOOLEAN /\ OneEach(c)
    /\ ~c.bundled => \A u, v \in c.units : u.source = v.source

\* Every workflow was started for a unit there was, every fetch made for one; and
\* what a NotionSource has resolved is what one of Notion's was about.
ForUnits ==
    /\ ever \subseteq Unit /\ Wired(wired) /\ Wired(serving) /\ todo \subseteq Specs(wired)
    /\ \A r \in running : \E u \in ever, b \in BOOLEAN : r = Started(u, b)
    /\ fetched = NoFetch \/ \E u \in ever, b \in BOOLEAN : FetchedFor(u, b)
    /\ resolved = Nothing \/ \E u \in ever : u.source = "notion" /\ resolved = Content(u)

\* What is wired, and what is served, has units.
SomeUnits ==
    /\ wired = Nobody \/ wired.units # {}
    /\ worker = "polling" => serving.units # {}

\* The script has started a unit's workflow, or has yet to.
Reached(u) ==
    \/ \E r \in running : r.id = WorkflowId(SpecOf(u, wired.bundled))
    \/ script = "running" /\ SpecOf(u, wired.bundled) \in todo

UnitInv ==
    /\ ForUnits /\ SomeUnits /\ worker # "refused"
    /\ script \in {"running", "done"} => \A u \in wired.units : Reached(u)

LEMMA UnitsStart == ASSUME UnitsInit PROVE UnitInv
  BY DEF UnitsInit, UnitInv, ForUnits, SomeUnits, Wired, Nobody, OneEach

\* Outside a bundle the units have one source: their names are few enough to count.
LEMMA OneName ==
  ASSUME NEW S, S \subseteq Unit, Cardinality({u.source : u \in S}) = 1
  PROVE  \A u, v \in S : u.source = v.source
  <1> DEFINE N == {u.source : u \in S}
  <1>1. IsFiniteSet({"github", "jira", "luma", "youtube", "contentful", "notion"})
    <2>1. IsFiniteSet({})
      BY FS_EmptySet
    <2>2. IsFiniteSet({} \cup {"github"})
      BY <2>1, FS_AddElement
    <2>3. IsFiniteSet({} \cup {"github"} \cup {"jira"})
      BY <2>2, FS_AddElement
    <2>4. IsFiniteSet({} \cup {"github"} \cup {"jira"} \cup {"luma"})
      BY <2>3, FS_AddElement
    <2>5. IsFiniteSet({} \cup {"github"} \cup {"jira"} \cup {"luma"} \cup {"youtube"})
      BY <2>4, FS_AddElement
    <2>6. IsFiniteSet({} \cup {"github"} \cup {"jira"} \cup {"luma"} \cup {"youtube"}
                         \cup {"contentful"})
      BY <2>5, FS_AddElement
    <2>7. IsFiniteSet({} \cup {"github"} \cup {"jira"} \cup {"luma"} \cup {"youtube"}
                         \cup {"contentful"} \cup {"notion"})
      BY <2>6, FS_AddElement
    <2>8. Connector = {} \cup {"github"} \cup {"jira"} \cup {"luma"} \cup {"youtube"}
                         \cup {"contentful"} \cup {"notion"}
      BY DEF Connector
    <2>9. QED
      BY <2>7, <2>8 DEF Connector
  <1>2. N \subseteq Connector
    BY InnerKey
  <1>3. IsFiniteSet(N)
    BY <1>1, <1>2, FS_Subset DEF Connector
  <1>4. \E x : N = {x}
    BY <1>3, FS_Singleton
  <1>5. QED
    BY <1>4

\* A configuration of units: the script names every one, one source or a bundle.
LEMMA WireKept ==
  ASSUME UnitInv, NEW S \in SUBSET Unit, NEW b \in BOOLEAN, NEW resolve \in BOOLEAN,
         NEW d \in TargetKind,
         WireApp([units |-> S, bundled |-> b, destination |-> d, resolve |-> resolve])
  PROVE  UnitInv'
  <1> DEFINE c == [units |-> S, bundled |-> b, destination |-> d, resolve |-> resolve]
  <1>1. /\ wired' = c /\ ever' = ever \cup S /\ script' = "idle" /\ todo' = {}
        /\ UNCHANGED <<running, worker>> /\ UNCHANGED <<serving, resolved, fetched>>
        /\ S # {} /\ OneEach(c) /\ (~b => Cardinality(Names(c)) = 1)
    BY DEF WireApp
  <1>2. Wired(wired)'
    <2>1. ~b => \A u, v \in S : u.source = v.source
      BY <1>1, OneName DEF Names
    <2>2. QED
      BY <1>1, <2>1 DEF Wired
  <1>3. Wired(serving)'
    BY <1>1 DEF UnitInv, ForUnits, Wired
  <1>4. \A r \in running' : \E u \in ever', x \in BOOLEAN : r = Started(u, x)
    BY <1>1 DEF UnitInv, ForUnits
  <1>5. fetched' = NoFetch \/ \E u \in ever', x \in BOOLEAN : FetchedFor(u, x)'
    BY <1>1 DEF UnitInv, ForUnits, FetchedFor, To, Cached
  <1>6. ForUnits'
    BY <1>1, <1>2, <1>3, <1>4, <1>5 DEF UnitInv, ForUnits
  <1>7. QED
    BY <1>1, <1>6 DEF UnitInv, SomeUnits

\* The script names every unit, and starts one after the other.
LEMMA StartKept == ASSUME UnitInv, StartWorkflow PROVE UnitInv'
  <1>1. PICK s \in todo :
          /\ running' = IF \E r \in running : r.id = WorkflowId(s) THEN running
                        ELSE running \cup {[id |-> WorkflowId(s), spec |-> s]}
          /\ todo' = todo \ {s} /\ script = "running"
          /\ script' = IF todo = {s} THEN "done" ELSE "running"
          /\ UNCHANGED <<wired, ever, worker>> /\ UNCHANGED <<serving, resolved, fetched>>
    BY DEF StartWorkflow
  <1>2. PICK u \in wired.units : s = SpecOf(u, wired.bundled)
    BY <1>1 DEF UnitInv, ForUnits, Specs
  <1>3. [id |-> WorkflowId(s), spec |-> s] = Started(u, wired.bundled) /\ u \in ever
          /\ wired.bundled \in BOOLEAN
    BY <1>2 DEF Started, UnitInv, ForUnits, Wired
  <1>4. \A r \in running' : \E v \in ever, b \in BOOLEAN : r = Started(v, b)
    BY <1>1, <1>3 DEF UnitInv, ForUnits
  <1>5. ForUnits'
    BY <1>1, <1>4 DEF UnitInv, ForUnits, Wired, Specs, FetchedFor, To, Cached
  <1>6. running \subseteq running' /\ \E r \in running' : r.id = WorkflowId(s)
    <2> DEFINE w == [id |-> WorkflowId(s), spec |-> s]
    <2>1. CASE \E r \in running : r.id = WorkflowId(s)
      BY <1>1, <2>1
    <2>2. CASE ~\E r \in running : r.id = WorkflowId(s)
      <3>1. running' = running \cup {w} /\ w.id = WorkflowId(s)
        BY <1>1, <2>2
      <3> HIDE DEF w
      <3>2. QED
        BY <3>1
    <2>3. QED
      BY <2>1, <2>2
  <1>7. ASSUME NEW v \in wired.units PROVE Reached(v)'
    <2> DEFINE t == SpecOf(v, wired.bundled)
    <2>1. (\E r \in running : r.id = WorkflowId(t)) \/ t \in todo
      BY <1>1 DEF UnitInv, Reached
    <2>2. \/ \E r \in running' : r.id = WorkflowId(t)
          \/ script' = "running" /\ t \in todo'
      <3> HIDE DEF t
      <3>1. QED
        BY <1>1, <1>6, <2>1
    <2>3. QED
      BY <1>1, <2>2 DEF Reached
  <1>8. QED
    BY <1>1, <1>5, <1>7 DEF UnitInv, SomeUnits

LEMMA UnitsStutter == ASSUME UnitInv, UNCHANGED unitVars PROVE UnitInv'
  <1>1. /\ UNCHANGED <<wired, ever, script, todo>> /\ UNCHANGED <<running, worker>>
        /\ UNCHANGED <<serving, resolved, fetched>>
    BY DEF unitVars
  <1>2. ForUnits'
    BY <1>1 DEF UnitInv, ForUnits, Wired, FetchedFor, To, Cached
  <1>3. QED
    BY <1>1, <1>2 DEF UnitInv, SomeUnits, Reached

\* What a NotionSource is told to read is what one of Notion's units is about.
LEMMA NotionTold ==
  ASSUME UnitInv, worker = "polling", NEW u \in ever, NEW b \in BOOLEAN,
         To(u, b).source = "notion"
  PROVE  \E v \in ever :
            v.source = "notion" /\ Told("notion", To(u, b).spec, serving) = Content(v)
  <1> DEFINE spec == SpecOf(u, b)
             given == To(u, b).spec
  <1>1. u \in Unit /\ serving.units \subseteq ever /\ serving.units # {}
    BY DEF UnitInv, ForUnits, SomeUnits, Wired
  <1>2. PICK own \in serving.units :
          own.source = "notion" /\ Own("notion", serving) = Content(own)
    <2>1. "notion" \in Names(serving)
      BY <1>1 DEF To, Routed, Names
    <2>2. \E own \in serving.units : own.source = "notion"
      BY <2>1 DEF Names
    <2>3. QED
      BY <2>2 DEF Own
  <1>3. given.params = Params(u)
    <2>1. PICK k : spec = [key |-> k, params |-> Params(u)]
      BY <1>1, SpecKey
    <2>2. given = spec \/ given = [spec EXCEPT !.key = Tail(@)]
      BY DEF To, Routed
    <2>3. QED
      BY <2>1, <2>2
  <1>4. CASE given.params = Nothing \/ Head(given.params) \notin UnitKinds["notion"]
    BY <1>1, <1>2, <1>4 DEF Told
  <1>5. CASE ~(given.params = Nothing \/ Head(given.params) \notin UnitKinds["notion"])
    <2>1. Told("notion", given, serving) = Params(u)
      BY <1>3, <1>5 DEF Told
    <2>2. Params(u) = Content(u) /\ Head(Content(u)) \in UnitKinds["notion"]
      BY <1>3, <1>5 DEF Params
    <2>3. u.kind \in UnitKinds["notion"]
      BY <2>2 DEF Content
    <2>4. u.source = "notion"
      BY <1>1, <2>3, UnitParts DEF UnitKinds, Connector
    <2>5. QED
      BY <2>1, <2>2, <2>4
  <1>6. QED
    BY <1>4, <1>5

\* A fetch is made for a workflow's unit; a NotionSource resolves once.
LEMMA AskKept == ASSUME UnitInv, FetchPage PROVE UnitInv'
  <1> DEFINE At(spec) == Routed(spec, serving)
             Gives(spec) == IF At(spec).source = "notion" /\ serving.resolve /\ resolved # Nothing
                           THEN resolved
                           ELSE IF At(spec).source = "none" THEN Nothing
                                ELSE Told(At(spec).source, At(spec).spec, serving)
  <1>1. PICK r \in running :
          /\ fetched' = [id |-> r.id, source |-> At(r.spec).source, spec |-> At(r.spec).spec,
                         read |-> Gives(r.spec)]
          /\ resolved' = IF At(r.spec).source = "notion" /\ serving.resolve THEN Gives(r.spec)
                         ELSE resolved
    BY Zenon DEF FetchPage
  <1>2. /\ UNCHANGED <<wired, ever, script, todo>> /\ UNCHANGED <<running, worker, serving>>
        /\ worker = "polling"
    BY DEF FetchPage
  <1>3. PICK u \in ever, b \in BOOLEAN : r = Started(u, b)
    BY DEF UnitInv, ForUnits
  <1> DEFINE to == To(u, b)
             told == Told(to.source, to.spec, serving)
             gave == IF Cached(to.source) /\ resolved # Nothing THEN resolved
                     ELSE IF to.source = "none" THEN Nothing ELSE told
  <1>4. /\ fetched' = [id |-> WorkflowId(SpecOf(u, b)), source |-> to.source,
                       spec |-> to.spec, read |-> gave]
        /\ resolved' = IF Cached(to.source) THEN gave ELSE resolved
    BY <1>1, <1>3 DEF Started, To, Cached
  <1>5. Cached(to.source) => \E v \in ever : v.source = "notion" /\ resolved' = Content(v)
    <2>1. CASE Cached(to.source) /\ resolved # Nothing
      BY <1>4, <2>1 DEF UnitInv, ForUnits
    <2>2. CASE Cached(to.source) /\ resolved = Nothing
      BY <1>2, <1>4, <2>2, NotionTold DEF Cached
    <2>3. QED
      BY <2>1, <2>2
  <1>6. ASSUME NEW v PROVE Content(v) # Nothing
    BY DEF Content, Nothing
  <1>7. FetchedFor(u, b)'
    <2>1. To(u, b)' = to /\ (\A x : Cached(x)' = Cached(x))
      BY <1>2 DEF To, Cached
    <2>2. ~Cached(to.source) /\ to.source # "none" => gave = told
      OBVIOUS
    <2> HIDE DEF gave, told
    <2>3. /\ fetched'.id = WorkflowId(SpecOf(u, b)) /\ fetched'.source = to.source
          /\ fetched'.spec = to.spec /\ fetched'.read = gave
      BY <1>4
    <2>4. QED
      BY <1>2, <1>4, <1>5, <1>6, <2>1, <2>2, <2>3 DEF FetchedFor, told
  <1>8. resolved' = Nothing \/ \E v \in ever : v.source = "notion" /\ resolved' = Content(v)
    BY <1>4, <1>5 DEF UnitInv, ForUnits
  <1>9. QED
    BY <1>2, <1>7, <1>8 DEF UnitInv, ForUnits, SomeUnits, Wired, Reached

\* A worker comes up with what it registers once, and asks what a workflow names.
LEMMA UnitsKept == ASSUME UnitInv, AnyUnitStep PROVE UnitInv'
  <1>1. ASSUME RunScript PROVE UnitInv'
    <2>1. /\ script' = "running" /\ todo' = Specs(wired)
          /\ UNCHANGED <<wired, ever, running, worker>> /\ UNCHANGED <<serving, resolved, fetched>>
      BY <1>1 DEF RunScript
    <2>2. ForUnits'
      BY <2>1 DEF UnitInv, ForUnits, Wired, FetchedFor, To, Cached, Specs
    <2>3. \A u \in wired'.units : Reached(u)'
      BY <2>1 DEF Reached, Specs
    <2>4. QED
      BY <2>1, <2>2, <2>3 DEF UnitInv, SomeUnits
  <1>2. ASSUME ScriptDies PROVE UnitInv'
    <2>1. /\ script' = "idle" /\ todo' = {}
          /\ UNCHANGED <<wired, ever, running, worker>> /\ UNCHANGED <<serving, resolved, fetched>>
      BY <1>2 DEF ScriptDies
    <2>2. ForUnits'
      BY <2>1 DEF UnitInv, ForUnits, Wired, FetchedFor, To, Cached
    <2>3. QED
      BY <2>1, <2>2 DEF UnitInv, SomeUnits
  <1>3. ASSUME MakeWorker PROVE UnitInv'
    <2>1. /\ serving' = wired /\ resolved' = Nothing /\ fetched' = NoFetch
          /\ worker' = IF \E w \in Workflows : Registered(w, wired) > 1 THEN "refused"
                       ELSE "polling"
          /\ UNCHANGED <<wired, ever, script, todo, running>> /\ wired # Nobody
      BY <1>3 DEF MakeWorker
    <2>2. ForUnits'
      BY <2>1 DEF UnitInv, ForUnits, Wired
    <2>3. ASSUME NEW w \in Workflows PROVE ~(Registered(w, wired) > 1)
      BY DEF Registered, Dedupe, Offered
    <2>4. QED
      BY <2>1, <2>2, <2>3 DEF UnitInv, SomeUnits, Reached
  <1>4. ASSUME StopWorker PROVE UnitInv'
    <2>1. /\ worker' = "down" /\ UNCHANGED <<wired, ever, script, todo>>
          /\ UNCHANGED <<running, serving>> /\ UNCHANGED <<resolved, fetched>>
      BY <1>4 DEF StopWorker
    <2>2. ForUnits'
      BY <2>1 DEF UnitInv, ForUnits, Wired, FetchedFor, To, Cached
    <2>3. QED
      BY <2>1, <2>2 DEF UnitInv, SomeUnits, Reached
  <1>5. ASSUME FetchPage PROVE UnitInv'
    BY <1>5, AskKept
  <1>6. QED
    BY <1>1, <1>2, <1>3, <1>4, <1>5, WireKept, StartKept DEF AnyUnitStep

\* The wirings of the run are among all of them.
LEMMA AnyWiring == ASSUME RunUnits PROVE AnyUnitStep
  <1>1. ASSUME NEW s \in Connector, NEW k \in UnitKinds[s], NEW v \in {"a", "b"},
               NEW w \in {"a", "b"}, k \in NamedApart \/ w = v
        PROVE  NamedUnit(s, k, v, w) \in Unit
    <2>1. NamedUnit(s, k, v, w) \in [source : {s}, kind : UnitKinds[s], name : UnitName,
                                     about : UnitName]
      BY InputsAssumption DEF InputsAssumption, NamedUnit
    <2>2. NamedUnit(s, k, v, w).kind = k /\ NamedUnit(s, k, v, w).name = v
            /\ NamedUnit(s, k, v, w).about = w
      BY DEF NamedUnit
    <2>3. QED
      BY <1>1, <2>1, <2>2 DEF Unit
  <1>2. \A v \in {"a", "b"} :
          /\ UnitOf("github", "org", v) \in Unit /\ UnitOf("github", "repos", v) \in Unit
          /\ UnitOf("jira", "jql", v) \in Unit /\ UnitOf("jira", "project", v) \in Unit
          /\ UnitOf("luma", "events", v) \in Unit /\ UnitOf("notion", "ds", v) \in Unit
          /\ UnitOf("contentful", "type", v) \in Unit
          /\ UnitOf("youtube", "channel", v) \in Unit
    BY <1>1 DEF Connector, UnitKinds, UnitOf
  <1>3. /\ NamedUnit("jira", "jql", "a", "b") \in Unit
        /\ NamedUnit("contentful", "type", "a", "b") \in Unit
    BY <1>1 DEF Connector, UnitKinds, NamedApart
  <1>4. Wirings \subseteq SUBSET Unit
    BY <1>2, <1>3 DEF Wirings
  <1>5. QED
    BY <1>4 DEF RunUnits, AnyUnitStep

AnyUnitsSpec == UnitsInit /\ [][AnyUnitStep]_unitVars

LEMMA UnitsAlways == AnyUnitsSpec => []UnitInv
  <1>1. UnitInv /\ [AnyUnitStep]_unitVars => UnitInv'
    BY UnitsKept, UnitsStutter
  <1>2. QED
    BY <1>1, UnitsStart, PTL DEF AnyUnitsSpec

\* Units whose workflows have one id are one unit, or the code tells them apart no
\* more than their ids do.
LEMMA SameId ==
  ASSUME NEW u \in Unit, NEW v \in Unit, NEW b \in BOOLEAN, NEW c \in BOOLEAN,
         WorkflowId(SpecOf(u, b)) = WorkflowId(SpecOf(v, c))
  PROVE  b = c /\ (u = v \/ Clash(u, v))
  BY Naming DEF Clash

\* When the script is through every unit has its own workflow, for units of any
\* name, however often the script died, was run again or found other units wired
\* (start_sources, MultiSource, SourceSpec.key).
THEOREM UnitsAllRun == AnyUnitsSpec => []EveryUnitRuns
  <1>1. UnitInv => EveryUnitRuns
    <2> SUFFICES ASSUME UnitInv, script = "done", NEW u \in wired.units
                 PROVE  LET s == SpecOf(u, wired.bundled)
                        IN /\ \E r \in running :
                                /\ r.id = WorkflowId(s)
                                /\ \E v \in ever : /\ v = u \/ Clash(u, v)
                                                  /\ r.spec = SpecOf(v, wired.bundled)
                           /\ Alone(u) => [id |-> WorkflowId(s), spec |-> s] \in running
                           /\ \A v \in wired.units :
                                u # v /\ ~Clash(u, v)
                                  => WorkflowId(s) # WorkflowId(SpecOf(v, wired.bundled))
      BY DEF EveryUnitRuns
    <2> DEFINE b == wired.bundled
               s == SpecOf(u, b)
    <2>1. b \in BOOLEAN /\ wired.units \subseteq ever /\ ever \subseteq Unit
      BY DEF UnitInv, ForUnits, Wired
    <2>2. PICK r \in running : r.id = WorkflowId(s)
      BY DEF UnitInv, Reached
    <2>3. PICK v \in ever, c \in BOOLEAN : r = Started(v, c)
      BY DEF UnitInv, ForUnits
    <2>4. b = c /\ (u = v \/ Clash(u, v))
      BY <2>1, <2>2, <2>3, SameId DEF Started
    <2>5. r.spec = SpecOf(v, b)
      BY <2>3, <2>4 DEF Started
    <2>6. Alone(u) => r = [id |-> WorkflowId(s), spec |-> s]
      BY <2>3, <2>4 DEF Alone, Started
    <2>7. ASSUME NEW w \in wired.units, u # w, ~Clash(u, w)
          PROVE  WorkflowId(s) # WorkflowId(SpecOf(w, b))
      BY <2>1, <2>7, SameId
    <2>8. QED
      BY <2>2, <2>4, <2>5, <2>6, <2>7
  <1>2. QED
    BY <1>1, UnitsAlways, PTL

\* What a source is told by its own unit's spec is what the unit is about.
LEMMA OwnTold ==
  ASSUME NEW u \in Unit, NEW c, OneEach(c), u \in c.units
  PROVE  Told(u.source, InnerSpec(u), c) = Content(u)
  <1>1. InnerSpec(u).params = Params(u) /\ u.source \in Connector
          /\ u.kind \in UnitKinds[u.source]
    <2>1. PICK k : InnerSpec(u) = [key |-> k, params |-> Params(u)]
      BY InnerKey
    <2>2. QED
      BY <2>1, UnitParts
  <1>2. CASE u.source = "luma"
    <2>1. \A v \in c.units : v.source = "luma" => v = u
      BY <1>2 DEF OneEach, Single
    <2>2. (CHOOSE v \in c.units : v.source = "luma") = u
      BY <1>2, <2>1
    <2>3. QED
      BY <1>2, <2>2 DEF Told, Own
  <1>3. CASE u.source # "luma"
    <2>1. Params(u) = Content(u)
      BY <1>3 DEF Params
    <2>2. Content(u) # Nothing /\ Head(Content(u)) = u.kind
      BY DEF Content, Nothing
    <2>3. QED
      BY <1>1, <1>3, <2>1, <2>2 DEF Told
  <1>4. QED
    BY <1>2, <1>3

\* The spec of a unit that the worker serves finds its way to the unit's source.
LEMMA OwnRoute ==
  ASSUME NEW u \in Unit, NEW v \in Unit, NEW c, u \in c.units, c.bundled \in BOOLEAN,
         ~c.bundled => \A x, y \in c.units : x.source = y.source,
         v.source = u.source, InnerSpec(v).key = InnerSpec(u).key
  PROVE  Routed(SpecOf(v, c.bundled), c) = [source |-> u.source, spec |-> InnerSpec(v)]
  <1> DEFINE b == c.bundled
  <1>1. u.source \in Names(c)
    BY DEF Names
  <1>2. CASE b
    <2>1. /\ SpecOf(v, b) = [key |-> SpecOf(v, b).key, params |-> Params(v)]
          /\ InnerSpec(v) = [key |-> InnerSpec(v).key, params |-> Params(v)]
          /\ Head(SpecOf(v, b).key) = v.source /\ Tail(SpecOf(v, b).key) = InnerSpec(v).key
      BY <1>2, SpecKey, InnerKey
    <2>2. [SpecOf(v, b) EXCEPT !.key = Tail(@)]
            = [key |-> Tail(SpecOf(v, b).key), params |-> Params(v)]
      <3>1. PICK k, p : SpecOf(v, b) = [key |-> k, params |-> p] /\ p = Params(v)
        BY <2>1
      <3>2. PICK t : t = Tail(k)
        OBVIOUS
      <3>3. [[key |-> k, params |-> p] EXCEPT !.key = t] = [key |-> t, params |-> p]
        OBVIOUS
      <3>4. SpecOf(v, b).key = k
        BY <3>1
      <3>5. [SpecOf(v, b) EXCEPT !.key = Tail(@)] = [SpecOf(v, b) EXCEPT !.key = t]
        BY <3>2, <3>4, Zenon
      <3>6. QED
        BY <3>1, <3>2, <3>3, <3>4, <3>5
    <2>3. Routed(SpecOf(v, b), c)
            = [source |-> u.source, spec |-> [SpecOf(v, b) EXCEPT !.key = Tail(@)]]
      BY <1>1, <1>2, <2>1, <2>2 DEF Routed
    <2>4. [SpecOf(v, b) EXCEPT !.key = Tail(@)] = InnerSpec(v)
      BY <2>1, <2>2
    <2>5. QED
      BY <2>3, <2>4
  <1>3. CASE ~b
    <2>1. Names(c) = {u.source}
      BY <1>3 DEF Names
    <2>2. (CHOOSE s \in Names(c) : TRUE) = u.source
      BY <2>1
    <2>3. Routed(SpecOf(v, b), c) = [source |-> u.source, spec |-> SpecOf(v, b)]
      BY <1>3, <2>2 DEF Routed
    <2>4. QED
      BY <1>3, <2>3, SpecKey
  <1>4. QED
    BY <1>2, <1>3

\* A worker comes up for any units and any destination, and what it asks for a
\* workflow is what that workflow's own unit is about: unless another unit has its
\* key, or a NotionSource may have resolved another's before (worker,
\* MultiSource.fetch, NotionSource.fetch).
THEOREM UnitsAllServed == AnyUnitsSpec => []UnitsServed
  <1>1. ASSUME NEW w \in {"SourceSyncWorkflow", "OAuthTokenWorkflow"}, NEW c,
               w = "SourceSyncWorkflow" \/ c.destination # "other"
                 \/ (Names(c) = {"notion"} /\ ~c.bundled)
        PROVE  Registered(w, c) = 1
    BY <1>1 DEF Registered, Dedupe, Offered, SourceAux, DestinationAux
  <1>2. ASSUME UnitInv, NEW u \in serving.units,
               fetched.id = WorkflowId(SpecOf(u, serving.bundled))
        PROVE  /\ fetched.source = u.source /\ fetched.spec.key = InnerSpec(u).key
               /\ Alone(u) /\ OwnResolved(u)
                    => fetched.spec = InnerSpec(u) /\ fetched.read = Content(u)
    <2> DEFINE b == serving.bundled
    <2>1. /\ b \in BOOLEAN /\ serving.units \subseteq ever /\ ever \subseteq Unit
          /\ OneEach(serving) /\ (~b => \A v, w \in serving.units : v.source = w.source)
      BY <1>2 DEF UnitInv, ForUnits, Wired
    <2>2. PICK v \in ever, c \in BOOLEAN : FetchedFor(v, c)
      <3>1. WorkflowId(SpecOf(u, b)) # <<>>
        BY <2>1, SpecKey, InFront DEF WorkflowId
      <3>2. fetched # NoFetch
        BY <1>2, <3>1 DEF NoFetch
      <3>3. QED
        BY <1>2, <3>2 DEF UnitInv, ForUnits
    <2>3. b = c /\ u.source = v.source /\ InnerSpec(u).key = InnerSpec(v).key
      <3>1. WorkflowId(SpecOf(u, b)) = WorkflowId(SpecOf(v, c)) /\ u \in Unit /\ v \in Unit
        BY <1>2, <2>1, <2>2 DEF FetchedFor
      <3>2. QED
        BY <2>1, <3>1, Naming
    <2>4. To(v, b) = [source |-> u.source, spec |-> InnerSpec(v)]
      BY <2>1, <2>3, OwnRoute DEF To
    <2>5. fetched.source = u.source /\ fetched.spec = InnerSpec(v)
      BY <2>2, <2>3, <2>4 DEF FetchedFor
    <2>6. ASSUME Alone(u), OwnResolved(u)
          PROVE  fetched.spec = InnerSpec(u) /\ fetched.read = Content(u)
      <3>1. u = v
        BY <2>3, <2>6 DEF Alone, Clash
      <3>2. CASE Cached(u.source)
        <4>1. fetched.read = resolved /\ resolved # Nothing
          BY <2>2, <2>5, <3>2 DEF FetchedFor
        <4>2. PICK w \in ever : w.source = "notion" /\ resolved = Content(w)
          BY <1>2, <4>1 DEF UnitInv, ForUnits
        <4>3. w = u
          BY <2>6, <3>2, <4>2 DEF OwnResolved, Cached
        <4>4. QED
          BY <2>5, <3>1, <4>1, <4>2, <4>3
      <3>3. CASE ~Cached(u.source)
        <4>1. u.source # "none"
          BY <2>1, InnerKey DEF Connector
        <4>2. fetched.read = Told(u.source, InnerSpec(u), serving)
          BY <2>2, <2>5, <3>1, <3>3, <4>1 DEF FetchedFor
        <4>3. QED
          BY <2>1, <2>5, <3>1, <4>2, OwnTold
      <3>4. QED
        BY <3>2, <3>3
    <2>7. QED
      BY <2>3, <2>5, <2>6
  <1>3. UnitInv => UnitsServed
    BY <1>1, <1>2 DEF UnitInv, UnitsServed
  <1>4. QED
    BY <1>3, UnitsAlways, PTL

-----------------------------------------------------------------------------
(***************************************************************************)
(* Tables.                                                                 *)
(***************************************************************************)
\* Any wiring with any records: the stamp is a column of its own, the kind of an
\* override may be none of those known, the sample is no longer than what there is.
Kinds == {"text", "number", "checkbox", "multi_select", "select", "date", "misspelt"}
TableWirings == [title : Column, key : Column \cup {Nameless}, synced : Column \cup {Nameless},
                 dates : SUBSET Column, anchored : BOOLEAN,
                 override : [column : Column \cup {Nameless}, kind : Kinds]]
Apart(w) == w.synced # Nameless => w.synced \notin {w.title, w.key}
AnyTableStep ==
    \/ \E w \in TableWirings, rs \in Seq([Column -> Shape]), n \in Nat :
          Apart(w) /\ n <= Len(rs) /\ WireTable(w, rs, n)
    \/ Generate \/ EnsureSchema \/ EndGenerate \/ HumanRenames \/ ReadColumns
    \/ (\E i \in DOMAIN records : WriteSample(i)) \/ ReadRow
AnyTableSpec == SchemaInit /\ [][AnyTableStep]_schemaVars

\* Once a table is configured no run of the script makes another.
KindsKnown == \A o \in Overrides : KnownKind(o.kind)
Sampling == /\ wiring \in TableWirings /\ Apart(wiring)
            /\ records \in Seq([Column -> Shape]) /\ limit \in Nat /\ limit <= Len(records)
Types == {"TITLE", "RICH_TEXT", "NUMBER", "CHECKBOX", "MULTI_SELECT", "SELECT", "DATE"}
Wires == {"none", "text", "lookalike", "number", "yesno", "json", "date"}
Readings == {"none", "text", "checkbox", "multi_select"}
Field == [id : Column, label : Column \cup {"renamed"}, type : Types]
TableTyped ==
    /\ tables \in Seq(SUBSET Field) /\ Len(tables) <= MaxTables
    /\ memory \in Nat /\ memory <= Len(tables) /\ dsid \in Nat /\ dsid <= Len(tables)
    /\ refused \subseteq Column /\ written \in Nat /\ written <= Len(records)
    /\ cells \in [Column -> Wires] /\ back \in [Column -> Readings]
    /\ known \subseteq Column \cup {"renamed"} /\ informed \in BOOLEAN
    /\ dsid = 0 => written = 0
    /\ IF Unwired THEN inferred = {} /\ tables = <<>> /\ records = <<>> /\ limit = 0 ELSE Sampling
    /\ inferred # {} \/ tables # <<>> => KindsKnown
    /\ IF inferred = {} THEN memory = 0 ELSE inferred = InferSchema /\ (dsid # 0 => memory = dsid)

\* A table is what was inferred, but for labels that humans changed.
Generated(t) ==
    /\ \A f \in t : \E c \in InferSchema :
          f.id = c.name /\ f.type = DdlType(c) /\ f.label \in {f.id, "renamed"}
    /\ \A c \in InferSchema : \E f \in t : f.id = c.name
    /\ \A f, g \in t : f.id = g.id \/ (f.label = "renamed" /\ g.label = "renamed") => f = g
AllGenerated == \A n \in 1 .. Len(tables) : Generated(tables[n])

\* A session that knows columns knows those that nobody renamed.
KnownIs == dsid # 0 /\ known # {} => \A f \in tables[dsid] : f.label = f.id => f.id \in known

\* What record i has for a column, and all that may be sent to it.
Form(i, c) == Wire(c, records[i][c])
Sendable(i, c) == {w \in {Form(i, c)} : w # "none"}
                     \cup (IF c = wiring.synced THEN {"date"} ELSE {})

\* What was written is what was sent, where the service took it, and what it did
\* not take is of a wrong type, or for a column renamed since it was known; what
\* was read is what was written.
FieldsOf(c) == {f \in tables[dsid] : f.id = c}
Steady(c) == FieldsOf(c) # {} /\ \A f \in FieldsOf(c) : f.label = c
Kept(c) == /\ FieldsOf(c) # {}
           /\ \A f \in FieldsOf(c) :
                 f.label = c \/ (wiring.anchored /\ f.type \in {"SELECT", "MULTI_SELECT"})
Stored ==
    written # 0 =>
        \A c \in Column :
            /\ c # wiring.synced => cells[c] \in {"none", Form(written, c)}
            /\ c \in refused =>
                  /\ Sendable(written, c) # {}
                  /\ \/ \E w \in Sendable(written, c), f \in FieldsOf(c) : ~Takes(f.type, w)
                     \/ ~Steady(c) /\ (c = wiring.synced \/ ~informed)
            /\ refused = {} /\ c # wiring.synced /\ (Steady(c) \/ (informed /\ Kept(c)))
                  => cells[c] = Form(written, c)
ReadBack == back # Blank => /\ written # 0
                            /\ \A c \in Column : cells[c] # "none" => back[c] \in DecodeValue(cells[c])

TableInv == TableTyped /\ AllGenerated /\ KnownIs /\ Stored /\ ReadBack

-----------------------------------------------------------------------------
\* A set with no two members in number has at most one.
LEMMA AtMostOne ==
  ASSUME NEW S, IsFiniteSet(S), ~(Cardinality(S) > 1), NEW x \in S, NEW y \in S
  PROVE  x = y
  <1>1. IsFiniteSet(S \ {x}) /\ Cardinality(S \ {x}) = Cardinality(S) - 1
    BY FS_RemoveElement
  <1>2. Cardinality(S) \in Nat /\ Cardinality(S \ {x}) \in Nat
    BY <1>1, FS_CardinalityType
  <1>3. Cardinality(S \ {x}) = 0
    BY <1>1, <1>2
  <1>4. S \ {x} = {}
    BY <1>1, <1>3, FS_EmptySet
  <1>5. QED
    BY <1>4

LEMMA FewShapes == IsFiniteSet(Scalar)
  <1>1. IsFiniteSet({})
    BY FS_EmptySet
  <1>2. IsFiniteSet({} \cup {"text"})
    BY <1>1, FS_AddElement
  <1>3. IsFiniteSet({} \cup {"text"} \cup {"lookalike"})
    BY <1>2, FS_AddElement
  <1>4. IsFiniteSet({} \cup {"text"} \cup {"lookalike"} \cup {"number"})
    BY <1>3, FS_AddElement
  <1>5. IsFiniteSet({} \cup {"text"} \cup {"lookalike"} \cup {"number"} \cup {"checkbox"})
    BY <1>4, FS_AddElement
  <1>6. IsFiniteSet({} \cup {"text"} \cup {"lookalike"} \cup {"number"} \cup {"checkbox"}
                       \cup {"multi_select"})
    BY <1>5, FS_AddElement
  <1>7. IsFiniteSet({} \cup {"text"} \cup {"lookalike"} \cup {"number"} \cup {"checkbox"}
                       \cup {"multi_select"} \cup {"date"})
    BY <1>6, FS_AddElement
  <1>8. IsFiniteSet({} \cup {"text"} \cup {"lookalike"} \cup {"number"} \cup {"checkbox"}
                       \cup {"multi_select"} \cup {"date"} \cup {"datetime"})
    BY <1>7, FS_AddElement
  <1>9. Scalar = {} \cup {"text"} \cup {"lookalike"} \cup {"number"} \cup {"checkbox"}
                    \cup {"multi_select"} \cup {"date"} \cup {"datetime"}
    BY DEF Scalar
  <1>10. QED
    BY <1>8, <1>9

\* The sample is the first of the records; a column's shapes are those of its values.
LEMMA SampleIs ==
  ASSUME Sampling
  PROVE  /\ \A i \in 1 .. limit : i \in 1 .. Len(records) /\ records[i] \in [Column -> Shape]
         /\ \A c \in Column : /\ ShapesOf(c) \subseteq Scalar /\ IsFiniteSet(ShapesOf(c))
                              /\ \A i \in 1 .. limit :
                                    records[i][c] \notin {"absent", "none"} =>
                                       records[i][c] \in ShapesOf(c) /\ c \in Observed
  <1>1. \A i \in 1 .. limit : i \in 1 .. Len(records) /\ records[i] \in [Column -> Shape]
    BY ElementOfSeq, LenProperties DEF Sampling
  <1>2. /\ Sampled \in Seq([Column -> Shape]) /\ Len(Sampled) = limit
        /\ \A i \in 1 .. limit : Sampled[i] = records[i]
    <2>1. /\ SubSeq(records, 1, limit) \in Seq([Column -> Shape])
          /\ Len(SubSeq(records, 1, limit)) = IF 1 <= limit THEN limit - 1 + 1 ELSE 0
          /\ \A i \in 1 .. limit - 1 + 1 : SubSeq(records, 1, limit)[i] = records[1 + i - 1]
      BY <1>1, SubSeqProperties DEF Sampling
    <2>2. QED
      BY <2>1 DEF Sampled, Sampling
  <1>3. DOMAIN Sampled = 1 .. limit
    BY <1>2, LenProperties
  <1>4. ASSUME NEW c \in Column
        PROVE  /\ ShapesOf(c) \subseteq Scalar /\ IsFiniteSet(ShapesOf(c))
               /\ \A i \in 1 .. limit : records[i][c] \notin {"absent", "none"} =>
                                           records[i][c] \in ShapesOf(c) /\ c \in Observed
    <2>1. \A i \in 1 .. limit : records[i][c] \in Shape
      BY <1>1
    <2>2. ShapesOf(c) \subseteq Scalar
      BY <1>2, <1>3, <2>1 DEF ShapesOf, Shape
    <2>3. IsFiniteSet(ShapesOf(c))
      BY <2>2, FewShapes, FS_Subset
    <2>4. \A i \in 1 .. limit : records[i][c] \notin {"absent", "none"} =>
                                           records[i][c] \in ShapesOf(c) /\ c \in Observed
      BY <1>2, <1>3 DEF ShapesOf, Observed
    <2>5. QED
      BY <2>2, <2>3, <2>4
  <1>5. QED
    BY <1>1, <1>4

\* The kinds seen in a column are no more than its shapes.
KindsOf(c) == {KindOf(v) : v \in ShapesOf(c)}
LEMMA FewKinds ==
  ASSUME Sampling, NEW c \in Column
  PROVE  /\ IsFiniteSet(KindsOf(c)) /\ Cardinality(KindsOf(c)) <= Cardinality(ShapesOf(c))
         /\ Cardinality(KindsOf(c)) \in Nat /\ Cardinality(ShapesOf(c)) \in Nat
  <1> DEFINE f == [v \in ShapesOf(c) |-> KindOf(v)]
  <1>1. f \in Surjection(ShapesOf(c), KindsOf(c))
    BY DEF Surjection, KindsOf
  <1>2. IsFiniteSet(ShapesOf(c))
    BY SampleIs
  <1>3. IsFiniteSet(KindsOf(c)) /\ Cardinality(KindsOf(c)) <= Cardinality(ShapesOf(c))
    BY <1>1, <1>2, FS_Surjection
  <1>4. QED
    BY <1>2, <1>3, FS_CardinalityType

\* What is known of a column's kind is one kind at most.
LEMMA OneKind ==
  ASSUME Sampling, KindsKnown, NEW c \in Column, NEW k \in Resolved(c)
  PROVE  /\ \A l \in Resolved(c) : l = k
         /\ KnownKind(k.kind)
  <1>1. CASE \E o \in Overrides : o.column = c
    <2>1. Resolved(c) = {[kind |-> wiring.override.kind, time |-> FALSE]}
      BY <1>1 DEF Resolved
    <2>2. KnownKind(wiring.override.kind)
      BY <1>1 DEF KindsKnown, Overrides
    <2>3. QED
      BY <2>1, <2>2
  <1>2. CASE ~(\E o \in Overrides : o.column = c) /\ Cardinality(KindsOf(c)) > 1
    <2>1. Resolved(c) = {[kind |-> "text", time |-> FALSE]}
      BY <1>2 DEF Resolved, KindsOf
    <2>2. QED
      BY <2>1 DEF KnownKind
  <1>3. CASE ~(\E o \in Overrides : o.column = c) /\ ~(Cardinality(KindsOf(c)) > 1)
    <2>1. Resolved(c) = KindsOf(c)
      BY <1>3 DEF Resolved, KindsOf
    <2>2. \A l \in Resolved(c) : l = k
      BY <1>3, <2>1, AtMostOne, FewKinds
    <2>3. PICK v \in Scalar : k = KindOf(v)
      BY <2>1, SampleIs DEF KindsOf
    <2>4. KnownKind(k.kind)
      BY <2>3 DEF KindOf, KnownKind, Scalar, Dates
    <2>5. QED
      BY <2>2, <2>4
  <1>4. QED
    BY <1>1, <1>2, <1>3

\* The column made for a name: one at most, of the kind known or the role's own.
LEMMA OneColumn ==
  ASSUME Sampling, KindsKnown, NEW c \in Column
  PROVE  /\ \A s \in ColumnFor(c) :
               /\ s.name = c /\ s.role = RoleOf(c) /\ KnownKind(s.kind)
               /\ \A k \in Resolved(c) : s.kind = k.kind
               /\ Resolved(c) = {} => s.kind \in DefaultKind[RoleOf(c)]
               /\ \A u \in ColumnFor(c) : u = s
         /\ Resolved(c) # {} \/ RoleOf(c) # "normal" => ColumnFor(c) # {}
  <1> DEFINE D == {[kind |-> k, time |-> FALSE] : k \in DefaultKind[RoleOf(c)]}
             K == IF Resolved(c) # {} THEN Resolved(c) ELSE D
             Described(k) == [name |-> c, role |-> RoleOf(c), kind |-> k.kind, time |-> k.time]
  <1>1. ColumnFor(c) = {Described(k) : k \in K}
    BY DEF ColumnFor
  <1>2. RoleOf(c) \in {"title", "key", "synced", "normal"}
    BY DEF RoleOf
  <1>3. /\ RoleOf(c) \in {"title", "key"} => DefaultKind[RoleOf(c)] = {"text"}
        /\ RoleOf(c) = "synced" => DefaultKind[RoleOf(c)] = {"date"}
        /\ RoleOf(c) = "normal" => DefaultKind[RoleOf(c)] = {}
    BY <1>2 DEF DefaultKind
  <1>4. \A k \in K : KnownKind(k.kind) /\ \A l \in K : l = k
    <2>1. CASE Resolved(c) # {}
      BY <2>1, OneKind
    <2>2. CASE Resolved(c) = {}
      <3>1. \A k \in K : \E d \in DefaultKind[RoleOf(c)] : k = [kind |-> d, time |-> FALSE]
        BY <2>2
      <3>2. \A d, e \in DefaultKind[RoleOf(c)] : d = e /\ d \in {"text", "date"}
        BY <1>2, <1>3
      <3> HIDE DEF K
      <3>3. ASSUME NEW k \in K, NEW l \in K PROVE l = k
        <4>1. PICK d \in DefaultKind[RoleOf(c)] : k = [kind |-> d, time |-> FALSE]
          BY <3>1
        <4>2. PICK e \in DefaultKind[RoleOf(c)] : l = [kind |-> e, time |-> FALSE]
          BY <3>1
        <4>3. d = e
          BY <3>2
        <4>4. QED
          BY <4>1, <4>2, <4>3
      <3>4. \A k \in K : k.kind \in {"text", "date"}
        BY <3>1, <3>2
      <3>5. QED
        BY <3>3, <3>4 DEF KnownKind
    <2>3. QED
      BY <2>1, <2>2
  <1>5. Resolved(c) # {} \/ RoleOf(c) # "normal" => K # {}
    BY <1>2, <1>3
  <1>6. ASSUME NEW s \in ColumnFor(c)
        PROVE  /\ s.name = c /\ s.role = RoleOf(c) /\ KnownKind(s.kind)
               /\ \A k \in Resolved(c) : s.kind = k.kind
               /\ Resolved(c) = {} => s.kind \in DefaultKind[RoleOf(c)]
               /\ \A u \in ColumnFor(c) : u = s
    <2>1. PICK k \in K : s = Described(k)
      BY <1>1
    <2>2. s.name = c /\ s.role = RoleOf(c) /\ s.kind = k.kind
      BY <2>1
    <2>3. \A u \in ColumnFor(c) : u = s
      BY <1>1, <1>4, <2>1
    <2>4. \A l \in Resolved(c) : s.kind = l.kind
      BY <1>4, <2>1, <2>2
    <2>5. Resolved(c) = {} => s.kind \in DefaultKind[RoleOf(c)]
      BY <2>1, <2>2
    <2>6. KnownKind(s.kind)
      BY <1>4, <2>1, <2>2
    <2>7. QED
      BY <2>2, <2>3, <2>4, <2>5, <2>6
  <1>7. Resolved(c) # {} \/ RoleOf(c) # "normal" => ColumnFor(c) # {}
    BY <1>1, <1>5
  <1>8. QED
    BY <1>6, <1>7

\* The schema has each name once, one title, and every column the sample shows.
LEMMA SchemaIs ==
  ASSUME Sampling, KindsKnown
  PROVE  /\ \A s \in InferSchema : s.name \in Column /\ s \in ColumnFor(s.name)
         /\ \A c \in Observed : ColumnFor(c) \subseteq InferSchema
         /\ ColumnFor(wiring.title) \subseteq InferSchema
         /\ wiring.synced # Nameless => ColumnFor(wiring.synced) \subseteq InferSchema
  <1> DEFINE N == Observed \cup {o.column : o \in Overrides}
                     \cup ({wiring.title, wiring.key, wiring.synced} \ {Nameless})
  <1>1. InferSchema = UNION {ColumnFor(c) : c \in N}
    BY DEF InferSchema
  <1>2. wiring.title \in Column /\ Nameless \notin Column
    BY SchemaAssumption DEF Sampling, TableWirings, SchemaAssumption, Nameless
  <1>3. /\ N \subseteq Column /\ wiring.title \in N /\ Observed \subseteq N
        /\ wiring.synced # Nameless => wiring.synced \in N
    BY <1>2 DEF Sampling, TableWirings, Observed, Overrides
  <1>4. \A s \in InferSchema : s.name \in Column /\ s \in ColumnFor(s.name)
    BY <1>1, <1>3, OneColumn
  <1>5. QED
    BY <1>1, <1>3, <1>4

\* What stands in the schema is described by its name; one column is the title.
LEMMA TypesOfColumns ==
  ASSUME Sampling, KindsKnown
  PROVE  /\ \A s \in InferSchema : /\ DdlType(s) \in Types
                                   /\ DdlType(s) = "TITLE" <=> s.name = wiring.title
         /\ \A s, u \in InferSchema : s.name = u.name => s = u
         /\ \E s \in InferSchema : s.name = wiring.title
  <1>1. wiring.title \in Column /\ RoleOf(wiring.title) = "title"
    BY DEF Sampling, TableWirings, RoleOf
  <1>2. ASSUME NEW s \in InferSchema
        PROVE  /\ DdlType(s) \in Types
               /\ DdlType(s) = "TITLE" <=> s.name = wiring.title
               /\ \A u \in InferSchema : s.name = u.name => s = u
    <2>1. /\ s.name \in Column /\ s.role = RoleOf(s.name) /\ KnownKind(s.kind)
          /\ \A u \in ColumnFor(s.name) : u = s
      BY SchemaIs, OneColumn
    <2>2. s.role = "title" <=> s.name = wiring.title
      BY <2>1 DEF RoleOf
    <2>3. s.kind \in {"text", "number", "checkbox", "multi_select", "select", "date"}
      BY <2>1 DEF KnownKind
    <2>4. DdlType(s) \in Types /\ (DdlType(s) = "TITLE" <=> s.role = "title")
      <3>1. s.role = "title" => DdlType(s) = "TITLE"
        BY DEF DdlType
      <3>2. s.role # "title" => DdlType(s) \in {"RICH_TEXT", "NUMBER", "CHECKBOX", "MULTI_SELECT",
                                               "SELECT", "DATE"}
        BY <2>3 DEF DdlType
      <3>4. DdlType(s) \in Types
        BY <3>1, <3>2 DEF Types
      <3>3. DdlType(s) = "TITLE" <=> s.role = "title"
        BY <3>1, <3>2
      <3>6. QED
        BY <3>3, <3>4
    <2>5. \A u \in InferSchema : s.name = u.name => s = u
      BY <2>1, SchemaIs
    <2>6. QED
      BY <2>2, <2>4, <2>5
  <1>3. ColumnFor(wiring.title) # {} /\ ColumnFor(wiring.title) \subseteq InferSchema
    BY <1>1, OneColumn, SchemaIs
  <1>4. \E s \in InferSchema : s.name = wiring.title
    BY <1>1, <1>3, OneColumn
  <1>5. QED
    BY <1>2, <1>4

LEMMA KindIs ==
  ASSUME NEW v
  PROVE  KindOf(v).kind = IF v \in Dates THEN "date" ELSE IF v = "lookalike" THEN "text" ELSE v
  <1>1. CASE v \in Dates
    <2>1. KindOf(v) = [kind |-> "date", time |-> v = "datetime"]
      BY <1>1 DEF KindOf, Dates
    <2>2. QED
      BY <1>1, <2>1
  <1>2. CASE v = "lookalike"
    BY <1>2 DEF KindOf, Dates
  <1>3. CASE v \notin Dates /\ v # "lookalike"
    <2>1. KindOf(v) = [kind |-> v, time |-> FALSE]
      BY <1>3 DEF KindOf
    <2>2. QED
      BY <1>3, <2>1
  <1>4. QED
    BY <1>1, <1>2, <1>3

\* A value that a column's declarations fit is one that its type takes.
LEMMA ValueTaken ==
  ASSUME Sampling, KindsKnown, NEW c \in Column, Plain(c), NEW s \in InferSchema, s.name = c,
         NEW i \in 1 .. limit, NEW w \in Sendable(i, c)
  PROVE  Takes(DdlType(s), w)
  <1> DEFINE v == records[i][c]
  <1>1. s \in ColumnFor(c)
    BY SchemaIs
  <1>2. /\ s.role = RoleOf(c)
        /\ \A k \in Resolved(c) : s.kind = k.kind
        /\ Resolved(c) = {} => s.kind \in DefaultKind[RoleOf(c)]
    BY <1>1, OneColumn
  <1>3. ~(\E o \in Overrides : o.column = c)
    BY DEF Plain
  <1>4. (w = Wire(c, v) /\ w # "none") \/ (w = "date" /\ c = wiring.synced)
    BY DEF Sendable, Form
  <1>5. RoleOf(c) = "synced" <=> c = wiring.synced
    BY SchemaAssumption DEF RoleOf, Sampling, Apart, SchemaAssumption, Nameless
  <1>6. CASE c = wiring.synced
    <2>1. ShapesOf(c) = {} /\ RoleOf(c) = "synced"
      BY <1>5, <1>6 DEF Plain
    <2>2. KindsOf(c) = {}
      BY <2>1 DEF KindsOf
    <2>3. ~(Cardinality(KindsOf(c)) > 1)
      BY <2>2, FS_EmptySet
    <2>4. Resolved(c) = {}
      BY <1>3, <2>2, <2>3 DEF Resolved, KindsOf
    <2>5. s.kind = "date"
      BY <1>2, <2>1, <2>4 DEF DefaultKind
    <2>6. DdlType(s) = "DATE"
      BY <1>2, <2>1, <2>5 DEF DdlType
    <2>7. v \in {"absent", "none"}
      BY <2>1, SampleIs
    <2>8. w = "date"
      BY <1>4, <2>7 DEF Wire
    <2>9. QED
      BY <2>6, <2>8 DEF Takes
  <1>7. CASE c # wiring.synced
    <2>1. v \notin {"absent", "none"} /\ w = Wire(c, v)
      BY <1>4, <1>7 DEF Wire
    <2>2. v \in ShapesOf(c) /\ v \in Scalar
      BY <2>1, SampleIs
    <2>3. CASE RoleOf(c) = "title"
      <3>1. v \notin {"number"} \cup Dates /\ c \notin wiring.dates
        BY <2>2, <2>3 DEF Plain
      <3>2. DdlType(s) = "TITLE"
        BY <1>2, <2>3 DEF DdlType
      <3>3. QED
        BY <2>1, <2>2, <3>1, <3>2 DEF Takes, Wire, Scalar, Dates
    <2>4. CASE RoleOf(c) # "title" /\ Cardinality(KindsOf(c)) > 1
      <3>1. Cardinality(ShapesOf(c)) > 1
        BY <2>4, FewKinds
      <3>2. c \notin wiring.dates /\ v \notin {"number"} \cup Dates
        BY <2>2, <3>1, FewKinds DEF Plain
      <3>3. Resolved(c) = {[kind |-> "text", time |-> FALSE]}
        BY <1>3, <2>4 DEF Resolved, KindsOf
      <3>4. DdlType(s) = "RICH_TEXT"
        BY <1>2, <2>4, <3>3 DEF DdlType
      <3>5. QED
        BY <2>1, <2>2, <3>2, <3>4 DEF Takes, Wire, Scalar, Dates
    <2>5. CASE RoleOf(c) # "title" /\ ~(Cardinality(KindsOf(c)) > 1)
      <3>1. Resolved(c) = KindsOf(c)
        BY <1>3, <2>5 DEF Resolved, KindsOf
      <3>2. s.kind = KindOf(v).kind
        BY <1>2, <2>2, <3>1 DEF KindsOf
      <3>3. IF c \in wiring.dates THEN v \in Dates ELSE v \notin Dates
        BY <2>2 DEF Plain
      <3>4. s.kind = IF v \in Dates THEN "date" ELSE IF v = "lookalike" THEN "text" ELSE v
        BY <3>2, KindIs
      <3>5. DdlType(s) = IF v \in Dates THEN "DATE" ELSE
                         IF v \in {"text", "lookalike"} THEN "RICH_TEXT" ELSE
                         IF v = "number" THEN "NUMBER" ELSE
                         IF v = "checkbox" THEN "CHECKBOX" ELSE "MULTI_SELECT"
        BY <1>2, <2>2, <2>5, <3>4 DEF DdlType, Scalar, Dates
      <3>6. Wire(c, v) = IF v \in Dates THEN "date" ELSE
                         IF v = "text" THEN "text" ELSE IF v = "lookalike" THEN "lookalike" ELSE
                         IF v = "number" THEN "number" ELSE
                         IF v = "checkbox" THEN "yesno" ELSE "json"
        BY <2>1, <2>2, <3>3 DEF Wire, Scalar, Dates
      <3>7. QED
        BY <2>1, <2>2, <3>5, <3>6 DEF Takes, Scalar, Dates
    <2>6. QED
      BY <2>3, <2>4, <2>5
  <1>8. QED
    BY <1>6, <1>7

\* What the service stores and refuses is described by the column's own field.
LEMMA TargetIs ==
  ASSUME Generated(tables[dsid]), NEW c \in Column
  PROVE  /\ TargetColumn(c) \subseteq FieldsOf(c)
         /\ Steady(c) => TargetColumn(c) # {} /\ NameNow(c) = c
         /\ c # wiring.synced =>
               /\ TargetColumn(c) = {f \in tables[dsid] : f.label = NameNow(c)}
               /\ Kept(c) => TargetColumn(c) # {}
  <1> DEFINE t == tables[dsid]
             F == FieldSpecs(t, c)
             n == CHOOSE l \in F : TRUE
  <1>1. \A f \in t : f.label \in {f.id, "renamed"}
    BY DEF Generated
  <1>2. \A f, g \in t : f.id = g.id \/ (f.label = "renamed" /\ g.label = "renamed") => f = g
    BY DEF Generated
  <1>3. c # "renamed"
    BY SchemaAssumption DEF SchemaAssumption
  <1>4. /\ TargetColumn(c) = {f \in t : f.label = IF c = wiring.synced THEN c ELSE NameNow(c)}
        /\ NameNow(c) = IF wiring.anchored /\ F # {} THEN n ELSE c
    BY DEF TargetColumn, NameNow
  <1>5. \A l : l \in F <=> \E g \in t : g.type \in {"SELECT", "MULTI_SELECT"} /\ g.id = c /\ l = g.label
    BY DEF FieldSpecs, ParseState
  <1>6. F # {} => n \in F
    OBVIOUS
  <1> HIDE DEF F, n
  <1>7. ASSUME NEW f \in t, f.label = NameNow(c) PROVE f \in FieldsOf(c)
    <2>1. CASE wiring.anchored /\ F # {}
      <3>1. PICK g \in t : g.id = c /\ n = g.label
        BY <1>5, <1>6, <2>1
      <3>2. f.label = g.label
        BY <1>4, <1>7, <2>1, <3>1
      <3>3. f.id = c
        BY <1>1, <1>2, <3>1, <3>2
      <3>4. QED
        BY <3>3 DEF FieldsOf
    <2>2. CASE ~(wiring.anchored /\ F # {})
      BY <1>1, <1>3, <1>4, <1>7, <2>2 DEF FieldsOf
    <2>3. QED
      BY <2>1, <2>2
  <1>8. TargetColumn(c) \subseteq FieldsOf(c)
    BY <1>1, <1>3, <1>4, <1>7 DEF FieldsOf
  <1>9. ASSUME NEW g \in FieldsOf(c), Kept(c) PROVE g.label = NameNow(c)
    <2>1. g \in t /\ g.id = c
      BY DEF FieldsOf
    <2>2. CASE wiring.anchored /\ F # {}
      <3>1. PICK h \in t : h.id = c /\ n = h.label
        BY <1>5, <1>6, <2>2
      <3>2. h = g
        BY <1>2, <2>1, <3>1
      <3>3. QED
        BY <1>4, <2>2, <3>1, <3>2
    <2>3. CASE ~(wiring.anchored /\ F # {})
      <3>1. g.label = c
        BY <1>5, <1>9, <2>1, <2>3 DEF Kept
      <3>2. QED
        BY <1>4, <2>3, <3>1
    <2>4. QED
      BY <2>2, <2>3
  <1>10. ASSUME Steady(c) PROVE TargetColumn(c) # {} /\ NameNow(c) = c
    <2>1. PICK g \in FieldsOf(c) : g \in t /\ g.label = c
      BY <1>10 DEF Steady, FieldsOf
    <2>2. Kept(c)
      BY <1>10 DEF Steady, Kept
    <2>3. NameNow(c) = c
      BY <1>9, <2>1, <2>2
    <2>4. QED
      BY <1>4, <2>1, <2>3
  <1>11. ASSUME c # wiring.synced, Kept(c) PROVE TargetColumn(c) # {}
    <2>1. PICK g \in FieldsOf(c) : g \in t
      BY <1>11 DEF Kept, FieldsOf
    <2>2. QED
      BY <1>4, <1>9, <1>11, <2>1
  <1>12. QED
    BY <1>4, <1>8, <1>10, <1>11

\* What follows from the wiring and the records stays as they do.
LEMMA WiringStays ==
  ASSUME UNCHANGED <<wiring, records, limit>>
  PROVE  /\ InferSchema' = InferSchema /\ KindsKnown' = KindsKnown /\ Sampling' = Sampling
         /\ Unwired' = Unwired
         /\ \A i, c : Form(i, c)' = Form(i, c) /\ Sendable(i, c)' = Sendable(i, c)
  <1>1. InferSchema' = InferSchema
    BY DEF InferSchema, ColumnFor, Resolved, RoleOf, Observed, Overrides, ShapesOf, Sampled
  <1>2. KindsKnown' = KindsKnown /\ Sampling' = Sampling /\ Unwired' = Unwired
    BY DEF KindsKnown, Overrides, Sampling, Unwired
  <1>3. \A i, c : Form(i, c)' = Form(i, c) /\ Sendable(i, c)' = Sendable(i, c)
    BY DEF Form, Sendable, Wire
  <1>4. QED
    BY <1>1, <1>2, <1>3

\* A configured table has columns, made from what was inferred.
LEMMA TableIs ==
  ASSUME TableInv, dsid # 0
  PROVE  /\ Generated(tables[dsid]) /\ Sampling /\ KindsKnown
         /\ dsid \in 1 .. Len(tables) /\ tables[dsid] # {} /\ tables[dsid] \subseteq Field
  <1>1. tables # <<>> /\ dsid \in 1 .. Len(tables) /\ tables \in Seq(SUBSET Field)
    BY EmptySeq DEF TableInv, TableTyped
  <1>2. Generated(tables[dsid]) /\ Sampling /\ KindsKnown
    BY <1>1 DEF TableInv, TableTyped, AllGenerated
  <1>3. tables[dsid] # {}
    BY <1>2, TypesOfColumns DEF Generated
  <1>4. QED
    BY <1>1, <1>2, <1>3, ElementOfSeq

\* What is sent of a record, to a session's knowledge, and what is refused of it.
LEMMA FormsAre ==
  ASSUME TableInv, dsid # 0, NEW i, NEW c \in Column
  PROVE  /\ Forms(i, c) \subseteq Sendable(i, c)
         /\ c # wiring.synced /\ (Steady(c) \/ (known = {f.label : f \in tables[dsid]} /\ Kept(c)))
              => Forms(i, c) = Sendable(i, c)
         /\ c \notin {wiring.synced} /\ known = {f.label : f \in tables[dsid]} /\ Forms(i, c) # {}
              => TargetColumn(c) # {}
  <1> DEFINE labels == {f.label : f \in tables[dsid]}
  <1>1. Generated(tables[dsid]) /\ tables[dsid] # {}
    BY TableIs
  <1>2. /\ TargetColumn(c) \subseteq FieldsOf(c)
        /\ Steady(c) => TargetColumn(c) # {} /\ NameNow(c) = c
        /\ c # wiring.synced => TargetColumn(c) = {f \in tables[dsid] : f.label = NameNow(c)}
        /\ c # wiring.synced /\ Kept(c) => TargetColumn(c) # {}
    BY <1>1, TargetIs
  <1>3. Forms(i, c) = {w \in {Form(i, c)} : w # "none" /\ (known = {} \/ NameNow(c) \in known)}
                        \cup (IF c = wiring.synced THEN {"date"} ELSE {})
    BY DEF Forms, Form
  <1>4. Steady(c) => known = {} \/ NameNow(c) \in known
    <2>1. Steady(c) => \E f \in tables[dsid] : f.id = c /\ f.label = c
      BY DEF Steady, FieldsOf
    <2>2. QED
      BY <1>2, <2>1 DEF TableInv, KnownIs
  <1>5. c # wiring.synced /\ known = labels /\ Kept(c) => NameNow(c) \in known
    BY <1>2
  <1>6. c # wiring.synced /\ known = labels /\ Forms(i, c) # {} => TargetColumn(c) # {}
    <2>1. labels # {}
      BY <1>1
    <2>2. QED
      BY <1>2, <1>3, <2>1
  <1>7. QED
    BY <1>3, <1>4, <1>5, <1>6 DEF Sendable

\* The record that is written is what the row and the refusals are about.
LEMMA WriteKept ==
  ASSUME TableInv, NEW i \in DOMAIN records, WriteSample(i)
  PROVE  TableInv'
  <1> DEFINE Chosen(c) == IF refused' # {} \/ Forms(i, c) = {} THEN "none"
                          ELSE CHOOSE w \in Forms(i, c) : TRUE
  <1>1. /\ dsid # 0 /\ refused' = {c \in Column : Refuses(i, c)} /\ written' = i /\ back' = Blank
        /\ cells' = [c \in Column |-> Chosen(c)]
        /\ informed' = (known = {f.label : f \in tables[dsid]})
        /\ UNCHANGED <<wiring, records, limit>> /\ UNCHANGED <<memory, dsid, inferred>>
        /\ UNCHANGED <<tables, known>>
    BY DEF WriteSample
  <1>2. /\ InferSchema' = InferSchema /\ KindsKnown' = KindsKnown /\ Sampling' = Sampling
        /\ Unwired' = Unwired
        /\ \A k, c : Form(k, c)' = Form(k, c) /\ Sendable(k, c)' = Sendable(k, c)
    BY <1>1, WiringStays
  <1>3. /\ AllGenerated' = AllGenerated /\ KnownIs' = KnownIs
        /\ \A c : FieldsOf(c)' = FieldsOf(c) /\ Kept(c)' = Kept(c) /\ Steady(c)' = Steady(c)
    BY <1>1, <1>2 DEF AllGenerated, Generated, FieldsOf, Kept, Steady, KnownIs
  <1>4. i \in Nat /\ i <= Len(records) /\ i # 0
    <2>1. records \in Seq([Column -> Shape])
      BY <1>1 DEF TableInv, TableTyped, Sampling
    <2>2. QED
      BY <2>1, LenProperties
  <1>5. Generated(tables[dsid])
    BY <1>1, TableIs
  <1>6. ASSUME NEW c \in Column
        PROVE  /\ Chosen(c) \in {"none"} \cup Forms(i, c)
               /\ Forms(i, c) \subseteq Sendable(i, c)
               /\ Sendable(i, c) \subseteq Wires /\ "none" \in Wires
    <2>1. Forms(i, c) # {} => (CHOOSE w \in Forms(i, c) : TRUE) \in Forms(i, c)
      OBVIOUS
    <2>2. Form(i, c) \in Wires
      BY DEF Form, Wire, Wires
    <2>3. QED
      BY <1>1, <2>1, <2>2, FormsAre DEF Sendable, Wires
  <1> HIDE DEF Chosen
  <1>7. cells' \in [Column -> Wires] /\ back' \in [Column -> Readings] /\ refused' \subseteq Column
    <2>1. Blank \in [Column -> Readings]
      BY DEF Blank, Readings
    <2>2. \A c \in Column : Chosen(c) \in Wires
      BY <1>6
    <2>3. QED
      BY <1>1, <2>1, <2>2
  <1>8. TableTyped'
    BY <1>1, <1>2, <1>4, <1>7 DEF TableInv, TableTyped
  <1>9. ASSUME NEW c \in Column
        PROVE  /\ c # wiring.synced => cells'[c] \in {"none", Form(i, c)}
               /\ c \in refused' =>
                     /\ Sendable(i, c) # {}
                     /\ \/ \E w \in Sendable(i, c), f \in FieldsOf(c) : ~Takes(f.type, w)
                        \/ ~Steady(c) /\ (c = wiring.synced \/ ~informed')
               /\ refused' = {} /\ c # wiring.synced /\ (Steady(c) \/ (informed' /\ Kept(c)))
                     => cells'[c] = Form(i, c)
    <2>1. cells'[c] = Chosen(c)
      BY <1>1
    <2>2. c # wiring.synced => \A w : w \in Sendable(i, c) <=> w = Form(i, c) /\ w # "none"
      BY DEF Sendable
    <2>3. c # wiring.synced => cells'[c] \in {"none", Form(i, c)}
      BY <1>6, <2>1, <2>2
    <2>4. ASSUME c \in refused'
          PROVE  /\ Sendable(i, c) # {}
                 /\ \/ \E w \in Sendable(i, c), f \in FieldsOf(c) : ~Takes(f.type, w)
                    \/ ~Steady(c) /\ (c = wiring.synced \/ ~informed')
      <3>1. PICK w \in Forms(i, c) : \A f \in TargetColumn(c) : ~Takes(f.type, w)
        BY <1>1, <2>4 DEF Refuses
      <3>2. w \in Sendable(i, c) /\ TargetColumn(c) \subseteq FieldsOf(c)
        BY <1>5, <1>6, TargetIs
      <3>3. CASE TargetColumn(c) # {}
        BY <3>1, <3>2, <3>3
      <3>4. CASE TargetColumn(c) = {}
        <4>1. ~Steady(c)
          BY <1>5, <3>4, TargetIs
        <4>2. c # wiring.synced => ~informed'
          BY <1>1, <3>1, <3>4, FormsAre
        <4>3. QED
          BY <3>2, <4>1, <4>2
      <3>5. QED
        BY <3>3, <3>4
    <2>5. ASSUME refused' = {}, c # wiring.synced, Steady(c) \/ (informed' /\ Kept(c))
          PROVE  cells'[c] = Form(i, c)
      <3>1. Forms(i, c) = Sendable(i, c)
        BY <1>1, <2>5, FormsAre
      <3>2. CASE Forms(i, c) = {}
        BY <2>1, <2>2, <2>5, <3>1, <3>2 DEF Chosen
      <3>3. CASE Forms(i, c) # {}
        <4>1. Chosen(c) \in Forms(i, c)
          BY <2>5, <3>3 DEF Chosen
        <4>2. QED
          BY <2>1, <2>2, <2>5, <3>1, <4>1
      <3>4. QED
        BY <3>2, <3>3
    <2>6. QED
      BY <2>3, <2>4, <2>5
  <1>10. Stored'
    BY <1>1, <1>2, <1>3, <1>9 DEF Stored
  <1>11. ReadBack'
    BY <1>1 DEF ReadBack, Blank
  <1>12. QED
    BY <1>3, <1>8, <1>10, <1>11 DEF TableInv

LEMMA TablesStart == ASSUME SchemaInit PROVE TableInv
  <1>1. Unwired /\ Overrides = {}
    BY DEF SchemaInit, Unwired, Overrides
  <1>2. tables \in Seq(SUBSET Field) /\ Len(tables) = 0
    BY EmptySeq DEF SchemaInit
  <1>3. cells \in [Column -> Wires] /\ back \in [Column -> Readings] /\ back = Blank
    BY DEF SchemaInit, Blank, Wires, Readings
  <1>4. MaxTables \in Nat
    BY SchemaAssumption DEF SchemaAssumption
  <1>5. Len(records) = 0
    BY EmptySeq DEF SchemaInit
  <1>6. TableTyped
    <2>1. /\ memory = 0 /\ dsid = 0 /\ refused = {} /\ written = 0 /\ inferred = {} /\ known = {}
          /\ tables = <<>> /\ records = <<>> /\ limit = 0
      BY DEF SchemaInit
    <2>2. informed \in BOOLEAN
      BY DEF SchemaInit
    <2>3. QED
      BY <1>1, <1>2, <1>3, <1>4, <1>5, <2>1, <2>2 DEF TableTyped
  <1>7. AllGenerated /\ KnownIs /\ Stored /\ ReadBack
    BY <1>2, <1>3 DEF SchemaInit, AllGenerated, KnownIs, Stored, ReadBack
  <1>8. QED
    BY <1>6, <1>7 DEF TableInv

\* The wiring is chosen once, before there is a table.
LEMMA WiringKept ==
  ASSUME TableInv, NEW w \in TableWirings, NEW rs \in Seq([Column -> Shape]), NEW n \in Nat,
         Apart(w), n <= Len(rs), WireTable(w, rs, n)
  PROVE  TableInv'
  <1>1. /\ Unwired /\ wiring' = w /\ records' = rs /\ limit' = n
        /\ UNCHANGED <<memory, dsid, inferred, tables, cells, refused, back, written>>
        /\ UNCHANGED <<known, informed>>
    BY DEF WireTable
  <1>2. /\ inferred = {} /\ tables = <<>> /\ Len(tables) = 0 /\ dsid = 0 /\ written = 0
        /\ memory = 0
    <2>1. inferred = {} /\ tables = <<>> /\ dsid \in Nat /\ dsid <= Len(tables)
      BY <1>1 DEF TableInv, TableTyped
    <2>2. Len(tables) = 0
      BY <2>1, EmptySeq
    <2>3. QED
      BY <2>1, <2>2 DEF TableInv, TableTyped
  <1>3. ~Unwired' /\ Sampling'
    BY <1>1, SchemaAssumption DEF Unwired, Sampling, TableWirings, SchemaAssumption, Nameless
  <1>4. Len(rs) \in Nat
    BY LenProperties
  <1>5. TableTyped'
    BY <1>1, <1>2, <1>3, <1>4 DEF TableInv, TableTyped
  <1>6. AllGenerated' /\ KnownIs' /\ Stored' /\ ReadBack'
    BY <1>1, <1>2 DEF TableInv, AllGenerated, KnownIs, Stored, ReadBack
  <1>7. QED
    BY <1>5, <1>6 DEF TableInv

\* A step that leaves tables, row and configuration alone leaves alone what is
\* said of them.
LEMMA RestStays ==
  ASSUME AllGenerated, Stored, ReadBack,
         UNCHANGED <<wiring, records, limit, tables, cells, refused, back, written, informed>>,
         dsid' = dsid \/ written = 0
  PROVE  AllGenerated' /\ Stored' /\ ReadBack'
  <1>1. /\ InferSchema' = InferSchema
        /\ \A i, c : Form(i, c)' = Form(i, c) /\ Sendable(i, c)' = Sendable(i, c)
    BY WiringStays
  <1>2. AllGenerated'
    BY <1>1 DEF AllGenerated, Generated
  <1>3. written # 0 => \A c : FieldsOf(c)' = FieldsOf(c) /\ Kept(c)' = Kept(c) /\ Steady(c)' = Steady(c)
    BY DEF FieldsOf, Kept, Steady
  <1>4. Stored'
    BY <1>1, <1>3 DEF Stored
  <1>5. QED
    BY <1>2, <1>4 DEF ReadBack

LEMMA GenerateKept == ASSUME TableInv, Generate PROVE TableInv'
  <1>1. /\ ~Unwired /\ inferred = {} /\ KindsKnown /\ memory' = dsid /\ inferred' = InferSchema
        /\ UNCHANGED <<wiring, records, limit, dsid, tables, cells, refused, back, written>>
        /\ UNCHANGED <<known, informed>>
    BY DEF Generate, KindsKnown
  <1>2. Sampling
    BY <1>1 DEF TableInv, TableTyped
  <1>3. InferSchema # {}
    BY <1>1, <1>2, TypesOfColumns
  <1>4. TableTyped'
    BY <1>1, <1>2, <1>3, WiringStays DEF TableInv, TableTyped
  <1>5. KnownIs'
    BY <1>1 DEF TableInv, KnownIs
  <1>6. QED
    BY <1>1, <1>4, <1>5, RestStays DEF TableInv

\* A session reads what columns the table has, or finds that it cannot.
LEMMA ReadColumnsKept == ASSUME TableInv, ReadColumns PROVE TableInv'
  <1> DEFINE labels == {f.label : f \in tables[dsid]}
  <1>1. /\ dsid # 0 /\ known' \in {labels, {}}
        /\ UNCHANGED <<wiring, records, limit, memory, dsid, inferred>>
        /\ UNCHANGED <<tables, informed, cells, refused, back, written>>
    BY DEF ReadColumns
  <1>2. labels \subseteq Column \cup {"renamed"}
    BY <1>1, TableIs DEF Field
  <1>3. KnownIs'
    <2>1. ASSUME NEW f \in tables[dsid], f.label = f.id PROVE f.id \in labels
      BY <2>1
    <2>2. QED
      BY <1>1, <2>1 DEF KnownIs
  <1> HIDE DEF labels
  <1>4. TableTyped'
    BY <1>1, <1>2, WiringStays DEF TableInv, TableTyped
  <1>5. QED
    BY <1>1, <1>3, <1>4, RestStays DEF TableInv

LEMMA EndKept == ASSUME TableInv, EndGenerate PROVE TableInv'
  <1>1. /\ inferred # {} /\ memory # 0 /\ inferred' = {} /\ memory' = 0 /\ dsid' \in {dsid, memory}
        /\ known' = {}
        /\ UNCHANGED <<wiring, records, limit, tables, cells, refused, back, written, informed>>
    BY DEF EndGenerate
  <1>2. ~Unwired /\ (dsid # 0 => dsid' = dsid) /\ (dsid' = dsid \/ written = 0)
    BY <1>1 DEF TableInv, TableTyped
  <1>3. TableTyped'
    BY <1>1, <1>2, WiringStays DEF TableInv, TableTyped
  <1>4. KnownIs'
    BY <1>1 DEF KnownIs
  <1>5. QED
    BY <1>1, <1>2, <1>3, <1>4, RestStays DEF TableInv

LEMMA RowReadKept == ASSUME TableInv, ReadRow PROVE TableInv'
  <1>1. /\ written # 0 /\ back' \in [Column -> Readings]
        /\ UNCHANGED <<wiring, records, limit, memory, dsid, inferred, tables, cells, refused, written>>
        /\ UNCHANGED <<known, informed>>
    BY DEF ReadRow, Readings
  <1>2. ASSUME NEW c \in Column, cells[c] # "none" PROVE back'[c] \in DecodeValue(cells[c])
    BY <1>2 DEF ReadRow, RowsFromResult
  <1>3. TableTyped'
    BY <1>1, WiringStays DEF TableInv, TableTyped
  <1>4. AllGenerated' /\ KnownIs' /\ Stored'
    <2>1. /\ InferSchema' = InferSchema
          /\ \A i, c : Form(i, c)' = Form(i, c) /\ Sendable(i, c)' = Sendable(i, c)
      BY <1>1, WiringStays
    <2>2. AllGenerated' /\ KnownIs'
      BY <1>1, <2>1 DEF TableInv, AllGenerated, Generated, KnownIs
    <2>3. \A c : FieldsOf(c)' = FieldsOf(c) /\ Kept(c)' = Kept(c) /\ Steady(c)' = Steady(c)
      BY <1>1 DEF FieldsOf, Kept, Steady
    <2>4. QED
      BY <1>1, <2>1, <2>2, <2>3 DEF TableInv, Stored
  <1>5. ReadBack'
    BY <1>1, <1>2 DEF ReadBack
  <1>6. QED
    BY <1>3, <1>4, <1>5 DEF TableInv

\* A new table is what was inferred; there is none configured then.
LEMMA EnsureKept == ASSUME TableInv, EnsureSchema PROVE TableInv'
  <1> DEFINE t == CreateColumns(inferred)
  <1>1. /\ inferred # {} /\ memory = 0 /\ Len(tables) < MaxTables /\ tables' = Append(tables, t)
        /\ \/ memory' = Len(tables') /\ inferred' = inferred
           \/ memory' = 0 /\ inferred' = {}
        /\ UNCHANGED <<wiring, records, limit, dsid, cells, refused, back, written>>
        /\ UNCHANGED <<known, informed>>
    BY DEF EnsureSchema
  <1>2. /\ ~Unwired /\ Sampling /\ KindsKnown /\ inferred = InferSchema /\ dsid = 0 /\ written = 0
        /\ tables \in Seq(SUBSET Field)
    BY <1>1 DEF TableInv, TableTyped
  <1>3. \A f : f \in t <=> \E s \in InferSchema :
                               f = [id |-> s.name, label |-> s.name, type |-> DdlType(s)]
    BY <1>2 DEF CreateColumns
  <1> HIDE DEF t
  <1>4. /\ \A s \in InferSchema : s.name \in Column /\ DdlType(s) \in Types
        /\ \A s, u \in InferSchema : s.name = u.name => s = u
    BY <1>2, SchemaIs, TypesOfColumns
  <1>5. t \in SUBSET Field
    BY <1>3, <1>4 DEF Field
  <1>6. /\ tables' \in Seq(SUBSET Field) /\ Len(tables') = Len(tables) + 1
        /\ \A n \in 1 .. Len(tables) : tables'[n] = tables[n]
        /\ tables'[Len(tables) + 1] = t /\ Len(tables) \in Nat
    BY <1>1, <1>2, <1>5, AppendProperties, LenProperties
  <1>7. /\ InferSchema' = InferSchema /\ KindsKnown' = KindsKnown /\ Sampling' = Sampling
        /\ Unwired' = Unwired
    BY <1>1, WiringStays
  <1>8. TableTyped'
    BY <1>1, <1>2, <1>6, <1>7, SchemaAssumption DEF TableInv, TableTyped, SchemaAssumption
  <1>9. Generated(t)
    <2>1. ASSUME NEW f \in t
          PROVE  \E s \in InferSchema : f.id = s.name /\ f.type = DdlType(s) /\ f.label = f.id
      BY <1>3
    <2>2. ASSUME NEW s \in InferSchema PROVE \E f \in t : f.id = s.name
      <3>1. [id |-> s.name, label |-> s.name, type |-> DdlType(s)] \in t
        BY <1>3
      <3>2. QED
        BY <3>1
    <2>3. ASSUME NEW f \in t, NEW g \in t,
                 f.id = g.id \/ (f.label = "renamed" /\ g.label = "renamed")
          PROVE  f = g
      <3>1. PICK s \in InferSchema : f = [id |-> s.name, label |-> s.name, type |-> DdlType(s)]
        BY <1>3
      <3>2. PICK u \in InferSchema : g = [id |-> u.name, label |-> u.name, type |-> DdlType(u)]
        BY <1>3
      <3>3. s = u
        BY <1>4, <2>3, <3>1, <3>2
      <3>4. QED
        BY <3>1, <3>2, <3>3
    <2>4. QED
      BY <2>1, <2>2, <2>3 DEF Generated
  <1>10. AllGenerated'
    <2>1. ASSUME NEW n \in 1 .. Len(tables') PROVE Generated(tables'[n])
      BY <1>6, <1>9 DEF TableInv, AllGenerated
    <2>2. QED
      BY <1>7, <2>1 DEF AllGenerated, Generated
  <1>11. KnownIs' /\ Stored' /\ ReadBack'
    BY <1>1, <1>2 DEF TableInv, KnownIs, Stored, ReadBack
  <1>12. QED
    BY <1>8, <1>10, <1>11 DEF TableInv

\* A human gives one column another name, once.
LEMMA RenameKept == ASSUME TableInv, HumanRenames PROVE TableInv'
  <1> DEFINE t == tables[dsid]
  <1>1. /\ dsid # 0
        /\ UNCHANGED <<wiring, records, limit, memory, dsid, inferred, cells, refused, back, written>>
        /\ UNCHANGED <<known, informed>>
    BY DEF HumanRenames
  <1>2. PICK c \in t :
           /\ c.label = c.id
           /\ tables' = [tables EXCEPT ![dsid] = (t \ {c}) \cup {[c EXCEPT !.label = "renamed"]}]
           /\ \A e \in t : e.label # "renamed"
    BY DEF HumanRenames
  <1>3. PICK d : d = [c EXCEPT !.label = "renamed"]
    OBVIOUS
  <1> DEFINE u == (t \ {c}) \cup {d}
  <1>4. /\ tables \in Seq(SUBSET Field) /\ dsid \in 1 .. Len(tables) /\ tables # <<>> /\ ~Unwired
        /\ Len(tables) \in Nat
    <2>1. tables \in Seq(SUBSET Field) /\ dsid \in Nat /\ dsid <= Len(tables)
      BY DEF TableInv, TableTyped
    <2>2. Len(tables) \in Nat
      BY <2>1, LenProperties
    <2>3. tables # <<>>
      BY <1>1, <2>1, EmptySeq
    <2>4. QED
      BY <1>1, <2>1, <2>2, <2>3 DEF TableInv, TableTyped
  <1>5. t \subseteq Field
    BY <1>4, ElementOfSeq
  <1>6. d \in Field /\ d.id = c.id /\ d.label = "renamed" /\ d.type = c.type
    BY <1>3, <1>5 DEF Field
  <1>7. /\ tables' \in Seq(SUBSET Field) /\ Len(tables') = Len(tables)
        /\ tables'[dsid] = u /\ \A n \in 1 .. Len(tables) : n # dsid => tables'[n] = tables[n]
    <2>1. u \in SUBSET Field /\ tables' = [tables EXCEPT ![dsid] = u]
      BY <1>2, <1>3, <1>5, <1>6
    <2> HIDE DEF u
    <2>2. QED
      BY <1>4, <2>1, LenProperties, ExceptSeq
  <1>8. \A f : f \in u <=> f = d \/ (f \in t /\ f # c)
    OBVIOUS
  <1>9. Generated(t)
    BY <1>4 DEF TableInv, AllGenerated
  <1> HIDE DEF t, u
  <1>10. Generated(u)
    <2>1. ASSUME NEW f \in u
          PROVE  \E s \in InferSchema : f.id = s.name /\ f.type = DdlType(s)
                                        /\ f.label \in {f.id, "renamed"}
      <3>1. PICK g \in t : f.id = g.id /\ f.type = g.type /\ f.label \in {g.label, "renamed"}
        BY <1>2, <1>6, <1>8
      <3>2. QED
        BY <1>9, <3>1 DEF Generated
    <2>2. ASSUME NEW s \in InferSchema PROVE \E f \in u : f.id = s.name
      BY <1>6, <1>8, <1>9 DEF Generated
    <2>3. ASSUME NEW f \in u, NEW g \in u,
                 f.id = g.id \/ (f.label = "renamed" /\ g.label = "renamed")
          PROVE  f = g
      BY <1>2, <1>6, <1>8, <1>9, <2>3 DEF Generated
    <2>4. QED
      BY <2>1, <2>2, <2>3 DEF Generated
  <1>11. /\ InferSchema' = InferSchema /\ KindsKnown' = KindsKnown /\ Sampling' = Sampling
         /\ Unwired' = Unwired
         /\ \A i, k : Form(i, k)' = Form(i, k) /\ Sendable(i, k)' = Sendable(i, k)
    BY <1>1, WiringStays
  <1>12. TableTyped'
    BY <1>1, <1>4, <1>7, <1>11 DEF TableInv, TableTyped
  <1>13. AllGenerated'
    <2>1. ASSUME NEW n \in 1 .. Len(tables') PROVE Generated(tables'[n])
      BY <1>7, <1>10 DEF TableInv, AllGenerated
    <2>2. QED
      BY <1>11, <2>1 DEF AllGenerated, Generated
  <1>14. ASSUME NEW k \in Column
         PROVE  /\ \A f \in FieldsOf(k) : \E g \in FieldsOf(k)' : g.type = f.type
                /\ Kept(k)' => Kept(k)
                /\ Steady(k)' => Steady(k)
    <2>1. \A f : f \in FieldsOf(k) <=> f \in t /\ f.id = k
      BY DEF FieldsOf, t
    <2>2. \A f : f \in FieldsOf(k)' <=> f \in u /\ f.id = k
      BY <1>1, <1>7 DEF FieldsOf
    <2>3. \A f \in FieldsOf(k) : \E g \in FieldsOf(k)' : g.type = f.type
      BY <1>6, <1>8, <2>1, <2>2
    <2>4. FieldsOf(k)' # {} => FieldsOf(k) # {}
      BY <1>2, <1>6, <1>8, <2>1, <2>2
    <2>5. \A f \in FieldsOf(k) : f.label = k \/ f \in FieldsOf(k)'
      BY <1>2, <1>8, <2>1, <2>2
    <2>6. Kept(k)' => Kept(k)
      BY <1>1, <2>4, <2>5 DEF Kept
    <2>7. Steady(k)' => Steady(k)
      BY <2>4, <2>5 DEF Steady
    <2>8. QED
      BY <2>3, <2>6, <2>7
  <1>15. Stored'
    <2>1. ASSUME NEW k \in Column, written # 0
          PROVE  /\ k # wiring.synced => cells[k] \in {"none", Form(written, k)}
                 /\ k \in refused =>
                       /\ Sendable(written, k) # {}
                       /\ \/ \E w \in Sendable(written, k), f \in FieldsOf(k)' : ~Takes(f.type, w)
                          \/ ~Steady(k)' /\ (k = wiring.synced \/ ~informed)
                 /\ refused = {} /\ k # wiring.synced /\ (Steady(k)' \/ (informed /\ Kept(k)'))
                       => cells[k] = Form(written, k)
      BY <1>14, <2>1 DEF TableInv, Stored
    <2>2. QED
      BY <1>1, <1>11, <2>1 DEF Stored
  <1>16. KnownIs'
    <2>1. ASSUME NEW f \in u, f.label = f.id PROVE f \in t
      BY <1>5, <1>6, <1>8, <2>1, SchemaAssumption DEF SchemaAssumption, Field
    <2>2. QED
      BY <1>1, <1>7, <2>1 DEF TableInv, KnownIs, t
  <1>17. ReadBack'
    BY <1>1 DEF TableInv, ReadBack
  <1>18. QED
    BY <1>12, <1>13, <1>15, <1>16, <1>17 DEF TableInv

LEMMA TablesStutter == ASSUME TableInv, UNCHANGED schemaVars PROVE TableInv'
  <1>1. /\ UNCHANGED <<wiring, records, limit, memory, dsid, inferred, tables>>
        /\ UNCHANGED <<known, informed, cells, refused, back, written>>
    BY DEF schemaVars
  <1>2. TableTyped'
    BY <1>1, WiringStays DEF TableInv, TableTyped
  <1>3. KnownIs'
    BY <1>1 DEF TableInv, KnownIs
  <1>4. QED
    BY <1>1, <1>2, <1>3, RestStays DEF TableInv

LEMMA TablesAlways == AnyTableSpec => []TableInv
  <1>1. SchemaInit => TableInv
    BY TablesStart
  <1>2. TableInv /\ [AnyTableStep]_schemaVars => TableInv'
    BY WiringKept, GenerateKept, EnsureKept, EndKept, RenameKept, ReadColumnsKept, WriteKept,
       RowReadKept, TablesStutter
       DEF AnyTableStep
  <1>3. QED
    BY <1>1, <1>2, PTL DEF AnyTableSpec

\* A configured table has one title.
LEMMA OneTitle ==
  ASSUME TableInv, dsid # 0
  PROVE  Cardinality({f \in tables[dsid] : f.type = "TITLE"}) = 1
  <1>1. Generated(tables[dsid]) /\ Sampling /\ KindsKnown
    BY TableIs
  <1>2. PICK s \in InferSchema : s.name = wiring.title
    BY <1>1, TypesOfColumns
  <1>3. PICK f \in tables[dsid] : f.id = wiring.title
    BY <1>1, <1>2 DEF Generated
  <1>4. \A g \in tables[dsid] : g.type = "TITLE" <=> g.id = wiring.title
    BY <1>1, TypesOfColumns DEF Generated
  <1>5. {g \in tables[dsid] : g.type = "TITLE"} = {f}
    BY <1>1, <1>3, <1>4 DEF Generated
  <1>6. QED
    BY <1>5, FS_Singleton

\* A record of the sample and the table made from it.
LEMMA RecordFits ==
  ASSUME TableInv, dsid # 0, NEW c \in Column, written \in 1 .. limit, Plain(c)
  PROVE  LET v == records[written][c]
             f == {g \in tables[dsid] : g.id = c}
             kept == \A g \in f : g.label = c
             followed == informed /\ wiring.anchored /\ \A g \in f : g.type = "MULTI_SELECT"
         IN /\ kept \/ (informed /\ RoleOf(c) # "synced") => c \notin refused
            /\ v \notin {"absent", "none"} => f # {}
            /\ refused = {} /\ v \notin {"absent", "none"} /\ (kept \/ followed)
                  => cells[c] # "none"
            /\ back # Blank /\ cells[c] # "none" /\ v # "lookalike" /\ RoleOf(c) # "synced"
                  => back[c] = IF v \in {"checkbox", "multi_select"} THEN v ELSE "text"
  <1> DEFINE v == records[written][c]
             f == {g \in tables[dsid] : g.id = c}
             kept == \A g \in f : g.label = c
             followed == informed /\ wiring.anchored /\ \A g \in f : g.type = "MULTI_SELECT"
  <1>1. Generated(tables[dsid]) /\ Sampling /\ KindsKnown /\ written # 0
    <2>1. written # 0
      BY DEF Sampling
    <2>2. QED
      BY <2>1, TableIs
  <1>2. f = FieldsOf(c)
    BY DEF FieldsOf
  <1>3. Form(written, c) = Wire(c, v)
    BY DEF Form
  <1>4. c = wiring.synced <=> RoleOf(c) = "synced"
    BY <1>1, SchemaAssumption DEF RoleOf, Sampling, Apart, SchemaAssumption, Nameless
  <1>5. v \notin {"absent", "none"} => v \in ShapesOf(c) /\ v \in Scalar /\ c \in Observed
    BY <1>1, SampleIs
  <1> HIDE DEF v, f
  <1>6. ASSUME NEW s \in InferSchema, s.name = c PROVE f # {}
    BY <1>1, <1>2, <1>6 DEF Generated, FieldsOf
  <1>7. ASSUME v \notin {"absent", "none"} PROVE f # {} /\ c # wiring.synced
    <2>1. ~(\E o \in Overrides : o.column = c)
      BY DEF Plain
    <2>2. KindOf(v) \in KindsOf(c)
      BY <1>5, <1>7 DEF KindsOf
    <2>3. Resolved(c) # {}
      BY <2>1, <2>2 DEF Resolved, KindsOf
    <2>4. PICK s \in InferSchema : s.name = c
      BY <1>1, <1>5, <1>7, <2>3, OneColumn, SchemaIs
    <2>5. c # wiring.synced
      BY <1>4, <1>5, <1>7 DEF Plain
    <2>6. QED
      BY <1>6, <2>4, <2>5
  <1>8. ASSUME Sendable(written, c) # {} PROVE f # {}
    <2>1. CASE c = wiring.synced
      <3>1. ColumnFor(c) # {} /\ ColumnFor(c) \subseteq InferSchema
        BY <1>1, <1>4, <2>1, OneColumn, SchemaIs, SchemaAssumption DEF SchemaAssumption, Nameless
      <3>2. PICK s \in InferSchema : s.name = c
        BY <1>1, <3>1, OneColumn
      <3>3. QED
        BY <1>6, <3>2
    <2>2. CASE c # wiring.synced
      <3>1. Wire(c, v) # "none"
        BY <1>3, <1>8, <2>2 DEF Sendable
      <3>2. QED
        BY <1>7, <3>1 DEF Wire
    <2>3. QED
      BY <2>1, <2>2
  <1>9. ASSUME kept \/ (informed /\ RoleOf(c) # "synced") PROVE c \notin refused
    <2> SUFFICES ASSUME c \in refused PROVE FALSE
      OBVIOUS
    <2>1. /\ Sendable(written, c) # {}
          /\ \/ \E w \in Sendable(written, c), g \in FieldsOf(c) : ~Takes(g.type, w)
             \/ ~Steady(c) /\ (c = wiring.synced \/ ~informed)
      BY <1>1 DEF TableInv, Stored
    <2>2. \A w \in Sendable(written, c), g \in FieldsOf(c) : Takes(g.type, w)
      <3>1. ASSUME NEW w \in Sendable(written, c), NEW g \in FieldsOf(c) PROVE Takes(g.type, w)
        <4>1. PICK s \in InferSchema : g.id = s.name /\ g.type = DdlType(s)
          BY <1>1 DEF Generated, FieldsOf
        <4>2. s.name = c
          BY <4>1 DEF FieldsOf
        <4>3. QED
          BY <1>1, <4>1, <4>2, ValueTaken
      <3>2. QED
        BY <3>1
    <2>3. ~Steady(c) /\ kept
      BY <1>4, <1>9, <2>1, <2>2
    <2>4. QED
      BY <1>2, <1>8, <2>1, <2>3 DEF Steady
  <1>10. ASSUME refused = {}, v \notin {"absent", "none"}, kept \/ followed
         PROVE  cells[c] # "none"
    <2>1. f # {} /\ c # wiring.synced
      BY <1>7, <1>10
    <2>2. Steady(c) \/ (informed /\ Kept(c))
      BY <1>2, <1>10, <2>1 DEF Steady, Kept
    <2>3. cells[c] = Wire(c, v)
      BY <1>1, <1>3, <1>10, <2>1, <2>2 DEF TableInv, Stored
    <2>4. Wire(c, v) # "none"
      BY <1>5, <1>10 DEF Wire, Scalar
    <2>5. QED
      BY <2>3, <2>4
  <1>11. ASSUME back # Blank, cells[c] # "none", v # "lookalike", RoleOf(c) # "synced"
         PROVE  back[c] = IF v \in {"checkbox", "multi_select"} THEN v ELSE "text"
    <2>1. cells[c] = Wire(c, v) /\ back[c] \in DecodeValue(Wire(c, v))
      BY <1>1, <1>3, <1>4, <1>11 DEF TableInv, Stored, ReadBack
    <2>2. v \notin {"absent", "none"}
      BY <1>11, <2>1 DEF Wire
    <2>3. v \in Scalar /\ IF c \in wiring.dates THEN v \in Dates ELSE v \notin Dates
      BY <1>5, <2>2 DEF Plain
    <2>4. Wire(c, v) = IF v \in Dates THEN "date" ELSE IF v = "text" THEN "text" ELSE
                       IF v = "number" THEN "number" ELSE
                       IF v = "checkbox" THEN "yesno" ELSE "json"
      BY <1>11, <2>2, <2>3 DEF Wire, Scalar, Dates
    <2>5. QED
      BY <1>11, <2>1, <2>3, <2>4 DEF DecodeValue, Scalar, Dates
  <1> HIDE DEF kept, followed
  <1>12. QED
    BY <1>7, <1>9, <1>10, <1>11 DEF v, f, kept, followed

\* The table generated from a sample takes every record of the sample, whatever
\* the wiring and the records: with any columns, any number of tables.
THEOREM TablesFit == AnyTableSpec => []SchemaFits
  <1>1. ASSUME TableInv, dsid # 0 PROVE \A c, d \in tables[dsid] : c.id = d.id => c = d
    BY <1>1, TableIs DEF Generated
  <1>2. TableInv => SchemaFits
    BY <1>1, OneTitle, RecordFits DEF SchemaFits
  <1>3. QED
    BY <1>2, TablesAlways, PTL

-----------------------------------------------------------------------------
\* The lists of the run are among all of them.
LEMMA AnyList == ASSUME ReadLists PROVE AnyRead
  <1>1. ASSUME NEW r \in Readers, NEW k \in Odd(r) \cup {"plain"}
        PROVE  [i \in Item |-> IF i = 2 THEN k ELSE "plain"] \in [Item -> Marks]
    BY DEF Odd, Marks
  <1>2. {{}, {1, 2}, {4}, {1, 2, 3}} \subseteq SUBSET Item /\ {Item, {2, 3, 4, 5}} \subseteq SUBSET Item
    BY InputsAssumption DEF InputsAssumption
  <1>3. QED
    BY <1>1, <1>2 DEF ReadLists, AnyRead

\* So are its wirings and its samples.
LEMMA AnyTable == ASSUME MakeTable PROVE AnyTableStep
  <1>1. {"Name", "Key", "Prop", "Stamp"} \subseteq Column
    BY InputsAssumption DEF InputsAssumption
  <1>2. ASSUME NEW o \in {"Prop", Nameless}, NEW d \in {{}, {"Prop"}}, NEW k \in {"Key", Nameless},
               NEW a \in BOOLEAN
        PROVE  WiringOf(k, o, d, a) \in TableWirings /\ Apart(WiringOf(k, o, d, a))
    <2>1. /\ "Name" \in Column /\ k \in Column \cup {Nameless} /\ "Stamp" \in Column
          /\ d \in SUBSET Column /\ o \in Column \cup {Nameless}
      BY <1>1
    <2>2. [column |-> o, kind |-> "select"] \in [column : Column \cup {Nameless}, kind : Kinds]
      BY <2>1 DEF Kinds
    <2>3. WiringOf(k, o, d, a) \in TableWirings
      BY <2>1, <2>2, Zenon DEF WiringOf, TableWirings
    <2>4. Apart(WiringOf(k, o, d, a))
      BY DEF WiringOf, Apart, Nameless
    <2>5. QED
      BY <2>3, <2>4
  <1>3. ASSUME NEW p \in Shape, NEW q \in {"absent", "text", "checkbox", "datetime"},
               NEW s \in {"absent", "text"}, NEW n \in 1 .. 2
        PROVE  SampleOf(p, q, s) \in Seq([Column -> Shape]) /\ n <= Len(SampleOf(p, q, s))
    <2>1. PICK f, g : /\ f = [c \in Column |-> CASE c = "Prop" -> p [] c = "Stamp" -> s
                                                  [] OTHER -> "text"]
                      /\ g = [[c \in Column |-> "absent"] EXCEPT !["Name"] = "text",
                                                   !["Key"] = "text", !["Prop"] = q]
      OBVIOUS
    <2>2. f \in [Column -> Shape]
      BY <2>1 DEF Shape, Scalar
    <2>3. g \in [Column -> Shape]
      BY <2>1 DEF Shape, Scalar
    <2>4. SampleOf(p, q, s) = <<f, g>>
      BY <2>1 DEF SampleOf
    <2>5. QED
      BY <2>2, <2>3, <2>4
  <1>4. ASSUME NEW p \in Shape, NEW q \in {"absent", "text", "checkbox", "datetime"},
               NEW s \in {"absent", "text"}, NEW d \in {{}, {"Prop"}}, NEW n \in 1 .. 2,
               NEW k \in {"Key", Nameless},
               WireTable(WiringOf(k, IF q = "checkbox" THEN "Prop" ELSE Nameless, d,
                                  p = "multi_select"), SampleOf(p, q, s), n)
        PROVE  AnyTableStep
    <2>1. PICK o \in {"Prop", Nameless} : o = IF q = "checkbox" THEN "Prop" ELSE Nameless
      OBVIOUS
    <2>2. PICK a \in BOOLEAN : a = (p = "multi_select")
      OBVIOUS
    <2>3. PICK w, r : w = WiringOf(k, o, d, a) /\ r = SampleOf(p, q, s)
      OBVIOUS
    <2>4. WireTable(w, r, n)
      BY <1>4, <2>1, <2>2, <2>3, Zenon
    <2>5. w \in TableWirings /\ Apart(w)
      BY <1>2, <2>3
    <2>6. r \in Seq([Column -> Shape]) /\ n <= Len(r)
      BY <1>3, <2>3
    <2>7. QED
      BY <2>4, <2>5, <2>6 DEF AnyTableStep
  <1>5. CASE Generate \/ EnsureSchema \/ EndGenerate \/ HumanRenames \/ ReadColumns
             \/ (\E i \in DOMAIN records : WriteSample(i)) \/ ReadRow
    BY <1>5 DEF AnyTableStep
  <1>6. QED
    BY <1>4, <1>5 DEF MakeTable

\* What is proved of the parts for any inputs holds of the behaviours that TLC
\* looks at: each is one of every part, with the inputs the run chooses.
THEOREM PartsImplemented ==
  Spec => AnyReadSpec /\ AnyRowsSpec /\ AnyUnitsSpec /\ AnyTableSpec /\ UpsertSpec /\ FileSpec
  <1>1. Init => PagingInit /\ RowsInit /\ UnitsInit /\ SchemaInit /\ UpsertInit /\ FileInit
    BY DEF Init
  <1>2. [Next]_vars => /\ [AnyRead]_pagingVars /\ [AnyRowStep]_rowVars /\ [AnyUnitStep]_unitVars
                       /\ [AnyTableStep]_schemaVars /\ [UpsertNext]_upsertVars
                       /\ [FileNext]_fileVars
    BY Parted, AnyList, AnyPlan, AnyWiring, AnyTable
  <1>3. QED
    BY <1>1, <1>2, PTL
       DEF Spec, AnyReadSpec, AnyRowsSpec, AnyUnitsSpec, AnyTableSpec, UpsertSpec, FileSpec

\* The specs of units are records of a key and what to fetch.
LEMMA SpecTyped ==
  ASSUME NEW u \in Unit, NEW b \in BOOLEAN
  PROVE  DOMAIN SpecOf(u, b) = {"key", "params"}
  <1>1. PICK k : InnerSpec(u) = [key |-> k, params |-> Params(u)]
    BY InnerKey
  <1>2. DOMAIN InnerSpec(u) = {"key", "params"}
    BY <1>1
  <1>3. QED
    BY <1>2 DEF SpecOf, Qualified

\* Every variable of every part keeps its type; the parts' own invariants say more.
THEOREM ConnectorsTypeCorrect == Spec => []TypeOK
  <1> DEFINE UnitTyped == /\ script \in {"idle", "running", "done"}
                          /\ worker \in {"down", "polling", "refused"}
                          /\ turns \in Nat /\ turns <= MaxTurns
             Kind == part \in Parts /\ CallsInv /\ UnitTyped
  <1>1. Init => Kind
    BY CallsStart, UnitsAssumption DEF Init, UnitsInit, UnitsAssumption
  <1>2. Kind /\ [Next]_vars => Kind'
    <2> SUFFICES ASSUME Kind, [Next]_vars PROVE Kind'
      OBVIOUS
    <2>1. part' = part
      BY DEF Next, vars
    <2>2. CallsInv'
      BY CallsKept, CallsStutter, Parted
    <2>3. ASSUME RunUnits PROVE UnitTyped'
      <3>1. Turn => turns' \in Nat /\ turns' <= MaxTurns
        BY UnitsAssumption DEF Turn, UnitsAssumption
      <3>2. ASSUME NEW c, WireApp(c) PROVE UnitTyped'
        BY <3>1, <3>2 DEF WireApp
      <3>3. CASE RunScript
        BY <3>1, <3>3 DEF RunScript
      <3>4. CASE StartWorkflow
        BY <3>4 DEF StartWorkflow
      <3>5. CASE ScriptDies
        BY <3>5 DEF ScriptDies
      <3>6. CASE MakeWorker
        BY <3>6 DEF MakeWorker
      <3>7. CASE StopWorker
        BY <3>1, <3>7 DEF StopWorker
      <3>8. CASE FetchPage
        BY <3>8 DEF FetchPage
      <3> HIDE DEF UnitTyped
      <3>9. QED
        BY <2>3, <3>2, <3>3, <3>4, <3>5, <3>6, <3>7, <3>8 DEF RunUnits
    <2>4. UnitTyped'
      BY <2>3, Parted DEF unitVars
    <2>5. QED
      BY <2>1, <2>2, <2>4
  <1>3. RowInv => RowsTypeOK
    BY RowsAssumption DEF RowInv, RowTyped, RowsTypeOK, Plans, Value, Unconfigured, RowsAssumption
  <1>4. ASSUME UnitInv, UnitTyped PROVE UnitsTypeOK
    <2>1. \A r \in running : DOMAIN r = {"id", "spec"}
      BY <1>4 DEF UnitInv, ForUnits, Started
    <2>2. \A s \in todo : DOMAIN s = {"key", "params"}
      BY <1>4, SpecTyped DEF UnitInv, ForUnits, Wired, Specs
    <2>3. resolved = Nothing \/ \E v \in UnitName : resolved = <<"ds", v>>
      <3>1. ASSUME NEW u \in Unit, u.source = "notion"
            PROVE  Content(u) = <<"ds", u.about>> /\ u.about \in UnitName
        BY <3>1, UnitParts DEF UnitKinds, Content
      <3>2. QED
        BY <1>4, <3>1 DEF UnitInv, ForUnits
    <2>4. QED
      BY <1>4, <2>1, <2>2, <2>3, UnitsAssumption
         DEF UnitInv, ForUnits, Wired, UnitsTypeOK, UnitsAssumption
  <1>5. ASSUME TableInv PROVE SchemaTypeOK
    <2>1. \A i \in DOMAIN records : records[i] \in [Column -> Shape]
      <3>1. CASE Unwired
        BY <1>5, <3>1 DEF TableInv, TableTyped
      <3>2. CASE ~Unwired
        BY <1>5, <3>2, ElementOfSeq, LenProperties DEF TableInv, TableTyped, Sampling
      <3>3. QED
        BY <3>1, <3>2
    <2>2. Len(records) \in Nat /\ Len(tables) \in Nat /\ limit \in Nat
      BY <1>5, LenProperties, EmptySeq DEF TableInv, TableTyped, Sampling
    <2>3. QED
      BY <1>5, <2>1, <2>2 DEF TableInv, TableTyped, SchemaTypeOK
  <1>6. CallsInv => CallsTypeOK
    BY CallsAssumption DEF CallsInv, CallTyped, CallsTypeOK, CallsAssumption
  <1> HIDE DEF UnitTyped
  <1>7. QED
    BY <1>1, <1>2, <1>3, <1>4, <1>5, <1>6, PartsImplemented, RowsAlways, UnitsAlways, TablesAlways,
       PagingTypeCorrect, UpsertTypeCorrect, FileTypeCorrect, PTL DEF Spec, TypeOK

\* Every safety property that the run checks of the parts holds of its behaviours.
THEOREM ConnectorsSafe ==
  Spec => /\ [](SteadyItemsRead /\ TargetedRead /\ FoundAgain /\ RowShowsSource /\ EveryUnitRuns
                /\ UnitsServed /\ SchemaFits /\ CallTells /\ CredentialFileSound)
          /\ SeedsSurvive /\ NoLostEdit /\ PublishesOwn
  BY PartsImplemented, SteadyAlwaysRead, TargetedAlwaysRead, FoundAgainAlways, ShowsSource,
     SeedsAlwaysSurvive, UnitsAllRun, UnitsAllServed, TablesFit, CallsTell, CredentialFileHolds,
     LockedImplemented, PublishesOwnHolds, PTL
=============================================================================
