----------------------------- MODULE SourceSync -----------------------------
(***************************************************************************)
(* SourceSyncWorkflow (workflows/sync.py): the long-lived workflow that    *)
(* keeps one source unit mirrored into the destination.                    *)
(*                                                                         *)
(* The workflow runs on Temporal's single-threaded event loop, so one      *)
(* action of this module is the code between two awaits.  Signal handlers  *)
(* are plain functions: each is one action and may come at every await.    *)
(* An activity is executed outside the workflow in one or more attempts;   *)
(* its final outcome sits in `reply` until the workflow task delivers it,  *)
(* so signals and environment steps can come between the two.              *)
(*                                                                         *)
(* Records are abstracted to versions of items (see Mirror): a fetch       *)
(* captures the versions the source shows, an upsert writes the versions   *)
(* captured.  How an upsert finds its rows is SyncRecords' subject, how    *)
(* pages are cut out of a changing source is Paging's.                     *)
(*                                                                         *)
(* The server gives an attempt up when its heartbeat or its time is over,  *)
(* but only the worker can end it: until the cancellation reaches it the   *)
(* coroutine goes on down its chunk, beside the retry and later runs.      *)
(***************************************************************************)
EXTENDS Naturals, Integers, FiniteSets

CONSTANTS
    Item,          \* what a SourceSpec enumerates: repos, issues, rows ...
    ChunkSize,     \* _SYNC_CHUNK_SIZE
    AskLimit,      \* how many of the items it names a targeted fetch returns at
                   \* least: one page in connectors/jira and connectors/youtube
    KeepsOrder,    \* are the pages of a full listing cut out of one order?
    MaxAttempts,   \* RetryPolicy(maximum_attempts = ...)
    Minutes,       \* the inputs of the set_interval signal
    MaxVersion,    \* bound on the edits of one item
    MaxSignals,    \* bound on the signals of a behaviour
    MaxFaults,     \* bound on transient faults and credential revocations
    RunsCap        \* runs_completed is counted up to here

ASSUME SourceSyncConstants ==
    /\ IsFiniteSet(Item)
    /\ ChunkSize \in Nat \ {0}
    /\ AskLimit \in Nat \ {0}
    /\ KeepsOrder \in BOOLEAN
    /\ MaxAttempts \in Nat \ {0}
    /\ Minutes \subseteq Int
    /\ MaxVersion \in Nat \ {0}
    /\ MaxSignals \in Nat
    /\ MaxFaults \in Nat
    /\ RunsCap \in Nat \ {0}

VARIABLES
    \* -- SourceState and the attributes of the workflow object
    pc,             \* which await the coroutine is suspended at
    paused,         \* _state.paused
    interval,       \* _state.spec.interval_minutes
    runsCompleted,  \* _state.runs_completed, up to RunsCap
    syncRequested,  \* _sync_requested
    pendingItems,   \* _pending_items, as a set
    lastError,      \* _last_error, reduced to its class
    \* -- locals of run() and _run_once(), meaningless between runs
    onlyItems,      \* only_items; {} stands for None, a full sync
    unlisted,       \* what the source has not listed yet: the cursor
    missed,         \* what the listing has passed over for good
    page,           \* records of the page not handed to SYNC_RECORDS yet
    chunk,          \* records of the SYNC_RECORDS call in progress
    copied,         \* the version of each record as fetched
    \* -- the activity in progress
    attempt,        \* number of the current attempt
    reply,          \* outcome the workflow has not seen yet
    \* -- the world
    source, dest,   \* see Mirror
    late,           \* the writes that attempts given up may still make
    credOk,         \* does the destination accept our credential?
    signals,        \* signals sent so far
    faults,         \* faults and revocations so far
    \* -- history variables: what the outside has been promised
    owed,           \* items named by a sync_now that no run has taken yet
    asked,          \* a sync_now or resume came and no run has begun since
    catchUpOwed,    \* a resume came and no full run has begun since
    authStop,       \* an auth failure was seen and no resume came since
    base,           \* the source as it was when the run began
    overwritten     \* items an attempt given up has since set back behind that

locals  == <<onlyItems, unlisted, missed, page, chunk, copied, base, overwritten>>
act     == <<attempt, reply>>
mirror  == <<source, dest, late>>
budget  == <<signals, faults>>
promises == <<owed, asked, catchUpOwed, authStop>>
vars    == <<pc, paused, interval, runsCompleted, syncRequested, pendingItems, lastError,
             locals, act, mirror, credOk, budget, promises>>

M == INSTANCE Mirror

Running == {"fetching", "syncing"}
Version == 0..MaxVersion

\* The items a run is about: those it was given, or all of them.
Scope(only) == IF only = {} THEN Item ELSE only

NoVersions == [i \in Item |-> 0]

Write == [item : Item, version : Version]

TypeOK ==
    /\ pc \in {"waiting", "parked", "rolling"} \union Running
    /\ paused \in BOOLEAN
    /\ interval \in Nat \ {0}
    /\ runsCompleted \in 0..RunsCap
    /\ syncRequested \in BOOLEAN
    /\ pendingItems \subseteq Item
    /\ lastError \in {"none", "transient", "auth"}
    /\ onlyItems \subseteq Item /\ unlisted \subseteq Item /\ missed \subseteq Item
    /\ page \subseteq Item /\ chunk \subseteq Item
    /\ copied \in [Item -> Version]
    /\ attempt \in 1..MaxAttempts
    /\ reply \in {"none", "ok", "transient", "auth"}
    /\ source \in [Item -> Version] /\ dest \in [Item -> Version]
    /\ late \subseteq Write
    /\ credOk \in BOOLEAN
    /\ signals \in 0..MaxSignals /\ faults \in 0..MaxFaults
    /\ owed \subseteq Item /\ asked \in BOOLEAN
    /\ catchUpOwed \in BOOLEAN /\ authStop \in BOOLEAN
    /\ base \in [Item -> Version] /\ overwritten \subseteq Item

\* __init__ of the first execution: nothing requested, nothing known.  Some
\* items exist already and none has been copied.
Init ==
    /\ pc = "waiting" /\ paused = FALSE /\ interval = 1 /\ runsCompleted = 0
    /\ syncRequested = FALSE /\ pendingItems = {} /\ lastError = "none"
    /\ onlyItems = {} /\ unlisted = {} /\ missed = {} /\ page = {} /\ chunk = {}
    /\ copied = NoVersions
    /\ attempt = 1 /\ reply = "none"
    /\ source \in [Item -> {0, 1}] /\ dest = [i \in Item |-> 0]
    /\ late = {}
    /\ credOk = TRUE /\ signals = 0 /\ faults = 0
    /\ owed = {} /\ asked = FALSE /\ catchUpOwed = FALSE /\ authStop = FALSE
    /\ base = NoVersions /\ overwritten = {}

-----------------------------------------------------------------------------
(***************************************************************************)
(* Signal handlers.  MaxSignals bounds how many a behaviour has.           *)
(***************************************************************************)
SendSignal ==
    /\ signals < MaxSignals
    /\ signals' = signals + 1
    /\ UNCHANGED <<pc, runsCompleted, lastError, locals, act, mirror, credOk, faults>>

\* sync_now(items); no items is the request for a full sync.
SyncNow(items) ==
    /\ SendSignal
    /\ pendingItems' = pendingItems \union items
    /\ syncRequested' = TRUE
    /\ owed' = owed \union items
    /\ asked' = TRUE
    /\ UNCHANGED <<paused, interval, catchUpOwed, authStop>>

AsSent(m) == m                            \* mutant of Clamped

Clamped(m) == IF m < 1 THEN 1 ELSE m

SetInterval(m) ==
    /\ SendSignal
    /\ interval' = Clamped(m)
    /\ UNCHANGED <<paused, syncRequested, pendingItems, promises>>

Pause ==
    /\ SendSignal
    /\ paused' = TRUE
    /\ UNCHANGED <<interval, syncRequested, pendingItems, promises>>

\* resume asks for a catch-up run, of everything, as well.
Resume ==
    /\ SendSignal
    /\ paused' = FALSE
    /\ syncRequested' = TRUE
    /\ asked' = TRUE
    /\ catchUpOwed' = TRUE
    /\ authStop' = FALSE
    /\ UNCHANGED <<interval, pendingItems, owed>>

Signal ==
    \/ \E items \in SUBSET Item : SyncNow(items)
    \/ \E m \in Minutes : SetInterval(m)
    \/ Pause
    \/ Resume

-----------------------------------------------------------------------------
(***************************************************************************)
(* The loop of run().                                                      *)
(***************************************************************************)
NeverBlocked == FALSE                     \* mutant of Blocked

Blocked == paused

OnRequestOnly == FALSE                    \* mutant of IntervalElapsed

\* The durable timer may have run out at any moment: time is not modelled, so
\* every length of the interval, of a run and of a pause is covered.
IntervalElapsed == TRUE

Woken == pc = "waiting" /\ (syncRequested \/ IntervalElapsed)

\* The wait at the top is over and the paused check sends the coroutine to the
\* second wait.
Park ==
    /\ Woken
    /\ Blocked
    /\ pc' = "parked"
    /\ UNCHANGED <<paused, interval, runsCompleted, syncRequested, pendingItems, lastError,
                   locals, act, mirror, credOk, budget, promises>>

\* `continue`: back to the wait at the top, which a resume has made ready.
Unpark ==
    /\ pc = "parked"
    /\ ~paused
    /\ pc' = "waiting"
    /\ UNCHANGED <<paused, interval, runsCompleted, syncRequested, pendingItems, lastError,
                   locals, act, mirror, credOk, budget, promises>>

\* The wait is over and the workflow is not paused: take what was asked for and
\* begin a run.  Pending items turn it into a targeted one.
StartRun ==
    /\ Woken
    /\ ~Blocked
    /\ pc' = "fetching"
    /\ onlyItems' = pendingItems
    /\ pendingItems' = {}
    /\ syncRequested' = FALSE
    /\ unlisted' = Scope(pendingItems) /\ missed' = {}
    /\ base' = source /\ overwritten' = {}
    /\ owed' = {} /\ asked' = FALSE
    /\ catchUpOwed' = (catchUpOwed /\ pendingItems # {})
    /\ attempt' = 1
    /\ UNCHANGED <<paused, interval, runsCompleted, lastError, page, chunk, copied, reply,
                   mirror, credOk, budget, authStop>>

RequestForgotten == FALSE                 \* mutant of CarriedRequest

CarriedItems == pendingItems
CarriedRequest == syncRequested

\* continue_as_new, then __init__ of the next execution: _state survives, with
\* the requests copied into it; the last_* attributes start over.
ContinueAsNew ==
    /\ pc = "rolling"
    /\ pc' = "waiting"
    /\ pendingItems' = CarriedItems
    /\ syncRequested' = CarriedRequest
    /\ lastError' = "none"
    /\ UNCHANGED <<paused, interval, runsCompleted, locals, act, mirror, credOk, budget,
                   promises>>

-----------------------------------------------------------------------------
(***************************************************************************)
(* _run_once(): page by page, chunk by chunk.                              *)
(***************************************************************************)
NotClassified(outcome) == FALSE           \* mutant of IsAuthFailure

IsAuthFailure(outcome) == outcome = "auth"

\* The run is over; the workflow loops, or rolls its history first when the
\* server suggests it.
EndRun(outcome) ==
    /\ pc' \in {"waiting", "rolling"}
    /\ runsCompleted' = IF runsCompleted < RunsCap THEN runsCompleted + 1 ELSE RunsCap
    /\ lastError' = outcome
    /\ paused' = (paused \/ IsAuthFailure(outcome))
    /\ authStop' = (authStop \/ outcome = "auth")
    /\ onlyItems' = {} /\ unlisted' = {} /\ missed' = {} /\ page' = {} /\ chunk' = {}
    /\ copied' = NoVersions /\ base' = NoVersions /\ overwritten' = {}
    /\ attempt' = 1 /\ reply' = "none"
    /\ UNCHANGED <<interval, syncRequested, pendingItems, mirror, credOk, budget, owed,
                   asked, catchUpOwed>>

ExecuteActivity(activity) ==
    /\ pc' = activity
    /\ attempt' = 1 /\ reply' = "none"
    /\ UNCHANGED <<paused, interval, runsCompleted, syncRequested, pendingItems, lastError,
                   onlyItems, unlisted, missed, copied, base, overwritten, mirror, credOk, budget, promises>>

\* MUTANT of Chunks: slices the list of the whole run instead of the page.
ChunksOfRun(records) ==
    {c \in SUBSET Scope(onlyItems) \ {{}} : Cardinality(c) <= ChunkSize}

\* SYNC_RECORDS is given at most ChunkSize records at a time.  The order of the
\* source is not modelled: any such part of the page may come first.
Chunks(records) == {c \in SUBSET records \ {{}} : Cardinality(c) <= ChunkSize}

\* MUTANTS of Rest: only the first chunk of a page is sent; the slice never
\* moves on.
NoRest(records, c) == {}
SameAgain(records, c) == records

Rest(records, c) == records \ c

SyncChunk(records) ==
    /\ records # {}
    /\ \E c \in Chunks(records) : chunk' = c /\ page' = Rest(records, c)
    /\ ExecuteActivity("syncing")

FetchNextPage(records) ==
    /\ records = {} /\ unlisted # {}
    /\ page' = {} /\ chunk' = {}
    /\ ExecuteActivity("fetching")

Succeed(records) ==
    /\ records = {} /\ unlisted = {}
    /\ EndRun("none")

\* An activity returned.  The rest of the page comes next, then the page behind
\* the cursor; without either the run has succeeded.
ActivityReturned ==
    /\ pc \in Running /\ reply = "ok"
    /\ SyncChunk(page) \/ FetchNextPage(page) \/ Succeed(page)

\* An activity failed for good: whatever is left of the run is dropped.
ActivityFailed ==
    /\ pc \in Running /\ reply \in {"transient", "auth"}
    /\ EndRun(reply)

-----------------------------------------------------------------------------
(***************************************************************************)
(* Attempts of the activity in progress.                                   *)
(***************************************************************************)
Attempting(activity) ==
    /\ pc = activity /\ reply = "none"
    /\ UNCHANGED <<pc, paused, interval, runsCompleted, syncRequested, pendingItems,
                   lastError, onlyItems, base, source, credOk, signals, promises>>

\* A transient fault: the server schedules the next attempt, or gives up.
\* MaxFaults bounds the faults of a behaviour.
Fault ==
    /\ faults < MaxFaults /\ faults' = faults + 1
    /\ \/ attempt < MaxAttempts /\ attempt' = attempt + 1 /\ UNCHANGED reply
       \/ attempt = MaxAttempts /\ reply' = "transient" /\ UNCHANGED attempt

\* What a page may leave out for good besides what it lists.  A targeted fetch
\* of more than a page of items drops the rest, cursor included.  A full listing
\* is cut at a cursor into pages that are read one after the other: an item that
\* is edited meanwhile can move from the pages to come to those read, and
\* without an order every item can.
LeftOut(listed) ==
    IF onlyItems = {}
    THEN SUBSET {i \in unlisted \ listed : unlisted # Item /\ (KeepsOrder => source[i] # base[i])}
    ELSE {{}} \union {rest \in {unlisted \ listed} : Cardinality(listed) >= AskLimit}

\* fetch_page lists part of what is behind the cursor, as it is now.  A page
\* may be empty only at the end.
FetchPage ==
    /\ Attempting("fetching")
    /\ \E listed \in SUBSET unlisted : \E out \in LeftOut(listed) :
          /\ listed = {} => unlisted \subseteq out
          /\ page' = listed
          /\ unlisted' = unlisted \ (listed \union out)
          /\ missed' = missed \union out
          /\ copied' = [i \in Item |-> IF i \in listed THEN source[i] ELSE copied[i]]
    /\ reply' = "ok"
    /\ UNCHANGED <<chunk, attempt, dest, late, overwritten, faults>>

FetchFault ==
    /\ Attempting("fetching")
    /\ Fault
    /\ UNCHANGED <<unlisted, missed, page, chunk, copied, dest, late, overwritten>>

Upsert(written) ==
    /\ dest' = [i \in Item |-> IF i \in written THEN copied[i] ELSE dest[i]]
    /\ overwritten' = overwritten \ written

SyncRecords ==
    /\ Attempting("syncing")
    /\ credOk
    /\ Upsert(chunk)
    /\ reply' = "ok"
    /\ UNCHANGED <<unlisted, missed, page, chunk, copied, attempt, late, faults>>

\* An attempt fails, crashes or is given up, with any part of the chunk written,
\* all of it included.  One that was given up may still write of the others: it
\* leaves them as late writes.
SyncFault ==
    /\ Attempting("syncing")
    /\ \E written \in SUBSET chunk : \E left \in SUBSET (chunk \ written) :
          /\ Upsert(written)
          /\ late' = late \union {[item |-> i, version |-> copied[i]] : i \in left}
    /\ Fault
    /\ UNCHANGED <<unlisted, missed, page, chunk, copied>>

\* The destination rejects the credential, before some record is written: not
\* retryable.
SyncRejected ==
    /\ Attempting("syncing")
    /\ ~credOk
    /\ \E written \in SUBSET chunk \ {chunk} : Upsert(written)
    /\ reply' = "auth"
    /\ UNCHANGED <<unlisted, missed, page, chunk, copied, attempt, late, faults>>

\* An attempt that was given up goes on: it asks nobody whether its record is
\* still the newest.
LateWrite(w) ==
    /\ credOk
    /\ dest' = [dest EXCEPT ![w.item] = w.version]
    /\ overwritten' = overwritten \union {i \in {w.item} : pc \in Running /\ w.version < base[i]}
    /\ late' = late \ {w}
    /\ UNCHANGED <<pc, paused, interval, runsCompleted, syncRequested, pendingItems,
                   lastError, onlyItems, unlisted, missed, page, chunk, copied, base, act, source, credOk, budget, promises>>

\* The cancellation or an error reaches it, or its worker dies, before a write.
LateLoss(w) ==
    /\ late' = late \ {w}
    /\ UNCHANGED <<pc, paused, interval, runsCompleted, syncRequested, pendingItems,
                   lastError, locals, act, source, dest, credOk, budget,
                   promises>>

-----------------------------------------------------------------------------
(***************************************************************************)
(* The world around the workflow.                                          *)
(***************************************************************************)
\* Somebody creates or edits item i; MaxVersion bounds the edits.
Edit(i) ==
    /\ source[i] < MaxVersion
    /\ M!Edit(i)
    /\ UNCHANGED <<pc, paused, interval, runsCompleted, syncRequested, pendingItems,
                   lastError, locals, act, credOk, budget, promises>>

Revoke ==
    /\ credOk /\ credOk' = FALSE
    /\ faults < MaxFaults /\ faults' = faults + 1
    /\ UNCHANGED <<pc, paused, interval, runsCompleted, syncRequested, pendingItems,
                   lastError, locals, act, mirror, signals, promises>>

Reauthorize ==
    /\ ~credOk /\ credOk' = TRUE
    /\ UNCHANGED <<pc, paused, interval, runsCompleted, syncRequested, pendingItems,
                   lastError, locals, act, mirror, budget, promises>>

-----------------------------------------------------------------------------
Workflow == Park \/ Unpark \/ StartRun \/ ContinueAsNew \/ ActivityReturned \/ ActivityFailed

Attempts == FetchPage \/ FetchFault \/ SyncRecords \/ SyncFault \/ SyncRejected

Late == \E w \in late : LateWrite(w) \/ LateLoss(w)

World == Revoke \/ Reauthorize \/ \E i \in Item : Edit(i)

Next == Workflow \/ Attempts \/ Late \/ Signal \/ World

Spec == Init /\ [][Next]_vars

\* Workflow tasks are processed and activities attempted as long as a worker
\* polls the queue.  An attempt that was given up comes to the end of its chunk,
\* each of its calls having a timeout.  Nobody has to signal, edit or re-authorize.
FairSpec == Spec /\ WF_vars(Workflow) /\ WF_vars(Attempts) /\ WF_vars(Late)
-----------------------------------------------------------------------------
(***************************************************************************)
(* Properties.                                                             *)
(***************************************************************************)
\* The status query.
Status == [paused |-> paused, lastError |-> lastError, syncPending |-> syncRequested]

\* Until a run begins, a request stays one, and an item named by a sync_now stays
\* pending: through pauses, other signals and history rolls.
RequestsSurvive ==
    /\ owed \subseteq pendingItems
    /\ asked => syncRequested

\* After an auth failure nothing is executed until a resume, whatever is
\* signalled and however often the timer runs out.
AuthStops == authStop => paused /\ pc \notin Running

\* The listing has passed item i over: it was edited during a full run, or the
\* full listing has no order, or more than a page was asked for.
PassedOver(i) ==
    /\ i \in missed
    /\ IF onlyItems = {} THEN KeepsOrder => base[i] < source[i]
                        ELSE Cardinality(onlyItems) > AskLimit

UpToDate(i) == base[i] <= dest[i] \/ i \in overwritten \/ PassedOver(i)

\* A run that reports no error has brought every item it is about at least to
\* the version the source had when the run began, across all pages, chunks and
\* retried attempts, unless the listing passed the item over or an attempt that
\* was given up set its row back after the run had written it.
SuccessCoversScope ==
    pc \in Running /\ pc' \notin Running /\ lastError' = "none"
        => \A i \in Scope(onlyItems) : UpToDate(i)
SuccessMeansMirrored == [][SuccessCoversScope]_vars

\* The destination shows only versions the source had, and moves back only when
\* an attempt that was given up writes one of the versions it was left with.
ImplementsMirror == M!Spec

\* The invariant the proofs rest on, beside the types.  Between runs no page
\* and no chunk is left; a fetch begins with none.
Tidy ==
    /\ pc \notin Running => page = {} /\ chunk = {}
    /\ pc = "fetching" => chunk = {}
    /\ pc = "fetching" /\ reply = "none" => page = {}

\* What is in the worker's hands lies between the destination and the source,
\* and is no older than the run nor than what attempts given up may still write.
Held ==
    pc \in Running =>
        /\ \A i \in Item : base[i] <= source[i]
        /\ \A i \in page \union chunk :
              /\ dest[i] <= copied[i] /\ base[i] <= copied[i] /\ copied[i] <= source[i]
              /\ \A w \in late : w.item = i => w.version <= copied[i]

\* What a run is about and has behind it is up to date, the chunk in progress
\* as soon as its activity has returned.
Progress ==
    pc \in Running =>
        /\ unlisted \subseteq Scope(onlyItems)
        /\ \A i \in Scope(onlyItems) \ (unlisted \union page \union chunk) : UpToDate(i)
        /\ reply = "ok" => \A i \in chunk : UpToDate(i)

IInv == TypeOK /\ M!InBounds /\ M!LateInBounds /\ Tidy /\ Held /\ Progress

\* Once the outside has quieted down with a valid credential and no pause, the
\* destination comes to equal the source and stays so.
EventuallyMirrored == <>[](credOk /\ ~paused) => <>[](dest = source)

\* A credential that stays revoked eventually parks the workflow for good.
RevocationParks == <>[]~credOk => <>[](pc = "parked")

\* Unless it is paused again and again, a workflow that was asked for a run, by
\* sync_now or resume, begins one.
RequestsServed == <>[]~paused => (asked ~> ~asked)

\* What the comment on resume says, "catch up immediately on resume": the request
\* a resume makes stays until a run of everything begins.
ResumeCatchesUp == catchUpOwed => Status.syncPending

\* What README.md says of an expired login, "the sync pauses and tells you":
\* the status of a workflow that an auth failure paused shows that failure.
PauseExplained == authStop => Status.lastError = "auth"
=============================================================================
