# Verification of durable-sync

durable-sync mirrors records from a source (GitHub, Jira, Notion, Luma,
YouTube, Contentful) into a destination (Notion, Jira, Luma, Asana,
Contentful).  It runs on Temporal: long-lived workflows hold the state and
decide, activities do the I/O and may be attempted several times.  These TLA+
modules model the parts of it whose correctness depends on the order in which
things happen, TLC checks them on small instances, and TLAPS proves their safety
properties for every value of the constants.

Paths below are relative to `src/durable_sync/`.

## 1. The system

| Part | State | Operations | Hard because |
|---|---|---|---|
| `SourceSyncWorkflow` (`workflows/sync.py`), one per source unit | paused, interval, a request flag, pending items, the last run's outcome | the loop (timer or request, pause, run, history roll); signals `sync_now`, `set_interval`, `pause`, `resume`; query `status` | a signal may come at every await; what is not copied by hand is lost at a history roll; an activity's outcome is seen long after it happened |
| `fetch_source` (`activities.py`) with the paged sources | none; a cursor travels through the workflow | list one page, transform its records | the source changes while it is being paged |
| `sync_records` (`activities.py`) | local: what exists, counts | deduplicate, query existing ids, update or create each record | retried from the start, may be given up while it still runs, reads once and writes many times |
| destinations (`connectors/*/destination.py`) and `linkstore.py` | the rows, and how each is found by its key | query, create, update | making a row and giving it its key is one step or two |
| `OAuthTokenWorkflow` (`auth/oauth/workflow.py`) with `refresh.py`, `flow.py` | access and refresh token, client, pause, credentials handed over and not applied yet | refresh, back off, park, sleep, history roll; signal `reauthorize`; queries `get_access_token`, `status` | the refresh token is spent by its use; the answer that holds its successor can be lost |
| sources and key scans (`connectors/*/source.py`, `api.py`, `query_existing_ids`) | a cursor: an offset or a token of the service | ask for the next page until there is none; a targeted refresh by id | the list changes between two requests; an offset counts what is there now |
| records, routes, enrichment, encoders (`connectors/content.py`, `route.py`, `enrich/llm.py`, `encode` of each destination) | the row in the destination | make a record, drop what the route does not own, relabel, drop unknown columns, write | humans edit the same rows; nothing, empty and "left alone" mean different things to each step |
| Contentful entries (`contentful/destination.py`, `mcp_destination.py`) | the entry, its version, what is published | read the version, write, publish, link | others write in between; two protocols with different guarantees |
| wiring (`multi.py`, `bootstrap.py`, `worker.py`) | the workflows that run, their specs | start one workflow per unit, serve them | script and worker have the configuration of their own start; a workflow keeps the spec it got |
| schema (`schema.py`, `bootstrap_schema.py`, `notion/schema.py`, `notion/ddl.py`) | the table and its columns | sample, infer, create the table once, write and read back | a small sample decides for good what a column takes |
| single calls (`http.py`, `transport/mcp.py`, `core.py`) | attempts of one call | try again when limited, classify the last answer | a limit and a refusal can look alike |
| sign-in scripts and credential store (`auth/oauth/store.py`, `connectors/*/bootstrap.py`, `prove.py`, `start.py`, `reauthorize.py`) | a file | authorize in the browser, save, spend and save, hand over | a human acts and kills at any time; tokens are spent by use |
| codec, configuration, command line | none | pure functions, printing | - |

How they interact: a sync workflow executes `fetch_source`, then `sync_records`
for each chunk of at most 500 records of each page.  `sync_records` opens a
session with the destination; the MCP destinations ask the token workflow's
query for an access token when they do.  An auth failure comes back to the
sync workflow as a typed error and pauses it; a human re-authorizes and sends
`resume`, or `reauthorize` to the token workflow.

What makes each part correct:

* sync workflow: no request is lost; nothing is executed with a credential
  known to be dead; a run that reports success has copied everything its
  listing gave it; the destination goes back to older data only by the late write
  of an attempt that was given up; it catches up in the end;
* upsert: one row per key, where the destination gives its keys back; what is
  reported done is stored; counts add up;
* token workflow: it never drops the only refresh token the provider accepts;
  it stops when the provider rejects it, and recovers from everything else;
* readers: what nobody touched during a read is read, if the reader asks for an
  order, and the read ends;
* rows: an item is found again by its key, a human's create-only edits survive,
  everything else shows the source;
* entries: nobody's edition is replaced unseen, no draft goes live by a sync;
* wiring: every unit with a key of its own has one workflow, and the worker
  routes it to its source;
* schema: a table takes what its sample held;
* calls: a value is a value, and a human is asked only when a service refused;
* credential file: whole at every moment, and its token good.

`PROJECT.json` lists every component with its status, and every hazard of the
code at its line with the properties that would catch it.

## 2. Modules

| Module | What it is |
|---|---|
| `Mirror` | abstract specification of one source and one destination: the copy may lag but never shows what the source did not have, and moves backwards only when a writer that was given up makes a write it was left with |
| `SourceSync` | `SourceSyncWorkflow`, the attempts of its two activities, also those given up that still write, signals, edits, revocations |
| `SourceSync_proofs` | its theorems |
| `SyncRecords` | `sync_records` attempt by attempt, the scan for existing keys, the link stores and the five ways of keying rows |
| `SyncRecords_proofs` | its theorems |
| `OAuthToken` | `OAuthTokenWorkflow`, the attempts of `refresh_oauth_token`, the provider's token endpoint, `reauthorize` and bootstrap |
| `OAuthToken_proofs` | its theorems |
| `Credential` | abstract specification of the token workflow as those who query it see it: once warm the query always answers, perhaps with a lapsed token; it stops at a rejection and restarts when a human says so |
| `SyncWithToken` | the part of a sync workflow that a credential can disturb, beside a token workflow that is a `Credential` |
| `SyncWithToken_proofs` | its theorems |
| `Paging` | the readers of remote lists: pages, cursors, filters and targeted refreshes of the sources, the destinations' key scans, two lists read for enrichment |
| `Paging_proofs` | its theorems, and lemmas about counting the places of a list |
| `Rows` | the way of one property of one item from the source's record into a row that humans edit, too |
| `Entry` | abstract specification of an entry under optimistic locking |
| `EntryUpsert` | the attempts of both Contentful destinations to write one entry, with humans in between |
| `EntryUpsert_proofs` | its theorems |
| `Units` | units of work, workflow ids, the script that starts workflows and the worker that serves them |
| `Schema` | sample, inference, table, wire form and the way back |
| `Calls` | one call with its retries, what each caller makes of the answer, and the error classification |
| `CredentialFile` | the credential file and the scripts that share it before a workflow owns the token |
| `CredentialFile_proofs` | its theorems |
| `Connectors` | `Paging`, `Rows`, `EntryUpsert`, `Units`, `Schema`, `Calls` and `CredentialFile` side by side, with the inputs for TLC |
| `Connectors_proofs` | theorems about calls, rows, units and tables for any inputs, and the run's specification as an instance of all the parts |
| `MC_*` | instances for TLC: symmetry sets and sets a `.cfg` cannot write |

`SourceSync` implements `Mirror` (`ImplementsMirror`).  It treats one chunk's
upsert as writing any part of the chunk and then ending in success, in a fault
that is retried, or in an auth error; `SyncRecords` is the detail of that
step.  An attempt that is given up may leave any of its other records as late
writes (`late`), which come at any later moment, if they come, beside retries
and other runs.  A fetch may leave items out for good (`LeftOut`): a targeted one of
more than a page, and a full one what moves between its pages; `Paging` is the
detail of that.

`OAuthToken` implements `Credential` (`ImplementsCredential`), and
`SyncWithToken` uses `Credential` in its place: the product of the two
workflows has some thousand states instead of millions, and what it shows
holds of the detailed token workflow as far as safety goes.  The fairness of
`Credential`, WF of `Renew`, says `[]<>(access = "valid" \/ stopped)`:
`Renew` is enabled while the token is not valid and the workflow not stopped,
and taking it makes the token valid.  That is what `HealsItself` checks of
`OAuthToken`.

`EntryUpsert` implements `Entry` (`NoLostEdit`).  `Paging` says when the key
scan is whole that `SyncRecords` makes page by page; `Rows` what a write of
`SyncRecords` puts into the row; `Calls` where the auth errors come from that
park `SourceSync`; `CredentialFile` how the first token gets into
`OAuthToken`.  The seven parts in `Connectors` share no state, in the models as in
the code, so they are checked one at a time by one run (`part` says which) and
not as a product.

### State and code

*Atomic steps.*  A Temporal workflow is single-threaded between awaits, so one
action is the code from one await to the next: in `SourceSync`, `pc` says
which await is pending (`waiting` for the timer or a request, `parked` for a
resume, `rolling` for the handlers before `continue_as_new`, `fetching` and
`syncing` for the two activities).  Signal handlers are plain functions and
are actions of their own, possible at every `pc`.  An activity's attempts are
actions of the worker; the final outcome waits in `reply` until the workflow
sees it, and anything may come between.

*Records* are versions: `source[i]` counts the edits of item `i`, `copied[i]`
is what the fetch captured, `dest[i]` is the version the row was written from.
That is enough to tell stale from fresh and is all the properties need.  In
`SyncRecords` the place of a record in its batch stands for its data; its query
reads the keys at once or any part at a time, `MoveUp` is a row that slips
past the scan, and `Unreadable` holds keys that Notion's column does not give back.

*Refresh tokens* are a grant (which bootstrap) and a generation (how many
rotations); the endpoint accepts the current generation of a grant that is not
revoked, with the client of that grant.

*Lists* (`Paging`).  Items are numbers with a place (`stamp`) in the service's
order; an edit gives an item a new place where the order is by time of update.
A reader in `Unordered` gets any rows, as many as its page has (`AnyRows`).  That is
`NotionSource` as it is by default; `notion_ordered` is one that was given an
`order_property` whose values differ.
An offset is a count of items before the cursor among those now listed; a token
means "after the last item returned".  `ChangeList` is anything the outside may do
between two requests.  `Fetch` is one request by the reader that is at work, with
the filters of its source.

*Rows* (`Rows`).  A value is one of two real ones, a placeholder, empty or missing,
which is what the steps tell apart; `Sync` is a whole sync of the item: record,
route, hook, column filter, encoder, and the create or update it chooses.
A property has a `role` (title, list, date, ...), since each connector treats
these differently.

*Entries* (`EntryUpsert`).  One attempt (`w`) is one pass through create or update;
`pc` is the remote call it is about to make.  `edition`, `basis`, `saw` and
`wrote` are history: they name the content a version number stands for.

*Wiring* (`Units`).  A key is the sequence of the parts between its colons, because
`MultiSource` and the routes cut it there.  The script and the worker keep the
configuration of their start in `todo` and `serving`.  A unit has a name, which its
key is made of, and is `about` something, which its params say: a JQL goes by a
slug, a content type has a label.  `resolved` is what the worker's
`NotionSource` has resolved once and prefers to any spec.

*Tables* (`Schema`).  A value is its shape; a column is its id, label and type.
`known` are the columns a session has read, perhaps before somebody renamed one.

*Calls* (`Calls`).  `truth` is what the service has to say and `resp` what it
answered last; what it says of limits comes before that, any number of times.

*The credential file* (`CredentialFile`).  Tokens are numbered as they are issued.
A script is killed between any two steps; `tmp` is the one file at the side
that all scripts share.

*History variables* (`owed`, `asked`, `catchUpOwed`, `authStop`, `base`, `missed`,
`overwritten`; `overlapped`, `torn`, `passed`; `informed`; `abandoned`, `resent`, `rejected`; `steady`, `disturbed`; `human`, `fresh`;
`edition`, `basis`, `saw`, `wrote`; `ever`; `limited`, `named`; `handed`, `overlap`,
`lost`) record what the outside has been
promised or what went wrong.  No guard of the modelled code reads them.

`NeverBlocked`, `NoRest`, `KnownToFirst` and the other definitions marked
"mutant" are not used by the models.  Each is a plausible bug in the
definition below it; `PROJECT.json` says which property finds it.

## 3. Runs

All finish within three minutes.

What `connectors` shows, and where it stops:

* `SteadyItemsRead`: no read that asks for an order skips an item that nobody touched,
  whatever is inserted, edited or deleted around it, as long as no item leaves a
  place the read has passed.  With an offset that does happen: GitHub's pages,
  Contentful's `skip` and Notion's `OFFSET` then skip one.  A read in no order,
  `NotionSource` without `order_property` and the index of persons, is whole only
  if it takes one page; with more the model loses rows, and the property says so.
* `TargetedRead`: named items are refreshed, all of them and only those, over any
  number of pages.  Only Jira and YouTube drop what is named beyond one page.
  `ReadEnds`: every reader comes to an end.
* `FoundAgain`: no second row as long as the key's column exists and the route
  owns it.  Where it does not, every sync makes another row.
* `SeedsSurvive`: create-only properties stay what a human made of them, except
  the title of Asana, Jira and Luma and the body of Asana and Jira, which
  these encoders write anyway.  `RowShowsSource`: all others show the source, except
  that lists, dates and optional values the source clears stay.
* `NoLostEdit`, `PublishesOwn`, `UpsertsComeThrough`: neither path replaces an
  edition unseen; REST never makes a human's draft public (MCP may); an attempt that
  is retried comes through when the others stop.
* `EveryUnitRuns`: every unit has its workflow, also after crashes of the script and
  changes of the configuration, if no other unit has or had its key.  GitHub's
  lists of named repositories have one key, and a JQL that is changed under its slug, a
  content type's other label and another calendar of Luma's keep theirs: such a
  change never reaches the workflow that runs.
* `UnitsServed`: a worker comes up, and asks each workflow's source for its unit.  That
  source reads what the unit is about, except where keys clash and where a
  `NotionSource` has resolved an older workflow's data source before.
* `SchemaFits`: a table made from a sample takes the sample, unless declarations
  contradict it, a column mixes numbers with others, or the title is no text.
  A renamed column is left out of the writes of a session that knows of it.  When the
  stamp's column is renamed every write is refused, and so is one that names a
  column as it was when its session began.
* `CallTells`: a value is the service's value; the workflow is paused if and only if
  a destination refused, unless the text of another error reads like a refusal
  or a limit comes as a 403 to the last attempt.
* `CredentialFileSound`: see section 4.

| Run | Checks | Expected |
|---|---|---|
| `source_sync` | types, `RequestsSurvive`, `AuthStops`, `SuccessMeansMirrored`, `ImplementsMirror` | hold |
| `source_sync_live` | `EventuallyMirrored`, `RevocationParks`, `RequestsServed` | hold |
| `sync_records` | types, `SerialAttemptsDoNotDuplicate`, `DoneMeansStored`, `StatsAddUp`, `AnswersStay` | hold |
| `oauth_token` | types, `NeverLockedOut`, `RejectionParks`, `ImplementsCredential`, `HealsItself`, `HealsInPlace`, `DeadGrantParks` | hold |
| `sync_with_token` | types, `PausedOnlyAfterWarm`, `DeadLoginPauses`, `SyncsAgain` | hold |
| `connectors` | types, `SteadyItemsRead`, `TargetedRead`, `ReadEnds`, `FoundAgain`, `SeedsSurvive`, `RowShowsSource`, `NoLostEdit`, `PublishesOwn`, `UpsertsComeThrough`, `EveryUnitRuns`, `UnitsServed`, `SchemaFits`, `CallTells`, `CredentialFileSound` | hold |
| `resume_catches_up` | `ResumeCatchesUp` | violated: finding 1 |
| `auth_pause_told` | `PauseExplained` | violated: finding 2 |
| `no_duplicates` | `NoDuplicates` | violated: finding 3 |
| `fresh_creds_next_refresh` | `PickedUpNextRefresh` | violated: finding 4 |
| `unnamed_refusal_parks` | `DeadGrantParks` | violated: finding 5 |
| `auth_pause_needs_human` | `PauseNeedsHuman` | violated: finding 6 |

### Where the code and its words disagree

1. **A resume does not always catch up.**  `sync.py:221` says "catch up
   immediately on resume".  If a `sync_now` named items while the workflow was
   paused, the run that the resume requests is a targeted run of those items,
   and the request for everything is spent.  The next full run is an interval
   away.
2. **A paused sync may not tell why.**  `README.md:32` says that after an
   expired login "the sync pauses and tells you".  When the server suggests
   the history roll after that very run, `paused` is carried and `_last_error`
   is not.
3. **Duplicates are possible when attempts overlap.**  `README.md:28`, "No
   duplicates, ever."  The activity does not heartbeat until its first write has
   returned, so a slow query can make the server start a second attempt while
   the first goes on.  Both see the key missing.  Four other ways to a second row are
   in the model and excluded by name from `SerialAttemptsDoNotDuplicate`: a crash
   between creating and linking and a link store that is lost (`torn`), a row
   that moves out of the scan (`passed`), and a key that Notion's column does not
   give back (`Unanswered`).  The attempt given up does not only create: it may also
   write older data over newer (`LateWrite` of `SourceSync`).
4. **Fresh credentials are not picked up on the next refresh.**
   `reauthorize.py:9` says so, but they are applied on the way out of a pause
   only.  Sent before the old grant has been rejected they wait: the signal
   that carried them cannot end the pause to come, and another is needed.
   A history roll in between drops them.
5. **A dead client can be retried for ever.**  `refresh.py:39` says the
   workflow pauses instead of burning retries.  A refusal with status 400 and
   `invalid_client` is turned into a message that the classifier does not
   recognise.  The run uses exactly this answer (`Unnamed`); `oauth_token` uses
   the recognised ones (`Named`).

6. **A sync is paused for a human although the login is alive.**
   `sync.py:182` explains the pause with "Refresh token revoked/expired -> only
   a human can fix it".  An access token that has merely expired does it too: a
   session reads the token once (`transport/mcp.py:71`) and lasts up to 15
   minutes, and while the token endpoint is down the query goes on answering
   with the last token.  The 401 that follows is an `AuthError`, which is not
   retried, and the sync waits for `resume` long after the token workflow
   has recovered.

### Bounds, and why they are enough

| Constant | Value | Why |
|---|---|---|
| `Item` | 2 | a second page, a second chunk, and an item a targeted run leaves out |
| `ChunkSize` | 1 | a page of two items takes two chunks |
| `MaxAttempts` | 2 | an attempt that fails and is retried; one that is the last.  The code has 5 |
| `MaxVersion` | 2, live run 1 | items start at 0 or 1, so each can change before, between and after fetch and write |
| `MaxSignals`, `MaxFaults` | 3 and 2, live run 2 and 2 | revocation, re-authorization and resume around one failing run, with a signal in between; an attempt given up whose retry fails, too, so that late writes of two versions wait |
| `AskLimit` | 1 | a targeted fetch of two items may drop one |
| `KeepsOrder` | TRUE | with FALSE any full listing may pass any item over, so that nothing catches up in the end; the theorems are about both |
| `RunsCap` | 1 | `runs_completed` is only shown |
| `Key`, `Row`, `MaxBatch` | 3, 3, 2 | one key filtered, one that is not given back and an ordinary one; a duplicate, or a keyless record beside another; a row to spare for a second copy; a scan of two pages with a row that slips past it |
| `MaxLosses` | 1 | a link store lost between two attempts |
| `MaxGrants`, `MaxGen` | 2 | a replacement for a dead grant; a rotation after a rotation |
| `MaxAttempts`, `MaxFaults`, `MaxSignals` of `SyncWithToken` | 2, 3, 3 | a revocation after an attempt that failed for good, and resumes between them; no bound on expiries and renewals |
| `Item`, `PageSize` of `Paging` | 1..5, 2 | three pages, the last of them not full; a targeted refresh of less and of more than a page |
| `MaxChanges` | 2 | an item edited and another deleted, before and after the cursor |
| `MaxEdits` | 2 | source and human edit one after the other around a sync |
| `Writer`, `Retried`, `MaxEvents` | 2, 1, 3 | two attempts at once, one retried; a failure and a human on either side of it |
| `UnitName`, `MaxTurns` | 2, 3 | two units with one key; a script that dies, is run again, under another configuration, with a worker that is restarted |
| `Column`, `MaxTables` | 4, 2 | a title, a key, a stamp and the column in question; a second `ensure_schema` or a rename |
| `MaxAttempts`, `MaxDelay` of `Calls` | 6, 60 | the largest of the code's bounds; with one attempt more the pauses would exceed the heartbeat timeout |
| `Script`, `MaxTokens` | 2, 4 | two scripts at once; bootstrap, prove, a workflow that refreshes, and a second bootstrap |
| `RefreshesBeforeContinue` | 2 | a wake with and a wake without a history roll.  The code has 24 |

Rows are interchangeable, and items in the run without liveness, so these runs
use symmetry.  The liveness runs do not.  `CHECK_DEADLOCK FALSE` stands in each
`.cfg` because a behaviour really stops: an upsert ends; a parked workflow
stays parked when the signals are used up.

### Fairness

`FairSpec` of `SourceSync` and `OAuthToken` assumes weak fairness of
`Workflow` (workflow tasks are processed) and of `Attempts` (activities are
attempted): a worker polls its queue.  `SourceSync` also assumes weak fairness of
`Late`: an attempt that was given up comes to an end, by a write, an error, the
cancellation or the death of its worker, since each of its calls has a timeout.  Without
that it could undo what a later run did at any time, and nothing would be caught up
for good.  No signal, edit, re-authorization or late answer is assumed.  The bounds make the environment
finite in every behaviour, and the liveness properties say what they need of it
in their premise: `EventuallyMirrored` asks for a valid credential and no pause
from some point on, `HealsItself` that the workflow does not wait for a human.  An outage is a
number of faults, bounded by `MaxFaults`; properties about outages say that
the workflow recovers when the faults stop.

`Connectors` assumes that a reader asks for its next page (`Fetch`: the workflow
continues with the cursor as long as there is one) and that an attempt goes on
with its calls (`Call`: Temporal retries the activity of a `Retried` attempt).
Nothing is assumed of humans, of changes of a list, or of scripts.

`FairSpec` of `SyncWithToken` assumes the same of the sync workflow and its
attempts; of the token workflow what `Credential` promises (`Renew`) and that
it finds out about a dead grant (`Stop`, checked as `DeadGrantParks`); and
that a token expires some day (`Lapse`, `SessionLapse`).  A session whose
token has been replaced is over within its 15 minutes anyway.

## 4. Proofs

Every safety property that a passing run checks is a theorem: the invariants, the
action properties and the three refinements of abstract specifications.  What is
left to TLC alone is liveness.

Assumptions: the named `ASSUME` of each module.  Most only type its constants
(finite set of items; positive chunk size and attempts; disjoint keys and
rows), and the bounds are arbitrary naturals, so the theorems hold for any number
of items, edits, faults, signals, attempts, grants and rotations.  Four say more:

* `CallsAssumption`: no caller makes more than six attempts.  That is the largest
  number in the code (`http.py:21`, `transport/mcp.py:22`); with a seventh the pauses,
  1 + 2 + 4 + 8 + 16 + 32 seconds, would exceed the heartbeat timeout of a
  minute, and `CallTells` says that they do not.
* `PagingAssumption`: `n` items are numbered `n` at most, so that the place a
  changed item moves to is no other item's.  Services break ties by the id.
* `SchemaAssumption`: no column is called "-" (the model's word for none) or
  "renamed" (what its humans rename a column to).
* `InputsAssumption`: the constants contain the inputs that `Connectors` names.

**`SourceSync_proofs`.**  `TypeCorrect` first.  `InvariantHolds` proves
`IInv`, which is what `SuccessMeansMirrored` and `ImplementsMirror` need and
do not contain themselves: `Held` says that everything in the worker's hands
lies between what the destination shows and what the source has, and is no older
than the run nor than any late write of its item, so that a write by the attempt in
charge moves a row forward only, even when late writes come in between;
`LateInBounds` that late writes are of versions the source had; `Progress` that
everything the run is about and has behind it is `UpToDate`: at least as new as when
the run began, or set back by a late write since, or passed over by the
listing, where a listing can do that (`PassedOver`).  Then every step is a `Copy`, a
`LateWrite`, an `Edit` or a stutter of `Mirror` (`MirrorImplemented`), and when a run
ends without an error nothing is left that is not up to date (`SuccessCovers`).
`AuthFailureStops` and `NoRequestLost` are inductive with
the types, the former strengthened by where the workflow can be.

**`SyncRecords_proofs`.**  `SerialSafe` needs
`SerialInv`: until the server gives up a running attempt only the current one
runs (`OneAtATime`); each row answers its key or is being linked
(`RowsAnswer`); so what the attempt is about to create does not exist
(`CreatesMissing`), for every key whose page the scan has read and that is not
`Astray`: torn, passed by the scan, or not given back by its column.  With ids
derived from keys the rows of `k` are a subset of `{k}` (`DerivedInv`).

The other properties of the module come from three invariants about all attempts at
once, overlapping or not.  `Backed`: a row belongs to one key, and what anybody
knows as the row of a key is one that was made for it; with the steps of the links
this is `AnswersLastForEver`.  `Written`: what an attempt has behind it is stored, with
the last of the batch's data for its key; `DoneStored` is the case of an attempt
with nothing left.  An attempt that overlaps cannot undo this, since all of them write the
same batch.  `Counted`: records counted, being linked and left over are as many as
the batch has; with nothing left the counts add up (`StatsAlwaysAddUp`).  It needs that there
are no more keys than records and that a key's last place exists (`KeysFinite`,
`LastPlace`), since the code counts the records without a key, and
all but one of those with the same key, as skipped before the first write.

**`OAuthToken_proofs`.**  `NeverLockedOut` is not inductive: a token handed
over by `reauthorize` may displace the newest rotation, and a request that
timed out may still rotate it.  `IInv` adds that tokens and clients travel
together (`Paired`), that grants are handed over in the order they were made
(`Ordered`), that what has not been held is unused and a stray's grant counts as
abandoned (`Unspent`), that the newest generation is in `out` or in the
workflow (`Kept`), and what the count and the pause flags say of `pc`
(`Counted`).  `RejectionStops` follows from `Counted`.
`CredentialImplemented` maps every step to one of `Credential` or a stutter;
`Counted` is needed to see that no token is adopted while a human is awaited.

**`SyncWithToken_proofs`.**  `NotPausedCold` is not inductive: an auth failure
that the workflow has not seen yet will pause it.  `InStep` adds that such a
failure, like a session with a token, presupposes that there was one.

**`EntryUpsert_proofs`.**  `VersionsTell` says what a version in an attempt's hand
is worth while it is still the entry's own: before the write, that the attempt has
seen the edition it replaces; before REST's publication, that the edition is
its own.  It is inductive with the types, because every change of the entry by
anybody raises the version (`Untouched`).  `LockedImplemented` maps each step to a
step of `Entry` or a stutter, for any number of attempts; `PublishesOwnHolds`
follows from the same invariant.

**`CredentialFile_proofs`.**  `CredentialFileSound` is not inductive.  `FileInv` adds:
at most one script is at work (unless two met, which is the premise
`~overlap`), what it loaded is the file's token, what it is about to save is
accepted and not the workflow's, what it renames is complete (`Knows`); the file's
token is spent only between prove's refresh and its save, and the workflow's
token is the file's only if it was handed over (`Orderly`).  `Issued` says that no
token is known before it was issued, so that the workflow's next token is
nobody else's.

**`Paging_proofs`.**  The theorems are of `AnyReadSpec`: any reader, any list, any items
asked for by name, any marks, any page size.  `SteadyItemsRead` is not inductive: it says
nothing before the end.  `PagingInv` adds that whatever is behind the cursor,
has not been touched and is due, has been got (`BehindRead`), that nothing else was
(`OnlyThose`), and that the places of a list differ and the clock is ahead of them
(`Ordered`).  Three arguments make it inductive.  A change leaves an untouched item
that was ahead of the cursor ahead of it, unless an item left a place already passed
(`StaysAhead`): with offsets because insertions only push it back, and what goes
from a place not yet passed was in front of nothing that had been; with tokens because
the item's own rank does not change.  A read that returns
a *complete* page, one with everything that is sought between its cursor and the
next, keeps the invariant (`ReadKept`).  And the page of each reader is complete: `TokenPage`,
`OffsetPage`, `NumberedPage`, `QueriedPage` and `SkippedPage` for the kinds of cursor,
then one lemma for each reader with its filters (`JiraComplete` and so on).
A page of an offset has as many items as there are places between it and the next; this
rests on lemmas about the place of an item in a finite ordered set (`Least`,
`OneLess`, `EveryCount`, `FullPage`): every number below the set's size is the place of exactly one
member, shown with a least counterexample where one would use induction.
`PagesMoveOn` is the safety part of `ReadEnds`: a request is the last one, or the next
cursor is at a place further on.  With tokens that is so because a page with a
successor is not empty, with Contentful's `skip` because of the test `n > 0`.
The readers without an order are in all of this but `BehindRead`, which they keep only
while they are at their first page (`InOrder`).

**`Connectors_proofs`.**  One section for each part, then their composition.

* *Calls.*  `CallsInv`: an answer is the truth or one of the two ways to say "later"; a
  pending call has an attempt left; a conclusion is what the caller makes of the last
  answer; and the pauses so far sum up to less than the next (`Doubling`).
  `CallsTell` then goes through the five groups of callers.
* *Rows.*  `AnyRowsSpec` allows every plan and every edit.  `RowInv` is
  `RowShowsSource` with the types, with what a row is before there is a plan, and
  with `Findable`: a row whose key column exists and is owned is found by its key.
  `FoundAgainAlways`, `ShowsSource` and `SeedsAlwaysSurvive` follow.
* *Units.*  `AnyUnitsSpec` allows any units, bundled or not.  `Naming`: the id of a
  workflow determines its unit's source and key and whether it was started for a bundle,
  because no key of one connector begins like another's or like a connector's name
  (`FirstPartsDiffer`); so routing is the inverse of naming, up to units that
  `Clash`.  With it and `ForUnits` (every workflow, every spec still to start and every
  fetch is of a unit that was configured at some time, and what a `NotionSource`
  has resolved is what some Notion unit is about) `UnitsAllRun` and
  `UnitsAllServed` follow.
* *Tables.*  `AnyTableSpec` allows any wiring and any records over any columns; it
  assumes only that the column the sync stamps is not the title or the key.
  `TableInv` says that each table is what is inferred now, but for labels that humans
  changed (`AllGenerated`), that once a table is configured no run of the script makes
  another, that a stored value is the one sent and a refused one met a column of its own that
  does not take it (`Stored`), that a session which knows columns knows
  those that nobody renamed (`KnownIs`), and what may be read back (`ReadBack`).
  `OneKind` shows that a column gets one kind, by counting the kinds in the
  sample; `ValueTaken` that its type takes what the declarations fit; `TargetIs`
  that a name leads to the column's own field or to none, renamed or not.
  `TablesFit` is `SchemaFits`.

`PartsImplemented` says that a behaviour of the run's `Spec` is, part by part, one of
these specifications, `UpsertSpec` and `FileSpec` included, so that
`ConnectorsSafe` and `ConnectorsTypeCorrect` conclude everything the run checks, but
liveness, for any value of its constants.

Only model-checked are the liveness properties, which are beyond the prover:
`EventuallyMirrored`, `RevocationParks`, `RequestsServed`, `HealsItself`,
`HealsInPlace`, `DeadGrantParks`, `DeadLoginPauses`, `SyncsAgain`, `ReadEnds` and
`UpsertsComeThrough`.  The six properties that runs find violated are, of course,
not theorems.

## 5. What the models leave out

* Time.  The interval, sleeps and backoffs elapse at any moment, so every
  length is covered, and properties about lengths (starvation of the timer,
  heartbeats of slow queries, by how much a session outlives its token) are not
  stated.
* `SyncWithToken` has no pauses by users, one attempt at a time and one sync
  workflow; fetches do not use the credential there.
* `Connectors` runs its parts one at a time.  Nothing in the code connects them
  but the calls named in section 2.
* Late writes of `SourceSync` come in any order, and more than one attempt's may be
  under way; the code's come in the order of the chunk.
* A source that is asked for another source's unit may fail over its params;
  `Units` lets it read something, and no property speaks of what.
* Two attempts retried against each other may make each other's publication fail
  for as long as they go on; `UpsertsComeThrough` retries one of them.
* `Rows` follows one property at a time; a hook that reads several is seen through
  the one it writes.  `Schema` supposes that
  humans have added the options of a generated list column before records are
  written to it.
* `Units` has no versioned workers; `CredentialFile` no discovery, client
  registration or PKCE; `Calls` no walk over nested causes.
* Pages that are empty before the last, when a transform drops all their
  records: they only add a fetch.  Items that disappear from the source: the
  program never deletes.
* Records the destination never accepts; the wording of errors except where
  the code decides by it; forms of single values (Jira's document format, dates,
  locales, icons, length limits).
* `RunsCap` ends the counting of runs, not the runs.

### Not modelled

* `codec.py`: encrypts a payload with a key from the environment.  A pure function,
  without order or state.
* `config.py`, `env.py`, `temporal_client.py`, `connectors/*/token.py` and the
  scripts that describe or introspect: they read the environment and print.
* `linkstore.py`'s SQLite file and lock; the scraping of ids from the text of
  Contentful's MCP answers; `registry.py` and worker versioning.
* Clocks: the starvation of the interval by targeted requests, heartbeats of slow
  queries, and token lifetimes below the skew need a model with real time.

## 6. Further hazards

Seen while modelling, beyond those in `PROJECT.json`:

* `core.py:44` says that a body is written on create.  Asana's and Jira's encoders
  write title and body on every update, before they look at `create_only_properties`.
* A list, date or optional value that the source clears stays in the row for ever.
* A failed call of GitHub's for languages or contributors is read as "none" and
  blanks the row.
* `http.py`: five sleeps of a minute, where the service asks for them, exceed the heartbeat
  timeout of the activity they are in.
* `schema.py:168`: a column with nothing but None in the sample never comes to be.
* A second `ensure_schema` in a new process makes a second database.
* `MultiSource` does not forward the optional hooks of its sources.
* After sources are bundled otherwise, the workflows of the old ids go on running.
* `prove` after `start` spends the token that the workflow owns; and two scripts share
  one side file.
* The callback server answers a single request: a stray one ends the sign-in.
* Contentful's targeted refresh does not return items outside the lookback window.
* A key column that is renamed in Notion makes a second row of every item, by every sync.
* `destination.py:249` says that dropping unknown properties is so that "a write never
  400s because the app emits a field the human-curated schema doesn't have (or
  renamed/removed)".  The stamp is added after that (line 308), so a renamed or
  removed stamp column makes every write fail.
* `client.py:28` says that an order is required when paginating; `NotionSource` leaves it
  out by default (`source.py:53`).
* A JQL changed under its slug, and a content type's label, never reach a workflow
  that runs; the specs of a restarted script are ignored (`bootstrap.py:42`).
* A `NotionSource` reads what it resolved first for every spec it is given afterwards.

## 7. Plan

Done, in the order of how much of the system's promise rests on them: `Mirror`,
`SourceSync`, `SyncRecords`, `OAuthToken`, `Credential`, `SyncWithToken` with
their proofs; then `Paging`, `Rows`, `Entry`, `EntryUpsert`, `Units`,
`Schema`, `Calls`, `CredentialFile`; then the proofs of all their safety
properties.  Left:

1. the safety parts of the other liveness arguments, as theorems, as `PagesMoveOn` is
   for `ReadEnds`: that `Renew` of `Credential` is what `HealsItself` relies on;
2. stronger safety properties that the proofs suggest, such as what a disturbed read
   of a list may miss at most.
