---------------------------- MODULE SyncRecords ----------------------------
(***************************************************************************)
(* sync_records (activities.py): the upsert of one batch of records into a *)
(* destination, attempted several times by the server.                     *)
(*                                                                         *)
(* The destinations differ in how a row gets the key by which the next     *)
(* attempt finds it, the mode of a behaviour:                              *)
(*   "column"   written with the row into Notion's key column              *)
(*   "external" written with the row, Asana's external gid                 *)
(*   "stamped"  a second call writes it on the row: Jira's issue property  *)
(*   "linked"   a LinkStore keeps key -> row: Luma, Contentful over MCP    *)
(*   "derived"  the row's id is a function of the key, the LinkStore only  *)
(*              a shortcut: Contentful over REST                           *)
(*                                                                         *)
(* An attempt whose heartbeats or result do not arrive is given up by the  *)
(* server, which starts the next one; the first is not stopped by that.    *)
(* Two workflows whose sources share a key interleave in the same way.     *)
(*                                                                         *)
(* A LinkStore answers query_existing_ids at once.  The other destinations *)
(* are scanned page by page, Notion by offset: when others delete a row    *)
(* before it, those behind move up, and one of them moves out of the scan. *)
(***************************************************************************)
EXTENDS Naturals, Sequences, FiniteSets, FiniteSetsExt

CONSTANTS
    Key,           \* primary keys
    NoKey,         \* the empty primary key
    Row,           \* ids the destination gives to new rows
    NoRow,         \* query_existing_ids knows no row
    Modes,         \* the kinds of destination looked at
    Filtered,      \* keys the destination-side filter drops
    Unreadable,    \* keys a key column does not give back: the query strips the
                   \* blanks off what it reads (no two keys are alike but for
                   \* such blanks), or the column is missing
    MaxBatch,      \* bound on the records of a batch
    MaxAttempts,   \* RetryPolicy(maximum_attempts = ...)
    MaxLosses      \* bound on the times a LinkStore loses its map

KeyModes == {"column", "external", "stamped", "linked", "derived"}

ASSUME SyncRecordsConstants ==
    /\ NoKey \notin Key /\ NoRow \notin Key \union Row
    /\ Key \intersect Row = {}
    /\ Modes \subseteq KeyModes
    /\ Filtered \subseteq Key /\ Unreadable \subseteq Key
    /\ MaxBatch \in Nat /\ MaxAttempts \in Nat \ {0} /\ MaxLosses \in Nat

VARIABLES
    mode,        \* how this destination keys its rows
    configured,  \* destination.configured
    batch,       \* the records: their keys; the place stands for the data
    \* -- the attempts, by number
    pc,          \* "idle", "query", "write", "link", "done" or "failed"
    todo,        \* keys of to_sync not written yet
    unread,      \* keys whose place in the listing the query has not come to
    existing,    \* what query_existing_ids has found
    fresh,       \* <<key, row>> just created and not linked yet
    stats,       \* created, updated and skipped so far
    \* -- the server
    current,     \* the attempt the server waits for
    verdict,     \* outcome of the activity
    \* -- the destination and its LinkStore
    copies,      \* the rows that were created for each key
    found,       \* the rows by which query_existing_ids may answer a key
    data,        \* what each row shows; 0 is data older than the batch
    losses,      \* times the LinkStore lost its map
    \* -- history variables
    overlapped,  \* an attempt was given up while it was running
    torn,        \* keys whose row was left without its key
    passed       \* keys whose row moved out of a scan that was under way

attempts == <<pc, todo, unread, existing, fresh, stats>>
server   == <<current, verdict>>
store    == <<copies, found, data, losses>>
history  == <<overlapped, torn, passed>>
vars     == <<mode, configured, batch, attempts, server, store, history>>

Attempt == 1..MaxAttempts
RowId   == Row \union Key          \* Key: ids derived from keys, and old rows
Active  == {"query", "write", "link"}
NoPair  == <<NoKey, NoRow>>

KeyOnRow == mode \in {"column", "external"}
Scanned  == KeyOnRow \/ mode = "stamped"

Unanswered == IF mode = "column" THEN Unreadable ELSE {}

Stats == [created : 0..MaxBatch, updated : 0..MaxBatch, skipped : 0..MaxBatch]

\* ---- the idempotency guard, before any write ----------------------------
Places(k) == {n \in DOMAIN batch : batch[n] = k}

AllKeys == {batch[n] : n \in DOMAIN batch}   \* mutant of Keys

\* The keys of to_sync: a record without a key cannot be idempotent.
Keys == {batch[n] : n \in DOMAIN batch} \ {NoKey}

FirstOf(k) == Min(Places(k))              \* mutant of LastOf

\* Duplicate keys collapse to the last occurrence.
LastOf(k) == Max(Places(k))

KeylessOnly == Cardinality(Places(NoKey)) \* mutant of SkippedUpFront

\* Keyless records are dropped, and all but one of the records of a key.
SkippedUpFront ==
    LET keyless == Cardinality(Places(NoKey))
    IN keyless + ((Len(batch) - keyless) - Cardinality(Keys))

TypeOK ==
    /\ mode \in Modes /\ configured \in BOOLEAN
    /\ batch \in Seq(Key \union {NoKey}) /\ Len(batch) <= MaxBatch
    /\ pc \in [Attempt -> {"idle", "done", "failed"} \union Active]
    /\ todo \in [Attempt -> SUBSET Key] /\ unread \in [Attempt -> SUBSET Key]
    /\ existing \in [Attempt -> [Key -> RowId \union {NoRow}]]
    /\ fresh \in [Attempt -> (Key \X RowId) \union {NoPair}]
    /\ stats \in [Attempt -> Stats]
    /\ current \in Attempt
    /\ verdict \in {"running", "done", "failed", "auth", "config"}
    /\ copies \in [Key -> SUBSET RowId] /\ found \in [Key -> SUBSET RowId]
    /\ data \in [RowId -> 0..MaxBatch]
    /\ losses \in 0..MaxLosses
    /\ overlapped \in BOOLEAN /\ torn \subseteq Key /\ passed \subseteq Key

\* A batch arrives; some of its keys have a row from an earlier run.
Init ==
    /\ mode \in Modes /\ configured \in BOOLEAN
    /\ batch \in UNION {[1..n -> Key \union {NoKey}] : n \in 0..MaxBatch}
    /\ pc = [a \in Attempt |-> "idle"]
    /\ todo = [a \in Attempt |-> {}] /\ unread = [a \in Attempt |-> {}]
    /\ existing = [a \in Attempt |-> [k \in Key |-> NoRow]]
    /\ fresh = [a \in Attempt |-> NoPair]
    /\ stats = [a \in Attempt |-> [created |-> 0, updated |-> 0, skipped |-> 0]]
    /\ current = 1 /\ verdict = "running"
    /\ \E old \in SUBSET Key :
          copies = [k \in Key |-> IF k \in old THEN {k} ELSE {}]
    /\ found = [k \in Key |-> IF k \in Unanswered THEN {} ELSE copies[k]]
    /\ data = [r \in RowId |-> 0]
    /\ losses = 0
    /\ overlapped = FALSE /\ torn = {} /\ passed = {}

-----------------------------------------------------------------------------
(***************************************************************************)
(* One attempt.                                                            *)
(***************************************************************************)
Goto(a, place) == pc' = [pc EXCEPT ![a] = place]

Count(a, what) == stats' = [stats EXCEPT ![a][what] = @ + 1]

\* Keep what is to be written, count the rest.
Begin(a) ==
    /\ a = current /\ verdict = "running" /\ pc[a] = "idle"
    /\ configured
    /\ Goto(a, "query")
    /\ todo' = [todo EXCEPT ![a] = Keys]
    /\ unread' = [unread EXCEPT ![a] = Key]
    /\ stats' = [stats EXCEPT ![a].skipped = SkippedUpFront]
    /\ UNCHANGED <<mode, configured, batch, existing, fresh, server, store, history>>

\* ConfigError: not retryable.
NotConfigured(a) ==
    /\ a = current /\ verdict = "running" /\ pc[a] = "idle"
    /\ ~configured
    /\ Goto(a, "failed")
    /\ verdict' = "config"
    /\ UNCHANGED <<mode, configured, batch, todo, unread, existing, fresh, stats, current, store,
                   history>>

\* MUTANT of Known: what the first attempt has seen is kept for the retries.
KnownToFirst(a, k) ==
    IF a = 1
    THEN IF found[k] = {} THEN {NoRow} ELSE found[k]
    ELSE {existing[1][k]}

Known(a, k) == IF found[k] = {} THEN {NoRow} ELSE found[k]

\* query_existing_ids, once per attempt: all at once, or a page of the scan.  Of
\* several rows one is listed last.
Query(a) ==
    /\ pc[a] = "query"
    /\ \E page \in SUBSET unread[a] : \E seen \in [page -> UNION {Known(a, k) : k \in page}] :
          /\ page = unread[a] \/ (Scanned /\ page # {})
          /\ \A k \in page : seen[k] \in Known(a, k)
          /\ existing' = [existing EXCEPT ![a] =
                            [k \in Key |-> IF k \in page THEN seen[k] ELSE @[k]]]
          /\ unread' = [unread EXCEPT ![a] = @ \ page]
          /\ Goto(a, IF page = unread[a] THEN "write" ELSE "query")
    /\ UNCHANGED <<mode, configured, batch, todo, fresh, stats, server, store, history>>

\* Somebody deletes a row behind which the scan has come: the first row of the
\* next page moves to the place before it.
MoveUp(a, k) ==
    /\ pc[a] = "query" /\ mode = "column"
    /\ k \in unread[a] /\ unread[a] # Key
    /\ unread' = [unread EXCEPT ![a] = @ \ {k}]
    /\ passed' = passed \union {k}
    /\ UNCHANGED <<mode, configured, batch, pc, todo, existing, fresh, stats, server, store,
                   overlapped, torn>>

Took(a, k) ==
    /\ pc[a] = "write" /\ k \in todo[a]
    /\ todo' = [todo EXCEPT ![a] = @ \ {k}]
    /\ UNCHANGED <<mode, configured, batch, unread, existing, server, losses, history>>

\* update or create returns False: the destination's filter dropped the record.
Skip(a, k) ==
    /\ Took(a, k)
    /\ k \in Filtered
    /\ Count(a, "skipped")
    /\ UNCHANGED <<pc, fresh, copies, found, data>>

Update(a, k) ==
    /\ Took(a, k)
    /\ k \notin Filtered /\ existing[a][k] # NoRow
    /\ data' = [data EXCEPT ![existing[a][k]] = LastOf(k)]
    /\ Count(a, "updated")
    /\ UNCHANGED <<pc, fresh, copies, found>>

Unused == Row \ UNION {copies[k] : k \in Key}

\* The id of the row that create makes: derived from the key, or new.
NewIds(k) == IF mode = "derived" THEN {k} ELSE Unused

\* MUTANT of Put: the table's primary key is the route alone.
PutByRoute(k, r) == [other \in Key |-> IF other = k THEN {r} ELSE {}]

\* LinkStore.put replaces the link of one key.
Put(k, r) == [found EXCEPT ![k] = {r}]

\* Jira's set_issue_property adds an issue that answers the key.
Stamp(k, r) == [found EXCEPT ![k] = @ \union {r}]

\* The destination makes row r, with the key on it or with the link still missing.
MakeRow(a, k, r) ==
    /\ copies' = [copies EXCEPT ![k] = @ \union {r}]
    /\ data' = [data EXCEPT ![r] = LastOf(k)]
    /\ IF KeyOnRow
       THEN /\ found' = IF k \in Unanswered THEN found ELSE Stamp(k, r)
            /\ Count(a, "created")
            /\ UNCHANGED <<pc, fresh>>
       ELSE /\ fresh' = [fresh EXCEPT ![a] = <<k, r>>]
            /\ Goto(a, "link")
            /\ UNCHANGED <<found, stats>>

Create(a, k) ==
    /\ Took(a, k)
    /\ k \notin Filtered /\ existing[a][k] = NoRow
    /\ \E r \in NewIds(k) : MakeRow(a, k, r)

\* The second call of a create that is not atomic.
Link(a) ==
    /\ pc[a] = "link"
    /\ LET k == fresh[a][1]
           r == fresh[a][2]
       IN found' = IF mode = "stamped" THEN Stamp(k, r) ELSE Put(k, r)
    /\ fresh' = [fresh EXCEPT ![a] = NoPair]
    /\ Count(a, "created")
    /\ Goto(a, "write")
    /\ UNCHANGED <<mode, configured, batch, todo, unread, existing, server, copies, data, losses,
                   history>>

Complete(a) ==
    /\ pc[a] = "write" /\ todo[a] = {}
    /\ Goto(a, "done")
    /\ verdict' = IF a = current /\ verdict = "running" THEN "done" ELSE verdict
    /\ UNCHANGED <<mode, configured, batch, todo, unread, existing, fresh, stats, current, store,
                   history>>

-----------------------------------------------------------------------------
(***************************************************************************)
(* Failures.                                                               *)
(***************************************************************************)
\* The server is through with attempt a: try again, or give up.
NextAttempt(a) ==
    IF a = current /\ verdict = "running"
    THEN \/ a < MaxAttempts /\ current' = a + 1 /\ UNCHANGED verdict
         \/ a = MaxAttempts /\ verdict' = "failed" /\ UNCHANGED current
    ELSE UNCHANGED server

\* The row just created has no key, and nothing but its id could tell.
Tear(a) ==
    torn' = IF pc[a] = "link" /\ mode # "derived" THEN torn \union {fresh[a][1]} ELSE torn

Stop(a) ==
    /\ pc[a] \in Active
    /\ Tear(a)
    /\ Goto(a, "failed")
    /\ fresh' = [fresh EXCEPT ![a] = NoPair]
    /\ UNCHANGED <<mode, configured, batch, todo, unread, existing, stats, store, overlapped, passed>>

\* An error from the destination, a missing id, or the death of the worker.
Fail(a) == Stop(a) /\ NextAttempt(a)

\* An auth error is not retried.
Reject(a) ==
    /\ Stop(a)
    /\ verdict' = IF a = current /\ verdict = "running" THEN "auth" ELSE verdict
    /\ UNCHANGED current

\* No heartbeat came in time.  The attempt goes on all the same.
TimeOut(a) ==
    /\ a = current /\ verdict = "running" /\ pc[a] \in Active
    /\ NextAttempt(a)
    /\ overlapped' = TRUE
    /\ UNCHANGED <<mode, configured, batch, attempts, store, torn, passed>>

\* A LinkStore that is not durable starts empty with the worker.
LoseLinks ==
    /\ mode \in {"linked", "derived"}
    /\ losses < MaxLosses /\ losses' = losses + 1
    /\ \A a \in Attempt : pc[a] \notin Active
    /\ found' = [k \in Key |-> {}]
    /\ torn' = IF mode = "linked" THEN Key ELSE torn
    /\ UNCHANGED <<mode, configured, batch, attempts, server, copies, data, overlapped,
                   passed>>

Step(a) ==
    \/ Begin(a) \/ NotConfigured(a) \/ Query(a)
    \/ \E k \in Key : MoveUp(a, k) \/ Skip(a, k) \/ Update(a, k) \/ Create(a, k)
    \/ Link(a) \/ Complete(a)

Failure(a) == Fail(a) \/ Reject(a) \/ TimeOut(a)

Next == LoseLinks \/ \E a \in Attempt : Step(a) \/ Failure(a)

Spec == Init /\ [][Next]_vars

-----------------------------------------------------------------------------
(***************************************************************************)
(* Properties.                                                             *)
(***************************************************************************)
OneCopy(k) == \A r, s \in copies[k] : r = s

\* As long as the server never gives up a running attempt, a key gets a second
\* row only after an attempt died between creating a row and linking it, after a
\* LinkStore lost its links, when its row moved out of a scan, or when the key
\* column does not give the key back.
SerialAttemptsDoNotDuplicate ==
    ~overlapped => \A k \in Key \ (torn \union passed \union Unanswered) : OneCopy(k)

\* A batch reported done is stored: every record that was not filtered shows
\* its last data on a row of its key, and the next run can find a row, if the
\* destination gives the key back.
DoneMeansStored ==
    verdict = "done" => \A k \in Keys \ Filtered :
        /\ \E r \in copies[k] :
              data[r] \in Places(k) /\ \A n \in Places(k) : n <= data[r]
        /\ losses = 0 /\ k \notin Unanswered => found[k] # {}

\* "so created+updated+skipped == total still holds".
StatsAddUp ==
    \A a \in Attempt : pc[a] = "done" =>
        stats[a].created + stats[a].updated + stats[a].skipped = Len(batch)

\* A key that query_existing_ids answers, it answers from then on, by a row
\* that was made for that key, unless the LinkStore is lost.
AnswersLast ==
    \A k \in Key :
        /\ found'[k] \subseteq copies'[k]
        /\ found[k] # {} /\ losses' = losses => found'[k] # {}
AnswersStay == [][AnswersLast]_vars

\* README.md: "No duplicates, ever.  Re-runs and retries update the existing
\* row instead of creating a second copy."
NoDuplicates == \A k \in Key : OneCopy(k)

-----------------------------------------------------------------------------
(***************************************************************************)
(* The invariant behind SerialAttemptsDoNotDuplicate.                      *)
(***************************************************************************)
\* Until the server gives up a running attempt, only the current one runs.
OneAtATime ==
    ~overlapped => \A a \in Attempt : pc[a] \in Active => a = current /\ verdict = "running"

Linking(k) == \E a \in Attempt : pc[a] = "link" /\ fresh[a][1] = k

Astray == torn \union passed \union Unanswered

\* A row answers its key, unless its link is being made.
RowsAnswer ==
    ~overlapped /\ mode # "derived" =>
        \A k \in Key \ Astray : copies[k] # {} => found[k] # {} \/ Linking(k)

\* What the running attempt is going to create does not exist.
CreatesMissing ==
    ~overlapped /\ mode # "derived" =>
        \A a \in Attempt : pc[a] \in Active =>
            /\ pc[a] # "query" => unread[a] = {}
            /\ \A k \in todo[a] \ (Astray \union unread[a]) :
                  existing[a][k] = NoRow => copies[k] = {}

SerialInv == OneAtATime /\ RowsAnswer /\ CreatesMissing /\ SerialAttemptsDoNotDuplicate

\* Ids derived from the keys leave one row per key.
DerivedInv == mode = "derived" => \A k \in Key : copies[k] \subseteq {k}
=============================================================================
