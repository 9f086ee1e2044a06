----------------------------- MODULE EntryUpsert -----------------------------
(***************************************************************************)
(* Contentful: one record is written to its entry by attempts that may run  *)
(* at the same time (the server gave the first one up, or two routes share  *)
(* the entry), while humans edit the entry in the web application.          *)
(*   "rest"  GET the version, PUT at the id derived from the key with that  *)
(*           version, publish at the version the PUT returned, link         *)
(*   "mcp"   create (a new id), link, publish; or read the version, update  *)
(*           with it, publish.  publish_entry names no version, and what    *)
(*           goes wrong with it is ignored                                  *)
(***************************************************************************)
EXTENDS Naturals

CONSTANTS Writer,       \* attempts
          Retried,      \* those the server starts again when they fail
          MaxEvents     \* bound: what humans do, and attempts that fail

ASSUME EntryAssumption == Retried \subseteq Writer /\ MaxEvents \in Nat

VARIABLES path,       \* "none" (not begun), "rest" or "mcp"
          publish,    \* the destination's setting
          version,    \* the entry's version at the service, 0 if there is none
          edition,    \* history: how often its content was written
          basis,      \* history: the edition its last writer had seen
          live,       \* the edition that is published
          linked,     \* the LinkStore knows the entry
          pc,         \* "idle", "version", "put", "link", "publish", "done", "failed", "second"
          creating,   \* the attempt calls create: it found no link when it began
          read,       \* the version the attempt holds
          saw,        \* history: the edition when it read the version
          wrote,      \* history: the edition it wrote, 0 if it has not
          events      \* events so far

attemptVars == <<pc, creating, read, saw, wrote>>
entryStore == <<version, edition, basis, live>>
upsertVars == <<path, publish, entryStore, linked, attemptVars, events>>

Paths == {"rest", "mcp"}

UpsertInit ==
    /\ path = "none" /\ publish = FALSE
    /\ version = 0 /\ edition = 0 /\ basis = 0 /\ live = 0 /\ linked = FALSE
    /\ pc = [w \in Writer |-> "idle"] /\ creating = [w \in Writer |-> FALSE]
    /\ read = [w \in Writer |-> 0] /\ saw = [w \in Writer |-> 0] /\ wrote = [w \in Writer |-> 0]
    /\ events = 0

BeginUpsert(p, publishing) ==
    /\ path = "none" /\ path' = p /\ publish' = publishing
    /\ UNCHANGED <<entryStore, linked, attemptVars, events>>

-----------------------------------------------------------------------------
\* The service: a write with a version that is not the entry's is refused (409).
Goto(w, place) == pc' = [pc EXCEPT ![w] = place]

Store(w, seen) ==
    /\ version' = version + 1 /\ edition' = edition + 1 /\ basis' = seen
    /\ wrote' = [wrote EXCEPT ![w] = edition + 1]
    /\ read' = [read EXCEPT ![w] = version + 1]
    /\ UNCHANGED live

Go(w) == IF publish THEN "publish" ELSE "done"

\* mutant of StartAttempt: a retry goes on with the version it read before.
StartWithOldVersion(w) ==
    /\ path # "none"
    /\ pc[w] = "idle" \/ (pc[w] = "failed" /\ w \in Retried)
    /\ creating' = [creating EXCEPT ![w] = ~linked]
    /\ Goto(w, IF pc[w] = "failed" \/ (path = "mcp" /\ ~linked) THEN "put" ELSE "version")
    /\ UNCHANGED <<path, publish, entryStore, linked, read, saw, wrote, events>>

\* query_existing_ids, then create or update.
StartAttempt(w) ==
    /\ path # "none"
    /\ pc[w] = "idle" \/ (pc[w] = "failed" /\ w \in Retried)
    /\ creating' = [creating EXCEPT ![w] = ~linked]
    /\ Goto(w, IF path = "mcp" /\ ~linked THEN "put" ELSE "version")
    /\ UNCHANGED <<path, publish, entryStore, linked, read, saw, wrote, events>>

\* entry_version_or_none; get_entry.
EntryVersion(w) ==
    /\ pc[w] = "version"
    /\ read' = [read EXCEPT ![w] = version] /\ saw' = [saw EXCEPT ![w] = edition]
    /\ Goto(w, "put")
    /\ UNCHANGED <<path, publish, entryStore, linked, creating, wrote, events>>

\* mutant of UpsertEntry: the PUT names no version.
UpsertUnversioned(w) ==
    /\ path = "rest" /\ pc[w] = "put"
    /\ Store(w, saw[w])
    /\ Goto(w, IF publish THEN "publish" ELSE IF creating[w] THEN "link" ELSE "done")
    /\ UNCHANGED <<path, publish, linked, creating, saw, events>>

\* PUT /entries/{id}: create without a version, update with it.
UpsertEntry(w) ==
    /\ path = "rest" /\ pc[w] = "put"
    /\ IF read[w] = version
       THEN /\ Store(w, saw[w])
            /\ Goto(w, IF publish THEN "publish" ELSE IF creating[w] THEN "link" ELSE "done")
       ELSE /\ Goto(w, "failed")
            /\ UNCHANGED <<entryStore, read, wrote>>
    /\ UNCHANGED <<path, publish, linked, creating, saw, events>>

\* mutant of PublishEntry: publish whatever is there.
PublishUnversioned(w) ==
    /\ path = "rest" /\ pc[w] = "publish"
    /\ live' = edition /\ version' = version + 1
    /\ Goto(w, IF creating[w] THEN "link" ELSE "done")
    /\ UNCHANGED <<path, publish, edition, basis, linked, creating, read, saw, wrote, events>>

PublishEntry(w) ==
    /\ path = "rest" /\ pc[w] = "publish"
    /\ IF read[w] = version
       THEN /\ live' = edition /\ version' = version + 1
            /\ Goto(w, IF creating[w] THEN "link" ELSE "done")
       ELSE /\ Goto(w, "failed")
            /\ UNCHANGED <<live, version>>
    /\ UNCHANGED <<path, publish, edition, basis, linked, creating, read, saw, wrote, events>>

\* link_store.put
Link(w) ==
    /\ pc[w] = "link" /\ linked' = TRUE
    /\ Goto(w, IF path = "mcp" THEN Go(w) ELSE "done")
    /\ UNCHANGED <<path, publish, entryStore, creating, read, saw, wrote, events>>

\* create_entry makes a new entry; a second one is no longer followed here.
McpCreate(w) ==
    /\ path = "mcp" /\ pc[w] = "put" /\ creating[w]
    /\ IF edition = 0
       THEN Store(w, 0) /\ Goto(w, "link")
       ELSE Goto(w, "second") /\ UNCHANGED <<entryStore, read, wrote>>
    /\ UNCHANGED <<path, publish, linked, creating, saw, events>>

McpUpdate(w) ==
    /\ path = "mcp" /\ pc[w] = "put" /\ ~creating[w]
    /\ IF read[w] = version THEN Store(w, saw[w]) /\ Goto(w, Go(w))
       ELSE Goto(w, "failed") /\ UNCHANGED <<entryStore, read, wrote>>
    /\ UNCHANGED <<path, publish, linked, creating, saw, events>>

MaybePublish(w) ==
    /\ path = "mcp" /\ pc[w] = "publish"
    /\ live' = edition /\ version' = version + 1
    /\ Goto(w, "done")
    /\ UNCHANGED <<path, publish, edition, basis, linked, creating, read, saw, wrote, events>>

\* A call fails, or the worker dies; _maybe_publish swallows what its tool reports.
Fail(w) ==
    /\ pc[w] \in {"version", "put", "link", "publish"} /\ events < MaxEvents
    /\ \/ Goto(w, "failed")
       \/ path = "mcp" /\ pc[w] = "publish" /\ Goto(w, "done")
    /\ events' = events + 1
    /\ UNCHANGED <<path, publish, entryStore, linked, creating, read, saw, wrote>>

\* A human saves a draft, publishes it or does both.
HumanSaves ==
    /\ version > 0 /\ events < MaxEvents
    /\ version' = version + 1 /\ events' = events + 1
    /\ \/ edition' = edition + 1 /\ basis' = edition /\ UNCHANGED live
       \/ live' = edition /\ UNCHANGED <<edition, basis>>
    /\ UNCHANGED <<path, publish, linked, attemptVars>>

Call(w) ==
    \/ StartAttempt(w) \/ EntryVersion(w) \/ UpsertEntry(w) \/ PublishEntry(w) \/ Link(w)
    \/ McpCreate(w) \/ McpUpdate(w) \/ MaybePublish(w)

UpsertNext ==
    \/ \E p \in Paths, b \in BOOLEAN : BeginUpsert(p, b)
    \/ \E w \in Writer : Call(w) \/ Fail(w)
    \/ HumanSaves

UpsertSpec == UpsertInit /\ [][UpsertNext]_upsertVars

-----------------------------------------------------------------------------
\* Properties.

UpsertTypeOK ==
    /\ path \in Paths \cup {"none"} /\ publish \in BOOLEAN
    /\ {version, edition, basis, live, events} \subseteq Nat /\ linked \in BOOLEAN
    /\ pc \in [Writer -> {"idle", "version", "put", "link", "publish", "done", "failed", "second"}]
    /\ creating \in [Writer -> BOOLEAN]
    /\ read \in [Writer -> Nat] /\ saw \in [Writer -> Nat] /\ wrote \in [Writer -> Nat]

\* Nobody's edition is written over unseen, by either path, whoever else writes,
\* publishes or retries in between; what goes live is what the entry holds.
Locked == INSTANCE Entry
NoLostEdit == Locked!Spec

\* A sync through REST never makes public what a human left as a draft: what goes
\* live by an attempt is the edition this attempt wrote.  (The MCP path publishes
\* whatever the entry holds by then.)
PublishesOwn ==
    [][\A w \in Writer : path = "rest" /\ pc[w] = "publish" /\ pc'[w] # "publish" /\ live' # live
          => live' = wrote[w]]_upsertVars

\* An attempt that is retried comes through once the others leave the entry alone:
\* it starts over with a version it read anew.  What it then reports as stored is
\* linked, and live if REST was to publish; a retry through MCP may end in a second
\* entry instead.  (Two attempts retried against each other may refuse each other
\* for ever: each one's PUT makes the other's publish fail.)
Through(w) ==
    \/ path = "mcp" /\ pc[w] = "second"
    \/ pc[w] = "done" /\ wrote[w] > 0 /\ linked /\ (path = "rest" /\ publish => live >= wrote[w])
UpsertsComeThrough == \A w \in Retried : path # "none" ~> Through(w)

=============================================================================
