-------------------------- MODULE EntryUpsert_proofs --------------------------
(***************************************************************************)
(* Optimistic locking of Contentful's entries, for any number of attempts,  *)
(* retries, failures and edits by humans: a version an attempt holds tells  *)
(* it which edition it has seen.                                            *)
(***************************************************************************)
EXTENDS EntryUpsert, TLAPS

\* What the version that attempt w holds says, as long as it is the entry's own:
\* before a write, that w has seen the edition it is going to replace; before a
\* publication through REST, that the edition is the one w wrote.
Seen(w) ==
    /\ read[w] <= version
    /\ pc[w] = "put" /\ read[w] = version /\ ~(path = "mcp" /\ creating[w]) => saw[w] = edition
    /\ pc[w] = "publish" /\ path = "rest" /\ read[w] = version => wrote[w] = edition

\* The inductive invariant; nothing happens before there is a path.
VersionsTell ==
    /\ UpsertTypeOK
    /\ path = "none" => \A w \in Writer : pc[w] = "idle"
    /\ \A w \in Writer : Seen(w)

LEMMA InitTells == ASSUME UpsertInit PROVE VersionsTell
<1>1. UpsertTypeOK
  <2>1. path \in Paths \cup {"none"} /\ publish \in BOOLEAN /\ linked \in BOOLEAN
    BY DEF UpsertInit
  <2>2. {version, edition, basis, live, events} \subseteq Nat
    BY DEF UpsertInit
  <2>3. pc \in [Writer -> {"idle", "version", "put", "link", "publish", "done", "failed",
                          "second"}]
    BY DEF UpsertInit
  <2>4. creating \in [Writer -> BOOLEAN]
    BY DEF UpsertInit
  <2>5. read \in [Writer -> Nat] /\ saw \in [Writer -> Nat] /\ wrote \in [Writer -> Nat]
    BY DEF UpsertInit
  <2> QED BY <2>1, <2>2, <2>3, <2>4, <2>5 DEF UpsertTypeOK
<1>2. ASSUME NEW w \in Writer PROVE Seen(w)
  <2>1. pc[w] = "idle" /\ read[w] = 0 /\ version = 0
    BY DEF UpsertInit
  <2> QED BY <2>1 DEF Seen
<1> QED BY <1>1, <1>2 DEF UpsertInit, VersionsTell

\* An attempt whose own part of the state a step leaves alone keeps what it knows,
\* if the step leaves the entry alone, too, or gives it a higher version.
LEMMA Untouched ==
  ASSUME VersionsTell, UpsertTypeOK', path' = path, NEW w \in Writer,
         pc'[w] = pc[w], creating'[w] = creating[w], read'[w] = read[w],
         saw'[w] = saw[w], wrote'[w] = wrote[w],
         version' > version \/ (version' = version /\ edition' = edition)
  PROVE  Seen(w)'
  BY DEF VersionsTell, UpsertTypeOK, Seen

LEMMA TypeKept == ASSUME UpsertTypeOK, UpsertNext PROVE UpsertTypeOK'
<1> USE EntryAssumption
<1>1. CASE \E p \in Paths, b \in BOOLEAN : BeginUpsert(p, b)
  BY <1>1 DEF UpsertTypeOK, BeginUpsert, entryStore, attemptVars, Paths
<1>2. ASSUME NEW w \in Writer, Call(w) PROVE UpsertTypeOK'
  <2>1. CASE StartAttempt(w)
    BY <2>1 DEF UpsertTypeOK, StartAttempt, Goto, entryStore
  <2>2. CASE EntryVersion(w)
    BY <2>2 DEF UpsertTypeOK, EntryVersion, Goto, entryStore
  <2>3. CASE UpsertEntry(w)
    BY <2>3 DEF UpsertTypeOK, UpsertEntry, Store, Goto, entryStore
  <2>4. CASE PublishEntry(w)
    BY <2>4 DEF UpsertTypeOK, PublishEntry, Goto
  <2>5. CASE Link(w)
    BY <2>5 DEF UpsertTypeOK, Link, Go, Goto, entryStore
  <2>6. CASE McpCreate(w)
    BY <2>6 DEF UpsertTypeOK, McpCreate, Store, Goto, entryStore
  <2>7. CASE McpUpdate(w)
    BY <2>7 DEF UpsertTypeOK, McpUpdate, Store, Go, Goto, entryStore
  <2>8. CASE MaybePublish(w)
    BY <2>8 DEF UpsertTypeOK, MaybePublish, Goto
  <2> QED BY <1>2, <2>1, <2>2, <2>3, <2>4, <2>5, <2>6, <2>7, <2>8 DEF Call
<1>3. ASSUME NEW w \in Writer, Fail(w) PROVE UpsertTypeOK'
  BY <1>3 DEF UpsertTypeOK, Fail, Goto, entryStore
<1>4. CASE HumanSaves
  BY <1>4 DEF UpsertTypeOK, HumanSaves, attemptVars
<1> QED BY <1>1, <1>2, <1>3, <1>4 DEF UpsertNext

\* What a step of attempt w does to what w itself knows, and to the others.
LEMMA TellsKept == ASSUME VersionsTell, UpsertNext PROVE VersionsTell'
<1> USE DEF VersionsTell
<1>1. UpsertTypeOK'
  BY TypeKept
<1>2. CASE \E p \in Paths, b \in BOOLEAN : BeginUpsert(p, b)
  <2>1. path' # "none" /\ version' = version
    BY <1>2 DEF BeginUpsert, Paths, entryStore
  <2>2. \A w \in Writer : pc'[w] = "idle" /\ read'[w] = read[w]
    BY <1>2 DEF BeginUpsert, attemptVars
  <2> QED BY <1>1, <2>1, <2>2 DEF Seen
<1>3. CASE HumanSaves
  <2>1. path' = path /\ version' > version
    BY <1>3 DEF HumanSaves, UpsertTypeOK
  <2>2. UNCHANGED attemptVars
    BY <1>3 DEF HumanSaves
  <2>3. \A w \in Writer : Seen(w)'
    BY <1>1, <2>1, <2>2, Untouched DEF attemptVars
  <2> QED BY <1>1, <2>1, <2>2, <2>3 DEF attemptVars
<1>4. ASSUME NEW w \in Writer, Call(w) \/ Fail(w) PROVE VersionsTell'
  <2> USE DEF Goto, Go
  <2>1. path # "none" /\ path' = path
    BY <1>4 DEF Call, StartAttempt, EntryVersion, UpsertEntry, PublishEntry, Link, McpCreate,
                McpUpdate, MaybePublish, Fail, UpsertTypeOK
  <2>2. version' > version \/ (version' = version /\ edition' = edition)
    BY <1>4 DEF Call, StartAttempt, EntryVersion, UpsertEntry, PublishEntry, Link, McpCreate,
                McpUpdate, MaybePublish, Fail, Store, UpsertTypeOK, entryStore
  <2>3. ASSUME NEW v \in Writer, v # w PROVE Seen(v)'
    <3>1. pc'[v] = pc[v]
      BY <1>4, <2>3 DEF Call, StartAttempt, EntryVersion, UpsertEntry, PublishEntry, Link,
                  McpCreate, McpUpdate, MaybePublish, Fail, UpsertTypeOK
    <3>2. creating'[v] = creating[v] /\ saw'[v] = saw[v]
      BY <1>4, <2>3 DEF Call, StartAttempt, EntryVersion, UpsertEntry, PublishEntry, Link,
                  McpCreate, McpUpdate, MaybePublish, Fail, UpsertTypeOK
    <3>3. read'[v] = read[v] /\ wrote'[v] = wrote[v]
      BY <1>4, <2>3 DEF Call, StartAttempt, EntryVersion, UpsertEntry, PublishEntry, Link,
                  McpCreate, McpUpdate, MaybePublish, Fail, Store, UpsertTypeOK
    <3> QED BY <1>1, <2>1, <2>2, <3>1, <3>2, <3>3, Untouched
  <2>4. Seen(w)'
    <3>1. CASE StartAttempt(w)
      BY <3>1 DEF StartAttempt, Seen, UpsertTypeOK, entryStore
    <3>2. CASE EntryVersion(w)
      BY <3>2 DEF EntryVersion, Seen, UpsertTypeOK, entryStore
    <3>3. CASE UpsertEntry(w)
      BY <3>3 DEF UpsertEntry, Store, Seen, UpsertTypeOK, entryStore
    <3>4. CASE PublishEntry(w)
      BY <3>4 DEF PublishEntry, Seen, UpsertTypeOK
    <3>5. CASE Link(w)
      BY <3>5 DEF Link, Seen, UpsertTypeOK, entryStore
    <3>6. CASE McpCreate(w)
      BY <3>6 DEF McpCreate, Store, Seen, UpsertTypeOK, entryStore
    <3>7. CASE McpUpdate(w)
      BY <3>7 DEF McpUpdate, Store, Seen, UpsertTypeOK, entryStore
    <3>8. CASE MaybePublish(w)
      BY <3>8 DEF MaybePublish, Seen, UpsertTypeOK
    <3>9. CASE Fail(w)
      BY <3>9 DEF Fail, Seen, UpsertTypeOK, entryStore
    <3> QED BY <1>4, <3>1, <3>2, <3>3, <3>4, <3>5, <3>6, <3>7, <3>8, <3>9 DEF Call
  <2> QED BY <1>1, <2>1, <2>3, <2>4
<1> QED BY <1>2, <1>3, <1>4 DEF UpsertNext

LEMMA TellsStutter == ASSUME VersionsTell, UNCHANGED upsertVars PROVE VersionsTell'
  BY DEF VersionsTell, UpsertTypeOK, Seen, upsertVars, entryStore, attemptVars

\* A version an attempt holds that is still the entry's own tells the truth: the
\* edition it is about to replace is the one it has seen, the edition it is about to
\* publish the one it wrote.
THEOREM VersionsHold == UpsertSpec => []VersionsTell
<1>1. VersionsTell /\ [UpsertNext]_upsertVars => VersionsTell'
  BY TellsKept, TellsStutter
<1> QED BY InitTells, <1>1, PTL DEF UpsertSpec

\* Type correctness of the upsert.
THEOREM UpsertTypeCorrect == UpsertSpec => []UpsertTypeOK
<1>1. VersionsTell => UpsertTypeOK
  BY DEF VersionsTell
<1> QED BY VersionsHold, <1>1, PTL

-----------------------------------------------------------------------------
\* The detailed attempts implement the entry with optimistic locking.
LEMMA LockedInit == ASSUME UpsertInit PROVE Locked!Init
  BY DEF UpsertInit, Locked!Init

LEMMA LockedStep ==
  ASSUME VersionsTell, UpsertNext PROVE Locked!Next \/ UNCHANGED <<edition, basis, live>>
<1> USE DEF VersionsTell, entryStore, Locked!Next, Locked!Write, Locked!Publish
<1>1. CASE \E p \in Paths, b \in BOOLEAN : BeginUpsert(p, b)
  BY <1>1 DEF BeginUpsert
<1>2. ASSUME NEW w \in Writer, Call(w)
      PROVE  Locked!Next \/ UNCHANGED <<edition, basis, live>>
  <2>1. CASE StartAttempt(w) \/ EntryVersion(w) \/ Link(w)
    BY <2>1 DEF StartAttempt, EntryVersion, Link
  <2>2. CASE UpsertEntry(w)
    BY <2>2 DEF UpsertEntry, Store, Seen
  <2>3. CASE PublishEntry(w) \/ MaybePublish(w)
    BY <2>3 DEF PublishEntry, MaybePublish
  <2>4. CASE McpCreate(w)
    BY <2>4 DEF McpCreate, Store
  <2>5. CASE McpUpdate(w)
    BY <2>5 DEF McpUpdate, Store, Seen
  <2> QED BY <1>2, <2>1, <2>2, <2>3, <2>4, <2>5 DEF Call
<1>3. ASSUME NEW w \in Writer, Fail(w)
      PROVE  Locked!Next \/ UNCHANGED <<edition, basis, live>>
  BY <1>3 DEF Fail
<1>4. CASE HumanSaves
  BY <1>4 DEF HumanSaves
<1> QED BY <1>1, <1>2, <1>3, <1>4 DEF UpsertNext

\* Whoever writes, retries or publishes, by REST or by MCP: an edition is replaced
\* only by a writer who has seen it, and only what the entry holds goes live.
THEOREM LockedImplemented == UpsertSpec => NoLostEdit
<1>1. VersionsTell /\ [UpsertNext]_upsertVars => [Locked!Next]_(Locked!entryVars)
  BY LockedStep DEF upsertVars, entryStore, Locked!entryVars
<1> QED BY VersionsHold, LockedInit, <1>1, PTL DEF UpsertSpec, NoLostEdit, Locked!Spec

\* An attempt through REST makes public only the edition it wrote itself.
THEOREM PublishesOwnHolds == UpsertSpec => PublishesOwn
<1>1. ASSUME VersionsTell, UpsertNext, NEW w \in Writer,
             path = "rest", pc[w] = "publish", pc'[w] # "publish", live' # live
      PROVE  live' = wrote[w]
  <2> USE <1>1 DEF VersionsTell, UpsertTypeOK, Goto, Go, entryStore, attemptVars
  <2>1. CASE \E p \in Paths, b \in BOOLEAN : BeginUpsert(p, b)
    BY <2>1 DEF BeginUpsert
  <2>2. CASE HumanSaves
    BY <2>2 DEF HumanSaves
  <2>3. ASSUME NEW v \in Writer, Call(v) \/ Fail(v) PROVE live' = wrote[w]
    <3>1. PublishEntry(v)
      BY <2>3 DEF Call, StartAttempt, EntryVersion, UpsertEntry, Link, McpCreate, McpUpdate,
                  MaybePublish, Fail, Store
    <3>2. v = w
      BY <3>1 DEF PublishEntry
    <3> QED BY <3>1, <3>2 DEF PublishEntry, Seen
  <2> QED BY <2>1, <2>2, <2>3 DEF UpsertNext
<1>2. VersionsTell /\ [UpsertNext]_upsertVars =>
        [\A w \in Writer : path = "rest" /\ pc[w] = "publish" /\ pc'[w] # "publish" /\ live' # live
           => live' = wrote[w]]_upsertVars
  BY <1>1
<1> QED BY VersionsHold, <1>2, PTL DEF UpsertSpec, PublishesOwn
=============================================================================
