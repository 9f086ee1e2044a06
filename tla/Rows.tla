--------------------------------- MODULE Rows ---------------------------------
(***************************************************************************)
(* What a sync writes into a row: the way of one property of one item from  *)
(* the source's record through a route's ownership filter, the enrichment   *)
(* hook, the column filter and the destination's encoder, and of the key by *)
(* which the next sync finds the row again.  Humans edit the row too.       *)
(***************************************************************************)
EXTENDS Integers

CONSTANT MaxEdits      \* bound: edits at the source and of the row

ASSUME RowsAssumption == MaxEdits \in Nat

VARIABLES plan,        \* how the sync is configured, and which property is watched
          raw,         \* its value at the source, Missing if it has none
          row,         \* its value in the row, and whether the row can be found
          rows,        \* how many rows the item has
          edits,       \* edits so far; Unconfigured before there is a plan
          human,       \* history: a human was the last to change the row's value
          fresh        \* history: nothing happened since the last sync, in which no
                       \* call for more about the item failed

rowVars == <<plan, raw, row, rows, edits, human, fresh>>

Sources == {"github", "jira", "luma", "youtube", "contentful"}
Destinations == {"notion", "asana", "jira", "luma", "contentful"}
Roles == {"title", "text", "list", "date", "optional", "seed", "body"}

Unconfigured == MaxEdits + 1
Missing == -1          \* None, or a property left out
Empty == 0             \* "" or []
Fallback == 3          \* a placeholder the source makes up
Real == 1 .. 2
Value == {Missing, Empty, Fallback} \cup Real

Or(v, default) == IF v \in {Missing, Empty} THEN default ELSE v
Truthy(v) == Or(v, Missing)

-----------------------------------------------------------------------------
(* Records: what a source makes of a missing value. *)
ContentRecord(role, v) == IF role \in {"title", "text", "list"} THEN Or(v, Empty) ELSE v
GithubRecord(role, v) == IF role \in {"text", "list"} THEN Or(v, Empty) ELSE v
JiraRecord(role, v) == CASE role = "title" -> Or(v, Fallback)
                         [] role \in {"text", "list"} -> Or(v, Empty)
                         [] OTHER -> v
LumaRecord(role, v) == ContentRecord(role, IF role = "title" THEN Or(v, Fallback) ELSE v)
YouTubeRecord(role, v) == ContentRecord(role, IF role = "title" THEN Or(v, Fallback) ELSE v)
ContentfulRecord(role, v) ==
    ContentRecord(role, IF role \in {"title", "date"} THEN Or(v, Fallback) ELSE v)
ToRecord(source, role, v) ==
    CASE source = "jira" -> JiraRecord(role, v)
      [] source = "luma" -> LumaRecord(role, v)
      [] source = "youtube" -> YouTubeRecord(role, v)
      [] source = "contentful" -> ContentfulRecord(role, v)
\* GitHub joins its lists to text.
IsList == plan.role = "list" /\ plan.source # "github"

\* GitHub asks for languages, contributors and README one by one; a call that
\* fails leaves the record without them.
FetchReadme(v, failed) == IF plan.role = "body" /\ failed THEN Missing ELSE v
FetchLanguages(v, failed) == IF plan.role = "list" /\ failed THEN Missing ELSE v
RecordsForRepos(v, failed) ==
    GithubRecord(plan.role, FetchReadme(FetchLanguages(v, failed), failed))

(* The route: properties it does not own are left out; body is no property. *)
RestrictToOwned(v) == IF plan.owned \/ plan.role = "body" THEN v ELSE Missing
BuildTransform(v) == IF plan.restricted THEN RestrictToOwned(v) ELSE v

(* The enrichment hook: a label from a model, on create only. *)
Failed == -2           \* no model, an error, no answer
OffVocabulary == 4     \* a label the column does not offer
Labels == {Failed, OffVocabulary} \cup Real
Validate(label) == IF label = OffVocabulary THEN Empty ELSE label
Classify(label) == IF label = Failed THEN Missing ELSE Validate(label)
SessionEnrich(v, creating, label) ==
    IF plan.role = "seed" /\ creating THEN Or(Classify(label), v) ELSE v

\* mutant of KnownColumns: the key column is taken for unknown.
KnownColumnsButKey(readable) ==
    IF readable THEN {c \in {"value"} : plan.columns[c]} ELSE {}

(* The column filter; a schema that cannot be read filters nothing. *)
KnownColumns(readable) == IF readable THEN {c \in {"value", "key"} : plan.columns[c]} ELSE {}
\* mutant of DropUnknown: a schema that cannot be read drops everything.
DropUnknownAll(c, v, readable) == IF c \in KnownColumns(readable) THEN v ELSE Missing

DropUnknown(c, v, readable) ==
    IF KnownColumns(readable) = {} \/ c \in KnownColumns(readable) THEN v ELSE Missing

(* The encoders: Missing is not written. *)
NotionEncode(v) == IF plan.role = "date" \/ IsList THEN Truthy(v) ELSE v
NotionCreate(v, readable) ==
    IF plan.role = "body" THEN Truthy(v) ELSE NotionEncode(DropUnknown("value", v, readable))
\* mutant of NotionUpdate: create-only properties are written again.
NotionUpdateAll(v, readable) ==
    IF plan.role = "body" THEN Missing ELSE NotionEncode(DropUnknown("value", v, readable))

NotionUpdate(v, readable) ==
    IF plan.role = "body" \/ plan.createOnly THEN Missing
    ELSE NotionEncode(DropUnknown("value", v, readable))

Skipped(creating) == ~creating /\ plan.createOnly
EncodeTask(v, creating) ==
    CASE plan.role = "title" -> v
      [] plan.role = "body" -> Truthy(v)
      [] OTHER -> IF Skipped(creating) \/ ~plan.columns["value"] THEN Missing ELSE v
EncodeIssue(v, creating) == EncodeTask(v, creating)
EncodeEvent(v, creating) ==
    CASE plan.role = "title" -> v
      [] plan.role = "date" -> IF Skipped(creating) THEN Missing ELSE Truthy(v)
      [] OTHER -> Missing
EncodeFields(v, creating) ==
    IF plan.role = "body" \/ Skipped(creating) \/ ~plan.columns["value"] THEN Missing ELSE v

Encode(v, creating, readable) ==
    CASE plan.destination = "notion" -> IF creating THEN NotionCreate(v, readable)
                                        ELSE NotionUpdate(v, readable)
      [] plan.destination = "asana" -> EncodeTask(v, creating)
      [] plan.destination = "jira" -> EncodeIssue(v, creating)
      [] plan.destination = "luma" -> EncodeEvent(v, creating)
      [] plan.destination = "contentful" -> EncodeFields(v, creating)

\* Notion keeps the key in a column like any other; the rest apart from the record.
KeyInRecord == plan.restricted => plan.keyOwned
KeyWritten(readable) ==
    plan.destination = "notion" =>
        KeyInRecord /\ plan.columns["key"] /\ DropUnknown("key", 1, readable) = 1

-----------------------------------------------------------------------------
RowsInit ==
    /\ plan = [source |-> "github", destination |-> "notion", role |-> "text",
               createOnly |-> FALSE, restricted |-> FALSE, owned |-> TRUE, keyOwned |-> TRUE,
               columns |-> [c \in {"value", "key"} |-> TRUE]]
    /\ raw = Missing /\ row = [value |-> Empty, found |-> FALSE] /\ rows = 0
    /\ edits = Unconfigured /\ human = FALSE /\ fresh = FALSE

\* A seed comes from the hook, which only Notion has; the other values from the source.
Configure(p, v) ==
    /\ edits = Unconfigured /\ v # Missing
    /\ p.role = "seed" => p.destination = "notion" /\ p.createOnly
    /\ plan' = p /\ raw' = v /\ edits' = 0
    /\ UNCHANGED <<row, rows, human, fresh>>

\* The item changes; its property may go away, a GitHub repository's name may not.
SourceEdit(v) ==
    /\ edits < MaxEdits /\ v # raw
    /\ v \in {Missing, Empty} => ~(plan.source = "github" /\ plan.role = "title")
    /\ raw' = v /\ edits' = edits + 1 /\ fresh' = FALSE
    /\ UNCHANGED <<plan, row, rows, human>>

HumanEdit(v) ==
    /\ edits < MaxEdits /\ rows > 0
    /\ row' = [row EXCEPT !.value = v] /\ edits' = edits + 1
    /\ human' = TRUE /\ fresh' = FALSE
    /\ UNCHANGED <<plan, raw, rows>>

\* Someone renames the column that holds the key.
RenameKey ==
    /\ edits < MaxEdits /\ plan.destination = "notion" /\ plan.columns["key"]
    /\ plan' = [plan EXCEPT !.columns["key"] = FALSE]
    /\ row' = [row EXCEPT !.found = FALSE]
    /\ edits' = edits + 1 /\ fresh' = FALSE
    /\ UNCHANGED <<raw, rows, human>>

\* The value that one sync writes.
Fetched(failed) ==
    IF plan.role = "seed" THEN Missing
    ELSE IF plan.source = "github" THEN RecordsForRepos(raw, failed)
    ELSE ToRecord(plan.source, plan.role, raw)
Written(creating, failed, readable, label) ==
    LET record == BuildTransform(Fetched(failed))
        enriched == IF plan.destination = "notion" THEN SessionEnrich(record, creating, label)
                    ELSE record
    IN Encode(enriched, creating, readable)

\* A service with typed columns refuses a write that names one it does not have.
Accepts(v, readable) ==
    plan.destination = "notion" /\ ~readable =>
        /\ plan.role # "body" /\ v # Missing => plan.columns["value"]
        /\ KeyInRecord => plan.columns["key"]

Create(failed, readable, label) ==
    LET v == Written(TRUE, failed, readable, label) IN
    /\ ~row.found /\ rows < 2 /\ Accepts(v, readable)
    /\ row' = [value |-> Or(v, Empty), found |-> KeyWritten(readable)]
    /\ rows' = rows + 1 /\ human' = FALSE

Update(failed, readable, label) ==
    LET v == Written(FALSE, failed, readable, label) IN
    /\ row.found /\ Accepts(v, readable)
    /\ row' = [row EXCEPT !.value = IF v = Missing THEN @ ELSE v]
    /\ human' = (human /\ v = Missing)
    /\ UNCHANGED rows

\* An entry of Contentful without a title is not fetched.
Sync ==
    /\ edits # Unconfigured
    /\ plan.source = "contentful" /\ plan.role = "title" => raw \notin {Missing, Empty}
    /\ \E failed, readable \in BOOLEAN,
          label \in IF plan.role = "seed" THEN Labels ELSE {Failed} :
          /\ Create(failed, readable, label) \/ Update(failed, readable, label)
          /\ fresh' = ~failed
    /\ UNCHANGED <<plan, raw, edits>>

-----------------------------------------------------------------------------
\* Properties.

RowsTypeOK ==
    /\ plan.source \in Sources /\ plan.destination \in Destinations /\ plan.role \in Roles
    /\ raw \in Value /\ row.value \in Value \ {Missing} /\ row.found \in BOOLEAN
    /\ rows \in 0 .. 2 /\ edits \in 0 .. Unconfigured /\ {human, fresh} \subseteq BOOLEAN

\* An item never gets a second row, as long as the column that holds Notion's
\* key exists and the route owns it: neither the column filter, nor a schema
\* that could not be read, nor an update makes the next sync miss the row.
FoundAgain ==
    (plan.destination = "notion" =>
        plan.columns["key"] /\ (plan.restricted => plan.keyOwned)) => rows <= 1

\* A sync leaves a human's edit of a create-only property alone, whatever the
\* source or the model says meanwhile.  (Not so the title of an Asana, Jira or
\* Luma row and the body of an Asana or Jira row: those encoders write them
\* before they look at create_only_properties.)
WrittenAnyway ==
    \/ plan.role = "title" /\ plan.destination \in {"asana", "jira", "luma"}
    \/ plan.role = "body" /\ plan.destination \in {"asana", "jira"}
SeedsSurvive ==
    [][plan.createOnly /\ human /\ rows' = rows /\ edits' = edits /\ ~WrittenAnyway
         => row'.value = row.value]_rowVars

\* Right after a sync that was told everything the row shows the value the source
\* has, also where a human had changed it, and a title or text the source emptied
\* is emptied or replaced by the placeholder; for every property the route owns, the destination has a
\* place for, and is not create-only.  (Lists, dates and optional values that
\* the source clears stay: None is never written, and Notion skips what is empty.
\* A call of GitHub's that fails blanks the languages and authors of a row.)
Placed ==
    /\ plan.role # "seed" /\ ~plan.createOnly
    /\ plan.restricted => plan.owned
    /\ plan.destination \in {"notion", "asana", "jira", "contentful"} /\ plan.role # "title"
         => plan.columns["value"]
    /\ plan.destination \in {"notion", "contentful"} => plan.role # "body" /\ plan.columns["value"]
    /\ plan.destination = "luma" => plan.role \in {"title", "date"}
RowShowsSource ==
    fresh /\ Placed =>
        IF raw \in Real THEN row.value = raw
        ELSE plan.role \in {"title", "text"} => row.value \in {Empty, Fallback}
=============================================================================
