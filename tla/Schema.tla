-------------------------------- MODULE Schema --------------------------------
(***************************************************************************)
(* A table made from a sample: bootstrap_schema samples a source, infers a  *)
(* neutral schema and has Notion create a table from it, once; then records *)
(* are written to the table in Notion's wire form and read back by the      *)
(* Notion source, while humans rename its columns.                          *)
(***************************************************************************)
EXTENDS Naturals, Sequences, FiniteSets

CONSTANTS Column,      \* names of columns
          MaxTables    \* bound: tables created, and columns renamed

ASSUME SchemaAssumption == MaxTables \in Nat \ {0} /\ {"-", "renamed"} \cap Column = {}

VARIABLES wiring,      \* [title, key, synced, override, dates, anchored]
          records,     \* what the source has, each a function from Column
          limit,       \* --sample
          memory,      \* destination.data_source_id in this process, 0 unset
          dsid,        \* the id the application is configured with
          inferred,    \* the schema of this run, {} before
          tables,      \* the tables in Notion: sequence of sets of columns
          known,       \* the columns a session read of its table, {} if it could not
          informed,    \* history: the last write knew the columns as they were
          cells,       \* what was written last: column -> wire form
          refused,     \* the columns for which the service refused it
          back,        \* the row as the Notion source read it
          written      \* which record that was, 0 for none

schemaVars == <<wiring, records, limit, memory, dsid, inferred, tables,
                known, informed, cells, refused, back, written>>

Scalar == {"text", "lookalike", "number", "checkbox", "multi_select", "date", "datetime"}
Shape == Scalar \cup {"absent", "none"}
Blank == [c \in Column |-> "none"]
Nameless == "-"        \* an optional role no column has

-----------------------------------------------------------------------------
(* Inference. *)
Dates == {"date", "datetime"}
KindOf(v) == CASE v \in Dates -> [kind |-> "date", time |-> v = "datetime"]
               [] v = "lookalike" -> [kind |-> "text", time |-> FALSE]
               [] OTHER -> [kind |-> v, time |-> FALSE]
KnownKind(kind) == kind \in {"text", "number", "checkbox", "multi_select", "select", "date"}

Sampled == SubSeq(records, 1, limit)
ShapesOf(c) == {Sampled[i][c] : i \in DOMAIN Sampled} \ {"absent", "none"}
Observed == {c \in Column : \E i \in DOMAIN Sampled : Sampled[i][c] # "absent"}
Overrides == {o \in {wiring.override} : o.column # Nameless}

\* mutant of Resolved: a conflict takes the kind of the first record.
ResolvedByFirst(c) ==
    IF \E o \in Overrides : o.column = c THEN {[kind |-> wiring.override.kind, time |-> FALSE]}
    ELSE IF ShapesOf(c) = {} THEN {}
    ELSE IF Sampled[1][c] \in ShapesOf(c) THEN {KindOf(Sampled[1][c])}
    ELSE {KindOf(v) : v \in ShapesOf(c)}

\* What is known of a column's kind: nothing, one kind, or a conflict.
Resolved(c) ==
    LET kinds == {KindOf(v) : v \in ShapesOf(c)}
    IN IF \E o \in Overrides : o.column = c THEN {[kind |-> wiring.override.kind, time |-> FALSE]}
       ELSE IF Cardinality(kinds) > 1 THEN {[kind |-> "text", time |-> FALSE]}
       ELSE kinds
RoleOf(c) == IF c = wiring.title THEN "title" ELSE IF c = wiring.key THEN "key"
             ELSE IF c = wiring.synced THEN "synced" ELSE "normal"
DefaultKind == [title |-> {"text"}, key |-> {"text"}, synced |-> {"date"}, normal |-> {}]
ColumnFor(c) ==
    LET kinds == IF Resolved(c) # {} THEN Resolved(c)
                 ELSE {[kind |-> k, time |-> FALSE] : k \in DefaultKind[RoleOf(c)]}
    IN {[name |-> c, role |-> RoleOf(c), kind |-> k.kind, time |-> k.time] : k \in kinds}
InferSchema ==
    UNION {ColumnFor(c) : c \in Observed \cup {o.column : o \in Overrides}
                             \cup ({wiring.title, wiring.key, wiring.synced} \ {Nameless})}

(* The table. *)
DdlType(c) == IF c.role = "title" THEN "TITLE"
              ELSE [text |-> "RICH_TEXT", number |-> "NUMBER", checkbox |-> "CHECKBOX",
                    multi_select |-> "MULTI_SELECT", select |-> "SELECT", date |-> "DATE"][c.kind]
\* label is the name now; options are what gives away a column's stable id.
CreateColumns(schema) ==
    {[id |-> c.name, label |-> c.name, type |-> DdlType(c)] : c \in schema}
Titled(schema) == \E c \in schema : c.role = "title"
\* Which name now has the column that had this one (field ids survive a rename).
ParseState(table) == {c \in table : c.type \in {"SELECT", "MULTI_SELECT"}}
FieldSpecs(table, c) == {f.label : f \in {g \in ParseState(table) : g.id = c}}

(* Notion's wire form, what a column takes, and the way back. *)
Wire(c, v) ==
    IF v \in {"absent", "none"} THEN "none"
    ELSE IF c \in wiring.dates THEN "date"
    ELSE CASE v = "checkbox" -> "yesno"
           [] v = "number" -> "number"
           [] v = "multi_select" -> "json"
           [] v = "lookalike" -> "lookalike"
           [] OTHER -> "text"
Takes(type, wire) ==
    CASE type \in {"TITLE", "RICH_TEXT"} -> wire \in {"text", "lookalike", "yesno", "json"}
      [] type = "NUMBER" -> wire = "number"
      [] type = "CHECKBOX" -> wire = "yesno"
      [] type = "MULTI_SELECT" -> wire = "json"
      [] type = "SELECT" -> wire \in {"text", "lookalike"}
      [] type = "DATE" -> wire = "date"
DecodeValue(wire) ==
    CASE wire = "yesno" -> {"checkbox"}
      [] wire = "json" -> {"multi_select"}
      [] wire = "lookalike" -> {"multi_select", "checkbox"}
      [] wire \in {"text", "number", "date"} -> {"text"}
      [] wire = "none" -> {"none"}
\* A result may come as a markdown table, in which an empty cell is a text.
RowsFromResult(wire, markdown) == IF wire = "none" /\ markdown THEN "text" ELSE wire

-----------------------------------------------------------------------------
SchemaInit ==
    /\ wiring = [title |-> Nameless, key |-> Nameless, synced |-> Nameless,
                 override |-> [column |-> Nameless, kind |-> "text"], dates |-> {}, anchored |-> FALSE]
    /\ records = <<>> /\ limit = 0 /\ memory = 0 /\ dsid = 0 /\ inferred = {}
    /\ tables = <<>> /\ known = {} /\ informed = FALSE
    /\ cells = Blank /\ refused = {} /\ back = Blank /\ written = 0

Unwired == wiring.title = Nameless
WireTable(w, rs, n) ==
    /\ Unwired
    /\ wiring' = w /\ records' = rs /\ limit' = n
    /\ UNCHANGED <<memory, dsid, inferred, tables, known, informed, cells, refused,
                   back, written>>

\* bootstrap_schema starts: the application's configuration, a sample, a schema.
\* An empty sample and a kind nobody knows end it.
Generate ==
    /\ ~Unwired /\ inferred = {}
    /\ Sampled # <<>> /\ \A o \in Overrides : KnownKind(o.kind)
    /\ memory' = dsid /\ inferred' = InferSchema
    /\ UNCHANGED <<wiring, records, limit, dsid, tables, known, informed, cells, refused,
                   back, written>>

\* ensure_schema creates only if no table is configured; the answer may be lost.
EnsureSchema ==
    /\ inferred # {} /\ memory = 0 /\ Titled(inferred) /\ Len(tables) < MaxTables
    /\ tables' = Append(tables, CreateColumns(inferred))
    /\ \/ memory' = Len(tables') /\ inferred' = inferred
       \/ memory' = 0 /\ inferred' = {}
    /\ UNCHANGED <<wiring, records, limit, dsid, known, informed, cells, refused, back, written>>

\* The script ends; its user configures the id it printed, or does not.
EndGenerate ==
    /\ inferred # {} /\ memory # 0
    /\ inferred' = {} /\ memory' = 0 /\ dsid' \in {dsid, memory} /\ known' = {}
    /\ UNCHANGED <<wiring, records, limit, tables, informed, cells, refused, back, written>>

HumanRenames ==
    /\ dsid # 0
    /\ \E c \in tables[dsid] :
          /\ c.label = c.id
          /\ tables' = [tables EXCEPT ![dsid] = (@ \ {c}) \cup {[c EXCEPT !.label = "renamed"]}]
          /\ \A d \in tables[dsid] : d.label # "renamed"
    /\ UNCHANGED <<wiring, records, limit, memory, dsid, inferred, known, informed, cells, refused,
                   back, written>>

\* A session reads which columns there are, once; it may not be able to.
ReadColumns ==
    /\ dsid # 0
    /\ known' \in {{f.label : f \in tables[dsid]}, {}}
    /\ UNCHANGED <<wiring, records, limit, memory, dsid, inferred, tables, informed, cells, refused,
                   back, written>>

\* A sync writes record i.  An application that anchored its fields writes to the
\* names they have now; columns not known to the session are left out, if it knows
\* any.  The stamp is put in after that, whatever the columns are.
NameNow(c) == IF wiring.anchored /\ FieldSpecs(tables[dsid], c) # {}
              THEN CHOOSE n \in FieldSpecs(tables[dsid], c) : TRUE ELSE c
TargetColumn(c) ==
    {f \in tables[dsid] : f.label = IF c = wiring.synced THEN c ELSE NameNow(c)}
Forms(i, c) ==
    {w \in {Wire(c, records[i][c])} : w # "none" /\ (known = {} \/ NameNow(c) \in known)}
        \cup (IF c = wiring.synced THEN {"date"} ELSE {})
\* The service takes no value for a column it does not have or of another type,
\* and then nothing of the record.
Refuses(i, c) == \E w \in Forms(i, c) : \A f \in TargetColumn(c) : ~Takes(f.type, w)
WriteSample(i) ==
    /\ dsid # 0 /\ written # i
    /\ refused' = {c \in Column : Refuses(i, c)}
    /\ cells' = [c \in Column |-> IF refused' # {} \/ Forms(i, c) = {} THEN "none"
                                 ELSE CHOOSE w \in Forms(i, c) : TRUE]
    /\ written' = i /\ informed' = (known = {f.label : f \in tables[dsid]}) /\ back' = Blank
    /\ UNCHANGED <<wiring, records, limit, memory, dsid, inferred, tables, known>>

ReadRow ==
    /\ written # 0 /\ refused = {} /\ back = Blank
    /\ \E markdown \in BOOLEAN :
          back' \in {b \in [Column -> {"none", "text", "checkbox", "multi_select"}] :
                       \A c \in Column : b[c] \in DecodeValue(RowsFromResult(cells[c], markdown))}
    /\ UNCHANGED <<wiring, records, limit, memory, dsid, inferred, tables, known, informed,
                   cells, refused, written>>

-----------------------------------------------------------------------------
\* Properties.

SchemaTypeOK ==
    /\ limit \in Nat /\ \A i \in DOMAIN records : records[i] \in [Column -> Shape]
    /\ memory \in 0 .. Len(tables) /\ dsid \in 0 .. Len(tables) /\ Len(tables) <= MaxTables
    /\ known \subseteq Column \cup {"renamed"} /\ informed \in BOOLEAN
    /\ refused \subseteq Column /\ written \in 0 .. Len(records)

\* What the application's declarations say and the sample shows go together:
\* dates, and nothing else, are declared as dates; a column with a conflict holds
\* no numbers (they are written as they are) and no dates; the title is a text;
\* nothing but the sync writes the column it stamps; no override.
Plain(c) ==
    /\ \A o \in Overrides : o.column # c
    /\ IF c \in wiring.dates THEN ShapesOf(c) \in SUBSET Dates /\ Cardinality(ShapesOf(c)) < 2
       ELSE ShapesOf(c) \cap Dates = {}
    /\ Cardinality(ShapesOf(c)) > 1 => "number" \notin ShapesOf(c)
    /\ RoleOf(c) = "title" => "number" \notin ShapesOf(c) /\ c \notin wiring.dates
    /\ RoleOf(c) = "synced" => ShapesOf(c) = {}

\* The table that was generated from a sample takes every record of the sample:
\* it has one title and each column once; Notion refuses no value in a column
\* whose declarations fit, no value is left out, and the Notion source reads texts,
\* checkboxes and lists back as what they were.  When somebody renamed the column:
\* its value is left out, not refused, if the session read the columns since (and
\* it is written, if the application anchored it and it has options).  Not so the
\* stamp, which is sent whatever the session knows: once its column has another
\* name every write is refused as a whole.
SchemaFits ==
    dsid # 0 =>
        /\ Cardinality({c \in tables[dsid] : c.type = "TITLE"}) = 1
        /\ \A c, d \in tables[dsid] : c.id = d.id => c = d
        /\ \A c \in Column : written \in 1 .. limit /\ Plain(c) =>
              LET v == records[written][c]
                  f == {g \in tables[dsid] : g.id = c}
                  kept == \A g \in f : g.label = c
                  followed == informed /\ wiring.anchored /\ \A g \in f : g.type = "MULTI_SELECT"
              IN /\ kept \/ (informed /\ RoleOf(c) # "synced") => c \notin refused
                 /\ v \notin {"absent", "none"} => f # {}
                 /\ refused = {} /\ v \notin {"absent", "none"} /\ (kept \/ followed)
                       => cells[c] # "none"
                 /\ back # Blank /\ cells[c] # "none" /\ v # "lookalike" /\ RoleOf(c) # "synced"
                       => back[c] = IF v \in {"checkbox", "multi_select"} THEN v ELSE "text"
=============================================================================
