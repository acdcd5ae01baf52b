-------------------------------- MODULE Tools --------------------------------
(***************************************************************************)
(* What a host offers a model: tools whose arguments are a Go struct, their *)
(* schema (internal/jsonschema/schema.go), the registry and the hook table  *)
(* (core/tool.go, core/hook.go).  A Go type is a record; JSON is a record   *)
(* with its kind in j.  The schemas of nested types are recursive, so this  *)
(* module is for TLC.                                                       *)
(***************************************************************************)
EXTENDS Naturals, Sequences, FiniteSets, SequencesExt

(* ------------------------------- schemas -------------------------------- *)

Basic(k) == [k |-> k]
Ptr(t) == [k |-> "ptr", of |-> t]
Slice(t) == [k |-> "slice", of |-> t]
Struct(fields) == [k |-> "struct", fields |-> fields]

RECURSIVE Deref(_)
Deref(t) == IF t.k = "ptr" THEN Deref(t.of) ELSE t

\* fieldName: the tag "-" leaves a field out, another name replaces its own.
Skips(field) == ~field.exported \/ field.tag = "-"
FieldName(field) == IF field.tag = "" THEN field.go ELSE field.tag
SchemaFields(t) == SelectSeq(t.fields, LAMBDA f : ~Skips(f))

\* A field is required unless it is a pointer or omitempty.
Required(t) ==
    LET fields == SelectSeq(SchemaFields(t), LAMBDA f : ~f.omitempty /\ f.type.k # "ptr")
    IN [i \in DOMAIN fields |-> FieldName(fields[i])]

ByName(fields, name) == fields[CHOOSE i \in DOMAIN fields :
    FieldName(fields[i]) = name /\ \A j \in i + 1..Len(fields) : FieldName(fields[j]) # name]
NamesOf(fields) == {FieldName(fields[i]) : i \in DOMAIN fields}

RECURSIVE TypeSchema(_)
ObjectSchema(t) ==
    LET fields == SchemaFields(t) IN
    [type |-> "object", required |-> Required(t),
     props |-> [name \in NamesOf(fields) |-> TypeSchema(ByName(fields, name).type)]]
TypeSchema(type) ==
    LET t == Deref(type) IN
    CASE t.k = "string" -> [type |-> "string"]
      [] t.k = "bool" -> [type |-> "boolean"]
      [] t.k = "int" -> [type |-> "integer"]
      [] t.k = "float" -> [type |-> "number"]
      [] t.k = "slice" -> [type |-> "array", items |-> TypeSchema(t.of)]
      [] t.k = "map" -> [type |-> "object", required |-> <<>>, props |-> <<>>]
      [] t.k = "struct" -> ObjectSchema(t)
      [] OTHER -> [type |-> "any"]      \* left unconstrained

\* Of: what is no struct has no parameters.
Of(type) == IF Deref(type).k = "struct" THEN ObjectSchema(Deref(type)) ELSE TypeSchema(Basic("map"))

(* ------------------------------ JSON values ----------------------------- *)

\* What a schema lets a model write.
RECURSIVE Valid(_, _)
Valid(schema, v) ==
    CASE schema.type = "any" -> TRUE
      [] schema.type = "number" -> v.j \in {"integer", "number"}
      [] schema.type = "array" -> v.j = "array" /\ \A i \in DOMAIN v.items : Valid(schema.items, v.items[i])
      [] schema.type = "object" ->
            /\ v.j = "object"
            /\ ToSet(schema.required) \subseteq DOMAIN v.members
            /\ \A name \in DOMAIN schema.props \cap DOMAIN v.members : Valid(schema.props[name], v.members[name])
      [] OTHER -> v.j = schema.type

\* The field json.Unmarshal (external) stores a member in, 0 if none: the one of that
\* name, or else the first whose name is the same but for case.
LowerCase == [P |-> "p", Q |-> "q", X |-> "x"]
Fold(name) == IF name \in DOMAIN LowerCase THEN LowerCase[name] ELSE name
FieldAt(fields, name) ==
    LET exact == {i \in DOMAIN fields : FieldName(fields[i]) = name}
        folded == {i \in DOMAIN fields : Fold(FieldName(fields[i])) = Fold(name)}
        First(S) == CHOOSE i \in S : \A j \in S : i <= j
    IN IF exact # {} THEN First(exact) ELSE IF folded # {} THEN First(folded) ELSE 0

\* What json.Unmarshal takes for a type; null leaves everything as it is.
RECURSIVE Decodes(_, _)
Decodes(type, v) ==
    LET t == Deref(type) IN
    \/ v.j = "null" \/ t.k = "any"
    \/ t.k = "string" /\ v.j = "string"
    \/ t.k = "bool" /\ v.j = "boolean"
    \/ t.k = "int" /\ v.j = "integer"
    \/ t.k = "float" /\ v.j \in {"integer", "number"}
    \/ t.k = "slice" /\ v.j = "array" /\ \A i \in DOMAIN v.items : Decodes(t.of, v.items[i])
    \/ t.k = "map" /\ v.j = "object"
    \/ /\ t.k = "struct" /\ v.j = "object"
       /\ \A name \in DOMAIN v.members :
             LET i == FieldAt(SchemaFields(t), name) IN
             i # 0 => Decodes(SchemaFields(t)[i].type, v.members[name])

(* ------------------------ tools and their registry ---------------------- *)

DefineTool(name, params, run) == [name |-> name, schema |-> Of(params), params |-> params, run |-> run]

\* Broken: the tool runs with what could be decoded.
ExecuteAnyway(tool, args) == [ran |-> tool.run, err |-> tool.run = "fails"]

\* DefineTool: arguments that do not decode are a result the model can read.
Execute(tool, args) ==
    IF args.j # "none" /\ ~Decodes(tool.params, args) THEN [ran |-> "nothing", err |-> TRUE]
    ELSE [ran |-> tool.run, err |-> tool.run = "fails"]

\* newRegistry: the first tool of a name, in the order given.
FirstNamed(tools, name) == tools[CHOOSE i \in DOMAIN tools : tools[i].name = name /\ \A j \in 1..(i - 1) : tools[j].name # name]
NewRegistry(tools) ==
    [order |-> FoldLeft(LAMBDA acc, t : IF Contains(acc, t.name) THEN acc ELSE Append(acc, t.name), <<>>, tools),
     byName |-> [name \in {tools[i].name : i \in DOMAIN tools} |-> FirstNamed(tools, name)]]
List(r) == [i \in DOMAIN r.order |-> r.byName[r.order[i]]]
Has(r, name) == name \in DOMAIN r.byName
CallTool(r, name, args) == IF Has(r, name) THEN Execute(r.byName[name], args) ELSE [ran |-> "nothing", err |-> TRUE]

(* -------------------------------- hooks --------------------------------- *)

\* hooks: for each event its matchers, each with its hooks.  buildHooks names
\* them to the process, hookCallbacks finds them again.
HookCallbackId(event, i, j) == <<event, i, j>>
BuildHooks(hooks) == [e \in DOMAIN hooks |-> [i \in DOMAIN hooks[e] |-> [j \in DOMAIN hooks[e][i] |-> HookCallbackId(e, i, j)]]]
HookCallbacks(hooks) ==
    LET ids == UNION {UNION {{HookCallbackId(e, i, j) : j \in DOMAIN hooks[e][i]} : i \in DOMAIN hooks[e]} : e \in DOMAIN hooks}
    IN [id \in ids |-> hooks[id[1]][id[2]][id[3]]]
RunHook(hooks, id) == IF id \in DOMAIN HookCallbacks(hooks) THEN HookCallbacks(hooks)[id] ELSE "unknown hook callback"
=============================================================================
