----------------------------- MODULE ToolInput -----------------------------
(***************************************************************************)
(* How the arguments of a call become the input of a tool (tools/tool.py).  *)
(* The model is shown a JSON schema made from a pydantic model; what it sends *)
(* is checked by pydantic, by the schema, and by rules of the program's own,  *)
(* which refuse what pydantic would quietly drop or merge.  A pydantic model  *)
(* whose schema and behaviour could differ is refused when the tool is made.  *)
(*                                                                         *)
(* A shape is a pydantic model: fields [name, alias, dumped, complex,         *)
(* required, type], what becomes of other keys, how fields may be named, and  *)
(* the hooks it has.  A value is a scalar, a list or an object.              *)
(***************************************************************************)
EXTENDS Naturals, Sequences

CONSTANTS
    Shapes,    \* pydantic models tools are made from
    Arguments  \* objects a language model sends

VARIABLES
    shape, sent,
    tool,      \* "proposed", "refused" or "made"
    outcome    \* "none", "rejected", or what the runner of the tool is given

inputVars == <<shape, sent, tool, outcome>>

Rejected == [kind |-> "rejected"]
Default == [kind |-> "scalar", good |-> TRUE, json |-> TRUE, id |-> "default"]

RECURSIVE Audited(_), Structural(_), Canonical(_), Valid(_, _), Parsed(_, _),
          Refuses(_, _, _), Dumped(_, _, _), Conforms(_, _), Holds(_, _, _)

Fields(s) == {s.fields[i] : i \in DOMAIN s.fields}
Named(s, name) == CHOOSE f \in Fields(s) : f.name = name
Names(s) == {f.name : f \in Fields(s)}
ShownName(f) == IF f.alias = "none" THEN f.name ELSE f.alias

\* _field_input_paths: the keys a field is looked up under, the first one first.
InputPaths(s, f) ==
    (IF s.byAlias /\ f.alias # "none" THEN <<f.alias>> ELSE <<>>)
        \o (IF f.alias = "none" \/ s.byName THEN <<f.name>> ELSE <<>>)
Paths(s, f) == {InputPaths(s, f)[i] : i \in DOMAIN InputPaths(s, f)}
Present(s, f, object) == Paths(s, f) \cap DOMAIN object.at # {}
Consumed(s, f, object) ==
    LET i == CHOOSE j \in DOMAIN InputPaths(s, f) :
                /\ InputPaths(s, f)[j] \in DOMAIN object.at
                /\ \A k \in 1..(j - 1) : InputPaths(s, f)[k] \notin DOMAIN object.at
    IN  InputPaths(s, f)[i]
ConsumedKeys(s, object) == {Consumed(s, f, object) : f \in {g \in Fields(s) : Present(s, g, object)}}

-----------------------------------------------------------------------------
(* When the tool is made: _audit_pydantic_model.                            *)

\* Whether a model is somewhere inside a type.
Structural(type) == type.kind = "model" \/ (type.kind = "list" /\ Structural(type.of))

Inner(type) == IF type.kind = "list" THEN type.of ELSE type
Audited(s) ==
    /\ s.hook # "serializer"
    /\ \A f \in Fields(s) :
        /\ (f.alias # "none" => s.byAlias) /\ ~f.complex
        /\ f.dumped = ShownName(f)
        /\ \A g \in Fields(s) \ {f} : Paths(s, f) \cap Paths(s, g) = {}
        /\ Structural(f.type) => s.hook = "none"
        /\ Structural(f.type) => Audited(Inner(f.type).shape)

-----------------------------------------------------------------------------
(* When a call arrives.                                                     *)

\* _freeze_json: finite numbers, string keys, nothing that is not JSON.
Canonical(value) ==
    CASE value.kind = "scalar" -> value.json
      [] value.kind = "list" -> \A i \in DOMAIN value.items : Canonical(value.items[i])
      [] value.kind = "object" -> \A k \in DOMAIN value.at : Canonical(value.at[k])

\* What pydantic accepts of a type.
Valid(type, value) ==
    CASE type.kind = "scalar" -> value.kind = "scalar" /\ value.good
      [] type.kind = "list" ->
            value.kind = "list" /\ \A i \in DOMAIN value.items : Valid(type.of, value.items[i])
      [] type.kind = "model" ->
            /\ value.kind = "object"
            /\ \A f \in Fields(type.shape) :
                IF Present(type.shape, f, value)
                THEN Valid(f.type, value.at[Consumed(type.shape, f, value)]) ELSE ~f.required
            /\ type.shape.extra = "forbid" => DOMAIN value.at = ConsumedKeys(type.shape, value)

\* What pydantic makes of it: fields by name, and the other keys where they are allowed.  A
\* validator of the tool's author may shorten a list.
Parsed(type, value) ==
    CASE type.kind = "scalar" -> value
      [] type.kind = "list" -> [value EXCEPT !.items = [i \in DOMAIN @ |-> Parsed(type.of, @[i])]]
      [] type.kind = "model" ->
            LET s == type.shape
                Field(f) ==
                    IF ~Present(s, f, value) THEN Default
                    ELSE LET v == Parsed(f.type, value.at[Consumed(s, f, value)])
                         IN  IF s.hook = "validator" /\ v.kind = "list" /\ v.items # <<>>
                             THEN [v EXCEPT !.items = Tail(@)] ELSE v
                others == IF s.extra = "allow" THEN DOMAIN value.at \ ConsumedKeys(s, value) ELSE {}
            IN  [kind |-> "parsed", at |-> [n \in Names(s) |-> Field(Named(s, n))],
                 extra |-> [k \in others |-> value.at[k]]]

\* _reject_ignored_extras_in_value: keys that would be dropped or would hide a field, and lists
\* that changed their length.
Refuses(type, value, parsed) ==
    CASE type.kind = "scalar" -> FALSE
      [] type.kind = "list" ->
            \/ Len(parsed.items) # Len(value.items)
            \/ \E i \in DOMAIN value.items : Refuses(type.of, value.items[i], parsed.items[i])
      [] type.kind = "model" ->
            LET s == type.shape
            IN  \/ DOMAIN parsed.extra \cap Names(s) # {}
                \/ \E f \in Fields(s) :
                    Present(s, f, value)
                        /\ Refuses(f.type, value.at[Consumed(s, f, value)], parsed.at[f.name])
                \/ s.extra = "ignore" /\ DOMAIN value.at # ConsumedKeys(s, value)

\* model_dump: a key of a field hides the same key of what is extra.
Dumped(type, parsed, byAlias) ==
    CASE parsed.kind = "scalar" -> parsed
      [] parsed.kind = "list" ->
            [parsed EXCEPT !.items = [i \in DOMAIN @ |-> Dumped(type.of, @[i], byAlias)]]
      [] parsed.kind = "parsed" ->
            LET s == type.shape
                Key(f) == IF byAlias THEN f.dumped ELSE f.name
                keys == {Key(f) : f \in Fields(s)}
                Value(k) ==
                    IF k \in keys
                    THEN LET f == CHOOSE g \in Fields(s) : Key(g) = k
                         IN  Dumped(f.type, parsed.at[f.name], byAlias)
                    ELSE parsed.extra[k]
            IN  [kind |-> "object", at |-> [k \in keys \cup DOMAIN parsed.extra |-> Value(k)]]

\* The schema the model is shown: the names of the fields, closed unless extra keys are allowed
\* (_close_pydantic_object_schemas).
Conforms(type, value) ==
    CASE type.kind = "scalar" -> value.kind = "scalar" /\ value.good
      [] type.kind = "list" ->
            value.kind = "list" /\ \A i \in DOMAIN value.items : Conforms(type.of, value.items[i])
      [] type.kind = "model" ->
            LET s == type.shape
                shown == {ShownName(f) : f \in Fields(s)}
            IN  /\ value.kind = "object"
                /\ \A f \in Fields(s) :
                    IF ShownName(f) \in DOMAIN value.at
                    THEN \/ ~f.required /\ value.at[ShownName(f)] = Default
                         \/ Conforms(f.type, value.at[ShownName(f)])
                    ELSE ~f.required
                /\ s.extra # "allow" => DOMAIN value.at \subseteq shown

\* pydantic_input: what validate returns.
Input(type, value) ==
    IF ~Canonical(value) \/ ~Valid(type, value) THEN Rejected
    ELSE LET parsed == Parsed(type, value)
         IN  IF Refuses(type, value, parsed) \/ ~Conforms(type, Dumped(type, parsed, TRUE))
             THEN Rejected ELSE Dumped(type, parsed, FALSE)

-----------------------------------------------------------------------------
Root == [kind |-> "model", shape |-> shape]

InputInit ==
    /\ shape \in Shapes /\ sent \in Arguments
    /\ tool = "proposed" /\ outcome = [kind |-> "none"]

\* The tool is installed, or making it raises.
MakeTool ==
    /\ tool = "proposed"
    /\ tool' = IF Audited(shape) THEN "made" ELSE "refused"
    /\ UNCHANGED <<shape, sent, outcome>>

CallTool ==
    /\ tool = "made" /\ outcome.kind = "none"
    /\ outcome' = Input(Root, sent)
    /\ UNCHANGED <<shape, sent, tool>>

InputNext == MakeTool \/ CallTool

-----------------------------------------------------------------------------
(* What a tool is run with.                                                 *)

\* All that was sent is in what the tool gets, under the name of its field.
Holds(type, value, got) ==
    CASE type.kind = "scalar" -> got = value
      [] type.kind = "list" ->
            /\ Len(got.items) = Len(value.items)
            /\ \A i \in DOMAIN value.items : Holds(type.of, value.items[i], got.items[i])
      [] type.kind = "model" ->
            \A k \in DOMAIN value.at :
                \/ \E f \in Fields(type.shape) :
                    k \in Paths(type.shape, f) /\ Holds(f.type, value.at[k], got.at[f.name])
                \/ (\A f \in Fields(type.shape) : k \notin Paths(type.shape, f))
                    /\ k \in DOMAIN got.at /\ got.at[k] = value.at[k]
NothingDropped == tool = "made" /\ outcome.kind = "object" => Holds(Root, sent, outcome)

\* A call that follows the schema it was shown is accepted, if it is JSON, no other key of it has
\* the name of a field, and no validator of the author's interferes.
RECURSIVE Hides(_, _)
Hides(type, value) ==
    CASE type.kind = "scalar" \/ value.kind = "scalar" -> FALSE
      [] type.kind = "list" -> \E i \in DOMAIN value.items : Hides(type.of, value.items[i])
      [] type.kind = "model" ->
            \/ type.shape.hook = "validator"
            \/ (DOMAIN value.at \ ConsumedKeys(type.shape, value)) \cap Names(type.shape) # {}
            \/ \E f \in Fields(type.shape) :
                Present(type.shape, f, value)
                    /\ Hides(f.type, value.at[Consumed(type.shape, f, value)])
ShownIsAccepted ==
    tool = "made" /\ Canonical(sent) /\ Conforms(Root, sent) /\ ~Hides(Root, sent)
        => outcome.kind \in {"none", "object"}

\* tool.py:579, 653, 880: nothing a model sends is dropped or merged on the way to a tool, and what
\* follows the schema it was shown arrives.
InputsSound == NothingDropped /\ ShownIsAccepted
=============================================================================
