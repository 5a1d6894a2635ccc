-------------------------------- MODULE CApi --------------------------------
(***************************************************************************)
(* The C interface: engines, the process-wide type registries keyed by the *)
(* engine's address, and the strings that carry parameters in and results  *)
(* out.  new may put an engine at the address of one that was destroyed.   *)
(* A parameter string is a sequence of pieces with separators in between:  *)
(* a piece is a field, key=value, or a text without '='.  A value that has *)
(* a ';' in it is written as it is: what follows the ';' is a piece.       *)
(***************************************************************************)
EXTENDS MachineInt, Sequences, FiniteSets

CONSTANTS
  EngineAddresses,
  TypeNames,
  FieldNames,    \* names of an object's fields
  Texts,         \* what a caller gives as a value, up to its first ';'
  FieldValues,   \* sequences of fields a caller gives for an object
  Characters,    \* what names and messages consist of
  ResultLists,   \* what execute may return: sequences of [name, error]
  NoError,       \* result.exception has no value
  MaxEngines,    \* bound: engines created
  MaxTokens      \* bound: a parameter string with so many tokens does not grow

(* What stands between results, and in a result. *)
Separator == ";"
Colon == ":"

(* Texts as the conversions tell them apart: a "numeral" is one that strtol   *)
(* reads to its end, as number, a "fraction" one that only strtod does, a     *)
(* "word" any other; blanks says that there are blanks around it.             *)
TextClasses == {"true", "TRUE", "false", "FALSE", "", "numeral", "fraction", "word"}

(* The tokens of a parameter string.  An object's fields are written under    *)
(* its name, parameter.field; what follows a ';' in a value may lack it.      *)
Semicolon == [kind |-> "separator"]
Loose == [kind |-> "loose"]
FieldToken(key, value) == [kind |-> "field", key |-> key, value |-> value]
Prefixed(name) == <<"parameter", name>>
Bare(name) == <<"", name>>
FieldTokens ==
  {FieldToken(Prefixed(f), v) : f \in FieldNames, v \in Texts}
    \cup {FieldToken(Bare(f), v) : f \in FieldNames, v \in Texts}
Tokens == FieldTokens \cup {Semicolon, Loose}

(* A field of an object: the value, and what follows its first ';' if any. *)
ObjectFields ==
  [name : FieldNames, value : Texts, tail : {<<>>} \cup {<<x>> : x \in FieldTokens \cup {Loose}}]

ASSUME CApiAssumption ==
  /\ MaxEngines \in Nat /\ MaxTokens \in Nat
  /\ Texts \subseteq [text : TextClasses, number : Int, blanks : BOOLEAN]
  /\ FieldValues \subseteq Seq(ObjectFields)
  /\ ResultLists \subseteq Seq([name : Seq(Characters), error : Seq(Characters) \cup {NoError}])

VARIABLES
  engineAt,         \* engineAt[p]: number of the engine at p, 0 for none
  created,          \* engines created so far
  registeredTypes,  \* g_registered_types[p]: who registered which type
  typeRegistry,     \* g_type_registry[p], the same
  lastError,        \* last_error of the engine at p
  params,           \* the parameter string the caller has built for p
  meant,            \* the fields it has put into it, until split
  garbled,          \* an object was added to a string that was not empty
  split,            \* so was a value with a ';'
  results           \* the last results and the string made of them

capiVars == <<engineAt, created, registeredTypes, typeRegistry, lastError, params, meant,
              garbled, split, results>>

CApiInit ==
  /\ engineAt = [p \in EngineAddresses |-> 0] /\ created = 0
  /\ registeredTypes = [p \in EngineAddresses |-> {}]
  /\ typeRegistry = [p \in EngineAddresses |-> {}]
  /\ lastError = [p \in EngineAddresses |-> "none"]
  /\ params = <<>> /\ meant = <<>> /\ garbled = FALSE /\ split = FALSE
  /\ results = [of |-> <<>>, text |-> <<>>]

stringVars == <<params, meant, garbled, split, results>>

EngineCreate(p) ==
  /\ engineAt[p] = 0 /\ created < MaxEngines
  /\ engineAt' = [engineAt EXCEPT ![p] = created + 1] /\ created' = created + 1
  /\ lastError' = [lastError EXCEPT ![p] = "none"]
  /\ UNCHANGED <<registeredTypes, typeRegistry, stringVars>>

(* A bug: the types of a destroyed engine stay. *)
CleanupForgets(registry, p) == registry

(* cleanup_engine_registries *)
Cleanup(registry, p) == [registry EXCEPT ![p] = {}]
EngineDestroy(p) ==
  /\ engineAt[p] # 0
  /\ registeredTypes' = Cleanup(registeredTypes, p)
  /\ typeRegistry' = Cleanup(typeRegistry, p)
  /\ engineAt' = [engineAt EXCEPT ![p] = 0]
  /\ UNCHANGED <<created, lastError, stringVars>>

(* fastrules_engine_register_type and fastrules_register_type. *)
EngineRegisterType(p, t) ==
  /\ engineAt[p] # 0
  /\ registeredTypes' = [registeredTypes EXCEPT ![p] = @ \cup {<<engineAt[p], t>>}]
  /\ UNCHANGED <<engineAt, created, typeRegistry, lastError, stringVars>>
RegisterType(p, t) ==
  /\ engineAt[p] # 0
  /\ typeRegistry' = [typeRegistry EXCEPT ![p] = @ \cup {<<engineAt[p], t>>}]
  /\ UNCHANGED <<engineAt, created, registeredTypes, lastError, stringVars>>
IsRegistered(p, t) == \E r \in registeredTypes[p] : r[2] = t

-----------------------------------------------------------------------------
(* trim *)
Trim(v) == [v EXCEPT !.blanks = FALSE]

(* The value's type is guessed from its text; strtol's long is cast to an int. *)
ParseValue(v) ==
  CASE v.blanks                                      -> <<"string", v>>
    [] ~v.blanks /\ v.text \in {"true", "TRUE"}      -> <<"bool", TRUE>>
    [] ~v.blanks /\ v.text \in {"false", "FALSE"}    -> <<"bool", FALSE>>
    [] ~v.blanks /\ v.text = "numeral"               -> <<"int", CastToInt(v.number)>>
    [] ~v.blanks /\ v.text = "fraction"              -> <<"double", v.number>>
    [] ~v.blanks /\ v.text \in {"", "word"}          -> <<"string", v>>

(* parse_params: a key runs from behind the separator that ended the last   *)
(* value to the next '=', further separators and texts included.  gap       *)
(* counts the tokens that were passed since the last value, inFront those   *)
(* that became part of the key.  A text that no '=' follows is dropped.     *)
NothingRead == [found |-> <<>>, gap |-> 0]
ReadToken(p, token) ==
  IF token \in FieldTokens
  THEN [found |-> Append(p.found,
          [inFront |-> p.gap - IF p.found = <<>> THEN 0 ELSE 1,
           key |-> token.key, value |-> ParseValue(Trim(token.value))]),
        gap |-> 0]
  ELSE [found |-> p.found, gap |-> p.gap + 1]
ReadTokens(text) ==
  LET read[n \in 0 .. Len(text)] ==
        IF n = 0 THEN NothingRead ELSE ReadToken(read[n - 1], text[n])
  IN read[Len(text)]
ParseParams(text) == ReadTokens(text).found

(* A separator before every field, unless the string is still empty. *)
AddToken(text, token) ==
  IF text = <<>> THEN <<token>> ELSE Append(Append(text, Semicolon), token)
AddField(text, f) == AddToken(text, FieldToken(Prefixed(f.name), f.value))

(* A field of an object is written with all of its value. *)
AddObjectField(text, f) ==
  IF f.tail = <<>> THEN AddField(text, f) ELSE AddToken(AddField(text, f), f.tail[1])

(* fields_values is taken apart at every ';': what has no '=' is dropped, and *)
(* what has one becomes a field of its own.                                   *)
AddTypedField(text, f) ==
  IF f.tail = <<>> \/ f.tail = <<Loose>> THEN AddField(text, f)
  ELSE AddToken(AddField(text, f), FieldToken(Prefixed(f.tail[1].key[2]), f.tail[1].value))

(* The fields added one after the other, by either of the two. *)
AddWithTail(text, f, typed) == IF typed THEN AddTypedField(text, f) ELSE AddObjectField(text, f)
Appended(text, fields, typed) ==
  LET added[n \in 0 .. Len(fields)] ==
        IF n = 0 THEN text ELSE AddWithTail(added[n - 1], fields[n], typed)
  IN added[Len(fields)]

Splits(fields) == \E n \in DOMAIN fields : fields[n].tail # <<>>

(* Ghosts: what the caller means with the fields it adds. *)
Mean(fields) ==
  /\ split' = (split \/ Splits(fields))
  /\ meant' = IF split' THEN meant ELSE meant \o fields

CanAppend == Len(params) < MaxTokens

(* fastrules_add_typed_param *)
AddTypedParam(p, t, fields) ==
  /\ engineAt[p] # 0 /\ CanAppend
  /\ IF IsRegistered(p, t)
       THEN params' = Appended(params, fields, TRUE) /\ Mean(fields) /\ UNCHANGED lastError
       ELSE /\ lastError' = [lastError EXCEPT ![p] = "Type not registered"]
            /\ UNCHANGED <<params, meant, split>>
  /\ UNCHANGED <<engineAt, created, registeredTypes, typeRegistry, garbled, results>>

(* fastrules_object_create, _set_field and fastrules_add_object_param: one   *)
(* separator is written behind the parameters there are, and then the one    *)
(* before the first field.                                                   *)
AddObjectParam(p, fields) ==
  /\ engineAt[p] # 0 /\ CanAppend
  /\ params' = Appended(IF params = <<>> THEN params ELSE Append(params, Semicolon), fields, FALSE)
  /\ Mean(fields)
  /\ garbled' = (garbled \/ params # <<>>)
  /\ UNCHANGED <<engineAt, created, registeredTypes, typeRegistry, lastError, results>>

FreeParams ==
  /\ params # <<>>
  /\ params' = <<>> /\ meant' = <<>> /\ garbled' = FALSE /\ split' = FALSE
  /\ UNCHANGED <<engineAt, created, registeredTypes, typeRegistry, lastError, results>>

(* escape_field and format_results *)
EscapeField(field) ==
  [i \in DOMAIN field |-> IF field[i] = Colon THEN "%3A" ELSE IF field[i] = Separator THEN "%3B" ELSE field[i]]
FormatResult(r) ==
  <<"id", Colon>> \o EscapeField(r.name) \o <<Colon, "success">>
    \o IF r.error = NoError THEN <<>> ELSE <<Colon>> \o EscapeField(r.error)
FormatResults(rs) ==
  LET out[n \in 0 .. Len(rs)] ==
        IF n = 0 THEN <<>>
        ELSE out[n - 1] \o (IF n = 1 THEN <<>> ELSE <<Separator>>) \o FormatResult(rs[n])
  IN out[Len(rs)]

(* fastrules_workflow_execute and _execute_parallel, on a workflow that      *)
(* throws or returns results.                                                *)
WorkflowExecute(p) ==
  /\ engineAt[p] # 0
  /\ \/ /\ \E rs \in ResultLists : results' = [of |-> rs, text |-> FormatResults(rs)]
        /\ UNCHANGED lastError
     \/ lastError' = [lastError EXCEPT ![p] = "execution failed"] /\ UNCHANGED results
  /\ UNCHANGED <<engineAt, created, registeredTypes, typeRegistry, params, meant, garbled,
                 split>>

CApiNext ==
  \/ \E p \in EngineAddresses :
       \/ EngineCreate(p) \/ EngineDestroy(p) \/ WorkflowExecute(p)
       \/ \E t \in TypeNames : EngineRegisterType(p, t) \/ RegisterType(p, t)
       \/ \E fields \in FieldValues :
            AddObjectParam(p, fields) \/ \E t \in TypeNames : AddTypedParam(p, t, fields)
  \/ FreeParams

-----------------------------------------------------------------------------
(* "a later engine allocated at the same address cannot inherit stale state": *)
(* the types of an engine are those registered with it since it was created.  *)
NoInheritedTypes ==
  \A p \in EngineAddresses : \A r \in registeredTypes[p] \cup typeRegistry[p] : r[1] = engineAt[p]

(* What a caller means with a value: an integer of int's range is that        *)
(* integer, a larger one some integer, a text itself without the blanks       *)
(* around it.                                                                 *)
ValueArrives(v, got) ==
  /\ v.text = "numeral" =>
       /\ got[1] = "int"
       /\ v.number \in -IntBound .. IntBound - 1 => got[2] = v.number
  /\ v.text = "fraction" => got = <<"double", v.number>>
  /\ v.text \in {"true", "false"} => got = <<"bool", v.text = "true">>
  /\ v.text \in {"", "word"} =>
       got[1] = "string" /\ got[2].text = v.text /\ ~got[2].blanks

(* The engine reads out of a parameter string what the caller has put into    *)
(* it, in that order, and nothing else, after any sequence of additions.  Two *)
(* things break it.  Once an object was added to a string that was not empty, *)
(* a name may have separators in front of it.  Once a value with a ';' was    *)
(* added, only the fields of the calls before that one are sure to arrive.    *)
ParametersArrive ==
  LET parsed == ParseParams(params) IN
    /\ Len(parsed) >= Len(meant) /\ (~split => Len(parsed) = Len(meant))
    /\ \A n \in DOMAIN meant :
         /\ parsed[n].key = Prefixed(meant[n].name)
         /\ ValueArrives(meant[n].value, parsed[n].value)
         /\ ~garbled /\ ~split => parsed[n].inFront = 0

(* How often a token is in a text. *)
Occurrences(text, c) == Cardinality({i \in DOMAIN text : text[i] = c})

(* The reader of a result string finds as many results, and in each as many   *)
(* fields, as there are: nothing in a name or in an error message looks like  *)
(* a separator.                                                               *)
ResultsSplitBack ==
  /\ results.of # <<>> => Occurrences(results.text, Separator) = Len(results.of) - 1
  /\ Occurrences(results.text, Colon) =
       2 * Len(results.of)
         + Cardinality({i \in DOMAIN results.of : results.of[i].error # NoError})

(* docs/c_api.md:276 says of an entry of the result string that its format is *)
(* name:success:error: three fields, with an error or without one.            *)
ResultsHaveThreeFields == Occurrences(results.text, Colon) = 2 * Len(results.of)

(* What crosses the C interface arrives: parameters and results through      *)
(* their strings, and types only at the engine they were registered for.     *)
CallersGetTheirOwn == NoInheritedTypes /\ ParametersArrive /\ ResultsSplitBack
=============================================================================
