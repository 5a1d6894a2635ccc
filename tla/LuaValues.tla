------------------------------ MODULE LuaValues ------------------------------
(***************************************************************************)
(* Values on their way between C++ and Lua: std::any to Lua as a parameter *)
(* or a global, LuaBridgeValue back, the arguments of action handlers, and *)
(* the built-in predicates.                                                *)
(* Integers have the widths of their types; a double is counted in halves; *)
(* a text is a sequence of characters, "NUL" and the digits among them.    *)
(* Strings are in Lua what their characters are in C++.                    *)
(***************************************************************************)
EXTENDS Integers, Sequences, SequencesExt, FiniteSets, TLC

CONSTANTS
  IntBits, LongBits,  \* widths of int, and of long, int64_t and size_t
  Values,             \* std::any values: <<type>> or <<type, value>>
  Tables,             \* Lua tables: <<"table", set of <<key, value>> >>
  Replaced            \* the built-in predicates that an embedder registers again

(* One digit is enough to print an integer of either width. *)
ASSUME ValuesAssumption ==
  /\ IntBits \in 2 .. LongBits /\ LongBits \in 2 .. 4

VARIABLES
  predicates,   \* predicates_: name -> "builtin", "yes" or "throws"
  lastCall      \* the call a script makes, with its answer
valueVars == <<predicates, lastCall>>

LuaNil == <<"nil">>

(* static_cast to a signed type of w bits, and of an int64_t to size_t *)
Signed(n, w) == ((n + 2^(w - 1)) % 2^w) - 2^(w - 1)
SizeT(n) == n % 2^LongBits

(* A char* ends at the first NUL. *)
CString(s) ==
  LET nul == SelectInSeq(s, LAMBDA c : c = "NUL")
  IN IF nul = 0 THEN s ELSE SubSeq(s, 1, nul - 1)

(* anyToLuaValue with makeBool ... makePointer: the way of setGlobal, and of *)
(* the parameters of a resumed coroutine.                                    *)
AnyToLuaValue(a) ==
  CASE a[1] = "int" -> <<"integer", a[2]>>
    [] a[1] = "bool" -> <<"boolean", a[2]>>
    [] a[1] = "double" -> <<"number", a[2]>>
    [] a[1] = "string" -> <<"string", a[2]>>
    [] a[1] = "const char*" -> <<"string", CString(a[2])>>
    [] a[1] = "void*" -> <<"userdata", a[2]>>
    [] OTHER -> LuaNil

(* pushAny, the way of the parameters of an expression or action: it knows   *)
(* the other integers and float too, and no pointer.                         *)
PushAny(a) ==
  CASE a[1] \in {"int", "unsigned int", "long"} -> <<"integer", a[2]>>
    [] a[1] = "unsigned long" -> <<"integer", Signed(a[2], LongBits)>>
    [] a[1] = "bool" -> <<"boolean", a[2]>>
    [] a[1] \in {"double", "float"} -> <<"number", a[2]>>
    [] a[1] = "string" -> <<"string", a[2]>>
    [] a[1] = "const char*" -> <<"string", CString(a[2])>>
    [] OTHER -> LuaNil

-----------------------------------------------------------------------------
(* What Lua prints and reads; external. *)
Magnitude(n) == IF n < 0 THEN -n ELSE n
Sign(n) == IF n < 0 THEN <<"-">> ELSE <<>>
IntegerText(n) == Sign(n) \o <<ToString(Magnitude(n))>>
NumberText(h) ==
  Sign(h) \o <<ToString(Magnitude(h) \div 2), ".", IF h % 2 = 0 THEN "0" ELSE "5">>
Readable == -(2^LongBits) .. 2^LongBits - 1
ReadsAs(s) == {h \in Readable : s = NumberText(h) \/ (h % 2 = 0 /\ s = IntegerText(h \div 2))}

(* LuaBridgeValue: type, isString, toBool, toNumber, toInteger, toString.  A *)
(* numeric string counts as a number, not as an integer.                     *)
IsNumber(v) == v[1] \in {"integer", "number"} \/ (v[1] = "string" /\ ReadsAs(v[2]) # {})
ToBool(v) == v # LuaNil /\ v # <<"boolean", FALSE>>
ToNumber(v) ==
  CASE v[1] = "integer" -> 2 * v[2]
    [] v[1] = "number" -> v[2]
    [] v[1] = "string" /\ ReadsAs(v[2]) # {} -> CHOOSE h \in ReadsAs(v[2]) : TRUE
    [] OTHER -> 0
ToInteger(v) ==
  IF v[1] = "integer" THEN v[2]
  ELSE LET h == ToNumber(v) IN IF h < 0 THEN -(Magnitude(h) \div 2) ELSE h \div 2
ToText(v) ==
  CASE v[1] = "integer" -> IntegerText(v[2])
    [] v[1] = "number" -> NumberText(v[2])
    [] v[1] = "string" -> CString(v[2])
    [] OTHER -> <<>>

(* length and get; keys converts a key to text on the stack, and lua_next    *)
(* raises an error for it when it was an integer.                            *)
Length(v) ==
  CASE v[1] = "table" -> Cardinality(v[2]) [] v[1] = "string" -> Len(v[2]) [] OTHER -> 0
KeysFail(v) == \E e \in v[2] : e[1][1] = "integer"
Keys(v) == {ToText(e[1]) : e \in v[2]}
GetField(v, k) ==
  LET found == {e \in v[2] : e[1] = <<"string", k>>}
  IN IF found = {} THEN LuaNil ELSE (CHOOSE e \in found : TRUE)[2]

(* luaValueToAny, and the arguments an action handler gets *)
LuaValueToAny(v) ==
  CASE v[1] = "boolean" -> <<"bool", ToBool(v)>>
    [] v[1] = "number" -> <<"double", ToNumber(v)>>
    [] v[1] = "integer" -> <<"int", Signed(ToInteger(v), IntBits)>>
    [] v[1] = "string" -> <<"string", ToText(v)>>
    [] OTHER -> <<"none">>
ActionArgument(v) ==
  CASE IsNumber(v) -> <<"double", ToNumber(v)>>
    [] v[1] = "string" -> <<"string", ToText(v)>>
    [] v[1] = "boolean" -> <<"bool", ToBool(v)>>
    [] OTHER -> <<"none">>

(* readArg, pushReturn and buildInvoker: a bound method with one argument,   *)
(* which returns it.  lua_tointeger knows only numbers that are integers.    *)
AsInteger(v) ==
  IF v[1] = "integer" THEN v[2] ELSE IF ToNumber(v) % 2 = 0 THEN ToNumber(v) \div 2 ELSE 0
ReadArg(t, v) ==
  CASE t = "int" -> Signed(AsInteger(v), IntBits)
    [] t \in {"double", "float"} -> ToNumber(v)
    [] t = "bool" -> ToBool(v)
    [] t = "string" -> ToText(v)
PushReturn(t, x) ==
  CASE t = "int" -> <<"integer", x>>
    [] t \in {"double", "float"} -> <<"number", x>>
    [] t = "bool" -> <<"boolean", x>>
    [] t = "string" -> <<"string", CString(x)>>
Invoke(t, v) == PushReturn(t, ReadArg(t, v))

-----------------------------------------------------------------------------
Builtins == {"isNotNull", "isNull", "isEmpty", "isNotEmpty", "inRange", "matchesRegex",
             "startsWith", "endsWith", "hasLength", "hasMinLength", "hasMaxLength",
             "countEquals", "countGreaterThan", "countLessThan", "contains"}

StartsAt(s, p, i) == i + Len(p) - 1 <= Len(s) /\ SubSeq(s, i, i + Len(p) - 1) = p
Finds(s, p) == \E i \in 1 .. Len(s) + 1 : StartsAt(s, p, i)

CountLessThan(args) == Length(args[1]) < SizeT(ToInteger(args[2]))

(* get(key) for the text of every key *)
ContainsValue(args) ==
  \E k \in Keys(args[1]) : ToText(GetField(args[1], k)) = ToText(args[2])

(* registerPredicates: what each answers; too few arguments are no error.    *)
Answer(name, args) ==
  LET n == Len(args)
      first == IF n > 0 THEN args[1] ELSE LuaNil
  IN CASE name = "isNotNull" -> first # LuaNil
       [] name = "isNull" -> first = LuaNil
       [] name = "isEmpty" -> ToText(first) = <<>>
       [] name = "isNotEmpty" -> ToText(first) # <<>>
       [] name = "inRange" /\ n >= 3 ->
            ToNumber(args[1]) >= ToNumber(args[2]) /\ ToNumber(args[1]) <= ToNumber(args[3])
       [] name = "matchesRegex" /\ n >= 2 -> Finds(ToText(args[1]), ToText(args[2]))
       [] name = "startsWith" /\ n >= 2 -> StartsAt(ToText(args[1]), ToText(args[2]), 1)
       [] name = "endsWith" /\ n >= 2 ->
            LET s == ToText(args[1]) p == ToText(args[2])
            IN Len(s) >= Len(p) /\ StartsAt(s, p, Len(s) - Len(p) + 1)
       [] name = "hasLength" /\ n >= 2 -> Len(ToText(args[1])) = SizeT(ToInteger(args[2]))
       [] name = "hasMinLength" /\ n >= 2 -> Len(ToText(args[1])) >= SizeT(ToInteger(args[2]))
       [] name = "hasMaxLength" /\ n >= 2 -> Len(ToText(args[1])) <= SizeT(ToInteger(args[2]))
       [] name = "countEquals" /\ n >= 2 /\ first[1] = "table" ->
            Length(args[1]) = SizeT(ToInteger(args[2]))
       [] name = "countGreaterThan" /\ n >= 2 /\ first[1] = "table" ->
            Length(args[1]) > SizeT(ToInteger(args[2]))
       [] name = "countLessThan" /\ n >= 2 /\ first[1] = "table" -> CountLessThan(args)
       [] name = "contains" /\ n >= 2 /\ first[1] = "table" -> ContainsValue(args)
       [] OTHER -> FALSE
Raises(name, args) ==
  name = "contains" /\ Len(args) >= 2 /\ args[1][1] = "table" /\ KeysFail(args[1])

NoCall == [name |-> "none", args |-> <<>>, answer |-> FALSE, raised |-> FALSE]

(* The constructor, and resetState after reset: the built-in predicates. *)
ValuesInit ==
  /\ predicates = [n \in Builtins |-> "builtin"]
  /\ lastCall = NoCall
ResetPredicates ==
  /\ predicates' = [n \in Builtins |-> "builtin"]
  /\ lastCall' = NoCall

(* A bug: a function that was moved away is stored. *)
RegisterMovesTwice(name, f) ==
  /\ predicates' = [predicates EXCEPT ![name] = "empty"] /\ lastCall' = NoCall

(* registerPredicate: insert_or_assign, and the closure of the name. *)
RegisterPredicate(name, f) ==
  /\ predicates' = [predicates EXCEPT ![name] = f] /\ lastCall' = NoCall

(* luaPredicateCallHandler: the function is looked up at the call, and an    *)
(* exception becomes a Lua error.                                            *)
CallPredicate(name, args) ==
  /\ lastCall = NoCall
  /\ lastCall' =
       [name |-> name, args |-> args,
        answer |-> IF predicates[name] = "builtin" THEN Answer(name, args) ELSE TRUE,
        raised |-> CASE predicates[name] = "builtin" -> Raises(name, args)
                     [] predicates[name] = "yes" -> FALSE
                     [] OTHER -> TRUE]
  /\ UNCHANGED predicates

Return == lastCall' = NoCall /\ UNCHANGED predicates

LuaInputs == {PushAny(a) : a \in Values} \cup {AnyToLuaValue(a) : a \in Values} \cup Tables
ArgumentLists == {<<>>} \cup {<<v>> : v \in LuaInputs} \cup {<<v, w>> : v, w \in LuaInputs}
                   \cup {<<v, w, w>> : v, w \in LuaInputs}

ValuesNext ==
  \/ \E n \in DOMAIN predicates, args \in ArgumentLists : CallPredicate(n, args)
  \/ \E n \in Replaced, f \in {"yes", "throws"} : RegisterPredicate(n, f)
  \/ Return \/ ResetPredicates

-----------------------------------------------------------------------------
ValuesTypeOK ==
  /\ DOMAIN predicates = Builtins /\ lastCall.name \in Builtins \cup {"none"}
  /\ lastCall.answer \in BOOLEAN /\ lastCall.raised \in BOOLEAN

(* A script that calls a predicate gets an answer, also after the predicate   *)
(* was registered again, unless the function throws, or contains meets a      *)
(* table with integer keys.                                                   *)
PredicatesStayCallable ==
  lastCall.raised => \/ predicates[lastCall.name] = "throws"
                     \/ lastCall.name = "contains" /\ KeysFail(lastCall.args[1])

(* The predicates about lengths and counts leave no gap and do not overlap,   *)
(* for fractional counts and numeric strings too; each asks the value and the *)
(* count in the same way, and compares them as numbers.  This is said of      *)
(* counts that are not negative: size_t makes the others larger than any      *)
(* length.                                                                    *)
LengthsPartition ==
  LET args == lastCall.args
      is(name) == Answer(name, args)
  IN lastCall # NoCall =>
     /\ is("isNull") = ~is("isNotNull") /\ is("isEmpty") = ~is("isNotEmpty")
     /\ Len(args) >= 2 /\ ToInteger(args[2]) >= 0 =>
          /\ is("hasLength") = (is("hasMinLength") /\ is("hasMaxLength"))
          /\ is("hasMinLength") = (Len(ToText(args[1])) >= ToInteger(args[2]))
          /\ is("hasMinLength") \/ is("hasMaxLength")
     /\ Len(args) >= 2 /\ args[1][1] = "table" /\ ToInteger(args[2]) >= 0 =>
          /\ is("countGreaterThan") = (Length(args[1]) > ToInteger(args[2]))
          /\ \E name \in {"countEquals", "countGreaterThan", "countLessThan"} :
               /\ is(name)
               /\ \A other \in {"countEquals", "countGreaterThan", "countLessThan"} \ {name} :
                    ~is(other)

(* predicates.md says of every n that "s has at least n characters" and that  *)
(* "table t has more than n elements".                                        *)
AtLeastMeansAtLeast ==
  LET args == lastCall.args
  IN Len(args) >= 2 /\ args[2][1] = "integer" =>
       /\ lastCall.name = "hasMinLength" =>
            lastCall.answer = (Len(ToText(args[1])) >= args[2][2])
       /\ lastCall.name = "countGreaterThan" /\ args[1][1] = "table" =>
            lastCall.answer = (Length(args[1]) > args[2][2])

(* In a table whose keys are all strings, contains finds exactly the elements *)
(* that print like the value.                                                 *)
ContainsFindsElements ==
  lastCall.name = "contains" /\ Len(lastCall.args) >= 2 /\ lastCall.args[1][1] = "table" =>
    \/ lastCall.raised
    \/ lastCall.answer =
         \E e \in lastCall.args[1][2] : ToText(e[2]) = ToText(lastCall.args[2])

IntegerTypes == {"int", "unsigned int", "long", "unsigned long"}
TextTypes == {"string", "const char*"}

(* A parameter that reaches a script as an argument keeps its value: read     *)
(* back into C++, set as a global or for a coroutine, or handed on to an      *)
(* action handler, which sees numbers, and strings that read as numbers, as   *)
(* doubles.  Texts lose what follows a NUL.  An integer comes back as the int *)
(* it fits in, and one beyond int64_t is none of these; as globals only int   *)
(* and double are known.                                                      *)
ValuesComeBack ==
  Len(lastCall.args) = 1 => \A a \in Values :
    LET v == PushAny(a) IN lastCall.args = <<v>> =>
      /\ a[1] \in {"bool", "int", "double"} \cup TextTypes => AnyToLuaValue(a) = v
      /\ a[1] \in IntegerTypes /\ a[2] < 2^(LongBits - 1) =>
           /\ a[2] = Signed(a[2], IntBits) => LuaValueToAny(v) = <<"int", a[2]>>
           /\ ActionArgument(v) = <<"double", 2 * a[2]>>
      /\ a[1] \in {"double", "float"} =>
           LuaValueToAny(v) = <<"double", a[2]>> /\ ActionArgument(v) = <<"double", a[2]>>
      /\ a[1] = "bool" => LuaValueToAny(v) = a /\ ActionArgument(v) = a
      /\ a[1] \in TextTypes =>
           /\ LuaValueToAny(v) = <<"string", CString(a[2])>>
           /\ ActionArgument(v)[1] = "string" => ActionArgument(v)[2] = CString(a[2])

(* A method gets an argument of its own type as it is, up to a NUL, and of    *)
(* another type never a number that is near it: as an int it is the same      *)
(* number or 0.                                                               *)
MethodArgumentsAreExact ==
  Len(lastCall.args) = 1 =>
    LET v == lastCall.args[1] IN
      /\ v[1] = "integer" /\ v[2] = Signed(v[2], IntBits) => Invoke("int", v) = v
      /\ v[1] = "number" => Invoke("double", v) = v
      /\ v[1] = "boolean" => Invoke("bool", v) = v
      /\ v[1] = "string" => Invoke("string", v)[2] = CString(v[2])
      /\ v[1] # "integer" => 2 * ReadArg("int", v) \in {0, ToNumber(v)}

(* What the conversions and the built-in predicates make of a value is what  *)
(* the value says, within the exceptions each part names.                    *)
ValuesAreKept ==
  ValuesTypeOK /\ PredicatesStayCallable /\ LengthsPartition /\ ContainsFindsElements
    /\ ValuesComeBack /\ MethodArgumentsAreExact
=============================================================================
