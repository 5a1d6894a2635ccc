---------------------------- MODULE TypeBinding -----------------------------
(***************************************************************************)
(* TypeRegistry and LuaBridge3Backend::bindTypes: C++ types are declared,  *)
(* field by field and method by method, the declarations become Lua        *)
(* metatables, and scripts reach C++ objects through them by offset and    *)
(* access width.  Memory is cells: a half word is one cell, an int two, a  *)
(* double four.                                                            *)
(***************************************************************************)
EXTENDS Integers, FiniteSets, Functions, Maps

CONSTANTS
  CppTypes,
  BindNames,         \* Lua names of types
  Methods,           \* names of methods
  Layout,            \* Layout[t][f] = [offset, cpp]: the fields of struct t
  StoredValues,       \* what C++ and scripts write
  Nothing,           \* nil
  MaxDeclarations,   \* bound
  MaxResets          \* bound

Cells(cpp) == CASE cpp \in {"bool", "char", "short"} -> 1
                [] cpp \in {"int", "float"} -> 2
                [] cpp \in {"long", "double"} -> 4

(* Fields lie in the object, apart from each other, and are no methods. *)
CellsOf(field) == field.offset .. field.offset + Cells(field.cpp) - 1
Memory == 0 .. 7
ASSUME BindingAssumption ==
  /\ MaxDeclarations \in Nat /\ MaxResets \in Nat
  /\ IsFiniteSet(CppTypes) /\ Nothing \notin BindNames
  /\ \A t \in CppTypes :
       /\ DOMAIN Layout[t] \cap Methods = {}
       /\ \A f \in DOMAIN Layout[t] :
            /\ Layout[t][f].cpp \in {"bool", "char", "short", "int", "float", "long", "double"}
            /\ Layout[t][f].offset \in Nat /\ CellsOf(Layout[t][f]) \subseteq Memory
            /\ \A g \in DOMAIN Layout[t] \ {f} :
                 CellsOf(Layout[t][f]) \cap CellsOf(Layout[t][g]) = {}

VARIABLES
  types,        \* types_: [name, fields, methods]; methods[m] is its invoker
  declared,     \* history: declared[t][m], the newest invoker of every method
  named,        \* history: the names each type has had
  invokers,     \* invokers made so far
  metatables,   \* of the Lua state: [fields, methods, indexed]
  boundMethods, \* boundMethods_: <<name, method>> -> address of a TypeMethod
  heap,         \* heap[a]: the invoker in the TypeMethod at a
  kept,         \* method closures a script keeps: [key, at]
  object,       \* the global object: [type, mt], or Nothing
  memory,       \* memory[t]: cells of the object of type t
  stored,       \* history: the value last stored into each field
  fresh,        \* declarations since the last bindTypes?
  resets

bindingVars == <<types, declared, named, invokers, metatables, boundMethods, heap, kept,
                 object, memory, stored, fresh, resets>>
registryOnly == <<metatables, boundMethods, heap, kept, object, memory, stored, resets>>

GetLuaType(cpp) == CASE cpp = "bool" -> "bool"
                     [] cpp \in {"int", "long", "short", "char"} -> "int"
                     [] cpp \in {"double", "float"} -> "double"
AccessCells(luaType) == CASE luaType = "bool" -> 1 [] luaType = "int" -> 2 [] luaType = "double" -> 4

NoMethods == [m \in {} |-> 0]
Unregistered == [name |-> Nothing, fields |-> {}, methods |-> NoMethods]
EmptyMetatable == [fields |-> NoMethods, methods |-> NoMethods, indexed |-> FALSE]

(* memcpy of a value of so many cells *)
Put(mem, offset, width, v) ==
  [c \in DOMAIN mem |-> IF c \in offset .. offset + width - 1
                          THEN [v |-> v, part |-> c - offset, width |-> width] ELSE mem[c]]
Fetch(mem, offset, width) ==
  LET v == mem[offset].v IN
    IF \A i \in 0 .. width - 1 : mem[offset + i] = [v |-> v, part |-> i, width |-> width]
      THEN v ELSE Nothing

BindingInit ==
  /\ types = [t \in CppTypes |-> Unregistered] /\ declared = [t \in CppTypes |-> NoMethods]
  /\ named = [t \in CppTypes |-> {}] /\ invokers = 0
  /\ metatables = [n \in BindNames |-> EmptyMetatable]
  /\ boundMethods = NoMethods /\ heap = NoMethods /\ kept = {} /\ object = Nothing
  /\ memory = [t \in CppTypes |->
       [c \in Memory |-> [v |-> Nothing, part |-> 0, width |-> 1]]]
  /\ stored = [t \in CppTypes |-> [f \in DOMAIN Layout[t] |-> Nothing]]
  /\ fresh = FALSE /\ resets = 0

(* registerType: the descriptor there is goes on, under the new name. *)
Descriptor(t) == types[t]
Renamed(n, fields, methods) == [name |-> n, fields |-> fields, methods |-> methods]

BindField(t, n, f) ==
  /\ f \in DOMAIN Layout[t] \ types[t].fields
  /\ types' = [types EXCEPT ![t] = Renamed(n, Descriptor(t).fields \cup {f}, Descriptor(t).methods)]
  /\ named' = [named EXCEPT ![t] = @ \cup {n}]
  /\ fresh' = TRUE /\ UNCHANGED <<declared, invokers, registryOnly>>
DeclareMethod(t, n, m) ==
  /\ invokers < MaxDeclarations /\ invokers' = invokers + 1
  /\ types' = [types EXCEPT ![t] =
       Renamed(n, Descriptor(t).fields, MapInsert(Descriptor(t).methods, m, invokers'))]
  /\ declared' = [declared EXCEPT ![t] = MapInsert(@, m, invokers')]
  /\ named' = [named EXCEPT ![t] = @ \cup {n}]
  /\ fresh' = TRUE /\ UNCHANGED registryOnly

(* The methods that bindTypes binds, under the names of their types. *)
NamedTypes == {t \in CppTypes : types[t].name # Nothing}
TypesNamed(n) == {t \in CppTypes : types[t].name = n}
WithMethod(key) == {t \in TypesNamed(key[1]) : key[2] \in DOMAIN types[t].methods}
MethodKeys == {key \in BindNames \X Methods : WithMethod(key) # {}}

(* A bound method is overwritten where it is, another one gets a free place. *)
Address(bound, free, key) == IF key \in DOMAIN bound THEN bound[key] ELSE free[key]

(* What a type puts under __fields. *)
FieldTable(t) ==
  [f \in types[t].fields |->
     [offset |-> Layout[t][f].offset, luaType |-> GetLuaType(Layout[t][f].cpp)]]

(* bindTypes, on the methods, objects and metatables of a state.  It goes     *)
(* through the types one by one, in the order of a hash table.  Of types with *)
(* one name the last has its fields in the metatable, and the last with a     *)
(* method its invoker; later[t] counts from the last type to the first.  A    *)
(* metatable that was there keeps the methods that are not bound again.       *)
LastOf(S, later) == CHOOSE t \in S : \A u \in S : later[t] <= later[u]
Invoker(key, later) == types[LastOf(WithMethod(key), later)].methods[key[2]]
Metatable(n, old, bound, later) ==
  [fields |-> FieldTable(LastOf(TypesNamed(n), later)), indexed |-> TRUE,
   methods |-> [m \in DOMAIN old.methods \cup {m \in Methods : <<n, m>> \in MethodKeys} |->
     IF <<n, m>> \in MethodKeys THEN bound[<<n, m>>] ELSE old.methods[m]]]
KeyAt(bound, a) == CHOOSE key \in DOMAIN bound : bound[key] = a
FreePlaces(used, new) == (1 .. Cardinality(used) + Cardinality(new)) \ used

Bind(bound, objects, tables) ==
  LET new == MethodKeys \ DOMAIN bound IN
    \E later \in Injection(NamedTypes, 1 .. Cardinality(NamedTypes)),
       free \in Injection(new, FreePlaces(DOMAIN objects, new)) :
      /\ boundMethods' = [key \in DOMAIN bound \cup MethodKeys |-> Address(bound, free, key)]
      /\ heap' = [a \in Range(boundMethods') |->
           LET key == KeyAt(boundMethods', a) IN
             IF key \in MethodKeys THEN Invoker(key, later) ELSE objects[a]]
      /\ metatables' = [n \in BindNames |->
           IF TypesNamed(n) = {} THEN tables[n]
           ELSE Metatable(n, tables[n], boundMethods', later)]
BindTypes ==
  /\ Bind(boundMethods, heap, metatables)
  /\ fresh' = FALSE
  /\ UNCHANGED <<types, declared, named, invokers, kept, object, memory, stored, resets>>

(* setRegisteredTypeGlobal and clearRegisteredTypeGlobal *)
SetObject(t) ==
  /\ types[t].name # Nothing
  /\ object' = [type |-> t, mt |-> types[t].name]
  /\ UNCHANGED <<types, declared, named, invokers, metatables, boundMethods, heap, kept, memory,
                 stored, fresh, resets>>

(* __index: what a key of the object is, and the value of a field. *)
LookupKey(key) ==
  LET mt == metatables[object.mt] IN
    CASE ~mt.indexed -> "error"
      [] mt.indexed /\ key \in DOMAIN mt.methods -> "method"
      [] mt.indexed /\ key \notin DOMAIN mt.methods /\ key \in DOMAIN mt.fields -> "field"
      [] OTHER -> "nil"
ReadField(f) ==
  LET info == metatables[object.mt].fields[f] IN
    Fetch(memory[object.type], info.offset, AccessCells(info.luaType))

KeepMethod(m) ==
  /\ object # Nothing /\ LookupKey(m) = "method"
  /\ kept' = kept \cup {[key |-> <<object.mt, m>>, at |-> metatables[object.mt].methods[m]]}
  /\ UNCHANGED <<types, declared, named, invokers, metatables, boundMethods, heap, object, memory,
                 stored, fresh, resets>>

(* A field is stored by C++ at its own width, and by __newindex at the width *)
(* of its Lua type.                                                          *)
Store(t, f, offset, width, v) ==
  /\ memory' = [memory EXCEPT ![t] = Put(@, offset, width, v)]
  /\ stored' = [stored EXCEPT ![t][f] = v]
  /\ UNCHANGED <<types, declared, named, invokers, metatables, boundMethods, heap, kept, object,
                 fresh, resets>>
AssignInCpp(t, f, v) == Store(t, f, Layout[t][f].offset, Cells(Layout[t][f].cpp), v)
NewIndex(f, v) ==
  /\ object # Nothing /\ f \in DOMAIN metatables[object.mt].fields
  /\ f \in DOMAIN Layout[object.type]
  /\ LET info == metatables[object.mt].fields[f] IN
       Store(object.type, f, info.offset, AccessCells(info.luaType), v)

(* resetState: a new state, in which the types are bound anew. *)
ResetTypes ==
  /\ resets < MaxResets /\ resets' = resets + 1
  /\ Bind(NoMethods, NoMethods, [n \in BindNames |-> EmptyMetatable])
  /\ kept' = {} /\ object' = Nothing /\ fresh' = FALSE
  /\ UNCHANGED <<types, declared, named, invokers, memory, stored>>

BindingNext ==
  \/ \E t \in CppTypes : \/ \E n \in BindNames : \/ \E f \in DOMAIN Layout[t] : BindField(t, n, f)
                                                 \/ \E m \in Methods : DeclareMethod(t, n, m)
                         \/ \E f \in DOMAIN Layout[t], v \in StoredValues : AssignInCpp(t, f, v)
                         \/ SetObject(t)
  \/ BindTypes \/ ResetTypes
  \/ \E m \in Methods : KeepMethod(m)
  \/ \E t \in CppTypes : \E f \in DOMAIN Layout[t], v \in StoredValues : NewIndex(f, v)

BindingSpec == BindingInit /\ [][BindingNext]_bindingVars

-----------------------------------------------------------------------------
BindingTypeOK ==
  /\ \A t \in CppTypes : types[t].name \in BindNames \cup {Nothing}
  /\ object = Nothing \/ (object.type \in CppTypes /\ object.mt \in BindNames)
  /\ \A t \in CppTypes : types[t].fields \subseteq DOMAIN Layout[t]

(* "Re-binding an existing entry overwrites it in place so previously         *)
(* installed metatables keep pointing at a live object": a method a script    *)
(* kept is alive as long as the state, and calls what is bound under its name. *)
KeptMethodsAreAlive ==
  \A k \in kept : k.at \in DOMAIN heap /\ boundMethods[k.key] = k.at

(* A type bound in several declarations, before and after bindTypes, with     *)
(* renamings and resets in between, has all its methods, each the newest, and *)
(* all its fields, once bindTypes has run; unless another type had the name.  *)
DeclarationsAddUp ==
  object # Nothing /\ ~fresh =>
    LET t == object.type
        n == object.mt IN
      types[t].name = n /\ (\A u \in CppTypes \ {t} : n \notin named[u]) =>
        /\ \A m \in DOMAIN declared[t] :
             LookupKey(m) = "method" /\ heap[metatables[n].methods[m]] = declared[t][m]
        /\ \A f \in types[t].fields : LookupKey(f) = "field"

(* A script reads in a field what C++ or a script last stored there, whatever *)
(* is stored in the fields next to it, for types whose fields are bool, int    *)
(* and double (a short or a float is accessed at another width) and whose      *)
(* names no other type has had.                                                *)
ScriptsSeeTheObject ==
  object # Nothing =>
    LET t == object.type IN
      /\ \A f \in DOMAIN Layout[t] : Layout[t][f].cpp \in {"bool", "int", "double"}
      /\ \A u \in CppTypes \ {t} : named[t] \cap named[u] = {}
      => \A f \in DOMAIN metatables[object.mt].fields : ReadField(f) = stored[t][f]

(* What was declared of a type, in however many steps, is what scripts find, *)
(* and keep, in its objects.                                                 *)
DeclarationsHold == BindingTypeOK /\ KeptMethodsAreAlive /\ DeclarationsAddUp /\ ScriptsSeeTheObject
=============================================================================
