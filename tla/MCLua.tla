-------------------------------- MODULE MCLua --------------------------------
(* The references of rules and the parts around the Lua states.  The parts   *)
(* share no state: part says which of them a behaviour is about, the others  *)
(* stay as they begin.  The parts other than the rules may come to an end.   *)
EXTENDS RuleCompilation, LuaRegistry, LuaHost, Sandbox, TypeBinding, CApi, AotCache, Screening, LuaValues

CONSTANTS parent, child
VARIABLE part

MCChildren == parent :> {child} @@ child :> {}
MCLayout == [A |-> [flag |-> [offset |-> 0, cpp |-> "bool"], n |-> [offset |-> 1, cpp |-> "int"]]]
Text(class, number, blanks) == [text |-> class, number |-> number, blanks |-> blanks]
MCTexts ==
  {Text("", 0, TRUE), Text("numeral", 1, FALSE), Text("numeral", 5, TRUE), Text("word", 0, TRUE), Text("true", 0, FALSE)}
Field(name, value, tail) == [name |-> name, value |-> value, tail |-> tail]
MCFieldValues ==
  {<<>>, <<Field("k", Text("numeral", 1, FALSE), <<>>)>>,
   <<Field("k", Text("word", 0, TRUE), <<>>), Field("m", Text("numeral", 5, TRUE), <<>>)>>,
   <<Field("k", Text("", 0, TRUE), <<Loose>>)>>,
   <<Field("m", Text("true", 0, FALSE), <<FieldToken(Bare("k"), Text("numeral", 1, FALSE))>>)>>}
MCResultLists ==
  {<<>>, <<[name |-> <<"x", ":">>, error |-> NoError]>>,
   <<[name |-> <<"x">>, error |-> <<";">>], [name |-> <<";">>, error |-> NoError]>>}
MCHashOf == [e \in Expressions |-> IF e = "c" THEN "b" ELSE e]
MCSymbols == {"load", "rawlen", "execute", "os", "letter", "digit", "space", ".", "(", ")", "dq", "sq", "\\", "nul"}
MCReserved == {<<"letter", "letter">>}
MCValues ==
  {<<"none">>, <<"bool", TRUE>>, <<"int", -4>>, <<"int", 1>>, <<"long", -6>>,
   <<"unsigned long", 5>>, <<"unsigned long", 15>>, <<"float", 3>>,
   <<"double", -5>>, <<"string", <<>> >>, <<"string", <<"1">> >>, <<"string", <<"a", "NUL", "b">> >>,
   <<"string", <<"a", "b">> >>, <<"const char*", <<"b", "NUL">> >>, <<"void*", 1>>}
MCTables ==
  {<<"table", {}>>, <<"table", {<< <<"integer", 1>>, <<"string", <<"a">> >> >>}>>,
   <<"table", {<< <<"string", <<"a">> >>, <<"string", <<"b">> >> >>,
               << <<"string", <<"b">> >>, <<"integer", 1>> >>}>>}
Symmetry == Permutations(Engines) \cup Permutations(Sources)

Parts == {"rules", "registry", "host", "sandbox", "types", "capi", "aot", "screening", "values"}
luaVars == <<vars, registryVars, hostVars, sandboxVars, bindingVars, capiVars, aotVars,
             screeningVars, valueVars, part>>

LuaInit ==
  /\ Init /\ RegistryInit /\ HostInit /\ SandboxInit /\ BindingInit /\ CApiInit /\ AotInit
  /\ ScreeningInit /\ ValuesInit /\ part \in Parts
  /\ part # "sandbox" => maxMemory = 0
  /\ part # "rules" => source[parent] = source[child]

Rules1 == part = "rules" /\ Next
  /\ UNCHANGED <<registryVars, hostVars, sandboxVars, bindingVars, capiVars, aotVars, screeningVars, valueVars, part>>
Registry1 == part = "registry" /\ RegistryNext
  /\ UNCHANGED <<vars, hostVars, sandboxVars, bindingVars, capiVars, aotVars, screeningVars, valueVars, part>>
Host1 == part = "host" /\ HostNext
  /\ UNCHANGED <<vars, registryVars, sandboxVars, bindingVars, capiVars, aotVars, screeningVars, valueVars, part>>
Sandbox1 == part = "sandbox" /\ SandboxNext
  /\ UNCHANGED <<vars, registryVars, hostVars, bindingVars, capiVars, aotVars, screeningVars, valueVars, part>>
Types1 == part = "types" /\ BindingNext
  /\ UNCHANGED <<vars, registryVars, hostVars, sandboxVars, capiVars, aotVars, screeningVars, valueVars, part>>
CApi1 == part = "capi" /\ CApiNext
  /\ UNCHANGED <<vars, registryVars, hostVars, sandboxVars, bindingVars, aotVars, screeningVars, valueVars, part>>
Aot1 == part = "aot" /\ AotNext
  /\ UNCHANGED <<vars, registryVars, hostVars, sandboxVars, bindingVars, capiVars, screeningVars, valueVars, part>>
Screening1 == part = "screening" /\ ScreeningNext
  /\ UNCHANGED <<vars, registryVars, hostVars, sandboxVars, bindingVars, capiVars, aotVars, valueVars, part>>
Values1 == part = "values" /\ ValuesNext
  /\ UNCHANGED <<vars, registryVars, hostVars, sandboxVars, bindingVars, capiVars, aotVars, screeningVars, part>>
Rest == part # "rules" /\ UNCHANGED luaVars

LuaNext == \/ Rules1 \/ Registry1 \/ Host1 \/ Sandbox1 \/ Types1 \/ CApi1 \/ Aot1 \/ Screening1
           \/ Values1 \/ Rest
LuaSpec == LuaInit /\ [][LuaNext]_luaVars

(* Code that was compiled, or loaded from a bytecode file, is reached by its *)
(* own expression and reference only: RegistryAgrees and CachesAreSound.     *)
CompiledCodeIsItsOwn == RegistryAgrees /\ CachesAreSound

(* What an application declares and passes, in C++ or through the C          *)
(* interface, is what scripts get: DeclarationsHold and CallersGetTheirOwn.  *)
ApplicationDataArrives == DeclarationsHold /\ CallersGetTheirOwn
=============================================================================
