---------------------------- MODULE MCRepositories ---------------------------
(* Where rules and workflows come from: file repositories, database          *)
(* repositories, the loaders that carry workflows between memory and         *)
(* documents, and the validation of a workflow.  They share no state: store  *)
(* says which of them a behaviour is about, the others stay as they begin    *)
(* and may come to an end.                                                   *)
(*                                                                           *)
(* Two repositories on one file, a rule saved with the other as its child, a *)
(* file with twins; two users of the database sessions; two loader threads   *)
(* and documents with missing, explicit and malformed ids; workflows of      *)
(* three rules with shared names and ids, dependencies and children.         *)
(* No beginning of a list of members is a list of its own, so that half a     *)
(* save shows; two lists are disjoint, so that rows of one may stay among     *)
(* those of the other.                                                        *)
EXTENDS FileRepository, DbRepository, WorkflowTransfer, RuleValidation

VARIABLE store

Symmetry == Permutations(Repos) \cup Permutations(Users) \cup Permutations(Loaders)

Item(i, b) == [id |-> i, body |-> b]
Rule(i, b, children) == [id |-> i, body |-> b, children |-> children]
MCSavedRules == {Rule(1, "a", << >>), Rule(2, "b", <<Item(1, "b")>>)}
MCFiles == {Absent, Torn, <<Item(1, "a")>>, <<Item(1, "a"), Item(1, "b")>>}

Node(id, name, dep, timeout, depth) ==
  [id |-> id, name |-> name, dep |-> dep, timeout |-> timeout, depth |-> depth]
MCDocuments ==
  {<<Node(Missing, "a", Missing, [n |-> 2, unit |-> "s"], 0), Node(7, "b", "a", Missing, 1),
     Node(Missing, "c", "b", [n |-> 3, unit |-> "none"], 2)>>,
   <<Node(Missing, "d", Missing, [n |-> 5, unit |-> "h"], 0),
     Node(Missing, "e", "d", [n |-> 1, unit |-> "m"], 1)>>,
   <<Node(Malformed, "f", Missing, Missing, 0)>>}
MCOrders == {<<1>>, <<2, 3>>, <<1, 1>>}
MCRuleRecords ==
  {[timeout |-> 0, cache |-> 5, dep |-> ""], [timeout |-> 9, cache |-> NoValue, dep |-> "a"]}
MCIdChoices == <<{1}, {2, -1}, {3, 0, 1}>>
MCNameChoices == <<{"a"}, {"b"}, {"c", "a", "none"}>>
PlainRules ==
  [i \in 1 .. 3 |-> [id |-> i, name |-> <<"a", "b", "c">>[i], dep |-> NoDependency, children |-> {}]]

storeVars == <<vars, dbVars, transferVars, validationVars, store>>

StoresInit ==
  /\ Init /\ DbInit /\ TransferInit /\ ValidationInit
  /\ store \in {"file", "db", "transfer", "validation"}
  /\ store # "file" => format = "json" /\ file = Absent
  /\ store # "validation" => ruleDefs = PlainRules

File1 == store = "file" /\ Next /\ UNCHANGED <<dbVars, transferVars, validationVars, store>>
Db1 == store = "db" /\ DbNext /\ UNCHANGED <<vars, transferVars, validationVars, store>>
Transfer1 == store = "transfer" /\ TransferNext /\ UNCHANGED <<vars, dbVars, validationVars, store>>
Validation1 ==
  store = "validation" /\ ValidationNext /\ UNCHANGED <<vars, dbVars, transferVars, store>>
Rest == store # "file" /\ UNCHANGED storeVars

StoresNext == File1 \/ Db1 \/ Transfer1 \/ Validation1 \/ Rest
StoresSpec == StoresInit /\ [][StoresNext]_storeVars

(* A store answers with what it was last told, files by memory and database  *)
(* by its tables: AnswersAreCurrent and TablesAreWhole.                      *)
StoresAnswerTruly == AnswersAreCurrent /\ TablesAreWhole
=============================================================================
