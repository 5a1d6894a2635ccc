---------------------------- MODULE DbRepository ----------------------------
(***************************************************************************)
(* The database repositories.  Every method is a list of SQL statements    *)
(* run one after the other on a SOCI session; save wraps its list in a     *)
(* transaction, remove and clear do not.  Each repository has a lock of    *)
(* its own, but they share the session, so the statements of one run       *)
(* inside whatever transaction the other has open.  A statement may fail   *)
(* (an SQL error), and the process may crash between two statements.       *)
(* The SQL is SQLite's with its defaults: foreign keys are not enforced,   *)
(* BEGIN inside a transaction is an error.                                 *)
(***************************************************************************)
EXTENDS MachineInt, Sequences, FiniteSets

CONSTANTS
  Users,        \* threads that call the repositories
  RuleIds,      \* ids of rules
  FlowIds,      \* ids of workflows
  Orders,       \* the lists of rule ids a saved workflow can have
  RuleRecords,  \* rules that can be saved: timeout and cacheDuration in ms,
                \* 64 bits wide, and dependsOnRuleName.  Child rules have no
                \* column.
  EmptyName,    \* the empty string
  NoValue,      \* an absent optional, an absent row
  Unknown,      \* nothing can be said
  MaxOps,       \* bound: calls of repository methods
  MaxFaults     \* bound: failed statements and crashes

ASSUME DbAssumption ==
  /\ MaxOps \in Nat /\ MaxFaults \in Nat
  /\ Orders \subseteq Seq(RuleIds) /\ NoValue \notin Users
  /\ RuleRecords # {}
  /\ \A r \in RuleRecords : {r.timeout, r.cache} \subseteq Int \cup {NoValue}

VARIABLES
  committed,  \* the tables as the database file has them
  session,    \* the tables as statements on the session see them
  owner,      \* the thread whose soci::transaction is open, or NoValue
  todo,       \* todo[u]: statements its call still has to run
  dbLock,     \* dbLock[r]: the thread that holds mutex_ of repository r
  writes,     \* writes[u]: the entity its call writes and the value it writes
  exposed,    \* threads whose call met another thread's open transaction
  mixed,      \* entities some call wrote inside a foreign transaction
  promised,   \* promised[e]: what the last call for entity e left, if it returned
  calls, faults

dbVars == <<committed, session, owner, todo, dbLock, writes, exposed, mixed,
            promised, calls, faults>>

DbRepositories == {"rules", "workflows", "versions"}

(* "Nothing stored" is told from everything that can be stored. *)
ASSUME RecordsAssumption ==
  /\ NoValue \notin RuleRecords
  /\ \A rs \in Orders : NoValue # {<<k, rs[k]>> : k \in 1 .. Len(rs)}

(* The columns of times are ints, -1 for none, and the empty name stands for *)
(* no dependency.  Only a time that is not negative is read back.            *)
TimeColumn(t) == IF t = NoValue THEN -1 ELSE CastToInt(t)
TimeOf(column) == IF column >= 0 THEN column ELSE NoValue
ToRow(r) == [timeout |-> TimeColumn(r.timeout), cache |-> TimeColumn(r.cache),
             dep |-> IF r.dep = NoValue THEN EmptyName ELSE r.dep]
RowToRule(row) == [timeout |-> TimeOf(row.timeout), cache |-> TimeOf(row.cache),
                   dep |-> IF row.dep = EmptyName THEN NoValue ELSE row.dep]

(* createSchema: the tables, empty.  members is workflow_rules with its     *)
(* primary key (workflow_id, rule_id); the value is rule_order.             *)
Empty == [rules |-> <<>>, flows |-> {}, members |-> <<>>, versions |-> {}]

RowsWithout(f, keys) == [k \in DOMAIN f \ keys |-> f[k]]
With(f, k, v) == [x \in DOMAIN f \cup {k} |-> IF x = k THEN v ELSE f[x]]
Statements == {"begin", "commit", "upsertRule", "deleteRule", "deleteRules",
               "deleteMembers", "deleteAllMembers", "insertMember",
               "writeFlow", "deleteFlow", "deleteFlows", "insertVersion",
               "deleteVersions"}

(* What a statement leaves; a violated primary key is an error. *)
Conflict(s, db) ==
  \/ s.op = "insertMember" /\ <<s.flow, s.rule>> \in DOMAIN db.members
  \/ s.op = "insertVersion" /\ <<s.version, s.rule>> \in db.versions

MembersOf(db, f) == {k \in DOMAIN db.members : k[1] = f}

(* writeFlow is what save does between BEGIN and the members, which touches  *)
(* nothing but what its lock and its transaction protect: SELECT COUNT, and  *)
(* for a workflow that is there UPDATE and DELETE of its members, for a new  *)
(* one INSERT.  A new workflow keeps the member rows it finds.               *)
WriteFlow(db, f) ==
  IF f \in db.flows THEN [db EXCEPT !.members = RowsWithout(@, MembersOf(db, f))]
  ELSE [db EXCEPT !.flows = @ \cup {f}]

Effect(s, db) ==
  CASE s.op = "upsertRule"       -> [db EXCEPT !.rules = With(@, s.rule, s.row)]
    [] s.op = "deleteRule"       -> [db EXCEPT !.rules = RowsWithout(@, {s.rule})]
    [] s.op = "deleteRules"      -> [db EXCEPT !.rules = <<>>]
    [] s.op = "deleteMembers"    -> [db EXCEPT !.members = RowsWithout(@, MembersOf(db, s.flow))]
    [] s.op = "deleteAllMembers" -> [db EXCEPT !.members = <<>>]
    [] s.op = "insertMember"     -> [db EXCEPT !.members = With(@, <<s.flow, s.rule>>, s.order)]
    [] s.op = "writeFlow"        -> WriteFlow(db, s.flow)
    [] s.op = "deleteFlow"       -> [db EXCEPT !.flows = @ \ {s.flow}]
    [] s.op = "deleteFlows"      -> [db EXCEPT !.flows = {}]
    [] s.op = "insertVersion"    -> [db EXCEPT !.versions = @ \cup {<<s.version, s.rule>>}]
    [] s.op = "deleteVersions"   -> [db EXCEPT !.versions = {v \in @ : v[2] # s.rule}]

Sql(op) == [op |-> op]

(* The methods, as lists of statements. *)
SaveRule(i, r) ==
  <<Sql("begin"), [op |-> "upsertRule", rule |-> i, row |-> ToRow(r)], Sql("commit")>>
RemoveRuleRow(i) == <<[op |-> "deleteRule", rule |-> i]>>
ClearRules == <<Sql("deleteRules")>>
InsertMembers(f, rs) ==
  [k \in 1 .. Len(rs) |-> [op |-> "insertMember", flow |-> f, rule |-> rs[k], order |-> k]]

(* A bug: the statements are not one transaction. *)
SaveFlowWithoutTransaction(f, rs) ==
  <<[op |-> "writeFlow", flow |-> f]>> \o InsertMembers(f, rs)

SaveFlow(f, rs) ==
  <<Sql("begin"), [op |-> "writeFlow", flow |-> f]>> \o InsertMembers(f, rs) \o <<Sql("commit")>>
RemoveFlow(f) == <<[op |-> "deleteMembers", flow |-> f], [op |-> "deleteFlow", flow |-> f]>>
ClearFlows == <<Sql("deleteAllMembers"), Sql("deleteFlows")>>
SaveVersion(v, i) == <<[op |-> "insertVersion", version |-> v, rule |-> i]>>
RemoveVersions(i) == <<[op |-> "deleteVersions", rule |-> i]>>

(* What the finders answer: the JOIN keeps the members whose rule exists,    *)
(* ordered by rule_order.                                                    *)
FindRule(db, i) == IF i \in DOMAIN db.rules THEN RowToRule(db.rules[i]) ELSE NoValue
FindFlow(db, f) ==
  IF f \notin db.flows THEN NoValue
  ELSE {<<db.members[k], k[2]>> : k \in {m \in MembersOf(db, f) : m[2] \in DOMAIN db.rules}}
StoredOrder(db, f) == {<<db.members[k], k[2]>> : k \in MembersOf(db, f)}

Entities == ({"rule"} \X RuleIds) \cup ({"flow"} \X FlowIds)

-----------------------------------------------------------------------------
DbInit ==
  /\ committed = Empty /\ session = Empty /\ owner = NoValue
  /\ todo = [u \in Users |-> <<>>] /\ dbLock = [r \in DbRepositories |-> NoValue]
  /\ writes = [u \in Users |-> Unknown] /\ exposed = {} /\ mixed = {}
  /\ promised = [e \in Entities |-> Unknown]
  /\ calls = 0 /\ faults = 0

(* A writing method begins: it takes its repository's lock exclusively.      *)
(* From here until it returns nothing is promised about what it writes.      *)
Begin(u, repo, list, what) ==
  /\ todo[u] = <<>> /\ dbLock[repo] = NoValue /\ calls < MaxOps
  /\ todo' = [todo EXCEPT ![u] = list]
  /\ dbLock' = [dbLock EXCEPT ![repo] = u]
  /\ writes' = [writes EXCEPT ![u] = what]
  /\ promised' = [e \in Entities |-> IF e \in DOMAIN what THEN Unknown ELSE promised[e]]
  /\ calls' = calls + 1
  /\ UNCHANGED <<committed, session, owner, exposed, mixed, faults>>

One(e, v) == [x \in {e} |-> v]
All(kind, ids) == [e \in {kind} \X ids |-> NoValue]

CallRules(u) ==
  \/ \E i \in RuleIds, r \in RuleRecords : Begin(u, "rules", SaveRule(i, r), One(<<"rule", i>>, r))
  \/ \E i \in RuleIds : Begin(u, "rules", RemoveRuleRow(i), One(<<"rule", i>>, NoValue))
  \/ Begin(u, "rules", ClearRules, All("rule", RuleIds))
CallFlows(u) ==
  \/ \E f \in FlowIds, rs \in Orders :
       Begin(u, "workflows", SaveFlow(f, rs),
             One(<<"flow", f>>, {<<k, rs[k]>> : k \in 1 .. Len(rs)}))
  \/ \E f \in FlowIds : Begin(u, "workflows", RemoveFlow(f), One(<<"flow", f>>, NoValue))
  \/ Begin(u, "workflows", ClearFlows, All("flow", FlowIds))
CallVersions(u) ==
  \E i \in RuleIds : \E list \in {SaveVersion(1, i), RemoveVersions(i)} :
    Begin(u, "versions", list, [x \in {} |-> NoValue])

(* The call is over and leaves its lock; ok if it returned.  met are the    *)
(* threads that have run a statement inside a foreign transaction.           *)
Return(u, ok, met) ==
  /\ todo' = [todo EXCEPT ![u] = <<>>]
  /\ dbLock' = [r \in DbRepositories |-> IF dbLock[r] = u THEN NoValue ELSE dbLock[r]]
  /\ promised' = [e \in Entities |->
       IF ok /\ e \in DOMAIN writes[u] /\ u \notin met THEN writes[u][e] ELSE promised[e]]
  /\ exposed' = met \ {u}
  /\ writes' = [writes EXCEPT ![u] = Unknown]

(* One statement fails: the rest of the method is not run, and a           *)
(* transaction of the thread is rolled back with everything in it.          *)
Fail(u) ==
  /\ todo[u] # <<>>
  /\ LET s == Head(todo[u]) IN
       \/ s.op = "begin" /\ owner # NoValue /\ UNCHANGED faults
       \/ Conflict(s, session) /\ UNCHANGED faults
       \/ faults < MaxFaults /\ faults' = faults + 1
  /\ Return(u, FALSE, exposed)
  /\ owner' = IF owner = u THEN NoValue ELSE owner
  /\ session' = IF owner = u THEN committed ELSE session
  /\ UNCHANGED <<committed, mixed, calls>>

(* soci::transaction begins and ends. *)
Transact(u) ==
  /\ todo[u] # <<>>
  /\ \/ /\ Head(todo[u]).op = "begin" /\ owner = NoValue
        /\ owner' = u /\ todo' = [todo EXCEPT ![u] = Tail(@)]
        /\ UNCHANGED <<committed, dbLock, promised, exposed, writes>>
     \/ /\ Head(todo[u]).op = "commit"
        /\ owner' = NoValue /\ committed' = session
        /\ Return(u, TRUE, exposed)
  /\ UNCHANGED <<session, mixed, calls, faults>>

(* Any other statement runs.  Outside of a transaction it is committed at   *)
(* once; inside one, whoever opened it, it waits for the commit.            *)
Run(u) ==
  /\ todo[u] # <<>> /\ Head(todo[u]).op \notin {"begin", "commit"}
  /\ ~Conflict(Head(todo[u]), session)
  /\ LET met == IF owner \notin {u, NoValue} THEN exposed \cup {u} ELSE exposed
         db == Effect(Head(todo[u]), session) IN
       /\ mixed' = IF u \in met THEN mixed \cup DOMAIN writes[u] ELSE mixed
       /\ session' = db
       /\ committed' = IF owner = NoValue THEN db ELSE committed
       /\ IF Len(todo[u]) = 1
            THEN Return(u, TRUE, met)
            ELSE /\ todo' = [todo EXCEPT ![u] = Tail(@)] /\ exposed' = met
                 /\ UNCHANGED <<dbLock, promised, writes>>
  /\ UNCHANGED <<owner, calls, faults>>

(* The process dies and starts again on the same database. *)
DbCrash ==
  /\ faults < MaxFaults /\ faults' = faults + 1
  /\ session' = committed /\ owner' = NoValue
  /\ todo' = [u \in Users |-> <<>>] /\ dbLock' = [r \in DbRepositories |-> NoValue]
  /\ writes' = [u \in Users |-> Unknown] /\ exposed' = {}
  /\ UNCHANGED <<committed, mixed, promised, calls>>

DbNext ==
  \/ \E u \in Users : CallRules(u) \/ CallFlows(u) \/ CallVersions(u)
                       \/ Transact(u) \/ Run(u) \/ Fail(u)
  \/ DbCrash

DbSpec == DbInit /\ [][DbNext]_dbVars

-----------------------------------------------------------------------------
DbTypeOK ==
  /\ \A db \in {committed, session} :
       /\ DOMAIN db.rules \subseteq RuleIds /\ db.flows \subseteq FlowIds
       /\ DOMAIN db.members \subseteq FlowIds \X RuleIds
       /\ db.versions \subseteq {1} \X RuleIds
  /\ owner \in Users \cup {NoValue}
  /\ \A u \in Users : \A k \in DOMAIN todo[u] : todo[u][k].op \in Statements
  /\ dbLock \in [DbRepositories -> Users \cup {NoValue}]
  /\ exposed \subseteq Users /\ mixed \subseteq Entities
  /\ calls \in 0 .. MaxOps /\ faults \in 0 .. MaxFaults

(* Whatever statement fails and wherever the process dies, the file holds   *)
(* no membership row of a workflow that is not there: remove and clear       *)
(* delete the members first, without a transaction.  Only a remove that met  *)
(* a transaction of another repository on the session can leave one: the     *)
(* roll-back brings the members back and the workflow is deleted after it.   *)
NoOrphanMembers ==
  \A k \in DOMAIN committed.members :
    k[1] \in committed.flows \/ <<"flow", k[1]>> \in mixed

(* A stored workflow has the rules of one save, all of them and in order, or *)
(* none at all (a remove that stopped half-way): never a mixture.  Only      *)
(* where a remove met a foreign transaction may rows be left that the next   *)
(* save, finding no workflow, does not delete: they stay among its own.      *)
WorkflowIsWhole ==
  \A f \in committed.flows :
    \/ <<"flow", f>> \in mixed
    \/ StoredOrder(committed, f) = {}
    \/ \E rs \in Orders : StoredOrder(committed, f) = {<<k, rs[k]>> : k \in 1 .. Len(rs)}

(* What a stored time reads back as: times an int can hold as they were, a  *)
(* negative one absent, a longer one as something shorter or not at all.     *)
TimeReadsAs(t, back) ==
  IF t = NoValue \/ (t < 0 /\ t >= -IntBound) THEN back = NoValue
  ELSE IF t >= -IntBound /\ t < IntBound THEN back = t
  ELSE back = NoValue \/ back \in 0 .. IntBound - 1

(* And a rule: field by field, an empty dependency absent. *)
RuleReadsAs(r, back) ==
  /\ TimeReadsAs(r.timeout, back.timeout) /\ TimeReadsAs(r.cache, back.cache)
  /\ back.dep = IF r.dep = EmptyName THEN NoValue ELSE r.dep

(* And a workflow: the rules it was saved with, as far as they are stored.   *)
(* Where a remove met a foreign transaction there may be rules of an earlier *)
(* save between them.                                                        *)
FlowReadsAs(f, rs, back) ==
  LET kept == {p \in rs : p[2] \in DOMAIN committed.rules} IN
    kept \subseteq back /\ (back = kept \/ <<"flow", f>> \in mixed)

(* A call that returned without an exception is in the database file, and   *)
(* crashes, failed statements and roll-backs of other calls do not take it   *)
(* back; it reads back as it was saved.  The exception is a remove or clear  *)
(* whose statements ran inside a transaction another thread had open on the  *)
(* shared session: it goes with that transaction.                            *)
ReturnedIsDurable ==
  \A e \in Entities :
    promised[e] # Unknown =>
      CASE e[1] = "rule" ->
             IF promised[e] = NoValue THEN FindRule(committed, e[2]) = NoValue
             ELSE e[2] \in DOMAIN committed.rules /\ RuleReadsAs(promised[e], FindRule(committed, e[2]))
        [] e[1] = "flow" ->
             IF promised[e] = NoValue THEN FindFlow(committed, e[2]) = NoValue
             ELSE e[2] \in committed.flows /\ FlowReadsAs(e[2], promised[e], FindFlow(committed, e[2]))

(* What a call returned after success is in the tables, whole, whichever     *)
(* statements of this or the other repository failed on the session.         *)
TablesAreWhole == DbTypeOK /\ NoOrphanMembers /\ WorkflowIsWhole /\ ReturnedIsDurable
=============================================================================
