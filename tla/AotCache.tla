------------------------------ MODULE AotCache ------------------------------
(***************************************************************************)
(* AotCompiler, with its bytecode in memory and in a directory of files    *)
(* named after the hash of the expression, and LuaExpressionCache.  A file *)
(* is opened, which empties it, and then written; the process may die in   *)
(* between.  Bytecode is told by the expression it was compiled from.      *)
(***************************************************************************)
EXTENDS Integers, Sequences, FiniteSets, Maps

CONSTANTS
  Expressions,
  Broken,        \* those that do not compile
  HashOf,        \* std::hash of an expression
  Torn,          \* what is in a file that was opened and not written
  maxCacheSize,  \* of LuaExpressionCache
  MaxCrashes     \* bound: crashes

(* erase(begin()) of an empty map is undefined, so the cache holds something. *)
ASSUME AotAssumption ==
  /\ Broken \subseteq Expressions /\ Torn \notin Expressions
  /\ maxCacheSize \in Nat \ {0} /\ MaxCrashes \in Nat

VARIABLES
  bytecode,   \* cache_ of AotCompiler: expression -> bytecode
  files,      \* hash -> content of the .frc file
  writing,    \* expressions whose file is open and still empty
  luaCache,   \* cache_ of LuaExpressionCache: expressions
  crashes

aotVars == <<bytecode, files, writing, luaCache, crashes>>

NoBytecode == [x \in {} |-> Torn]

AotInit ==
  /\ bytecode = NoBytecode /\ files = NoBytecode /\ writing = {}
  /\ luaCache = {} /\ crashes = 0

FileOf(e) == HashOf[e]

(* getOrCompile from the disk: whatever the file holds. *)
LoadFromDisk(e) ==
  /\ writing = {} /\ e \notin DOMAIN bytecode /\ FileOf(e) \in DOMAIN files
  /\ bytecode' = MapInsert(bytecode, e, files[FileOf(e)])
  /\ UNCHANGED <<files, writing, luaCache, crashes>>

(* compileToBytecode, then the cache, then the file.  What does not compile  *)
(* throws and leaves no trace; precompile swallows that and goes on.         *)
CompileToBytecode(e) ==
  /\ writing = {} /\ e \notin DOMAIN bytecode \cup Broken /\ FileOf(e) \notin DOMAIN files
  /\ bytecode' = MapInsert(bytecode, e, e)
  /\ files' = MapInsert(files, FileOf(e), Torn) /\ writing' = {e}
  /\ UNCHANGED <<luaCache, crashes>>
WriteFile(e) ==
  /\ e \in writing
  /\ files' = [files EXCEPT ![FileOf(e)] = bytecode[e]] /\ writing' = {}
  /\ UNCHANGED <<bytecode, luaCache, crashes>>

(* saveCache writes an index that loadCache reads and ignores. *)
ClearCache ==
  /\ writing = {}
  /\ bytecode' = NoBytecode /\ files' = NoBytecode
  /\ UNCHANGED <<writing, luaCache, crashes>>

AotCrash ==
  /\ crashes < MaxCrashes /\ crashes' = crashes + 1
  /\ bytecode' = NoBytecode /\ writing' = {} /\ luaCache' = {}
  /\ UNCHANGED <<files>>

(* LuaExpressionCache::getOrCompile: the first entry of an unordered map     *)
(* makes room before the new one is compiled, so a failure costs an entry.   *)
AfterEviction(e) ==
  IF Cardinality(luaCache) >= maxCacheSize
    THEN {luaCache \ {x} : x \in luaCache} ELSE {luaCache}
GetOrCompile(e) ==
  /\ e \notin luaCache
  /\ \E rest \in AfterEviction(e) :
       luaCache' = IF e \in Broken THEN rest ELSE rest \cup {e}
  /\ UNCHANGED <<bytecode, files, writing, crashes>>
ClearLuaCache ==
  /\ luaCache' = {}
  /\ UNCHANGED <<bytecode, files, writing, crashes>>

AotNext ==
  \/ \E e \in Expressions : \/ LoadFromDisk(e) \/ CompileToBytecode(e) \/ WriteFile(e)
                            \/ GetOrCompile(e)
  \/ ClearCache \/ ClearLuaCache \/ AotCrash
AotSpec == AotInit /\ [][AotNext]_aotVars

-----------------------------------------------------------------------------
Collides(e) == \E f \in Expressions \ {e} : HashOf[f] = HashOf[e]

(* The bytecode found under an expression is its own, over restarts of the   *)
(* process, unless another expression has the same hash or the process died  *)
(* while it wrote a file: a file is not checked against the expression, nor  *)
(* written to another name first.                                            *)
BytecodeIsItsOwn ==
  \A e \in DOMAIN bytecode :
    bytecode[e] = e \/ Collides(e) \/ (bytecode[e] = Torn /\ crashes > 0)

(* The cache of compiled text never outgrows its size, also when entries are *)
(* evicted for an expression that then does not compile.                     *)
LuaCacheIsBounded == Cardinality(luaCache) <= maxCacheSize

(* The caches of bytecode answer with the expression's own code, over hash   *)
(* collisions and crashes, and the one in memory stays within its size.      *)
CachesAreSound == BytecodeIsItsOwn /\ LuaCacheIsBounded
=============================================================================
