-------------------------------- MODULE Maps --------------------------------
(* std::unordered_map as a function: an entry is written over or added, and *)
(* entries are erased.                                                      *)
EXTENDS Naturals

MapInsert(map, key, value) ==
  [k \in DOMAIN map \cup {key} |-> IF k = key THEN value ELSE map[k]]
MapErase(map, keys) == [k \in DOMAIN map \ keys |-> map[k]]
=============================================================================
