\* Two threads, each able to do a whole pop and push between two steps of
\* the other, and enough addresses for one to come back.
SPECIFICATION FairSpec
CONSTANTS
  Threads = {t1, t2}
  Engines = {e1, e2}
  Nodes = {n1, n2, n3}
  NULL = NULL
INVARIANT OneOwner
PROPERTIES ImplementsPool LockFree
