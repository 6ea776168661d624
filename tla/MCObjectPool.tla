---- MODULE MCObjectPool ----
\* Model values and sizes come from the .cfg files: MCObjectPool.cfg and its
\* siblings give N, Requested and NoError.
EXTENDS ObjectPool
====
