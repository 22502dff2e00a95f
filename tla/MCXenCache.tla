---------------------------------- MODULE MCXenCache ----------------------------------
\* The main thread and the connect thread on two records, with objects enough.
EXTENDS XenCache, TLC

Symmetric == Permutations(Thread) \cup Permutations(Ref) \cup Permutations(Object)
=======================================================================================
