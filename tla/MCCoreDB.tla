------------------------------- MODULE MCCoreDB -------------------------------
EXTENDS CoreDB, TLC

CONSTANTS path, content, old, new

\* The rows of saveLastStartRequest, one rewritten alone, and a Delete of both.
MCBatch ==
  {<<[id |-> path, val |-> old], [id |-> content, val |-> new]>>,
   <<[id |-> path, val |-> new]>>,
   <<[id |-> path, val |-> Absent], [id |-> content, val |-> Absent]>>}

Symmetry == Permutations(Proc)
==============================================================================
