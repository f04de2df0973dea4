--------------------------- MODULE MCCoreLifecycle ---------------------------
EXTENDS CoreRefinement, TLC

CONSTANTS home, work

\* One request by content, one by file path, and the empty one.
MCRequest ==
  {[path |-> Empty, content |-> home],
   [path |-> work, content |-> Empty],
   NoRequest}

MCConfig == {home, work}

\* For the run with liveness: one request by content.
OneRequest == {[path |-> Empty, content |-> home]}
==============================================================================
