---------------------------- MODULE CoreRefinement ----------------------------
(***************************************************************************)
(* CoreLifecycle implements CoreService as long as no external call        *)
(* panics.  A start takes effect when instance.Start() returns, a stop     *)
(* when the box has been closed (at once if there is none), and a refused start   *)
(* when its errorWrapper closes the service it met.                        *)
(***************************************************************************)
EXTENDS CoreLifecycle

Running == {b \in Boxes : life[b] = "running"}

Service == IF Running = {} THEN NoConfig ELSE runs[CHOOSE b \in Running : TRUE]

\* The thread is past the instant its start or stop took effect.
Effected(t) ==
  \/ pc[t] \in {"startPublish", "startRefresh", "startDone",
                "stopClear", "stopDone", "alertClear", "alertEnd"}
  \/ pc[t] \in {"stopCheck", "alert", "alertCheck", "alertClose"} /\ Box = NoBox

\* The half of a Restart the thread is in.
Asked(t) ==
  CASE op[t] = "restart" -> IF pc[t] \in {"stopLock"} \cup StopPc THEN "restart" ELSE "start"
    [] op[t] = "close" -> "stop"
    [] OTHER -> op[t]

\* What a client of CoreService knows of the call thread t has in progress.
CallOf(t) ==
  IF pc[t] = "idle" \/ op[t] = "parse"
    THEN [phase |-> "none", op |-> "none", failed |-> FALSE]
  ELSE IF ~Effected(t)
    THEN [phase |-> "asked", op |-> Asked(t), failed |-> FALSE]
  ELSE IF op[t] = "restart" /\ pc[t] \in StopPc /\ msg[t] = "EMPTY"
    THEN [phase |-> "asked", op |-> "start", failed |-> FALSE]
  ELSE [phase |-> "done", op |-> "none", failed |-> msg[t] \in Failure]

Calls == [t \in Thread |-> CallOf(t)]

Promise == INSTANCE CoreService WITH
  Down <- NoConfig,
  service <- Service,
  call <- Calls

\* Every call of StartService, Stop, Restart and Close appears to take effect at
\* one instant, whatever the other threads do in the meantime.
ImplementsCoreService == Promise!Spec
==============================================================================
