----------------------------- MODULE CoreService -----------------------------
(***************************************************************************)
(* What hcore promises to the callers of StartService, Stop, Restart and   *)
(* Close when no external call panics: every call takes effect at one      *)
(* instant between its invocation and its return, although the code runs   *)
(* it in a dozen steps.  Restart has two such instants, because it lets go *)
(* of the mutex between its Stop and its StartService, and a start that    *)
(* meets a running service fails and takes that service down.              *)
(***************************************************************************)

CONSTANTS
  Thread,     \* the goroutines that call hcore
  Config,     \* configurations a service can run
  Down        \* no service is running

VARIABLES
  service,    \* the configuration of the running service, or Down
  call        \* call[t] : what is known of the call thread t has in progress

vars == <<service, call>>

None    == [phase |-> "none", op |-> "none", failed |-> FALSE]
Asks(o) == [phase |-> "asked", op |-> o, failed |-> FALSE]
Done(f) == [phase |-> "done", op |-> "none", failed |-> f]

Ops == {"start", "stop", "restart"}

TypeOK ==
  /\ service \in Config \cup {Down}
  /\ call \in [Thread -> {None} \cup {Asks(o) : o \in Ops} \cup {Done(f) : f \in BOOLEAN}]

Init ==
  /\ service = Down
  /\ call = [t \in Thread |-> None]

Move(t, from, to) ==
  /\ call[t] = from
  /\ call' = [call EXCEPT ![t] = to]

Invoke(t, o) ==
  /\ Move(t, None, Asks(o))
  /\ UNCHANGED service

\* A start succeeds only where nothing runs ...
StartSucceeds(t) ==
  /\ service = Down
  /\ service' \in Config
  /\ Move(t, Asks("start"), Done(FALSE))

\* ... and one that fails, for whatever reason, leaves nothing running.
StartFails(t) ==
  /\ service' = Down
  /\ Move(t, Asks("start"), Done(TRUE))

\* Stopping always ends with nothing running; only a service that was there
\* can fail to close cleanly.
StopTakesEffect(t) ==
  /\ service' = Down
  /\ \E f \in {FALSE, service # Down} : Move(t, Asks("stop"), Done(f))

\* The first half of a restart; the second is a start like any other.
RestartStops(t) ==
  /\ service' = Down
  /\ \/ Move(t, Asks("restart"), Asks("start"))
     \/ service # Down /\ Move(t, Asks("restart"), Done(TRUE))

Return(t) ==
  /\ \E f \in BOOLEAN : Move(t, Done(f), None)
  /\ UNCHANGED service

Next ==
  \E t \in Thread :
    \/ \E o \in Ops : Invoke(t, o)
    \/ StartSucceeds(t)
    \/ StartFails(t)
    \/ StopTakesEffect(t)
    \/ RestartStops(t)
    \/ Return(t)

Spec == Init /\ [][Next]_vars
==============================================================================
