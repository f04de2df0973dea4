---------------------------- MODULE TunnelService ----------------------------
(***************************************************************************)
(* The tunnel service (v2/hcore/tunnelservice): a process of its own, with *)
(* the rights to make a TUN device, that holds one box, and the commands   *)
(* that use it: the core's admin extension, when the core starts and       *)
(* closes, and the command line.  Commands of several processes overlap.   *)
(* A call has a deadline: its client goes on, the handler too.             *)
(***************************************************************************)
EXTENDS Naturals, FiniteSets

CONSTANTS
  Client,     \* processes that give commands, one at a time each
  MaxOrphans, \* bound: handlers under way whose client has given up
  MaxCommands, \* bound: commands given
  MaxDeaths   \* bound: deaths of the service that nobody asked for

ASSUME TunnelAssumption == IsFiniteSet(Client) /\ Client \cap Nat = {} /\ MaxOrphans \in Nat /\ MaxCommands \in Nat

VARIABLES
  up,         \* the service listens on its port
  launching,  \* a service process was launched and does not listen yet
  exiting,    \* Exit's goroutine is about to end the process
  box,        \* s.box
  live,       \* boxes that run
  handler,    \* what handles the call of each client, and the calls given up
  cmd,        \* the command of each client
  reply,      \* what its call came back with, or the command when it is over
  given, deaths,
  crossed,    \* ghost: a Stop and Start of an activation were not alone in the service
  quiet       \* ghost: nothing interfered with the command

process == <<up, launching, exiting>>
vars == <<process, box, live, handler, cmd, reply, given, deaths, crossed, quiet>>

Orphan == 1..MaxOrphans
Slot == Client \cup Orphan
Box == 1..(2 * MaxCommands + 2)
NoBox == 0
Handler(op, at, b) == [op |-> op, at |-> at, box |-> b]
Free == Handler("none", "new", NoBox)
Command(op, at, install) == [op |-> op, at |-> at, install |-> install]
Idle == Command("none", "idle", FALSE)

\* There is no service, or one with the tunnel that an earlier activation started.
Init ==
  /\ up \in BOOLEAN /\ launching = FALSE /\ exiting = FALSE
  /\ box = IF up THEN 1 ELSE NoBox
  /\ live = {box} \ {NoBox}
  /\ handler = [s \in Slot |-> Free]
  /\ cmd = [c \in Client |-> Idle]
  /\ reply = [c \in Client |-> "none"]
  /\ given = 0 /\ deaths = 0 /\ crossed = FALSE
  /\ quiet = [c \in Client |-> FALSE]

Busy(s) == handler[s] # Free

\* The first box that neither runs nor is held.
IsNext(b) == b \notin live \cup {box} /\ 1..(b - 1) \subseteq live \cup {box}

-----------------------------------------------------------------------------
(* The handlers (tunnel_service.go).                                       *)

\* The handler ends and its client, if it still waits, has the answer.
Answer(s, answer) ==
  /\ handler' = [handler EXCEPT ![s] = Free]
  /\ reply' = [c \in Client |-> IF c = s THEN answer ELSE reply[c]]

Handling(s, op, at) == handler[s].op = op /\ handler[s].at = at

\* Start: the new box runs ...
StartsBox(s) ==
  /\ Handling(s, "start", "new")
  /\ \E b \in Box :
       /\ IsNext(b)
       /\ live' = live \cup {b}
       /\ handler' = [handler EXCEPT ![s] = Handler("start", "store", b)]
  /\ UNCHANGED <<process, box, cmd, reply, given, deaths, crossed, quiet>>

StartFails(s) ==
  /\ Handling(s, "start", "new") /\ Answer(s, "error")
  /\ UNCHANGED <<process, box, live, cmd, given, deaths, crossed, quiet>>

\* ... and takes the place of the one there was, which is not closed.
StoresBox(s) ==
  /\ Handling(s, "start", "store") /\ Answer(s, "ok")
  /\ box' = handler[s].box
  /\ UNCHANGED <<process, live, cmd, given, deaths, crossed, quiet>>

Closing == {handler[s].box : s \in {x \in Slot : handler[x].at = "closing"}}

\* Stop and Exit: there is no box, or it is closed or being closed; a second
\* Close is an error.  s.box is never taken away.
NothingToClose(s) ==
  /\ \/ Handling(s, "stop", "new") /\ UNCHANGED exiting
     \/ Handling(s, "exit", "new") /\ exiting' = TRUE
  /\ box \notin live \ Closing
  /\ Answer(s, IF handler[s].op = "stop" /\ box # NoBox THEN "error" ELSE "ok")
  /\ UNCHANGED <<up, launching, box, live, cmd, given, deaths, crossed, quiet>>

\* Mutant of Closes: the box is not closed.
LetsGo(s) ==
  /\ Handling(s, "stop", "new") /\ box \in live \ Closing
  /\ Answer(s, "ok")
  /\ UNCHANGED <<process, box, live, cmd, given, deaths, crossed, quiet>>

Closes(s) ==
  /\ Handling(s, "stop", "new") \/ Handling(s, "exit", "new")
  /\ box \in live \ Closing
  /\ handler' = [handler EXCEPT ![s] = Handler(handler[s].op, "closing", box)]
  /\ UNCHANGED <<process, box, live, cmd, reply, given, deaths, crossed, quiet>>

\* The box is down, whether its Close reports an error or not.
Closed(s) ==
  /\ handler[s].at = "closing"
  /\ live' = live \ {handler[s].box}
  /\ \/ handler[s].op = "stop" /\ UNCHANGED exiting /\ (Answer(s, "ok") \/ Answer(s, "error"))
     \/ handler[s].op = "exit" /\ exiting' = TRUE /\ Answer(s, "ok")
  /\ UNCHANGED <<up, launching, box, cmd, given, deaths, crossed, quiet>>

Handle(s) ==
  StartsBox(s) \/ StartFails(s) \/ StoresBox(s) \/ NothingToClose(s) \/ Closes(s) \/ Closed(s)

-----------------------------------------------------------------------------
(* The process: Exit ends it, and anything else may; the service manager   *)
(* may launch it again.  One that finds the port taken gives up.           *)

\* Mutant of Ends: a client that waits is not told.
EndsUntold ==
  /\ up' = FALSE /\ exiting' = FALSE /\ box' = NoBox /\ live' = {}
  /\ UNCHANGED <<handler, reply>>

\* The boxes and the handlers go with it.
Ends ==
  /\ up' = FALSE /\ exiting' = FALSE /\ box' = NoBox /\ live' = {}
  /\ handler' = [s \in Slot |-> Free]
  /\ reply' = [c \in Client |-> IF Busy(c) THEN "error" ELSE reply[c]]

\* The second that Exit waits is over.  An activation that told the service to exit
\* waits a second too, before it looks at the port; this need not be the longer one.
Exits ==
  /\ up /\ exiting /\ Ends
  /\ quiet' = [c \in Client |-> quiet[c] /\ cmd[c].at \in {"idle", "run", "port"}]
  /\ UNCHANGED <<launching, cmd, given, deaths, crossed>>

Dies ==
  /\ up /\ Ends
  /\ deaths < MaxDeaths /\ deaths' = deaths + 1
  /\ quiet' = [c \in Client |-> FALSE]
  /\ UNCHANGED <<launching, cmd, given, crossed>>

Relaunches ==
  /\ ~up /\ ~launching /\ launching' = TRUE
  /\ UNCHANGED <<up, exiting, box, live, handler, cmd, reply, given, deaths, crossed, quiet>>

Listens ==
  /\ launching /\ launching' = FALSE
  /\ up' = TRUE
  /\ UNCHANGED <<exiting, box, live, handler, cmd, reply, given, deaths, crossed, quiet>>

-----------------------------------------------------------------------------
(* The commands (admin_service_commander.go).  What a client does between   *)
(* two calls is one step.                                                  *)

At(c, op, at) == cmd[c].op = op /\ cmd[c].at = at
Answered(c, op, at) == At(c, op, at) /\ reply[c] # "none"

First == [activate |-> "port", deactivate |-> "stop", exit |-> "exit"]

\* ActivateTunnelService, DeactivateTunnelService(Force), which do the same, and
\* ExitTunnelService.
Begins(c) ==
  /\ cmd[c] = Idle
  /\ given < MaxCommands /\ given' = given + 1
  /\ \E op \in {"activate", "deactivate", "exit"} :
       cmd' = [cmd EXCEPT ![c] = Command(op, First[op], op = "activate")]
  /\ quiet' = [d \in Client |-> d = c /\ ~exiting /\ (\A x \in Client : cmd[x] = Idle) /\ \A s \in Slot : ~Busy(s)]
  /\ reply' = [reply EXCEPT ![c] = "none"]
  /\ UNCHANGED <<process, box, live, handler, deaths, crossed>>

UnchangedService == UNCHANGED <<process, box, live, given, deaths>>

MovesTo(c, at) == cmd' = [cmd EXCEPT ![c] = Command(cmd[c].op, at, cmd[c].install)]

Goes(c, at) ==
  /\ MovesTo(c, at)
  /\ reply' = [reply EXCEPT ![c] = "none"]
  /\ UnchangedService /\ UNCHANGED <<handler, crossed, quiet>>

Returns(c, result) ==
  /\ cmd' = [cmd EXCEPT ![c] = Idle]
  /\ reply' = [reply EXCEPT ![c] = result]
  /\ quiet' = [quiet EXCEPT ![c] = FALSE]
  /\ UnchangedService /\ UNCHANGED crossed

\* An activation between its Stop and its Start, or one that begins its Stop while
\* another call is handled.
Replacing(c) == cmd[c].op = "activate" /\ cmd[c].at \in {"stopping", "starting"}
Crosses(c) ==
  \/ \E d \in Client \ {c} : Replacing(d)
  \/ At(c, "activate", "port") /\ \E s \in Slot : Busy(s)

\* A call is handled, if there is a service, and fails if there is none.
Calls(c, op, at) ==
  /\ MovesTo(c, at)
  /\ handler' = IF up THEN [handler EXCEPT ![c] = Handler(op, "new", NoBox)] ELSE handler
  /\ reply' = [reply EXCEPT ![c] = IF up THEN "none" ELSE "error"]
  /\ crossed' = (crossed \/ Crosses(c))
  /\ UnchangedService /\ UNCHANGED quiet

\* Mutant of FindsPort: the new box is started beside the one there is.
FindsPortOnly(c) == At(c, "activate", "port") /\ up /\ Calls(c, "start", "starting")

\* startTunnelRequest.  The port is taken: by the service.
FindsPort(c) == At(c, "activate", "port") /\ up /\ Calls(c, "stop", "stopping")

\* It is free: there is no service, and one is installed the first time.
NoService(c) ==
  /\ At(c, "activate", "port") /\ ~up
  /\ IF cmd[c].install THEN Goes(c, "run") ELSE Returns(c, "error") /\ UNCHANGED handler

\* What Stop said is not looked at.
ThenStarts(c) == Answered(c, "activate", "stopping") /\ Calls(c, "start", "starting")

\* Mutant of Started: an error of Start is not looked at.
StartedAnyhow(c) == Answered(c, "activate", "starting") /\ Returns(c, "ok") /\ UNCHANGED handler

Started(c) ==
  /\ Answered(c, "activate", "starting") /\ reply[c] = "ok"
  /\ Returns(c, "ok") /\ UNCHANGED handler

\* A failed Start: the first time the service is told to exit and another one is run.
StartRefused(c) ==
  /\ Answered(c, "activate", "starting") /\ reply[c] = "error"
  /\ IF cmd[c].install THEN Goes(c, "exit") ELSE Returns(c, "error") /\ UNCHANGED handler

TellsToExit(c) == cmd[c].at = "exit" /\ Calls(c, "exit", "exiting")

\* ExitTunnelService takes an answer for the failure: it returns true when Exit failed,
\* false when it was answered, and never an error.  An activation ignores that and goes
\* on to runTunnelService.
ToldToExit(c) ==
  /\ cmd[c].at = "exiting" /\ reply[c] # "none"
  /\ IF cmd[c].op = "activate"
     THEN Goes(c, "run")
     ELSE Returns(c, IF reply[c] = "ok" THEN "false" ELSE "ok") /\ UNCHANGED handler

RunCommand(c) == At(c, "activate", "run") /\ launching' \in {launching, TRUE}

\* Mutant of RunsService: the second attempt may install the service again.
RunsAgain(c) ==
  /\ RunCommand(c)
  /\ MovesTo(c, "port")
  /\ UNCHANGED <<up, exiting, box, live, handler, reply, given, deaths, crossed, quiet>>

\* runTunnelService: the commands that install the service or run it may launch it
\* or not, whatever they return; the wait is too short for one or is not.
RunsService(c) ==
  /\ RunCommand(c)
  /\ cmd' = [cmd EXCEPT ![c] = Command("activate", "port", FALSE)]
  /\ UNCHANGED <<up, exiting, box, live, handler, reply, given, deaths, crossed, quiet>>

\* stopTunnelRequest: after an error, once more; the error is returned anyway.
Stops(c) == At(c, "deactivate", "stop") /\ Calls(c, "stop", "stopping")

StopAnswered(c) == Answered(c, "deactivate", "stopping") /\ reply[c] = "ok" /\ Returns(c, "ok") /\ UNCHANGED handler

StopsAgain(c) == Answered(c, "deactivate", "stopping") /\ reply[c] = "error" /\ Calls(c, "stop", "stopping again")

StoppedAgain(c) == Answered(c, "deactivate", "stopping again") /\ Returns(c, "error") /\ UNCHANGED handler

\* The deadline.  The one of an activation's Stop is its Start's too, which is not
\* sent any more; so it is for the two Stops of a deactivation.
GivesUp(c) ==
  /\ Busy(c)
  /\ \E s \in Orphan : ~Busy(s) /\ handler' = [handler EXCEPT ![s] = handler[c], ![c] = Free]
  /\ IF cmd[c].install \/ cmd[c].at = "exiting"
     THEN /\ MovesTo(c, IF cmd[c].at = "exiting" THEN "exiting" ELSE "exit")
          /\ reply' = [reply EXCEPT ![c] = "error"]
          /\ quiet' = [quiet EXCEPT ![c] = FALSE]
          /\ UnchangedService /\ UNCHANGED crossed
     ELSE Returns(c, "late")

Continues(c) ==
  \/ FindsPort(c) \/ NoService(c) \/ ThenStarts(c) \/ Started(c) \/ StartRefused(c)
  \/ TellsToExit(c) \/ ToldToExit(c) \/ RunsService(c)
  \/ Stops(c) \/ StopAnswered(c) \/ StopsAgain(c) \/ StoppedAgain(c)
  \/ GivesUp(c)

Next ==
  \/ \E c \in Client : Begins(c) \/ Continues(c)
  \/ \E s \in Slot : Handle(s)
  \/ Exits \/ Dies \/ Relaunches \/ Listens

Spec == Init /\ [][Next]_vars

\* Clients and handlers run on; a client waits no longer than its deadline.
FairSpec ==
  /\ Spec
  /\ \A c \in Client : WF_vars(Continues(c))
  /\ WF_vars(\E s \in Slot : Handle(s))

-----------------------------------------------------------------------------
\* The shape of the state; a client that waits has a handler, a service that is
\* down has no boxes and no handlers, and s.box may only be missing its box while
\* the handler that started it is on its way.
TypeOK ==
  /\ up \in BOOLEAN /\ launching \in BOOLEAN /\ exiting \in BOOLEAN
  /\ box \in Box \cup {NoBox} /\ live \subseteq Box
  /\ handler \in [Slot -> [op : {"none", "start", "stop", "exit"}, at : {"new", "store", "closing"}, box : Box \cup {NoBox}]]
  /\ cmd \in [Client -> [op : {"none", "activate", "deactivate", "exit"}, install : BOOLEAN,
       at : {"idle", "port", "stop", "stopping", "stopping again", "starting", "exit", "exiting", "run"}]]
  /\ reply \in [Client -> {"none", "ok", "false", "error", "late"}]
  /\ given \in Nat /\ deaths \in Nat /\ crossed \in BOOLEAN /\ quiet \in [Client -> BOOLEAN]
  /\ ~up => box = NoBox /\ live = {} /\ ~exiting /\ \A s \in Slot : ~Busy(s)
  /\ \A c \in Client : cmd[c].at \in {"stopping", "starting", "exiting", "stopping again"} /\ reply[c] = "none"
       => Busy(c)

\* One tunnel at a time, and s.box is the one that closes it, unless the Stop and
\* Start of an activation overlapped another call: then two boxes run and one of
\* them only ends with the process.  Whatever failed, was given up and finished
\* later, or died.
OneTunnel ==
  ~crossed =>
    /\ Cardinality(live) <= 1
    /\ \A b \in live : b = box \/ \E s \in Slot : Busy(s) /\ handler[s].at = "store" /\ handler[s].box = b

Undisturbed(c) == quiet[c] /\ ~crossed

ReturnsWith(c, op, results) ==
  cmd[c].op = op /\ cmd'[c].op = "none" /\ reply'[c] \in results

\* DeactivateTunnelService, answered and undisturbed, leaves no tunnel: also if it
\* reports an error, which it does when the tunnel was down already.
DeactivatedIsDown ==
  [][\A c \in Client :
       ReturnsWith(c, "deactivate", {"ok", "error"}) /\ Undisturbed(c) => live = {}]_vars

\* An undisturbed ActivateTunnelService tells the truth: it reports success only
\* with the tunnel there, and an error only with none.  (The tunnel may not last, if the
\* Start reached a service that this very command told to exit and that had not yet.)
ActivationIsTruthful ==
  [][\A c \in Client : Undisturbed(c) =>
       /\ ReturnsWith(c, "activate", {"ok"}) => box \in live
       /\ ReturnsWith(c, "activate", {"error"}) => live = {}]_vars

\* Every command returns: there is a deadline on every call and one second attempt.
CommandsReturn == \A c \in Client : cmd[c].at # "idle" ~> cmd[c].at = "idle"
=============================================================================
