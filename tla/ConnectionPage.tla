--------------------------- MODULE ConnectionPage ---------------------------
(***************************************************************************)
(* The page's connection pane beside the core it shows: the two buttons,   *)
(* the CoreInfoListener stream and its reconnects (connectionPage.js in    *)
(* extension/html/rpc.js), and the server's side of the stream: each       *)
(* SetCoreStatus writes the state and emits it to the observer, whose      *)
(* goroutine hands it to the stream's buffer; both buffers hold one        *)
(* message and an emit to a full one is dropped.                           *)
(*                                                                         *)
(* Start and Stop are here the status changes they publish under the lock, *)
(* and the box going up and down; CoreLifecycle has the whole of them.     *)
(* Messages travel as Wire has them, from this commit's class to the       *)
(* bundle's.                                                               *)
(***************************************************************************)
EXTENDS PageWire, Naturals, Sequences

CONSTANTS
  Click,       \* handler calls that can be under way at once
  MaxClicks,   \* bound: how often a button is pressed
  MaxOthers,   \* bound: starts and stops of other clients, and alerts
  MaxEnds,     \* bound: how often the stream ends or fails
  MaxNet       \* bound: statuses on their way down the stream

VARIABLES
  core,     \* static.CoreState with the type it was set with, ver its number; up: static.Box
  op,       \* the Start or Stop that holds static.lock
  pend,     \* per goroutine: the status written to core and not yet emitted
  source,   \* the observer's own buffer
  buffer,   \* the buffer of the stream's subscription
  stream,   \* the page's stream
  net,      \* what is on its way down the stream
  clicks,   \* the click handlers: where each is
  shown,    \* the pane, its text, and which status that was
  untold,   \* ghost: the core's status was dropped, or emitted before an older one
  presses, others, ends

vars == <<core, op, pend, source, buffer, stream, net, clicks, shown, untold, presses, others, ends>>

State == B!CoreState         \* CoreStates of this commit, the same numbers

\* hcore.MessageType; CREATE_SERVICE stands for every type errorWrapper is called with.
EMPTY == 0
CREATE_SERVICE == 3
UNEXPECTED_ERROR == 5
ALREADY_STOPPED == 7

Nobody == "nobody"
Other == "other"

ASSUME ConnectionConstantsOK == Nobody \notin Click /\ Other \notin Click

Free == [by |-> Nobody, step |-> "free"]
Idle == [at |-> "idle"]

Init ==
  /\ core = [state |-> State.STOPPED, type |-> EMPTY, ver |-> 0, up |-> FALSE]
  /\ op = Free
  /\ pend = [g \in {"op", "alert"} |-> <<>>]
  /\ source = <<>> /\ buffer = <<>> /\ net = <<>>
  /\ stream = "opening"                     \* window.onload called connect()
  /\ clicks = [i \in Click |-> Idle]
  /\ shown = [pane |-> "before", text |-> "none", ver |-> 0, by |-> "html"]
  /\ untold = FALSE
  /\ presses = 0 /\ others = 0 /\ ends = 0

-----------------------------------------------------------------------------
(* The core: SetCoreStatus in its two steps, and who calls it.             *)

\* Goroutine g's SetCoreStatus, up to the emit.
SetCoreStatus(g, state, type, up) ==
  /\ pend[g] = <<>>
  /\ core' = [state |-> state, type |-> type, ver |-> core.ver + 1, up |-> up]
  /\ pend' = [pend EXCEPT ![g] = <<core'>>]
  /\ untold' = FALSE

\* The emit.  A full observer drops it.  Two goroutines can emit in the other
\* order than they wrote, alerts being raised without the lock.
Emit(g) ==
  /\ pend[g] # <<>>
  /\ pend' = [pend EXCEPT ![g] = <<>>]
  /\ LET c == Head(pend[g])
         late == c.ver < core.ver /\ \A h \in DOMAIN pend \ {g} : pend[h] = <<>>
     IN IF source = <<>>
        THEN source' = <<c>> /\ untold' = (untold \/ late)
        ELSE source' = source /\ untold' = (untold \/ late \/ c.ver = core.ver)
  /\ UNCHANGED <<core, op, buffer, stream, net, clicks, shown, presses, others, ends>>

Running(i) == IF i \in Click THEN [clicks EXCEPT ![i].at = "running"] ELSE clicks

\* The answer to the call the operation was made for: the status it returns, or an error.
Answered(by, ok) ==
  IF by \in Click
  THEN [clicks EXCEPT ![by] = [at |-> "answer", ok |-> ok, state |-> core'.state, ver |-> core'.ver]]
  ELSE clicks

UnchangedOutside == UNCHANGED <<source, buffer, stream, net, shown, presses, ends>>

\* StartService takes the lock: STARTING, or the refusal, whose errorWrapper
\* first alerts.
BeginStart(by) ==
  /\ op = Free
  /\ IF core.state = State.STOPPED
     THEN SetCoreStatus("op", State.STARTING, EMPTY, core.up) /\ op' = [by |-> by, step |-> "starting"]
     ELSE SetCoreStatus("op", State.STOPPED, UNEXPECTED_ERROR, core.up) /\ op' = [by |-> by, step |-> "refused"]
  /\ clicks' = Running(by)

BeginStop(by) ==
  /\ op = Free
  /\ SetCoreStatus("op", State.STOPPING, EMPTY, core.up)
  /\ op' = [by |-> by, step |-> "stopping"]
  /\ clicks' = Running(by)

StartSucceeds ==
  /\ op.step = "starting"
  /\ SetCoreStatus("op", State.STARTED, EMPTY, TRUE)
  /\ op' = Free /\ clicks' = Answered(op.by, TRUE)
  /\ UnchangedOutside /\ UNCHANGED others

\* The configuration or the box is refused, or Close fails: errorWrapper alerts ...
OperationFails ==
  /\ op.step \in {"starting", "stopping"} /\ others < MaxOthers
  /\ SetCoreStatus("op", State.STOPPED, UNEXPECTED_ERROR, IF op.step = "stopping" THEN FALSE ELSE core.up)
  /\ op' = [op EXCEPT !.step = "refused"]
  /\ others' = others + 1
  /\ UnchangedOutside /\ UNCHANGED clicks

\* ... closes the box if there is one and publishes its own type.
ErrorWrapper ==
  /\ op.step = "refused"
  /\ SetCoreStatus("op", State.STOPPED, CREATE_SERVICE, FALSE)
  /\ op' = Free /\ clicks' = Answered(op.by, FALSE)
  /\ UnchangedOutside /\ UNCHANGED others

StopSucceeds ==
  /\ op.step = "stopping"
  /\ SetCoreStatus("op", State.STOPPED, IF core.up THEN EMPTY ELSE ALREADY_STOPPED, FALSE)
  /\ op' = Free /\ clicks' = Answered(op.by, TRUE)
  /\ UnchangedOutside /\ UNCHANGED others

OtherClient ==
  /\ others < MaxOthers /\ others' = others + 1
  /\ BeginStart(Other) \/ BeginStop(Other)
  /\ UnchangedOutside

\* Parse and GenerateConfig recover a panic into StopAndAlert, without the lock.
Alert ==
  /\ others < MaxOthers /\ others' = others + 1
  /\ SetCoreStatus("alert", State.STOPPED, UNEXPECTED_ERROR, FALSE)
  /\ UnchangedOutside /\ UNCHANGED <<op, clicks>>

-----------------------------------------------------------------------------
(* The server's side of the stream.                                        *)

Listening == stream \in {"subscribed", "open"}

UnchangedByStream == UNCHANGED <<core, op, pend, clicks, shown, presses, others>>

\* Mutant of Relay: the subscription takes any number of messages.
RelayUnbounded ==
  /\ source # <<>> /\ source' = <<>>
  /\ buffer' = IF Listening THEN buffer \o source ELSE <<>>
  /\ UNCHANGED <<stream, net, untold, ends>> /\ UnchangedByStream

\* The observer's goroutine hands a message to each subscription; one whose
\* buffer is full misses it.
Relay ==
  /\ source # <<>> /\ source' = <<>>
  /\ IF Listening /\ buffer # <<>>
     THEN buffer' = buffer /\ untold' = (untold \/ Head(source).ver = core.ver)
     ELSE buffer' = (IF Listening THEN source ELSE <<>>) /\ untold' = untold
  /\ UNCHANGED <<stream, net, ends>> /\ UnchangedByStream

\* CoreInfoListener subscribes ...
Subscribe ==
  /\ stream = "opening" /\ stream' = "subscribed"
  /\ UNCHANGED <<source, buffer, net, untold, ends>> /\ UnchangedByStream

Data(c) ==
  [kind |-> "data", ver |-> c.ver,
   wire |-> Write(V!CoreInfoResponse,
                  [core_state |-> c.state, message_type |-> c.type,
                   message |-> IF c.type = EMPTY THEN "" ELSE "why"])]

\* Mutant of SendInitial: nothing is sent before the first change.
SendNoInitial ==
  /\ stream = "subscribed" /\ stream' = "open"
  /\ UNCHANGED <<source, buffer, net, untold, ends>> /\ UnchangedByStream

\* ... sends the state it reads, without the lock and always with type EMPTY ...
SendInitial ==
  /\ stream = "subscribed" /\ stream' = "open" /\ Len(net) < MaxNet
  /\ net' = Append(net, Data([core EXCEPT !.type = EMPTY]))
  /\ UNCHANGED <<source, buffer, untold, ends>> /\ UnchangedByStream

\* ... and from then on what its subscription receives.
Forward ==
  /\ stream = "open" /\ buffer # <<>> /\ Len(net) < MaxNet
  /\ net' = Append(net, Data(Head(buffer))) /\ buffer' = <<>>
  /\ UNCHANGED <<source, stream, untold, ends>> /\ UnchangedByStream

\* The handler returns: the stream ends after what was sent.
StreamEnds ==
  /\ stream \in {"opening", "subscribed", "open"} /\ ends < MaxEnds
  /\ ends' = ends + 1
  /\ stream' = "ending" /\ buffer' = <<>>
  /\ net' = Append(net, [kind |-> "end"])
  /\ UNCHANGED <<source, untold>> /\ UnchangedByStream

\* The connection breaks: 'error' fires and nothing else.
StreamFails ==
  /\ stream \notin {"timer", "dead"} /\ ends < MaxEnds
  /\ ends' = ends + 1
  /\ stream' = "dead" /\ buffer' = <<>> /\ net' = <<>>
  /\ UNCHANGED <<source, untold>> /\ UnchangedByStream

-----------------------------------------------------------------------------
(* The page.                                                               *)

\* status == number.  A message is compared as its array's text: "" or the first
\* field where no other is set, which is a number, and otherwise a list, which is
\* none.  A number compares as the message that holds nothing else.
Equals(status, n) ==
  status.core_state = n /\ status.message_type = 0 /\ status.message = ""

JustState(n) == [New(B!CoreInfoResponse) EXCEPT !.core_state = n]

Texts == [STARTING |-> "Starting", STOPPING |-> "Stopping", STARTED |-> "Connected"]

handleCoreStatus(status, ver, by) ==
  LET told == {x \in DOMAIN Texts : Equals(status, State[x])}
  IN shown' = IF Equals(status, State.STOPPED)
              THEN [shown EXCEPT !.pane = "before", !.ver = ver, !.by = by]
              ELSE [pane |-> "connecting", ver |-> ver, by |-> by,
                    text |-> IF told = {} THEN shown.text ELSE Texts[CHOOSE x \in told : TRUE]]

UnchangedByPage == UNCHANGED <<core, op, pend, source, buffer, untold, others, ends>>

\* 'data': the whole message is handed over, not its state.
Deliver ==
  /\ net # <<>> /\ Head(net).kind = "data"
  /\ Readable(B!CoreInfoResponse, Head(net).wire)
  /\ handleCoreStatus(Read(B!CoreInfoResponse, Head(net).wire), Head(net).ver, "stream")
  /\ net' = Tail(net)
  /\ UNCHANGED <<stream, clicks, presses>> /\ UnchangedByPage

\* Mutant of DeliverEnd: the end of the stream is only logged.
EndIsLogged ==
  /\ net # <<>> /\ Head(net).kind = "end"
  /\ net' = Tail(net)
  /\ UNCHANGED <<stream, clicks, shown, presses>> /\ UnchangedByPage

\* 'end': connect again in a second.
DeliverEnd ==
  /\ net # <<>> /\ Head(net).kind = "end"
  /\ net' = Tail(net) /\ stream' = "timer"
  /\ UNCHANGED <<clicks, shown, presses>> /\ UnchangedByPage

Reconnect ==
  /\ stream = "timer" /\ stream' = "opening"
  /\ UNCHANGED <<net, clicks, shown, presses>> /\ UnchangedByPage

\* A press of a button that is shown (the pane of the Disconnect button also has
\* a class of index.html that hides it for good; the handler is there); the handlers do not wait for one another.
Press(i, pane, first) ==
  /\ clicks[i] = Idle /\ presses < MaxClicks
  /\ shown.pane = pane
  /\ clicks' = [clicks EXCEPT ![i] = [at |-> first]]
  /\ presses' = presses + 1
  /\ UNCHANGED <<stream, net, shown>> /\ UnchangedByPage

PressConnect(i)    == Press(i, "before", "prepare")
PressDisconnect(i) == Press(i, "connecting", "stop")

\* changecorerpcSettings has answered, or failed, which is only logged, and parse
\* answers: OK, and start is called, or anything else, and an alert box is all.
Prepared(i) ==
  /\ clicks[i].at = "prepare"
  /\ \E next \in {[at |-> "start"], Idle} : clicks' = [clicks EXCEPT ![i] = next]
  /\ UNCHANGED <<stream, net, shown, presses>> /\ UnchangedByPage

\* The server serves the call.
Serve(i) ==
  /\ \/ clicks[i].at = "start" /\ BeginStart(i)
     \/ clicks[i].at = "stop" /\ BeginStop(i)
  /\ UnchangedOutside /\ UNCHANGED others

\* The answer arrives, on a connection of its own.
ShowAnswer(i) ==
  /\ clicks[i].at = "answer" /\ clicks[i].ok
  /\ handleCoreStatus(JustState(clicks[i].state), clicks[i].ver, "answer")
  /\ clicks' = [clicks EXCEPT ![i] = Idle]
  /\ UNCHANGED <<stream, net, presses>> /\ UnchangedByPage

\* The call failed, or its answer is lost: an alert box.  The server may have
\* served it, or be about to: what it does then is an operation of its own.
CallFails(i) ==
  /\ clicks[i].at \in {"start", "stop", "running", "answer"}
  /\ clicks' = [clicks EXCEPT ![i] = Idle]
  /\ op' = IF op.by = i THEN [op EXCEPT !.by = Other] ELSE op
  /\ UNCHANGED <<core, pend, source, buffer, stream, net, shown, untold, presses, others, ends>>

-----------------------------------------------------------------------------
Server == StartSucceeds \/ OperationFails \/ ErrorWrapper \/ StopSucceeds

Streaming ==
  \/ \E g \in DOMAIN pend : Emit(g)
  \/ Relay \/ Subscribe \/ SendInitial \/ Forward
  \/ Deliver \/ DeliverEnd \/ Reconnect

Clicking(i) ==
  \/ PressConnect(i) \/ PressDisconnect(i) \/ Prepared(i)
  \/ Serve(i) \/ ShowAnswer(i) \/ CallFails(i)

Next ==
  \/ Server \/ Streaming
  \/ OtherClient \/ Alert \/ StreamEnds \/ StreamFails
  \/ \E i \in Click : Clicking(i)

Spec == Init /\ [][Next]_vars

\* Operations end, goroutines and the page's event loop run, messages arrive.
\* No fairness for presses, other clients, faults, or the answers of calls.
FairSpec ==
  /\ Spec
  /\ WF_vars(Server)
  /\ \A g \in {"op", "alert"} : WF_vars(Emit(g))
  /\ WF_vars(Relay) /\ WF_vars(Subscribe) /\ WF_vars(SendInitial) /\ WF_vars(Forward)
  /\ WF_vars(Deliver) /\ WF_vars(DeliverEnd) /\ WF_vars(Reconnect)

-----------------------------------------------------------------------------
Status == [state : {State[x] : x \in DOMAIN State}, type : Nat, ver : Nat, up : BOOLEAN]

\* The shape of the state; buffers of one; every message on its way is one the
\* bundle's class can read and has a status that was set; at most one operation
\* holds the lock and it is a click's only while that click waits for it.
TypeOK ==
  /\ core \in Status
  /\ op \in [by : Click \cup {Nobody, Other}, step : {"free", "starting", "refused", "stopping"}]
  /\ op.by = Nobody <=> op = Free
  /\ \A i \in Click : op.by = i <=> clicks[i].at = "running"
  /\ \A b \in {source, buffer, pend["op"], pend["alert"]} :
       b # <<>> => Len(b) = 1 /\ Head(b) \in Status /\ Head(b).ver <= core.ver
  /\ stream \in {"opening", "subscribed", "open", "ending", "timer", "dead"}
  /\ \A k \in DOMAIN net :
       IF net[k].kind = "end" THEN k = Len(net) /\ stream = "ending"
       ELSE /\ Readable(B!CoreInfoResponse, net[k].wire)
            /\ Message(B!CoreInfoResponse, Read(B!CoreInfoResponse, net[k].wire))
            /\ net[k].ver <= core.ver
  /\ stream \in {"timer", "dead"} => net = <<>>
  /\ shown.pane \in {"before", "connecting"} /\ shown.ver <= core.ver
  /\ untold \in BOOLEAN

Displayed == IF shown.pane = "before" THEN "STOPPED"
             ELSE IF shown.text = "none" THEN "none"
             ELSE CHOOSE x \in DOMAIN Texts : Texts[x] = shown.text

\* Nothing is on its way to the page.
Quiet ==
  /\ op = Free /\ stream = "open"
  /\ source = <<>> /\ buffer = <<>> /\ net = <<>> /\ \A g \in DOMAIN pend : pend[g] = <<>>

\* With nothing on its way, the page shows the core's last status, and, that
\* having been set without a message, the core's state: unless that status was
\* dropped by a full buffer or emitted out of order, or what the page showed last
\* was a click's answer, which may come after younger statuses.
\* CoreInfoListener subscribes before it reads the state it sends first; the
\* page must not lose a status in between, nor over a reconnect.
SettlesOnCore ==
  Quiet /\ ~untold /\ shown.by = "stream" =>
    /\ shown.ver = core.ver
    /\ core.type = EMPTY => State[Displayed] = core.state

\* However streams end and whatever was dropped, the page keeps coming back to a
\* state where nothing is on its way, or its stream broke off, after which
\* connect is never called again.  A stream that ends is opened anew.
KeepsUp == []<>(stream = "dead" \/ Quiet)
=============================================================================
