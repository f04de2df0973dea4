---------------------------- MODULE CoreLifecycle ----------------------------
(***************************************************************************)
(* The life of the core instance in v2/hcore: StartService, Stop, Restart, *)
(* Close(mode) and the two converters, Parse and GenerateConfig, that run  *)
(* without the mutex but may take the core down.                           *)
(*                                                                         *)
(* `static` (static_data.go) is shared by every goroutine that serves an   *)
(* FFI or RPC call.  static.lock covers the bodies of StartService and     *)
(* Stop, but the deferred recovery of a panic runs after the deferred      *)
(* unlock, and the converters never take it: their StopAndAlert reads and  *)
(* writes static.Box and static.CoreState beside a thread that does hold   *)
(* the mutex.  One action is one stretch of code no other thread can see   *)
(* the inside of; a read of static.Box that another one acts on is split   *)
(* from it.                                                                *)
(***************************************************************************)

EXTENDS Naturals

CONSTANTS
  Thread,      \* goroutines that call into hcore
  NoThread,    \* the mutex is free
  Boxes,       \* BoxService instances; one no longer referenced is used again
  NoBox,       \* the nil *BoxService
  Config,      \* contents sing-box can build a service from
  Request,     \* the start requests that callers send
  Empty,       \* the empty string in a request
  Unset,       \* an AppSettings row that was never written
  NoConfig,    \* configuration of a box never built, and CoreService's Down
  PanicSite    \* the external calls that may panic

Sites == {"build", "hooks", "new", "run", "close", "parse"}

Field == Config \cup {Empty}
StartRequest == [path : Field, content : Field]

ASSUME ConstantsOK ==
  /\ NoThread \notin Thread
  /\ NoBox \notin Boxes
  /\ Empty \notin Config
  /\ Unset \notin Config \cup {Empty}
  /\ NoConfig \notin Config \cup {Empty}
  /\ Request \subseteq StartRequest
  /\ PanicSite \subseteq Sites

VARIABLES
  CoreState,   \* static.CoreState
  Box,         \* static.Box
  lock,        \* holder of static.lock
  saved,       \* the lastStartRequestPath and ...Content rows of AppSettings
  torn,        \* history: the last save did not write both rows
  life,        \* what has become of each BoxService ("halfway": half started or closed)
  runs,        \* the configuration each BoxService was built from
  pc,          \* where each thread is
  op,          \* the operation it serves, or "none"
  req,         \* its request (`in`)
  inst,        \* its local `instance`
  msg,         \* the MessageType its response will carry
  frames,      \* recover() frames still below it on its stack
  crashed      \* a panic found no frame to recover it

vars == <<CoreState, Box, lock, saved, torn, life, runs,
          pc, op, req, inst, msg, frames, crashed>>

\* The variables most steps leave alone.
record == <<saved, torn>>
boxes  == <<life, runs>>
locals == <<op, req, inst>>

CoreStates == {"STOPPED", "STARTING", "STARTED", "STOPPING"}
Failure    == {"ALREADY_STARTED", "ERROR_BUILDING_CONFIG", "ERROR_EXTENSION",
               "CREATE_SERVICE", "START_SERVICE", "UNEXPECTED_ERROR"}
Ops        == {"start", "stop", "restart", "close", "parse"}
AlertPc    == {"alert", "alertCheck", "alertClose", "alertClear", "alertEnd"}
StartPc    == {"startLoad", "startBuild", "startSave", "startHooks", "startNew",
               "startRun", "startPublish", "startRefresh", "startDone"}
StopPc     == {"stopCheck", "stopClose", "stopClear", "stopDone"}
PcLabel    == {"idle", "parse", "startLock", "stopLock"}
                \cup AlertPc \cup StartPc \cup StopPc
LifeLabel  == {"closed", "created", "running", "halfway"}
SavedRows  == [path : Field \cup {Unset}, content : Field \cup {Unset}]
NoRequest  == [path |-> Empty, content |-> Empty]

\* BuildConfig reads the content, or else the file at the path.
Effective(r) == IF r.content # Empty THEN r.content ELSE r.path

Init ==
  /\ CoreState = "STOPPED"
  /\ Box = NoBox
  /\ lock = NoThread
  /\ saved = [path |-> Unset, content |-> Unset]
  /\ torn = FALSE
  /\ life = [b \in Boxes |-> "closed"]
  /\ runs = [b \in Boxes |-> NoConfig]
  /\ pc = [t \in Thread |-> "idle"]
  /\ op = [t \in Thread |-> "none"]
  /\ req = [t \in Thread |-> NoRequest]
  /\ inst = [t \in Thread |-> NoBox]
  /\ msg = [t \in Thread |-> "EMPTY"]
  /\ frames = [t \in Thread |-> 0]
  /\ crashed = FALSE

------------------------------------------------------------------------------
(* How a thread moves on.                                                  *)

At(t, label) == ~crashed /\ pc[t] = label

Goto(t, label) == pc' = [pc EXCEPT ![t] = label]

Released(t) == IF lock = t THEN NoThread ELSE lock

\* `return errorWrapper(m, err)`: the alert runs while the mutex is held.
Alert(t, m) ==
  /\ Goto(t, "alert")
  /\ msg' = [msg EXCEPT ![t] = m]

\* Mutant of Panic: the handler only logs, without StopAndAlert.
PanicWithoutAlert(t) ==
  /\ lock' = Released(t)
  /\ Goto(t, "idle")
  /\ inst' = [inst EXCEPT ![t] = NoBox]
  /\ frames' = [frames EXCEPT ![t] = 0]
  /\ op' = [op EXCEPT ![t] = "none"]
  /\ crashed' = (frames[t] = 0)
  /\ UNCHANGED <<CoreState, Box, record, req, msg>>

\* The deferred calls run in the order unlock, recover: the handler of the
\* innermost frame starts without the mutex.  With no frame left the process
\* dies.
Panic(t) ==
  /\ lock' = Released(t)
  /\ Alert(t, "UNEXPECTED_ERROR")
  /\ inst' = [inst EXCEPT ![t] = NoBox]
  /\ frames' = [frames EXCEPT ![t] = IF @ = 0 THEN 0 ELSE @ - 1]
  /\ crashed' = (frames[t] = 0)
  /\ UNCHANGED <<CoreState, Box, record, op, req>>

\* The call returns what msg says, after the deferred unlock; its locals die.
Return(t) ==
  /\ Goto(t, "idle")
  /\ lock' = Released(t)
  /\ op' = [op EXCEPT ![t] = "none"]
  /\ req' = [req EXCEPT ![t] = NoRequest]
  /\ inst' = [inst EXCEPT ![t] = NoBox]
  /\ frames' = [frames EXCEPT ![t] = 0]
  /\ msg' = [msg EXCEPT ![t] = "EMPTY"]
  /\ UNCHANGED crashed

\* A step of the body that neither returns nor panics.
Continue == UNCHANGED <<lock, frames, crashed>>

------------------------------------------------------------------------------
(* Calls.  StartService and Stop each have one recover() frame; Restart    *)
(* and Close add their own.  The exports and RPC handlers above have none. *)

\* Mutant of Call: StartService, Stop and the converters lack their defer.
CallUnrecovered(t, o, r) ==
  /\ At(t, "idle")
  /\ o \in {"start", "restart"} \/ r = NoRequest
  /\ op' = [op EXCEPT ![t] = o]
  /\ req' = [req EXCEPT ![t] = r]
  /\ Goto(t, CASE o = "start" -> "startLock"
               [] o = "parse" -> "parse"
               [] OTHER -> "stopLock")
  /\ frames' = [frames EXCEPT ![t] = IF o \in {"restart", "close"} THEN 1 ELSE 0]
  /\ UNCHANGED <<CoreState, Box, lock, record, boxes, inst, msg, crashed>>

\* restart.go:14, custom.go:23 and the converters: the call arrives.
Call(t, o, r) ==
  /\ At(t, "idle")
  /\ o \in {"start", "restart"} \/ r = NoRequest
  /\ op' = [op EXCEPT ![t] = o]
  /\ req' = [req EXCEPT ![t] = r]
  /\ Goto(t, CASE o = "start" -> "startLock"
               [] o = "parse" -> "parse"
               [] OTHER -> "stopLock")
  /\ frames' = [frames EXCEPT ![t] = IF o \in {"restart", "close"} THEN 2 ELSE 1]
  /\ UNCHANGED <<CoreState, Box, lock, record, boxes, inst, msg, crashed>>

\* Parse and GenerateConfig: a panic is recovered into a StopAndAlert, and the
\* call then returns its zero results, a success.
ParseReturns(t) ==
  /\ At(t, "parse")
  /\ Return(t)
  /\ UNCHANGED <<CoreState, Box, record, boxes>>

ParsePanics(t) ==
  /\ At(t, "parse")
  /\ "parse" \in PanicSite
  /\ Panic(t)
  /\ UNCHANGED boxes

------------------------------------------------------------------------------
(* errorWrapper and StopAndAlert.                                          *)

AlertStatus(t) ==
  /\ At(t, "alert")
  /\ CoreState' = "STOPPED"
  /\ Goto(t, "alertCheck")
  /\ Continue
  /\ UNCHANGED <<Box, record, boxes, locals, msg>>

\* Mutant of AlertCheck: the alert reports but leaves the box alone.
AlertKeepsBox(t) ==
  /\ At(t, "alertCheck")
  /\ Goto(t, "alertEnd")
  /\ Continue
  /\ UNCHANGED <<CoreState, Box, record, boxes, locals, msg>>

AlertCheck(t) ==
  /\ At(t, "alertCheck")
  /\ Goto(t, IF Box = NoBox THEN "alertEnd" ELSE "alertClose")
  /\ Continue
  /\ UNCHANGED <<CoreState, Box, record, boxes, locals, msg>>

\* Mutant of AlertClose: the box is let go without Close().
AlertForgetsClose(t) ==
  /\ At(t, "alertClose")
  /\ Box # NoBox
  /\ Goto(t, "alertClear")
  /\ Continue
  /\ UNCHANGED <<CoreState, Box, record, boxes, locals, msg>>

\* What Close() can make of a box.  One whose Close() panicked once is marked as
\* closed in sing-box, and the next Close() may do no more than say so.
AfterClose(l) == IF l = "halfway" THEN {"halfway", "closed"} ELSE {"closed"}

\* static.Box is read again here.  Close() of a box already closed only
\* reports an error, which StopAndAlert ignores.
AlertClose(t) ==
  /\ At(t, "alertClose")
  /\ Box # NoBox
  /\ \E l \in AfterClose(life[Box]) : life' = [life EXCEPT ![Box] = l]
  /\ Goto(t, "alertClear")
  /\ Continue
  /\ UNCHANGED <<CoreState, Box, record, runs, locals, msg>>

\* Close() panics, or the box was taken away since the check and the method
\* runs on a nil receiver.
AlertClosePanics(t) ==
  /\ At(t, "alertClose")
  /\ \/ /\ Box = NoBox
        /\ UNCHANGED life
     \/ /\ Box # NoBox
        /\ "close" \in PanicSite
        /\ life' = [life EXCEPT ![Box] = IF @ = "closed" THEN @ ELSE "halfway"]
  /\ Panic(t)
  /\ UNCHANGED runs

AlertClear(t) ==
  /\ At(t, "alertClear")
  /\ Box' = NoBox
  /\ Goto(t, "alertEnd")
  /\ Continue
  /\ UNCHANGED <<CoreState, record, boxes, locals, msg>>

\* errorWrapper sets the status a second time.  The handlers of the converters
\* and of Close itself call StopAndAlert alone and report no error.
HandlerAlertsOnly(t) == op[t] = "parse" \/ (op[t] = "close" /\ frames[t] = 0)

AlertEnd(t) ==
  /\ At(t, "alertEnd")
  /\ IF HandlerAlertsOnly(t)
       THEN UNCHANGED CoreState
       ELSE CoreState' = "STOPPED"
  /\ Return(t)
  /\ UNCHANGED <<Box, record, boxes>>

------------------------------------------------------------------------------
(* StartService.                                                           *)

\* Mutant of StartRefused: the refusal is returned without errorWrapper.
StartRefusedQuietly(t) ==
  /\ At(t, "startLock")
  /\ lock = NoThread
  /\ CoreState # "STOPPED"
  /\ Return(t)
  /\ UNCHANGED <<CoreState, Box, record, boxes>>

StartRefused(t) ==
  /\ At(t, "startLock")
  /\ lock = NoThread
  /\ CoreState # "STOPPED"
  /\ lock' = t
  /\ Alert(t, "ALREADY_STARTED")
  /\ UNCHANGED <<CoreState, Box, record, boxes, locals, frames, crashed>>

StartAccepted(t) ==
  /\ At(t, "startLock")
  /\ lock = NoThread
  /\ CoreState = "STOPPED"
  /\ lock' = t
  /\ CoreState' = "STARTING"
  /\ Goto(t, "startLoad")
  /\ UNCHANGED <<Box, record, boxes, locals, msg, frames, crashed>>

\* Mutant of LoadLastStartRequest: a missing row is not an error.
LoadUnchecked(t) ==
  /\ At(t, "startLoad")
  /\ req' = [req EXCEPT ![t] = IF Effective(@) # Empty THEN @ ELSE saved]
  /\ Goto(t, "startBuild")
  /\ Continue
  /\ UNCHANGED <<CoreState, Box, record, boxes, op, inst, msg>>

\* loadLastStartRequestIfNeeded: a request with a configuration is used as it
\* is, an empty one is replaced by the saved rows.
LoadLastStartRequest(t) ==
  /\ At(t, "startLoad")
  /\ LET r == IF Effective(req[t]) # Empty THEN req[t] ELSE saved
     IN  /\ r \in StartRequest
         /\ req' = [req EXCEPT ![t] = r]
  /\ Goto(t, "startBuild")
  /\ Continue
  /\ UNCHANGED <<CoreState, Box, record, boxes, op, inst, msg>>

\* A row is missing, or the database does not open.
LoadFails(t) ==
  /\ At(t, "startLoad")
  /\ Effective(req[t]) = Empty
  /\ Alert(t, "ERROR_BUILDING_CONFIG")
  /\ Continue
  /\ UNCHANGED <<CoreState, Box, record, boxes, locals>>

BuildConfig(t) ==
  /\ At(t, "startBuild")
  /\ Effective(req[t]) # Empty
  /\ Goto(t, "startSave")
  /\ Continue
  /\ UNCHANGED <<CoreState, Box, record, boxes, locals, msg>>

\* Mutant of SaveLastStartRequest: an empty field does not overwrite its row.
SaveNonEmptyOnly(t) ==
  /\ At(t, "startSave")
  /\ saved' = [f \in {"path", "content"} |->
                 IF req[t][f] # Empty THEN req[t][f] ELSE saved[f]]
  /\ torn' = FALSE
  /\ Goto(t, "startHooks")
  /\ Continue
  /\ UNCHANGED <<CoreState, Box, boxes, locals, msg>>

\* saveLastStartRequest: the rows are written one by one, and an error half way
\* is ignored by StartService.
SaveLastStartRequest(t) ==
  /\ At(t, "startSave")
  /\ \E s \in {saved, [saved EXCEPT !.path = req[t].path], req[t]} :
       /\ saved' = s
       /\ torn' = (s # req[t])
  /\ Goto(t, "startHooks")
  /\ Continue
  /\ UNCHANGED <<CoreState, Box, boxes, locals, msg>>

\* OnMainServicePreStart and the encoding of the options.
PreStartHooks(t) ==
  /\ At(t, "startHooks")
  /\ Goto(t, "startNew")
  /\ Continue
  /\ UNCHANGED <<CoreState, Box, record, boxes, locals, msg>>

NewService(t) ==
  /\ At(t, "startNew")
  /\ \E b \in Boxes :
       /\ life[b] = "closed"
       /\ b # Box /\ \A u \in Thread : inst[u] # b
       /\ life' = [life EXCEPT ![b] = "created"]
       /\ runs' = [runs EXCEPT ![b] = Effective(req[t])]
       /\ inst' = [inst EXCEPT ![t] = b]
  /\ Goto(t, "startRun")
  /\ Continue
  /\ UNCHANGED <<CoreState, Box, record, op, req, msg>>

\* instance.Start(), after the optional delay.
RunService(t) ==
  /\ At(t, "startRun")
  /\ life' = [life EXCEPT ![inst[t]] = "running"]
  /\ Goto(t, "startPublish")
  /\ Continue
  /\ UNCHANGED <<CoreState, Box, record, runs, locals, msg>>

\* Mutant of RunFails: an instance that fails late in Start() is left running.
RunFailsOpen(t) ==
  /\ At(t, "startRun")
  /\ life' = [life EXCEPT ![inst[t]] = "running"]
  /\ Alert(t, "START_SERVICE")
  /\ inst' = [inst EXCEPT ![t] = NoBox]
  /\ Continue
  /\ UNCHANGED <<CoreState, Box, record, runs, op, req>>

\* sing-box closes an instance that does not start; hcore drops it.
RunFails(t) ==
  /\ At(t, "startRun")
  /\ life' = [life EXCEPT ![inst[t]] = "closed"]
  /\ Alert(t, "START_SERVICE")
  /\ inst' = [inst EXCEPT ![t] = NoBox]
  /\ Continue
  /\ UNCHANGED <<CoreState, Box, record, runs, op, req>>

\* The error returns between the load and the start of the instance.
StartFails(t) ==
  /\ \/ At(t, "startBuild") /\ Alert(t, "ERROR_BUILDING_CONFIG")
     \/ At(t, "startHooks") /\ \E m \in {"ERROR_EXTENSION", "ERROR_BUILDING_CONFIG"} : Alert(t, m)
     \/ At(t, "startNew") /\ Alert(t, "CREATE_SERVICE")
  /\ Continue
  /\ UNCHANGED <<CoreState, Box, record, boxes, locals>>

\* A panic inside instance.Start() leaves an instance that nobody refers to and
\* nobody closes: sing-box closes itself only where its Start() returns an error.
StartPanics(t) ==
  /\ \/ /\ \/ At(t, "startBuild") /\ "build" \in PanicSite
           \/ At(t, "startHooks") /\ "hooks" \in PanicSite
           \/ At(t, "startNew") /\ "new" \in PanicSite
           \/ At(t, "startRefresh") /\ Box = NoBox
        /\ UNCHANGED life
     \/ /\ At(t, "startRun") /\ "run" \in PanicSite
        /\ life' = [life EXCEPT ![inst[t]] = "halfway"]
  /\ Panic(t)
  /\ UNCHANGED runs

PublishBox(t) ==
  /\ At(t, "startPublish")
  /\ Box' = inst[t]
  /\ inst' = [inst EXCEPT ![t] = NoBox]
  /\ Goto(t, "startRefresh")
  /\ Continue
  /\ UNCHANGED <<CoreState, record, boxes, op, req, msg>>

\* refreshFFISnapshotCaches reads static.Box several times: it panics only if
\* an alert takes the box away meanwhile (StartPanics).  The caches it fills
\* are the state of FFISnapshot.
RefreshAfterStart(t) ==
  /\ At(t, "startRefresh")
  /\ Goto(t, "startDone")
  /\ Continue
  /\ UNCHANGED <<CoreState, Box, record, boxes, locals, msg>>

StartDone(t) ==
  /\ At(t, "startDone")
  /\ CoreState' = "STARTED"
  /\ Return(t)
  /\ UNCHANGED <<Box, record, boxes>>

------------------------------------------------------------------------------
(* Stop, and what Restart does after it.                                   *)

StopLock(t) ==
  /\ At(t, "stopLock")
  /\ lock = NoThread
  /\ lock' = t
  /\ CoreState' = "STOPPING"
  /\ Goto(t, "stopCheck")
  /\ UNCHANGED <<Box, record, boxes, locals, msg, frames, crashed>>

\* Mutant of StopSucceeds: Restart calls StartService with the mutex held.
StopKeepsLock(t) ==
  /\ CoreState' = "STOPPED"
  /\ IF op[t] = "restart"
       THEN Goto(t, "startLock") /\ UNCHANGED <<lock, locals, msg, frames, crashed>>
       ELSE Return(t)
  /\ UNCHANGED <<Box, record, boxes>>

\* A Stop that succeeded returns, or, in Restart, goes on to StartService with
\* the mutex free in between.
StopSucceeds(t) ==
  /\ CoreState' = "STOPPED"
  /\ IF op[t] = "restart"
       THEN /\ Goto(t, "startLock")
            /\ lock' = Released(t)
            /\ UNCHANGED <<locals, msg, frames, crashed>>
       ELSE Return(t)
  /\ UNCHANGED <<Box, record, boxes>>

StopCheck(t) ==
  /\ At(t, "stopCheck")
  /\ Box # NoBox
  /\ Goto(t, "stopClose")
  /\ Continue
  /\ UNCHANGED <<CoreState, Box, record, boxes, locals, msg>>

\* Mutant of StopFindsNothing: it returns without a word about the status.
StopLeavesStatus(t) ==
  /\ At(t, "stopCheck")
  /\ Box = NoBox
  /\ Return(t)
  /\ UNCHANGED <<CoreState, Box, record, boxes>>

StopFindsNothing(t) ==
  /\ At(t, "stopCheck")
  /\ Box = NoBox
  /\ StopSucceeds(t)

\* common.Close(static.Box), whose error is kept until the box is cleared.
StopClose(t) ==
  /\ At(t, "stopClose")
  /\ Box # NoBox
  /\ \E l \in AfterClose(life[Box]) : life' = [life EXCEPT ![Box] = l]
  /\ \E m \in {"EMPTY", "UNEXPECTED_ERROR"} : msg' = [msg EXCEPT ![t] = m]
  /\ Goto(t, "stopClear")
  /\ Continue
  /\ UNCHANGED <<CoreState, Box, record, runs, locals>>

StopClosePanics(t) ==
  /\ At(t, "stopClose")
  /\ \/ Box = NoBox /\ UNCHANGED life
     \/ /\ Box # NoBox
        /\ "close" \in PanicSite
        /\ life' = [life EXCEPT ![Box] = IF @ = "closed" THEN @ ELSE "halfway"]
  /\ Panic(t)
  /\ UNCHANGED runs

\* static.Box = nil, then the refresh of the caches, which find no box.
StopClear(t) ==
  /\ At(t, "stopClear")
  /\ Box' = NoBox
  /\ Goto(t, IF msg[t] = "EMPTY" THEN "stopDone" ELSE "alert")
  /\ Continue
  /\ UNCHANGED <<CoreState, record, boxes, locals, msg>>

StopDone(t) ==
  /\ At(t, "stopDone")
  /\ StopSucceeds(t)

------------------------------------------------------------------------------
AlertStep(t) ==
  \/ AlertStatus(t) \/ AlertCheck(t) \/ AlertClose(t)
  \/ AlertClosePanics(t) \/ AlertClear(t) \/ AlertEnd(t)

StartStep(t) ==
  \/ StartRefused(t) \/ StartAccepted(t) \/ LoadLastStartRequest(t)
  \/ LoadFails(t) \/ BuildConfig(t) \/ SaveLastStartRequest(t)
  \/ PreStartHooks(t) \/ NewService(t) \/ RunService(t) \/ RunFails(t)
  \/ StartFails(t) \/ StartPanics(t) \/ PublishBox(t)
  \/ RefreshAfterStart(t) \/ StartDone(t)

StopStep(t) ==
  \/ StopLock(t) \/ StopCheck(t) \/ StopFindsNothing(t) \/ StopClose(t)
  \/ StopClosePanics(t) \/ StopClear(t) \/ StopDone(t)

Step(t) ==
  \/ ParseReturns(t) \/ ParsePanics(t)
  \/ AlertStep(t) \/ StartStep(t) \/ StopStep(t)

Next ==
  \E t \in Thread :
    \/ \E o \in Ops, r \in Request \cup {NoRequest} : Call(t, o, r)
    \/ Step(t)

Spec == Init /\ [][Next]_vars

TakesLock(t) == StartRefused(t) \/ StartAccepted(t) \/ StopLock(t)

(* Goroutines are scheduled, every external call returns or panics, and    *)
(* sync.Mutex hands itself to a waiter that has been starved, so that the  *)
(* mutex is taken with strong fairness.  Nobody is bound to make a call.   *)
Fairness ==
  \A t \in Thread : WF_vars(Step(t)) /\ SF_vars(TakesLock(t))

FairSpec == Spec /\ Fairness

------------------------------------------------------------------------------
(* Properties.                                                             *)

TypeOK ==
  /\ CoreState \in CoreStates
  /\ Box \in Boxes \cup {NoBox}
  /\ lock \in Thread \cup {NoThread}
  /\ saved \in SavedRows
  /\ torn \in BOOLEAN
  /\ life \in [Boxes -> LifeLabel]
  /\ runs \in [Boxes -> Config \cup {NoConfig}]
  /\ pc \in [Thread -> PcLabel]
  /\ op \in [Thread -> Ops \cup {"none"}]
  /\ req \in [Thread -> StartRequest]
  /\ inst \in [Thread -> Boxes \cup {NoBox}]
  /\ msg \in [Thread -> {"EMPTY"} \cup Failure]
  /\ frames \in [Thread -> 0 .. 2]
  /\ crashed \in BOOLEAN

\* No body holds the mutex and no recovery is under way.
Settled == ~crashed /\ lock = NoThread /\ \A t \in Thread : pc[t] \notin AlertPc

\* Between calls the status every client polls (SnapshotCoreInfo, and the gate
\* of the next StartService) agrees with the box: STARTED exactly when there is
\* one, which is running, and no status of a transition is left behind by an
\* error return of StartService or Stop or by a recovered panic.
StatusMatchesBox ==
  Settled => /\ CoreState = (IF Box = NoBox THEN "STOPPED" ELSE "STARTED")
             /\ Box # NoBox => life[Box] = "running"

\* Something of the box may run: its Start() or its Close() was cut short by a
\* panic, or it runs as a whole.
Alive(b) == life[b] \in {"running", "halfway"}

\* Two services never run side by side, not even parts of them (they would fight
\* over the same ports and the same tun device), and the one that runs can still
\* be reached: it is static.Box or the local of the StartService about to publish
\* it.  It holds as long as Start() and Close() of sing-box do not panic.
OneRunningBox ==
  \A b \in Boxes : Alive(b) =>
    /\ b = Box \/ \E t \in Thread : inst[t] = b
    /\ \A c \in Boxes : Alive(c) => c = b

\* What an empty StartRequest would start next time is what runs now, unless the
\* last save was cut short.
RunningIsRemembered ==
  Settled /\ Box # NoBox /\ ~torn => Effective(saved) = runs[Box]

\* The step that returns from StartService, Stop, Restart or Close.
ReturnTellsTruth(t) ==
  (pc[t] # "idle" /\ pc'[t] = "idle" /\ op[t] # "parse") =>
    IF op[t] \in {"start", "restart"} /\ msg[t] = "EMPTY"
      THEN /\ CoreState' = "STARTED"
           /\ Box' # NoBox
           /\ life'[Box'] = "running"
           /\ runs'[Box'] = Effective(req[t])
      ELSE CoreState' = "STOPPED" /\ Box' = NoBox

\* A call that ends tells the truth about the core at that moment: success of a
\* start means that its own configuration runs, every other reply of
\* StartService, Stop, Restart and Close that nothing does.
ReplyIsTruthful == [][\A t \in Thread : ReturnTellsTruth(t)]_vars

\* The process dies only of a panic inside the handler of another one: no panic of
\* a call into sing-box, of a hook or of a converter is fatal by itself, whichever
\* of the nested calls of Restart and Close it hits.
OnlyHandlersDie ==
  [][crashed' # crashed =>
       \E t \in Thread : pc[t] = "alertClose" /\ pc'[t] = "alert" /\ frames[t] = 0]_vars

\* Every call returns, through error returns and recovered panics alike, unless
\* the process dies: no path leaves static.lock held.
EveryCallReturns ==
  \A t \in Thread : pc[t] # "idle" ~> (pc[t] = "idle" \/ crashed)
==============================================================================
