-------------------------- MODULE CoreLifecycleProofs --------------------------
(***************************************************************************)
(* Theorems about CoreLifecycle for every set of threads, boxes and        *)
(* configurations.  With any panics: TypeCorrect, RecoversAreInPlace,      *)
(* MutexIsNeverLeaked and CallsEnd.  Without (PanicSite = {}): the         *)
(* invariants, the replies and the refinement of CoreService.  With panics *)
(* as long as no handler meets another goroutine (Undisturbed), which one  *)
(* caller never does: the invariants and the replies.                      *)
(***************************************************************************)
EXTENDS CoreRefinement, TLAPS

------------------------------------------------------------------------------
(* The inductive invariant behind the theorems below.                      *)

\* Past BuildConfig the request has a configuration to run.
BuiltRequest ==
  \A t \in Thread :
    pc[t] \in {"startSave", "startHooks", "startNew"} => Effective(req[t]) # Empty

\* Without panics the mutex is held exactly along the bodies, alerts included.
LockIsHeld ==
  /\ ~crashed
  /\ \A t \in Thread : (pc[t] \in AlertPc \cup StartPc \cup StopPc) <=> (lock = t)

\* The operation a thread serves tells which bodies it can be in.
OpMatchesPc ==
  \A t \in Thread :
    /\ pc[t] \in StartPc \cup {"startLock"} => op[t] \in {"start", "restart"}
    /\ pc[t] \in StopPc \cup {"stopLock"} => op[t] \in {"stop", "restart", "close"}
    /\ pc[t] = "parse" => op[t] = "parse"
    /\ pc[t] \in AlertPc => msg[t] # "EMPTY"
    /\ pc[t] \notin AlertPc \cup {"stopClear"} => msg[t] = "EMPTY"

\* Where the box is at each point of a body.
BoxMatchesPc ==
  \A t \in Thread :
    /\ pc[t] \in {"startLoad", "startBuild", "startSave", "startHooks", "startNew",
                   "startRun", "startPublish", "stopDone", "alertEnd"} => Box = NoBox
    /\ pc[t] \in {"startRefresh", "startDone", "stopClose", "stopClear",
                   "alertClose", "alertClear"} => Box # NoBox
    /\ pc[t] \in {"alertCheck", "alertClose", "alertClear", "alertEnd"} => CoreState = "STOPPED"
    /\ inst[t] # NoBox <=> pc[t] \in {"startRun", "startPublish"}
    /\ pc[t] = "startPublish" => life[inst[t]] = "running"
    /\ pc[t] \in {"stopClear", "alertClear"} => life[Box] # "running"

\* The box lives as the lock holder left it; in between nobody closes it.
BoxIsRunning ==
  (Box # NoBox /\ \A t \in Thread : pc[t] \notin {"stopClear", "alertClear"})
    => life[Box] = "running"

\* What is running is static.Box or about to become it.
RunningIsHeld ==
  \A b \in Boxes : life[b] = "running" =>
    b = Box \/ \E t \in Thread : pc[t] = "startPublish" /\ inst[t] = b

\* No Start() or Close() was cut short by a panic.
NoHalves == \A b \in Boxes : life[b] # "halfway"

\* The configuration on its way from the request to the box, and the saved rows.
ConfigFlows ==
  /\ Box # NoBox /\ ~torn => Effective(saved) = runs[Box]
  /\ \A t \in Thread :
       /\ pc[t] \in {"startHooks", "startNew", "startRun", "startPublish"} /\ ~torn
            => Effective(saved) = Effective(req[t])
       /\ pc[t] \in {"startRun", "startPublish"} => runs[inst[t]] = Effective(req[t])
       /\ pc[t] \in {"startRefresh", "startDone"} => runs[Box] = Effective(req[t])

FreeMeansSettled ==
  lock = NoThread => CoreState = (IF Box = NoBox THEN "STOPPED" ELSE "STARTED")

IInv ==
  /\ TypeOK
  /\ BuiltRequest
  /\ LockIsHeld
  /\ OpMatchesPc
  /\ BoxMatchesPc
  /\ BoxIsRunning
  /\ RunningIsHeld
  /\ NoHalves
  /\ ConfigFlows
  /\ FreeMeansSettled

------------------------------------------------------------------------------
\* At first the core is stopped and no call is made.
LEMMA TypeInit == Init => TypeOK /\ BuiltRequest
<1> SUFFICES ASSUME Init PROVE TypeOK /\ BuiltRequest
  OBVIOUS
<1> USE DEF Init
<1>1. CoreState \in CoreStates /\ Box \in Boxes \cup {NoBox} /\ lock \in Thread \cup {NoThread}
  BY DEF CoreStates
<1>2. saved \in SavedRows /\ torn \in BOOLEAN
  BY DEF SavedRows
<1>3. life \in [Boxes -> LifeLabel] /\ runs \in [Boxes -> Config \cup {NoConfig}]
  BY DEF LifeLabel
<1>4. pc \in [Thread -> PcLabel] /\ op \in [Thread -> Ops \cup {"none"}]
  BY DEF PcLabel
<1>5. req \in [Thread -> StartRequest] /\ inst \in [Thread -> Boxes \cup {NoBox}]
  BY DEF StartRequest, NoRequest, Field
<1>6. crashed \in BOOLEAN
  OBVIOUS
<1>9. frames \in [Thread -> 0 .. 2]
  <2>1. 0 \in 0 .. 2
    OBVIOUS
  <2> QED
    BY <2>1
<1>8. msg \in [Thread -> {"EMPTY"} \cup Failure]
  BY DEF Failure
<1>7. BuiltRequest
  BY DEF BuiltRequest
<1> QED
  BY <1>1, <1>2, <1>3, <1>4, <1>5, <1>6, <1>7, <1>8, <1>9 DEF TypeOK

\* A Stop that succeeds keeps the types, whether it returns or goes on to StartService.
LEMMA StopSucceedsTypes ==
  ASSUME TypeOK, BuiltRequest, NEW t \in Thread, StopSucceeds(t)
  PROVE  TypeOK' /\ BuiltRequest'
<1>1. CoreState' = "STOPPED" /\ UNCHANGED <<Box, saved, torn, life, runs>>
  BY DEF StopSucceeds, record, boxes
<1>2. CASE op[t] = "restart"
  <2>1. /\ pc' = [pc EXCEPT ![t] = "startLock"]
        /\ lock' \in {NoThread, lock}
        /\ UNCHANGED <<op, req, inst, msg, frames, crashed>>
    BY <1>2 DEF StopSucceeds, Goto, Released, locals
  <2>2. pc' \in [Thread -> PcLabel] /\ lock' \in Thread \cup {NoThread}
    BY <2>1 DEF TypeOK, PcLabel
  <2>3. BuiltRequest'
    BY <2>1 DEF TypeOK, BuiltRequest
  <2> QED
    BY <1>1, <2>1, <2>2, <2>3 DEF TypeOK, CoreStates
<1>3. CASE op[t] # "restart"
  <2>1. Return(t)
    BY <1>3 DEF StopSucceeds
  <2>2. /\ pc' = [pc EXCEPT ![t] = "idle"]
        /\ lock' \in {NoThread, lock}
        /\ op' = [op EXCEPT ![t] = "none"]
        /\ req' = [req EXCEPT ![t] = NoRequest]
        /\ inst' = [inst EXCEPT ![t] = NoBox]
        /\ frames' = [frames EXCEPT ![t] = 0]
        /\ msg' = [msg EXCEPT ![t] = "EMPTY"]
        /\ crashed' = crashed
    BY <2>1 DEF Return, Goto, Released
  <2>3. pc' \in [Thread -> PcLabel] /\ lock' \in Thread \cup {NoThread}
    BY <2>2 DEF TypeOK, PcLabel
  <2>4. op' \in [Thread -> Ops \cup {"none"}] /\ req' \in [Thread -> StartRequest]
    <3>1. NoRequest \in StartRequest
      BY DEF NoRequest, StartRequest, Field
    <3> QED
      BY <2>2, <3>1 DEF TypeOK
  <2>5. /\ inst' \in [Thread -> Boxes \cup {NoBox}] /\ frames' \in [Thread -> 0 .. 2]
        /\ msg' \in [Thread -> {"EMPTY"} \cup Failure]
    <3>1. 0 \in 0 .. 2
      OBVIOUS
    <3> QED
      BY <2>2, <3>1 DEF TypeOK
  <2>6. BuiltRequest'
    BY <2>2 DEF TypeOK, BuiltRequest
  <2> QED
    BY <1>1, <2>2, <2>3, <2>4, <2>5, <2>6 DEF TypeOK, CoreStates
<1> QED
  BY <1>2, <1>3

\* Each step keeps the types, panics and alerts included.
LEMMA TypeStep ==
  ASSUME TypeOK, BuiltRequest, [Next]_vars
  PROVE  TypeOK' /\ BuiltRequest'
<1> USE ConstantsOK DEF TypeOK, BuiltRequest, CoreStates, SavedRows, LifeLabel, PcLabel, Ops,
      AlertPc, StartPc, StopPc, Failure, StartRequest, NoRequest, Field, Effective, record, boxes, locals, At, Goto, Continue
<1>1. ASSUME NEW t \in Thread, NEW o \in Ops, NEW r \in Request \cup {NoRequest}, Call(t, o, r)
      PROVE  TypeOK' /\ BuiltRequest'
  BY <1>1 DEF Call
<1>2. ASSUME NEW t \in Thread, ParsePanics(t)
      PROVE  TypeOK' /\ BuiltRequest'
  BY <1>2 DEF ParsePanics, Panic, Alert, Released
<1>3. ASSUME NEW t \in Thread, ParseReturns(t)
      PROVE  TypeOK' /\ BuiltRequest'
  BY <1>3 DEF ParseReturns, Return, Released
<1>4. ASSUME NEW t \in Thread, AlertStatus(t)
      PROVE  TypeOK' /\ BuiltRequest'
  BY <1>4 DEF AlertStatus
<1>5. ASSUME NEW t \in Thread, AlertCheck(t)
      PROVE  TypeOK' /\ BuiltRequest'
  BY <1>5 DEF AlertCheck
<1>6. ASSUME NEW t \in Thread, AlertClose(t)
      PROVE  TypeOK' /\ BuiltRequest'
  BY <1>6 DEF AlertClose, AfterClose
<1>7. ASSUME NEW t \in Thread, AlertClosePanics(t)
      PROVE  TypeOK' /\ BuiltRequest'
  BY <1>7 DEF AlertClosePanics, Panic, Alert, Released
<1>8. ASSUME NEW t \in Thread, AlertClear(t)
      PROVE  TypeOK' /\ BuiltRequest'
  BY <1>8 DEF AlertClear
<1>9. ASSUME NEW t \in Thread, AlertEnd(t)
      PROVE  TypeOK' /\ BuiltRequest'
  BY <1>9 DEF AlertEnd, Return, Released, HandlerAlertsOnly
<1>10. ASSUME NEW t \in Thread, StartRefused(t)
      PROVE  TypeOK' /\ BuiltRequest'
  BY <1>10 DEF StartRefused, Alert
<1>11. ASSUME NEW t \in Thread, StartAccepted(t)
      PROVE  TypeOK' /\ BuiltRequest'
  BY <1>11 DEF StartAccepted
<1>12. ASSUME NEW t \in Thread, LoadLastStartRequest(t)
      PROVE  TypeOK' /\ BuiltRequest'
  BY <1>12 DEF LoadLastStartRequest
<1>13. ASSUME NEW t \in Thread, LoadFails(t)
      PROVE  TypeOK' /\ BuiltRequest'
  BY <1>13 DEF LoadFails, Alert
<1>14. ASSUME NEW t \in Thread, BuildConfig(t)
      PROVE  TypeOK' /\ BuiltRequest'
  BY <1>14 DEF BuildConfig
<1>15. ASSUME NEW t \in Thread, SaveLastStartRequest(t)
      PROVE  TypeOK' /\ BuiltRequest'
  BY <1>15 DEF SaveLastStartRequest
<1>16. ASSUME NEW t \in Thread, PreStartHooks(t)
      PROVE  TypeOK' /\ BuiltRequest'
  BY <1>16 DEF PreStartHooks
<1>17. ASSUME NEW t \in Thread, NewService(t)
      PROVE  TypeOK' /\ BuiltRequest'
  BY <1>17 DEF NewService
<1>18. ASSUME NEW t \in Thread, RunService(t)
      PROVE  TypeOK' /\ BuiltRequest'
  <2>1. life' \in [Boxes -> LifeLabel]
    BY ONLY <1>18, TypeOK DEF RunService, TypeOK, LifeLabel
  <2>2. pc' = [pc EXCEPT ![t] = "startPublish"]
        /\ UNCHANGED <<CoreState, Box, lock, saved, torn, runs, op, req, inst, msg, frames, crashed>>
    BY ONLY <1>18 DEF RunService, Goto, Continue, record, locals
  <2>3. pc' \in [Thread -> PcLabel] /\ BuiltRequest'
    BY <2>2
  <2> QED
    BY ONLY <2>1, <2>2, <2>3, TypeOK DEF TypeOK
<1>19. ASSUME NEW t \in Thread, RunFails(t)
      PROVE  TypeOK' /\ BuiltRequest'
  <2>1. life' \in [Boxes -> LifeLabel] /\ inst' \in [Thread -> Boxes \cup {NoBox}]
    BY ONLY <1>19, TypeOK DEF RunFails, TypeOK, LifeLabel
  <2>2. /\ pc' = [pc EXCEPT ![t] = "alert"] /\ msg' = [msg EXCEPT ![t] = "START_SERVICE"]
        /\ UNCHANGED <<CoreState, Box, lock, saved, torn, runs, op, req, frames, crashed>>
    BY ONLY <1>19 DEF RunFails, Alert, Goto, Continue, record
  <2>3. pc' \in [Thread -> PcLabel] /\ msg' \in [Thread -> {"EMPTY"} \cup Failure]
    BY <2>2
  <2>4. BuiltRequest'
    BY <2>2
  <2> QED
    BY ONLY <2>1, <2>2, <2>3, <2>4, TypeOK DEF TypeOK
<1>20. ASSUME NEW t \in Thread, StartFails(t)
      PROVE  TypeOK' /\ BuiltRequest'
  <2>1. CASE At(t, "startBuild") /\ Alert(t, "ERROR_BUILDING_CONFIG")
    BY <1>20, <2>1 DEF StartFails, Alert
  <2>2. ASSUME NEW m \in {"ERROR_EXTENSION", "ERROR_BUILDING_CONFIG"}, Alert(t, m)
        PROVE  TypeOK' /\ BuiltRequest'
    BY <1>20, <2>2 DEF StartFails, Alert
  <2>3. CASE At(t, "startNew") /\ Alert(t, "CREATE_SERVICE")
    BY <1>20, <2>3 DEF StartFails, Alert
  <2> QED
    BY <1>20, <2>1, <2>2, <2>3 DEF StartFails
<1>21. ASSUME NEW t \in Thread, StartPanics(t)
      PROVE  TypeOK' /\ BuiltRequest'
  <2>1. life' \in [Boxes -> LifeLabel] /\ runs' = runs
    BY <1>21 DEF StartPanics
  <2>2. Panic(t)
    BY <1>21 DEF StartPanics
  <2> QED
    BY <2>1, <2>2 DEF Panic, Alert, Released
<1>22. ASSUME NEW t \in Thread, PublishBox(t)
      PROVE  TypeOK' /\ BuiltRequest'
  BY <1>22 DEF PublishBox
<1>23. ASSUME NEW t \in Thread, RefreshAfterStart(t)
      PROVE  TypeOK' /\ BuiltRequest'
  BY <1>23 DEF RefreshAfterStart
<1>24. ASSUME NEW t \in Thread, StartDone(t)
      PROVE  TypeOK' /\ BuiltRequest'
  BY <1>24 DEF StartDone, Return, Released
<1>25. ASSUME NEW t \in Thread, StopLock(t)
      PROVE  TypeOK' /\ BuiltRequest'
  BY <1>25 DEF StopLock
<1>26. ASSUME NEW t \in Thread, StopCheck(t)
      PROVE  TypeOK' /\ BuiltRequest'
  BY <1>26 DEF StopCheck
<1>27. ASSUME NEW t \in Thread, StopFindsNothing(t)
      PROVE  TypeOK' /\ BuiltRequest'
  <2>1. StopSucceeds(t)
    BY <1>27 DEF StopFindsNothing
  <2> QED
    BY <2>1, StopSucceedsTypes
<1>28. ASSUME NEW t \in Thread, StopClose(t)
      PROVE  TypeOK' /\ BuiltRequest'
  BY <1>28 DEF StopClose, AfterClose
<1>29. ASSUME NEW t \in Thread, StopClosePanics(t)
      PROVE  TypeOK' /\ BuiltRequest'
  <2>1. life' \in [Boxes -> LifeLabel] /\ runs' = runs
    BY <1>29 DEF StopClosePanics
  <2>2. Panic(t)
    BY <1>29 DEF StopClosePanics
  <2> QED
    BY <2>1, <2>2 DEF Panic, Alert, Released
<1>30. ASSUME NEW t \in Thread, StopClear(t)
      PROVE  TypeOK' /\ BuiltRequest'
  BY <1>30 DEF StopClear
<1>31. ASSUME NEW t \in Thread, StopDone(t)
      PROVE  TypeOK' /\ BuiltRequest'
  <2>1. StopSucceeds(t)
    BY <1>31 DEF StopDone
  <2> QED
    BY <2>1, StopSucceedsTypes
<1>32. CASE UNCHANGED vars
  BY <1>32 DEF vars
<1> QED
  <2>1. ASSUME NEW t \in Thread, AlertStep(t)  PROVE TypeOK' /\ BuiltRequest'
    BY ONLY <2>1, <1>4, <1>5, <1>6, <1>7, <1>8, <1>9 DEF AlertStep
  <2>2. ASSUME NEW t \in Thread, StartStep(t)  PROVE TypeOK' /\ BuiltRequest'
    BY ONLY <2>2, <1>10, <1>11, <1>12, <1>13, <1>14, <1>15, <1>16, <1>17,
      <1>18, <1>19, <1>20, <1>21, <1>22, <1>23, <1>24 DEF StartStep
  <2>3. ASSUME NEW t \in Thread, StopStep(t)  PROVE TypeOK' /\ BuiltRequest'
    BY ONLY <2>3, <1>25, <1>26, <1>27, <1>28, <1>29, <1>30, <1>31 DEF StopStep
  <2>4. ASSUME NEW t \in Thread, Step(t)  PROVE TypeOK' /\ BuiltRequest'
    BY ONLY <2>4, <2>1, <2>2, <2>3, <1>2, <1>3 DEF Step
  <2>5. Next \/ UNCHANGED vars
    OBVIOUS
  <2> QED
    BY ONLY <2>5, <2>4, <1>1, <1>32 DEF Next

------------------------------------------------------------------------------
\* The steps that start or close a box.
LEMMA LifeSteps ==
  ASSUME [Next]_vars
  PROVE  \/ UNCHANGED life
         \/ \E t \in Thread :
              \/ NewService(t) \/ RunService(t) \/ RunFails(t) \/ StartPanics(t)
              \/ AlertClose(t) \/ AlertClosePanics(t)
              \/ StopClose(t) \/ StopClosePanics(t)
<1>1. CASE UNCHANGED vars
  BY <1>1 DEF vars
<1>2. ASSUME NEW t \in Thread, NEW o \in Ops, NEW r \in Request \cup {NoRequest}, Call(t, o, r)
      PROVE  UNCHANGED life
  BY <1>2 DEF Call, boxes
<1>3. ASSUME NEW t \in Thread, StopSucceeds(t)
      PROVE  UNCHANGED life
  BY <1>3 DEF StopSucceeds, boxes
<1>4. ASSUME NEW t \in Thread,
             \/ ParseReturns(t) \/ ParsePanics(t)
             \/ AlertStatus(t) \/ AlertCheck(t) \/ AlertClear(t) \/ AlertEnd(t)
      PROVE  UNCHANGED life
  BY <1>4 DEF ParseReturns, ParsePanics, AlertStatus, AlertCheck, AlertClear, AlertEnd, boxes
<1>5. ASSUME NEW t \in Thread,
             \/ StartRefused(t) \/ StartAccepted(t) \/ LoadLastStartRequest(t)
             \/ LoadFails(t) \/ BuildConfig(t) \/ SaveLastStartRequest(t)
             \/ PreStartHooks(t) \/ StartFails(t) \/ PublishBox(t)
             \/ RefreshAfterStart(t) \/ StartDone(t)
      PROVE  UNCHANGED life
  BY <1>5 DEF StartRefused, StartAccepted, LoadLastStartRequest, LoadFails, BuildConfig,
     SaveLastStartRequest, PreStartHooks, StartFails, PublishBox, RefreshAfterStart,
     StartDone, boxes
<1>6. ASSUME NEW t \in Thread,
             \/ StopLock(t) \/ StopCheck(t) \/ StopFindsNothing(t) \/ StopClear(t)
             \/ StopDone(t)
      PROVE  UNCHANGED life
  BY <1>6, <1>3 DEF StopLock, StopCheck, StopFindsNothing, StopClear, StopDone, boxes
<1> QED
  BY <1>1, <1>2, <1>4, <1>5, <1>6 DEF Next, Step, AlertStep, StartStep, StopStep

\* Only a panic inside Start() or Close() leaves a box halfway.
LEMMA NoHalvesStep ==
  ASSUME {"run", "close"} \cap PanicSite = {}, TypeOK, NoHalves, [Next]_vars
  PROVE  NoHalves'
<1>1. CASE UNCHANGED life
  BY <1>1 DEF NoHalves
<1>2. ASSUME NEW t \in Thread,
             \/ NewService(t) \/ RunService(t) \/ RunFails(t)
             \/ AlertClose(t) \/ StopClose(t)
      PROVE  NoHalves'
  BY <1>2 DEF TypeOK, NoHalves, NewService, RunService, RunFails, AlertClose, StopClose, AfterClose
<1>3. ASSUME NEW t \in Thread,
             StartPanics(t) \/ AlertClosePanics(t) \/ StopClosePanics(t)
      PROVE  UNCHANGED life
  BY <1>3 DEF StartPanics, AlertClosePanics, StopClosePanics
<1> QED
  BY <1>1, <1>2, <1>3, LifeSteps

------------------------------------------------------------------------------
(* The parts of IInv that TypeStep does not cover. *)
Rest ==
  LockIsHeld /\ OpMatchesPc /\ BoxMatchesPc /\ BoxIsRunning
    /\ RunningIsHeld /\ ConfigFlows /\ FreeMeansSettled

\* Each step of a body needs what its label says; the others do not hold the mutex.
LEMMA InvStep ==
  ASSUME PanicSite = {}, IInv, [Next]_vars
  PROVE  IInv'
<1> USE ConstantsOK DEF TypeOK, BuiltRequest, AlertPc, StartPc, StopPc, Failure, record, boxes, locals,
      At, Goto, Continue, IInv, LockIsHeld, OpMatchesPc, BoxMatchesPc, BoxIsRunning, RunningIsHeld, NoHalves, ConfigFlows, FreeMeansSettled, Rest
<1>1. ASSUME NEW t \in Thread, NEW o \in Ops, NEW r \in Request \cup {NoRequest}, Call(t, o, r)
      PROVE  Rest'
  <2>1. pc'[t] \in {"startLock", "parse", "stopLock"} /\ pc' = [pc EXCEPT ![t] = pc'[t]]
    BY <1>1 DEF Call, Ops
  <2>2. pc'[t] = "startLock" => o \in {"start", "restart"}
    BY <1>1 DEF Call, Ops
  <2>3. pc'[t] = "stopLock" => o \in {"stop", "restart", "close"}
    BY <1>1 DEF Call, Ops
  <2>4. pc'[t] = "parse" => o = "parse"
    BY <1>1 DEF Call, Ops
  <2> QED
    BY <1>1, <2>1, <2>2, <2>3, <2>4 DEF Call
<1>2. ASSUME NEW t \in Thread, ParseReturns(t)
      PROVE  Rest'
  BY <1>2 DEF ParseReturns, Return, Released
<1>3. ASSUME NEW t \in Thread, ParsePanics(t)
      PROVE  Rest'
  BY <1>3 DEF ParsePanics, Panic, Alert, Released
<1>4. ASSUME NEW t \in Thread, AlertStatus(t)
      PROVE  Rest'
  BY <1>4 DEF AlertStatus
<1>5. ASSUME NEW t \in Thread, AlertCheck(t)
      PROVE  Rest'
  BY <1>5 DEF AlertCheck
<1>6. ASSUME NEW t \in Thread, AlertClose(t)
      PROVE  Rest'
  BY <1>6 DEF AlertClose, AfterClose
<1>7. ASSUME NEW t \in Thread, AlertClosePanics(t)
      PROVE  Rest'
  BY <1>7 DEF AlertClosePanics, Panic, Alert, Released
<1>8. ASSUME NEW t \in Thread, AlertClear(t)
      PROVE  Rest'
  BY <1>8 DEF AlertClear
<1>9. ASSUME NEW t \in Thread, AlertEnd(t)
      PROVE  Rest'
  BY <1>9 DEF AlertEnd, Return, Released, HandlerAlertsOnly
<1>10. ASSUME NEW t \in Thread, StartRefused(t)
      PROVE  Rest'
  BY <1>10 DEF StartRefused, Alert
<1>11. ASSUME NEW t \in Thread, StartAccepted(t)
      PROVE  Rest'
  BY <1>11 DEF StartAccepted
<1>12. ASSUME NEW t \in Thread, LoadLastStartRequest(t)
      PROVE  Rest'
  BY <1>12 DEF LoadLastStartRequest
<1>13. ASSUME NEW t \in Thread, LoadFails(t)
      PROVE  Rest'
  BY <1>13 DEF LoadFails, Alert
<1>14. ASSUME NEW t \in Thread, BuildConfig(t)
      PROVE  Rest'
  BY <1>14 DEF BuildConfig
<1>15. ASSUME NEW t \in Thread, SaveLastStartRequest(t)
      PROVE  Rest'
  <2>1. ~torn' => saved' = req[t]
    BY <1>15 DEF SaveLastStartRequest
  <2> QED
    BY <1>15, <2>1 DEF SaveLastStartRequest
<1>16. ASSUME NEW t \in Thread, PreStartHooks(t)
      PROVE  Rest'
  BY <1>16 DEF PreStartHooks
<1>17. ASSUME NEW t \in Thread, NewService(t)
      PROVE  Rest'
  BY <1>17 DEF NewService
<1>18. ASSUME NEW t \in Thread, RunService(t)
      PROVE  Rest'
  BY <1>18 DEF RunService
<1>19. ASSUME NEW t \in Thread, RunFails(t)
      PROVE  Rest'
  BY <1>19 DEF RunFails, Alert
<1>20. ASSUME NEW t \in Thread, StartFails(t)
      PROVE  Rest'
  BY <1>20 DEF StartFails, Alert
<1>21. ASSUME NEW t \in Thread, StartPanics(t)
      PROVE  Rest'
  BY <1>21 DEF StartPanics, Panic, Alert, Released
<1>22. ASSUME NEW t \in Thread, PublishBox(t)
      PROVE  Rest'
  BY <1>22 DEF PublishBox
<1>23. ASSUME NEW t \in Thread, RefreshAfterStart(t)
      PROVE  Rest'
  BY <1>23 DEF RefreshAfterStart
<1>24. ASSUME NEW t \in Thread, StartDone(t)
      PROVE  Rest'
  BY <1>24 DEF StartDone, Return, Released
<1>25. ASSUME NEW t \in Thread, StopLock(t)
      PROVE  Rest'
  BY <1>25 DEF StopLock
<1>26. ASSUME NEW t \in Thread, StopCheck(t)
      PROVE  Rest'
  BY <1>26 DEF StopCheck
<1>27. ASSUME NEW t \in Thread, StopFindsNothing(t)
      PROVE  Rest'
  <2>1. CASE op[t] = "restart"
    BY <1>27, <2>1 DEF StopFindsNothing, StopSucceeds, Released
  <2>2. CASE op[t] # "restart"
    <3>1. Return(t) /\ CoreState' = "STOPPED" /\ UNCHANGED <<Box, record, boxes>>
      BY <1>27, <2>2 DEF StopFindsNothing, StopSucceeds
    <3> QED
      BY <1>27, <3>1 DEF StopFindsNothing, Return, Released
  <2> QED
    BY <2>1, <2>2
<1>28. ASSUME NEW t \in Thread, StopClose(t)
      PROVE  Rest'
  BY <1>28 DEF StopClose, AfterClose
<1>29. ASSUME NEW t \in Thread, StopClosePanics(t)
      PROVE  Rest'
  BY <1>29 DEF StopClosePanics, Panic, Alert, Released
<1>30. ASSUME NEW t \in Thread, StopClear(t)
      PROVE  Rest'
  BY <1>30 DEF StopClear
<1>31. ASSUME NEW t \in Thread, StopDone(t)
      PROVE  Rest'
  <2>1. CASE op[t] = "restart"
    BY <1>31, <2>1 DEF StopDone, StopSucceeds, Released
  <2>2. CASE op[t] # "restart"
    <3>1. Return(t) /\ CoreState' = "STOPPED" /\ UNCHANGED <<Box, record, boxes>>
      BY <1>31, <2>2 DEF StopDone, StopSucceeds
    <3> QED
      BY <1>31, <3>1 DEF StopDone, Return, Released
  <2> QED
    BY <2>1, <2>2
<1>32. CASE UNCHANGED vars
  BY <1>32 DEF vars
<1>33. Rest'
  <2>1. ASSUME NEW t \in Thread, AlertStep(t)  PROVE Rest'
    BY ONLY <2>1, <1>4, <1>5, <1>6, <1>7, <1>8, <1>9 DEF AlertStep
  <2>2. ASSUME NEW t \in Thread, StartStep(t)  PROVE Rest'
    BY ONLY <2>2, <1>10, <1>11, <1>12, <1>13, <1>14, <1>15, <1>16, <1>17,
      <1>18, <1>19, <1>20, <1>21, <1>22, <1>23, <1>24 DEF StartStep
  <2>3. ASSUME NEW t \in Thread, StopStep(t)  PROVE Rest'
    BY ONLY <2>3, <1>25, <1>26, <1>27, <1>28, <1>29, <1>30, <1>31 DEF StopStep
  <2>4. ASSUME NEW t \in Thread, Step(t)  PROVE Rest'
    BY ONLY <2>4, <2>1, <2>2, <2>3, <1>2, <1>3 DEF Step
  <2>5. Next \/ UNCHANGED vars
    OBVIOUS
  <2> QED
    BY ONLY <2>5, <2>4, <1>1, <1>32 DEF Next
<1>34. TypeOK' /\ BuiltRequest'
  BY TypeStep
<1>35. NoHalves'
  BY NoHalvesStep
<1> QED
  BY <1>33, <1>34, <1>35

\* At first nobody holds the mutex.
LEMMA InvInit == Init => IInv
<1> SUFFICES ASSUME Init PROVE IInv
  OBVIOUS
<1>1. TypeOK /\ BuiltRequest
  BY TypeInit
<1>2. Rest
  BY ConstantsOK DEF Init, Rest, LockIsHeld, OpMatchesPc, BoxMatchesPc, BoxIsRunning,
     RunningIsHeld, ConfigFlows, FreeMeansSettled, AlertPc, StartPc, StopPc
<1>3. NoHalves
  BY DEF Init, NoHalves
<1> QED
  BY <1>1, <1>2, <1>3 DEF IInv, Rest

------------------------------------------------------------------------------
(* Type correctness, with or without panics. *)
THEOREM TypeCorrect == Spec => []TypeOK
<1>1. Init => TypeOK /\ BuiltRequest
  BY TypeInit
<1>2. TypeOK /\ BuiltRequest /\ [Next]_vars => (TypeOK /\ BuiltRequest)'
  BY TypeStep
<1> QED
  BY <1>1, <1>2, PTL DEF Spec

(* Without panics the mutex, the labels of the bodies, the box and the saved rows of
   StartService and Stop fit together at every step. *)
THEOREM Inductive == ASSUME PanicSite = {} PROVE Spec => []IInv
<1>1. IInv /\ [Next]_vars => IInv'
  BY InvStep
<1> QED
  BY InvInit, <1>1, PTL DEF Spec

(* Without panics the polled status and the box agree between calls: no error
   return of StartService, Stop, Restart or Close leaves one without the other. *)
THEOREM StatusIsRight == ASSUME PanicSite = {} PROVE Spec => []StatusMatchesBox
<1>1. IInv => StatusMatchesBox
  BY ConstantsOK DEF ConstantsOK, IInv, StatusMatchesBox, Settled, FreeMeansSettled,
     BoxIsRunning, LockIsHeld, StopPc, AlertPc
<1> QED
  BY <1>1, Inductive, PTL

(* Without panics two services never run side by side, and none is orphaned. *)
THEOREM NeverTwoBoxes == ASSUME PanicSite = {} PROVE Spec => []OneRunningBox
<1>1. ASSUME IInv PROVE OneRunningBox
  <2> SUFFICES ASSUME NEW b \in Boxes, life[b] = "running"
               PROVE  /\ b = Box \/ \E t \in Thread : inst[t] = b
                      /\ \A c \in Boxes : life[c] = "running" => c = b
    BY <1>1 DEF OneRunningBox, Alive, IInv, NoHalves
  <2>1. \A c \in Boxes : life[c] = "running" =>
          c = Box \/ \E t \in Thread : pc[t] = "startPublish" /\ inst[t] = c
    BY <1>1 DEF IInv, RunningIsHeld
  <2>2. \A t, u \in Thread : pc[t] = "startPublish" /\ pc[u] = "startPublish" => t = u
    BY <1>1 DEF IInv, LockIsHeld, StartPc
  <2>3. \A t \in Thread : pc[t] = "startPublish" => Box = NoBox
    BY <1>1 DEF IInv, BoxMatchesPc
  <2> QED
    BY <2>1, <2>2, <2>3, ConstantsOK DEF ConstantsOK
<1> QED
  BY <1>1, Inductive, PTL

(* Without panics an empty StartRequest always means the service that runs now,
   unless the last write of the saved rows was cut short. *)
THEOREM RemembersRunning == ASSUME PanicSite = {} PROVE Spec => []RunningIsRemembered
<1>1. IInv => RunningIsRemembered
  BY DEF IInv, RunningIsRemembered, ConfigFlows
<1> QED
  BY <1>1, Inductive, PTL

\* The step that returns tells the truth.
LEMMA TruthStep ==
  ASSUME PanicSite = {}, IInv, [Next]_vars, NEW u \in Thread
  PROVE  ReturnTellsTruth(u)
<1> USE DEF ReturnTellsTruth, IInv, TypeOK, OpMatchesPc, BoxMatchesPc, ConfigFlows, BoxIsRunning, LockIsHeld,
      AlertPc, StartPc, StopPc, Failure, record, boxes, locals, At, Goto, Continue
<1>1. ASSUME NEW t \in Thread, NEW o \in Ops, NEW r \in Request \cup {NoRequest}, Call(t, o, r)
      PROVE  ReturnTellsTruth(u)
  BY <1>1 DEF Call
<1>2. ASSUME NEW t \in Thread, ParseReturns(t)
      PROVE  ReturnTellsTruth(u)
  BY <1>2 DEF ParseReturns, Return
<1>3. ASSUME NEW t \in Thread, ParsePanics(t)
      PROVE  ReturnTellsTruth(u)
  BY <1>3 DEF ParsePanics, Panic, Alert
<1>4. ASSUME NEW t \in Thread, AlertStatus(t)
      PROVE  ReturnTellsTruth(u)
  BY <1>4 DEF AlertStatus
<1>5. ASSUME NEW t \in Thread, AlertCheck(t)
      PROVE  ReturnTellsTruth(u)
  BY <1>5 DEF AlertCheck
<1>6. ASSUME NEW t \in Thread, AlertClose(t)
      PROVE  ReturnTellsTruth(u)
  BY <1>6 DEF AlertClose
<1>7. ASSUME NEW t \in Thread, AlertClosePanics(t)
      PROVE  ReturnTellsTruth(u)
  BY <1>7 DEF AlertClosePanics, Panic, Alert
<1>8. ASSUME NEW t \in Thread, AlertClear(t)
      PROVE  ReturnTellsTruth(u)
  BY <1>8 DEF AlertClear
<1>9. ASSUME NEW t \in Thread, AlertEnd(t)
      PROVE  ReturnTellsTruth(u)
  BY <1>9 DEF AlertEnd, Return, HandlerAlertsOnly
<1>10. ASSUME NEW t \in Thread, StartRefused(t)
      PROVE  ReturnTellsTruth(u)
  BY <1>10 DEF StartRefused, Alert
<1>11. ASSUME NEW t \in Thread, StartAccepted(t)
      PROVE  ReturnTellsTruth(u)
  BY <1>11 DEF StartAccepted
<1>12. ASSUME NEW t \in Thread, LoadLastStartRequest(t)
      PROVE  ReturnTellsTruth(u)
  BY <1>12 DEF LoadLastStartRequest
<1>13. ASSUME NEW t \in Thread, LoadFails(t)
      PROVE  ReturnTellsTruth(u)
  BY <1>13 DEF LoadFails, Alert
<1>14. ASSUME NEW t \in Thread, BuildConfig(t)
      PROVE  ReturnTellsTruth(u)
  BY <1>14 DEF BuildConfig
<1>15. ASSUME NEW t \in Thread, SaveLastStartRequest(t)
      PROVE  ReturnTellsTruth(u)
  BY <1>15 DEF SaveLastStartRequest
<1>16. ASSUME NEW t \in Thread, PreStartHooks(t)
      PROVE  ReturnTellsTruth(u)
  BY <1>16 DEF PreStartHooks
<1>17. ASSUME NEW t \in Thread, NewService(t)
      PROVE  ReturnTellsTruth(u)
  BY <1>17 DEF NewService
<1>18. ASSUME NEW t \in Thread, RunService(t)
      PROVE  ReturnTellsTruth(u)
  BY <1>18 DEF RunService
<1>19. ASSUME NEW t \in Thread, RunFails(t)
      PROVE  ReturnTellsTruth(u)
  BY <1>19 DEF RunFails, Alert
<1>20. ASSUME NEW t \in Thread, StartFails(t)
      PROVE  ReturnTellsTruth(u)
  BY <1>20 DEF StartFails, Alert
<1>21. ASSUME NEW t \in Thread, StartPanics(t)
      PROVE  ReturnTellsTruth(u)
  BY <1>21 DEF StartPanics, Panic, Alert
<1>22. ASSUME NEW t \in Thread, PublishBox(t)
      PROVE  ReturnTellsTruth(u)
  BY <1>22 DEF PublishBox
<1>23. ASSUME NEW t \in Thread, RefreshAfterStart(t)
      PROVE  ReturnTellsTruth(u)
  BY <1>23 DEF RefreshAfterStart
<1>24. ASSUME NEW t \in Thread, StartDone(t)
      PROVE  ReturnTellsTruth(u)
  BY <1>24 DEF StartDone, Return
<1>25. ASSUME NEW t \in Thread, StopLock(t)
      PROVE  ReturnTellsTruth(u)
  BY <1>25 DEF StopLock
<1>26. ASSUME NEW t \in Thread, StopCheck(t)
      PROVE  ReturnTellsTruth(u)
  BY <1>26 DEF StopCheck
<1>27. ASSUME NEW t \in Thread, StopFindsNothing(t)
      PROVE  ReturnTellsTruth(u)
  BY <1>27 DEF StopFindsNothing, StopSucceeds, Return
<1>28. ASSUME NEW t \in Thread, StopClose(t)
      PROVE  ReturnTellsTruth(u)
  BY <1>28 DEF StopClose
<1>29. ASSUME NEW t \in Thread, StopClosePanics(t)
      PROVE  ReturnTellsTruth(u)
  BY <1>29 DEF StopClosePanics, Panic, Alert
<1>30. ASSUME NEW t \in Thread, StopClear(t)
      PROVE  ReturnTellsTruth(u)
  BY <1>30 DEF StopClear
<1>31. ASSUME NEW t \in Thread, StopDone(t)
      PROVE  ReturnTellsTruth(u)
  BY <1>31 DEF StopDone, StopSucceeds, Return
<1>32. CASE UNCHANGED vars
  BY <1>32 DEF vars
<1> QED
  <2>1. ASSUME NEW t \in Thread, AlertStep(t)  PROVE ReturnTellsTruth(u)
    BY ONLY <2>1, <1>4, <1>5, <1>6, <1>7, <1>8, <1>9 DEF AlertStep
  <2>2. ASSUME NEW t \in Thread, StartStep(t)  PROVE ReturnTellsTruth(u)
    BY ONLY <2>2, <1>10, <1>11, <1>12, <1>13, <1>14, <1>15, <1>16, <1>17,
      <1>18, <1>19, <1>20, <1>21, <1>22, <1>23, <1>24 DEF StartStep
  <2>3. ASSUME NEW t \in Thread, StopStep(t)  PROVE ReturnTellsTruth(u)
    BY ONLY <2>3, <1>25, <1>26, <1>27, <1>28, <1>29, <1>30, <1>31 DEF StopStep
  <2>4. ASSUME NEW t \in Thread, Step(t)  PROVE ReturnTellsTruth(u)
    BY ONLY <2>4, <2>1, <2>2, <2>3, <1>2, <1>3 DEF Step
  <2>5. Next \/ UNCHANGED vars
    OBVIOUS
  <2> QED
    BY ONLY <2>5, <2>4, <1>1, <1>32 DEF Next

(* Without panics a caller that gets an answer can rely on it: a start or restart
   that succeeds has its own configuration running at the moment it returns, and
   every other answer comes with the core stopped. *)
THEOREM RepliesAreTruthful == ASSUME PanicSite = {} PROVE Spec => ReplyIsTruthful
<1>1. IInv /\ [Next]_vars => [\A t \in Thread : ReturnTellsTruth(t)]_vars
  BY TruthStep
<1> QED
  BY <1>1, Inductive, PTL DEF Spec, ReplyIsTruthful

------------------------------------------------------------------------------
(* CoreLifecycle implements CoreService.                                   *)

RunsConfig == \A b \in Boxes : life[b] = "running" => runs[b] \in Config

\* A Stop reports a failure only after the box is gone, and a start that has to
\* take a box down never carries that failure.
FailedStops ==
  \A t \in Thread :
    /\ op[t] = "parse" => pc[t] \in {"idle", "parse"}
    /\ op[t] = "none" <=> pc[t] = "idle"
    /\ pc[t] \in AlertPc /\ op[t] \in {"stop", "close"} => msg[t] = "UNEXPECTED_ERROR"
    /\ pc[t] \in {"alert", "alertCheck"} /\ msg[t] = "UNEXPECTED_ERROR" => Box = NoBox
    /\ pc[t] \in {"alertClose", "alertClear"} => msg[t] # "UNEXPECTED_ERROR"
    /\ pc[t] = "stopClear" => msg[t] \in {"EMPTY", "UNEXPECTED_ERROR"}

\* A call that is to report a failure has stopped the core.
LEMMA FailedStopsStep ==
  ASSUME PanicSite = {}, IInv, FailedStops, [Next]_vars
  PROVE  FailedStops'
<1> USE ConstantsOK DEF TypeOK, IInv, LockIsHeld, OpMatchesPc, BoxMatchesPc, FailedStops,
      AlertPc, StartPc, StopPc, Failure, record, boxes, locals, At, Goto, Continue
<1>1. ASSUME NEW t \in Thread, NEW o \in Ops, NEW r \in Request \cup {NoRequest}, Call(t, o, r)
      PROVE  FailedStops'
  <2>1. pc'[t] \in {"startLock", "parse", "stopLock"} /\ pc' = [pc EXCEPT ![t] = pc'[t]]
    BY <1>1 DEF Call, Ops
  <2>2. o = "parse" => pc'[t] = "parse"
    BY <1>1 DEF Call, Ops
  <2> QED
    BY <1>1, <2>1, <2>2 DEF Call, Ops
<1>2. ASSUME NEW t \in Thread, ParseReturns(t)
      PROVE  FailedStops'
  BY <1>2 DEF ParseReturns, Return
<1>3. ASSUME NEW t \in Thread, ParsePanics(t)
      PROVE  FailedStops'
  BY <1>3 DEF ParsePanics, Panic, Alert
<1>4. ASSUME NEW t \in Thread, AlertStatus(t)
      PROVE  FailedStops'
  BY <1>4 DEF AlertStatus
<1>5. ASSUME NEW t \in Thread, AlertCheck(t)
      PROVE  FailedStops'
  BY <1>5 DEF AlertCheck
<1>6. ASSUME NEW t \in Thread, AlertClose(t)
      PROVE  FailedStops'
  BY <1>6 DEF AlertClose
<1>7. ASSUME NEW t \in Thread, AlertClosePanics(t)
      PROVE  FailedStops'
  BY <1>7 DEF AlertClosePanics, Panic, Alert
<1>8. ASSUME NEW t \in Thread, AlertClear(t)
      PROVE  FailedStops'
  BY <1>8 DEF AlertClear
<1>9. ASSUME NEW t \in Thread, AlertEnd(t)
      PROVE  FailedStops'
  BY <1>9 DEF AlertEnd, Return, HandlerAlertsOnly
<1>10. ASSUME NEW t \in Thread, StartRefused(t)
      PROVE  FailedStops'
  BY <1>10 DEF StartRefused, Alert
<1>11. ASSUME NEW t \in Thread, StartAccepted(t)
      PROVE  FailedStops'
  BY <1>11 DEF StartAccepted
<1>12. ASSUME NEW t \in Thread, LoadLastStartRequest(t)
      PROVE  FailedStops'
  BY <1>12 DEF LoadLastStartRequest
<1>13. ASSUME NEW t \in Thread, LoadFails(t)
      PROVE  FailedStops'
  BY <1>13 DEF LoadFails, Alert
<1>14. ASSUME NEW t \in Thread, BuildConfig(t)
      PROVE  FailedStops'
  BY <1>14 DEF BuildConfig
<1>15. ASSUME NEW t \in Thread, SaveLastStartRequest(t)
      PROVE  FailedStops'
  BY <1>15 DEF SaveLastStartRequest
<1>16. ASSUME NEW t \in Thread, PreStartHooks(t)
      PROVE  FailedStops'
  BY <1>16 DEF PreStartHooks
<1>17. ASSUME NEW t \in Thread, NewService(t)
      PROVE  FailedStops'
  BY <1>17 DEF NewService
<1>18. ASSUME NEW t \in Thread, RunService(t)
      PROVE  FailedStops'
  BY <1>18 DEF RunService
<1>19. ASSUME NEW t \in Thread, RunFails(t)
      PROVE  FailedStops'
  BY <1>19 DEF RunFails, Alert
<1>20. ASSUME NEW t \in Thread, StartFails(t)
      PROVE  FailedStops'
  <2>1. PICK m \in Failure \ {"UNEXPECTED_ERROR"} : Alert(t, m)
    BY <1>20 DEF StartFails
  <2>2. pc[t] \in {"startBuild", "startHooks", "startNew"} /\ UNCHANGED <<Box, op, lock>>
    BY <1>20 DEF StartFails
  <2> QED
    BY <2>1, <2>2 DEF Alert
<1>21. ASSUME NEW t \in Thread, StartPanics(t)
      PROVE  FailedStops'
  BY <1>21 DEF StartPanics, Panic, Alert
<1>22. ASSUME NEW t \in Thread, PublishBox(t)
      PROVE  FailedStops'
  BY <1>22 DEF PublishBox
<1>23. ASSUME NEW t \in Thread, RefreshAfterStart(t)
      PROVE  FailedStops'
  BY <1>23 DEF RefreshAfterStart
<1>24. ASSUME NEW t \in Thread, StartDone(t)
      PROVE  FailedStops'
  BY <1>24 DEF StartDone, Return
<1>25. ASSUME NEW t \in Thread, StopLock(t)
      PROVE  FailedStops'
  BY <1>25 DEF StopLock
<1>26. ASSUME NEW t \in Thread, StopCheck(t)
      PROVE  FailedStops'
  BY <1>26 DEF StopCheck
<1>27. ASSUME NEW t \in Thread, StopFindsNothing(t)
      PROVE  FailedStops'
  <2>1. CASE op[t] = "restart"
    BY <1>27, <2>1 DEF StopFindsNothing, StopSucceeds
  <2>2. CASE op[t] # "restart"
    <3>1. Return(t) /\ UNCHANGED Box
      BY <1>27, <2>2 DEF StopFindsNothing, StopSucceeds
    <3> QED
      BY <1>27, <3>1 DEF StopFindsNothing, Return
  <2> QED
    BY <2>1, <2>2
<1>28. ASSUME NEW t \in Thread, StopClose(t)
      PROVE  FailedStops'
  BY <1>28 DEF StopClose
<1>29. ASSUME NEW t \in Thread, StopClosePanics(t)
      PROVE  FailedStops'
  BY <1>29 DEF StopClosePanics, Panic, Alert
<1>30. ASSUME NEW t \in Thread, StopClear(t)
      PROVE  FailedStops'
  BY <1>30 DEF StopClear
<1>31. ASSUME NEW t \in Thread, StopDone(t)
      PROVE  FailedStops'
  <2>1. CASE op[t] = "restart"
    BY <1>31, <2>1 DEF StopDone, StopSucceeds
  <2>2. CASE op[t] # "restart"
    <3>1. Return(t) /\ UNCHANGED Box
      BY <1>31, <2>2 DEF StopDone, StopSucceeds
    <3> QED
      BY <1>31, <3>1 DEF StopDone, Return
  <2> QED
    BY <2>1, <2>2
<1>32. CASE UNCHANGED vars
  BY <1>32 DEF vars
<1> QED
  <2>1. ASSUME NEW t \in Thread, AlertStep(t)  PROVE FailedStops'
    BY ONLY <2>1, <1>4, <1>5, <1>6, <1>7, <1>8, <1>9 DEF AlertStep
  <2>2. ASSUME NEW t \in Thread, StartStep(t)  PROVE FailedStops'
    BY ONLY <2>2, <1>10, <1>11, <1>12, <1>13, <1>14, <1>15, <1>16, <1>17,
      <1>18, <1>19, <1>20, <1>21, <1>22, <1>23, <1>24 DEF StartStep
  <2>3. ASSUME NEW t \in Thread, StopStep(t)  PROVE FailedStops'
    BY ONLY <2>3, <1>25, <1>26, <1>27, <1>28, <1>29, <1>30, <1>31 DEF StopStep
  <2>4. ASSUME NEW t \in Thread, Step(t)  PROVE FailedStops'
    BY ONLY <2>4, <2>1, <2>2, <2>3, <1>2, <1>3 DEF Step
  <2>5. Next \/ UNCHANGED vars
    OBVIOUS
  <2> QED
    BY ONLY <2>5, <2>4, <1>1, <1>32 DEF Next

\* A call that is to report a start has its own configuration running.
LEMMA RunsConfigStep ==
  ASSUME PanicSite = {}, IInv, RunsConfig, [Next]_vars
  PROVE  RunsConfig'
<1> USE ConstantsOK DEF TypeOK, IInv, BoxMatchesPc, RunsConfig, boxes, locals, At, Continue
<1>1. ASSUME NEW t \in Thread, NEW o \in Ops, NEW r \in Request \cup {NoRequest}, Call(t, o, r)
      PROVE  RunsConfig'
  BY <1>1 DEF Call
<1>2. ASSUME NEW t \in Thread, ParseReturns(t)
      PROVE  RunsConfig'
  BY <1>2 DEF ParseReturns
<1>3. ASSUME NEW t \in Thread, ParsePanics(t)
      PROVE  RunsConfig'
  BY <1>3 DEF ParsePanics
<1>4. ASSUME NEW t \in Thread, AlertStatus(t)
      PROVE  RunsConfig'
  BY <1>4 DEF AlertStatus
<1>5. ASSUME NEW t \in Thread, AlertCheck(t)
      PROVE  RunsConfig'
  BY <1>5 DEF AlertCheck
<1>6. ASSUME NEW t \in Thread, AlertClose(t)
      PROVE  RunsConfig'
  BY <1>6 DEF AlertClose, AfterClose
<1>7. ASSUME NEW t \in Thread, AlertClosePanics(t)
      PROVE  RunsConfig'
  BY <1>7 DEF AlertClosePanics
<1>8. ASSUME NEW t \in Thread, AlertClear(t)
      PROVE  RunsConfig'
  BY <1>8 DEF AlertClear
<1>9. ASSUME NEW t \in Thread, AlertEnd(t)
      PROVE  RunsConfig'
  BY <1>9 DEF AlertEnd
<1>10. ASSUME NEW t \in Thread, StartRefused(t)
      PROVE  RunsConfig'
  BY <1>10 DEF StartRefused
<1>11. ASSUME NEW t \in Thread, StartAccepted(t)
      PROVE  RunsConfig'
  BY <1>11 DEF StartAccepted
<1>12. ASSUME NEW t \in Thread, LoadLastStartRequest(t)
      PROVE  RunsConfig'
  BY <1>12 DEF LoadLastStartRequest
<1>13. ASSUME NEW t \in Thread, LoadFails(t)
      PROVE  RunsConfig'
  BY <1>13 DEF LoadFails
<1>14. ASSUME NEW t \in Thread, BuildConfig(t)
      PROVE  RunsConfig'
  BY <1>14 DEF BuildConfig
<1>15. ASSUME NEW t \in Thread, SaveLastStartRequest(t)
      PROVE  RunsConfig'
  BY <1>15 DEF SaveLastStartRequest
<1>16. ASSUME NEW t \in Thread, PreStartHooks(t)
      PROVE  RunsConfig'
  BY <1>16 DEF PreStartHooks
<1>17. ASSUME NEW t \in Thread, NewService(t)
      PROVE  RunsConfig'
  BY <1>17 DEF NewService
<1>18. ASSUME NEW t \in Thread, RunService(t)
      PROVE  RunsConfig'
  <2>1. runs[inst[t]] = Effective(req[t]) /\ inst[t] \in Boxes
    BY <1>18 DEF RunService, ConfigFlows
  <2>2. Effective(req[t]) \in Config \cup {Empty}
    BY <1>18 DEF Effective, StartRequest, Field
  <2>3. runs[inst[t]] \in Config
    BY <2>1, <2>2 DEF ConstantsOK
  <2> QED
    BY <1>18, <2>3 DEF RunService
<1>19. ASSUME NEW t \in Thread, RunFails(t)
      PROVE  RunsConfig'
  BY <1>19 DEF RunFails
<1>20. ASSUME NEW t \in Thread, StartFails(t)
      PROVE  RunsConfig'
  BY <1>20 DEF StartFails
<1>21. ASSUME NEW t \in Thread, StartPanics(t)
      PROVE  RunsConfig'
  BY <1>21 DEF StartPanics
<1>22. ASSUME NEW t \in Thread, PublishBox(t)
      PROVE  RunsConfig'
  BY <1>22 DEF PublishBox
<1>23. ASSUME NEW t \in Thread, RefreshAfterStart(t)
      PROVE  RunsConfig'
  BY <1>23 DEF RefreshAfterStart
<1>24. ASSUME NEW t \in Thread, StartDone(t)
      PROVE  RunsConfig'
  BY <1>24 DEF StartDone
<1>25. ASSUME NEW t \in Thread, StopLock(t)
      PROVE  RunsConfig'
  BY <1>25 DEF StopLock
<1>26. ASSUME NEW t \in Thread, StopCheck(t)
      PROVE  RunsConfig'
  BY <1>26 DEF StopCheck
<1>27. ASSUME NEW t \in Thread, StopFindsNothing(t)
      PROVE  RunsConfig'
  BY <1>27 DEF StopFindsNothing, StopSucceeds
<1>28. ASSUME NEW t \in Thread, StopClose(t)
      PROVE  RunsConfig'
  BY <1>28 DEF StopClose, AfterClose
<1>29. ASSUME NEW t \in Thread, StopClosePanics(t)
      PROVE  RunsConfig'
  BY <1>29 DEF StopClosePanics
<1>30. ASSUME NEW t \in Thread, StopClear(t)
      PROVE  RunsConfig'
  BY <1>30 DEF StopClear
<1>31. ASSUME NEW t \in Thread, StopDone(t)
      PROVE  RunsConfig'
  BY <1>31 DEF StopDone, StopSucceeds
<1>32. CASE UNCHANGED vars
  BY <1>32 DEF vars
<1> QED
  <2>1. ASSUME NEW t \in Thread, AlertStep(t)  PROVE RunsConfig'
    BY ONLY <2>1, <1>4, <1>5, <1>6, <1>7, <1>8, <1>9 DEF AlertStep
  <2>2. ASSUME NEW t \in Thread, StartStep(t)  PROVE RunsConfig'
    BY ONLY <2>2, <1>10, <1>11, <1>12, <1>13, <1>14, <1>15, <1>16, <1>17,
      <1>18, <1>19, <1>20, <1>21, <1>22, <1>23, <1>24 DEF StartStep
  <2>3. ASSUME NEW t \in Thread, StopStep(t)  PROVE RunsConfig'
    BY ONLY <2>3, <1>25, <1>26, <1>27, <1>28, <1>29, <1>30, <1>31 DEF StopStep
  <2>4. ASSUME NEW t \in Thread, Step(t)  PROVE RunsConfig'
    BY ONLY <2>4, <2>1, <2>2, <2>3, <1>2, <1>3 DEF Step
  <2>5. Next \/ UNCHANGED vars
    OBVIOUS
  <2> QED
    BY ONLY <2>5, <2>4, <1>1, <1>32 DEF Next


RefInv == IInv /\ RunsConfig /\ FailedStops

\* What the refinement needs of a reachable state.
LEMMA RefInductive == ASSUME PanicSite = {} PROVE Spec => []RefInv
<1>1. Init => RefInv
  BY InvInit DEF RefInv, Init, RunsConfig, FailedStops, AlertPc
<1>2. RefInv /\ [Next]_vars => RefInv'
  BY InvStep, FailedStopsStep, RunsConfigStep DEF RefInv
<1> QED
  BY <1>1, <1>2, PTL DEF Spec

\* The three things a client can know, by where the call is.
CallFacts(t) ==
  /\ pc[t] \in {"idle", "parse"} => CallOf(t) = Promise!None
  /\ pc[t] = "stopLock" \/ (pc[t] \in {"stopCheck", "stopClose"} /\ Box # NoBox) =>
       CallOf(t) = Promise!Asks(IF op[t] = "restart" THEN "restart" ELSE "stop")
  /\ pc[t] \in {"stopDone", "stopClear"} \/ (pc[t] = "stopCheck" /\ Box = NoBox) =>
       CallOf(t) = IF op[t] = "restart" /\ msg[t] = "EMPTY"
                     THEN Promise!Asks("start") ELSE Promise!Done(msg[t] # "EMPTY")
  /\ pc[t] \in {"startLock", "startLoad", "startBuild", "startSave", "startHooks",
                "startNew", "startRun"} => CallOf(t) = Promise!Asks("start")
  /\ pc[t] \in {"startPublish", "startRefresh", "startDone"} => CallOf(t) = Promise!Done(FALSE)
  /\ pc[t] \in {"alert", "alertCheck", "alertClose"} /\ Box # NoBox => CallOf(t) = Promise!Asks("start")
  /\ pc[t] \in {"alertClear", "alertEnd"} \/ (pc[t] \in {"alert", "alertCheck"} /\ Box = NoBox) =>
       CallOf(t) = Promise!Done(TRUE)

AllCallFacts == \A t \in Thread : CallFacts(t)

\* What each label shows of the call that is at it.
LEMMA CallCases == RefInv => AllCallFacts
<1> SUFFICES ASSUME RefInv, NEW t \in Thread PROVE CallFacts(t)
  BY DEF AllCallFacts
<1>0. IInv /\ FailedStops
  BY DEF RefInv
<1> USE DEF IInv, TypeOK, OpMatchesPc, BoxMatchesPc, FailedStops, StartPc, StopPc, AlertPc, Ops,
      CallFacts, CallOf, Effected, Asked, Promise!None, Promise!Asks, Promise!Done
<1> USE <1>0
<1>1. CASE pc[t] \in {"idle", "parse"}
  BY <1>1
<1>2. CASE pc[t] \in {"stopLock"} \cup StopPc
  <2>1. op[t] \in {"stop", "restart", "close"} /\ pc[t] \notin {"idle", "parse"}
    BY <1>2
  <2>2. pc[t] # "stopClear" => msg[t] = "EMPTY"
    BY <1>2
  <2>3. Asked(t) = IF op[t] = "restart" THEN "restart" ELSE "stop"
    BY <1>2, <2>1
  <2>4. msg[t] \in Failure <=> msg[t] # "EMPTY"
    BY DEF Failure
  <2>5. Effected(t) <=> pc[t] \in {"stopDone", "stopClear"} \/ (pc[t] = "stopCheck" /\ Box = NoBox)
    BY <1>2
  <2>6. CASE Effected(t)
    BY ONLY <1>2, <2>1, <2>2, <2>4, <2>5, <2>6, <1>0 DEF CallOf, StopPc, IInv, BoxMatchesPc,
       CallFacts,
       Promise!None, Promise!Asks, Promise!Done
  <2>7. CASE ~Effected(t)
    BY ONLY <1>2, <2>1, <2>2, <2>3, <2>5, <2>7, <1>0 DEF CallOf, StopPc, IInv, BoxMatchesPc,
       CallFacts,
       Promise!None, Promise!Asks, Promise!Done
  <2> QED
    BY <2>6, <2>7
<1>3. CASE pc[t] \in StartPc \cup {"startLock"}
  <2>1. op[t] \in {"start", "restart"} /\ pc[t] \notin {"idle", "parse"} \cup StopPc /\ msg[t] = "EMPTY"
    BY <1>3
  <2>2. Asked(t) = "start"
    BY <1>3, <2>1
  <2>3. Effected(t) <=> pc[t] \in {"startPublish", "startRefresh", "startDone"}
    BY <1>3
  <2>4. (msg[t] \in Failure) = FALSE
    BY <2>1 DEF Failure
  <2>5. CallOf(t) = IF Effected(t) THEN Promise!Done(FALSE) ELSE Promise!Asks("start")
    BY ONLY <2>1, <2>2, <2>4 DEF CallOf, Promise!Asks, Promise!Done
  <2> QED
    BY ONLY <1>3, <2>3, <2>5 DEF StartPc, StopPc, CallFacts
<1>4. CASE pc[t] \in AlertPc
  BY <1>4 DEF Failure
<1> QED
  BY <1>1, <1>2, <1>3, <1>4 DEF PcLabel


\* Service, by where the lock holder is.
ServiceFacts ==
  /\ Box = NoBox /\ (\A t \in Thread : pc[t] # "startPublish") => Service = NoConfig
  /\ Box # NoBox /\ (\A t \in Thread : pc[t] \notin {"stopClear", "alertClear"}) => Service \in Config
  /\ \A t \in Thread : pc[t] = "startPublish" => Service \in Config
  /\ \A t \in Thread : pc[t] \in {"stopClear", "alertClear"} => Service = NoConfig

\* What the variables of CoreLifecycle show of the service.
LEMMA ServiceCases == RefInv => ServiceFacts
<1> SUFFICES ASSUME RefInv PROVE ServiceFacts
  OBVIOUS
<1> USE ConstantsOK DEF RefInv, IInv, TypeOK
<1>1. ASSUME NEW b \in Boxes, life[b] = "running"
      PROVE  Service \in Config
  <2>1. PICK c \in Running : c = CHOOSE d \in Running : TRUE
    BY <1>1 DEF Running
  <2> QED
    BY <1>1, <2>1 DEF Service, Running, RunsConfig
<1>2. ASSUME Running = {} PROVE Service = NoConfig
  BY <1>2 DEF Service
<1>3. Box = NoBox /\ (\A t \in Thread : pc[t] # "startPublish") => Running = {}
  BY DEF RunningIsHeld, Running
<1>4. ASSUME NEW t \in Thread, pc[t] \in {"stopClear", "alertClear"}
      PROVE  Running = {}
  <2>1. Box # NoBox /\ life[Box] # "running"
    BY <1>4 DEF BoxMatchesPc
  <2> QED
    BY <2>1 DEF RunningIsHeld, BoxMatchesPc, Running
<1>5. ASSUME Box # NoBox, \A t \in Thread : pc[t] \notin {"stopClear", "alertClear"}
      PROVE  Service \in Config
  BY <1>1, <1>5 DEF BoxIsRunning
<1>6. ASSUME NEW t \in Thread, pc[t] = "startPublish"
      PROVE  Service \in Config
  BY <1>1, <1>6 DEF BoxMatchesPc
<1> QED
  BY <1>2, <1>3, <1>4, <1>5, <1>6 DEF ServiceFacts

\* What every step does to the variables CallOf reads: it moves one thread, and
\* Box only if that thread holds the mutex.
Moves(t) ==
  /\ pc' = [pc EXCEPT ![t] = pc'[t]]
  /\ op' = [op EXCEPT ![t] = op'[t]]
  /\ msg' = [msg EXCEPT ![t] = msg'[t]]
  /\ Box' = Box \/ lock = t

\* One thread's step shows nothing new of the other threads' calls.
LEMMA OtherCalls ==
  ASSUME RefInv, NEW t \in Thread, Moves(t)
  PROVE  Calls' = [Calls EXCEPT ![t] = CallOf(t)'] /\ Calls[t] = CallOf(t)
<1>1. ASSUME NEW u \in Thread, u # t
      PROVE  CallOf(u)' = CallOf(u)
  <2>1. pc'[u] = pc[u] /\ op'[u] = op[u] /\ msg'[u] = msg[u]
    BY <1>1 DEF Moves, RefInv, IInv, TypeOK
  <2>2. Asked(u)' = Asked(u)
    BY <2>1 DEF Asked
  <2>3. Effected(u)' = Effected(u)
    <3>1. CASE Box' = Box
      BY <2>1, <3>1 DEF Effected
    <3>2. CASE lock = t
      BY <1>1, <2>1, <3>2 DEF Effected, RefInv, IInv, LockIsHeld, AlertPc, StopPc
    <3> QED
      BY <3>1, <3>2 DEF Moves
  <2> QED
    BY <2>1, <2>2, <2>3 DEF CallOf
<1> QED
  BY <1>1 DEF Calls

\* The steps of the code, by what they are for a client of CoreService.
LEMMA Unseen ==
  ASSUME RefInv, NEW t \in Thread, Moves(t), CallOf(t)' = CallOf(t),
         \A b \in Boxes : (life'[b] = "running" <=> life[b] = "running")
                            /\ (life[b] = "running" => runs'[b] = runs[b])
  PROVE  [Promise!Next]_Promise!vars
<1>1. Calls' = Calls
  BY OtherCalls DEF Calls
<1>2. Running' = Running
  BY DEF Running
<1>3. \A b \in Running : runs'[b] = runs[b]
  BY DEF Running
<1>4. Service' = Service
  <2>1. CASE Running = {}
    BY <1>2, <2>1 DEF Service
  <2>2. CASE Running # {}
    BY <1>2, <1>3, <2>2 DEF Service
  <2> QED
    BY <2>1, <2>2
<1> QED
  BY <1>1, <1>4 DEF Promise!vars

\* ... and of its own a move of CoreService.
LEMMA Seen ==
  ASSUME RefInv, NEW t \in Thread, Moves(t), NEW from, CallOf(t) = from
  PROVE  Promise!Move(t, from, CallOf(t)')
BY OtherCalls DEF Promise!Move

\* The service is shown by the box alone.
LEMMA ServiceStays ==
  ASSUME UNCHANGED boxes
  PROVE  Service' = Service
BY DEF boxes, Service, Running

\* Every step is one of CoreService or changes nothing that it shows.
LEMMA RefStep ==
  ASSUME PanicSite = {}, RefInv, RefInv', [Next]_vars
  PROVE  [Promise!Next]_Promise!vars
<1> DEFINE Simulated == [Promise!Next]_Promise!vars
<1>a. AllCallFacts /\ ServiceFacts
  BY CallCases, ServiceCases
<1>b. RefInv' => AllCallFacts'
  BY CallCases, PTL
<1>c. RefInv' => ServiceFacts'
  BY ServiceCases, PTL
<1>d. AllCallFacts' /\ ServiceFacts'
  BY <1>b, <1>c
<1>e. TypeOK /\ IInv /\ LockIsHeld /\ BoxMatchesPc /\ OpMatchesPc /\ FreeMeansSettled /\ BoxIsRunning
  BY DEF RefInv, IInv
<1>f. TypeOK' /\ LockIsHeld' /\ BoxMatchesPc' /\ OpMatchesPc'
  BY DEF RefInv, IInv
<1>g. ConstantsOK
  BY ConstantsOK
<1> SUFFICES Simulated
  OBVIOUS
<1> HIDE DEF Simulated
<1>1. ASSUME NEW t \in Thread, NEW o \in Ops, NEW r \in Request \cup {NoRequest}, Call(t, o, r)
      PROVE  Simulated
  <2>0. /\ pc[t] = "idle" /\ op' = [op EXCEPT ![t] = o] /\ pc' = [pc EXCEPT ![t] = pc'[t]]
        /\ pc'[t] = (CASE o = "start" -> "startLock" [] o = "parse" -> "parse" [] OTHER -> "stopLock")
        /\ UNCHANGED <<Box, boxes, msg>>
    BY <1>1, <1>e DEF Call, TypeOK, record, boxes, locals, At, Goto, Continue
  <2>1. Moves(t)
    BY <2>0, <1>e DEF Moves, TypeOK
  <2>2. CallOf(t) = Promise!None
    BY <2>0, <1>a DEF AllCallFacts, CallFacts
  <2>3. CASE o = "parse"
    <3>1. pc'[t] = "parse"
      BY <2>0, <2>3
    <3>2. CallOf(t)' = Promise!None
      BY <3>1, <1>d DEF AllCallFacts, CallFacts
    <3> QED
      BY <2>0, <2>1, <2>2, <3>2, Unseen DEF boxes, Simulated
  <2>4. CASE o # "parse"
    <3>1. pc'[t] = IF o = "start" THEN "startLock" ELSE "stopLock"
      BY <2>0, <2>4
    <3>2. op'[t] = o
      BY <2>0, <1>e DEF TypeOK
    <3>3. CallOf(t)' = Promise!Asks(IF o = "close" THEN "stop" ELSE o)
      BY <2>4, <3>1, <3>2, <1>d DEF AllCallFacts, CallFacts, Ops
    <3>4. PICK p \in Promise!Ops : p = IF o = "close" THEN "stop" ELSE o
      BY <2>4 DEF Ops, Promise!Ops
    <3>5. Promise!Move(t, Promise!None, Promise!Asks(p))
      BY <2>1, <2>2, <3>3, <3>4, Seen
    <3>6. Service' = Service
      BY <2>0, ServiceStays
    <3> QED
      BY <3>5, <3>6 DEF Simulated, Promise!Next, Promise!Invoke
  <2> QED
    BY <2>3, <2>4
<1>2. ASSUME NEW t \in Thread, ParseReturns(t)
      PROVE  Simulated
  <2>0. pc[t] = "parse" /\ pc'[t] = "idle"
    BY <1>2, <1>e DEF ParseReturns, Return, TypeOK, BoxMatchesPc, FreeMeansSettled, record,
       boxes, locals, At, Goto, Continue
  <2>1. Moves(t)
    BY <1>2, <1>e DEF ParseReturns, Return, Moves, TypeOK, LockIsHeld, AlertPc, StartPc, StopPc,
       record, boxes, locals, At, Goto, Continue
  <2>2. CallOf(t) = Promise!None /\ CallOf(t)' = Promise!None
    BY <2>0, <1>a, <1>d DEF AllCallFacts, CallFacts
  <2>3. \A b \in Boxes : (life'[b] = "running" <=> life[b] = "running")
                         /\ (life[b] = "running" => runs'[b] = runs[b])
    BY <1>2, <1>e DEF ParseReturns, Return, TypeOK, boxes
  <2> QED
    BY <2>1, <2>2, <2>3, Unseen DEF Simulated
<1>3. ASSUME NEW t \in Thread, ParsePanics(t)
      PROVE  Simulated
  BY <1>3 DEF ParsePanics
<1>4. ASSUME NEW t \in Thread, AlertStatus(t)
      PROVE  Simulated
  <2>0. pc[t] = "alert" /\ pc'[t] = "alertCheck" /\ Box' = Box
    BY <1>4, <1>e DEF AlertStatus, TypeOK, record, boxes, locals, At, Goto, Continue
  <2>1. Moves(t)
    BY <1>4, <1>e DEF AlertStatus, Moves, TypeOK, record, boxes, locals, At, Goto, Continue
  <2>2. CallOf(t)' = CallOf(t)
    <3>1. CASE Box = NoBox
      <4>1. CallOf(t) = Promise!Done(TRUE) /\ CallOf(t)' = Promise!Done(TRUE)
        BY <2>0, <3>1, <1>a, <1>d DEF AllCallFacts, CallFacts
      <4> QED
        BY <4>1
    <3>2. CASE Box # NoBox
      <4>1. CallOf(t) = Promise!Asks("start") /\ CallOf(t)' = Promise!Asks("start")
        BY <2>0, <3>2, <1>a, <1>d DEF AllCallFacts, CallFacts
      <4> QED
        BY <4>1
    <3> QED
      BY <3>1, <3>2
  <2> QED
    BY <1>4, <2>1, <2>2, Unseen DEF AlertStatus, boxes, Simulated
<1>5. ASSUME NEW t \in Thread, AlertCheck(t)
      PROVE  Simulated
  <2>0. pc[t] = "alertCheck" /\ pc'[t] = (IF Box = NoBox THEN "alertEnd" ELSE "alertClose") /\ Box' = Box
    BY <1>5, <1>e DEF AlertCheck, TypeOK, record, boxes, locals, At, Goto, Continue
  <2>1. Moves(t)
    BY <1>5, <1>e DEF AlertCheck, Moves, TypeOK, record, boxes, locals, At, Goto, Continue
  <2>2. CallOf(t)' = CallOf(t)
    <3>1. CASE Box = NoBox
      <4>1. CallOf(t) = Promise!Done(TRUE) /\ CallOf(t)' = Promise!Done(TRUE)
        BY <2>0, <3>1, <1>a, <1>d DEF AllCallFacts, CallFacts
      <4> QED
        BY <4>1
    <3>2. CASE Box # NoBox
      <4>1. CallOf(t) = Promise!Asks("start") /\ CallOf(t)' = Promise!Asks("start")
        BY <2>0, <3>2, <1>a, <1>d DEF AllCallFacts, CallFacts
      <4> QED
        BY <4>1
    <3> QED
      BY <3>1, <3>2
  <2> QED
    BY <1>5, <2>1, <2>2, Unseen DEF AlertCheck, boxes, Simulated
<1>6. ASSUME NEW t \in Thread, AlertClose(t)
      PROVE  Simulated
  <2>1. Moves(t)
    BY <1>6, <1>e DEF AlertClose, Moves, TypeOK, LockIsHeld, AlertPc, StartPc, StopPc, record,
       boxes, locals, At, Goto, Continue
  <2>2. CallOf(t) = Promise!Asks("start") /\ CallOf(t)' = Promise!Done(TRUE)
    BY <1>6, <1>a, <1>d, <1>e DEF AlertClose, AllCallFacts, CallFacts, TypeOK, BoxMatchesPc,
       OpMatchesPc,
       AlertPc, StartPc, StopPc, record, boxes, locals, At, Goto, Continue
  <2>3. Promise!Move(t, Promise!Asks("start"), Promise!Done(TRUE))
    BY <2>1, <2>2, Seen
  <2>4. Service' = NoConfig
    BY <1>6, <1>d, <1>e, <1>f DEF AlertClose, LockIsHeld, AlertPc, StartPc, StopPc, BoxMatchesPc,
       ServiceFacts, TypeOK, record, boxes, locals, At, Goto, Continue
  <2> QED
    BY <2>3, <2>4 DEF Simulated, Promise!Next, Promise!StartFails
<1>7. ASSUME NEW t \in Thread, AlertClosePanics(t)
      PROVE  Simulated
  BY <1>7, <1>e DEF AlertClosePanics, BoxMatchesPc, At
<1>8. ASSUME NEW t \in Thread, AlertClear(t)
      PROVE  Simulated
  <2>0. pc[t] = "alertClear" /\ pc'[t] = "alertEnd"
    BY <1>8, <1>e DEF AlertClear, TypeOK, BoxMatchesPc, FreeMeansSettled, record, boxes, locals,
       At, Goto, Continue
  <2>1. Moves(t)
    BY <1>8, <1>e DEF AlertClear, Moves, TypeOK, LockIsHeld, AlertPc, StartPc, StopPc, record,
       boxes, locals, At, Goto, Continue
  <2>2. CallOf(t) = Promise!Done(TRUE) /\ CallOf(t)' = Promise!Done(TRUE)
    BY <2>0, <1>a, <1>d DEF AllCallFacts, CallFacts
  <2>3. \A b \in Boxes : (life'[b] = "running" <=> life[b] = "running")
                         /\ (life[b] = "running" => runs'[b] = runs[b])
    BY <1>8, <1>e DEF AlertClear, TypeOK, boxes
  <2> QED
    BY <2>1, <2>2, <2>3, Unseen DEF Simulated
<1>9. ASSUME NEW t \in Thread, AlertEnd(t)
      PROVE  Simulated
  <2>1. Moves(t)
    BY <1>9, <1>e DEF AlertEnd, Return, Moves, TypeOK, LockIsHeld, AlertPc, StartPc, StopPc,
       record, boxes, locals, At, Goto, Continue
  <2>2. CallOf(t) = Promise!Done(TRUE) /\ CallOf(t)' = Promise!None
    BY <1>9, <1>a, <1>d, <1>e DEF AlertEnd, Return, AllCallFacts, CallFacts, TypeOK,
       BoxMatchesPc, OpMatchesPc,
       AlertPc, StartPc, StopPc, record, boxes, locals, At, Goto, Continue
  <2>3. Promise!Move(t, Promise!Done(TRUE), Promise!None)
    BY <2>1, <2>2, Seen
  <2>4. Service' = Service
    BY <1>9, ServiceStays DEF AlertEnd
  <2> QED
    BY <2>3, <2>4 DEF Simulated, Promise!Next, Promise!Return
<1>10. ASSUME NEW t \in Thread, StartRefused(t)
      PROVE  Simulated
  <2>0. pc[t] = "startLock" /\ pc'[t] = "alert" /\ Box' # NoBox
    BY <1>10, <1>e DEF StartRefused, Alert, TypeOK, BoxMatchesPc, FreeMeansSettled, record,
       boxes, locals, At, Goto, Continue
  <2>1. Moves(t)
    BY <1>10, <1>e DEF StartRefused, Alert, Moves, TypeOK, LockIsHeld, AlertPc, StartPc, StopPc,
       record, boxes, locals, At, Goto, Continue
  <2>2. CallOf(t) = Promise!Asks("start") /\ CallOf(t)' = Promise!Asks("start")
    BY <2>0, <1>a, <1>d DEF AllCallFacts, CallFacts
  <2>3. \A b \in Boxes : (life'[b] = "running" <=> life[b] = "running")
                         /\ (life[b] = "running" => runs'[b] = runs[b])
    BY <1>10, <1>e DEF StartRefused, Alert, TypeOK, boxes
  <2> QED
    BY <2>1, <2>2, <2>3, Unseen DEF Simulated
<1>11. ASSUME NEW t \in Thread, StartAccepted(t)
      PROVE  Simulated
  <2>0. pc[t] = "startLock" /\ pc'[t] = "startLoad"
    BY <1>11, <1>e DEF StartAccepted, TypeOK, BoxMatchesPc, FreeMeansSettled, record, boxes,
       locals, At, Goto, Continue
  <2>1. Moves(t)
    BY <1>11, <1>e DEF StartAccepted, Moves, TypeOK, LockIsHeld, AlertPc, StartPc, StopPc,
       record, boxes, locals, At, Goto, Continue
  <2>2. CallOf(t) = Promise!Asks("start") /\ CallOf(t)' = Promise!Asks("start")
    BY <2>0, <1>a, <1>d DEF AllCallFacts, CallFacts
  <2>3. \A b \in Boxes : (life'[b] = "running" <=> life[b] = "running")
                         /\ (life[b] = "running" => runs'[b] = runs[b])
    BY <1>11, <1>e DEF StartAccepted, TypeOK, boxes
  <2> QED
    BY <2>1, <2>2, <2>3, Unseen DEF Simulated
<1>12. ASSUME NEW t \in Thread, LoadLastStartRequest(t)
      PROVE  Simulated
  <2>0. pc[t] = "startLoad" /\ pc'[t] = "startBuild"
    BY <1>12, <1>e DEF LoadLastStartRequest, TypeOK, BoxMatchesPc, FreeMeansSettled, record,
       boxes, locals, At, Goto, Continue
  <2>1. Moves(t)
    BY <1>12, <1>e DEF LoadLastStartRequest, Moves, TypeOK, LockIsHeld, AlertPc, StartPc, StopPc,
       record, boxes, locals, At, Goto, Continue
  <2>2. CallOf(t) = Promise!Asks("start") /\ CallOf(t)' = Promise!Asks("start")
    BY <2>0, <1>a, <1>d DEF AllCallFacts, CallFacts
  <2>3. \A b \in Boxes : (life'[b] = "running" <=> life[b] = "running")
                         /\ (life[b] = "running" => runs'[b] = runs[b])
    BY <1>12, <1>e DEF LoadLastStartRequest, TypeOK, boxes
  <2> QED
    BY <2>1, <2>2, <2>3, Unseen DEF Simulated
<1>13. ASSUME NEW t \in Thread, LoadFails(t)
      PROVE  Simulated
  <2>1. Moves(t)
    BY <1>13, <1>e DEF LoadFails, Alert, Moves, TypeOK, LockIsHeld, AlertPc, StartPc, StopPc,
       record, boxes, locals, At, Goto, Continue
  <2>2. CallOf(t) = Promise!Asks("start") /\ CallOf(t)' = Promise!Done(TRUE)
    <3>1. pc[t] = "startLoad" /\ pc'[t] = "alert" /\ Box' = NoBox
      BY <1>13, <1>e DEF LoadFails, Alert, TypeOK, BoxMatchesPc, At, Goto, Continue
    <3> QED
      BY <3>1, <1>a, <1>d DEF AllCallFacts, CallFacts
  <2>3. Promise!Move(t, Promise!Asks("start"), Promise!Done(TRUE))
    BY <2>1, <2>2, Seen
  <2>4. Service' = NoConfig
    BY <1>13, <1>d, <1>e, <1>f DEF LoadFails, Alert, LockIsHeld, AlertPc, StartPc, StopPc,
       BoxMatchesPc, ServiceFacts, TypeOK, record, boxes, locals, At, Goto, Continue
  <2> QED
    BY <2>3, <2>4 DEF Simulated, Promise!Next, Promise!StartFails
<1>14. ASSUME NEW t \in Thread, BuildConfig(t)
      PROVE  Simulated
  <2>0. pc[t] = "startBuild" /\ pc'[t] = "startSave"
    BY <1>14, <1>e DEF BuildConfig, TypeOK, BoxMatchesPc, FreeMeansSettled, record, boxes,
       locals, At, Goto, Continue
  <2>1. Moves(t)
    BY <1>14, <1>e DEF BuildConfig, Moves, TypeOK, LockIsHeld, AlertPc, StartPc, StopPc, record,
       boxes, locals, At, Goto, Continue
  <2>2. CallOf(t) = Promise!Asks("start") /\ CallOf(t)' = Promise!Asks("start")
    BY <2>0, <1>a, <1>d DEF AllCallFacts, CallFacts
  <2>3. \A b \in Boxes : (life'[b] = "running" <=> life[b] = "running")
                         /\ (life[b] = "running" => runs'[b] = runs[b])
    BY <1>14, <1>e DEF BuildConfig, TypeOK, boxes
  <2> QED
    BY <2>1, <2>2, <2>3, Unseen DEF Simulated
<1>15. ASSUME NEW t \in Thread, SaveLastStartRequest(t)
      PROVE  Simulated
  <2>0. pc[t] = "startSave" /\ pc'[t] = "startHooks"
    BY <1>15, <1>e DEF SaveLastStartRequest, TypeOK, BoxMatchesPc, FreeMeansSettled, record,
       boxes, locals, At, Goto, Continue
  <2>1. Moves(t)
    BY <1>15, <1>e DEF SaveLastStartRequest, Moves, TypeOK, LockIsHeld, AlertPc, StartPc, StopPc,
       record, boxes, locals, At, Goto, Continue
  <2>2. CallOf(t) = Promise!Asks("start") /\ CallOf(t)' = Promise!Asks("start")
    BY <2>0, <1>a, <1>d DEF AllCallFacts, CallFacts
  <2>3. \A b \in Boxes : (life'[b] = "running" <=> life[b] = "running")
                         /\ (life[b] = "running" => runs'[b] = runs[b])
    BY <1>15, <1>e DEF SaveLastStartRequest, TypeOK, boxes
  <2> QED
    BY <2>1, <2>2, <2>3, Unseen DEF Simulated
<1>16. ASSUME NEW t \in Thread, PreStartHooks(t)
      PROVE  Simulated
  <2>0. pc[t] = "startHooks" /\ pc'[t] = "startNew"
    BY <1>16, <1>e DEF PreStartHooks, TypeOK, BoxMatchesPc, FreeMeansSettled, record, boxes,
       locals, At, Goto, Continue
  <2>1. Moves(t)
    BY <1>16, <1>e DEF PreStartHooks, Moves, TypeOK, LockIsHeld, AlertPc, StartPc, StopPc,
       record, boxes, locals, At, Goto, Continue
  <2>2. CallOf(t) = Promise!Asks("start") /\ CallOf(t)' = Promise!Asks("start")
    BY <2>0, <1>a, <1>d DEF AllCallFacts, CallFacts
  <2>3. \A b \in Boxes : (life'[b] = "running" <=> life[b] = "running")
                         /\ (life[b] = "running" => runs'[b] = runs[b])
    BY <1>16, <1>e DEF PreStartHooks, TypeOK, boxes
  <2> QED
    BY <2>1, <2>2, <2>3, Unseen DEF Simulated
<1>17. ASSUME NEW t \in Thread, NewService(t)
      PROVE  Simulated
  <2>0. pc[t] = "startNew" /\ pc'[t] = "startRun"
    BY <1>17, <1>e DEF NewService, TypeOK, BoxMatchesPc, FreeMeansSettled, record, boxes, locals,
       At, Goto, Continue
  <2>1. Moves(t)
    BY <1>17, <1>e DEF NewService, Moves, TypeOK, LockIsHeld, AlertPc, StartPc, StopPc, record,
       boxes, locals, At, Goto, Continue
  <2>2. CallOf(t) = Promise!Asks("start") /\ CallOf(t)' = Promise!Asks("start")
    BY <2>0, <1>a, <1>d DEF AllCallFacts, CallFacts
  <2>3. \A b \in Boxes : (life'[b] = "running" <=> life[b] = "running")
                         /\ (life[b] = "running" => runs'[b] = runs[b])
    BY <1>17, <1>e DEF NewService, TypeOK, boxes
  <2> QED
    BY <2>1, <2>2, <2>3, Unseen DEF Simulated
<1>18. ASSUME NEW t \in Thread, RunService(t)
      PROVE  Simulated
  <2>1. Moves(t)
    BY <1>18, <1>e DEF RunService, Moves, TypeOK, LockIsHeld, AlertPc, StartPc, StopPc, record,
       boxes, locals, At, Goto, Continue
  <2>2. CallOf(t) = Promise!Asks("start") /\ CallOf(t)' = Promise!Done(FALSE)
    <3>1. pc[t] = "startRun" /\ pc'[t] = "startPublish"
      BY <1>18, <1>e DEF RunService, TypeOK, At, Goto, Continue
    <3> QED
      BY <3>1, <1>a, <1>d DEF AllCallFacts, CallFacts
  <2>3. Promise!Move(t, Promise!Asks("start"), Promise!Done(FALSE))
    BY <2>1, <2>2, Seen
  <2>4. Service = NoConfig /\ Service' \in Config
    BY <1>18, <1>a, <1>d, <1>e DEF RunService, LockIsHeld, AlertPc, StartPc, StopPc,
       BoxMatchesPc, ServiceFacts, TypeOK, record, boxes, locals, At, Goto, Continue
  <2> QED
    BY <2>3, <2>4 DEF Simulated, Promise!Next, Promise!StartSucceeds
<1>19. ASSUME NEW t \in Thread, RunFails(t)
      PROVE  Simulated
  <2>1. Moves(t)
    BY <1>19, <1>e DEF RunFails, Alert, Moves, TypeOK, LockIsHeld, AlertPc, StartPc, StopPc,
       record, boxes, locals, At, Goto, Continue
  <2>2. CallOf(t) = Promise!Asks("start") /\ CallOf(t)' = Promise!Done(TRUE)
    <3>1. pc[t] = "startRun" /\ pc'[t] = "alert" /\ Box' = NoBox
      BY <1>19, <1>e DEF RunFails, Alert, TypeOK, BoxMatchesPc, At, Goto, Continue
    <3> QED
      BY <3>1, <1>a, <1>d DEF AllCallFacts, CallFacts
  <2>3. Promise!Move(t, Promise!Asks("start"), Promise!Done(TRUE))
    BY <2>1, <2>2, Seen
  <2>4. Service' = NoConfig
    BY <1>19, <1>d, <1>e, <1>f DEF RunFails, Alert, LockIsHeld, AlertPc, StartPc, StopPc,
       BoxMatchesPc, ServiceFacts, TypeOK, record, boxes, locals, At, Goto, Continue
  <2> QED
    BY <2>3, <2>4 DEF Simulated, Promise!Next, Promise!StartFails
<1>20. ASSUME NEW t \in Thread, StartFails(t)
      PROVE  Simulated
  <2>1. Moves(t)
    BY <1>20, <1>e DEF StartFails, Alert, Moves, TypeOK, LockIsHeld, AlertPc, StartPc, StopPc,
       record, boxes, locals, At, Goto, Continue
  <2>2. CallOf(t) = Promise!Asks("start") /\ CallOf(t)' = Promise!Done(TRUE)
    <3>1. pc[t] \in {"startBuild", "startHooks", "startNew"} /\ pc'[t] = "alert" /\ Box' = Box
      BY <1>20, <1>e DEF StartFails, Alert, At, Goto, TypeOK
    <3>2. Box = NoBox
      BY <1>e, <3>1 DEF BoxMatchesPc
    <3> QED
      BY <1>a, <1>d, <3>1, <3>2 DEF AllCallFacts, CallFacts
  <2>3. Promise!Move(t, Promise!Asks("start"), Promise!Done(TRUE))
    BY <2>1, <2>2, Seen
  <2>4. Service' = NoConfig
    BY <1>20, <1>d, <1>e, <1>f DEF StartFails, Alert, LockIsHeld, AlertPc, StartPc, StopPc,
       BoxMatchesPc, ServiceFacts, TypeOK, record, boxes, locals, At, Goto, Continue
  <2> QED
    BY <2>3, <2>4 DEF Simulated, Promise!Next, Promise!StartFails
<1>21. ASSUME NEW t \in Thread, StartPanics(t)
      PROVE  Simulated
  BY <1>21, <1>e DEF StartPanics, BoxMatchesPc, At
<1>22. ASSUME NEW t \in Thread, PublishBox(t)
      PROVE  Simulated
  <2>0. pc[t] = "startPublish" /\ pc'[t] = "startRefresh"
    BY <1>22, <1>e DEF PublishBox, TypeOK, BoxMatchesPc, FreeMeansSettled, record, boxes, locals,
       At, Goto, Continue
  <2>1. Moves(t)
    BY <1>22, <1>e DEF PublishBox, Moves, TypeOK, LockIsHeld, AlertPc, StartPc, StopPc, record,
       boxes, locals, At, Goto, Continue
  <2>2. CallOf(t) = Promise!Done(FALSE) /\ CallOf(t)' = Promise!Done(FALSE)
    BY <2>0, <1>a, <1>d DEF AllCallFacts, CallFacts
  <2>3. \A b \in Boxes : (life'[b] = "running" <=> life[b] = "running")
                         /\ (life[b] = "running" => runs'[b] = runs[b])
    BY <1>22, <1>e DEF PublishBox, TypeOK, boxes
  <2> QED
    BY <2>1, <2>2, <2>3, Unseen DEF Simulated
<1>23. ASSUME NEW t \in Thread, RefreshAfterStart(t)
      PROVE  Simulated
  <2>0. pc[t] = "startRefresh" /\ pc'[t] = "startDone"
    BY <1>23, <1>e DEF RefreshAfterStart, TypeOK, BoxMatchesPc, FreeMeansSettled, record, boxes,
       locals, At, Goto, Continue
  <2>1. Moves(t)
    BY <1>23, <1>e DEF RefreshAfterStart, Moves, TypeOK, LockIsHeld, AlertPc, StartPc, StopPc,
       record, boxes, locals, At, Goto, Continue
  <2>2. CallOf(t) = Promise!Done(FALSE) /\ CallOf(t)' = Promise!Done(FALSE)
    BY <2>0, <1>a, <1>d DEF AllCallFacts, CallFacts
  <2>3. \A b \in Boxes : (life'[b] = "running" <=> life[b] = "running")
                         /\ (life[b] = "running" => runs'[b] = runs[b])
    BY <1>23, <1>e DEF RefreshAfterStart, TypeOK, boxes
  <2> QED
    BY <2>1, <2>2, <2>3, Unseen DEF Simulated
<1>24. ASSUME NEW t \in Thread, StartDone(t)
      PROVE  Simulated
  <2>1. Moves(t)
    BY <1>24, <1>e DEF StartDone, Return, Moves, TypeOK, LockIsHeld, AlertPc, StartPc, StopPc,
       record, boxes, locals, At, Goto, Continue
  <2>2. CallOf(t) = Promise!Done(FALSE) /\ CallOf(t)' = Promise!None
    BY <1>24, <1>a, <1>d, <1>e DEF StartDone, Return, AllCallFacts, CallFacts, TypeOK,
       BoxMatchesPc, OpMatchesPc,
       AlertPc, StartPc, StopPc, record, boxes, locals, At, Goto, Continue
  <2>3. Promise!Move(t, Promise!Done(FALSE), Promise!None)
    BY <2>1, <2>2, Seen
  <2>4. Service' = Service
    BY <1>24, ServiceStays DEF StartDone
  <2> QED
    BY <2>3, <2>4 DEF Simulated, Promise!Next, Promise!Return
<1>25. ASSUME NEW t \in Thread, StopLock(t)
      PROVE  Simulated
  <2>0. /\ lock = NoThread /\ pc' = [pc EXCEPT ![t] = "stopCheck"] /\ pc[t] = "stopLock"
        /\ UNCHANGED <<Box, boxes, op, msg>> /\ msg[t] = "EMPTY"
    BY <1>25, <1>e DEF StopLock, OpMatchesPc, AlertPc, record, boxes, locals, At, Goto, Continue
  <2>1. Moves(t)
    BY <2>0, <1>e DEF Moves, TypeOK
  <2>2. CASE Box # NoBox
    <3>1. CallOf(t)' = CallOf(t)
      BY <2>0, <2>2, <1>a, <1>d, <1>e DEF AllCallFacts, CallFacts, TypeOK
    <3> QED
      BY <2>0, <2>1, <3>1, Unseen DEF boxes, Simulated
  <2>3. CASE Box = NoBox
    <3>1. Service' = NoConfig
      BY <2>0, <2>3, <1>d, <1>f DEF LockIsHeld, AlertPc, StartPc, StopPc, BoxMatchesPc,
         ServiceFacts, TypeOK
    <3>2. CASE op[t] = "restart"
      <4>1. CallOf(t) = Promise!Asks("restart") /\ CallOf(t)' = Promise!Asks("start")
        BY <2>0, <2>3, <3>2, <1>a, <1>d, <1>e DEF AllCallFacts, CallFacts, TypeOK
      <4>2. Promise!Move(t, Promise!Asks("restart"), Promise!Asks("start"))
        BY <2>1, <4>1, Seen
      <4> QED
        BY <3>1, <4>2 DEF Simulated, Promise!Next, Promise!RestartStops
    <3>3. CASE op[t] # "restart"
      <4>1. CallOf(t) = Promise!Asks("stop") /\ CallOf(t)' = Promise!Done(FALSE)
        BY <2>0, <2>3, <3>3, <1>a, <1>d, <1>e DEF AllCallFacts, CallFacts, TypeOK
      <4>2. Promise!Move(t, Promise!Asks("stop"), Promise!Done(FALSE))
        BY <2>1, <4>1, Seen
      <4> QED
        BY <3>1, <4>2 DEF Simulated, Promise!Next, Promise!StopTakesEffect
    <3> QED
      BY <3>2, <3>3
  <2> QED
    BY <2>2, <2>3
<1>26. ASSUME NEW t \in Thread, StopCheck(t)
      PROVE  Simulated
  <2>0. pc[t] = "stopCheck" /\ pc'[t] = "stopClose" /\ Box' = Box /\ Box # NoBox /\ op' = op
    BY <1>26, <1>e DEF StopCheck, TypeOK, BoxMatchesPc, FreeMeansSettled, record, boxes, locals,
       At, Goto, Continue
  <2>1. Moves(t)
    BY <1>26, <1>e DEF StopCheck, Moves, TypeOK, LockIsHeld, AlertPc, StartPc, StopPc, record,
       boxes, locals, At, Goto, Continue
  <2>2. /\ CallOf(t) = Promise!Asks(IF op[t] = "restart" THEN "restart" ELSE "stop")
        /\ CallOf(t)' = Promise!Asks(IF op[t] = "restart" THEN "restart" ELSE "stop")
    BY <2>0, <1>a, <1>d DEF AllCallFacts, CallFacts
  <2>3. \A b \in Boxes : (life'[b] = "running" <=> life[b] = "running")
                         /\ (life[b] = "running" => runs'[b] = runs[b])
    BY <1>26, <1>e DEF StopCheck, TypeOK, boxes
  <2> QED
    BY <2>1, <2>2, <2>3, Unseen DEF Simulated
<1>27. ASSUME NEW t \in Thread, StopFindsNothing(t)
      PROVE  Simulated
  <2>0. /\ StopSucceeds(t) /\ At(t, pc[t]) /\ lock = t /\ msg[t] = "EMPTY"
        /\ pc[t] = "stopDone" \/ (pc[t] = "stopCheck" /\ Box = NoBox)
    BY <1>27, <1>e DEF StopFindsNothing, At, LockIsHeld, OpMatchesPc, AlertPc, StopPc
  <2>1. CASE op[t] = "restart"
    <3>1. Moves(t)
      BY <2>0, <2>1, <1>e DEF StopSucceeds, Moves, TypeOK, record, boxes, locals, At, Goto, Continue
    <3>2. CallOf(t)' = CallOf(t)
      BY <2>0, <2>1, <1>a, <1>d, <1>e DEF StopSucceeds, AllCallFacts, CallFacts, TypeOK, record,
         boxes, locals, At, Goto, Continue
    <3> QED
      BY <2>0, <3>1, <3>2, Unseen DEF StopSucceeds, boxes, Simulated
  <2>2. CASE op[t] # "restart"
    <3>0. Return(t) /\ UNCHANGED <<Box, boxes>>
      BY <2>0, <2>2 DEF StopSucceeds
    <3>1. Moves(t)
      BY <2>0, <3>0, <1>e DEF Return, Moves, TypeOK, record, boxes, locals, At, Goto, Continue
    <3>2. CallOf(t) = Promise!Done(FALSE) /\ CallOf(t)' = Promise!None
      BY <2>0, <2>2, <3>0, <1>a, <1>d, <1>e DEF Return, AllCallFacts, CallFacts, TypeOK, record,
         boxes, locals, At, Goto, Continue
    <3>3. Promise!Move(t, Promise!Done(FALSE), Promise!None)
      BY <3>1, <3>2, Seen
    <3>4. Service' = Service
      BY <3>0, ServiceStays
    <3> QED
      BY <3>3, <3>4 DEF Simulated, Promise!Next, Promise!Return
  <2> QED
    BY <2>1, <2>2
<1>28. ASSUME NEW t \in Thread, StopClose(t)
      PROVE  Simulated
  <2>0. PICK m \in {"EMPTY", "UNEXPECTED_ERROR"} :
          /\ msg' = [msg EXCEPT ![t] = m] /\ pc' = [pc EXCEPT ![t] = "stopClear"]
          /\ pc[t] = "stopClose" /\ Box # NoBox /\ UNCHANGED <<Box, op>>
    BY <1>28 DEF StopClose, record, boxes, locals, At, Goto, Continue
  <2>1. Moves(t)
    BY <2>0, <1>e DEF Moves, TypeOK
  <2>2. Service' = NoConfig
    BY <2>0, <1>d, <1>e DEF ServiceFacts, TypeOK
  <2>3. Service # NoConfig
    <3>1. \A u \in Thread : pc[u] \notin {"stopClear", "alertClear"}
      BY <2>0, <1>e DEF LockIsHeld, StopPc, AlertPc
    <3> QED
      BY <2>0, <3>1, <1>a, <1>g DEF ServiceFacts, ConstantsOK
  <2>4. CASE op[t] = "restart"
    <3>1. CallOf(t) = Promise!Asks("restart")
      BY <2>0, <2>4, <1>a DEF AllCallFacts, CallFacts
    <3>2. CallOf(t)' = IF m = "EMPTY" THEN Promise!Asks("start") ELSE Promise!Done(TRUE)
      BY <2>0, <2>4, <1>d, <1>e DEF AllCallFacts, CallFacts, TypeOK
    <3>3. \/ Promise!Move(t, Promise!Asks("restart"), Promise!Asks("start"))
          \/ Promise!Move(t, Promise!Asks("restart"), Promise!Done(TRUE))
      BY <2>1, <3>1, <3>2, Seen
    <3> QED
      BY <2>2, <2>3, <3>3 DEF Simulated, Promise!Next, Promise!RestartStops
  <2>5. CASE op[t] # "restart"
    <3>1. CallOf(t) = Promise!Asks("stop")
      BY <2>0, <2>5, <1>a DEF AllCallFacts, CallFacts
    <3>2. CallOf(t)' = IF m = "EMPTY" THEN Promise!Done(FALSE) ELSE Promise!Done(TRUE)
      BY <2>0, <2>5, <1>d, <1>e DEF AllCallFacts, CallFacts, TypeOK
    <3>3. \/ Promise!Move(t, Promise!Asks("stop"), Promise!Done(FALSE))
          \/ Promise!Move(t, Promise!Asks("stop"), Promise!Done(TRUE))
      BY <2>1, <3>1, <3>2, Seen
    <3>4. FALSE \in {FALSE, Service # NoConfig} /\ TRUE \in {FALSE, Service # NoConfig}
      BY <2>3
    <3>5. \E f \in {FALSE, Service # NoConfig} : Promise!Move(t, Promise!Asks("stop"), Promise!Done(f))
      BY <3>3, <3>4
    <3> QED
      BY <2>2, <3>5 DEF Simulated, Promise!Next, Promise!StopTakesEffect
  <2> QED
    BY <2>4, <2>5
<1>29. ASSUME NEW t \in Thread, StopClosePanics(t)
      PROVE  Simulated
  BY <1>29, <1>e DEF StopClosePanics, BoxMatchesPc, At
<1>30. ASSUME NEW t \in Thread, StopClear(t)
      PROVE  Simulated
  <2>0. /\ pc[t] = "stopClear" /\ Box' = NoBox /\ UNCHANGED <<op, msg>>
        /\ pc'[t] = IF msg[t] = "EMPTY" THEN "stopDone" ELSE "alert"
    BY <1>30, <1>e DEF StopClear, TypeOK, BoxMatchesPc, FreeMeansSettled, record, boxes, locals,
       At, Goto, Continue
  <2>1. Moves(t)
    BY <1>30, <1>e DEF StopClear, Moves, TypeOK, LockIsHeld, AlertPc, StartPc, StopPc, record,
       boxes, locals, At, Goto, Continue
  <2>2. /\ CallOf(t) = (IF op[t] = "restart" /\ msg[t] = "EMPTY"
                         THEN Promise!Asks("start") ELSE Promise!Done(msg[t] # "EMPTY"))
        /\ CallOf(t)' = (IF op[t] = "restart" /\ msg[t] = "EMPTY"
                          THEN Promise!Asks("start") ELSE Promise!Done(msg[t] # "EMPTY"))
    BY <2>0, <1>a, <1>d DEF AllCallFacts, CallFacts
  <2>3. \A b \in Boxes : (life'[b] = "running" <=> life[b] = "running")
                         /\ (life[b] = "running" => runs'[b] = runs[b])
    BY <1>30, <1>e DEF StopClear, TypeOK, boxes
  <2> QED
    BY <2>1, <2>2, <2>3, Unseen DEF Simulated
<1>31. ASSUME NEW t \in Thread, StopDone(t)
      PROVE  Simulated
  <2>0. /\ StopSucceeds(t) /\ At(t, pc[t]) /\ lock = t /\ msg[t] = "EMPTY"
        /\ pc[t] = "stopDone" \/ (pc[t] = "stopCheck" /\ Box = NoBox)
    BY <1>31, <1>e DEF StopDone, At, LockIsHeld, OpMatchesPc, AlertPc, StopPc
  <2>1. CASE op[t] = "restart"
    <3>1. Moves(t)
      BY <2>0, <2>1, <1>e DEF StopSucceeds, Moves, TypeOK, record, boxes, locals, At, Goto, Continue
    <3>2. CallOf(t)' = CallOf(t)
      BY <2>0, <2>1, <1>a, <1>d, <1>e DEF StopSucceeds, AllCallFacts, CallFacts, TypeOK, record,
         boxes, locals, At, Goto, Continue
    <3> QED
      BY <2>0, <3>1, <3>2, Unseen DEF StopSucceeds, boxes, Simulated
  <2>2. CASE op[t] # "restart"
    <3>0. Return(t) /\ UNCHANGED <<Box, boxes>>
      BY <2>0, <2>2 DEF StopSucceeds
    <3>1. Moves(t)
      BY <2>0, <3>0, <1>e DEF Return, Moves, TypeOK, record, boxes, locals, At, Goto, Continue
    <3>2. CallOf(t) = Promise!Done(FALSE) /\ CallOf(t)' = Promise!None
      BY <2>0, <2>2, <3>0, <1>a, <1>d, <1>e DEF Return, AllCallFacts, CallFacts, TypeOK, record,
         boxes, locals, At, Goto, Continue
    <3>3. Promise!Move(t, Promise!Done(FALSE), Promise!None)
      BY <3>1, <3>2, Seen
    <3>4. Service' = Service
      BY <3>0, ServiceStays
    <3> QED
      BY <3>3, <3>4 DEF Simulated, Promise!Next, Promise!Return
  <2> QED
    BY <2>1, <2>2
<1>32. CASE UNCHANGED vars
  <2>1. Service' = Service
    BY <1>32, ServiceStays DEF vars, boxes
  <2>2. \A t \in Thread : CallOf(t)' = CallOf(t)
    BY <1>32 DEF vars, CallOf, Effected, Asked
  <2> QED
    BY <2>1, <2>2 DEF Simulated, Calls, Promise!vars
<1> QED
  <2>1. ASSUME NEW t \in Thread, AlertStep(t)  PROVE Simulated
    BY ONLY <2>1, <1>4, <1>5, <1>6, <1>7, <1>8, <1>9 DEF AlertStep
  <2>2. ASSUME NEW t \in Thread, StartStep(t)  PROVE Simulated
    BY ONLY <2>2, <1>10, <1>11, <1>12, <1>13, <1>14, <1>15, <1>16, <1>17,
      <1>18, <1>19, <1>20, <1>21, <1>22, <1>23, <1>24 DEF StartStep
  <2>3. ASSUME NEW t \in Thread, StopStep(t)  PROVE Simulated
    BY ONLY <2>3, <1>25, <1>26, <1>27, <1>28, <1>29, <1>30, <1>31 DEF StopStep
  <2>4. ASSUME NEW t \in Thread, Step(t)  PROVE Simulated
    BY ONLY <2>4, <2>1, <2>2, <2>3, <1>2, <1>3 DEF Step
  <2>5. Next \/ UNCHANGED vars
    OBVIOUS
  <2> QED
    BY ONLY <2>5, <2>4, <1>1, <1>32 DEF Next

(* Without panics the calls are atomic: whatever the threads do, what their callers
   see could have come from a core in which each StartService, Stop and Close takes
   effect at one instant, and each Restart at two. *)
THEOREM CallsAreAtomic == ASSUME PanicSite = {} PROVE Spec => ImplementsCoreService
<1>1. Init => Promise!Init
  <2> SUFFICES ASSUME Init PROVE Promise!Init
    OBVIOUS
  <2>1. Running = {}
    BY DEF Init, Running
  <2>2. Service = NoConfig
    BY <2>1 DEF Service
  <2>3. \A t \in Thread : CallOf(t) = Promise!None
    BY DEF Init, CallOf, Promise!None
  <2> QED
    BY <2>2, <2>3 DEF Promise!Init, Calls
<1>2. RefInv /\ RefInv' /\ [Next]_vars => [Promise!Next]_Promise!vars
  BY RefStep
<1> QED
  BY <1>1, <1>2, RefInductive, PTL DEF Spec, ImplementsCoreService, Promise!Spec


------------------------------------------------------------------------------
(* Panics.                                                                 *)

\* StartService, Stop and the converters keep their recover() frame until it has
\* recovered something.
FramesHold == \A t \in Thread : pc[t] \notin {"idle"} \cup AlertPc => frames[t] # 0

HandlerDies ==
  crashed' # crashed =>
    \E t \in Thread : pc[t] = "alertClose" /\ pc'[t] = "alert" /\ frames[t] = 0

\* Every external call is made above a recover() frame, or inside a handler.
LEMMA FramesStep ==
  ASSUME TypeOK, FramesHold, [Next]_vars
  PROVE  FramesHold' /\ HandlerDies
<1> USE DEF TypeOK, FramesHold, HandlerDies, AlertPc, locals, At, Goto, Continue
<1>1. ASSUME NEW t \in Thread, NEW o \in Ops, NEW r \in Request \cup {NoRequest}, Call(t, o, r)
      PROVE  FramesHold' /\ HandlerDies
  <2>1. pc' = [pc EXCEPT ![t] = pc'[t]] /\ frames' = [frames EXCEPT ![t] = frames'[t]]
    BY <1>1 DEF Call
  <2>2. frames'[t] # 0 /\ crashed' = crashed
    BY <1>1 DEF Call
  <2> QED
    BY <2>1, <2>2
<1>2. ASSUME NEW t \in Thread, ParseReturns(t)
      PROVE  FramesHold' /\ HandlerDies
  BY <1>2 DEF ParseReturns, Return
<1>3. ASSUME NEW t \in Thread, ParsePanics(t)
      PROVE  FramesHold' /\ HandlerDies
  BY <1>3 DEF ParsePanics, Panic, Alert
<1>4. ASSUME NEW t \in Thread, AlertStatus(t)
      PROVE  FramesHold' /\ HandlerDies
  BY <1>4 DEF AlertStatus
<1>5. ASSUME NEW t \in Thread, AlertCheck(t)
      PROVE  FramesHold' /\ HandlerDies
  BY <1>5 DEF AlertCheck
<1>6. ASSUME NEW t \in Thread, AlertClose(t)
      PROVE  FramesHold' /\ HandlerDies
  BY <1>6 DEF AlertClose
<1>7. ASSUME NEW t \in Thread, AlertClosePanics(t)
      PROVE  FramesHold' /\ HandlerDies
  BY <1>7 DEF AlertClosePanics, Panic, Alert
<1>8. ASSUME NEW t \in Thread, AlertClear(t)
      PROVE  FramesHold' /\ HandlerDies
  BY <1>8 DEF AlertClear
<1>9. ASSUME NEW t \in Thread, AlertEnd(t)
      PROVE  FramesHold' /\ HandlerDies
  BY <1>9 DEF AlertEnd, Return
<1>10. ASSUME NEW t \in Thread, StartRefused(t)
      PROVE  FramesHold' /\ HandlerDies
  BY <1>10 DEF StartRefused, Alert
<1>11. ASSUME NEW t \in Thread, StartAccepted(t)
      PROVE  FramesHold' /\ HandlerDies
  BY <1>11 DEF StartAccepted
<1>12. ASSUME NEW t \in Thread, LoadLastStartRequest(t)
      PROVE  FramesHold' /\ HandlerDies
  BY <1>12 DEF LoadLastStartRequest
<1>13. ASSUME NEW t \in Thread, LoadFails(t)
      PROVE  FramesHold' /\ HandlerDies
  BY <1>13 DEF LoadFails, Alert
<1>14. ASSUME NEW t \in Thread, BuildConfig(t)
      PROVE  FramesHold' /\ HandlerDies
  BY <1>14 DEF BuildConfig
<1>15. ASSUME NEW t \in Thread, SaveLastStartRequest(t)
      PROVE  FramesHold' /\ HandlerDies
  BY <1>15 DEF SaveLastStartRequest
<1>16. ASSUME NEW t \in Thread, PreStartHooks(t)
      PROVE  FramesHold' /\ HandlerDies
  BY <1>16 DEF PreStartHooks
<1>17. ASSUME NEW t \in Thread, NewService(t)
      PROVE  FramesHold' /\ HandlerDies
  BY <1>17 DEF NewService
<1>18. ASSUME NEW t \in Thread, RunService(t)
      PROVE  FramesHold' /\ HandlerDies
  BY <1>18 DEF RunService
<1>19. ASSUME NEW t \in Thread, RunFails(t)
      PROVE  FramesHold' /\ HandlerDies
  BY <1>19 DEF RunFails, Alert
<1>20. ASSUME NEW t \in Thread, StartFails(t)
      PROVE  FramesHold' /\ HandlerDies
  <2>1. PICK m \in Failure : Alert(t, m)
    BY <1>20 DEF StartFails, Failure
  <2> QED
    BY <1>20, <2>1 DEF StartFails, Alert
<1>21. ASSUME NEW t \in Thread, StartPanics(t)
      PROVE  FramesHold' /\ HandlerDies
  <2>1. Panic(t) /\ pc[t] \notin {"idle"} \cup AlertPc /\ crashed = FALSE
    BY <1>21 DEF StartPanics
  <2> QED
    BY <2>1 DEF Panic, Alert
<1>22. ASSUME NEW t \in Thread, PublishBox(t)
      PROVE  FramesHold' /\ HandlerDies
  BY <1>22 DEF PublishBox
<1>23. ASSUME NEW t \in Thread, RefreshAfterStart(t)
      PROVE  FramesHold' /\ HandlerDies
  BY <1>23 DEF RefreshAfterStart
<1>24. ASSUME NEW t \in Thread, StartDone(t)
      PROVE  FramesHold' /\ HandlerDies
  BY <1>24 DEF StartDone, Return
<1>25. ASSUME NEW t \in Thread, StopLock(t)
      PROVE  FramesHold' /\ HandlerDies
  BY <1>25 DEF StopLock
<1>26. ASSUME NEW t \in Thread, StopCheck(t)
      PROVE  FramesHold' /\ HandlerDies
  BY <1>26 DEF StopCheck
<1>27. ASSUME NEW t \in Thread, StopFindsNothing(t)
      PROVE  FramesHold' /\ HandlerDies
  <2>1. CASE op[t] = "restart"
    BY <1>27, <2>1 DEF StopFindsNothing, StopSucceeds
  <2>2. CASE op[t] # "restart"
    <3>1. Return(t)
      BY <1>27, <2>2 DEF StopFindsNothing, StopSucceeds
    <3> QED
      BY <1>27, <3>1 DEF StopFindsNothing, Return
  <2> QED
    BY <2>1, <2>2
<1>28. ASSUME NEW t \in Thread, StopClose(t)
      PROVE  FramesHold' /\ HandlerDies
  BY <1>28 DEF StopClose
<1>29. ASSUME NEW t \in Thread, StopClosePanics(t)
      PROVE  FramesHold' /\ HandlerDies
  <2>1. Panic(t) /\ pc[t] \notin {"idle"} \cup AlertPc /\ crashed = FALSE
    BY <1>29 DEF StopClosePanics
  <2> QED
    BY <2>1 DEF Panic, Alert
<1>30. ASSUME NEW t \in Thread, StopClear(t)
      PROVE  FramesHold' /\ HandlerDies
  BY <1>30 DEF StopClear
<1>31. ASSUME NEW t \in Thread, StopDone(t)
      PROVE  FramesHold' /\ HandlerDies
  <2>1. CASE op[t] = "restart"
    BY <1>31, <2>1 DEF StopDone, StopSucceeds
  <2>2. CASE op[t] # "restart"
    <3>1. Return(t)
      BY <1>31, <2>2 DEF StopDone, StopSucceeds
    <3> QED
      BY <1>31, <3>1 DEF StopDone, Return
  <2> QED
    BY <2>1, <2>2
<1>32. CASE UNCHANGED vars
  BY <1>32 DEF vars
<1> QED
  <2>1. ASSUME NEW t \in Thread, AlertStep(t)  PROVE FramesHold' /\ HandlerDies
    BY ONLY <2>1, <1>4, <1>5, <1>6, <1>7, <1>8, <1>9 DEF AlertStep
  <2>2. ASSUME NEW t \in Thread, StartStep(t)  PROVE FramesHold' /\ HandlerDies
    BY ONLY <2>2, <1>10, <1>11, <1>12, <1>13, <1>14, <1>15, <1>16, <1>17,
      <1>18, <1>19, <1>20, <1>21, <1>22, <1>23, <1>24 DEF StartStep
  <2>3. ASSUME NEW t \in Thread, StopStep(t)  PROVE FramesHold' /\ HandlerDies
    BY ONLY <2>3, <1>25, <1>26, <1>27, <1>28, <1>29, <1>30, <1>31 DEF StopStep
  <2>4. ASSUME NEW t \in Thread, Step(t)  PROVE FramesHold' /\ HandlerDies
    BY ONLY <2>4, <2>1, <2>2, <2>3, <1>2, <1>3 DEF Step
  <2>5. Next \/ UNCHANGED vars
    OBVIOUS
  <2> QED
    BY ONLY <2>5, <2>4, <1>1, <1>32 DEF Next

(* With panics too, the process can only die inside the handler of another panic:
   every call into sing-box, a hook or a converter happens above a recover() frame. *)
THEOREM RecoversAreInPlace == Spec => OnlyHandlersDie
<1>1. Init => TypeOK /\ BuiltRequest /\ FramesHold
  BY TypeInit DEF Init, FramesHold
<1>2. TypeOK /\ BuiltRequest /\ FramesHold /\ [Next]_vars => (TypeOK /\ BuiltRequest /\ FramesHold)'
  BY TypeStep, FramesStep
<1>3. TypeOK /\ FramesHold /\ [Next]_vars
        => [crashed' # crashed =>
              \E t \in Thread : pc[t] = "alertClose" /\ pc'[t] = "alert" /\ frames[t] = 0]_vars
  BY FramesStep DEF HandlerDies
<1> QED
  BY <1>1, <1>2, <1>3, PTL DEF Spec, OnlyHandlersDie

------------------------------------------------------------------------------
(* The mutex and the way of a call, with any panics and any goroutines.    *)

\* Where a call may hold static.lock: in a body, and in a handler that runs before
\* the deferred unlock.
ActivePc == AlertPc \cup StartPc \cup StopPc

MutexFits ==
  \A t \in Thread :
    /\ pc[t] \in StartPc \cup StopPc => lock = t
    /\ lock = t => pc[t] \in ActivePc

\* The order of the labels along a call, the last ones first.
Pos(l) ==
  CASE l = "idle" -> 0
    [] l = "alertEnd" -> 1
    [] l = "alertClear" -> 2
    [] l = "alertClose" -> 3
    [] l = "alertCheck" -> 4
    [] l = "alert" -> 5
    [] l = "startDone" -> 6
    [] l = "startRefresh" -> 7
    [] l = "startPublish" -> 8
    [] l = "startRun" -> 9
    [] l = "startNew" -> 10
    [] l = "startHooks" -> 11
    [] l = "startSave" -> 12
    [] l = "startBuild" -> 13
    [] l = "startLoad" -> 14
    [] l \in {"startLock", "parse"} -> 15
    [] l = "stopDone" -> 16
    [] l = "stopClear" -> 17
    [] l = "stopClose" -> 18
    [] l = "stopCheck" -> 19
    [] OTHER -> 20

\* How many steps a call can still make: a panic leads back to the alert, but takes
\* a recover() frame off the stack.
StepsLeft(t) == 21 * frames[t] + Pos(pc[t])

CountsDown(t) ==
  /\ \A u \in Thread \ {t} : StepsLeft(u)' = StepsLeft(u)
  /\ crashed' \/ StepsLeft(t)' < StepsLeft(t)

LEMMA Positions ==
  /\ Pos("idle") = 0 /\ Pos("alertEnd") = 1 /\ Pos("alertClear") = 2
  /\ Pos("alertClose") = 3 /\ Pos("alertCheck") = 4 /\ Pos("alert") = 5
  /\ Pos("startDone") = 6 /\ Pos("startRefresh") = 7 /\ Pos("startPublish") = 8
  /\ Pos("startRun") = 9 /\ Pos("startNew") = 10 /\ Pos("startHooks") = 11
  /\ Pos("startSave") = 12 /\ Pos("startBuild") = 13 /\ Pos("startLoad") = 14
  /\ Pos("startLock") = 15 /\ Pos("parse") = 15 /\ Pos("stopDone") = 16
  /\ Pos("stopClear") = 17 /\ Pos("stopClose") = 18 /\ Pos("stopCheck") = 19
  /\ Pos("stopLock") = 20
BY DEF Pos

LEMMA PositionRange == ASSUME NEW l \in PcLabel PROVE Pos(l) \in 0 .. 20
BY DEF Pos

\* Only the one that moves has another number of steps left.
LEMMA OthersKeepCount ==
  ASSUME TypeOK, NEW t \in Thread, NEW l, NEW k,
         Goto(t, l), frames' = [frames EXCEPT ![t] = k]
  PROVE  /\ \A u \in Thread \ {t} : StepsLeft(u)' = StepsLeft(u) /\ pc'[u] = pc[u]
         /\ StepsLeft(t)' = 21 * k + Pos(l) /\ pc'[t] = l
<1>1. /\ \A u \in Thread \ {t} : pc'[u] = pc[u] /\ frames'[u] = frames[u]
      /\ pc'[t] = l /\ frames'[t] = k
  BY DEF TypeOK, Goto
<1> QED
  BY <1>1 DEF StepsLeft

\* A step on to a later label of the same call, with the mutex as it was.
LEMMA GoesOn ==
  ASSUME TypeOK, MutexFits, NEW t \in Thread, NEW l \in ActivePc,
         Goto(t, l), UNCHANGED <<lock, frames>>,
         pc[t] \in ActivePc,
         l \in StartPc \cup StopPc => pc[t] \in StartPc \cup StopPc,
         Pos(l) < Pos(pc[t])
  PROVE  MutexFits' /\ CountsDown(t)
<1>1. frames' = [frames EXCEPT ![t] = frames[t]]
  BY DEF TypeOK
<1>2. /\ \A u \in Thread \ {t} : StepsLeft(u)' = StepsLeft(u) /\ pc'[u] = pc[u]
      /\ StepsLeft(t)' = 21 * frames[t] + Pos(l) /\ pc'[t] = l
  BY <1>1, OthersKeepCount
<1>3. MutexFits'
  BY <1>2 DEF MutexFits
<1>4. 21 * frames[t] \in Nat /\ Pos(l) \in Nat /\ Pos(pc[t]) \in Nat
  <2>1. l \in PcLabel
    BY DEF ActivePc, PcLabel
  <2>2. pc[t] \in PcLabel /\ frames[t] \in 0 .. 2
    BY DEF TypeOK
  <2> QED
    BY ONLY <2>1, <2>2, PositionRange
<1>5. StepsLeft(t)' < StepsLeft(t)
  BY <1>2, <1>4 DEF StepsLeft
<1> QED
  BY <1>2, <1>3, <1>5 DEF CountsDown

\* One that returns gives the mutex back and has nothing left to do.
LEMMA ReturnGivesBack ==
  ASSUME TypeOK, MutexFits, NEW t \in Thread, Return(t), pc[t] # "idle"
  PROVE  MutexFits' /\ CountsDown(t)
<1>1. Goto(t, "idle") /\ frames' = [frames EXCEPT ![t] = 0] /\ lock' = Released(t)
  BY DEF Return
<1>2. /\ \A u \in Thread \ {t} : StepsLeft(u)' = StepsLeft(u) /\ pc'[u] = pc[u]
      /\ StepsLeft(t)' = 21 * 0 + Pos("idle") /\ pc'[t] = "idle"
  BY <1>1, OthersKeepCount
<1>3. MutexFits'
  BY <1>1, <1>2, ConstantsOK DEF ConstantsOK, MutexFits, Released, ActivePc, AlertPc, StartPc,
     StopPc
<1>4. 21 * frames[t] \in Nat
  BY DEF TypeOK
<1>5. Pos(pc[t]) \in Nat /\ 0 < Pos(pc[t])
  BY DEF Pos, TypeOK, PcLabel
<1>6. StepsLeft(t)' = 0
  BY <1>2, Positions
<1>7. 0 < StepsLeft(t)
  BY <1>4, <1>5 DEF StepsLeft
<1> QED
  BY <1>2, <1>3, <1>6, <1>7 DEF CountsDown

\* A panic unlocks and uses up a frame, or kills the process.
LEMMA PanicGivesBack ==
  ASSUME TypeOK, MutexFits, NEW t \in Thread, Panic(t), pc[t] # "idle"
  PROVE  MutexFits' /\ CountsDown(t)
<1> DEFINE k == IF frames[t] = 0 THEN 0 ELSE frames[t] - 1
<1>1. /\ Goto(t, "alert") /\ frames' = [frames EXCEPT ![t] = k] /\ lock' = Released(t)
      /\ crashed' = (frames[t] = 0)
  BY DEF Panic, Alert
<1>a. frames[t] \in 0 .. 2
  BY DEF TypeOK
<1>b. frames[t] # 0 => k = frames[t] - 1
  OBVIOUS
<1> HIDE DEF k
<1>2. /\ \A u \in Thread \ {t} : StepsLeft(u)' = StepsLeft(u) /\ pc'[u] = pc[u]
      /\ StepsLeft(t)' = 21 * k + Pos("alert") /\ pc'[t] = "alert"
  BY <1>1, OthersKeepCount
<1>3. MutexFits'
  BY <1>1, <1>2, ConstantsOK DEF ConstantsOK, MutexFits, Released, ActivePc, AlertPc, StartPc,
     StopPc
<1>4. CASE frames[t] = 0
  BY <1>1, <1>2, <1>3, <1>4 DEF CountsDown
<1>5. CASE frames[t] # 0
  <2>1. Pos(pc[t]) \in Nat
    BY PositionRange DEF TypeOK
  <2>2. StepsLeft(t)' = 21 * (frames[t] - 1) + 5
    BY <1>2, <1>b, <1>5, Positions
  <2>3. StepsLeft(t)' < StepsLeft(t)
    BY <1>a, <1>5, <2>1, <2>2 DEF StepsLeft
  <2> QED
    BY <1>2, <1>3, <2>3 DEF CountsDown
<1> QED
  BY <1>4, <1>5

\* The mutex is taken by whoever waits for it when it is free.
LEMMA TakesIt ==
  ASSUME TypeOK, MutexFits, NEW t \in Thread, NEW l \in ActivePc,
         Goto(t, l), lock = NoThread, lock' = t, UNCHANGED frames,
         Pos(l) < Pos(pc[t])
  PROVE  MutexFits' /\ CountsDown(t)
<1>1. frames' = [frames EXCEPT ![t] = frames[t]]
  BY DEF TypeOK
<1>2. /\ \A u \in Thread \ {t} : StepsLeft(u)' = StepsLeft(u) /\ pc'[u] = pc[u]
      /\ StepsLeft(t)' = 21 * frames[t] + Pos(l) /\ pc'[t] = l
  BY <1>1, OthersKeepCount
<1>3. MutexFits'
  BY <1>2, ConstantsOK DEF ConstantsOK, MutexFits
<1>4. 21 * frames[t] \in Nat /\ Pos(l) \in Nat /\ Pos(pc[t]) \in Nat
  <2>1. l \in PcLabel
    BY DEF ActivePc, PcLabel
  <2>2. pc[t] \in PcLabel /\ frames[t] \in 0 .. 2
    BY DEF TypeOK
  <2> QED
    BY ONLY <2>1, <2>2, PositionRange
<1>5. StepsLeft(t)' < StepsLeft(t)
  BY <1>2, <1>4 DEF StepsLeft
<1> QED
  BY <1>2, <1>3, <1>5 DEF CountsDown

\* A Stop that succeeds returns, or lets go of the mutex and waits for it again.
LEMMA StopSucceedsGivesBack ==
  ASSUME TypeOK, MutexFits, NEW t \in Thread, StopSucceeds(t), pc[t] \in StopPc
  PROVE  MutexFits' /\ CountsDown(t)
<1>1. CASE op[t] = "restart"
  <2>1. Goto(t, "startLock") /\ lock' = Released(t) /\ frames' = [frames EXCEPT ![t] = frames[t]]
    BY <1>1 DEF StopSucceeds, TypeOK
  <2>2. /\ \A u \in Thread \ {t} : StepsLeft(u)' = StepsLeft(u) /\ pc'[u] = pc[u]
        /\ StepsLeft(t)' = 21 * frames[t] + Pos("startLock") /\ pc'[t] = "startLock"
    BY <2>1, OthersKeepCount
  <2>3. MutexFits'
    BY <2>1, <2>2, ConstantsOK DEF ConstantsOK, MutexFits, Released, ActivePc, AlertPc, StartPc,
       StopPc
  <2>4. 21 * frames[t] \in Nat /\ Pos(pc[t]) \in 16 .. 19
    BY Positions DEF TypeOK, StopPc
  <2>5. StepsLeft(t)' < StepsLeft(t)
    BY <2>2, <2>4, Positions DEF StepsLeft
  <2> QED
    BY <2>2, <2>3, <2>5 DEF CountsDown
<1>2. CASE op[t] # "restart"
  <2>1. Return(t) /\ pc[t] # "idle"
    BY <1>2 DEF StopSucceeds, StopPc
  <2> QED
    BY <2>1, ReturnGivesBack
<1> QED
  BY <1>1, <1>2

\* Every step of a call keeps the mutex with whoever is in a body, and counts down.
LEMMA StepCounts ==
  ASSUME TypeOK, MutexFits, NEW u \in Thread, Step(u)
  PROVE  MutexFits' /\ CountsDown(u)
<1>2. ASSUME NEW t \in Thread, ParseReturns(t)  PROVE MutexFits' /\ CountsDown(t)
  BY <1>2, ReturnGivesBack DEF ParseReturns, At
<1>3. ASSUME NEW t \in Thread, ParsePanics(t)  PROVE MutexFits' /\ CountsDown(t)
  BY <1>3, PanicGivesBack DEF ParsePanics, At
<1>4. ASSUME NEW t \in Thread, AlertStatus(t)  PROVE MutexFits' /\ CountsDown(t)
  <2>1. Goto(t, "alertCheck") /\ UNCHANGED <<lock, frames>> /\ pc[t] = "alert"
    BY <1>4 DEF AlertStatus, At, Continue
  <2> QED
    BY <2>1, GoesOn, Positions DEF ActivePc, AlertPc, StartPc, StopPc
<1>5. ASSUME NEW t \in Thread, AlertCheck(t)  PROVE MutexFits' /\ CountsDown(t)
  <2>1. /\ Goto(t, "alertEnd") \/ Goto(t, "alertClose")
        /\ UNCHANGED <<lock, frames>> /\ pc[t] = "alertCheck"
    BY <1>5 DEF AlertCheck, At, Continue
  <2>2. CASE Goto(t, "alertEnd")
    BY <2>1, <2>2, GoesOn, Positions DEF ActivePc, AlertPc, StartPc, StopPc
  <2>3. CASE Goto(t, "alertClose")
    BY <2>1, <2>3, GoesOn, Positions DEF ActivePc, AlertPc, StartPc, StopPc
  <2> QED
    BY <2>1, <2>2, <2>3
<1>6. ASSUME NEW t \in Thread, AlertClose(t)  PROVE MutexFits' /\ CountsDown(t)
  <2>1. Goto(t, "alertClear") /\ UNCHANGED <<lock, frames>> /\ pc[t] = "alertClose"
    BY <1>6 DEF AlertClose, At, Continue
  <2> QED
    BY <2>1, GoesOn, Positions DEF ActivePc, AlertPc, StartPc, StopPc
<1>7. ASSUME NEW t \in Thread, AlertClosePanics(t)  PROVE MutexFits' /\ CountsDown(t)
  BY <1>7, PanicGivesBack DEF AlertClosePanics, At
<1>8. ASSUME NEW t \in Thread, AlertClear(t)  PROVE MutexFits' /\ CountsDown(t)
  <2>1. Goto(t, "alertEnd") /\ UNCHANGED <<lock, frames>> /\ pc[t] = "alertClear"
    BY <1>8 DEF AlertClear, At, Continue
  <2> QED
    BY <2>1, GoesOn, Positions DEF ActivePc, AlertPc, StartPc, StopPc
<1>9. ASSUME NEW t \in Thread, AlertEnd(t)  PROVE MutexFits' /\ CountsDown(t)
  BY <1>9, ReturnGivesBack DEF AlertEnd, At
<1>10. ASSUME NEW t \in Thread, StartRefused(t)  PROVE MutexFits' /\ CountsDown(t)
  <2>1. Goto(t, "alert") /\ lock = NoThread /\ lock' = t /\ UNCHANGED frames /\ pc[t] = "startLock"
    BY <1>10 DEF StartRefused, At, Alert
  <2> QED
    BY <2>1, TakesIt, Positions DEF ActivePc, AlertPc, StartPc, StopPc
<1>11. ASSUME NEW t \in Thread, StartAccepted(t)  PROVE MutexFits' /\ CountsDown(t)
  <2>1. Goto(t, "startLoad") /\ lock = NoThread /\ lock' = t /\ UNCHANGED frames /\ pc[t] = "startLock"
    BY <1>11 DEF StartAccepted, At, Alert
  <2> QED
    BY <2>1, TakesIt, Positions DEF ActivePc, AlertPc, StartPc, StopPc
<1>12. ASSUME NEW t \in Thread, LoadLastStartRequest(t)  PROVE MutexFits' /\ CountsDown(t)
  <2>1. Goto(t, "startBuild") /\ UNCHANGED <<lock, frames>> /\ pc[t] = "startLoad"
    BY <1>12 DEF LoadLastStartRequest, At, Continue
  <2> QED
    BY <2>1, GoesOn, Positions DEF ActivePc, AlertPc, StartPc, StopPc
<1>13. ASSUME NEW t \in Thread, LoadFails(t)  PROVE MutexFits' /\ CountsDown(t)
  <2>1. Goto(t, "alert") /\ UNCHANGED <<lock, frames>> /\ pc[t] = "startLoad"
    BY <1>13 DEF LoadFails, At, Continue, Alert
  <2> QED
    BY <2>1, GoesOn, Positions DEF ActivePc, AlertPc, StartPc, StopPc
<1>14. ASSUME NEW t \in Thread, BuildConfig(t)  PROVE MutexFits' /\ CountsDown(t)
  <2>1. Goto(t, "startSave") /\ UNCHANGED <<lock, frames>> /\ pc[t] = "startBuild"
    BY <1>14 DEF BuildConfig, At, Continue
  <2> QED
    BY <2>1, GoesOn, Positions DEF ActivePc, AlertPc, StartPc, StopPc
<1>15. ASSUME NEW t \in Thread, SaveLastStartRequest(t)  PROVE MutexFits' /\ CountsDown(t)
  <2>1. Goto(t, "startHooks") /\ UNCHANGED <<lock, frames>> /\ pc[t] = "startSave"
    BY <1>15 DEF SaveLastStartRequest, At, Continue
  <2> QED
    BY <2>1, GoesOn, Positions DEF ActivePc, AlertPc, StartPc, StopPc
<1>16. ASSUME NEW t \in Thread, PreStartHooks(t)  PROVE MutexFits' /\ CountsDown(t)
  <2>1. Goto(t, "startNew") /\ UNCHANGED <<lock, frames>> /\ pc[t] = "startHooks"
    BY <1>16 DEF PreStartHooks, At, Continue
  <2> QED
    BY <2>1, GoesOn, Positions DEF ActivePc, AlertPc, StartPc, StopPc
<1>17. ASSUME NEW t \in Thread, NewService(t)  PROVE MutexFits' /\ CountsDown(t)
  <2>1. Goto(t, "startRun") /\ UNCHANGED <<lock, frames>> /\ pc[t] = "startNew"
    BY <1>17 DEF NewService, At, Continue
  <2> QED
    BY <2>1, GoesOn, Positions DEF ActivePc, AlertPc, StartPc, StopPc
<1>18. ASSUME NEW t \in Thread, RunService(t)  PROVE MutexFits' /\ CountsDown(t)
  <2>1. Goto(t, "startPublish") /\ UNCHANGED <<lock, frames>> /\ pc[t] = "startRun"
    BY <1>18 DEF RunService, At, Continue
  <2> QED
    BY <2>1, GoesOn, Positions DEF ActivePc, AlertPc, StartPc, StopPc
<1>19. ASSUME NEW t \in Thread, RunFails(t)  PROVE MutexFits' /\ CountsDown(t)
  <2>1. Goto(t, "alert") /\ UNCHANGED <<lock, frames>> /\ pc[t] = "startRun"
    BY <1>19 DEF RunFails, At, Continue, Alert
  <2> QED
    BY <2>1, GoesOn, Positions DEF ActivePc, AlertPc, StartPc, StopPc
<1>20. ASSUME NEW t \in Thread, StartFails(t)  PROVE MutexFits' /\ CountsDown(t)
  <2>1. Goto(t, "alert") /\ UNCHANGED <<lock, frames>> /\ pc[t] \in {"startBuild", "startHooks", "startNew"}
    BY <1>20 DEF StartFails, At, Continue, Alert
  <2> QED
    BY <2>1, GoesOn, Positions DEF ActivePc, AlertPc, StartPc, StopPc
<1>21. ASSUME NEW t \in Thread, StartPanics(t)  PROVE MutexFits' /\ CountsDown(t)
  BY <1>21, PanicGivesBack DEF StartPanics, At
<1>22. ASSUME NEW t \in Thread, PublishBox(t)  PROVE MutexFits' /\ CountsDown(t)
  <2>1. Goto(t, "startRefresh") /\ UNCHANGED <<lock, frames>> /\ pc[t] = "startPublish"
    BY <1>22 DEF PublishBox, At, Continue
  <2> QED
    BY <2>1, GoesOn, Positions DEF ActivePc, AlertPc, StartPc, StopPc
<1>23. ASSUME NEW t \in Thread, RefreshAfterStart(t)  PROVE MutexFits' /\ CountsDown(t)
  <2>1. Goto(t, "startDone") /\ UNCHANGED <<lock, frames>> /\ pc[t] = "startRefresh"
    BY <1>23 DEF RefreshAfterStart, At, Continue
  <2> QED
    BY <2>1, GoesOn, Positions DEF ActivePc, AlertPc, StartPc, StopPc
<1>24. ASSUME NEW t \in Thread, StartDone(t)  PROVE MutexFits' /\ CountsDown(t)
  BY <1>24, ReturnGivesBack DEF StartDone, At
<1>25. ASSUME NEW t \in Thread, StopLock(t)  PROVE MutexFits' /\ CountsDown(t)
  <2>1. Goto(t, "stopCheck") /\ lock = NoThread /\ lock' = t /\ UNCHANGED frames /\ pc[t] = "stopLock"
    BY <1>25 DEF StopLock, At, Alert
  <2> QED
    BY <2>1, TakesIt, Positions DEF ActivePc, AlertPc, StartPc, StopPc
<1>26. ASSUME NEW t \in Thread, StopCheck(t)  PROVE MutexFits' /\ CountsDown(t)
  <2>1. Goto(t, "stopClose") /\ UNCHANGED <<lock, frames>> /\ pc[t] = "stopCheck"
    BY <1>26 DEF StopCheck, At, Continue
  <2> QED
    BY <2>1, GoesOn, Positions DEF ActivePc, AlertPc, StartPc, StopPc
<1>27. ASSUME NEW t \in Thread, StopFindsNothing(t)  PROVE MutexFits' /\ CountsDown(t)
  <2>1. StopSucceeds(t) /\ pc[t] \in StopPc
    BY <1>27 DEF StopFindsNothing, At, StopPc
  <2> QED
    BY <2>1, StopSucceedsGivesBack
<1>28. ASSUME NEW t \in Thread, StopClose(t)  PROVE MutexFits' /\ CountsDown(t)
  <2>1. Goto(t, "stopClear") /\ UNCHANGED <<lock, frames>> /\ pc[t] = "stopClose"
    BY <1>28 DEF StopClose, At, Continue
  <2> QED
    BY <2>1, GoesOn, Positions DEF ActivePc, AlertPc, StartPc, StopPc
<1>29. ASSUME NEW t \in Thread, StopClosePanics(t)  PROVE MutexFits' /\ CountsDown(t)
  BY <1>29, PanicGivesBack DEF StopClosePanics, At
<1>30. ASSUME NEW t \in Thread, StopClear(t)  PROVE MutexFits' /\ CountsDown(t)
  <2>1. /\ Goto(t, "stopDone") \/ Goto(t, "alert")
        /\ UNCHANGED <<lock, frames>> /\ pc[t] = "stopClear"
    BY <1>30 DEF StopClear, At, Continue
  <2>2. CASE Goto(t, "stopDone")
    BY <2>1, <2>2, GoesOn, Positions DEF ActivePc, AlertPc, StartPc, StopPc
  <2>3. CASE Goto(t, "alert")
    BY <2>1, <2>3, GoesOn, Positions DEF ActivePc, AlertPc, StartPc, StopPc
  <2> QED
    BY <2>1, <2>2, <2>3
<1>31. ASSUME NEW t \in Thread, StopDone(t)  PROVE MutexFits' /\ CountsDown(t)
  <2>1. StopSucceeds(t) /\ pc[t] \in StopPc
    BY <1>31 DEF StopDone, At, StopPc
  <2> QED
    BY <2>1, StopSucceedsGivesBack
<1>32. ASSUME NEW t \in Thread, AlertStep(t)  PROVE MutexFits' /\ CountsDown(t)
  BY ONLY <1>32, <1>4, <1>5, <1>6, <1>7, <1>8, <1>9 DEF AlertStep
<1>33. ASSUME NEW t \in Thread, StartStep(t)  PROVE MutexFits' /\ CountsDown(t)
  BY ONLY <1>33, <1>10, <1>11, <1>12, <1>13, <1>14, <1>15, <1>16, <1>17,
    <1>18, <1>19, <1>20, <1>21, <1>22, <1>23, <1>24 DEF StartStep
<1>34. ASSUME NEW t \in Thread, StopStep(t)  PROVE MutexFits' /\ CountsDown(t)
  BY ONLY <1>34, <1>25, <1>26, <1>27, <1>28, <1>29, <1>30, <1>31 DEF StopStep
<1> QED
  BY <1>2, <1>3, <1>32, <1>33, <1>34 DEF Step

\* A call that arrives does not hold the mutex, and holds up nobody else's count.
LEMMA CallCounts ==
  ASSUME TypeOK, MutexFits, NEW t \in Thread, NEW o \in Ops, NEW r, Call(t, o, r)
  PROVE  /\ MutexFits'
         /\ \A u \in Thread \ {t} : StepsLeft(u)' = StepsLeft(u)
<1>1. PICK l \in {"startLock", "parse", "stopLock"} : Goto(t, l)
  BY DEF Call
<1>2. PICK k : frames' = [frames EXCEPT ![t] = k]
  BY DEF Call
<1>3. /\ \A u \in Thread \ {t} : StepsLeft(u)' = StepsLeft(u) /\ pc'[u] = pc[u]
      /\ pc'[t] = l
  BY <1>1, <1>2, OthersKeepCount
<1>4. lock' = lock /\ pc[t] = "idle"
  BY DEF Call, At
<1> QED
  BY <1>3, <1>4 DEF MutexFits, ActivePc, AlertPc, StartPc, StopPc

\* At first nobody holds the mutex.
LEMMA MutexInit == Init => MutexFits
<1> SUFFICES ASSUME Init, NEW t \in Thread
             PROVE  pc[t] = "idle" /\ lock # t
  BY DEF MutexFits, StartPc, StopPc
<1> QED
  BY ConstantsOK DEF ConstantsOK, Init

LEMMA MutexStep ==
  ASSUME TypeOK, MutexFits, [Next]_vars
  PROVE  MutexFits'
<1>1. CASE UNCHANGED vars
  BY <1>1 DEF vars, MutexFits
<1>2. ASSUME NEW t \in Thread, NEW o \in Ops, NEW r \in Request \cup {NoRequest}, Call(t, o, r)
      PROVE  MutexFits'
  BY <1>2, CallCounts
<1>3. ASSUME NEW t \in Thread, Step(t)  PROVE MutexFits'
  BY <1>3, StepCounts
<1> QED
  BY <1>1, <1>2, <1>3 DEF Next

(* Whatever panics and however many goroutines call: nobody is inside a body of
   StartService or Stop without static.lock, so they exclude one another, and whoever
   holds it is in a body or in the handler that runs before the deferred unlock.  No
   return, error or recovered panic leaves the mutex held behind, and nobody who waits
   for it, as Restart does between its two halves, holds it already. *)
THEOREM MutexIsNeverLeaked == Spec => []MutexFits
<1>1. Init => TypeOK /\ BuiltRequest /\ MutexFits
  BY TypeInit, MutexInit
<1>2. TypeOK /\ BuiltRequest /\ MutexFits /\ [Next]_vars => (TypeOK /\ BuiltRequest /\ MutexFits)'
  BY TypeStep, MutexStep
<1> QED
  BY <1>1, <1>2, PTL DEF Spec

\* A step of a goroutine that serves a call brings it nearer to its return, and no
\* other one further away from it.
EndsInSight ==
  [][\E t \in Thread :
       /\ \A u \in Thread \ {t} : StepsLeft(u)' = StepsLeft(u)
       /\ pc[t] = "idle" \/ crashed' \/ StepsLeft(t)' < StepsLeft(t)]_vars

(* Whatever panics and however many goroutines call: no path of a call goes in a
   circle, through alerts, nested panics and the two halves of Restart.  A call makes
   at most 62 steps; that it returns is then a matter of getting to make them, and of
   nobody keeping static.lock, which is MutexIsNeverLeaked. *)
THEOREM CallsEnd == Spec => EndsInSight /\ [](\A t \in Thread : StepsLeft(t) \in 0 .. 62)
<1>1. Init => TypeOK /\ BuiltRequest /\ MutexFits
  BY TypeInit, MutexInit
<1>2. TypeOK /\ BuiltRequest /\ MutexFits /\ [Next]_vars => (TypeOK /\ BuiltRequest /\ MutexFits)'
  BY TypeStep, MutexStep
<1>3. TypeOK /\ MutexFits /\ [Next]_vars
        => [\E t \in Thread :
              /\ \A u \in Thread \ {t} : StepsLeft(u)' = StepsLeft(u)
              /\ pc[t] = "idle" \/ crashed' \/ StepsLeft(t)' < StepsLeft(t)]_vars
  <2> SUFFICES ASSUME TypeOK, MutexFits, Next
               PROVE  \E t \in Thread :
                        /\ \A u \in Thread \ {t} : StepsLeft(u)' = StepsLeft(u)
                        /\ pc[t] = "idle" \/ crashed' \/ StepsLeft(t)' < StepsLeft(t)
    OBVIOUS
  <2>1. PICK t \in Thread :
          \/ \E o \in Ops, r \in Request \cup {NoRequest} : Call(t, o, r)
          \/ Step(t)
    BY DEF Next
  <2>2. CASE \E o \in Ops, r \in Request \cup {NoRequest} : Call(t, o, r)
    <3>1. pc[t] = "idle"
      BY <2>2 DEF Call, At
    <3>2. \A u \in Thread \ {t} : StepsLeft(u)' = StepsLeft(u)
      BY <2>2, CallCounts
    <3> QED
      BY <3>1, <3>2
  <2>3. CASE Step(t)
    BY <2>3, StepCounts DEF CountsDown
  <2> QED
    BY <2>1, <2>2, <2>3
<1>4. TypeOK => \A t \in Thread : StepsLeft(t) \in 0 .. 62
  <2> SUFFICES ASSUME TypeOK, NEW t \in Thread  PROVE StepsLeft(t) \in 0 .. 62
    OBVIOUS
  <2>1. frames[t] \in 0 .. 2 /\ Pos(pc[t]) \in 0 .. 20
    BY PositionRange DEF TypeOK
  <2> QED
    BY <2>1 DEF StepsLeft
<1> QED
  BY <1>1, <1>2, <1>3, <1>4, PTL DEF Spec, EndsInSight

------------------------------------------------------------------------------
(* Any external call may panic, and no handler meets another goroutine.    *)

\* No goroutine is inside a body or a handler while another one's handler of a panic
\* works without the mutex.
Undisturbed ==
  \A t, u \in Thread : pc[t] \in AlertPc /\ lock # t /\ pc[u] \in ActivePc => u = t

\* With nobody in a body or a handler, status and box agree; the box is alive unless
\* somebody is at closing it.
Between ==
  /\ (\A t \in Thread : pc[t] \notin ActivePc) =>
       CoreState = (IF Box = NoBox THEN "STOPPED" ELSE "STARTED")
  /\ (Box # NoBox /\ \A t \in Thread : pc[t] \notin AlertPc \cup {"stopClear"}) =>
       life[Box] = "running"

CalmInv ==
  /\ TypeOK
  /\ BuiltRequest
  /\ MutexFits
  /\ OpMatchesPc
  /\ BoxMatchesPc
  /\ RunningIsHeld
  /\ ConfigFlows
  /\ Between

\* Everybody but t is outside, and stays where he is.
Alone(t) ==
  \A u \in Thread \ {t} : pc[u] \notin ActivePc /\ inst[u] = NoBox /\ pc'[u] = pc[u]

\* A step moves one goroutine, from or to a body or a handler unless it returns.
LEMMA StepMovesOne ==
  ASSUME TypeOK, NEW t \in Thread, Step(t)
  PROVE  /\ \A u \in Thread \ {t} : pc'[u] = pc[u]
         /\ ParseReturns(t) \/ pc[t] \in ActivePc \/ pc'[t] \in ActivePc
<1> USE DEF TypeOK, ActivePc, AlertPc, StartPc, StopPc, At, Goto
<1>1. CASE ParseReturns(t)
  BY <1>1 DEF ParseReturns, Return
<1>2. CASE ParsePanics(t)
  BY <1>2 DEF ParsePanics, Panic, Alert
<1>3. CASE AlertStep(t)
  <2>1. CASE AlertStatus(t) \/ AlertCheck(t) \/ AlertClose(t) \/ AlertClear(t)
    BY <2>1 DEF AlertStatus, AlertCheck, AlertClose, AlertClear
  <2>2. CASE AlertClosePanics(t)
    BY <2>2 DEF AlertClosePanics, Panic, Alert
  <2>3. CASE AlertEnd(t)
    BY <2>3 DEF AlertEnd, Return
  <2> QED
    BY ONLY <1>3, <2>1, <2>2, <2>3 DEF AlertStep
<1>4. CASE StartStep(t)
  <2>1. CASE StartRefused(t) \/ LoadFails(t) \/ RunFails(t) \/ StartFails(t)
    BY <2>1 DEF StartRefused, LoadFails, RunFails, StartFails, Alert
  <2>2. CASE StartAccepted(t) \/ LoadLastStartRequest(t) \/ BuildConfig(t) \/ SaveLastStartRequest(t)
    BY <2>2 DEF StartAccepted, LoadLastStartRequest, BuildConfig, SaveLastStartRequest
  <2>3. CASE PreStartHooks(t) \/ NewService(t) \/ RunService(t)
    BY <2>3 DEF PreStartHooks, NewService, RunService
  <2>4. CASE PublishBox(t) \/ RefreshAfterStart(t)
    BY <2>4 DEF PublishBox, RefreshAfterStart
  <2>5. CASE StartPanics(t)
    BY <2>5 DEF StartPanics, Panic, Alert
  <2>6. CASE StartDone(t)
    BY <2>6 DEF StartDone, Return
  <2> QED
    BY ONLY <1>4, <2>1, <2>2, <2>3, <2>4, <2>5, <2>6 DEF StartStep
<1>5. CASE StopStep(t)
  <2>1. CASE StopLock(t) \/ StopCheck(t) \/ StopClose(t) \/ StopClear(t)
    BY <2>1 DEF StopLock, StopCheck, StopClose, StopClear
  <2>2. CASE StopFindsNothing(t) \/ StopDone(t)
    BY <2>2 DEF StopFindsNothing, StopDone, StopSucceeds, Return
  <2>3. CASE StopClosePanics(t)
    BY <2>3 DEF StopClosePanics, Panic, Alert
  <2> QED
    BY ONLY <1>5, <2>1, <2>2, <2>3 DEF StopStep
<1> QED
  BY ONLY Step(t), <1>1, <1>2, <1>3, <1>4, <1>5 DEF Step

\* Two can only be inside if one of them is a handler without the mutex.
LEMMA OneInside ==
  ASSUME MutexFits, Undisturbed, NEW t \in Thread, NEW u \in Thread,
         pc[t] \in ActivePc, pc[u] \in ActivePc
  PROVE  t = u
BY DEF MutexFits, Undisturbed, ActivePc

LEMMA StepIsAlone ==
  ASSUME CalmInv, MutexFits', Undisturbed, Undisturbed', NEW t \in Thread, Step(t), ~ParseReturns(t)
  PROVE  Alone(t)
<1>1. \A u \in Thread \ {t} : pc'[u] = pc[u]
  BY StepMovesOne DEF CalmInv
<1>2. pc[t] \in ActivePc \/ pc'[t] \in ActivePc
  BY StepMovesOne DEF CalmInv
<1>3. ASSUME NEW u \in Thread \ {t}  PROVE pc[u] \notin ActivePc
  <2>1. pc[t] \in ActivePc => pc[u] \notin ActivePc
    BY OneInside DEF CalmInv
  <2>2. pc'[t] \in ActivePc => pc'[u] \notin ActivePc
    BY DEF MutexFits, Undisturbed, ActivePc
  <2> QED
    BY <1>1, <1>2, <2>1, <2>2
<1>4. ASSUME NEW u \in Thread \ {t}  PROVE inst[u] = NoBox
  BY <1>3, <1>4 DEF CalmInv, BoxMatchesPc, ActivePc, StartPc
<1> QED
  BY <1>1, <1>3, <1>4 DEF Alone

\* A step of a goroutine that is alone keeps the invariant, whatever panics.
LEMMA AloneStep ==
  ASSUME CalmInv, NEW t \in Thread, Step(t), ~ParseReturns(t), Alone(t)
  PROVE  OpMatchesPc' /\ BoxMatchesPc' /\ RunningIsHeld' /\ ConfigFlows' /\ Between'
<1> DEFINE Part == OpMatchesPc /\ BoxMatchesPc /\ RunningIsHeld /\ ConfigFlows /\ Between
<1> SUFFICES Part'
  OBVIOUS
<1> USE ConstantsOK DEF TypeOK, BuiltRequest, CalmInv, OpMatchesPc, BoxMatchesPc, RunningIsHeld,
      ConfigFlows, Between, Alone, ActivePc,
      AlertPc, StartPc, StopPc, Failure, record, boxes, locals, At, Goto, Continue
<1>3. CASE ParsePanics(t)
  BY <1>3 DEF ParsePanics, Panic, Alert, Released
<1>4. CASE AlertStatus(t)
  BY <1>4 DEF AlertStatus
<1>5. CASE AlertCheck(t)
  BY <1>5 DEF AlertCheck
<1>6. CASE AlertClose(t)
  BY <1>6 DEF AlertClose, AfterClose
<1>7. CASE AlertClosePanics(t)
  BY <1>7 DEF AlertClosePanics, Panic, Alert, Released
<1>8. CASE AlertClear(t)
  BY <1>8 DEF AlertClear
<1>9. CASE AlertEnd(t)
  BY <1>9 DEF AlertEnd, Return, Released, HandlerAlertsOnly
<1>10. CASE StartRefused(t)
  BY <1>10 DEF StartRefused, Alert
<1>11. CASE StartAccepted(t)
  BY <1>11 DEF StartAccepted
<1>12. CASE LoadLastStartRequest(t)
  BY <1>12 DEF LoadLastStartRequest
<1>13. CASE LoadFails(t)
  BY <1>13 DEF LoadFails, Alert
<1>14. CASE BuildConfig(t)
  BY <1>14 DEF BuildConfig
<1>15. CASE SaveLastStartRequest(t)
  <2>1. ~torn' => saved' = req[t]
    BY <1>15 DEF SaveLastStartRequest
  <2> QED
    BY <1>15, <2>1 DEF SaveLastStartRequest
<1>16. CASE PreStartHooks(t)
  BY <1>16 DEF PreStartHooks
<1>17. CASE NewService(t)
  BY <1>17 DEF NewService
<1>18. CASE RunService(t)
  BY <1>18 DEF RunService
<1>19. CASE RunFails(t)
  BY <1>19 DEF RunFails, Alert
<1>20. CASE StartFails(t)
  BY <1>20 DEF StartFails, Alert
<1>21. CASE StartPanics(t)
  BY <1>21 DEF StartPanics, Panic, Alert, Released
<1>22. CASE PublishBox(t)
  BY <1>22 DEF PublishBox
<1>23. CASE RefreshAfterStart(t)
  BY <1>23 DEF RefreshAfterStart
<1>24. CASE StartDone(t)
  BY <1>24 DEF StartDone, Return, Released
<1>25. CASE StopLock(t)
  BY <1>25 DEF StopLock
<1>26. CASE StopCheck(t)
  BY <1>26 DEF StopCheck
<1>27. CASE StopFindsNothing(t)
  <2>1. CASE op[t] = "restart"
    BY <1>27, <2>1 DEF StopFindsNothing, StopSucceeds, Released
  <2>2. CASE op[t] # "restart"
    <3>1. Return(t) /\ CoreState' = "STOPPED" /\ UNCHANGED <<Box, record, boxes>>
      BY <1>27, <2>2 DEF StopFindsNothing, StopSucceeds
    <3> QED
      BY <1>27, <3>1 DEF StopFindsNothing, Return, Released
  <2> QED
    BY <2>1, <2>2
<1>28. CASE StopClose(t)
  BY <1>28 DEF StopClose, AfterClose
<1>29. CASE StopClosePanics(t)
  BY <1>29 DEF StopClosePanics, Panic, Alert, Released
<1>30. CASE StopClear(t)
  BY <1>30 DEF StopClear
<1>31. CASE StopDone(t)
  <2>1. CASE op[t] = "restart"
    BY <1>31, <2>1 DEF StopDone, StopSucceeds, Released
  <2>2. CASE op[t] # "restart"
    <3>1. Return(t) /\ CoreState' = "STOPPED" /\ UNCHANGED <<Box, record, boxes>>
      BY <1>31, <2>2 DEF StopDone, StopSucceeds
    <3> QED
      BY <1>31, <3>1 DEF StopDone, Return, Released
  <2> QED
    BY <2>1, <2>2
<1>32. CASE AlertStep(t)
  BY ONLY <1>32, <1>4, <1>5, <1>6, <1>7, <1>8, <1>9 DEF AlertStep
<1>33. CASE StartStep(t)
  BY ONLY <1>33, <1>10, <1>11, <1>12, <1>13, <1>14, <1>15, <1>16, <1>17,
    <1>18, <1>19, <1>20, <1>21, <1>22, <1>23, <1>24 DEF StartStep
<1>34. CASE StopStep(t)
  BY ONLY <1>34, <1>25, <1>26, <1>27, <1>28, <1>29, <1>30, <1>31 DEF StopStep
<1> QED
  BY ONLY Step(t), ~ParseReturns(t), <1>3, <1>32, <1>33, <1>34 DEF Step

\* It tells the truth when it returns.
LEMMA AloneTruth ==
  ASSUME CalmInv, NEW t \in Thread, Step(t), ~ParseReturns(t), Alone(t)
  PROVE  ReturnTellsTruth(t)
<1> USE ConstantsOK DEF ReturnTellsTruth, CalmInv, TypeOK, OpMatchesPc, BoxMatchesPc, ConfigFlows,
      Between, Alone, ActivePc,
      AlertPc, StartPc, StopPc, Failure, record, boxes, locals, At, Goto, Continue
<1>3. CASE ParsePanics(t)
  BY <1>3 DEF ParsePanics, Panic, Alert
<1>4. CASE AlertStatus(t)
  BY <1>4 DEF AlertStatus
<1>5. CASE AlertCheck(t)
  BY <1>5 DEF AlertCheck
<1>6. CASE AlertClose(t)
  BY <1>6 DEF AlertClose
<1>7. CASE AlertClosePanics(t)
  BY <1>7 DEF AlertClosePanics, Panic, Alert
<1>8. CASE AlertClear(t)
  BY <1>8 DEF AlertClear
<1>9. CASE AlertEnd(t)
  BY <1>9 DEF AlertEnd, Return, HandlerAlertsOnly
<1>10. CASE StartRefused(t)
  BY <1>10 DEF StartRefused, Alert
<1>11. CASE StartAccepted(t)
  BY <1>11 DEF StartAccepted
<1>12. CASE LoadLastStartRequest(t)
  BY <1>12 DEF LoadLastStartRequest
<1>13. CASE LoadFails(t)
  BY <1>13 DEF LoadFails, Alert
<1>14. CASE BuildConfig(t)
  BY <1>14 DEF BuildConfig
<1>15. CASE SaveLastStartRequest(t)
  BY <1>15 DEF SaveLastStartRequest
<1>16. CASE PreStartHooks(t)
  BY <1>16 DEF PreStartHooks
<1>17. CASE NewService(t)
  BY <1>17 DEF NewService
<1>18. CASE RunService(t)
  BY <1>18 DEF RunService
<1>19. CASE RunFails(t)
  BY <1>19 DEF RunFails, Alert
<1>20. CASE StartFails(t)
  BY <1>20 DEF StartFails, Alert
<1>21. CASE StartPanics(t)
  BY <1>21 DEF StartPanics, Panic, Alert
<1>22. CASE PublishBox(t)
  BY <1>22 DEF PublishBox
<1>23. CASE RefreshAfterStart(t)
  BY <1>23 DEF RefreshAfterStart
<1>24. CASE StartDone(t)
  BY <1>24 DEF StartDone, Return
<1>25. CASE StopLock(t)
  BY <1>25 DEF StopLock
<1>26. CASE StopCheck(t)
  BY <1>26 DEF StopCheck
<1>27. CASE StopFindsNothing(t)
  BY <1>27 DEF StopFindsNothing, StopSucceeds, Return
<1>28. CASE StopClose(t)
  BY <1>28 DEF StopClose
<1>29. CASE StopClosePanics(t)
  BY <1>29 DEF StopClosePanics, Panic, Alert
<1>30. CASE StopClear(t)
  BY <1>30 DEF StopClear
<1>31. CASE StopDone(t)
  BY <1>31 DEF StopDone, StopSucceeds, Return
<1>32. CASE AlertStep(t)
  BY ONLY <1>32, <1>4, <1>5, <1>6, <1>7, <1>8, <1>9 DEF AlertStep
<1>33. CASE StartStep(t)
  BY ONLY <1>33, <1>10, <1>11, <1>12, <1>13, <1>14, <1>15, <1>16, <1>17,
    <1>18, <1>19, <1>20, <1>21, <1>22, <1>23, <1>24 DEF StartStep
<1>34. CASE StopStep(t)
  BY ONLY <1>34, <1>25, <1>26, <1>27, <1>28, <1>29, <1>30, <1>31 DEF StopStep
<1> QED
  BY ONLY Step(t), ~ParseReturns(t), <1>3, <1>32, <1>33, <1>34 DEF Step

\* An undisturbed step keeps the invariant, and if it returns it tells the truth.
LEMMA CalmStep ==
  ASSUME CalmInv, Undisturbed, Undisturbed', [Next]_vars
  PROVE  CalmInv' /\ \A u \in Thread : ReturnTellsTruth(u)
<1>0. TypeOK' /\ BuiltRequest' /\ MutexFits'
  BY TypeStep, MutexStep DEF CalmInv
<1> DEFINE Part == OpMatchesPc /\ BoxMatchesPc /\ RunningIsHeld /\ ConfigFlows /\ Between
<1> SUFFICES Part' /\ \A u \in Thread : ReturnTellsTruth(u)
  BY <1>0 DEF CalmInv
<1>1. CASE UNCHANGED vars
  <2>1. Part'
    BY <1>1 DEF vars, CalmInv, OpMatchesPc, BoxMatchesPc, RunningIsHeld, ConfigFlows, Between
  <2> QED
    BY <1>1, <2>1 DEF vars, ReturnTellsTruth
<1>2. ASSUME NEW t \in Thread, NEW o \in Ops, NEW r \in Request \cup {NoRequest}, Call(t, o, r)
      PROVE  Part' /\ \A u \in Thread : ReturnTellsTruth(u)
  <2>1. PICK l \in {"startLock", "parse", "stopLock"} :
          /\ pc' = [pc EXCEPT ![t] = l]
          /\ l = "startLock" => o \in {"start", "restart"}
          /\ l = "stopLock" => o \in {"stop", "restart", "close"}
          /\ l = "parse" => o = "parse"
    BY <1>2 DEF Call, Goto, Ops
  <2>2. /\ pc[t] = "idle" /\ op' = [op EXCEPT ![t] = o] /\ req' = [req EXCEPT ![t] = r]
        /\ UNCHANGED <<CoreState, Box, lock, saved, torn, life, runs, inst, msg>>
    BY <1>2 DEF Call, At, record, boxes
  <2> HIDE DEF Part
  <2>3. OpMatchesPc'
    BY <2>1, <2>2 DEF CalmInv, TypeOK, OpMatchesPc, AlertPc, StartPc, StopPc
  <2>4. BoxMatchesPc'
    BY <2>1, <2>2 DEF CalmInv, TypeOK, BoxMatchesPc
  <2>5. RunningIsHeld'
    BY <2>1, <2>2 DEF CalmInv, TypeOK, RunningIsHeld
  <2>6. ConfigFlows'
    BY <2>1, <2>2 DEF CalmInv, TypeOK, ConfigFlows
  <2>7. Between'
    BY <2>1, <2>2 DEF CalmInv, TypeOK, Between, ActivePc, AlertPc, StartPc, StopPc
  <2>8. ASSUME NEW u \in Thread  PROVE ReturnTellsTruth(u)
    BY <2>1, <2>2 DEF CalmInv, TypeOK, ReturnTellsTruth
  <2> QED
    BY <2>3, <2>4, <2>5, <2>6, <2>7, <2>8 DEF Part
<1>3. ASSUME NEW t \in Thread, ParseReturns(t)
      PROVE  Part' /\ \A u \in Thread : ReturnTellsTruth(u)
  <2>1. /\ pc[t] = "parse" /\ pc' = [pc EXCEPT ![t] = "idle"]
        /\ op' = [op EXCEPT ![t] = "none"] /\ req' = [req EXCEPT ![t] = NoRequest]
        /\ inst' = [inst EXCEPT ![t] = NoBox] /\ msg' = [msg EXCEPT ![t] = "EMPTY"]
        /\ UNCHANGED <<CoreState, Box, saved, torn, life, runs>>
    BY <1>3 DEF ParseReturns, Return, At, Goto, record, boxes
  <2> HIDE DEF Part
  <2>3. OpMatchesPc'
    BY <2>1 DEF CalmInv, TypeOK, OpMatchesPc, AlertPc, StartPc, StopPc
  <2>4. BoxMatchesPc'
    BY <2>1 DEF CalmInv, TypeOK, BoxMatchesPc
  <2>5. RunningIsHeld'
    BY <2>1 DEF CalmInv, TypeOK, RunningIsHeld
  <2>6. ConfigFlows'
    BY <2>1 DEF CalmInv, TypeOK, ConfigFlows
  <2>7. Between'
    BY <2>1 DEF CalmInv, TypeOK, Between, ActivePc, AlertPc, StartPc, StopPc
  <2>8. ASSUME NEW u \in Thread  PROVE ReturnTellsTruth(u)
    <3>1. op[t] = "parse"
      BY <2>1 DEF CalmInv, OpMatchesPc
    <3> QED
      BY <2>1, <3>1 DEF CalmInv, TypeOK, ReturnTellsTruth
  <2> QED
    BY <2>3, <2>4, <2>5, <2>6, <2>7, <2>8 DEF Part
<1>4. ASSUME NEW t \in Thread, Step(t), ~ParseReturns(t)
      PROVE  Part' /\ \A u \in Thread : ReturnTellsTruth(u)
  <2>1. Alone(t)
    BY <1>0, <1>4, StepIsAlone
  <2>2. Part'
    BY <1>4, <2>1, AloneStep
  <2>3. ReturnTellsTruth(t)
    BY <1>4, <2>1, AloneTruth
  <2>4. \A u \in Thread \ {t} : ReturnTellsTruth(u)
    BY <2>1 DEF Alone, ReturnTellsTruth
  <2> QED
    BY <2>2, <2>3, <2>4
<1> HIDE DEF Part
<1> QED
  BY <1>1, <1>2, <1>3, <1>4 DEF Next

LEMMA CalmInit == Init => CalmInv
<1> SUFFICES ASSUME Init PROVE CalmInv
  OBVIOUS
<1>1. TypeOK /\ BuiltRequest /\ MutexFits
  BY TypeInit, MutexInit
<1> QED
  BY <1>1, ConstantsOK DEF ConstantsOK, Init, CalmInv, OpMatchesPc, BoxMatchesPc, RunningIsHeld,
     ConfigFlows, Between, AlertPc, StartPc, StopPc

(* Whatever panics and however many goroutines call: as long as no handler of a panic
   works without the mutex beside another goroutine's body or handler, the labels say
   what the core is like, and a recovered panic is put right by its alert. *)
THEOREM UndisturbedInductive == Spec /\ []Undisturbed => []CalmInv
<1>1. CalmInv /\ Undisturbed /\ Undisturbed' /\ [Next]_vars => CalmInv'
  BY CalmStep
<1> QED
  BY <1>1, CalmInit, PTL DEF Spec

(* Then status and box agree between the calls, and the saved request is the running
   one's: with panics and several goroutines it takes the unlocked recovery to part
   them.  What an instance that panicked in Start() leaves running is not in static.Box
   and not in question here. *)
THEOREM UndisturbedIsSafe ==
  Spec /\ []Undisturbed => [](StatusMatchesBox /\ RunningIsRemembered)
<1>1. CalmInv => StatusMatchesBox
  <2> SUFFICES ASSUME CalmInv, Settled
               PROVE  /\ CoreState = (IF Box = NoBox THEN "STOPPED" ELSE "STARTED")
                      /\ Box # NoBox => life[Box] = "running"
    BY DEF StatusMatchesBox
  <2>1. \A t \in Thread : pc[t] \notin ActivePc
    BY ConstantsOK DEF ConstantsOK, CalmInv, MutexFits, Settled, ActivePc
  <2> QED
    BY <2>1 DEF CalmInv, Between, ActivePc, StopPc
<1>2. CalmInv => RunningIsRemembered
  BY DEF CalmInv, ConfigFlows, RunningIsRemembered
<1> QED
  BY <1>1, <1>2, UndisturbedInductive, PTL

(* Then, too, at most one instance runs, as a whole or in parts, and it can be reached,
   as long as sing-box's own Start() and Close() do not panic; the parser, the hooks,
   NewService and the handlers of panics may. *)
THEOREM UndisturbedIsOne ==
  ASSUME {"run", "close"} \cap PanicSite = {}
  PROVE  Spec /\ []Undisturbed => []OneRunningBox
<1>1. ASSUME CalmInv, Undisturbed, NoHalves  PROVE OneRunningBox
  <2> SUFFICES ASSUME NEW b \in Boxes, life[b] = "running"
               PROVE  /\ b = Box \/ \E t \in Thread : inst[t] = b
                      /\ \A c \in Boxes : life[c] = "running" => c = b
    BY <1>1 DEF OneRunningBox, Alive, NoHalves
  <2>1. b = Box \/ \E t \in Thread : pc[t] = "startPublish" /\ inst[t] = b
    BY <1>1 DEF CalmInv, RunningIsHeld
  <2>2. ASSUME NEW c \in Boxes, life[c] = "running"  PROVE c = b
    <3>1. c = Box \/ \E t \in Thread : pc[t] = "startPublish" /\ inst[t] = c
      BY <1>1, <2>2 DEF CalmInv, RunningIsHeld
    <3>2. \A t \in Thread : pc[t] = "startPublish" => Box = NoBox /\ pc[t] \in ActivePc
      BY <1>1 DEF CalmInv, BoxMatchesPc, ActivePc, StartPc
    <3>3. Box # b \/ Box # NoBox
      BY ConstantsOK DEF ConstantsOK
    <3>4. \A t, u \in Thread : pc[t] = "startPublish" /\ pc[u] = "startPublish" => t = u
      BY <1>1, <3>2, OneInside DEF CalmInv
    <3> QED
      BY <2>1, <3>1, <3>2, <3>4, ConstantsOK DEF ConstantsOK
  <2> QED
    BY <2>1, <2>2
<1>2. Init => NoHalves
  BY DEF Init, NoHalves
<1>3. TypeOK /\ NoHalves /\ [Next]_vars => NoHalves'
  BY NoHalvesStep
<1>4. Spec => []NoHalves
  BY <1>2, <1>3, TypeCorrect, PTL DEF Spec
<1> QED
  BY <1>1, <1>4, UndisturbedInductive, PTL

(* Then every reply is the truth, too: a successful start has its own configuration
   running, every other answer comes with the core stopped, recovered panics included. *)
THEOREM UndisturbedIsTold == Spec /\ []Undisturbed => ReplyIsTruthful
<1>1. CalmInv /\ Undisturbed /\ Undisturbed' /\ [Next]_vars
        => [\A t \in Thread : ReturnTellsTruth(t)]_vars
  BY CalmStep
<1> QED
  BY <1>1, UndisturbedInductive, PTL DEF Spec, ReplyIsTruthful

\* A single caller has nobody to disturb.
LEMMA OneIsUndisturbed == ASSUME NEW self, Thread = {self} PROVE Spec => []Undisturbed
<1>1. Undisturbed
  BY DEF Undisturbed
<1> QED
  BY <1>1, PTL

(* A caller that makes one call after the other never finds status and box apart or the
   wrong request saved, whichever external calls panic. *)
THEOREM OneCallerIsSafe ==
  ASSUME NEW self, Thread = {self}
  PROVE  Spec => [](StatusMatchesBox /\ RunningIsRemembered)
BY OneIsUndisturbed, UndisturbedIsSafe, PTL

(* Such a caller also gets truthful answers, with panics: an answer other than a
   successful start means that the core is stopped, even after a recovered panic. *)
THEOREM OneCallerIsTold == ASSUME NEW self, Thread = {self} PROVE Spec => ReplyIsTruthful
BY OneIsUndisturbed, UndisturbedIsTold, PTL

(* Without panics nobody is disturbed: alerts are error returns, and hold the mutex. *)
THEOREM NoPanicNoDisturbance == ASSUME PanicSite = {} PROVE Spec => []Undisturbed
<1>1. IInv => Undisturbed
  BY DEF IInv, LockIsHeld, Undisturbed
<1> QED
  BY <1>1, Inductive, PTL
================================================================================
