------------------------ MODULE StandaloneUpdaterProofs ------------------------
(***************************************************************************)
(* RunsCurrent and NothingLeftRunning hold for every set of configurations. *)
(* The inductive invariant says, for each label of a goroutine, which call *)
(* of the core it has in progress and what that call has done to the       *)
(* service.                                                                *)
(***************************************************************************)
EXTENDS StandaloneUpdater, TLAPS

IsDone(c) == c.phase = "done"

\* What a start of c has come to.
Tried(c) == service = c \/ (service = Down /\ failed = c)

\* The call each goroutine has in progress, and what it asks for.
Calls ==
  /\ pc.main \in {"read", "start", "wait", "exited"} => call["main"] = Core!None
  /\ pc.main = "starting" => call["main"] = Core!Asks("start") \/ IsDone(call["main"])
  /\ pc.main = "stopping" => call["main"] = Core!Asks("stop") \/ IsDone(call["main"])
  /\ pc.updater \in {"none", "sleep", "start"} => call["updater"] = Core!None
  /\ pc.updater = "stopping" => call["updater"] = Core!Asks("stop") \/ IsDone(call["updater"])
  /\ pc.updater = "starting" => call["updater"] = Core!Asks("start") \/ IsDone(call["updater"])
  /\ pc.updater \in Restarting => want["updater"] \in Config

\* Before the updater exists.
Alone ==
  /\ pc.main \in {"read", "start", "starting"} => pc.updater = "none"
  /\ pc.main \in {"read", "start"} => service = Down
  /\ pc.main = "starting" => want["main"] = current
  /\ pc.main = "starting" /\ call["main"] = Core!Asks("start") => service = Down
  /\ pc.main = "starting" /\ IsDone(call["main"]) => Tried(current)

\* While main waits for the signal.
Together ==
  pc.main = "wait" =>
    /\ pc.updater \in {"none", "sleep"} => Tried(current)
    /\ pc.updater = "stopping" /\ IsDone(call["updater"]) => service = Down
    /\ pc.updater = "start" => service = Down
    /\ pc.updater = "starting" /\ call["updater"] = Core!Asks("start") => service = Down
    /\ pc.updater = "starting" /\ IsDone(call["updater"]) => Tried(want["updater"])

\* After the signal.
Ending ==
  pc.main \in {"stopping", "exited"} /\ ~raced =>
    /\ pc.updater \in {"none", "sleep"}
    /\ pc.main = "stopping" /\ IsDone(call["main"]) => service = Down
    /\ pc.main = "exited" => service = Down

IInv == TypeOK /\ Calls /\ Alone /\ Together /\ Ending
------------------------------------------------------------------------------
\* Before main has started the service nothing else is there.
LEMMA InvInit == Init => IInv
<1> SUFFICES ASSUME Init PROVE IInv
  OBVIOUS
<1> USE DEF Init, Core!Init, Goroutine
<1>1. Core!TypeOK
  BY DEF Core!TypeOK
<1>2. TypeOK
  BY <1>1 DEF TypeOK, Labels
<1>3. Calls /\ Alone /\ Together /\ Ending
  BY DEF Calls, Alone, Together, Ending, Restarting
<1> QED
  BY <1>2, <1>3 DEF IInv

\* A call that takes effect leaves Calls as it was.
LEMMA CallDone ==
  ASSUME Calls, NEW g \in Goroutine, NEW f \in BOOLEAN,
         pc[g] \in {"starting", "stopping"},
         call'[g] = Core!Done(f), \A h \in Goroutine \ {g} : call'[h] = call[h],
         UNCHANGED <<pc, want>>
  PROVE  Calls'
<1>1. IsDone(call'[g])
  BY DEF IsDone, Core!Done
<1>2. CASE g = "main"
  <2>1. call'["updater"] = call["updater"]
    BY <1>2 DEF Goroutine
  <2> QED
    BY <1>1, <1>2, <2>1 DEF Calls
<1>3. CASE g = "updater"
  <2>1. call'["main"] = call["main"]
    BY <1>3 DEF Goroutine
  <2> QED
    BY <1>1, <1>3, <2>1 DEF Calls
<1> QED
  BY <1>2, <1>3 DEF Goroutine

\* Each step of main, of the updater and of the service keeps the invariant.
LEMMA InvStep ==
  ASSUME IInv, [Next]_vars
  PROVE  IInv'
<1> USE UpdaterConstantsOK DEF IInv, TypeOK, Core!TypeOK, Calls, Alone, Together, Ending, Tried,
      Labels, Goroutine, Restarting, IsDone, At, Goto, core,
      Core!None, Core!Asks, Core!Done, Core!Ops, Core!Move
<1>1. CASE Edit
  BY <1>1 DEF Edit
<1>2. CASE MainReads
  BY <1>2 DEF MainReads
<1>3. CASE MainStarts
  BY <1>3 DEF MainStarts, Core!Invoke
<1>4. CASE MainStarted
  BY <1>4 DEF MainStarted, Core!Return
<1>5. CASE MainStops
  <2>1. Core!TypeOK'
    BY <1>5 DEF MainStops, Core!Invoke
  <2>2. TypeOK'
    BY <1>5, <2>1 DEF MainStops, Core!Invoke
  <2>3. Calls'
    BY <1>5 DEF MainStops, Core!Invoke
  <2>4. Alone'
    BY <1>5 DEF MainStops, Core!Invoke
  <2>5. Together'
    BY <1>5 DEF MainStops, Core!Invoke
  <2>6. Ending'
    BY <1>5 DEF MainStops, Core!Invoke
  <2> QED
    BY <2>2, <2>3, <2>4, <2>5, <2>6
<1>6. CASE MainExits
  BY <1>6 DEF MainExits, Core!Return
<1>7. CASE FindsNew
  BY <1>7 DEF FindsNew, Core!Invoke
<1>8. CASE UpdaterStopped
  BY <1>8 DEF UpdaterStopped, Core!Return
<1>9. CASE UpdaterStarts
  BY <1>9 DEF UpdaterStarts, Core!Invoke
<1>10. CASE UpdaterStarted
  <2>1. Core!TypeOK'
    BY <1>10 DEF UpdaterStarted, Core!Return
  <2>2. TypeOK'
    BY <1>10, <2>1 DEF UpdaterStarted, Core!Return
  <2>3. Calls'
    BY <1>10 DEF UpdaterStarted, Core!Return
  <2>4. Alone'
    BY <1>10 DEF UpdaterStarted, Core!Return
  <2>5. Together'
    BY <1>10 DEF UpdaterStarted, Core!Return
  <2>6. Ending'
    BY <1>10 DEF UpdaterStarted, Core!Return
  <2> QED
    BY <2>2, <2>3, <2>4, <2>5, <2>6
<1>11. ASSUME NEW g \in Goroutine, StartSucceeds(g)
      PROVE  IInv'
  <2>1. Core!TypeOK'
    BY <1>11 DEF StartSucceeds, Core!StartSucceeds
  <2>2. TypeOK'
    BY <1>11, <2>1 DEF StartSucceeds, Core!StartSucceeds
  <2>3. Calls'
    <3>1. call[g] = Core!Asks("start") /\ call'[g] = Core!Done(FALSE) /\ UNCHANGED <<pc, want>>
      BY <1>11 DEF StartSucceeds, Core!StartSucceeds
    <3>2. \A h \in Goroutine \ {g} : call'[h] = call[h]
      BY <1>11 DEF StartSucceeds, Core!StartSucceeds
    <3>3. pc[g] = "starting"
      BY <3>1
    <3> QED
      BY <3>1, <3>2, <3>3, CallDone
  <2>4. Alone'
    BY <1>11 DEF StartSucceeds, Core!StartSucceeds
  <2>5. Together'
    BY <1>11 DEF StartSucceeds, Core!StartSucceeds
  <2>6. Ending'
    BY <1>11 DEF StartSucceeds, Core!StartSucceeds
  <2> QED
    BY <2>2, <2>3, <2>4, <2>5, <2>6
<1>12. ASSUME NEW g \in Goroutine, StartFails(g)
      PROVE  IInv'
  <2>1. Core!TypeOK'
    BY <1>12 DEF StartFails, Core!StartFails
  <2>2. TypeOK'
    BY <1>12, <2>1 DEF StartFails, Core!StartFails
  <2>3. Calls'
    <3>1. call[g] = Core!Asks("start") /\ call'[g] = Core!Done(TRUE) /\ UNCHANGED <<pc, want>>
      BY <1>12 DEF StartFails, Core!StartFails
    <3>2. \A h \in Goroutine \ {g} : call'[h] = call[h]
      BY <1>12 DEF StartFails, Core!StartFails
    <3>3. pc[g] = "starting"
      BY <3>1
    <3> QED
      BY <3>1, <3>2, <3>3, CallDone
  <2>4. Alone'
    BY <1>12 DEF StartFails, Core!StartFails
  <2>5. Together'
    BY <1>12 DEF StartFails, Core!StartFails
  <2>6. Ending'
    BY <1>12 DEF StartFails, Core!StartFails
  <2> QED
    BY <2>2, <2>3, <2>4, <2>5, <2>6
<1>13. ASSUME NEW g \in Goroutine, StopTakesEffect(g)
      PROVE  IInv'
  <2>0. PICK f \in BOOLEAN : Core!Move(g, Core!Asks("stop"), Core!Done(f))
    BY <1>13 DEF StopTakesEffect, Core!StopTakesEffect
  <2>1. Core!TypeOK'
    BY <1>13, <2>0 DEF StopTakesEffect, Core!StopTakesEffect
  <2>2. TypeOK'
    BY <1>13, <2>1 DEF StopTakesEffect, Core!StopTakesEffect
  <2>3. Calls'
    <3>1. call[g] = Core!Asks("stop") /\ call'[g] = Core!Done(f) /\ UNCHANGED <<pc, want>>
      BY <1>13, <2>0 DEF StopTakesEffect, Core!StopTakesEffect
    <3>2. \A h \in Goroutine \ {g} : call'[h] = call[h]
      BY <2>0
    <3>3. pc[g] = "stopping"
      BY <3>1
    <3> QED
      BY <3>1, <3>2, <3>3, CallDone
  <2>4. Alone'
    BY <1>13 DEF StopTakesEffect, Core!StopTakesEffect
  <2>5. Together'
    BY <1>13 DEF StopTakesEffect, Core!StopTakesEffect
  <2>6. Ending'
    BY <1>13 DEF StopTakesEffect, Core!StopTakesEffect
  <2> QED
    BY <2>2, <2>3, <2>4, <2>5, <2>6
<1>14. CASE UNCHANGED vars
  BY <1>14 DEF vars
<1> QED
  BY <1>1, <1>2, <1>3, <1>4, <1>5, <1>6, <1>7, <1>8, <1>9, <1>10, <1>11, <1>12, <1>13, <1>14
  DEF Next, Main, Updater, Effects

\* The invariant holds of every reachable state.
LEMMA Inductive == Spec => []IInv
BY InvInit, InvStep, PTL DEF Spec

------------------------------------------------------------------------------
(* Type correctness of the runner and of the core it calls. *)
THEOREM TypeCorrect == Spec => []TypeOK
<1>1. IInv => TypeOK
  BY DEF IInv
<1> QED
  BY <1>1, Inductive, PTL

(* Whatever the profile becomes and whichever starts fail, between two      *)
(* updates the core runs the updater's `current`, or nothing after exactly  *)
(* that configuration failed.                                               *)
THEOREM CurrentRuns == Spec => []RunsCurrent
<1>1. IInv => RunsCurrent
  BY DEF IInv, Together, RunsCurrent, Tried
<1> QED
  BY <1>1, Inductive, PTL

(* The signal leaves nothing running unless it fell into a restart. *)
THEOREM EndsClean == Spec => []NothingLeftRunning
<1>1. IInv => NothingLeftRunning
  BY DEF IInv, TypeOK, Ending, NothingLeftRunning
<1> QED
  BY <1>1, Inductive, PTL
==============================================================================
