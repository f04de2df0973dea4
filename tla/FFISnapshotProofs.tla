--------------------------- MODULE FFISnapshotProofs ---------------------------
(***************************************************************************)
(* Theorems about FFISnapshot for every set of callers and workers, every  *)
(* set of calls and every bound on the versions, with and without alerts.  *)
(***************************************************************************)
EXTENDS FFISnapshot, TLAPS

Refreshing  == {"fetch", "setAll", "setMain"}
AfterChange == {"status", "statusRead", "mark", "refresh"} \cup Refreshing

\* A box that an alert took away: the caches may show it for good.
Lost == ~core.up /\ core.gen \in lost

------------------------------------------------------------------------------
(* The inductive invariant.                                                *)

\* A box is published with the version of the moment, and only a core that has
\* one makes further changes.
CoreBound ==
  /\ core.up => core.v <= MaxVersion /\ core.gen >= 1
  /\ core.gen <= core.v

\* The call an actor serves tells where it can be.
OpFits ==
  /\ \A a \in Actor \ Caller : op[a] = "none"
  /\ \A a \in Caller :
       /\ pc[a] = "idle" <=> op[a] = "none"
       /\ pc[a] \in Ops => op[a] = pc[a]
       /\ pc[a] \notin {"off", "sleep"}
       /\ pc[a] = "selectApply" => op[a] = "select"
       /\ pc[a] = "test" => op[a] = "urltest"
       /\ pc[a] \in {"mark", "status", "statusRead"} =>
            op[a] \in {"start", "stop", "select", "urltest"}
       /\ pc[a] \in {"refresh"} \cup Refreshing =>
            op[a] \in {"start", "stop", "select", "urltest", "read"}
       /\ pc[a] = "serve" => op[a] = "read"
  /\ \A a \in Worker :
       pc[a] \in {"idle", "test", "refresh", "status", "statusRead"} \cup Refreshing
  /\ pc[updater] \in {"off", "sleep", "refresh"} \cup Refreshing
  /\ pc[ticker] \in {"off", "sleep", "status", "statusRead"}

\* Where an actor is tells which mutexes it holds, and a start that it has a box.
Mutexes ==
  \A a \in Actor :
    /\ pc[a] \in Refreshing => refreshLock = a
    /\ pc[a] = "statusRead" => statusLock = a
    /\ op[a] \in {"start", "stop"} /\ pc[a] \in AfterChange => staticLock = a
    /\ op[a] = "start" /\ pc[a] \in AfterChange => core.up \/ core.gen \in lost

\* The caches follow the core and one another.
Versions ==
  /\ status.v <= core.v /\ all.v <= core.v /\ main.v <= all.v
  /\ (\A a \in Actor : pc[a] # "setMain") => main = all
  /\ \A a \in Actor :
       /\ got[a].v <= core.v /\ stamp[a] <= core.v
       /\ pc[a] = "setAll" => all.v <= got[a].v
       /\ pc[a] = "setMain" => all = got[a]

\* What has been shown by the time a call is over.
Shown ==
  /\ finished <= status.v /\ finished <= main.v
  /\ \A a \in Caller :
       /\ pc[a] \in {"start", "stop", "select", "selectApply", "urltest"} => stamp[a] = 0
       /\ op[a] \in {"read", "poll"} => stamp[a] <= finished
       /\ pc[a] \in {"setAll", "setMain"} => stamp[a] <= got[a].v
       /\ op[a] \in {"start", "stop"} /\ pc[a] \in {"mark", "refresh"} \cup Refreshing =>
            stamp[a] <= status.v
       /\ op[a] \in {"select", "urltest"} /\ pc[a] \in {"status", "statusRead"} =>
            stamp[a] <= main.v

\* Whoever made the caches stale has still to refresh them.
OwesAll(a) ==
  \/ pc[a] \in {"mark", "test", "refresh", "fetch"}
  \/ pc[a] \in {"status", "statusRead"} /\ op[a] \in {"start", "stop"}
  \/ pc[a] \in {"setAll", "setMain"} /\ got[a] = core

OwesStatus(a) ==
  \/ pc[a] \in {"status", "statusRead", "test"}
  \/ pc[a] \in {"mark", "refresh"} \cup Refreshing /\ op[a] \notin {"start", "stop", "read"}

Stale ==
  \/ all # core \/ main # core
  \/ \E a \in Actor : pc[a] \in {"setAll", "setMain"} /\ got[a] # core

Owed ==
  \/ Lost
  \/ /\ Stale => \E a \in Caller \cup Worker : OwesAll(a)
     /\ status # core => \E a \in Caller \cup Worker : OwesStatus(a)

\* A stop has still to look at the status.
StopLooks == \E b \in Caller : pc[b] = "status" /\ op[b] = "stop"

\* A status of a box that is gone, lost ones apart, does not outlive the stop.
Rates ==
  /\ status.up => status.gen = core.gen \/ status.gen \in lost
  /\ ~core.up /\ status.up => status.gen \in lost \/ StopLooks
  /\ \A a \in Actor : pc[a] = "statusRead" /\ ~core.up => Lost \/ StopLooks

\* The inductive invariant.
SnapInv ==
  /\ TypeOK
  /\ CoreBound
  /\ OpFits
  /\ Mutexes
  /\ Versions
  /\ Shown
  /\ Owed
  /\ Rates

------------------------------------------------------------------------------
(* Types.                                                                  *)

\* The part of TypeOK about the actors.
ControlOK ==
  /\ pc \in [Actor -> Ops \cup {"off", "idle", "sleep", "selectApply", "mark", "test",
                 "refresh", "fetch", "setAll", "setMain", "status", "statusRead", "serve"}]
  /\ op \in [Actor -> Ops \cup {"none"}]
  /\ box \in [Actor -> 0 .. MaxVersion]
  /\ got \in [Actor -> Views]
  /\ stamp \in [Actor -> 0 .. MaxVersion + 1]
  /\ finished \in 0 .. MaxVersion + 1

\* An actor that leaves resets its variables within their types.
LEMMA LeaveKeepsControl ==
  ASSUME ControlOK, NEW a \in Actor, Leave(a)
  PROVE  /\ ControlOK!1' /\ ControlOK!2' /\ ControlOK!3' /\ ControlOK!4' /\ ControlOK!5'
<1>1. Nothing \in Views
  BY SnapshotConstantsOK DEF Views, Nothing
<1> QED
  BY <1>1, SnapshotConstantsOK DEF ControlOK, Leave, Goto

\* So does one that finishes, and `finished` grows to its stamp at most.
LEMMA FinishKeepsControl ==
  ASSUME ControlOK, NEW a \in Actor, Finish(a)
  PROVE  ControlOK'
<1>1. Leave(a) /\ finished' \in 0 .. MaxVersion + 1
  BY DEF ControlOK, Finish
<1> QED
  BY <1>1, LeaveKeepsControl DEF ControlOK

\* A change, or none, is to the version the core shows; only its actor is stamped.
LEMMA ChangeFacts ==
  ASSUME TypeOK, NEW a \in Actor, Change(a) \/ UNCHANGED <<core, stamp>>
  PROVE  /\ core' \in Views /\ stamp' \in [Actor -> 0 .. MaxVersion + 1]
         /\ core'.up = core.up /\ core'.gen = core.gen /\ core.v <= core'.v
<1>1. CASE Change(a)
  <2>1. core' = [up |-> core.up, v |-> core.v + 1, gen |-> core.gen]
        /\ core.v + 1 \in 0 .. MaxVersion + 1
    BY <1>1, SnapshotConstantsOK DEF TypeOK, Views, Change
  <2>2. stamp' = [stamp EXCEPT ![a] = core.v + 1]
    BY <1>1 DEF Change
  <2> QED
    BY <2>1, <2>2 DEF TypeOK, Views
<1>2. CASE UNCHANGED <<core, stamp>>
  BY <1>2 DEF TypeOK, Views
<1> QED
  BY <1>1, <1>2

\* An actor that goes on or finishes leaves the others' locals alone.
LEMMA OthersStay ==
  ASSUME TypeOK, NEW a \in Actor, NEW l, Finish(a) \/ (Goto(a, l) /\ UNCHANGED <<locals, finished>>)
  PROVE  /\ \A b \in Actor : b # a =>
              pc'[b] = pc[b] /\ op'[b] = op[b] /\ got'[b] = got[b] /\ stamp'[b] = stamp[b]
         /\ pc'[a] \in {l, "sleep", "idle"}
         /\ \/ got'[a] = Nothing /\ stamp'[a] = 0
            \/ got'[a] = got[a] /\ stamp'[a] = stamp[a]
BY DEF TypeOK, Finish, Leave, Goto, locals

\* The recover() of StartService releases the mutexes, to nobody.
LEMMA NilBoxKeepsType ==
  ASSUME TypeOK, NEW a \in Actor, NilBox(a)
  PROVE  TypeOK'
<1>1. CASE op[a] = "start"
  <2>1. Leave(a) /\ UNCHANGED finished /\ crashed' = crashed
    BY <1>1 DEF NilBox
  <2>2. ControlOK'
    BY <2>1, LeaveKeepsControl DEF TypeOK, ControlOK
  <2>3. {staticLock', statusLock', refreshLock'} \subseteq Actor \cup {Nobody}
    BY <1>1 DEF TypeOK, NilBox, Release
  <2> QED
    BY <2>1, <2>2, <2>3 DEF TypeOK, ControlOK, NilBox
<1>2. CASE op[a] # "start"
  BY <1>2 DEF TypeOK, NilBox, locals
<1> QED
  BY <1>1, <1>2

------------------------------------------------------------------------------
(* Steps.                                                                  *)

\* A start publishes its box holding static.lock, and owes the refreshes.
LEMMA StartPublishesKeeps ==
  ASSUME SnapInv, NEW a \in Actor, StartPublishes(a)
  PROVE  SnapInv'
<1>1. TypeOK'
  BY SnapshotConstantsOK DEF SnapInv, TypeOK, Views, Goto, caches, StartPublishes
<1>2. CoreBound'
  BY SnapshotConstantsOK DEF SnapInv, TypeOK, Views, CoreBound, StartPublishes
<1>3. OpFits'
  BY SnapshotConstantsOK DEF SnapInv, TypeOK, OpFits, Refreshing, At, Goto, StartPublishes
<1>4. Mutexes'
  BY SnapshotConstantsOK DEF SnapInv, Mutexes, Refreshing, Goto, caches, StartPublishes
<1>5. Versions'
  BY DEF SnapInv, TypeOK, Views, Versions, At, Goto, caches, StartPublishes
<1>6. Shown'
  BY DEF SnapInv, TypeOK, OpFits, Shown, Refreshing, At, Goto, caches, StartPublishes
<1>7. Owed'
  BY DEF SnapInv, TypeOK, OpFits, Owed, OwesAll, OwesStatus, Refreshing, Actor, At, Goto,
      StartPublishes
<1>8. Rates'
  BY SnapshotConstantsOK DEF SnapInv, Mutexes, Rates, StopLooks, AfterChange, Actor, caches,
      StartPublishes
<1> QED
  BY <1>1, <1>2, <1>3, <1>4, <1>5, <1>6, <1>7, <1>8 DEF SnapInv

\* A stop takes the box away holding static.lock, and has to look at the status.
LEMMA StopClearsKeeps ==
  ASSUME SnapInv, NEW a \in Actor, StopClears(a)
  PROVE  SnapInv'
<1>1. TypeOK'
  <2>1. core' = [up |-> FALSE, v |-> core.v + 1, gen |-> core.gen]
    BY DEF SnapInv, TypeOK, Views, StopClears
  <2>2. core.v + 1 \in 0 .. MaxVersion + 1 /\ core.gen \in 0 .. MaxVersion
    BY SnapshotConstantsOK DEF SnapInv, TypeOK, Views, CoreBound, StopClears
  <2>9. core' \in Views
    BY <2>1, <2>2 DEF Views
  <2>3. stamp' \in [Actor -> 0 .. MaxVersion + 1] /\ staticLock' \in Actor \cup {Nobody}
    BY <2>2 DEF SnapInv, TypeOK, StopClears
  <2> QED
    BY <2>2, <2>3, <2>9 DEF SnapInv, TypeOK, StopClears, At, Goto, caches
<1>2. CoreBound'
  BY DEF SnapInv, TypeOK, Views, CoreBound, StopClears
<1>3. OpFits'
  BY SnapshotConstantsOK DEF SnapInv, TypeOK, OpFits, Refreshing, At, Goto, StopClears
<1>4. Mutexes'
  BY SnapshotConstantsOK DEF SnapInv, TypeOK, OpFits, Mutexes, Refreshing, At, Goto, caches,
      StopClears
<1>5. Versions'
  BY DEF SnapInv, TypeOK, Views, Versions, At, Goto, caches, StopClears
<1>6. Shown'
  BY DEF SnapInv, TypeOK, OpFits, Shown, Refreshing, At, Goto, caches, StopClears
<1>7. Owed'
  BY DEF SnapInv, TypeOK, OpFits, Owed, OwesAll, OwesStatus, Refreshing, Actor, At, Goto,
      StopClears
<1>8. Rates'
  BY DEF SnapInv, TypeOK, OpFits, Rates, StopLooks, Refreshing, Actor, At, Goto, caches,
      StopClears
<1> QED
  BY <1>1, <1>2, <1>3, <1>4, <1>5, <1>6, <1>7, <1>8 DEF SnapInv

\* A start that failed and a stop without a box changed nothing.
LEMMA LifecycleEndsKeeps ==
  ASSUME SnapInv, NEW a \in Actor, LifecycleEnds(a)
  PROVE  SnapInv'
<1>1. TypeOK'
  BY SnapshotConstantsOK DEF SnapInv, TypeOK, Views, Nothing, Goto, sources, caches,
      LifecycleEnds, Finish, Leave
<1>2. CoreBound'
  BY DEF SnapInv, CoreBound, sources, LifecycleEnds
<1>3. OpFits'
  BY SnapshotConstantsOK DEF SnapInv, TypeOK, OpFits, Refreshing, Goto, LifecycleEnds, Finish,
      Leave
<1>4. Mutexes'
  BY DEF SnapInv, Mutexes, Refreshing, AfterChange, Goto, sources, caches, LifecycleEnds,
      Finish, Leave
<1>5. Versions'
  BY DEF SnapInv, TypeOK, Views, Nothing, Versions, At, Goto, sources, caches, LifecycleEnds,
      Finish, Leave
<1>6. Shown'
  BY DEF SnapInv, TypeOK, Shown, At, Goto, caches, LifecycleEnds, Finish, Leave
<1>7. Owed'
  BY DEF SnapInv, Owed, Stale, Lost, OwesAll, OwesStatus, Refreshing, At, Goto, sources, caches,
      LifecycleEnds, Finish, Leave
<1>8. Rates'
  BY DEF SnapInv, Rates, Lost, StopLooks, At, Goto, sources, caches, LifecycleEnds, Finish,
      Leave
<1> QED
  BY <1>1, <1>2, <1>3, <1>4, <1>5, <1>6, <1>7, <1>8 DEF SnapInv

\* A refresh takes its mutex; without a box it has nothing to fetch.
LEMMA RefreshLockedKeeps ==
  ASSUME SnapInv, NEW a \in Actor, RefreshLocked(a)
  PROVE  SnapInv'
<1>1. TypeOK'
  BY DEF SnapInv, TypeOK, Goto, sources, RefreshLocked
<1>2. CoreBound'
  BY DEF SnapInv, CoreBound, sources, RefreshLocked
<1>3. OpFits'
  BY SnapshotConstantsOK DEF SnapInv, TypeOK, OpFits, Refreshing, Actor, At, Goto,
      RefreshLocked, WantsRefresh
<1>4. Mutexes'
  BY SnapshotConstantsOK DEF SnapInv, TypeOK, OpFits, Mutexes, AfterChange, At, Goto, sources,
      RefreshLocked, WantsRefresh
<1>5. Versions'
  BY DEF SnapInv, TypeOK, Views, Versions, At, Goto, sources, RefreshLocked, WantsRefresh
<1>6. Shown'
  BY DEF SnapInv, TypeOK, OpFits, Versions, Shown, Actor, At, Goto, RefreshLocked, WantsRefresh
<1>7. Owed'
  BY DEF SnapInv, TypeOK, Owed, Stale, Lost, OwesAll, OwesStatus, Refreshing, Actor, At, Goto,
      sources, RefreshLocked, WantsRefresh
<1>8. Rates'
  BY DEF SnapInv, TypeOK, Rates, Lost, StopLooks, Actor, At, Goto, sources, RefreshLocked,
      WantsRefresh
<1> QED
  BY <1>1, <1>2, <1>3, <1>4, <1>5, <1>6, <1>7, <1>8 DEF SnapInv

\* refreshFFIStatus: the core is down and shown so, or its status is to be read.
LEMMA StatusCheckKeeps ==
  ASSUME SnapInv, NEW a \in Actor, StatusCheck(a)
  PROVE  SnapInv'
<1>1. TypeOK'
  <2>1. ControlOK'
    <3>1. CASE UNCHANGED <<locals, finished>> /\ \E l \in {"statusRead", "mark"} : Goto(a, l)
      BY <3>1 DEF SnapInv, TypeOK, ControlOK, Goto, locals
    <3>2. CASE Finish(a)
      BY <3>2, FinishKeepsControl DEF SnapInv, TypeOK, ControlOK
    <3> QED
      BY <3>1, <3>2 DEF StatusCheck, AfterStatus
  <2>2. status' \in Views /\ statusLock' \in Actor \cup {Nobody}
    BY DEF SnapInv, TypeOK, StatusCheck
  <2> QED
    BY <2>1, <2>2 DEF SnapInv, TypeOK, ControlOK, StatusCheck, sources
<1>2. CoreBound'
  BY DEF SnapInv, CoreBound, sources, StatusCheck
<1>3. OpFits'
  BY SnapshotConstantsOK DEF SnapInv, TypeOK, OpFits, Refreshing, Actor, At, Goto, locals,
      StatusCheck, AfterStatus, Finish, Leave
<1>4. Mutexes'
  BY SnapshotConstantsOK DEF SnapInv, TypeOK, OpFits, Mutexes, Refreshing, AfterChange, At,
      Goto, sources, locals, StatusCheck, AfterStatus, Finish, Leave
<1>5. Versions'
  <2>1. PICK l \in {"statusRead", "mark"} : Finish(a) \/ (Goto(a, l) /\ UNCHANGED <<locals, finished>>)
    BY DEF StatusCheck, AfterStatus
  <2>2. TypeOK /\ Versions
    BY DEF SnapInv
  <2>3. /\ \A b \in Actor : b # a => pc'[b] = pc[b] /\ got'[b] = got[b] /\ stamp'[b] = stamp[b]
        /\ pc'[a] \notin {"setAll", "setMain"}
        /\ \/ got'[a] = Nothing /\ stamp'[a] = 0
           \/ got'[a] = got[a] /\ stamp'[a] = stamp[a]
    BY <2>1, <2>2, OthersStay
  <2>4. /\ UNCHANGED <<core, all, main>> /\ status'.v <= core.v
        /\ pc[a] \notin {"setAll", "setMain"}
    BY <2>2 DEF StatusCheck, sources, At, TypeOK, Views, Versions
  <2>5. main'.v <= all'.v /\ all'.v <= core'.v
        /\ ((\A b \in Actor : pc'[b] # "setMain") => main' = all')
    BY <2>2, <2>3, <2>4 DEF Versions
  <2>6. ASSUME NEW b \in Actor
        PROVE  /\ got'[b].v <= core'.v /\ stamp'[b] <= core'.v
               /\ pc'[b] = "setAll" => all'.v <= got'[b].v
               /\ pc'[b] = "setMain" => all' = got'[b]
    BY <2>2, <2>3, <2>4 DEF TypeOK, Views, Nothing, Versions
  <2> QED
    BY <2>4, <2>5, <2>6 DEF Versions
<1>6. Shown'
  BY DEF SnapInv, TypeOK, Views, OpFits, Versions, Shown, Refreshing, Actor, At, Goto, locals,
      StatusCheck, AfterStatus, Finish, Leave
<1>7. Owed'
  BY DEF SnapInv, TypeOK, Owed, Stale, Lost, OwesAll, OwesStatus, Actor, At, Goto, sources,
      locals, StatusCheck, AfterStatus, Finish, Leave
<1>8. Rates'
  BY SnapshotConstantsOK DEF SnapInv, TypeOK, Mutexes, Rates, Goto, sources, StatusCheck,
      AfterStatus, Finish, Leave
<1> QED
  BY <1>1, <1>2, <1>3, <1>4, <1>5, <1>6, <1>7, <1>8 DEF SnapInv

\* A reader is served.
LEMMA ServeKeeps ==
  ASSUME SnapInv, NEW a \in Actor, Serve(a)
  PROVE  SnapInv'
<1>1. TypeOK'
  BY SnapshotConstantsOK DEF SnapInv, TypeOK, Views, Nothing, Goto, sources, caches, Serve,
      Finish, Leave
<1>2. CoreBound'
  BY DEF SnapInv, CoreBound, sources, Serve
<1>3. OpFits'
  BY SnapshotConstantsOK DEF SnapInv, TypeOK, OpFits, Refreshing, Goto, Serve, Finish, Leave
<1>4. Mutexes'
  BY DEF SnapInv, Mutexes, Refreshing, AfterChange, Goto, sources, caches, Serve, Finish, Leave
<1>5. Versions'
  BY DEF SnapInv, TypeOK, Views, Nothing, Versions, At, Goto, sources, caches, Serve, Finish,
      Leave
<1>6. Shown'
  BY DEF SnapInv, TypeOK, OpFits, Shown, At, Goto, caches, Serve, Finish, Leave
<1>7. Owed'
  BY DEF SnapInv, Owed, Stale, Lost, OwesAll, OwesStatus, Refreshing, At, Goto, sources, caches,
      Serve, Finish, Leave
<1>8. Rates'
  BY DEF SnapInv, Rates, Lost, StopLooks, At, Goto, sources, caches, Serve, Finish, Leave
<1> QED
  BY <1>1, <1>2, <1>3, <1>4, <1>5, <1>6, <1>7, <1>8 DEF SnapInv

\* SelectOutbound remembers the box it found its group in.
LEMMA SelectFindsGroupKeeps ==
  ASSUME SnapInv, NEW a \in Actor, SelectFindsGroup(a)
  PROVE  SnapInv'
<1>1. TypeOK'
  BY DEF SnapInv, TypeOK, Views, Goto, sources, caches, SelectFindsGroup
<1>2. CoreBound'
  BY DEF SnapInv, CoreBound, sources, SelectFindsGroup
<1>3. OpFits'
  BY SnapshotConstantsOK DEF SnapInv, TypeOK, OpFits, Refreshing, At, Goto, SelectFindsGroup
<1>4. Mutexes'
  BY DEF SnapInv, Mutexes, Refreshing, AfterChange, Goto, sources, caches, SelectFindsGroup
<1>5. Versions'
  BY DEF SnapInv, Versions, At, Goto, sources, caches, SelectFindsGroup
<1>6. Shown'
  BY DEF SnapInv, Shown, Refreshing, At, Goto, caches, SelectFindsGroup
<1>7. Owed'
  BY DEF SnapInv, Owed, Stale, Lost, OwesAll, OwesStatus, Refreshing, At, Goto, sources, caches,
      SelectFindsGroup
<1>8. Rates'
  BY DEF SnapInv, Rates, sources, caches, SelectFindsGroup
<1> QED
  BY <1>1, <1>2, <1>3, <1>4, <1>5, <1>6, <1>7, <1>8 DEF SnapInv

\* SelectOutbound gives up before it changed anything.
LEMMA SelectRefusedKeeps ==
  ASSUME SnapInv, NEW a \in Actor, SelectRefused(a)
  PROVE  SnapInv'
<1>1. TypeOK'
  BY SnapshotConstantsOK DEF SnapInv, TypeOK, Views, Nothing, Goto, sources, caches,
      SelectRefused, Finish, Leave
<1>2. CoreBound'
  BY DEF SnapInv, CoreBound, sources, SelectRefused
<1>3. OpFits'
  BY SnapshotConstantsOK DEF SnapInv, TypeOK, OpFits, Refreshing, Goto, SelectRefused, Finish,
      Leave
<1>4. Mutexes'
  BY DEF SnapInv, Mutexes, Refreshing, AfterChange, Goto, sources, caches, SelectRefused,
      Finish, Leave
<1>5. Versions'
  BY DEF SnapInv, TypeOK, Views, Nothing, Versions, At, Goto, sources, caches, SelectRefused,
      Finish, Leave
<1>6. Shown'
  BY DEF SnapInv, TypeOK, Shown, At, Goto, caches, SelectRefused, Finish, Leave
<1>7. Owed'
  BY DEF SnapInv, Owed, Stale, Lost, OwesAll, OwesStatus, Refreshing, At, Goto, sources, caches,
      SelectRefused, Finish, Leave
<1>8. Rates'
  BY DEF SnapInv, Rates, Lost, StopLooks, At, Goto, sources, caches, SelectRefused, Finish,
      Leave
<1> QED
  BY <1>1, <1>2, <1>3, <1>4, <1>5, <1>6, <1>7, <1>8 DEF SnapInv

\* A selection changes the box it was made in, and owes the refreshes.
LEMMA SelectApplyKeeps ==
  ASSUME SnapInv, NEW a \in Actor, SelectApply(a)
  PROVE  SnapInv'
<1>0. /\ core' \in Views /\ stamp' \in [Actor -> 0 .. MaxVersion + 1]
      /\ core'.up = core.up /\ core'.gen = core.gen /\ core.v <= core'.v
  BY ChangeFacts DEF SnapInv, SelectApply
<1>1. TypeOK'
  BY <1>0 DEF SnapInv, TypeOK, Goto, caches, SelectApply
<1>2. CoreBound'
  BY SnapshotConstantsOK DEF SnapInv, TypeOK, Views, CoreBound, SelectApply, Change
<1>3. OpFits'
  BY SnapshotConstantsOK DEF SnapInv, OpFits, Refreshing, At, Goto, SelectApply
<1>4. Mutexes'
  BY <1>0 DEF SnapInv, TypeOK, OpFits, Mutexes, Refreshing, At, Goto, caches, SelectApply
<1>5. Versions'
  BY DEF SnapInv, TypeOK, Views, Versions, At, Goto, caches, SelectApply, Change
<1>6. Shown'
  BY DEF SnapInv, TypeOK, OpFits, Shown, Actor, At, Goto, caches, SelectApply, Change
<1>7. Owed'
  BY DEF SnapInv, TypeOK, OpFits, Owed, OwesAll, OwesStatus, Refreshing, Actor, At, Goto,
      SelectApply
<1>8. Rates'
  BY <1>0 DEF SnapInv, TypeOK, Rates, Lost, StopLooks, At, Goto, caches, SelectApply
<1> QED
  BY <1>1, <1>2, <1>3, <1>4, <1>5, <1>6, <1>7, <1>8 DEF SnapInv

\* UrlTest goes on to mark the caches, or returns without a box.
LEMMA UrlTestBeginsKeeps ==
  ASSUME SnapInv, NEW a \in Actor, UrlTestBegins(a)
  PROVE  SnapInv'
<1>1. TypeOK'
  <2>1. ControlOK'
    <3>1. CASE UNCHANGED <<locals, finished>> /\ Goto(a, "mark")
      BY <3>1 DEF SnapInv, TypeOK, ControlOK, Goto, locals
    <3>2. CASE Finish(a)
      BY <3>2, FinishKeepsControl DEF SnapInv, TypeOK, ControlOK
    <3> QED
      BY <3>1, <3>2 DEF UrlTestBegins
  <2> QED
    BY <2>1 DEF SnapInv, TypeOK, ControlOK, UrlTestBegins, sources, caches
<1>2. CoreBound'
  BY DEF SnapInv, CoreBound, sources, UrlTestBegins
<1>3. OpFits'
  BY SnapshotConstantsOK DEF SnapInv, TypeOK, OpFits, Refreshing, Actor, At, Goto, locals,
      UrlTestBegins, Finish, Leave
<1>4. Mutexes'
  BY DEF SnapInv, TypeOK, OpFits, Mutexes, Refreshing, At, Goto, sources, caches, locals,
      UrlTestBegins, Finish, Leave
<1>5. Versions'
  BY DEF SnapInv, TypeOK, Views, Nothing, Versions, Actor, At, Goto, sources, caches, locals,
      UrlTestBegins, Finish, Leave
<1>6. Shown'
  BY DEF SnapInv, TypeOK, OpFits, Shown, Actor, At, Goto, caches, locals, UrlTestBegins, Finish,
      Leave
<1>7. Owed'
  BY DEF SnapInv, TypeOK, Owed, Stale, Lost, OwesAll, OwesStatus, Refreshing, Actor, At, Goto,
      sources, caches, locals, UrlTestBegins, Finish, Leave
<1>8. Rates'
  BY DEF SnapInv, TypeOK, Rates, Lost, StopLooks, Actor, At, Goto, sources, caches,
      UrlTestBegins, Finish, Leave
<1> QED
  BY <1>1, <1>2, <1>3, <1>4, <1>5, <1>6, <1>7, <1>8 DEF SnapInv

\* The caches are marked; SelectOutbound leaves a goroutine behind.
LEMMA MarkDirtyKeeps ==
  ASSUME SnapInv, NEW a \in Actor, MarkDirty(a)
  PROVE  SnapInv'
<1>1. TypeOK'
  BY DEF SnapInv, TypeOK, Goto, sources, locals, MarkDirty
<1>2. CoreBound'
  BY DEF SnapInv, CoreBound, sources, MarkDirty
<1>3. OpFits'
  BY SnapshotConstantsOK DEF SnapInv, TypeOK, OpFits, Actor, Goto, locals, MarkDirty
<1>4. Mutexes'
  BY DEF SnapInv, TypeOK, Mutexes, Refreshing, AfterChange, At, Goto, sources, locals, MarkDirty
<1>5. Versions'
  BY DEF SnapInv, TypeOK, Versions, At, Goto, sources, locals, MarkDirty
<1>6. Shown'
  BY DEF SnapInv, TypeOK, Shown, Refreshing, Actor, At, Goto, locals, MarkDirty
<1>7. Owed'
  BY DEF SnapInv, TypeOK, Owed, Stale, Lost, OwesAll, OwesStatus, Actor, At, Goto, sources,
      locals, MarkDirty
<1>8. Rates'
  BY DEF SnapInv, TypeOK, Rates, Lost, StopLooks, Actor, At, Goto, sources, locals, MarkDirty
<1> QED
  BY <1>1, <1>2, <1>3, <1>4, <1>5, <1>6, <1>7, <1>8 DEF SnapInv

\* Tests change what the core shows before the refresh that they owe.
LEMMA TestKeeps ==
  ASSUME SnapInv, NEW a \in Actor, Test(a)
  PROVE  SnapInv'
<1>0. /\ core' \in Views /\ stamp' \in [Actor -> 0 .. MaxVersion + 1]
      /\ core'.up = core.up /\ core'.gen = core.gen /\ core.v <= core'.v
  BY ChangeFacts DEF SnapInv, Test
<1>1. TypeOK'
  BY <1>0 DEF SnapInv, TypeOK, Goto, caches, Test
<1>2. CoreBound'
  BY SnapshotConstantsOK DEF SnapInv, TypeOK, Views, CoreBound, Test, Change
<1>3. OpFits'
  BY SnapshotConstantsOK DEF SnapInv, OpFits, At, Goto, Test
<1>4. Mutexes'
  BY <1>0 DEF SnapInv, TypeOK, OpFits, Mutexes, Refreshing, At, Goto, caches, Test
<1>5. Versions'
  BY DEF SnapInv, TypeOK, Views, Versions, At, Goto, caches, Test, Change
<1>6. Shown'
  BY DEF SnapInv, TypeOK, OpFits, Shown, Actor, At, Goto, caches, Test, Change
<1>7. Owed'
  BY DEF SnapInv, OpFits, Owed, OwesAll, OwesStatus, Refreshing, Actor, At, Goto, Test
<1>8. Rates'
  BY DEF SnapInv, TypeOK, Views, Rates, caches, Test, Change
<1> QED
  BY <1>1, <1>2, <1>3, <1>4, <1>5, <1>6, <1>7, <1>8 DEF SnapInv

\* A call without recover() ends the process.
LEMMA CallMeetsNilBoxKeeps ==
  ASSUME SnapInv, NEW a \in Actor, CallMeetsNilBox(a)
  PROVE  SnapInv'
<1>1. TypeOK'
  BY NilBoxKeepsType DEF SnapInv, CallMeetsNilBox
<1>2. CoreBound'
  BY DEF SnapInv, CoreBound, CallMeetsNilBox, NilBox
<1>3. OpFits'
  BY DEF SnapInv, TypeOK, OpFits, At, locals, CallMeetsNilBox, NilBox
<1>4. Mutexes'
  BY DEF SnapInv, TypeOK, Mutexes, Refreshing, Goto, locals, CallMeetsNilBox, NilBox, Leave,
      Release
<1>5. Versions'
  BY DEF SnapInv, TypeOK, OpFits, Versions, At, locals, CallMeetsNilBox, NilBox
<1>6. Shown'
  BY DEF SnapInv, TypeOK, Shown, Actor, Goto, locals, CallMeetsNilBox, NilBox, Leave
<1>7. Owed'
  BY DEF SnapInv, TypeOK, OpFits, Owed, Stale, Lost, OwesAll, OwesStatus, At, locals,
      CallMeetsNilBox, NilBox
<1>8. Rates'
  BY DEF SnapInv, TypeOK, Rates, Lost, StopLooks, Actor, Goto, locals, CallMeetsNilBox, NilBox,
      Leave
<1> QED
  BY <1>1, <1>2, <1>3, <1>4, <1>5, <1>6, <1>7, <1>8 DEF SnapInv

\* A refresh reads the core: it is up to date from here on, or an alert came.
LEMMA FetchKeeps ==
  ASSUME SnapInv, NEW a \in Actor, Fetch(a)
  PROVE  SnapInv'
<1>1. TypeOK'
  BY DEF SnapInv, TypeOK, Goto, sources, caches, Fetch
<1>2. CoreBound'
  BY DEF SnapInv, CoreBound, sources, Fetch
<1>3. OpFits'
  BY SnapshotConstantsOK DEF SnapInv, OpFits, Refreshing, At, Goto, Fetch
<1>4. Mutexes'
  BY DEF SnapInv, Mutexes, Refreshing, AfterChange, At, Goto, sources, caches, Fetch
<1>5. Versions'
  BY DEF SnapInv, TypeOK, Views, Versions, At, Goto, sources, caches, Fetch
<1>6. Shown'
  BY DEF SnapInv, TypeOK, Versions, Shown, Refreshing, At, Goto, caches, Fetch
<1>7. Owed'
  BY DEF SnapInv, TypeOK, Owed, Stale, Lost, OwesAll, OwesStatus, Refreshing, At, Goto, sources,
      caches, Fetch
<1>8. Rates'
  BY DEF SnapInv, Rates, Lost, StopLooks, At, Goto, sources, caches, Fetch
<1> QED
  BY <1>1, <1>2, <1>3, <1>4, <1>5, <1>6, <1>7, <1>8 DEF SnapInv

\* A start that finds its box gone gives up its mutexes: the box was lost.
LEMMA FetchMeetsNilBoxKeeps ==
  ASSUME SnapInv, NEW a \in Actor, FetchMeetsNilBox(a)
  PROVE  SnapInv'
<1>1. TypeOK'
  BY NilBoxKeepsType DEF SnapInv, FetchMeetsNilBox
<1>2. CoreBound'
  BY DEF SnapInv, CoreBound, FetchMeetsNilBox, NilBox
<1>3. OpFits'
  BY SnapshotConstantsOK DEF SnapInv, TypeOK, OpFits, Refreshing, Actor, Goto, locals,
      FetchMeetsNilBox, NilBox, Leave
<1>4. Mutexes'
  BY DEF SnapInv, TypeOK, Mutexes, Refreshing, Goto, locals, FetchMeetsNilBox, NilBox, Leave,
      Release
<1>5. Versions'
  BY DEF SnapInv, TypeOK, Views, Nothing, Versions, At, Goto, sources, locals, FetchMeetsNilBox,
      NilBox, Leave
<1>6. Shown'
  BY DEF SnapInv, TypeOK, Shown, Actor, Goto, locals, FetchMeetsNilBox, NilBox, Leave
<1>7. Owed'
  BY DEF SnapInv, Mutexes, Owed, Stale, Lost, OwesAll, OwesStatus, Refreshing, AfterChange, At,
      locals, FetchMeetsNilBox, NilBox
<1>8. Rates'
  BY DEF SnapInv, Mutexes, Rates, Lost, StopLooks, Refreshing, AfterChange, At, locals,
      FetchMeetsNilBox, NilBox
<1> QED
  BY <1>1, <1>2, <1>3, <1>4, <1>5, <1>6, <1>7, <1>8 DEF SnapInv

\* The first cache takes what was fetched.
LEMMA SetAllKeeps ==
  ASSUME SnapInv, NEW a \in Actor, SetAll(a)
  PROVE  SnapInv'
<1>1. TypeOK'
  BY DEF SnapInv, TypeOK, Goto, sources, locals, SetAll
<1>2. CoreBound'
  BY DEF SnapInv, CoreBound, sources, SetAll
<1>3. OpFits'
  BY SnapshotConstantsOK DEF SnapInv, OpFits, Refreshing, At, Goto, locals, SetAll
<1>4. Mutexes'
  BY DEF SnapInv, Mutexes, Refreshing, AfterChange, At, Goto, sources, locals, SetAll
<1>5. Versions'
  BY DEF SnapInv, TypeOK, Mutexes, Versions, Refreshing, At, Goto, sources, locals, SetAll
<1>6. Shown'
  BY DEF SnapInv, Shown, Refreshing, At, Goto, locals, SetAll
<1>7. Owed'
  BY DEF SnapInv, Owed, Stale, Lost, OwesAll, OwesStatus, Refreshing, At, Goto, sources, locals,
      SetAll
<1>8. Rates'
  BY DEF SnapInv, Rates, Lost, StopLooks, At, Goto, sources, locals, SetAll
<1> QED
  BY <1>1, <1>2, <1>3, <1>4, <1>5, <1>6, <1>7, <1>8 DEF SnapInv

\* The second cache follows, and the mutex is released.
LEMMA SetMainAndRecordKeeps ==
  ASSUME SnapInv, NEW a \in Actor, SetMainAndRecord(a)
  PROVE  SnapInv'
<1>1. TypeOK'
  <2>1. ControlOK'
    <3>1. CASE UNCHANGED <<locals, finished>> /\ \E l \in {"serve", "status"} : Goto(a, l)
      BY <3>1 DEF SnapInv, TypeOK, ControlOK, Goto, locals
    <3>2. CASE Finish(a)
      BY <3>2, FinishKeepsControl DEF SnapInv, TypeOK, ControlOK
    <3> QED
      BY <3>1, <3>2 DEF SetMainAndRecord, AfterRefresh
  <2>2. main' \in Views /\ {staticLock', refreshLock'} \subseteq Actor \cup {Nobody}
    BY DEF SnapInv, TypeOK, SetMainAndRecord, Release
  <2> QED
    BY <2>1, <2>2 DEF SnapInv, TypeOK, ControlOK, SetMainAndRecord
<1>2. CoreBound'
  BY DEF SnapInv, CoreBound, SetMainAndRecord
<1>3. OpFits'
  BY SnapshotConstantsOK DEF SnapInv, TypeOK, OpFits, Refreshing, Actor, At, Goto, locals,
      SetMainAndRecord, AfterRefresh, Finish, Leave
<1>4. Mutexes'
  BY DEF SnapInv, TypeOK, Mutexes, Refreshing, At, Goto, locals, SetMainAndRecord, AfterRefresh,
      Finish, Leave, Release
<1>5. Versions'
  <2>1. PICK l \in {"serve", "status"} : Finish(a) \/ (Goto(a, l) /\ UNCHANGED <<locals, finished>>)
    BY DEF SetMainAndRecord, AfterRefresh
  <2>2. TypeOK /\ Versions
    BY DEF SnapInv
  <2>3. /\ \A b \in Actor : b # a => pc'[b] = pc[b] /\ got'[b] = got[b] /\ stamp'[b] = stamp[b]
        /\ pc'[a] \notin {"setAll", "setMain"}
        /\ \/ got'[a] = Nothing /\ stamp'[a] = 0
           \/ got'[a] = got[a] /\ stamp'[a] = stamp[a]
    BY <2>1, <2>2, OthersStay
  <2>4. UNCHANGED <<core, all, status>> /\ main' = got[a] /\ pc[a] = "setMain"
    BY DEF SetMainAndRecord, At
  <2>5. \A b \in Actor : b # a => pc[b] # "setMain" /\ pc[b] # "setAll"
    BY <2>4 DEF SnapInv, TypeOK, Mutexes, Refreshing
  <2> QED
    BY <2>2, <2>3, <2>4, <2>5 DEF TypeOK, Views, Nothing, Versions
<1>6. Shown'
  BY SnapshotConstantsOK DEF SnapInv, TypeOK, Views, Versions, Shown, Refreshing, Actor, At,
      Goto, locals, SetMainAndRecord, AfterRefresh, Finish, Leave
<1>7. Owed'
  BY SnapshotConstantsOK DEF SnapInv, TypeOK, Mutexes, Versions, Owed, Stale, Lost, OwesAll,
      OwesStatus, Refreshing, Actor, At, Goto, locals, SetMainAndRecord, AfterRefresh, Finish,
      Leave
<1>8. Rates'
  BY DEF SnapInv, TypeOK, Rates, Lost, StopLooks, Actor, At, Goto, locals, SetMainAndRecord,
      AfterRefresh, Finish, Leave
<1> QED
  BY <1>1, <1>2, <1>3, <1>4, <1>5, <1>6, <1>7, <1>8 DEF SnapInv

\* The status is replaced by what readStatus saw.
LEMMA StatusReadKeeps ==
  ASSUME SnapInv, NEW a \in Actor, StatusRead(a)
  PROVE  SnapInv'
<1>1. TypeOK'
  <2>1. ControlOK'
    <3>1. CASE UNCHANGED <<locals, finished>> /\ Goto(a, "mark")
      BY <3>1 DEF SnapInv, TypeOK, ControlOK, Goto, locals
    <3>2. CASE Finish(a)
      BY <3>2, FinishKeepsControl DEF SnapInv, TypeOK, ControlOK
    <3> QED
      BY <3>1, <3>2 DEF StatusRead, AfterStatus
  <2>2. status' \in Views /\ statusLock' \in Actor \cup {Nobody}
    BY DEF SnapInv, TypeOK, Views, StatusRead
  <2> QED
    BY <2>1, <2>2 DEF SnapInv, TypeOK, ControlOK, StatusRead, sources
<1>2. CoreBound'
  BY DEF SnapInv, CoreBound, sources, StatusRead
<1>3. OpFits'
  BY SnapshotConstantsOK DEF SnapInv, TypeOK, OpFits, Refreshing, Actor, Goto, locals,
      StatusRead, AfterStatus, Finish, Leave
<1>4. Mutexes'
  BY DEF SnapInv, TypeOK, Mutexes, Refreshing, AfterChange, At, Goto, sources, locals,
      StatusRead, AfterStatus, Finish, Leave
<1>5. Versions'
  <2>1. PICK l \in {"mark"} : Finish(a) \/ (Goto(a, l) /\ UNCHANGED <<locals, finished>>)
    BY DEF StatusRead, AfterStatus
  <2>2. TypeOK /\ Versions
    BY DEF SnapInv
  <2>3. /\ \A b \in Actor : b # a => pc'[b] = pc[b] /\ got'[b] = got[b] /\ stamp'[b] = stamp[b]
        /\ pc'[a] \notin {"setAll", "setMain"}
        /\ \/ got'[a] = Nothing /\ stamp'[a] = 0
           \/ got'[a] = got[a] /\ stamp'[a] = stamp[a]
    BY <2>1, <2>2, OthersStay
  <2>4. /\ UNCHANGED <<core, all, main>> /\ status'.v = core.v
        /\ pc[a] \notin {"setAll", "setMain"}
    BY <2>2 DEF StatusRead, sources, At, TypeOK, Views
  <2>5. main'.v <= all'.v /\ all'.v <= core'.v
        /\ ((\A b \in Actor : pc'[b] # "setMain") => main' = all')
    BY <2>2, <2>3, <2>4 DEF Versions
  <2>6. ASSUME NEW b \in Actor
        PROVE  /\ got'[b].v <= core'.v /\ stamp'[b] <= core'.v
               /\ pc'[b] = "setAll" => all'.v <= got'[b].v
               /\ pc'[b] = "setMain" => all' = got'[b]
    BY <2>2, <2>3, <2>4 DEF TypeOK, Views, Nothing, Versions
  <2>7. status'.v <= core'.v
    BY <2>2, <2>4 DEF TypeOK, Views
  <2> QED
    BY <2>5, <2>6, <2>7 DEF Versions
<1>6. Shown'
  BY DEF SnapInv, TypeOK, Views, OpFits, Versions, Shown, Actor, At, Goto, locals, StatusRead,
      AfterStatus, Finish, Leave
<1>7. Owed'
  BY SnapshotConstantsOK DEF SnapInv, TypeOK, Views, Nothing, OpFits, Owed, Stale, Lost,
      OwesAll, OwesStatus, Rates, StopLooks, Refreshing, Actor, At, Goto, sources, locals,
      StatusRead, AfterStatus, Finish, Leave
<1>8. Rates'
  BY DEF SnapInv, TypeOK, Rates, Lost, StopLooks, Actor, At, Goto, sources, locals, StatusRead,
      AfterStatus, Finish, Leave
<1> QED
  BY <1>1, <1>2, <1>3, <1>4, <1>5, <1>6, <1>7, <1>8 DEF SnapInv

\* readStatus without a box: the same, for the mutex of the status.
LEMMA StatusMeetsNilBoxKeeps ==
  ASSUME SnapInv, NEW a \in Actor, StatusMeetsNilBox(a)
  PROVE  SnapInv'
<1>1. TypeOK'
  BY NilBoxKeepsType DEF SnapInv, StatusMeetsNilBox
<1>2. CoreBound'
  BY DEF SnapInv, CoreBound, StatusMeetsNilBox, NilBox
<1>3. OpFits'
  BY SnapshotConstantsOK DEF SnapInv, TypeOK, OpFits, Refreshing, Actor, Goto, locals,
      StatusMeetsNilBox, NilBox, Leave
<1>4. Mutexes'
  BY DEF SnapInv, TypeOK, Mutexes, Refreshing, Goto, locals, StatusMeetsNilBox, NilBox, Leave,
      Release
<1>5. Versions'
  BY DEF SnapInv, TypeOK, Views, Nothing, Versions, Actor, At, Goto, locals, StatusMeetsNilBox,
      NilBox, Leave
<1>6. Shown'
  BY DEF SnapInv, TypeOK, Shown, Actor, Goto, locals, StatusMeetsNilBox, NilBox, Leave
<1>7. Owed'
  BY DEF SnapInv, Mutexes, Owed, Stale, Lost, OwesAll, OwesStatus, AfterChange, At, locals,
      StatusMeetsNilBox, NilBox
<1>8. Rates'
  BY DEF SnapInv, Mutexes, Rates, Lost, StopLooks, AfterChange, At, locals, StatusMeetsNilBox,
      NilBox
<1> QED
  BY <1>1, <1>2, <1>3, <1>4, <1>5, <1>6, <1>7, <1>8 DEF SnapInv

\* A reader refreshes when the caches are dirty.
LEMMA ReadChecksDirtyKeeps ==
  ASSUME SnapInv, NEW a \in Actor, ReadChecksDirty(a)
  PROVE  SnapInv'
<1>1. TypeOK'
  BY DEF SnapInv, TypeOK, Goto, sources, caches, locals, ReadChecksDirty
<1>2. CoreBound'
  BY DEF SnapInv, CoreBound, sources, ReadChecksDirty
<1>3. OpFits'
  BY SnapshotConstantsOK DEF SnapInv, TypeOK, OpFits, Refreshing, At, Goto, locals,
      ReadChecksDirty
<1>4. Mutexes'
  BY DEF SnapInv, TypeOK, OpFits, Mutexes, Refreshing, At, Goto, sources, caches, locals,
      ReadChecksDirty
<1>5. Versions'
  BY DEF SnapInv, Versions, At, Goto, sources, caches, locals, ReadChecksDirty
<1>6. Shown'
  BY DEF SnapInv, TypeOK, OpFits, Shown, At, Goto, caches, locals, ReadChecksDirty
<1>7. Owed'
  BY DEF SnapInv, Owed, Stale, Lost, OwesAll, OwesStatus, Refreshing, At, Goto, sources, caches,
      locals, ReadChecksDirty
<1>8. Rates'
  BY DEF SnapInv, Rates, Lost, StopLooks, At, Goto, sources, caches, locals, ReadChecksDirty
<1> QED
  BY <1>1, <1>2, <1>3, <1>4, <1>5, <1>6, <1>7, <1>8 DEF SnapInv

\* An alert takes the box away and remembers it as lost.
LEMMA StopAndAlertKeeps ==
  ASSUME SnapInv, StopAndAlert
  PROVE  SnapInv'
<1>1. TypeOK'
  <2>1. core' = [up |-> FALSE, v |-> core.v + 1, gen |-> core.gen]
    BY DEF SnapInv, TypeOK, Views, StopAndAlert
  <2>2. core.v + 1 \in 0 .. MaxVersion + 1 /\ core.gen \in 0 .. MaxVersion
    BY SnapshotConstantsOK DEF SnapInv, TypeOK, Views, CoreBound, StopAndAlert
  <2>9. core' \in Views
    BY <2>1, <2>2 DEF Views
  <2>3. lost' \subseteq 1 .. MaxVersion
    BY SnapshotConstantsOK DEF SnapInv, TypeOK, Views, CoreBound, StopAndAlert
  <2> QED
    BY <2>2, <2>3, <2>9 DEF SnapInv, TypeOK, StopAndAlert, caches, locals
<1>2. CoreBound'
  BY DEF SnapInv, TypeOK, Views, CoreBound, StopAndAlert
<1>3. OpFits'
  BY DEF SnapInv, OpFits, locals, StopAndAlert
<1>4. Mutexes'
  BY DEF SnapInv, Mutexes, caches, locals, StopAndAlert
<1>5. Versions'
  BY DEF SnapInv, TypeOK, Views, Versions, caches, locals, StopAndAlert
<1>6. Shown'
  BY DEF SnapInv, Shown, caches, locals, StopAndAlert
<1>7. Owed'
  BY DEF SnapInv, Owed, Lost, StopAndAlert
<1>8. Rates'
  BY DEF SnapInv, Rates, Lost, caches, StopAndAlert
<1> QED
  BY <1>1, <1>2, <1>3, <1>4, <1>5, <1>6, <1>7, <1>8 DEF SnapInv

\* Time passes.
LEMMA PassKeeps ==
  ASSUME SnapInv, Pass
  PROVE  SnapInv'
<1>1. TypeOK'
  BY DEF SnapInv, TypeOK, sources, locals, Pass
<1>2. CoreBound'
  BY DEF SnapInv, CoreBound, sources, Pass
<1>3. OpFits'
  BY DEF SnapInv, OpFits, locals, Pass
<1>4. Mutexes'
  BY DEF SnapInv, Mutexes, sources, locals, Pass
<1>5. Versions'
  BY DEF SnapInv, Versions, sources, locals, Pass
<1>6. Shown'
  BY DEF SnapInv, Shown, locals, Pass
<1>7. Owed'
  BY DEF SnapInv, Owed, Stale, Lost, OwesAll, OwesStatus, sources, locals, Pass
<1>8. Rates'
  BY DEF SnapInv, Rates, Lost, StopLooks, sources, locals, Pass
<1> QED
  BY <1>1, <1>2, <1>3, <1>4, <1>5, <1>6, <1>7, <1>8 DEF SnapInv

\* A call begins, and starts the updater it needs.
LEMMA CallKeeps ==
  ASSUME SnapInv, NEW a \in Actor, NEW o \in Ops, Call(a, o)
  PROVE  SnapInv'
<1>1. TypeOK'
  BY SnapshotConstantsOK DEF SnapInv, TypeOK, Actor, sources, caches, Call
<1>2. CoreBound'
  BY DEF SnapInv, CoreBound, sources, Call
<1>3. OpFits'
  BY SnapshotConstantsOK DEF SnapInv, TypeOK, OpFits, Refreshing, Actor, Call
<1>4. Mutexes'
  BY SnapshotConstantsOK DEF SnapInv, TypeOK, OpFits, Mutexes, Refreshing, AfterChange, sources,
      caches, Call
<1>5. Versions'
  BY SnapshotConstantsOK DEF SnapInv, TypeOK, Views, Nothing, OpFits, Versions, Shown,
      Refreshing, Actor, At, sources, caches, Call
<1>6. Shown'
  BY DEF SnapInv, TypeOK, Views, OpFits, Shown, Actor, caches, Call
<1>7. Owed'
  BY SnapshotConstantsOK DEF SnapInv, TypeOK, Owed, Stale, Lost, OwesAll, OwesStatus,
      Refreshing, Actor, At, sources, caches, Call
<1>8. Rates'
  BY SnapshotConstantsOK DEF SnapInv, TypeOK, Rates, Lost, StopLooks, Actor, At, sources,
      caches, Call
<1> QED
  BY <1>1, <1>2, <1>3, <1>4, <1>5, <1>6, <1>7, <1>8 DEF SnapInv

\* Before the first call every cache shows nothing, as the core does.
LEMMA InitHolds == Init => SnapInv
<1> SUFFICES ASSUME Init PROVE SnapInv
  OBVIOUS
<1> USE SnapshotConstantsOK DEF Init, Nothing, Views, Actor
<1>1. TypeOK
  <2>1. Nothing \in Views
    OBVIOUS
  <2> QED
    BY <2>1 DEF TypeOK
<1>2. CoreBound /\ OpFits
  BY DEF CoreBound, OpFits, Refreshing
<1>3. Mutexes /\ Versions
  <2>1. \A a \in Actor : pc[a] \in {"off", "idle"} /\ op[a] = "none"
    OBVIOUS
  <2>2. core.v = 0 /\ \A a \in Actor : got[a].v = 0 /\ stamp[a] = 0
    OBVIOUS
  <2>3. Mutexes
    BY <2>1 DEF Mutexes, Refreshing, AfterChange
  <2>4. Versions
    BY ONLY <2>1, <2>2, status = core, all = core, main = core DEF Versions
  <2> QED
    BY <2>3, <2>4
<1>4. Shown
  BY DEF Shown, Refreshing
<1>5. Owed /\ Rates
  BY DEF Owed, Stale, Rates
<1> QED
  BY <1>1, <1>2, <1>3, <1>4, <1>5 DEF SnapInv

\* Nothing happens.
LEMMA StutterKeeps == SnapInv /\ UNCHANGED vars => SnapInv'
BY DEF SnapInv, TypeOK, CoreBound, OpFits, Mutexes, Versions, Shown, Owed, Stale, Lost,
       OwesAll, OwesStatus, Rates, StopLooks, vars, sources, caches, locals

\* Whatever happens, the invariant survives it: one lemma above per action.
LEMMA NextKeeps ==
  ASSUME SnapInv, [Next]_vars
  PROVE  SnapInv'
<1>1. ASSUME NEW a \in Actor, NEW o \in Ops, Call(a, o)  PROVE SnapInv'
  BY <1>1, CallKeeps
<1>2. ASSUME NEW a \in Actor, Step(a)  PROVE SnapInv'
  <2>1. CASE StartPublishes(a)
    BY <2>1, StartPublishesKeeps
  <2>2. CASE StopClears(a)
    BY <2>2, StopClearsKeeps
  <2>3. CASE LifecycleEnds(a)
    BY <2>3, LifecycleEndsKeeps
  <2>4. CASE RefreshLocked(a)
    BY <2>4, RefreshLockedKeeps
  <2>5. CASE StatusCheck(a)
    BY <2>5, StatusCheckKeeps
  <2>6. CASE Serve(a)
    BY <2>6, ServeKeeps
  <2>7. CASE SelectFindsGroup(a)
    BY <2>7, SelectFindsGroupKeeps
  <2>8. CASE SelectRefused(a)
    BY <2>8, SelectRefusedKeeps
  <2>9. CASE SelectApply(a)
    BY <2>9, SelectApplyKeeps
  <2>10. CASE UrlTestBegins(a)
    BY <2>10, UrlTestBeginsKeeps
  <2>11. CASE MarkDirty(a)
    BY <2>11, MarkDirtyKeeps
  <2>12. CASE Test(a)
    BY <2>12, TestKeeps
  <2>13. CASE CallMeetsNilBox(a)
    BY <2>13, CallMeetsNilBoxKeeps
  <2>14. CASE Fetch(a)
    BY <2>14, FetchKeeps
  <2>15. CASE FetchMeetsNilBox(a)
    BY <2>15, FetchMeetsNilBoxKeeps
  <2>16. CASE SetAll(a)
    BY <2>16, SetAllKeeps
  <2>17. CASE SetMainAndRecord(a)
    BY <2>17, SetMainAndRecordKeeps
  <2>18. CASE StatusRead(a)
    BY <2>18, StatusReadKeeps
  <2>19. CASE StatusMeetsNilBox(a)
    BY <2>19, StatusMeetsNilBoxKeeps
  <2>20. CASE ReadChecksDirty(a)
    BY <2>20, ReadChecksDirtyKeeps
  <2> QED
    BY <1>2, <2>1, <2>2, <2>3, <2>4, <2>5, <2>6, <2>7, <2>8, <2>9, <2>10, <2>11, <2>12, <2>13,
        <2>14, <2>15, <2>16, <2>17, <2>18, <2>19, <2>20 DEF Step, TakesLock
<1>3. CASE StopAndAlert
  BY <1>3, StopAndAlertKeeps
<1>4. CASE Pass
  BY <1>4, PassKeeps
<1>5. CASE UNCHANGED vars
  BY <1>5, StutterKeeps
<1> QED
  BY <1>1, <1>2, <1>3, <1>4, <1>5 DEF Next

------------------------------------------------------------------------------
(* Theorems.                                                               *)

\* The inductive invariant holds of every reachable state: it says where each
\* goroutine is, which mutexes it holds, what it has read and who still owes a
\* refresh (refreshAllFFIOutbounds and refreshFFIStatus).
THEOREM SnapInductive == Spec => []SnapInv
<1>1. SnapInv /\ [Next]_vars => SnapInv'
  BY NextKeeps
<1> QED
  BY InitHolds, <1>1, PTL DEF Spec

\* Versions, mutexes and local variables stay within their types, with any
\* number of goroutines: no call can run past the bound on the versions.
THEOREM SnapTypeCorrect == Spec => []TypeOK
<1>1. SnapInv => TypeOK
  BY DEF SnapInv
<1> QED
  BY <1>1, SnapInductive, PTL

\* When no call, no worker and no refresh is under way, the caches show the core
\* as it is, or a box that StopAndAlert took away is still shown.
THEOREM QuietFresh == Spec => []QuietIsFresh
<1>1. SnapInv => QuietIsFresh
  <2> SUFFICES ASSUME SnapInv, Quiet, ~Lost
               PROVE  status = core /\ all = core /\ main = core
    BY DEF QuietIsFresh, Lost
  <2>1. ASSUME NEW a \in Caller \cup Worker  PROVE ~OwesAll(a) /\ ~OwesStatus(a)
    BY <2>1 DEF Quiet, OwesAll, OwesStatus, Refreshing
  <2> QED
    BY <2>1 DEF SnapInv, Owed, Stale
<1> QED
  BY <1>1, SnapInductive, PTL

\* Who writes the caches: the status is a picture of the core, the two others
\* take what their writer has fetched.
LEMMA CacheWriters ==
  ASSUME SnapInv, [Next]_vars
  PROVE  /\ status' = status \/ (status'.v = core.v /\ status'.gen = core.gen)
         /\ all' = all \/ \E a \in Actor : pc[a] = "setAll" /\ all' = got[a]
         /\ main' = main \/ \E a \in Actor : pc[a] = "setMain" /\ main' = got[a]
<1>1. ASSUME NEW a \in Actor, Step(a)
      PROVE  \/ UNCHANGED <<status, all, main>>
             \/ StatusCheck(a) \/ StatusRead(a) \/ SetAll(a) \/ SetMainAndRecord(a)
  <2>1. CASE TakesLock(a)
    BY <2>1 DEF TakesLock, StartPublishes, StopClears, LifecycleEnds, RefreshLocked, Serve,
        caches
  <2>2. CASE SelectFindsGroup(a) \/ SelectRefused(a) \/ SelectApply(a)
    BY <2>2 DEF SelectFindsGroup, SelectRefused, SelectApply, caches
  <2>3. CASE UrlTestBegins(a) \/ MarkDirty(a) \/ Test(a) \/ Fetch(a) \/ ReadChecksDirty(a)
    BY <2>3 DEF UrlTestBegins, MarkDirty, Test, Fetch, ReadChecksDirty, caches
  <2>4. CASE NilBox(a)
    BY <2>4 DEF NilBox
  <2> QED
    BY <1>1, <2>1, <2>2, <2>3, <2>4
       DEF Step, CallMeetsNilBox, FetchMeetsNilBox, StatusMeetsNilBox
<1>2. ASSUME NEW a \in Actor, StatusCheck(a) \/ StatusRead(a)
      PROVE  (status'.v = core.v /\ status'.gen = core.gen) \/ status' = status
  BY <1>2 DEF SnapInv, TypeOK, Views, StatusCheck, StatusRead
<1>3. ASSUME NEW a \in Actor, StatusCheck(a) \/ StatusRead(a)
      PROVE  UNCHANGED <<all, main>>
  BY <1>3 DEF StatusCheck, StatusRead
<1>4. ASSUME NEW a \in Actor, SetAll(a)
      PROVE  UNCHANGED <<status, main>> /\ pc[a] = "setAll" /\ all' = got[a]
  BY <1>4 DEF SetAll, At
<1>5. ASSUME NEW a \in Actor, SetMainAndRecord(a)
      PROVE  UNCHANGED <<status, all>> /\ pc[a] = "setMain" /\ main' = got[a]
  BY <1>5 DEF SetMainAndRecord, At
<1>6. ASSUME ~\E a \in Actor : Step(a)  PROVE UNCHANGED <<status, all, main>>
  BY <1>6 DEF Next, Call, StopAndAlert, Pass, vars, caches
<1> QED
  BY <1>1, <1>2, <1>3, <1>4, <1>5, <1>6

\* No cache is ever replaced by an older snapshot: a refresh that read the core
\* before another one started does not write after it.
THEOREM NeverBack == Spec => NeverGoesBack
<1>1. ASSUME SnapInv, [Next]_vars
      PROVE  [status'.v >= status.v /\ all'.v >= all.v /\ main'.v >= main.v]_vars
  <2>1. status.v \in Nat /\ all.v \in Nat /\ main.v \in Nat /\ core.v \in Nat
    BY <1>1, SnapshotConstantsOK DEF SnapInv, TypeOK, Views
  <2> QED
    BY <1>1, <2>1, CacheWriters DEF SnapInv, Versions
<1> QED
  BY <1>1, SnapInductive, PTL DEF Spec, NeverGoesBack

\* A reader is served what every call that returned before it asked has written:
\* finished calls do not return before both caches show them.
THEOREM ReadsSee == Spec => ReadsSeeFinishedCalls
<1>1. ASSUME SnapInv, [Next]_vars
      PROVE  [\A a \in Caller :
                /\ At(a, "serve") /\ pc'[a] = "idle" => all.v >= stamp[a] /\ main.v >= stamp[a]
                /\ At(a, "poll") /\ pc'[a] = "idle" => status.v >= stamp[a]]_vars
  <2> SUFFICES ASSUME NEW a \in Caller
               PROVE  /\ At(a, "serve") => all.v >= stamp[a] /\ main.v >= stamp[a]
                      /\ At(a, "poll") => status.v >= stamp[a]
    OBVIOUS
  <2>1. /\ status.v \in Nat /\ all.v \in Nat /\ main.v \in Nat
        /\ stamp[a] \in Nat /\ finished \in Nat
    BY <1>1, SnapshotConstantsOK DEF SnapInv, TypeOK, Views, Actor
  <2>2. At(a, "serve") => op[a] = "read"
    BY <1>1 DEF SnapInv, OpFits, At
  <2>3. At(a, "poll") => op[a] = "poll"
    BY <1>1 DEF SnapInv, TypeOK, OpFits, At, Actor
  <2> QED
    BY <1>1, <2>1, <2>2, <2>3 DEF SnapInv, Versions, Shown
<1> QED
  BY <1>1, SnapInductive, PTL DEF Spec, ReadsSeeFinishedCalls

\* Two statuses that follow one another, and whose totals are subtracted for the
\* uplink rate, are of one box unless an alert took the first one's box away.
THEOREM RatesOneBox == Spec => RatesAreOfOneBox
<1>1. ASSUME SnapInv, [Next]_vars
      PROVE  [status.up /\ status'.up /\ status.gen # status'.gen => status.gen \in lost]_vars
  BY <1>1, CacheWriters DEF SnapInv, Rates
<1> QED
  BY <1>1, SnapInductive, PTL DEF Spec, RatesAreOfOneBox

------------------------------------------------------------------------------
(* The order of the mutexes.                                               *)

\* The converse of Mutexes: a mutex that is taken is held by an actor that is at
\* the labels between its Lock and its Unlock.
Held ==
  /\ staticLock # Nobody =>
       /\ staticLock \in Caller /\ op[staticLock] \in {"start", "stop"}
       /\ pc[staticLock] \in AfterChange
  /\ refreshLock # Nobody => refreshLock \in Actor /\ pc[refreshLock] \in Refreshing
  /\ statusLock # Nobody => statusLock \in Actor /\ pc[statusLock] = "statusRead"

\* Who holds the mutex that an actor's next step takes.
Blocker(a) ==
  CASE pc[a] \in {"start", "stop"} -> staticLock
    [] pc[a] = "refresh" \/ (a = updater /\ pc[a] = "sleep") -> refreshLock
    [] pc[a] \in {"status", "poll"} \/ (a = ticker /\ pc[a] = "sleep") -> statusLock
    [] OTHER -> Nobody

\* Whoever an actor waits for waits for nobody, or for one that waits for nobody.
WaitsEnd ==
  \A a \in Actor :
    LET b == Blocker(a)
        c == Blocker(b)
    IN b # Nobody => /\ b \in Actor \ {a}
                     /\ c # Nobody => c \in Actor \ {a, b} /\ Blocker(c) = Nobody

\* A step of an actor leaves what Held says: it holds a mutex from the step that
\* takes it to the one that releases it.
LEMMA StepKeepsHeld ==
  ASSUME SnapInv, Held, NEW a \in Actor, Step(a)
  PROVE  Held'
<1> USE SnapshotConstantsOK DEF SnapInv, TypeOK, Held
<1>1. CASE StartPublishes(a)
  <2>1. a \in Caller /\ op[a] = "start"
    BY <1>1 DEF StartPublishes, OpFits, Refreshing, Actor, At
  <2> QED
    BY <1>1, <2>1 DEF StartPublishes, Refreshing, AfterChange, At, Goto, caches
<1>2. CASE StopClears(a)
  <2>1. a \in Caller /\ op[a] = "stop"
    BY <1>2 DEF StopClears, OpFits, Refreshing, Actor, At
  <2> QED
    BY <1>2, <2>1 DEF StopClears, Refreshing, AfterChange, At, Goto, caches
<1>3. CASE LifecycleEnds(a)
  BY <1>3 DEF LifecycleEnds, Refreshing, AfterChange, At, Goto, sources, caches, Finish, Leave
<1>4. CASE RefreshLocked(a)
  BY <1>4 DEF RefreshLocked, Refreshing, AfterChange, At, Goto, sources, WantsRefresh
<1>5. CASE StatusCheck(a)
  BY <1>5 DEF StatusCheck, OpFits, Actor, Refreshing, AfterChange, At, Goto, sources, locals,
     AfterStatus, Finish, Leave
<1>6. CASE Serve(a)
  BY <1>6 DEF Serve, OpFits, Refreshing, AfterChange, At, Goto, sources, caches, Finish, Leave
<1>7. CASE SelectFindsGroup(a)
  BY <1>7 DEF SelectFindsGroup, Refreshing, AfterChange, At, Goto, sources, caches
<1>8. CASE SelectRefused(a)
  BY <1>8 DEF SelectRefused, Refreshing, AfterChange, At, Goto, sources, caches, Finish, Leave
<1>9. CASE SelectApply(a)
  BY <1>9 DEF SelectApply, Refreshing, AfterChange, At, Goto, caches
<1>10. CASE UrlTestBegins(a)
  BY <1>10 DEF UrlTestBegins, Refreshing, AfterChange, At, Goto, sources, caches, locals, Finish,
     Leave
<1>11. CASE MarkDirty(a)
  BY <1>11 DEF MarkDirty, Refreshing, AfterChange, At, Goto, sources, locals
<1>12. CASE Test(a)
  BY <1>12 DEF Test, Refreshing, AfterChange, At, Goto, caches
<1>13. CASE CallMeetsNilBox(a)
  BY <1>13 DEF CallMeetsNilBox, OpFits, Actor, Refreshing, AfterChange, At, Goto, locals, NilBox,
     Leave, Release
<1>14. CASE Fetch(a)
  BY <1>14 DEF Fetch, Refreshing, AfterChange, At, Goto, sources, caches
<1>15. CASE FetchMeetsNilBox(a)
  BY <1>15 DEF FetchMeetsNilBox, OpFits, Actor, Refreshing, AfterChange, At, Goto, locals,
     NilBox, Leave, Release
<1>16. CASE SetAll(a)
  BY <1>16 DEF SetAll, Refreshing, AfterChange, At, Goto, sources, locals
<1>17. CASE SetMainAndRecord(a)
  BY <1>17 DEF SetMainAndRecord, OpFits, Mutexes, Actor, Refreshing, AfterChange, At, Goto,
     locals, AfterRefresh, Finish, Leave, Release
<1>18. CASE StatusRead(a)
  BY <1>18 DEF StatusRead, OpFits, Mutexes, Actor, Refreshing, AfterChange, At, Goto, sources,
     locals, AfterStatus, Finish, Leave
<1>19. CASE StatusMeetsNilBox(a)
  BY <1>19 DEF StatusMeetsNilBox, OpFits, Actor, Refreshing, AfterChange, At, Goto, locals,
     NilBox, Leave, Release
<1>20. CASE ReadChecksDirty(a)
  BY <1>20 DEF ReadChecksDirty, Refreshing, AfterChange, At, Goto, sources, caches, locals
<1> QED
  BY ONLY Step(a), <1>1, <1>2, <1>3, <1>4, <1>5, <1>6, <1>7, <1>8, <1>9, <1>10, <1>11, <1>12,
     <1>13, <1>14, <1>15, <1>16, <1>17, <1>18, <1>19, <1>20 DEF Step, TakesLock

\* A mutex that is taken is held by someone inside, whatever happens.
LEMMA NextKeepsHeld ==
  ASSUME SnapInv, Held, [Next]_vars
  PROVE  Held'
<1>1. ASSUME NEW a \in Actor, NEW o \in Ops, Call(a, o)  PROVE Held'
  BY <1>1, SnapshotConstantsOK
     DEF SnapInv, TypeOK, OpFits, Held, Refreshing, AfterChange, Actor, At, sources, caches, Call
<1>2. ASSUME NEW a \in Actor, Step(a)  PROVE Held'
  BY <1>2, StepKeepsHeld
<1>3. CASE StopAndAlert \/ Pass \/ UNCHANGED vars
  BY <1>3 DEF Held, StopAndAlert, Pass, vars, sources, caches, locals
<1> QED
  BY <1>1, <1>2, <1>3 DEF Next

\* The mutexes of the caches are taken in an order: static.lock before one of the
\* others, and never both of those, so that no goroutines wait for one another.
\* The mutexes are those of a start or a stop (static.lock), of
\* refreshAllFFIOutbounds (ffiOutboundsRefreshLock) and of refreshFFIStatus
\* (ffiStatusLock); a panic that StartService recovers releases them.
THEOREM MutexesInOrder == Spec => [](Held /\ WaitsEnd)
<1>1. Init => Held
  BY DEF Init, Held
<1>2. SnapInv /\ Held /\ [Next]_vars => Held'
  BY NextKeepsHeld
<1>3. ASSUME SnapInv, Held  PROVE WaitsEnd
  <2> SUFFICES ASSUME NEW a \in Actor, Blocker(a) # Nobody
               PROVE  /\ Blocker(a) \in Actor \ {a}
                      /\ Blocker(Blocker(a)) # Nobody =>
                           /\ Blocker(Blocker(a)) \in Actor \ {a, Blocker(a)}
                           /\ Blocker(Blocker(Blocker(a))) = Nobody
    BY DEF WaitsEnd
  <2>1. ASSUME NEW b \in Actor, pc[b] \in Refreshing \cup {"statusRead"}
        PROVE  Blocker(b) = Nobody
    BY <2>1 DEF Refreshing, Blocker
  <2>2. /\ refreshLock # Nobody => refreshLock \in Actor /\ Blocker(refreshLock) = Nobody
        /\ statusLock # Nobody => statusLock \in Actor /\ Blocker(statusLock) = Nobody
    BY <1>3, <2>1 DEF Held
  <2>3. Blocker(a) \in {staticLock, refreshLock, statusLock}
    BY DEF Blocker
  <2>4. ASSUME Blocker(a) = refreshLock \/ Blocker(a) = statusLock
        PROVE  Blocker(a) \in Actor \ {a} /\ Blocker(Blocker(a)) = Nobody
    BY <2>2, <2>4
  <2>5. ASSUME Blocker(a) = staticLock
        PROVE  /\ Blocker(a) \in Actor \ {a}
               /\ Blocker(Blocker(a)) # Nobody =>
                    /\ Blocker(Blocker(a)) \in Actor \ {a, Blocker(a)}
                    /\ Blocker(Blocker(Blocker(a))) = Nobody
    <3> DEFINE b == staticLock
    <3>1. b \in Caller /\ b \in Actor /\ pc[b] \in AfterChange
      BY <1>3, <2>5 DEF Held, Actor
    <3>2. Blocker(b) \in {Nobody, refreshLock, statusLock}
      BY <3>1, SnapshotConstantsOK DEF Blocker, AfterChange, Refreshing
    <3>3. Blocker(b) # Nobody => Blocker(b) \in Actor /\ Blocker(Blocker(b)) = Nobody
      BY <2>2, <3>2
    <3>4. a # b
      <4>1. CASE pc[a] \in {"start", "stop"}
        BY <3>1, <4>1 DEF AfterChange, Refreshing
      <4>2. CASE pc[a] \notin {"start", "stop"}
        <5>1. Blocker(a) \in {refreshLock, statusLock}
          BY <4>2 DEF Blocker
        <5> QED
          BY <2>4, <2>5, <5>1
      <4> QED
        BY <4>1, <4>2
    <3> QED
      BY <2>5, <3>1, <3>3, <3>4
  <2> QED
    BY <2>3, <2>4, <2>5
<1> QED
  BY <1>1, <1>2, <1>3, SnapInductive, PTL DEF Spec
================================================================================
