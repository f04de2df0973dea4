----------------------------- MODULE FFISnapshot -----------------------------
(***************************************************************************)
(* The snapshot caches that FFI clients poll (v2/hcore/ffi_snapshot.go):   *)
(* one for the status and two for the outbound groups, refreshed by the    *)
(* calls that change what they show, by readers that find them dirty and   *)
(* by two background goroutines.                                           *)
(*                                                                         *)
(* What a fresh read of the core would return is a version number; every   *)
(* change of the core takes the next one.  Starting and stopping the core  *)
(* is CoreLifecycle's subject: here a start publishes a box, a stop takes  *)
(* it away, both followed by refreshFFISnapshotCaches, and a StopAndAlert  *)
(* takes it away with no refresh at all.                                   *)
(***************************************************************************)
EXTENDS Naturals

CONSTANTS
  Caller,       \* goroutines serving an FFI or RPC call
  Worker,       \* goroutines that SelectOutbound leaves behind
  updater,      \* the goroutine of ensureFFIOutboundsUpdater
  ticker,       \* the goroutine of ensureFFIStatusUpdater
  Nobody,       \* a free mutex
  Ops,          \* the calls that callers make
  Alerts,       \* whether a StopAndAlert may take the box away
  MaxVersion    \* bound: no change of the core past this version

Actor == Caller \cup Worker \cup {updater, ticker}

ASSUME SnapshotConstantsOK ==
  /\ Caller \cap Worker = {}
  /\ updater \notin Caller \cup Worker
  /\ ticker \notin Caller \cup Worker \cup {updater}
  /\ Nobody \notin Actor
  /\ Ops \subseteq {"start", "stop", "select", "urltest", "read", "poll"}
  /\ Alerts \in BOOLEAN
  /\ MaxVersion \in Nat \ {0}

VARIABLES
  core,         \* what static.Box shows now
  lost,         \* history: the boxes that a StopAndAlert took away
  staticLock,   \* holder of static.lock, as far as a start or a stop is concerned
  status,       \* ffiStatusPrev and ffiStatusJSON
  statusLock,   \* holder of ffiStatusLock
  all,          \* ffiOutboundsPrev and ffiOutboundsJSON
  main,         \* ffiMainOutboundsPrev and ffiMainOutboundsJSON
  refreshLock,  \* holder of ffiOutboundsRefreshLock
  dirty,        \* ffiOutboundsDirty (TRUE also as long as there was no refresh)
  due,          \* the last refresh is older than the 5 to 30 s that pass, by the
                \* time of the last access, before the updater refreshes anyway
  pc, op,       \* where each actor is, and the call it serves
  box,          \* the box an actor's call has in hand
  got,          \* what GetAllProxiesSnapshots returned to it
  stamp,        \* history: the version its call wrote, or has to show
  finished,     \* history: the newest version a call that returned has written
  crashed       \* a nil box was dereferenced where nothing recovers

sources == <<core, lost, staticLock>>
caches  == <<status, statusLock, all, main, refreshLock, dirty, due>>
locals  == <<op, box, got, stamp>>
vars    == <<sources, caches, pc, locals, finished, crashed>>

\* `up` is the "ok" of the envelope, `gen` the version that published the box.
Views == [up : BOOLEAN, v : 0 .. MaxVersion + 1, gen : 0 .. MaxVersion]
Nothing == [up |-> FALSE, v |-> 0, gen |-> 0]

Init ==
  /\ core = Nothing /\ lost = {} /\ staticLock = Nobody
  /\ status = Nothing /\ statusLock = Nobody
  /\ all = Nothing /\ main = Nothing /\ refreshLock = Nobody
  /\ dirty = TRUE /\ due = FALSE
  /\ pc = [a \in Actor |-> IF a \in {updater, ticker} THEN "off" ELSE "idle"]
  /\ op = [a \in Actor |-> "none"]
  /\ box = [a \in Actor |-> 0]
  /\ got = [a \in Actor |-> Nothing]
  /\ stamp = [a \in Actor |-> 0]
  /\ finished = 0
  /\ crashed = FALSE

------------------------------------------------------------------------------
At(a, label) == ~crashed /\ pc[a] = label

Goto(a, label) == pc' = [pc EXCEPT ![a] = label]

\* An actor is through: a caller returns and the goroutines sleep or end.
Leave(a) ==
  /\ Goto(a, IF a \in {updater, ticker} THEN "sleep" ELSE "idle")
  /\ op' = [op EXCEPT ![a] = "none"]
  /\ box' = [box EXCEPT ![a] = 0]
  /\ got' = [got EXCEPT ![a] = Nothing]
  /\ stamp' = [stamp EXCEPT ![a] = 0]

\* It leaves with what it wants to do done.
Finish(a) ==
  /\ Leave(a)
  /\ finished' = IF a \in Caller /\ stamp[a] > finished THEN stamp[a] ELSE finished

Release(a, mutex) == IF mutex = a THEN Nobody ELSE mutex

\* A change of what the core shows, written by actor a.
Change(a) ==
  /\ core.v < MaxVersion
  /\ core' = [core EXCEPT !.v = @ + 1]
  /\ stamp' = [stamp EXCEPT ![a] = core.v + 1]

\* static.Box turned nil under the hands of actor a.  The recover() of
\* StartService catches that, and the deferred unlocks run; everywhere else the
\* process ends.
NilBox(a) ==
  /\ ~core.up
  /\ IF op[a] = "start"
       THEN /\ Leave(a)
            /\ staticLock' = Release(a, staticLock)
            /\ statusLock' = Release(a, statusLock)
            /\ refreshLock' = Release(a, refreshLock)
            /\ UNCHANGED <<finished, crashed>>
       ELSE /\ crashed' = TRUE
            /\ UNCHANGED <<pc, locals, finished, staticLock, statusLock, refreshLock>>
  /\ UNCHANGED <<core, lost, status, all, main, dirty, due>>

------------------------------------------------------------------------------
(* The core, as far as the caches can tell.                                *)

StartPublishes(a) ==
  /\ At(a, "start") /\ staticLock = Nobody
  /\ ~core.up /\ core.v < MaxVersion
  /\ staticLock' = a
  /\ core' = [up |-> TRUE, v |-> core.v + 1, gen |-> core.v + 1]
  /\ stamp' = [stamp EXCEPT ![a] = core.v + 1]
  /\ Goto(a, "status")
  /\ UNCHANGED <<lost, caches, op, box, got, finished, crashed>>

\* Mutant of StopClears: Stop does not refresh the status.
StopSkipsStatus(a) ==
  /\ At(a, "stop") /\ staticLock = Nobody
  /\ core.up
  /\ staticLock' = a
  /\ core' = [core EXCEPT !.up = FALSE, !.v = @ + 1]
  /\ stamp' = [stamp EXCEPT ![a] = core.v + 1]
  /\ Goto(a, "mark")
  /\ UNCHANGED <<lost, caches, op, box, got, finished, crashed>>

\* Mutant of StopClears: the stop counts as the publication of a box.
StopPublishes(a) ==
  /\ At(a, "stop") /\ staticLock = Nobody
  /\ core.up
  /\ staticLock' = a
  /\ core' = [up |-> FALSE, v |-> core.v + 1, gen |-> core.v + 1]
  /\ stamp' = [stamp EXCEPT ![a] = core.v + 1]
  /\ Goto(a, "status")
  /\ UNCHANGED <<lost, caches, op, box, got, finished, crashed>>

StopClears(a) ==
  /\ At(a, "stop") /\ staticLock = Nobody
  /\ core.up
  /\ staticLock' = a
  /\ core' = [core EXCEPT !.up = FALSE, !.v = @ + 1]
  /\ stamp' = [stamp EXCEPT ![a] = core.v + 1]
  /\ Goto(a, "status")
  /\ UNCHANGED <<lost, caches, op, box, got, finished, crashed>>

\* A start that fails before it publishes, a stop that finds no box.
LifecycleEnds(a) ==
  /\ At(a, "start") \/ (At(a, "stop") /\ ~core.up)
  /\ staticLock = Nobody
  /\ Finish(a)
  /\ UNCHANGED <<sources, caches, crashed>>

\* StopAndAlert, from an error return or from an unlocked panic handler.
StopAndAlert ==
  /\ Alerts /\ ~crashed
  /\ core.up
  /\ core' = [core EXCEPT !.up = FALSE, !.v = @ + 1]
  /\ lost' = lost \cup {core.gen}
  /\ UNCHANGED <<staticLock, caches, pc, locals, finished, crashed>>

------------------------------------------------------------------------------
(* Calls.                                                                  *)

\* A reader makes sure that the updater runs.
Call(a, o) ==
  /\ At(a, "idle") /\ a \in Caller
  /\ op' = [op EXCEPT ![a] = o]
  /\ stamp' = [stamp EXCEPT ![a] = IF o \in {"read", "poll"} THEN finished ELSE 0]
  /\ pc' = [pc EXCEPT ![a] = o,
                      ![updater] = IF o = "read" /\ @ = "off" THEN "refresh" ELSE @,
                      ![ticker] = IF o = "poll" /\ @ = "off" THEN "status" ELSE @]
  /\ UNCHANGED <<sources, caches, box, got, finished, crashed>>

\* SelectOutbound looks its group up in the box without asking whether there is
\* one, and gives up when it has no such selector.
SelectFindsGroup(a) ==
  /\ At(a, "select") /\ core.up
  /\ box' = [box EXCEPT ![a] = core.gen]
  /\ Goto(a, "selectApply")
  /\ UNCHANGED <<sources, caches, op, got, stamp, finished, crashed>>

SelectRefused(a) ==
  /\ (At(a, "select") /\ core.up) \/ At(a, "selectApply")
  /\ Finish(a)
  /\ UNCHANGED <<sources, caches, crashed>>

\* The selection changes what the core shows unless the box has been replaced,
\* or the outbound was selected already.
SelectApply(a) ==
  /\ At(a, "selectApply")
  /\ \/ core.up /\ core.gen = box[a] /\ Change(a)
     \/ UNCHANGED <<core, stamp>>
  /\ Goto(a, "mark")
  /\ UNCHANGED <<lost, staticLock, caches, op, box, got, finished, crashed>>

UrlTestBegins(a) ==
  /\ At(a, "urltest")
  /\ IF core.up
       THEN Goto(a, "mark") /\ UNCHANGED <<locals, finished>>
       ELSE Finish(a)
  /\ UNCHANGED <<sources, caches, crashed>>

\* Mutant of MarkDirty: SelectOutbound leaves the refresh to its goroutine and to
\* whoever finds the mark.
MarkDirtyOnly(a) ==
  /\ At(a, "mark")
  /\ dirty' = TRUE
  /\ \/ /\ op[a] = "select"
        /\ \E w \in Worker : /\ pc[w] = "idle"
                             /\ pc' = [pc EXCEPT ![a] = "status", ![w] = "test"]
     \/ op[a] = "urltest" /\ Goto(a, "test")
     \/ op[a] \in {"start", "stop"} /\ Goto(a, "refresh")
  /\ UNCHANGED <<sources, status, statusLock, all, main, refreshLock, due,
                 locals, finished, crashed>>

\* markFFIOutboundsDirty.  SelectOutbound then starts its goroutine.
MarkDirty(a) ==
  /\ At(a, "mark")
  /\ dirty' = TRUE
  /\ \/ /\ op[a] = "select"
        /\ \E w \in Worker : /\ pc[w] = "idle"
                             /\ pc' = [pc EXCEPT ![a] = "refresh", ![w] = "test"]
     \/ op[a] = "urltest" /\ Goto(a, "test")
     \/ op[a] \in {"start", "stop"} /\ Goto(a, "refresh")
  /\ UNCHANGED <<sources, status, statusLock, all, main, refreshLock, due,
                 locals, finished, crashed>>

\* Mutant of Test: the goroutine does not refresh when its tests are done.
TestOnly(a) ==
  /\ At(a, "test") /\ core.up
  /\ Change(a) \/ UNCHANGED <<core, stamp>>
  /\ Goto(a, IF a \in Worker THEN "idle" ELSE "refresh")
  /\ UNCHANGED <<lost, staticLock, caches, op, box, got, finished, crashed>>

\* URL tests, of UrlTest and of the goroutine of SelectOutbound.
Test(a) ==
  /\ At(a, "test") /\ core.up
  /\ Change(a) \/ UNCHANGED <<core, stamp>>
  /\ Goto(a, "refresh")
  /\ UNCHANGED <<lost, staticLock, caches, op, box, got, finished, crashed>>

\* SelectOutbound, its goroutine and UrlTest use static.Box unchecked.
CallMeetsNilBox(a) ==
  /\ At(a, "select") \/ At(a, "test")
  /\ NilBox(a)

------------------------------------------------------------------------------
(* refreshAllFFIOutbounds.                                                 *)

\* Mutant of WantsRefresh: the updater refreshes dirty caches only.
WantsDirty(a) ==
  \/ At(a, "refresh")
  \/ a = updater /\ At(a, "sleep") /\ dirty

\* The updater wakes up and looks again once it has the lock.
WantsRefresh(a) ==
  \/ At(a, "refresh")
  \/ a = updater /\ At(a, "sleep") /\ (dirty \/ due)

\* Mutant of RefreshLocked: refreshes overlap.
RefreshUnlocked(a) ==
  /\ WantsRefresh(a)
  /\ IF core.up
       THEN Goto(a, "fetch") /\ UNCHANGED got
       ELSE Goto(a, "setAll") /\ got' = [got EXCEPT ![a] = core]
  /\ UNCHANGED <<sources, status, statusLock, all, main, dirty, due, refreshLock,
                 op, box, stamp, finished, crashed>>

RefreshLocked(a) ==
  /\ WantsRefresh(a) /\ refreshLock = Nobody
  /\ refreshLock' = a
  /\ IF core.up
       THEN Goto(a, "fetch") /\ UNCHANGED got
       ELSE Goto(a, "setAll") /\ got' = [got EXCEPT ![a] = core]
  /\ UNCHANGED <<sources, status, statusLock, all, main, dirty, due,
                 op, box, stamp, finished, crashed>>

\* GetAllProxiesSnapshots; with no box any more it returns nil or panics.
Fetch(a) ==
  /\ At(a, "fetch")
  /\ got' = [got EXCEPT ![a] = core]
  /\ Goto(a, "setAll")
  /\ UNCHANGED <<sources, caches, op, box, stamp, finished, crashed>>

FetchMeetsNilBox(a) == At(a, "fetch") /\ NilBox(a)

SetAll(a) ==
  /\ At(a, "setAll")
  /\ all' = got[a]
  /\ Goto(a, "setMain")
  /\ UNCHANGED <<sources, status, statusLock, main, refreshLock, dirty, due,
                 locals, finished, crashed>>

\* Where each caller of refreshAllFFIOutbounds goes on.
AfterRefresh(a) ==
  IF op[a] = "read" THEN Goto(a, "serve") /\ UNCHANGED <<locals, finished>>
  ELSE IF op[a] \in {"start", "stop"} \/ a = updater THEN Finish(a)
  ELSE Goto(a, "status") /\ UNCHANGED <<locals, finished>>

\* The second cache, and recordFFIOutboundsRefresh.
SetMainAndRecord(a) ==
  /\ At(a, "setMain")
  /\ main' = got[a]
  /\ dirty' = FALSE
  /\ due' = FALSE
  /\ refreshLock' = Nobody
  /\ staticLock' = Release(a, staticLock)
  /\ AfterRefresh(a)
  /\ UNCHANGED <<core, lost, status, statusLock, all, crashed>>

------------------------------------------------------------------------------
(* refreshFFIStatus.                                                       *)

AfterStatus(a) ==
  IF op[a] \in {"start", "stop"}
    THEN Goto(a, "mark") /\ UNCHANGED <<locals, finished>>
    ELSE Finish(a)

StatusCheck(a) ==
  /\ At(a, "status") \/ (a = ticker /\ At(a, "sleep"))
  /\ statusLock = Nobody
  /\ IF core.up
       THEN /\ Goto(a, "statusRead") /\ statusLock' = a
            /\ UNCHANGED <<status, locals, finished>>
       ELSE /\ status' = core /\ UNCHANGED statusLock
            /\ AfterStatus(a)
  /\ UNCHANGED <<sources, all, main, refreshLock, dirty, due, crashed>>

\* readStatus; with no box any more its result is empty, but still "ok".
StatusRead(a) ==
  /\ At(a, "statusRead")
  /\ status' = [core EXCEPT !.up = TRUE]
  /\ statusLock' = Nobody
  /\ AfterStatus(a)
  /\ UNCHANGED <<sources, all, main, refreshLock, dirty, due, crashed>>

StatusMeetsNilBox(a) == At(a, "statusRead") /\ NilBox(a)

------------------------------------------------------------------------------
(* Readers: SnapshotOutboundsJSON and SnapshotSystemInfoJSON.              *)

ReadChecksDirty(a) ==
  /\ At(a, "read")
  /\ Goto(a, IF dirty THEN "refresh" ELSE "serve")
  /\ UNCHANGED <<sources, caches, locals, finished, crashed>>

Serve(a) ==
  /\ At(a, "serve") \/ (At(a, "poll") /\ statusLock = Nobody)
  /\ Finish(a)
  /\ UNCHANGED <<sources, caches, crashed>>

\* Time passes.
Pass ==
  /\ ~crashed
  /\ due' = TRUE
  /\ UNCHANGED <<sources, status, statusLock, all, main, refreshLock, dirty,
                 pc, locals, finished, crashed>>

------------------------------------------------------------------------------
TakesLock(a) == StartPublishes(a) \/ StopClears(a) \/ LifecycleEnds(a)
                  \/ RefreshLocked(a) \/ StatusCheck(a) \/ Serve(a)

Step(a) ==
  \/ TakesLock(a)
  \/ SelectFindsGroup(a) \/ SelectRefused(a) \/ SelectApply(a)
  \/ UrlTestBegins(a) \/ MarkDirty(a) \/ Test(a) \/ CallMeetsNilBox(a)
  \/ Fetch(a) \/ FetchMeetsNilBox(a) \/ SetAll(a) \/ SetMainAndRecord(a)
  \/ StatusRead(a) \/ StatusMeetsNilBox(a) \/ ReadChecksDirty(a)

Next ==
  \/ \E a \in Actor : (\E o \in Ops : Call(a, o)) \/ Step(a)
  \/ StopAndAlert
  \/ Pass

Spec == Init /\ [][Next]_vars

(* Goroutines are scheduled, the mutexes of package sync do not starve a   *)
(* waiter, the timers of the two updaters go on firing and time passes.    *)
Fairness ==
  /\ \A a \in Actor : WF_vars(Step(a)) /\ SF_vars(TakesLock(a))
  /\ WF_vars(Pass)

FairSpec == Spec /\ Fairness

------------------------------------------------------------------------------
(* Properties.                                                             *)

TypeOK ==
  /\ core \in Views /\ status \in Views /\ all \in Views /\ main \in Views
  /\ lost \subseteq 1 .. MaxVersion
  /\ {staticLock, statusLock, refreshLock} \subseteq Actor \cup {Nobody}
  /\ dirty \in BOOLEAN /\ due \in BOOLEAN
  /\ pc \in [Actor -> Ops \cup {"off", "idle", "sleep", "selectApply", "mark", "test",
                 "refresh", "fetch", "setAll", "setMain", "status", "statusRead", "serve"}]
  /\ op \in [Actor -> Ops \cup {"none"}]
  /\ box \in [Actor -> 0 .. MaxVersion]
  /\ got \in [Actor -> Views]
  /\ stamp \in [Actor -> 0 .. MaxVersion + 1]
  /\ finished \in 0 .. MaxVersion + 1
  /\ crashed \in BOOLEAN

\* A snapshot is never replaced by an older one, however the refreshes of the
\* callers, the workers and the updaters overlap.
NeverGoesBack ==
  [][status'.v >= status.v /\ all'.v >= all.v /\ main'.v >= main.v]_vars

\* What a call changed is in every snapshot that is asked for after the call has
\* returned: no reader is served a cache older than a finished start, stop,
\* selection or test.
ReadsSeeFinishedCalls ==
  [][\A a \in Caller :
       /\ At(a, "serve") /\ pc'[a] = "idle" => all.v >= stamp[a] /\ main.v >= stamp[a]
       /\ At(a, "poll") /\ pc'[a] = "idle" => status.v >= stamp[a]]_vars

Quiet ==
  /\ ~crashed
  /\ \A a \in Caller \cup Worker : pc[a] = "idle"
  /\ refreshLock = Nobody /\ statusLock = Nobody

\* When nothing is under way the caches show the core as it is.  Only a box that
\* a StopAndAlert took away may still be shown.
QuietIsFresh ==
  Quiet => \/ status = core /\ all = core /\ main = core
           \/ ~core.up /\ core.gen \in lost

\* The uplink rate is the difference of two totals of one box: the status of a
\* box that was stopped is forgotten before the next box is read.  (A box that an
\* alert took away is not, and the first rate after it may be negative.)
RatesAreOfOneBox ==
  [][status.up /\ status'.up /\ status.gen # status'.gen => status.gen \in lost]_vars

\* A core that was taken down by an alert is not shown as running for ever: the
\* updaters that clients have started find out.
SnapshotsFindOut ==
  /\ (~core.up /\ pc[ticker] # "off") ~> (~status.up \/ core.up \/ crashed)
  /\ (~core.up /\ pc[updater] # "off") ~> (~(all.up \/ main.up) \/ core.up \/ crashed)
==============================================================================
