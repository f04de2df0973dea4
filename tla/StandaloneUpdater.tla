--------------------------- MODULE StandaloneUpdater ---------------------------
(***************************************************************************)
(* `run` from the command line (v2/hcore/standalone.go): the main          *)
(* goroutine starts the core with a profile and waits for a signal, an     *)
(* updater reads the profile again from time to time and restarts the core *)
(* when it has changed.  The two share the core, whose promise is          *)
(* CoreService; neither looks at what its calls return.                    *)
(***************************************************************************)
EXTENDS Naturals

CONSTANTS
  Config,     \* configurations built from the profile
  Down        \* no service

ASSUME UpdaterConstantsOK == Down \notin Config

VARIABLES
  service, call,   \* the core, as in CoreService
  want,            \* the configuration in the request of each goroutine
  source,          \* the configuration the profile would give now
  current,         \* `current` of updateConfigInterval
  pc,
  failed,          \* history: the configuration of the last start, if it failed
  raced            \* history: the signal came while the core was restarted

vars == <<service, call, want, source, current, pc, failed, raced>>
core == <<service, call>>

Goroutine == {"main", "updater"}

Core == INSTANCE CoreService WITH Thread <- Goroutine

Labels == [main : {"read", "start", "starting", "wait", "stopping", "exited"},
           updater : {"none", "sleep", "stopping", "start", "starting"}]

Restarting == {"stopping", "start", "starting"}

Init ==
  /\ Core!Init
  /\ want = [g \in Goroutine |-> Down]
  /\ source \in Config
  /\ current = source
  /\ pc = [main |-> "read", updater |-> "none"]
  /\ failed = Down
  /\ raced = FALSE

At(g, label) == pc.main # "exited" /\ pc[g] = label

Goto(g, label) == pc' = [pc EXCEPT ![g] = label]

\* The owner of the profile edits it.
Edit ==
  /\ pc.main # "exited"
  /\ source' \in Config \ {source}
  /\ UNCHANGED <<core, want, current, pc, failed, raced>>

------------------------------------------------------------------------------
(* What the core does with a call of g.                                    *)

StartSucceeds(g) ==
  /\ pc.main # "exited"
  /\ Core!StartSucceeds(g)
  /\ service' = want[g]
  /\ failed' = Down
  /\ UNCHANGED <<want, source, current, pc, raced>>

StartFails(g) ==
  /\ pc.main # "exited"
  /\ Core!StartFails(g)
  /\ failed' = want[g]
  /\ UNCHANGED <<want, source, current, pc, raced>>

StopTakesEffect(g) ==
  /\ pc.main # "exited"
  /\ Core!StopTakesEffect(g)
  /\ UNCHANGED <<want, source, current, pc, failed, raced>>

------------------------------------------------------------------------------
(* RunStandalone.                                                          *)

\* readAndBuildConfig; if it fails there is nothing to run.
MainReads ==
  /\ At("main", "read")
  /\ \/ current' = source /\ Goto("main", "start")
     \/ UNCHANGED current /\ Goto("main", "exited")
  /\ UNCHANGED <<core, want, source, failed, raced>>

MainStarts ==
  /\ At("main", "start")
  /\ Core!Invoke("main", "start")
  /\ want' = [want EXCEPT !["main"] = current]
  /\ Goto("main", "starting")
  /\ UNCHANGED <<source, current, failed, raced>>

\* The result of StartService is ignored.  The updater gives up at once when the
\* profile names no interval; later it does not ask again.
MainStarted ==
  /\ At("main", "starting")
  /\ Core!Return("main")
  /\ want' = [want EXCEPT !["main"] = Down]
  /\ \E u \in {"sleep", "none"} : pc' = [main |-> "wait", updater |-> u]
  /\ UNCHANGED <<source, current, failed, raced>>

\* Mutant of MainStops: it leaves the core to the end of the process.
MainLeaves ==
  /\ At("main", "wait")
  /\ Goto("main", "exited")
  /\ UNCHANGED <<core, want, source, current, failed, raced>>

\* The signal.
MainStops ==
  /\ At("main", "wait")
  /\ Core!Invoke("main", "stop")
  /\ Goto("main", "stopping")
  /\ raced' = (pc.updater \in Restarting)
  /\ UNCHANGED <<want, source, current, failed>>

MainExits ==
  /\ At("main", "stopping")
  /\ Core!Return("main")
  /\ Goto("main", "exited")
  /\ UNCHANGED <<want, source, current, failed, raced>>

------------------------------------------------------------------------------
(* updateConfigInterval.                                                   *)

\* The timer fires and the profile has changed.  Nothing happens if it has not, or
\* if it cannot be read or built: the timer is set again.
FindsNew ==
  /\ At("updater", "sleep")
  /\ source # current
  /\ Core!Invoke("updater", "stop")
  /\ want' = [want EXCEPT !["updater"] = source]
  /\ Goto("updater", "stopping")
  /\ raced' = (raced \/ pc.main = "stopping")
  /\ UNCHANGED <<source, current, failed>>

UpdaterStopped ==
  /\ At("updater", "stopping")
  /\ Core!Return("updater")
  /\ Goto("updater", "start")
  /\ UNCHANGED <<want, source, current, failed, raced>>

UpdaterStarts ==
  /\ At("updater", "start")
  /\ Core!Invoke("updater", "start")
  /\ Goto("updater", "starting")
  /\ UNCHANGED <<want, source, current, failed, raced>>

\* Mutant of UpdaterStarted: a configuration that failed does not become current.
UpdaterKeepsOld ==
  /\ At("updater", "starting")
  /\ Core!Return("updater")
  /\ current' = IF failed = want.updater THEN current ELSE want.updater
  /\ want' = [want EXCEPT !["updater"] = Down]
  /\ Goto("updater", "sleep")
  /\ UNCHANGED <<source, failed, raced>>

\* Mutant of UpdaterStarted: the profile is read once more to remember it.
UpdaterRereads ==
  /\ At("updater", "starting")
  /\ Core!Return("updater")
  /\ current' = source
  /\ want' = [want EXCEPT !["updater"] = Down]
  /\ Goto("updater", "sleep")
  /\ UNCHANGED <<source, failed, raced>>

\* Mutant of UpdaterStarted: a failed start clears `current`.
UpdaterForgets ==
  /\ At("updater", "starting")
  /\ Core!Return("updater")
  /\ current' = IF failed = want.updater THEN Down ELSE want.updater
  /\ want' = [want EXCEPT !["updater"] = Down]
  /\ Goto("updater", "sleep")
  /\ UNCHANGED <<source, failed, raced>>

\* current = new, whether it started or not.
UpdaterStarted ==
  /\ At("updater", "starting")
  /\ Core!Return("updater")
  /\ current' = want.updater
  /\ want' = [want EXCEPT !["updater"] = Down]
  /\ Goto("updater", "sleep")
  /\ UNCHANGED <<source, failed, raced>>

------------------------------------------------------------------------------
Effects(g) == StartSucceeds(g) \/ StartFails(g) \/ StopTakesEffect(g)

Main == MainReads \/ MainStarts \/ MainStarted \/ MainExits

Updater == FindsNew \/ UpdaterStopped \/ UpdaterStarts \/ UpdaterStarted

Next == Edit \/ MainStops \/ Main \/ Updater \/ \E g \in Goroutine : Effects(g)

Spec == Init /\ [][Next]_vars

(* Goroutines are scheduled, the core's calls return (EveryCallReturns of  *)
(* CoreLifecycle) and the timer goes on firing, and the profile can be read *)
(* now and then.  The signal need not come.                                *)
Fairness ==
  /\ WF_vars(Main) /\ WF_vars(Updater)
  /\ \A g \in Goroutine : WF_vars(Effects(g))

FairSpec == Spec /\ Fairness

------------------------------------------------------------------------------
(* Properties.                                                             *)

TypeOK ==
  /\ Core!TypeOK
  /\ want \in [Goroutine -> Config \cup {Down}]
  /\ source \in Config /\ current \in Config
  /\ pc \in Labels
  /\ failed \in Config \cup {Down}
  /\ raced \in BOOLEAN

\* Between two updates the core runs what the updater believes it runs, or
\* nothing, and then because exactly that configuration did not start: a restart
\* never leaves an older configuration running.
RunsCurrent ==
  pc.main = "wait" /\ pc.updater \in {"none", "sleep"} =>
    service = current \/ (service = Down /\ failed = current)

\* After the signal the program ends with the service stopped, unless the signal
\* met the updater in the middle of a restart: then the updater's StartService may
\* come after main's Stop, and the service dies with the process.
NothingLeftRunning ==
  pc.main = "exited" /\ service # Down => raced

\* A profile that stays as it is ends up running as long as there is an updater
\* and no signal; only a configuration whose last start failed does not, because
\* it is not tried again.
UpToDate ==
  \A c \in Config :
    <>[](source = c /\ pc.main = "wait" /\ pc.updater # "none")
      => <>[](service = c \/ failed = c)
==============================================================================
