---------------------------- MODULE ExtensionHost ----------------------------
(***************************************************************************)
(* The extension host: the rows that say which extensions are enabled, the *)
(* instances that are loaded, the queue of one message in each             *)
(* (extension.go), and the calls of ExtensionHostService that work on them *)
(* (extension_host.go).  The client's side is ExtensionPage.               *)
(*                                                                         *)
(* Every extension here embeds Base, as every one has to that is to have a *)
(* form: a type assertion to *Base[any] on it panics, no interceptor       *)
(* recovers, and the process dies.  Concurrent access to the unguarded map *)
(* of instances may also end the process; Crash stands for that.           *)
(*                                                                         *)
(* The rows are in a CoreDB table, of which any call may fail.             *)
(***************************************************************************)
EXTENDS PageWire, Naturals, Sequences, SequencesExt

CONSTANTS
  Ext,          \* registered extensions
  Enabled,      \* those whose rows are enabled at first
  MaxStreams,   \* bound: calls of Connect
  MaxEdits,     \* bound: calls of EditExtension
  MaxSubmits,   \* bound: calls of SubmitForm
  MaxCalls,     \* bound: calls of these three together
  MaxFaults     \* bound: broken streams, lost answers, crashes, restarts and page reloads

VARIABLES
  alive,     \* the process runs
  enabled,   \* rows: extensionData.Enable
  inst,      \* enabledExtensionsMap: the number of the loaded instance, 0 where none
  made,      \* instances built so far
  missed,    \* ghost: what a failing table call left enabled and not loaded
  queue,     \* the queue of each instance
  spoiled,   \* ghost: instances that lost a message, or kept one that no stream waited for
  conns,     \* calls of Connect
  edits,     \* calls of EditExtension
  submits,   \* calls of SubmitForm under way
  sent,      \* how many there were
  closing    \* the call of Close

hostVars == <<alive, enabled, inst, made, missed, queue, spoiled, sent>>

Unused == [at |-> "unused"]
Over == [at |-> "over"]
Number0 == 0..(1 + MaxEdits + MaxFaults)
None == "none"

ASSUME HostConstantsOK ==
  /\ Enabled \subseteq Ext /\ None \notin Ext
  /\ {MaxStreams, MaxEdits, MaxSubmits, MaxCalls, MaxFaults} \subseteq Nat

\* Mutant of Loaded: the rows are not asked.
LoadedAll(S) == [e \in Ext |-> made[e] + 1]

\* enabledExtensionsMap of a process that has just loaded S.
Loaded(S) == [e \in Ext |-> IF e \in S THEN made[e] + 1 ELSE 0]

HostInit ==
  /\ alive = TRUE
  /\ enabled = [e \in Ext |-> e \in Enabled]
  /\ made = [e \in Ext |-> IF enabled[e] THEN 1 ELSE 0]
  /\ inst = made /\ missed = {}
  /\ queue = [e \in Ext |-> [n \in Number0 |-> <<>>]]
  /\ spoiled = {}
  /\ conns = [s \in 1..MaxStreams |-> Unused]
  /\ edits = [t \in 1..MaxEdits |-> Unused]
  /\ submits = <<>> /\ sent = 0
  /\ closing = Unused

\* getExtension finds an extension whose row is enabled, if its instance is there.
\* It may find nothing all the same: isEnable takes a row that cannot be read for
\* one that is not enabled.
Available(e) == enabled[e] /\ inst[e] # 0

\* A call that fails on the server, or with it.
Failed(call) == [call EXCEPT !.at = "failed"]
Serving(call) == call.at \notin {"unused", "failed", "answer", "over"}

\* The process is gone, and every call and stream with it.
Dies ==
  /\ alive' = FALSE
  /\ inst' = [e \in Ext |-> 0]
  /\ queue' = [e \in Ext |-> [n \in Number0 |-> <<>>]]
  /\ spoiled' = {}
  /\ missed' = {}
  /\ conns' = [s \in DOMAIN conns |-> IF conns[s] = Unused THEN Unused ELSE Over]
  /\ edits' = [t \in DOMAIN edits |-> IF Serving(edits[t]) THEN Failed(edits[t]) ELSE edits[t]]
  /\ submits' = <<>>
  /\ closing' = Unused
  /\ UNCHANGED <<enabled, made, sent>>

-----------------------------------------------------------------------------
(* Connect.                                                                *)

UiMessage(e, type) == Write(V!ExtensionResponse, [type |-> type, extension_id |-> e, json_ui |-> "{}"])
UPDATE_UI == B!ExtensionResponseType.UPDATE_UI
SHOW_DIALOG == B!ExtensionResponseType.SHOW_DIALOG

QueueOf(c) == queue[c.ext][c.inst]
Room(c) == QueueOf(c) = <<>>
Put(c, type) == queue' = [queue EXCEPT ![c.ext][c.inst] = <<type>>]
Empties(c) == queue' = [queue EXCEPT ![c.ext][c.inst] = <<>>]
Key(c) == <<c.ext, c.inst>>

\* Mutant of ConnectBegins: the extension is not told that its page was opened.
ConnectWithoutForm(s) ==
  /\ alive /\ conns[s].at = "sent"
  /\ \/ /\ Available(conns[s].ext)
        /\ conns' = [conns EXCEPT ![s].at = "loop", ![s].inst = inst[conns[s].ext]]
     \/ conns' = [conns EXCEPT ![s] = Over]
  /\ UNCHANGED <<hostVars, edits, submits, closing>>

\* The call is served: the instance is looked up, once and for all, or the call is
\* refused.  A refusal has no message in it, which is an 'error' to the page and
\* not an 'end': the page does not connect again.  (It would after an 'end', but
\* Connect returns without an error only to a page that is gone.)
ConnectBegins(s) ==
  /\ alive /\ conns[s].at = "sent"
  /\ \/ /\ Available(conns[s].ext)
        /\ conns' = [conns EXCEPT ![s].at = "push", ![s].inst = inst[conns[s].ext]]
     \/ conns' = [conns EXCEPT ![s] = Over]
  /\ UNCHANGED <<hostVars, edits, submits, closing>>

\* Mutant of ConnectPushes: the stream is over once its form is queued.
ConnectOnlyPushes(s) ==
  /\ conns[s].at = "push" /\ Room(conns[s])
  /\ Put(conns[s], UPDATE_UI)
  /\ conns' = [conns EXCEPT ![s] = Over]
  /\ UNCHANGED <<alive, enabled, inst, made, missed, spoiled, sent, edits, submits, closing>>

\* OnUIOpen's form is put on the queue before anything is taken off it: where a
\* message is left there, and no other stream takes it, this waits forever.
ConnectPushes(s) ==
  /\ conns[s].at = "push" /\ Room(conns[s])
  /\ Put(conns[s], UPDATE_UI)
  /\ conns' = [conns EXCEPT ![s].at = "loop"]
  /\ UNCHANGED <<alive, enabled, inst, made, missed, spoiled, sent, edits, submits, closing>>

\* What Send reports is ignored: a message for a stream that is gone is lost.
ConnectSends(s) ==
  /\ conns[s].at = "loop" /\ ~Room(conns[s])
  /\ Empties(conns[s])
  /\ IF conns[s].page = "live"
     THEN conns' = [conns EXCEPT ![s].net = Append(@, UiMessage(conns[s].ext, Head(QueueOf(conns[s]))))]
          /\ spoiled' = spoiled
     ELSE conns' = conns /\ spoiled' = spoiled \cup {Key(conns[s])}
  /\ UNCHANGED <<alive, enabled, inst, made, missed, sent, edits, submits, closing>>

\* The stream's context is done.
ConnectReturns(s) ==
  /\ conns[s].at = "loop" /\ conns[s].page # "live"
  /\ conns' = [conns EXCEPT ![s] = Over]
  /\ spoiled' = IF Room(conns[s]) THEN spoiled ELSE spoiled \cup {Key(conns[s])}
  /\ UNCHANGED <<alive, enabled, inst, made, missed, queue, sent, edits, submits, closing>>

-----------------------------------------------------------------------------
(* SubmitForm, Close and EditExtension.                                    *)

\* A stream of c's instance that will take what is put on its queue.
Waiting(c) == \E s \in DOMAIN conns : conns[s].at = "loop" /\ Key(conns[s]) = Key(c) /\ conns[s].page = "live"

Submits(k, c, type) ==
  /\ Put(c, type)
  /\ spoiled' = IF Waiting(c) THEN spoiled ELSE spoiled \cup {Key(c)}
  /\ submits' = RemoveAt(submits, k)

\* OnDataSubmit, the extension's own code, may put an update or a dialog on the
\* queue, for which it waits until there is room, or nothing.  (Of submissions
\* that are the same the first is served, which loses nothing.)
SubmitBegins(k) ==
  /\ alive /\ submits[k].at = "sent"
  /\ \A j \in 1..(k - 1) : submits[j] # submits[k]
  /\ \/ submits' = RemoveAt(submits, k) /\ UNCHANGED <<queue, spoiled>>
     \/ \E type \in {UPDATE_UI, SHOW_DIALOG} :
          LET c == [submits[k] EXCEPT !.at = "push", !.inst = inst[submits[k].ext], !.type = type]
          IN /\ Available(c.ext)
             /\ IF Room(c) THEN Submits(k, c, type)
                ELSE submits' = [submits EXCEPT ![k] = c] /\ UNCHANGED <<queue, spoiled>>
  /\ UNCHANGED <<alive, enabled, inst, made, missed, sent, conns, edits, closing>>

SubmitPushes(k) ==
  /\ submits[k].at = "push" /\ Room(submits[k])
  /\ Submits(k, submits[k], submits[k].type)
  /\ UNCHANGED <<alive, enabled, inst, made, missed, sent, conns, edits, closing>>

\* Close of an extension that is not found is an error; of one that is, OnUIClose
\* is called and the assertion panics.
CloseServed ==
  /\ alive /\ closing.at = "sent"
  /\ \/ Available(closing.ext) /\ Dies
     \/ closing' = Unused /\ UNCHANGED <<hostVars, conns, edits, submits>>

\* EditExtension, first part.  To disable an extension that is found is to close
\* it, with the same end; any other is ...
EditLooks(t) ==
  /\ alive /\ edits[t].at = "sent" /\ ~edits[t].enable
  /\ \/ Available(edits[t].ext) /\ Dies
     \/ /\ edits' = [edits EXCEPT ![t].at = "remove"]
        /\ UNCHANGED <<hostVars, conns, submits, closing>>

\* ... taken off the map, which is where it may still be if its row was not read.
EditRemoves(t) ==
  /\ edits[t].at = "remove"
  /\ inst' = [inst EXCEPT ![edits[t].ext] = 0]
  /\ edits' = [edits EXCEPT ![t].at = "store"]
  /\ UNCHANGED <<alive, enabled, made, missed, queue, spoiled, sent, conns, submits, closing>>

\* A call of EditExtension goes on or ends without the table call it made for e.
Misses(e) == missed' = IF enabled[e] /\ inst[e] = 0 THEN missed \cup {e} ELSE missed

AtRow(t) == alive /\ Serving(edits[t]) /\ edits[t].at = (IF edits[t].enable THEN "sent" ELSE "store")

\* The row is written, or cannot be read, or is read and cannot be written.  The
\* last is not noticed: what is to be loaded is tried all the same.
EditStores(t) ==
  /\ AtRow(t)
  /\ LET e == edits[t].ext
         Goes == edits' = [edits EXCEPT ![t].at = IF edits[t].enable THEN "load" ELSE "answer"]
     IN \/ enabled' = [enabled EXCEPT ![e] = edits[t].enable] /\ missed' = missed /\ Goes
        \/ enabled' = enabled /\ Misses(e) /\ edits' = [edits EXCEPT ![t] = Failed(@)]
        \/ enabled' = enabled /\ Misses(e) /\ Goes
  /\ UNCHANGED <<alive, inst, made, queue, spoiled, sent, conns, submits, closing>>

\* loadExtension reads the row again: if it is enabled, and can be read, a new
\* instance is built.  Otherwise the call is answered as if there were one.  (To
\* miss a row that is not enabled changes nothing.)
EditLoads(t) ==
  /\ edits[t].at = "load"
  /\ \/ /\ enabled[edits[t].ext]
        /\ edits' = [edits EXCEPT ![t].at = "install"] /\ missed' = missed
     \/ edits' = [edits EXCEPT ![t].at = "answer"] /\ Misses(edits[t].ext)
  /\ UNCHANGED <<alive, enabled, inst, made, queue, spoiled, sent, conns, submits, closing>>

\* The new instance is put on the map, whatever was there.
EditInstalls(t) ==
  /\ edits[t].at = "install"
  /\ LET e == edits[t].ext IN
       /\ made' = [made EXCEPT ![e] = @ + 1]
       /\ inst' = [inst EXCEPT ![e] = made'[e]]
       /\ missed' = missed \ {e}
  /\ edits' = [edits EXCEPT ![t].at = "answer"]
  /\ UNCHANGED <<alive, enabled, queue, spoiled, sent, conns, submits, closing>>

\* The process is started again.  extensionService.Init goes through the
\* extensions in any order and stops at the first whose row it cannot write or
\* read a second time; a row it cannot read the first time is written anew, and
\* is then not enabled.
Restart ==
  /\ ~alive /\ alive' = TRUE
  /\ \E seen \in SUBSET Ext : \E reset \in SUBSET seen :
       LET on == {e \in seen \ reset : enabled[e]} IN
         /\ enabled' = [e \in Ext |-> enabled[e] /\ e \notin reset]
         /\ inst' = Loaded(on)
         /\ made' = [e \in Ext |-> IF e \in on THEN made[e] + 1 ELSE made[e]]
         /\ missed' = Ext \ seen
  /\ UNCHANGED <<queue, spoiled, sent, conns, edits, submits, closing>>

ConnectStep(s) == ConnectBegins(s) \/ ConnectPushes(s) \/ ConnectSends(s) \/ ConnectReturns(s)
SubmitStep(k) == SubmitBegins(k) \/ SubmitPushes(k)

\* Mutant of EditStep: an extension is taken off the map after its row is disabled.
EditStepSwapped(t) ==
  LET e == edits[t].ext IN
    \/ EditLooks(t) \/ (edits[t].at = "sent" /\ EditStores(t)) \/ EditLoads(t) \/ EditInstalls(t)
    \/ /\ edits[t].at = "remove"
       /\ enabled' = [enabled EXCEPT ![e] = FALSE] /\ edits' = [edits EXCEPT ![t].at = "store"]
       /\ UNCHANGED <<alive, inst, made, missed, queue, spoiled, sent, conns, submits, closing>>
    \/ /\ edits[t].at = "store"
       /\ inst' = [inst EXCEPT ![e] = 0] /\ edits' = [edits EXCEPT ![t].at = "answer"]
       /\ UNCHANGED <<alive, enabled, made, missed, queue, spoiled, sent, conns, submits, closing>>

\* EditExtension.
EditStep(t) == EditLooks(t) \/ EditRemoves(t) \/ EditStores(t) \/ EditLoads(t) \/ EditInstalls(t)

Host ==
  \/ \E s \in DOMAIN conns : ConnectStep(s)
  \/ \E k \in DOMAIN submits : SubmitStep(k)
  \/ \E t \in DOMAIN edits : EditStep(t)
  \/ CloseServed

-----------------------------------------------------------------------------
\* A Connect waits to put its form on a queue that nobody empties.
Blocked(s) ==
  /\ conns[s].at = "push" /\ ~Room(conns[s])
  /\ \A r \in DOMAIN conns : conns[r].at = "loop" => Key(conns[r]) # Key(conns[s])

\* A Connect is blocked only on an instance that kept a message no stream waited
\* for: one submitted when no stream was open, or left behind by a stream that
\* went away.  As long as streams stay open and submissions come while one is,
\* the queue of one message is room enough.
BlockedOnlyIfSpoiled == \A s \in DOMAIN conns : Blocked(s) => Key(conns[s]) \in spoiled

\* An enabled extension is loaded whenever no call is between its row and its
\* instance, unless a failing table call left it without: through overlapping
\* edits of the same extension, in either direction, crashes and restarts.
\* EditExtension takes an extension off the map before it disables the row, and
\* writes the row before it loads.
EnabledIsLoaded ==
  alive /\ (\A t \in DOMAIN edits : edits[t].at \notin {"store", "load", "install"})
    => \A e \in Ext : enabled[e] /\ inst[e] = 0 => e \in missed
=============================================================================
