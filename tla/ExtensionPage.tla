---------------------------- MODULE ExtensionPage ----------------------------
(***************************************************************************)
(* The page's extension list and extension pages (extensionList.js,        *)
(* extensionPage.js and formRenderer.js in extension/html/rpc.js) as the   *)
(* client of ExtensionHost.                                                *)
(*                                                                         *)
(* Opening an extension's page opens a stream and never cancels the one    *)
(* before; what streams bring is shown if it names the current extension.  *)
(* Forms carry no id of their own, so that there is one form element on    *)
(* the page, and it stays until the next form comes.  Each dialog shown    *)
(* leaves a listener behind that submits "CloseDialog" whenever the dialog *)
(* element is hidden.  A dialog's backdrop keeps clicks off what is behind *)
(* it.                                                                     *)
(***************************************************************************)
EXTENDS ExtensionHost

CONSTANT MaxLoads   \* bound: calls of ListExtensions

ASSUME PageConstantsOK == MaxLoads \in Nat \ {0}

VARIABLES
  view,       \* "list" or "page": which container is shown
  current,    \* currentExtensionId
  form,       \* the extension whose form is in the page container
  fresh,      \* a form of current was rendered since it was opened
  dialog,     \* the extension whose dialog is shown
  listeners,  \* listeners on the dialog element
  list,       \* the entries of the extension list
  loads,      \* calls of ListExtensions
  muddled,    \* ghost: the list was loaded twice at once, or a load failed, or a row changed behind it
  faults

pageVars == <<view, current, form, fresh, dialog, listeners, list, loads, muddled, faults>>
vars == <<hostVars, conns, edits, submits, closing, pageVars>>

Off == [e \in Ext |-> <<>>]
InFlight(l) == loads[l].at \in {"sent", "answer"}

\* The next unused one of the calls of a kind, if the bound allows one more.
HasNext(calls) == \E n \in DOMAIN calls : calls[n] = Unused
NextOf(calls) == CHOOSE n \in DOMAIN calls : calls[n] = Unused /\ \A j \in 1..(n - 1) : calls[j] # Unused

\* The user has n more of the calls that MaxCalls bounds.
Used(calls) == {n \in DOMAIN calls : calls[n] # Unused}
MayCall(n) == Cardinality(Used(conns)) + Cardinality(Used(edits)) + sent + n <= MaxCalls

\* window.onload: the list is loaded; which rows are enabled is the host's matter.
FirstLoads == [l \in 1..MaxLoads |-> IF l = 1 THEN [at |-> "sent"] ELSE Unused]

Init ==
  /\ HostInit
  /\ view = "list" /\ current = None
  /\ form = None /\ fresh = FALSE /\ dialog = None /\ listeners = 0
  /\ list = Off /\ loads = FirstLoads
  /\ muddled = FALSE /\ faults = 0

-----------------------------------------------------------------------------
(* The list.                                                               *)

\* An edit the page has given up and the host has not.
Outstanding == \E t \in DOMAIN edits' : Serving(edits'[t]) /\ edits'[t].told

\* listExtensions, up to its await: show the list, empty it, call.
listExtensions ==
  /\ HasNext(loads)
  /\ view' = "list" /\ list' = Off
  /\ loads' = [loads EXCEPT ![NextOf(loads)] = [at |-> "sent"]]
  /\ muddled' = (Outstanding \/ \E l \in DOMAIN loads : InFlight(l))

ListServed(l) ==
  /\ alive /\ loads[l].at = "sent"
  /\ loads' = [loads EXCEPT ![l] = [at |-> "answer", rows |-> enabled]]
  /\ UNCHANGED <<hostVars, conns, edits, submits, closing, view, current, form, fresh, dialog, listeners, list, muddled, faults>>

\* The answer's entries are appended to what is there by then.
ListShown(l) ==
  /\ loads[l].at = "answer"
  /\ list' = [e \in Ext |-> Append(list[e], [enable |-> loads[l].rows[e], checked |-> loads[l].rows[e]])]
  /\ loads' = [loads EXCEPT ![l] = Over]
  /\ UNCHANGED <<hostVars, conns, edits, submits, closing, view, current, form, fresh, dialog, listeners, muddled, faults>>

ListFails(l) ==
  /\ InFlight(l) /\ (~alive \/ faults < MaxFaults)
  /\ faults' = IF alive THEN faults + 1 ELSE faults
  /\ muddled' = TRUE
  /\ loads' = [loads EXCEPT ![l] = Over]
  /\ UNCHANGED <<hostVars, conns, edits, submits, closing, view, current, form, fresh, dialog, listeners, list>>

\* toggleExtension: the switch has flipped; ask for what it shows.
Toggle(e, i) ==
  /\ view = "list" /\ dialog = None /\ i \in DOMAIN list[e] /\ HasNext(edits) /\ MayCall(1)
  /\ list' = [list EXCEPT ![e][i].checked = ~@]
  /\ edits' = [edits EXCEPT ![NextOf(edits)] =
       [at |-> IF alive THEN "sent" ELSE "failed", ext |-> e,
        enable |-> ~list[e][i].checked, told |-> FALSE]]
  /\ UNCHANGED <<hostVars, conns, submits, closing, view, current, form, fresh, dialog, listeners, loads, muddled, faults>>

\* Mutant of ToggleReturns: the flipped switch is taken for the new state.
ToggleTrusted(t) ==
  /\ edits[t].at \in {"answer", "failed"} /\ ~edits[t].told
  /\ edits' = [edits EXCEPT ![t] = Over]
  /\ list' = [list EXCEPT ![edits[t].ext] =
       [i \in DOMAIN @ |-> [@[i] EXCEPT !.enable = list[edits[t].ext][i].checked]]]
  /\ UNCHANGED <<hostVars, conns, submits, closing, view, current, form, fresh, dialog, listeners, loads, muddled, faults>>

\* Answered or failed, the list is loaded and shown, wherever the user is by then.
ToggleReturns(t) ==
  /\ edits[t].at \in {"answer", "failed"} /\ ~edits[t].told
  /\ edits' = [edits EXCEPT ![t] = Over]
  /\ listExtensions
  /\ UNCHANGED <<hostVars, conns, submits, closing, current, form, fresh, dialog, listeners, faults>>

-----------------------------------------------------------------------------
(* The page of an extension.                                               *)

\* connect, for the extension that is current by now.
Connecting(id) ==
  [conns EXCEPT ![NextOf(conns)] =
     IF alive THEN [at |-> "sent", ext |-> id, inst |-> 0, net |-> <<>>, page |-> "live"] ELSE Over]

\* A click on an entry that was enabled when the list was loaded.
openExtensionPage(e, i) ==
  /\ view = "list" /\ dialog = None
  /\ i \in DOMAIN list[e] /\ list[e][i].enable /\ HasNext(conns) /\ MayCall(1)
  /\ current' = e /\ view' = "page" /\ fresh' = FALSE
  /\ conns' = Connecting(e)
  /\ UNCHANGED <<hostVars, edits, submits, closing, form, dialog, listeners, list, loads, muddled, faults>>

\* Mutant of Arrives: what a stream brings is shown, whomever it is from.
ArrivesUnfiltered(s) ==
  /\ Serving(conns[s]) /\ conns[s].page = "live" /\ conns[s].net # <<>>
  /\ conns' = [conns EXCEPT ![s].net = Tail(@)]
  /\ LET m == Read(B!ExtensionResponse, Head(conns[s].net)) IN
       IF m.type = SHOW_DIALOG
       THEN dialog' = m.extension_id /\ listeners' = listeners + 1 /\ UNCHANGED <<form, fresh>>
       ELSE form' = m.extension_id /\ fresh' = TRUE /\ UNCHANGED <<dialog, listeners>>
  /\ UNCHANGED <<hostVars, edits, submits, closing, view, current, list, loads, muddled, faults>>

\* 'data' for another extension than the current one is dropped; a dialog is
\* shown, with one more listener; any other form takes the place of the last.
Arrives(s) ==
  /\ Serving(conns[s]) /\ conns[s].page = "live" /\ conns[s].net # <<>>
  /\ conns' = [conns EXCEPT ![s].net = Tail(@)]
  /\ LET m == Read(B!ExtensionResponse, Head(conns[s].net)) IN
       IF m.extension_id # current THEN UNCHANGED <<form, fresh, dialog, listeners>>
       ELSE IF m.type = SHOW_DIALOG
            THEN dialog' = m.extension_id /\ listeners' = listeners + 1 /\ UNCHANGED <<form, fresh>>
            ELSE form' = m.extension_id /\ fresh' = TRUE /\ UNCHANGED <<dialog, listeners>>
  /\ UNCHANGED <<hostVars, edits, submits, closing, view, current, list, loads, muddled, faults>>

\* What is to be sent once the dialog element is hidden, which it is by every
\* submission: each listener's CloseDialog, for the extension current by then.
Submission(from) ==
  [at |-> "sent", ext |-> current, from |-> from, fresh |-> fresh, inst |-> 0, type |-> 0]
HostButSent == <<alive, enabled, inst, made, missed, queue, spoiled>>
Submitting(new) ==
  /\ sent + Len(new) <= MaxSubmits /\ MayCall(Len(new))
  /\ sent' = sent + Len(new)
  /\ submits' = submits \o new
Hidden == [n \in 1..(IF dialog = None THEN 0 ELSE listeners) |-> Submission(None)]

\* handleSubmitButtonClick, for a button of the form ...
SubmitForm ==
  /\ alive /\ view = "page" /\ dialog = None /\ form # None
  /\ Submitting(<<Submission(form)>>)
  /\ UNCHANGED <<HostButSent, conns, edits, closing, pageVars>>

\* ... for one of the dialog ...
SubmitDialog ==
  /\ alive /\ dialog # None
  /\ Submitting(<<Submission(dialog)>> \o Hidden)
  /\ dialog' = None
  /\ UNCHANGED <<HostButSent, conns, edits, closing, view, current, form, fresh, listeners, list, loads, muddled, faults>>

\* ... and for a dialog that is dismissed.
DismissDialog ==
  /\ alive /\ dialog # None
  /\ Submitting(Hidden)
  /\ dialog' = None
  /\ UNCHANGED <<HostButSent, conns, edits, closing, view, current, form, fresh, listeners, list, loads, muddled, faults>>

\* handleStopButtonClick.  No extension's Close is ever answered OK (see
\* ExtensionHost), and after an error the page stays as it is.
Close ==
  /\ alive /\ view = "page" /\ dialog = None /\ form # None
  /\ closing = Unused
  /\ closing' = [at |-> "sent", ext |-> current]
  /\ UNCHANGED <<hostVars, conns, edits, submits, pageVars>>

-----------------------------------------------------------------------------
(* Faults, and the user's own remedy.                                      *)

Fault == faults < MaxFaults /\ faults' = faults + 1

\* What is on its way when a stream breaks is lost, which may be another stream's.
LostWith(S) == {Key(conns[s]) : s \in {r \in S : Serving(conns[r]) /\ conns[r].net # <<>>}}
HostButSpoiled == <<alive, enabled, inst, made, missed, queue, sent>>

\* The connection breaks: 'error', after which nothing is connected again.
StreamBreaks(s) ==
  /\ Fault
  /\ Serving(conns[s]) /\ conns[s].page = "live"
  /\ conns' = [conns EXCEPT ![s].page = "dead", ![s].net = <<>>]
  /\ spoiled' = spoiled \cup LostWith({s})
  /\ UNCHANGED <<HostButSpoiled, edits, submits, closing, view, current, form, fresh, dialog, listeners, list, loads, muddled>>

\* A call of EditExtension fails on its way: the page goes on as if it were
\* answered, and the host may go on too.
EditCallFails(t) ==
  /\ Fault
  /\ Serving(edits[t]) /\ ~edits[t].told
  /\ edits' = [edits EXCEPT ![t].told = TRUE]
  /\ listExtensions
  /\ UNCHANGED <<hostVars, conns, submits, closing, current, form, fresh, dialog, listeners>>

Crash ==
  /\ Fault /\ alive /\ Dies
  /\ UNCHANGED <<view, current, form, fresh, dialog, listeners, list, loads, muddled>>

Reload ==
  /\ Fault /\ HasNext(loads)
  /\ edits' = [t \in DOMAIN edits |-> IF Serving(edits[t]) THEN [edits[t] EXCEPT !.told = TRUE]
                                       ELSE IF edits[t] = Unused THEN Unused ELSE Over]
  /\ view' = "list" /\ current' = None /\ form' = None /\ fresh' = FALSE
  /\ dialog' = None /\ listeners' = 0 /\ list' = Off
  /\ muddled' = Outstanding
  /\ loads' = [l \in DOMAIN loads |->
       IF l = NextOf(loads) THEN [at |-> "sent"]
       ELSE IF loads[l] = Unused THEN Unused ELSE Over]
  /\ conns' = [s \in DOMAIN conns |->
       IF Serving(conns[s]) THEN [conns[s] EXCEPT !.page = "dead", !.net = <<>>] ELSE conns[s]]
  /\ spoiled' = spoiled \cup LostWith(DOMAIN conns)
  /\ UNCHANGED <<HostButSpoiled, submits, closing>>

Page ==
  \/ \E l \in DOMAIN loads : ListServed(l) \/ ListShown(l)
  \/ \E t \in DOMAIN edits : ToggleReturns(t)
  \/ \E s \in DOMAIN conns : Arrives(s)

User ==
  \/ \E e \in Ext : \E i \in DOMAIN list[e] : Toggle(e, i) \/ openExtensionPage(e, i)
  \/ SubmitForm \/ SubmitDialog \/ DismissDialog \/ Close \/ Reload

Faulty ==
  \/ \E l \in DOMAIN loads : ListFails(l)
  \/ \E s \in DOMAIN conns : StreamBreaks(s)
  \/ \E t \in DOMAIN edits : EditCallFails(t)
  \/ Crash
  \/ /\ Fault /\ Restart
     /\ muddled' = (muddled \/ enabled' # enabled)
     /\ UNCHANGED <<view, current, form, fresh, dialog, listeners, list, loads>>

Next ==
  \/ Host /\ UNCHANGED pageVars
  \/ Page \/ User \/ Faulty

Spec == Init /\ [][Next]_vars

\* Goroutines that can go on do, calls are served while the process runs, and the
\* page's event loop turns.  No fairness for the user, faults or restarts.
FairSpec ==
  /\ Spec
  /\ \A s \in 1..MaxStreams :
       /\ WF_vars(ConnectBegins(s) /\ UNCHANGED pageVars)
       /\ WF_vars(ConnectPushes(s) /\ UNCHANGED pageVars)
       /\ WF_vars(ConnectSends(s) /\ UNCHANGED pageVars)
       /\ WF_vars(Arrives(s))

-----------------------------------------------------------------------------
\* The shape of the state; an extension's loaded instance is its newest one, so
\* that older ones have only the streams that were opened on them; nothing is on
\* a stream that cannot be read by the page.
TypeOK ==
  /\ alive \in BOOLEAN /\ enabled \in [Ext -> BOOLEAN] /\ missed \subseteq Ext
  /\ \A e \in Ext : inst[e] \in {0, made[e]} /\ made[e] \in Number0
  /\ \A e \in Ext : \A n \in Number0 :
       queue[e][n] # <<>> => n \in 1..made[e] /\ queue[e][n] \in {<<UPDATE_UI>>, <<SHOW_DIALOG>>}
  /\ \A s \in DOMAIN conns : Serving(conns[s]) =>
       /\ conns[s].at \in {"sent", "push", "loop"} /\ conns[s].page \in {"live", "dead"}
       /\ \A k \in DOMAIN conns[s].net : Readable(B!ExtensionResponse, conns[s].net[k])
  /\ view \in {"list", "page"} /\ current \in Ext \cup {None}
  /\ view = "page" => current # None
  /\ form \in Ext \cup {None} /\ dialog \in Ext \cup {None} /\ listeners \in Nat
  /\ dialog # None => listeners > 0
  /\ fresh \in BOOLEAN /\ muddled \in BOOLEAN /\ faults \in 0..MaxFaults

\* What the user fills in goes to the extension whose form it is: always from a
\* dialog, and from the page's form once a form of the current extension was
\* rendered since it was opened.  (Until then the form of the page before is still
\* there and is submitted to the extension opened last.)  Streams of pages
\* opened before go on all the while.
FormGoesHome ==
  /\ \A k \in DOMAIN submits :
       submits[k].from # None /\ submits[k].fresh => submits[k].from = submits[k].ext
  /\ dialog # None => dialog = current

\* With no load and no edit under way, the list has each extension once, with the
\* switch where the host's row is: unless two loads overlapped, which append
\* both, or the last load failed, or an edit the page gave up was served later.
ListSettles ==
  /\ ~muddled
  /\ \A l \in DOMAIN loads : ~InFlight(l)
  /\ \A t \in DOMAIN edits : edits[t] \notin {Unused, Over} => edits[t].told /\ ~Serving(edits[t])
  => \A e \in Ext : list[e] = <<[enable |-> enabled[e], checked |-> enabled[e]]>>

Newest(s) == \A r \in DOMAIN conns : conns[r] # Unused <=> r <= s

\* As long as the stream opened last is up, a form of the current extension is
\* shown in the end, whatever streams, pages, instances and edits there were
\* before: unless the instance it is on lost a message to a stream that was gone,
\* or kept one that was submitted while no stream of it was open.
OpenedShowsForm ==
  []<>(\A s \in DOMAIN conns :
         Newest(s) /\ Serving(conns[s]) /\ conns[s].page = "live"
           => fresh \/ Key(conns[s]) \in spoiled)
=============================================================================
