-------------------------- MODULE ProfileRepository --------------------------
(***************************************************************************)
(* The profile service (v2/profile/profile_repository.go): a row and a     *)
(* content file for each profile, and the setting that names the active    *)
(* one.  Calls run at the same time and take no lock.  A table's Get, All, *)
(* UpdateInsert and Delete of one row take effect at one instant or fail   *)
(* and leave the rows (CoreDB implements CoreTable, which says so).  The   *)
(* process can die between any two steps; rows, files and settings stay.   *)
(***************************************************************************)
EXTENDS Naturals, FiniteSets

CONSTANTS
  Call,       \* calls that can be under way at once
  Url,        \* subscription addresses
  NoUrl,      \* what a profile added by content has
  MadeUp,     \* ids that clients make up and generateUuid never gives
  MaxId,      \* bound: profiles added, generateUuid never giving an id twice
  MaxCalls,   \* bound: calls made
  MaxFaults   \* bound: crashes, and table calls, writes and downloads that fail

ASSUME CallAssumption ==
  /\ NoUrl \notin Url
  /\ IsFiniteSet(Call)
  /\ MaxId \in Nat /\ MadeUp \cap 0..MaxId = {}

VARIABLES
  alive,      \* the process runs
  row,        \* the rows: the address of each profile there is
  files,      \* ids with a content file
  active,     \* the row "active_profile" of the settings
  used,       \* ids generated so far
  instances,  \* instances started for a download and never closed
  calls,      \* what each call does
  removed,    \* ghost: ids a removal was begun for
  bare,       \* ghost: rows whose file a removal took, or that UpdateProfile made up
  twice,      \* ghost: addresses that may have two rows
  made, faults

vars == <<alive, row, files, active, used, instances, calls, removed, bare, twice, made, faults>>

Id == 1..MaxId \cup MadeUp
NoId == 0
Request(at, url, i, mark) == [at |-> at, url |-> url, id |-> i, mark |-> mark]
Idle == Request("idle", NoUrl, NoId, FALSE)

Init ==
  /\ alive = TRUE
  /\ row = [i \in {} |-> NoUrl] /\ files = {} /\ active = NoId
  /\ used = 0 /\ instances = 0
  /\ calls = [c \in Call |-> Idle]
  /\ removed = {} /\ bare = {} /\ twice = {}
  /\ made = 0 /\ faults = 0

Given == 1..used \cup MadeUp
Rows == DOMAIN row
Has(url) == {i \in Rows : row[i] = url}

\* UpdateInsert and Delete of one row.
Upsert(i, url) == row' = [j \in Rows \cup {i} |-> IF j = i THEN url ELSE row[j]]
Remove(i) == row' = [j \in Rows \ {i} |-> row[j]]

At(c, at) == alive /\ calls[c].at = at
Goes(c, at) == calls' = [calls EXCEPT ![c].at = at]
Ends(c) == calls' = [calls EXCEPT ![c] = Idle]

Fault == faults < MaxFaults /\ faults' = faults + 1

Begin(c, call) ==
  /\ alive /\ calls[c] = Idle /\ made < MaxCalls
  /\ made' = made + 1
  /\ calls' = [calls EXCEPT ![c] = call]
  /\ UNCHANGED <<alive, row, files, active, used, instances, removed, bare, twice, faults>>

UnchangedStore == UNCHANGED <<row, files, active, removed, bare, twice>>

-----------------------------------------------------------------------------
(* AddProfile.                                                             *)

AddProfile(c) ==
  \E url \in Url \cup {NoUrl}, mark \in BOOLEAN :
    Begin(c, Request(IF url = NoUrl THEN "content" ELSE "lookup", url, NoId, mark))

Adding(url) == {c \in Call : calls[c].url = url /\ calls[c].at \in {"download", "content", "insert"}}

\* AddByUrl: an address that has a row is answered with it; whether it is to be
\* active is not asked, and its content is not updated.
FindsExisting(c) ==
  /\ At(c, "lookup") /\ Has(calls[c].url) # {}
  /\ Ends(c)
  /\ UnchangedStore /\ UNCHANGED <<alive, used, instances, made, faults>>

\* Mutant of FindsNone: what is found is not looked at.
AddsAnyway(c) ==
  /\ At(c, "lookup") /\ faults' = faults
  /\ Goes(c, "download")
  /\ twice' = IF Adding(calls[c].url) = {} THEN twice ELSE twice \cup {calls[c].url}
  /\ UNCHANGED <<alive, row, files, active, used, instances, removed, bare, made>>

\* None is found, or All() fails, which is taken for the same.
FindsNone(c) ==
  /\ At(c, "lookup")
  /\ \/ Has(calls[c].url) = {} /\ faults' = faults
     \/ Fault
  /\ Goes(c, "download")
  /\ twice' = IF Has(calls[c].url) = {} /\ Adding(calls[c].url) = {} THEN twice ELSE twice \cup {calls[c].url}
  /\ UNCHANGED <<alive, row, files, active, used, instances, removed, bare, made>>

\* Through the running core, directly, or through an instance started for it;
\* that one is left running, whether it helped or not.
Downloads(c) ==
  /\ At(c, "download") /\ Goes(c, "content")
  /\ \/ UNCHANGED <<instances, faults>>
     \/ Fault /\ instances' = instances + 1
  /\ UnchangedStore /\ UNCHANGED <<alive, used, made>>

DownloadFails(c) ==
  /\ At(c, "download") /\ Ends(c)
  /\ Fault
  /\ instances' \in {instances, instances + 1}
  /\ UnchangedStore /\ UNCHANGED <<alive, used, made>>

\* Mutant of WritesContent: an error of WriteFile is not reported.
WritesUnchecked(c) ==
  /\ At(c, "content") /\ used < MaxId
  /\ used' = used + 1
  /\ files' \in {files, files \cup {used'}}
  /\ calls' = [calls EXCEPT ![c] = Request("insert", calls[c].url, used', calls[c].mark)]
  /\ UNCHANGED <<alive, row, active, instances, removed, bare, twice, made, faults>>

\* UpdateContent: the content is parsed, then written under the new id.
WritesContent(c) ==
  /\ At(c, "content") /\ used < MaxId
  /\ used' = used + 1
  /\ files' = files \cup {used'}
  /\ calls' = [calls EXCEPT ![c] = Request("insert", calls[c].url, used', calls[c].mark)]
  /\ UNCHANGED <<alive, row, active, instances, removed, bare, twice, made, faults>>

\* It does not parse, or is not written, or in part, and the add fails.
ContentFails(c) ==
  /\ At(c, "content") /\ used < MaxId
  /\ Fault
  /\ used' = used + 1
  /\ files' \in {files, files \cup {used'}}
  /\ Ends(c)
  /\ UNCHANGED <<alive, row, active, instances, removed, bare, twice, made>>

\* The row; the file of one that cannot be inserted stays.
Inserts(c) ==
  /\ At(c, "insert") /\ Upsert(calls[c].id, calls[c].url)
  /\ IF calls[c].mark THEN Goes(c, "mark") ELSE Ends(c)
  /\ UNCHANGED <<alive, files, active, used, instances, removed, bare, twice, made, faults>>

\* Mutant of InsertFails: the add goes on.
InsertUnchecked(c) ==
  /\ At(c, "insert") /\ Fault
  /\ IF calls[c].mark THEN Goes(c, "mark") ELSE Ends(c)
  /\ UnchangedStore /\ UNCHANGED <<alive, used, instances, made>>

InsertFails(c) ==
  /\ At(c, "insert") /\ Ends(c) /\ Fault
  /\ UnchangedStore /\ UNCHANGED <<alive, used, instances, made>>

\* SetActiveProfile's row: for an add an error is not reported.
SetsActive(c) ==
  /\ At(c, "mark") /\ Ends(c)
  /\ active' = calls[c].id
  /\ UNCHANGED <<alive, row, files, used, instances, removed, bare, twice, made, faults>>

SetFails(c) ==
  /\ At(c, "mark") /\ Ends(c) /\ Fault
  /\ UnchangedStore /\ UNCHANGED <<alive, used, instances, made>>

-----------------------------------------------------------------------------
(* DeleteProfile, SetActiveProfile and UpdateProfile.                      *)

\* By id or by address (or name), which has to be found first.  A client knows
\* the ids that have, or had, a row, and may send any other.
Known == {i \in 1..used : i \in Rows \cup removed} \cup MadeUp

DeleteProfile(c) ==
  \/ \E i \in Known : Begin(c, Request("remove", NoUrl, i, FALSE))
  \/ \E url \in Url : Begin(c, Request("findToDelete", url, NoId, FALSE))

SetActiveProfile(c) ==
  \/ \E i \in Known : Begin(c, Request("get", NoUrl, i, FALSE))
  \/ \E url \in Url : Begin(c, Request("findToSet", url, NoId, FALSE))

Finding == [findToDelete |-> "remove", findToSet |-> "mark"]

Finds(c) ==
  /\ alive /\ calls[c].at \in DOMAIN Finding
  /\ \E i \in Has(calls[c].url) :
       calls' = [calls EXCEPT ![c] = Request(Finding[calls[c].at], NoUrl, i, FALSE)]
  /\ UnchangedStore /\ UNCHANGED <<alive, used, instances, made, faults>>

\* Mutant of Dies: what is under way goes on in the next process.
DiesNotCalls ==
  /\ alive' = FALSE
  /\ UNCHANGED <<calls, row, files, active, used, removed, bare, twice, made>>
  /\ instances' = 0

\* The process dies with everything that is under way.
Dies ==
  /\ alive' = FALSE
  /\ calls' = [c \in Call |-> Idle]
  /\ UNCHANGED <<row, files, active, used, removed, bare, twice, made>>
  /\ instances' = 0

\* GetProfile's error comes with no response, whose Profile is asked for.
FindPanics(c) ==
  /\ alive /\ calls[c].at \in DOMAIN Finding
  /\ \/ Has(calls[c].url) = {} /\ faults' = faults
     \/ Fault
  /\ Dies

\* By id the row is read first: one that is gone, or not readable, is an error.
Gets(c) ==
  /\ At(c, "get")
  /\ IF calls[c].id \in Rows THEN Goes(c, "mark") ELSE Ends(c)
  /\ UnchangedStore /\ UNCHANGED <<alive, used, instances, made, faults>>

GetFails(c) ==
  /\ At(c, "get") /\ Ends(c) /\ Fault
  /\ UnchangedStore /\ UNCHANGED <<alive, used, instances, made>>

\* DeleteById: the file goes first, unchecked ...
RemovesFile(c) ==
  /\ At(c, "remove") /\ Goes(c, "delete")
  /\ removed' = removed \cup {calls[c].id}
  /\ \/ /\ files' = files \ {calls[c].id}
        /\ bare' = bare \cup ({calls[c].id} \cap Rows)
        /\ faults' = faults
     \/ UNCHANGED <<files, bare>> /\ Fault
  /\ UNCHANGED <<alive, row, active, used, instances, twice, made>>

\* ... then the row.  A profile that is active stays named.
DeletesRow(c) ==
  /\ At(c, "delete") /\ Ends(c)
  /\ Remove(calls[c].id)
  /\ bare' = bare \ {calls[c].id}
  /\ UNCHANGED <<alive, files, active, used, instances, removed, twice, made, faults>>

DeleteFails(c) ==
  /\ At(c, "delete") /\ Ends(c) /\ Fault
  /\ UnchangedStore /\ UNCHANGED <<alive, used, instances, made>>

\* UpdateProfile writes the row it is given, with whatever address, and be it one
\* that was deleted or never added.
UpdateProfile(c) ==
  \E i \in Known, url \in Url \cup {NoUrl} : Begin(c, Request("update", url, i, FALSE))

Updates(c) ==
  /\ At(c, "update") /\ Ends(c)
  /\ Upsert(calls[c].id, calls[c].url)
  /\ bare' = bare \cup ({calls[c].id} \ Rows)
  /\ twice' = twice \cup {calls[c].url}
  /\ UNCHANGED <<alive, files, active, used, instances, removed, made, faults>>

UpdateFails(c) ==
  /\ At(c, "update") /\ Ends(c) /\ Fault
  /\ UnchangedStore /\ UNCHANGED <<alive, used, instances, made>>

-----------------------------------------------------------------------------
Crash == alive /\ Fault /\ Dies

Restart ==
  /\ ~alive /\ alive' = TRUE
  /\ UnchangedStore /\ UNCHANGED <<used, instances, calls, made, faults>>

Asks(c) == AddProfile(c) \/ DeleteProfile(c) \/ SetActiveProfile(c) \/ UpdateProfile(c)

Step(c) ==
  \/ FindsExisting(c) \/ FindsNone(c) \/ Downloads(c) \/ DownloadFails(c)
  \/ WritesContent(c) \/ ContentFails(c) \/ Inserts(c) \/ InsertFails(c)
  \/ SetsActive(c) \/ SetFails(c)
  \/ Finds(c) \/ FindPanics(c) \/ Gets(c) \/ GetFails(c)
  \/ RemovesFile(c) \/ DeletesRow(c) \/ DeleteFails(c)
  \/ Updates(c) \/ UpdateFails(c)

Next == (\E c \in Call : Asks(c) \/ Step(c)) \/ Crash \/ Restart

Spec == Init /\ [][Next]_vars

-----------------------------------------------------------------------------
Calls ==
  [at : {"idle", "lookup", "download", "content", "insert", "mark", "get", "findToDelete",
         "findToSet", "remove", "delete", "update"},
   url : Url \cup {NoUrl}, id : Id \cup {NoId}, mark : BOOLEAN]

\* The shape of the state; a call that works on a profile has its id, one that was
\* given out or made up; and no call outlives its process.
TypeOK ==
  /\ alive \in BOOLEAN /\ used \in 0..MaxId
  /\ Rows \subseteq Given /\ \A i \in Rows : row[i] \in Url \cup {NoUrl}
  /\ files \subseteq Given /\ removed \subseteq Given /\ bare \subseteq Given
  /\ active \in Given \cup {NoId}
  /\ instances \in Nat /\ twice \subseteq Url \cup {NoUrl}
  /\ made \in Nat /\ faults \in Nat
  /\ calls \in [Call -> Calls]
  /\ \A c \in Call : calls[c].at \in {"insert", "mark", "get", "remove", "delete", "update"} => calls[c].id \in Given
  /\ ~alive => \A c \in Call : calls[c] = Idle

\* Every profile of the table has its content file, but for two kinds of row: one
\* whose file a removal has taken and whose row has not gone since (the removal is
\* on its way, failed or was cut short), and one that UpdateProfile wrote where
\* there was none.  No add leaves a row without its file, whatever fails, dies or
\* overlaps, and no removal that was finished leaves one.
RowHasContent == Rows \subseteq files \cup bare

\* No address has two profiles, unless adds of it overlapped, or its lookup
\* failed, which AddByUrl takes for finding nothing, or a client wrote it itself.
OneProfilePerUrl ==
  \A i, j \in Rows : row[i] = row[j] /\ row[i] # NoUrl /\ i # j => row[i] \in twice

\* The active profile is one that is there, or that is or was being removed,
\* whatever adds, marks and removals overlapped, failed or were cut short.
ActiveIsKnown == active # NoId => active \in Rows \cup removed
=============================================================================
