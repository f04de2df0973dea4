---------------------------- MODULE ProfileProofs ----------------------------
(***************************************************************************)
(* TypeOK, RowHasContent, ActiveIsKnown and OneProfilePerUrl hold for any  *)
(* number of calls, addresses, profiles, crashes and failures.             *)
(*                                                                         *)
(* The rows and the ids removed together only grow, so a call that has     *)
(* seen its id in one of them may count on it later (Named).  The id of a  *)
(* new profile is nobody else's until its row is there (Fresh), so its     *)
(* file, written first, stays (Content).                                   *)
(* An address that is not in `twice' has at most one add under way, and no *)
(* row as long as it has one (Unique).                                     *)
(***************************************************************************)
EXTENDS ProfileRepository, TLAPS

WithId == {"insert", "mark", "get", "remove", "delete", "update"}
Labels == {"idle", "lookup", "download", "content", "findToDelete", "findToSet"} \cup WithId

CallsOK ==
  /\ calls \in [Call -> Calls]
  /\ \A c \in Call : calls[c].at \in WithId => calls[c].id \in Given
  /\ ~alive => \A c \in Call : calls[c] = Idle

StoreOK ==
  /\ alive \in BOOLEAN /\ used \in 0..MaxId
  /\ Rows \subseteq Given /\ \A i \in Rows : row[i] \in Url \cup {NoUrl}
  /\ files \subseteq Given /\ removed \subseteq Given /\ bare \subseteq Given
  /\ active \in Given \cup {NoId}
  /\ instances \in Nat /\ twice \subseteq Url \cup {NoUrl}
  /\ made \in Nat /\ faults \in Nat

\* The store and the calls have their types apart from one another.
LEMMA TypeParts == (TypeOK <=> StoreOK /\ CallsOK) /\ (TypeOK' <=> StoreOK' /\ CallsOK')
  BY DEF TypeOK, StoreOK, CallsOK, WithId

\* A place for a call where none is under way.
LEMMA IdleIsCall == Idle \in Calls /\ Idle.at = "idle" /\ Idle.url = NoUrl
  BY DEF Idle, Request, Calls, NoId

\* What becomes of the calls when one of them goes on, ends or begins.
LEMMA GoesOK ==
  ASSUME CallsOK, used \in Nat, used' = used, alive, alive' = alive,
         NEW c \in Call, NEW at \in Labels, Goes(c, at),
         at \in WithId => calls[c].id \in Given
  PROVE  CallsOK'
<1>1. calls' \in [Call -> Calls]
  BY DEF CallsOK, Goes, Calls, Labels, WithId
<1>2. \A d \in Call : calls'[d].id = calls[d].id /\ calls'[d].at = IF d = c THEN at ELSE calls[d].at
  BY DEF CallsOK, Goes, Calls
<1> QED
  BY <1>1, <1>2 DEF CallsOK, Given

\* A call that returns leaves its place idle.
LEMMA EndsOK ==
  ASSUME CallsOK, used' = used, alive, alive' = alive, NEW c \in Call, Ends(c)
  PROVE  CallsOK'
<1>1. calls' \in [Call -> Calls]
  BY IdleIsCall DEF CallsOK, Ends
<1>2. \A d \in Call : calls'[d] = IF d = c THEN Idle ELSE calls[d]
  BY DEF CallsOK, Ends
<1> QED
  BY <1>1, <1>2, IdleIsCall DEF CallsOK, WithId, Given

\* A call that begins holds only an id that was given out.
LEMMA BeginOK ==
  ASSUME TypeOK, NEW c \in Call, NEW call \in Calls, Begin(c, call),
         call.at \in WithId => call.id \in Given
  PROVE  TypeOK'
<1> USE TypeParts
<1>1. StoreOK'
  BY DEF StoreOK, Begin, Rows, Given
<1>2. calls' \in [Call -> Calls]
  BY DEF CallsOK, Begin
<1>3. \A d \in Call : calls'[d] = IF d = c THEN call ELSE calls[d]
  BY DEF CallsOK, Begin
<1>4. CallsOK'
  BY <1>2, <1>3 DEF CallsOK, Begin, Given
<1> QED
  BY <1>1, <1>4

\* The row that Upsert leaves, and Remove.
LEMMA UpsertRows ==
  ASSUME NEW i, NEW url, Upsert(i, url)
  PROVE  /\ Rows' = Rows \cup {i}
         /\ \A j \in Rows' : row'[j] = IF j = i THEN url ELSE row[j]
  BY DEF Upsert, Rows

\* One row goes and the others stay as they are.
LEMMA RemoveRows ==
  ASSUME NEW i, Remove(i)
  PROVE  Rows' = Rows \ {i} /\ \A j \in Rows' : row'[j] = row[j]
  BY DEF Remove, Rows

-----------------------------------------------------------------------------
\* The repository starts with nothing in it.
LEMMA TypeInit == Init => TypeOK
<1> SUFFICES ASSUME Init PROVE TypeOK
  OBVIOUS
<1>1. StoreOK
  BY CallAssumption DEF Init, StoreOK, Rows, NoId
<1>2. CallsOK
  BY IdleIsCall DEF Init, CallsOK, WithId
<1> QED
  BY <1>1, <1>2, TypeParts

\* Each of the calls begins with values of its types.
LEMMA AsksType ==
  ASSUME TypeOK, NEW c \in Call, Asks(c)
  PROVE  TypeOK'
<1>1. Known \subseteq Given /\ used \in Nat /\ used <= MaxId
  BY CallAssumption DEF TypeOK, Known, Given
<1>2. CASE AddProfile(c)
  <2>1. PICK url \in Url \cup {NoUrl}, mark \in BOOLEAN :
          Begin(c, Request(IF url = NoUrl THEN "content" ELSE "lookup", url, NoId, mark))
    BY <1>2 DEF AddProfile
  <2> DEFINE call == Request(IF url = NoUrl THEN "content" ELSE "lookup", url, NoId, mark)
  <2>2. call \in Calls /\ call.at \notin WithId
    BY DEF Request, Calls, WithId
  <2> QED
    BY <2>1, <2>2, BeginOK
<1>3. ASSUME NEW at \in WithId, NEW i \in Known, NEW url \in Url \cup {NoUrl},
             Begin(c, Request(at, url, i, FALSE))
      PROVE  TypeOK'
  <2> DEFINE call == Request(at, url, i, FALSE)
  <2>1. call \in Calls /\ call.id \in Given
    BY <1>1, <1>3, CallAssumption DEF Request, Calls, WithId, Id, Given
  <2> QED
    BY <1>3, <2>1, BeginOK
<1>4. ASSUME NEW at \in {"findToDelete", "findToSet"}, NEW url \in Url,
             Begin(c, Request(at, url, NoId, FALSE))
      PROVE  TypeOK'
  <2> DEFINE call == Request(at, url, NoId, FALSE)
  <2>1. call \in Calls /\ call.at \notin WithId
    BY DEF Request, Calls, WithId
  <2> QED
    BY <1>4, <2>1, BeginOK
<1>5. CASE DeleteProfile(c)
  BY <1>5, <1>3, <1>4, CallAssumption DEF DeleteProfile, WithId
<1>6. CASE SetActiveProfile(c)
  BY <1>6, <1>3, <1>4 DEF SetActiveProfile, WithId
<1>7. CASE UpdateProfile(c)
  BY <1>7, <1>3 DEF UpdateProfile, WithId
<1> QED
  BY <1>2, <1>5, <1>6, <1>7 DEF Asks

\* A step that leaves the store alone, or puts one row in.
LEMMA StoreKept ==
  ASSUME StoreOK, alive' \in BOOLEAN, UNCHANGED <<row, files, active, removed, bare, twice, used, made>>,
         instances' \in Nat, faults' \in Nat
  PROVE  StoreOK'
  BY DEF StoreOK, Rows, Given

\* Faults are counted or stay.
LEMMA FaultCounts == StoreOK /\ (Fault \/ faults' = faults) => faults' \in Nat
  BY DEF StoreOK, Fault

\* A row that is written is of an id that was given out.
LEMMA StoreUpserted ==
  ASSUME StoreOK, NEW i \in Given, NEW url \in Url \cup {NoUrl}, Upsert(i, url),
         UNCHANGED <<alive, files, active, removed, used, instances, made, faults>>, bare' \subseteq Given,
         twice' \subseteq Url \cup {NoUrl}
  PROVE  StoreOK'
<1>1. Rows' = Rows \cup {i} /\ \A j \in Rows' : row'[j] = IF j = i THEN url ELSE row[j]
  BY UpsertRows
<1> QED
  BY <1>1 DEF StoreOK, Given

\* Each step of a call keeps the types of rows, files and calls.
LEMMA StepType ==
  ASSUME TypeOK, NEW c \in Call, Step(c)
  PROVE  TypeOK'
<1> USE TypeParts DEF UnchangedStore
<1>1. StoreOK /\ CallsOK /\ used \in Nat /\ MaxId \in Nat
  BY CallAssumption DEF StoreOK
<1>2. calls[c] \in Calls /\ (calls[c].at \in WithId => calls[c].id \in Given)
  BY <1>1 DEF CallsOK
<1>3. StoreOK' /\ alive /\ alive' = alive /\ used' = used /\ (Ends(c) \/ \E at \in Labels : Goes(c, at) /\ at \notin WithId)
      => TypeOK'
  BY <1>1, GoesOK, EndsOK
<1>4. StoreOK' /\ alive /\ alive' = alive /\ used' = used /\ calls[c].id \in Given
      /\ (Ends(c) \/ \E at \in Labels : Goes(c, at)) => TypeOK'
  BY <1>1, GoesOK, EndsOK
<1>a. CASE FindsExisting(c)
  BY <1>a, <1>1, <1>3 DEF FindsExisting, StoreOK, At, Rows, Given
<1>b. CASE FindsNone(c)
  <2>1. StoreOK'
    BY <1>b, <1>1, <1>2, FaultCounts DEF FindsNone, StoreOK, Calls, Rows, Given
  <2> QED
    BY <1>b, <1>3, <2>1 DEF FindsNone, At, Labels, WithId
<1>c. CASE Downloads(c) \/ DownloadFails(c)
  <2>1. StoreOK'
    <3>1. instances' \in Nat
      BY <1>c, <1>1 DEF Downloads, DownloadFails, StoreOK
    <3>2. Fault \/ faults' = faults
      BY <1>c DEF Downloads, DownloadFails
    <3> QED
      BY <1>c, <1>1, <3>1, <3>2, StoreKept, FaultCounts DEF Downloads, DownloadFails, StoreOK
  <2> QED
    BY <1>c, <1>3, <2>1 DEF Downloads, DownloadFails, At, Labels, WithId
<1>d. CASE WritesContent(c)
  <2>1. StoreOK'
    BY <1>d, <1>1 DEF WritesContent, StoreOK, Rows, Given
  <2>3. used' \in Id /\ Given \subseteq Given' /\ used' \in Given'
    BY <1>d, <1>1 DEF WritesContent, Id, Given
  <2>4. calls' \in [Call -> Calls]
    <3>1. Request("insert", calls[c].url, used', calls[c].mark) \in Calls
      BY <1>2, <2>3 DEF Request, Calls
    <3> QED
      BY <1>d, <1>1, <3>1 DEF WritesContent, CallsOK
  <2>5. \A d \in Call : IF d = c THEN calls'[d].id = used' ELSE calls'[d] = calls[d]
    BY <1>d, <1>1 DEF WritesContent, CallsOK, Request
  <2>2. calls' \in [Call -> Calls] /\ \A d \in Call : calls'[d].at \in WithId => calls'[d].id \in Given'
    BY <1>1, <2>3, <2>4, <2>5 DEF CallsOK, Id
  <2> QED
    BY <1>d, <2>1, <2>2 DEF WritesContent, At, CallsOK
<1>e. CASE ContentFails(c)
  <2>1. StoreOK'
    BY <1>e, <1>1, FaultCounts DEF ContentFails, StoreOK, Rows, Given
  <2>2. calls' \in [Call -> Calls] /\ \A d \in Call : calls'[d].at \in WithId => calls'[d].id \in Given'
    BY <1>e, <1>1, IdleIsCall DEF ContentFails, Ends, CallsOK, WithId, Given
  <2> QED
    BY <1>e, <2>1, <2>2 DEF ContentFails, At, CallsOK
<1>f. CASE Inserts(c)
  <2>1. calls[c].id \in Given
    BY <1>f, <1>2 DEF Inserts, At, WithId
  <2>2. StoreOK'
    BY <1>f, <1>1, <1>2, <2>1, StoreUpserted DEF Inserts, StoreOK, Calls
  <2> QED
    BY <1>f, <1>4, <2>1, <2>2 DEF Inserts, At, Labels, WithId
<1>g. CASE InsertFails(c) \/ SetFails(c) \/ GetFails(c) \/ DeleteFails(c) \/ UpdateFails(c)
  <2>1. StoreOK'
    BY <1>g, <1>1, StoreKept, FaultCounts DEF InsertFails, SetFails, GetFails, DeleteFails,
       UpdateFails, StoreOK
  <2> QED
    BY <1>g, <1>3, <2>1 DEF InsertFails, SetFails, GetFails, DeleteFails, UpdateFails, At
<1>h. CASE SetsActive(c)
  <2>1. StoreOK'
    BY <1>h, <1>1, <1>2 DEF SetsActive, At, WithId, StoreOK, Rows, Given
  <2> QED
    BY <1>h, <1>3, <2>1 DEF SetsActive, At
<1>i. CASE Finds(c)
  <2>1. StoreOK'
    BY <1>i, <1>1 DEF Finds, StoreOK, Rows, Given
  <2>2. PICK i \in Has(calls[c].url), at \in {"remove", "mark"} :
          calls' = [calls EXCEPT ![c] = Request(at, NoUrl, i, FALSE)]
    <3>1. Finding[calls[c].at] \in {"remove", "mark"}
      BY <1>i DEF Finds, Finding
    <3> QED
      BY <1>i, <3>1 DEF Finds
  <2>3. i \in Given
    BY <1>1, <2>2 DEF Has, StoreOK
  <2>4. calls' \in [Call -> Calls] /\ \A d \in Call : calls'[d].at \in WithId => calls'[d].id \in Given
    <3>1. i \in Id
      BY <1>1, <2>3 DEF Id, StoreOK, Given
    <3>2. calls' \in [Call -> Calls]
      <4>1. Request(at, NoUrl, i, FALSE) \in Calls
        BY <2>2, <3>1 DEF Request, Calls
      <4> QED
        BY <1>1, <2>2, <4>1 DEF CallsOK
    <3>3. \A d \in Call : IF d = c THEN calls'[d].id = i ELSE calls'[d] = calls[d]
      BY <1>1, <2>2 DEF CallsOK, Request
    <3> QED
      BY <1>i, <1>1, <2>3, <3>2, <3>3 DEF CallsOK, Finds, Given
  <2> QED
    BY <1>i, <2>1, <2>4 DEF Finds, CallsOK, Given
<1>j. CASE Gets(c)
  <2>1. StoreOK' /\ calls[c].id \in Given
    BY <1>j, <1>1, <1>2 DEF Gets, At, WithId, StoreOK, Rows, Given
  <2> QED
    BY <1>j, <1>4, <2>1 DEF Gets, At, Labels, WithId
<1>k. CASE RemovesFile(c)
  <2>1. calls[c].id \in Given
    BY <1>k, <1>2 DEF RemovesFile, At, WithId
  <2>2. StoreOK'
    <3>1. faults' \in Nat
      BY <1>k, <1>1, FaultCounts DEF RemovesFile
    <3> QED
      BY <1>k, <1>1, <2>1, <3>1 DEF RemovesFile, StoreOK, Rows, Given
  <2> QED
    BY <1>k, <1>4, <2>1, <2>2 DEF RemovesFile, At, Labels, WithId
<1>l. CASE DeletesRow(c)
  <2>1. StoreOK'
    BY <1>l, <1>1, RemoveRows DEF DeletesRow, StoreOK, Given
  <2> QED
    BY <1>l, <1>3, <2>1 DEF DeletesRow, At
<1>m. CASE Updates(c)
  <2>1. calls[c].id \in Given
    BY <1>m, <1>2 DEF Updates, At, WithId
  <2>2. StoreOK'
    <3>1. calls[c].url \in Url \cup {NoUrl}
      BY <1>2 DEF Calls
    <3> QED
      BY <1>m, <1>1, <2>1, <3>1, StoreUpserted DEF Updates, StoreOK
  <2> QED
    BY <1>m, <1>3, <2>2 DEF Updates, At
<1>n. CASE FindPanics(c)
  <2>1. StoreOK'
    BY <1>n, <1>1, StoreKept, FaultCounts DEF FindPanics, Dies
  <2>2. CallsOK'
    BY <1>n, IdleIsCall DEF FindPanics, Dies, CallsOK, WithId
  <2> QED
    BY <2>1, <2>2
<1> QED
  BY <1>a, <1>b, <1>c, <1>d, <1>e, <1>f, <1>g, <1>h, <1>i, <1>j, <1>k, <1>l, <1>m, <1>n DEF Step

\* The shape of the state is kept by every step: in particular a call that works on
\* a profile has an id that was given out, and none outlives the process.
LEMMA TypeNext == TypeOK /\ [Next]_vars => TypeOK'
<1> SUFFICES ASSUME TypeOK, [Next]_vars PROVE TypeOK'
  OBVIOUS
<1>1. CASE \E c \in Call : Asks(c) \/ Step(c)
  BY <1>1, AsksType, StepType
<1>2. CASE Crash
  <2>1. StoreOK'
    BY <1>2, TypeParts, StoreKept, FaultCounts DEF Crash, Dies
  <2>2. CallsOK'
    BY <1>2, IdleIsCall DEF Crash, Dies, CallsOK, WithId
  <2> QED
    BY <2>1, <2>2, TypeParts
<1>3. CASE Restart
  BY <1>3 DEF Restart, UnchangedStore, TypeOK, Rows, Given
<1>4. CASE UNCHANGED vars
  BY <1>4 DEF vars, TypeOK, Rows, Given
<1> QED
  BY <1>1, <1>2, <1>3, <1>4 DEF Next

\* TypeOK holds in every reachable state, for any number of calls and crashes.
THEOREM ProfileTypes == Spec => []TypeOK
  BY TypeInit, TypeNext, PTL DEF Spec

-----------------------------------------------------------------------------
(* The store.                                                              *)

\* An id that an add has generated is nobody else's until its row is there.
Fresh ==
  /\ \A c \in Call : calls[c].at = "insert" => calls[c].id \notin Rows \cup removed \cup MadeUp
  /\ \A c, d \in Call : calls[c].at = "insert" /\ calls[d].at = "insert" /\ c # d
       => calls[c].id # calls[d].id
  /\ \A c \in Call : calls[c].at \in WithId \ {"insert"}
       => calls[c].id \in Rows \cup removed \cup MadeUp

Content ==
  /\ Rows \subseteq files \cup bare
  /\ \A c \in Call : calls[c].at = "insert" => calls[c].id \in files

Named ==
  /\ active # NoId => active \in Rows \cup removed
  /\ \A c \in Call : calls[c].at = "delete" => calls[c].id \in removed
  /\ \A c \in Call : calls[c].at = "mark" => calls[c].id \in Rows \cup removed

Unique(url) ==
  /\ \A i, j \in Has(url) : i = j
  /\ \A c, d \in Adding(url) : c = d
  /\ Adding(url) # {} => Has(url) = {}

Uniques == \A url \in Url \ twice : Unique(url)

\* A call that goes on keeps its id and address.
LEMMA GoesCalls ==
  ASSUME TypeOK, NEW c \in Call, NEW at, Goes(c, at)
  PROVE  \A d \in Call : /\ calls'[d].id = calls[d].id /\ calls'[d].url = calls[d].url
                         /\ calls'[d].at = IF d = c THEN at ELSE calls[d].at
  BY DEF TypeOK, Goes, Calls

\* A call that returns leaves the other calls alone.
LEMMA EndsCalls ==
  ASSUME TypeOK, NEW c \in Call, Ends(c)
  PROVE  \A d \in Call : calls'[d] = IF d = c THEN Idle ELSE calls[d]
  BY DEF TypeOK, Ends

\* To begin a call changes neither rows nor files.
LEMMA AsksStored ==
  ASSUME TypeOK, Fresh, Content, Named, NEW c \in Call, Asks(c)
  PROVE  Fresh' /\ Content' /\ Named'
<1>1. Known \subseteq Rows \cup removed \cup MadeUp
  BY DEF Known
<1>2. ASSUME NEW at, NEW url, NEW i, NEW mark \in BOOLEAN, Begin(c, Request(at, url, i, mark)),
             at \notin {"insert", "delete", "mark"}, at \in WithId => i \in Known
      PROVE  Fresh' /\ Content' /\ Named'
  <2>1. \A d \in Call : calls'[d] = IF d = c THEN Request(at, url, i, mark) ELSE calls[d]
    BY <1>2 DEF Begin, TypeOK
  <2>2. Content' /\ Named'
    BY <1>2, <2>1 DEF Begin, Request, Content, Named, Rows
  <2>3. Fresh'
    BY <1>1, <1>2, <2>1 DEF Begin, Request, Fresh, Rows
  <2> QED
    BY <2>2, <2>3
<1>3. CASE AddProfile(c)
  BY <1>3, <1>2 DEF AddProfile, WithId
<1>4. CASE DeleteProfile(c)
  BY <1>4, <1>2 DEF DeleteProfile, WithId
<1>5. CASE SetActiveProfile(c)
  BY <1>5, <1>2 DEF SetActiveProfile, WithId
<1>6. CASE UpdateProfile(c)
  BY <1>6, <1>2 DEF UpdateProfile, WithId
<1> QED
  BY <1>3, <1>4, <1>5, <1>6 DEF Asks

\* No step leaves a row without a file or the active profile without a row.
LEMMA StepStored ==
  ASSUME TypeOK, Fresh, Content, Named, NEW c \in Call, Step(c)
  PROVE  Fresh' /\ Content' /\ Named'
<1> USE IdleIsCall DEF UnchangedStore
<1>a. CASE FindsExisting(c)
  BY <1>a, EndsCalls DEF FindsExisting, Fresh, WithId, Content, Named, Rows
<1>b. CASE FindsNone(c)
  BY <1>b, GoesCalls DEF FindsNone, Fresh, WithId, Content, Named, Rows
<1>c. CASE Downloads(c)
  BY <1>c, GoesCalls DEF Downloads, Fresh, WithId, Content, Named, Rows
<1>d. CASE DownloadFails(c)
  BY <1>d, EndsCalls DEF DownloadFails, Fresh, WithId, Content, Named, Rows
<1>e. CASE WritesContent(c)
  <2>1. \A d \in Call : calls'[d] = IF d = c THEN Request("insert", calls[c].url, used', calls[c].mark) ELSE calls[d]
    BY <1>e DEF WritesContent, TypeOK
  <2>2. used' \notin Rows \cup removed \cup MadeUp /\ used' \notin Given
    <3>1. used' = used + 1 /\ used \in 0..MaxId /\ used + 1 \in 0..MaxId
      BY <1>e, CallAssumption DEF WritesContent, TypeOK
    <3>2. used' \notin Given
      BY <3>1, CallAssumption DEF Given
    <3> QED
      BY <3>2 DEF TypeOK, Given
  <2>3. \A d \in Call : calls[d].at = "insert" => calls[d].id # used'
    BY <2>2 DEF TypeOK
  <2>4. Fresh'
    BY <1>e, <2>1, <2>2, <2>3 DEF WritesContent, Request, Fresh, WithId, Rows
  <2>5. Content' /\ Named'
    BY <1>e, <2>1 DEF WritesContent, Request, Content, Named, Rows
  <2> QED
    BY <2>4, <2>5
<1>f. CASE ContentFails(c)
  BY <1>f, EndsCalls DEF ContentFails, Fresh, WithId, Content, Named, Rows
<1>g. CASE Inserts(c)
  <2>1. Rows' = Rows \cup {calls[c].id}
    BY <1>g, UpsertRows DEF Inserts
  <2>2. CASE Goes(c, "mark")
    BY <1>g, <2>1, <2>2, GoesCalls DEF Inserts, At, Fresh, WithId, Content, Named
  <2>3. CASE Ends(c)
    BY <1>g, <2>1, <2>3, EndsCalls DEF Inserts, At, Fresh, WithId, Content, Named
  <2> QED
    BY <1>g, <2>2, <2>3 DEF Inserts
<1>h. CASE InsertFails(c) \/ SetFails(c) \/ GetFails(c) \/ DeleteFails(c) \/ UpdateFails(c)
  BY <1>h, EndsCalls DEF InsertFails, SetFails, GetFails, DeleteFails, UpdateFails, Fresh, WithId, Content,
     Named, Rows
<1>i. CASE SetsActive(c)
  BY <1>i, EndsCalls DEF SetsActive, At, Fresh, WithId, Content, Named, Rows
<1>j. CASE Finds(c)
  <2>1. PICK i \in Has(calls[c].url), at \in {"remove", "mark"} :
          calls' = [calls EXCEPT ![c] = Request(at, NoUrl, i, FALSE)]
    <3>1. Finding[calls[c].at] \in {"remove", "mark"}
      BY <1>j DEF Finds, Finding
    <3> QED
      BY <1>j, <3>1 DEF Finds
  <2>2. \A d \in Call : calls'[d] = IF d = c THEN Request(at, NoUrl, i, FALSE) ELSE calls[d]
    BY <2>1 DEF TypeOK
  <2> QED
    BY <1>j, <2>1, <2>2 DEF Finds, Has, Request, Fresh, WithId, Content, Named, Rows
<1>k. CASE Gets(c)
  <2>1. CASE calls[c].id \in Rows /\ Goes(c, "mark")
    BY <1>k, <2>1, GoesCalls DEF Gets, Fresh, WithId, Content, Named, Rows
  <2>2. CASE Ends(c)
    BY <1>k, <2>2, EndsCalls DEF Gets, Fresh, WithId, Content, Named, Rows
  <2> QED
    BY <1>k, <2>1, <2>2 DEF Gets
<1>l. CASE RemovesFile(c)
  <2>1. At(c, "remove") /\ Goes(c, "delete") /\ row' = row /\ active' = active
        /\ removed' = removed \cup {calls[c].id}
    BY <1>l DEF RemovesFile
  <2>2. \A d \in Call : /\ calls'[d].id = calls[d].id
                        /\ calls'[d].at = IF d = c THEN "delete" ELSE calls[d].at
    BY <2>1, GoesCalls
  <2>3. calls[c].id \in Rows \cup removed \cup MadeUp
    BY <2>1 DEF At, Fresh, WithId
  <2>4. Fresh'
    BY <2>1, <2>2, <2>3 DEF Fresh, WithId, Rows
  <2>5. Named'
    BY <2>1, <2>2 DEF Named, Rows
  <2>6. \A d \in Call : calls[d].at = "insert" => calls[d].id # calls[c].id
    BY <2>3 DEF Fresh
  <2>7. Content'
    BY <1>l, <2>2, <2>6 DEF RemovesFile, Content, Rows
  <2> QED
    BY <2>4, <2>5, <2>7
<1>m. CASE DeletesRow(c)
  <2>1. Rows' = Rows \ {calls[c].id} /\ calls[c].id \in removed
    BY <1>m, RemoveRows DEF DeletesRow, At, Named
  <2> QED
    BY <1>m, <2>1, EndsCalls DEF DeletesRow, Fresh, WithId, Content, Named
<1>n. CASE Updates(c)
  <2>1. Rows' = Rows \cup {calls[c].id}
    BY <1>n, UpsertRows DEF Updates
  <2> QED
    BY <1>n, <2>1, EndsCalls DEF Updates, At, Fresh, WithId, Content, Named
<1>o. CASE FindPanics(c)
  BY <1>o DEF FindPanics, Dies, Fresh, WithId, Content, Named, Rows
<1> QED
  BY <1>a, <1>b, <1>c, <1>d, <1>e, <1>f, <1>g, <1>h, <1>i, <1>j, <1>k, <1>l, <1>m, <1>n,
     <1>o DEF Step

\* Neither does a crash or a restart.
LEMMA StoredNext ==
  TypeOK /\ Fresh /\ Content /\ Named /\ [Next]_vars => Fresh' /\ Content' /\ Named'
<1> SUFFICES ASSUME TypeOK, Fresh, Content, Named, [Next]_vars
             PROVE  Fresh' /\ Content' /\ Named'
  OBVIOUS
<1>1. CASE \E c \in Call : Asks(c) \/ Step(c)
  BY <1>1, AsksStored, StepStored
<1>2. CASE Crash
  BY <1>2, IdleIsCall DEF Crash, Dies, Fresh, WithId, Content, Named, Rows
<1>3. CASE Restart \/ UNCHANGED vars
  BY <1>3 DEF Restart, UnchangedStore, vars, Fresh, Content, Named, Rows
<1> QED
  BY <1>1, <1>2, <1>3 DEF Next

\* There is no row at first and no active profile.
LEMMA StoredInit == Init => Fresh /\ Content /\ Named
  BY IdleIsCall DEF Init, Fresh, WithId, Content, Named, Rows

\* A profile has its content, but for a row whose file a removal has taken and one that
\* UpdateProfile made up: the file of an add is there before its row is, and its id is
\* nobody else's to remove until then.
THEOREM ProfileContent == Spec => []RowHasContent
<1>1. TypeOK /\ Content /\ Named => RowHasContent
  BY DEF Content, RowHasContent
<1> QED
  BY <1>1, TypeInit, TypeNext, StoredInit, StoredNext, PTL DEF Spec

\* The active profile is there or its removal was begun: SetActiveProfile read the
\* row, and an add marks the row it has written.
THEOREM ProfileActive == Spec => []ActiveIsKnown
<1>1. TypeOK /\ Content /\ Named => ActiveIsKnown
  BY DEF Named, ActiveIsKnown
<1> QED
  BY <1>1, TypeInit, TypeNext, StoredInit, StoredNext, PTL DEF Spec

-----------------------------------------------------------------------------
(* One profile for an address.                                             *)

AddLabels == {"download", "content", "insert"}

\* Nothing can go wrong for an address that gets neither a row nor an add.
LEMMA Shrinks ==
  ASSUME Uniques, twice \subseteq twice',
         NEW url \in Url \ twice', Has(url)' \subseteq Has(url), Adding(url)' \subseteq Adding(url)
  PROVE  Unique(url)'
<1>1. Unique(url)
  BY DEF Uniques
<1> QED
  BY <1>1 DEF Unique

\* A call that adds nothing new: it keeps its address or is over.
LEMMA AddsNothing ==
  ASSUME TypeOK, NEW c \in Call,
         Ends(c) \/ (calls[c].at \in AddLabels /\ \E at : Goes(c, at)) \/ \E at : Goes(c, at) /\ at \notin AddLabels
  PROVE  \A url \in Url : Adding(url)' \subseteq Adding(url)
<1>1. CASE Ends(c)
  <2>1. Idle.at \notin {"download", "content", "insert"}
    BY IdleIsCall
  <2> QED
    BY <1>1, <2>1, EndsCalls DEF Adding
<1>2. CASE calls[c].at \in AddLabels /\ \E at : Goes(c, at)
  BY <1>2, GoesCalls DEF Adding, AddLabels
<1>3. CASE \E at : Goes(c, at) /\ at \notin AddLabels
  BY <1>3, GoesCalls DEF Adding, AddLabels
<1> QED
  BY <1>1, <1>2, <1>3

\* The rows of an address, when one row is written or removed or none is.
LEMMA HasUpserted ==
  ASSUME NEW i, NEW url, Upsert(i, url), NEW other, other # url
  PROVE  Has(other)' \subseteq Has(other)
  BY UpsertRows DEF Has

\* Whether an address has a row depends on the rows only.
LEMMA HasKept == row' = row => \A url : Has(url)' = Has(url)
  BY DEF Has, Rows

\* An add that begins beside another of its address is noted in `twice`.
LEMMA AsksUnique ==
  ASSUME TypeOK, Uniques, NEW c \in Call, Asks(c)
  PROVE  Uniques'
<1>1. ASSUME NEW at, NEW url, NEW i, NEW mark, Begin(c, Request(at, url, i, mark)),
             at \notin AddLabels \/ url \notin Url
      PROVE  Uniques'
  <2>1. \A d \in Call : calls'[d] = IF d = c THEN Request(at, url, i, mark) ELSE calls[d]
    BY <1>1 DEF Begin, TypeOK
  <2>2. \A u \in Url : Adding(u)' \subseteq Adding(u)
    BY <1>1, <2>1 DEF Adding, AddLabels, Request
  <2> QED
    BY <1>1, <2>2, HasKept, Shrinks DEF Begin, Uniques
<1>2. CASE AddProfile(c)
  BY <1>2, <1>1, CallAssumption DEF AddProfile, AddLabels
<1>3. CASE DeleteProfile(c)
  BY <1>3, <1>1 DEF DeleteProfile, AddLabels
<1>4. CASE SetActiveProfile(c)
  BY <1>4, <1>1 DEF SetActiveProfile, AddLabels
<1>5. CASE UpdateProfile(c)
  BY <1>5, <1>1 DEF UpdateProfile, AddLabels
<1> QED
  BY <1>2, <1>3, <1>4, <1>5 DEF Asks

\* A second row of an address is inserted only where `twice` has it.
LEMMA StepUnique ==
  ASSUME TypeOK, Uniques, NEW c \in Call, Step(c)
  PROVE  Uniques'
<1> USE DEF UnchangedStore
\* No row, and no add that was not there.
<1>1. ASSUME row' = row, twice' = twice,
             Ends(c) \/ (calls[c].at \in AddLabels /\ \E at : Goes(c, at)) \/ \E at : Goes(c, at) /\ at \notin AddLabels
      PROVE  Uniques'
  BY <1>1, AddsNothing, HasKept, Shrinks DEF Uniques
<1>a. CASE FindsExisting(c)
  BY <1>a, <1>1 DEF FindsExisting
<1>b. CASE FindsNone(c)
  <2> SUFFICES ASSUME NEW url \in Url \ twice' PROVE Unique(url)'
    BY DEF Uniques
  <2>1. Goes(c, "download") /\ row' = row /\ twice \subseteq twice'
    BY <1>b DEF FindsNone
  <2>2. CASE calls[c].url # url
    <3>1. Adding(url)' \subseteq Adding(url)
      BY <2>1, <2>2, GoesCalls DEF Adding
    <3> QED
      BY <2>1, <3>1, HasKept, Shrinks
  <2>3. CASE calls[c].url = url
    <3>1. Has(url) = {} /\ Adding(url) = {}
      BY <1>b, <2>3 DEF FindsNone
    <3>2. Adding(url)' \subseteq {c}
      BY <2>1, <3>1, GoesCalls DEF Adding
    <3> QED
      BY <2>1, <3>1, <3>2, HasKept DEF Unique
  <2> QED
    BY <2>2, <2>3
<1>c. CASE Downloads(c) \/ DownloadFails(c)
  BY <1>c, <1>1 DEF Downloads, DownloadFails, At, AddLabels
<1>d. CASE WritesContent(c)
  <2>1. \A d \in Call : calls'[d] = IF d = c THEN Request("insert", calls[c].url, used', calls[c].mark) ELSE calls[d]
    BY <1>d DEF WritesContent, TypeOK
  <2>2. \A url \in Url : Adding(url)' \subseteq Adding(url)
    BY <1>d, <2>1 DEF WritesContent, At, Adding, Request
  <2> QED
    BY <1>d, <2>2, HasKept, Shrinks DEF WritesContent, Uniques
<1>e. CASE ContentFails(c)
  BY <1>e, <1>1 DEF ContentFails
<1>f. CASE Inserts(c)
  <2> SUFFICES ASSUME NEW url \in Url \ twice PROVE Unique(url)'
    BY <1>f DEF Uniques, Inserts
  <2>1. Adding(url)' \subseteq Adding(url)
    BY <1>f, AddsNothing DEF Inserts, At, AddLabels
  <2>2. CASE calls[c].url # url
    BY <1>f, <2>1, <2>2, HasUpserted, Shrinks DEF Inserts
  <2>3. CASE calls[c].url = url
    <3>1. Has(url) = {} /\ \A d \in Adding(url) : d = c
      <4>1. c \in Adding(url)
        BY <1>f, <2>3 DEF Inserts, At, Adding
      <4> QED
        BY <4>1 DEF Uniques, Unique
    <3>2. \A i \in Has(url)' : i = calls[c].id
      BY <1>f, <3>1, UpsertRows DEF Inserts, Has
    <3>3. c \notin Adding(url)'
      BY <1>f, IdleIsCall, GoesCalls, EndsCalls DEF Inserts, Adding
    <3>4. Adding(url)' = {}
      BY <2>1, <3>1, <3>3
    <3> QED
      BY <3>2, <3>4 DEF Unique
  <2> QED
    BY <2>2, <2>3
<1>g. CASE InsertFails(c) \/ SetFails(c) \/ GetFails(c) \/ DeleteFails(c) \/ UpdateFails(c) \/ SetsActive(c)
  BY <1>g, <1>1 DEF InsertFails, SetFails, GetFails, DeleteFails, UpdateFails, SetsActive
<1>h. CASE Finds(c)
  <2>1. PICK i \in Has(calls[c].url), at \in {"remove", "mark"} :
          calls' = [calls EXCEPT ![c] = Request(at, NoUrl, i, FALSE)]
    <3>1. Finding[calls[c].at] \in {"remove", "mark"}
      BY <1>h DEF Finds, Finding
    <3> QED
      BY <1>h, <3>1 DEF Finds
  <2>2. \A d \in Call : calls'[d] = IF d = c THEN Request(at, NoUrl, i, FALSE) ELSE calls[d]
    BY <2>1 DEF TypeOK
  <2>3. \A url \in Url : Adding(url)' \subseteq Adding(url)
    BY <2>2 DEF Adding, Request
  <2> QED
    BY <1>h, <2>3, HasKept, Shrinks DEF Finds, Uniques
<1>i. CASE Gets(c)
  BY <1>i, <1>1 DEF Gets, AddLabels
<1>j. CASE RemovesFile(c)
  BY <1>j, <1>1 DEF RemovesFile, AddLabels
<1>k. CASE DeletesRow(c)
  <2>1. \A url : Has(url)' \subseteq Has(url)
    BY <1>k, RemoveRows DEF DeletesRow, Has
  <2> QED
    BY <1>k, <2>1, AddsNothing, Shrinks DEF DeletesRow, Uniques
<1>l. CASE Updates(c)
  <2> SUFFICES ASSUME NEW url \in Url \ twice' PROVE Unique(url)'
    BY DEF Uniques
  <2>1. calls[c].url # url /\ twice \subseteq twice'
    BY <1>l DEF Updates
  <2> QED
    BY <1>l, <2>1, AddsNothing, HasUpserted, Shrinks DEF Updates
<1>m. CASE FindPanics(c)
  <2>1. \A url \in Url : Adding(url)' \subseteq Adding(url)
    BY <1>m, IdleIsCall DEF FindPanics, Dies, Adding
  <2> QED
    BY <1>m, <2>1, HasKept, Shrinks DEF FindPanics, Dies, Uniques
<1> QED
  BY <1>a, <1>b, <1>c, <1>d, <1>e, <1>f, <1>g, <1>h, <1>i, <1>j, <1>k, <1>l, <1>m DEF Step

\* A crash or a restart adds no row.
LEMMA UniqueNext == TypeOK /\ Uniques /\ [Next]_vars => Uniques'
<1> SUFFICES ASSUME TypeOK, Uniques, [Next]_vars PROVE Uniques'
  OBVIOUS
<1>1. CASE \E c \in Call : Asks(c) \/ Step(c)
  BY <1>1, AsksUnique, StepUnique
<1>2. CASE Crash
  <2>1. \A url \in Url : Adding(url)' \subseteq Adding(url)
    BY <1>2, IdleIsCall DEF Crash, Dies, Adding
  <2> QED
    BY <1>2, <2>1, HasKept, Shrinks DEF Crash, Dies, Uniques
<1>3. CASE Restart \/ UNCHANGED vars
  BY <1>3 DEF Restart, UnchangedStore, vars, Uniques, Unique, Has, Adding, Rows
<1> QED
  BY <1>1, <1>2, <1>3 DEF Next

\* There is no row at first.
LEMMA UniqueInit == Init => Uniques
  BY IdleIsCall DEF Init, Uniques, Unique, Has, Adding, Rows

\* Two profiles of one address come only from adds that overlapped, a lookup that
\* failed or a client that wrote the address itself.
THEOREM ProfileUrls == Spec => []OneProfilePerUrl
<1>1. TypeOK /\ Uniques => OneProfilePerUrl
  <2> SUFFICES ASSUME TypeOK, Uniques, NEW i \in Rows, NEW j \in Rows,
                      row[i] = row[j], row[i] # NoUrl, i # j, row[i] \notin twice
               PROVE  FALSE
    BY DEF OneProfilePerUrl
  <2>1. row[i] \in Url \ twice /\ i \in Has(row[i]) /\ j \in Has(row[i])
    BY DEF TypeOK, Has
  <2> QED
    BY <2>1 DEF Uniques, Unique
<1> QED
  BY <1>1, TypeInit, TypeNext, UniqueInit, UniqueNext, PTL DEF Spec
=============================================================================
