-------------------------------- MODULE CoreDB --------------------------------
(***************************************************************************)
(* v2/db/core_db.go: every call opens the LevelDB of its table, does its   *)
(* work and closes it.  The lock file of LevelDB is the only               *)
(* synchronisation there is, between goroutines and between processes; it  *)
(* is tried, never waited for, and getDB retries a bounded number of times.*)
(* A database opened read-only shares the lock.                            *)
(***************************************************************************)
EXTENDS Naturals, Sequences

CONSTANTS
  Proc, Key, Val, Absent, Batch,     \* as in CoreTable
  Attempts,                          \* retryAttempts, 100 in the code
  ReadOnlyAttempts                   \* attempts that may be read-only, 80

ASSUME DBConstantsOK ==
  /\ Absent \notin Val
  /\ Batch \subseteq Seq([id : Key, val : Val \cup {Absent}])
  /\ Attempts \in Nat \ {0}
  /\ ReadOnlyAttempts \in 0 .. Attempts

VARIABLES
  rows,      \* what is stored
  exists,    \* the directory data/<name>.db is there
  lock,      \* lock[p] : how p holds LevelDB's lock
  pc,
  ask,       \* the call p serves
  ro,        \* its readOnly, after the look at the directory
  tries,     \* i, the failed attempts to open
  n,         \* items of its batch written so far
  answer,    \* what it will return
  base       \* history: the rows when the lock was last taken to write

vars == <<rows, exists, lock, pc, ask, ro, tries, n, answer, base>>

\* A call is under way until its answer is known, and the items of a batch show
\* once the lock is about to be given back.
CallOf(p) ==
  IF pc[p] = "idle" THEN [phase |-> "none"]
  ELSE IF pc[p] = "close" THEN [phase |-> "done", r |-> answer[p]]
  ELSE [phase |-> "asked", q |-> ask[p]]

Calls == [p \in Proc |-> CallOf(p)]

Visible == IF \E p \in Proc : pc[p] = "write" THEN base ELSE rows

Table == INSTANCE CoreTable WITH call <- Calls, rows <- Visible

Nothing == [kind |-> "none"]
Asked   == {Table!Reads(ks) : ks \in Table!Scopes} \cup {Table!Writes(b) : b \in Batch}

Init ==
  /\ rows = [k \in Key |-> Absent]
  /\ exists = FALSE
  /\ lock = [p \in Proc |-> "none"]
  /\ pc = [p \in Proc |-> "idle"]
  /\ ask = [p \in Proc |-> Nothing]
  /\ ro = [p \in Proc |-> FALSE]
  /\ tries = [p \in Proc |-> 0]
  /\ n = [p \in Proc |-> 0]
  /\ answer = [p \in Proc |-> Nothing]
  /\ base = rows

Goto(p, label) == pc' = [pc EXCEPT ![p] = label]

\* db.Close() and the return; also what is left of p when its process dies.
Forget(p) ==
  /\ Goto(p, "idle")
  /\ lock' = [lock EXCEPT ![p] = "none"]
  /\ ask' = [ask EXCEPT ![p] = Nothing]
  /\ ro' = [ro EXCEPT ![p] = FALSE]
  /\ tries' = [tries EXCEPT ![p] = 0]
  /\ n' = [n EXCEPT ![p] = 0]
  /\ answer' = [answer EXCEPT ![p] = Nothing]
  /\ UNCHANGED <<rows, exists, base>>

Call(p, q) ==
  /\ pc[p] = "idle"
  /\ ask' = [ask EXCEPT ![p] = q]
  /\ Goto(p, "stat")
  /\ UNCHANGED <<rows, exists, lock, ro, tries, n, answer, base>>

\* getDB looks once whether the database is there: if not it will be created.
Stat(p) ==
  /\ pc[p] = "stat"
  /\ ro' = [ro EXCEPT ![p] = ask[p].kind = "read" /\ exists]
  /\ Goto(p, "open")
  /\ UNCHANGED <<rows, exists, lock, ask, tries, n, answer, base>>

\* Mutant of Mode: the first attempts are read-only whatever is asked.
ModeByTries(p) == IF tries[p] < ReadOnlyAttempts THEN "shared" ELSE "exclusive"

\* Late attempts are not read-only any more.
Mode(p) == IF ro[p] /\ tries[p] < ReadOnlyAttempts THEN "shared" ELSE "exclusive"

Free(p, mode) ==
  \A q \in Proc \ {p} : lock[q] = "none" \/ (lock[q] = "shared" /\ mode = "shared")

Open(p) ==
  /\ pc[p] = "open"
  /\ Free(p, Mode(p))
  /\ lock' = [lock EXCEPT ![p] = Mode(p)]
  /\ exists' = (exists \/ Mode(p) = "exclusive")
  /\ base' = IF Mode(p) = "exclusive" THEN rows ELSE base
  /\ Goto(p, ask[p].kind)
  /\ UNCHANGED <<rows, ask, ro, tries, n, answer>>

\* Mutant of OpenFails: one attempt too many.
OpenFailsLate(p) ==
  /\ pc[p] = "open"
  /\ tries' = [tries EXCEPT ![p] = @ + 1]
  /\ IF tries[p] < Attempts
       THEN UNCHANGED <<pc, answer>>
       ELSE Goto(p, "close") /\ answer' = [answer EXCEPT ![p] = Table!Failed]
  /\ UNCHANGED <<rows, exists, lock, ask, ro, n, base>>

\* The lock is taken, or the database does not open for another reason.
OpenFails(p) ==
  /\ pc[p] = "open"
  /\ tries' = [tries EXCEPT ![p] = @ + 1]
  /\ IF tries[p] + 1 < Attempts
       THEN UNCHANGED <<pc, answer>>
       ELSE Goto(p, "close") /\ answer' = [answer EXCEPT ![p] = Table!Failed]
  /\ UNCHANGED <<rows, exists, lock, ask, ro, n, base>>

\* Get of a key without a row is an error (Deserialize of nothing), which a
\* caller cannot tell from a failure; here the answer says so.
Read(p) ==
  /\ pc[p] = "read"
  /\ \E r \in {Table!Found([k \in ask[p].keys |-> rows[k]]), Table!Failed} :
       answer' = [answer EXCEPT ![p] = r]
  /\ Goto(p, "close")
  /\ UNCHANGED <<rows, exists, lock, ask, ro, tries, n, base>>

\* One db.Set or db.Delete.
WriteItem(p) ==
  /\ pc[p] = "write"
  /\ n[p] < Len(ask[p].batch)
  /\ n' = [n EXCEPT ![p] = @ + 1]
  /\ LET item == ask[p].batch[n[p] + 1]
     IN  rows' = [rows EXCEPT ![item.id] = item.val]
  /\ UNCHANGED <<exists, lock, pc, ask, ro, tries, answer, base>>

WriteEnds(p) ==
  /\ pc[p] = "write"
  /\ \/ /\ n[p] = Len(ask[p].batch)
        /\ answer' = [answer EXCEPT ![p] = Table!Written]
     \/ /\ n[p] < Len(ask[p].batch)
        /\ answer' = [answer EXCEPT ![p] = Table!Failed]
  /\ Goto(p, "close")
  /\ UNCHANGED <<rows, exists, lock, ask, ro, tries, n, base>>

Return(p) == pc[p] = "close" /\ Forget(p)

\* The lock of a process that dies is released; each Set was handed to the system.
Dies(p) == pc[p] # "idle" /\ Forget(p)

Next ==
  \E p \in Proc :
    \/ \E q \in Asked : Call(p, q)
    \/ Stat(p) \/ Open(p) \/ OpenFails(p) \/ Read(p)
    \/ WriteItem(p) \/ WriteEnds(p) \/ Return(p) \/ Dies(p)

Spec == Init /\ [][Next]_vars

------------------------------------------------------------------------------
Answer ==
  {Nothing, Table!Failed, Table!Written}
    \cup {Table!Found(f) : f \in UNION {[ks -> Val \cup {Absent}] : ks \in Table!Scopes}}

TypeOK ==
  /\ rows \in [Key -> Val \cup {Absent}] /\ base \in [Key -> Val \cup {Absent}]
  /\ exists \in BOOLEAN
  /\ lock \in [Proc -> {"none", "shared", "exclusive"}]
  /\ pc \in [Proc -> {"idle", "stat", "open", "read", "write", "close"}]
  /\ ask \in [Proc -> Asked \cup {Nothing}]
  /\ ro \in [Proc -> BOOLEAN]
  /\ tries \in [Proc -> 0 .. Attempts]
  /\ n \in [Proc -> Nat]
  /\ answer \in [Proc -> Answer]

\* Readers and writers of a table see each other's calls as if each happened at
\* one instant, although a batch is written row by row and the lock is only tried.
ImplementsTable == Table!Spec

\* "Check if the database file exists; if not, set to readOnly"
\* (v2/db/core_db.go:18): a read of a table that does not exist leaves it so.
ReadsCreateNothing ==
  [][exists' # exists => \E p \in Proc : ask[p].kind = "write" /\ lock'[p] = "exclusive"]_vars
==============================================================================
