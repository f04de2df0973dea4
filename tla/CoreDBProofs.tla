----------------------------- MODULE CoreDBProofs -----------------------------
(***************************************************************************)
(* Theorems about CoreDB for every set of processes, keys, values and      *)
(* batches, and every number of attempts.                                  *)
(***************************************************************************)
EXTENDS CoreDB, TLAPS

\* What each process has in hand where it is.
AskMatchesPc ==
  \A p \in Proc :
    /\ pc[p] # "idle" => ask[p] \in Asked
    /\ pc[p] \in {"read", "write"} => ask[p].kind = pc[p]
    /\ pc[p] \in {"idle", "stat"} => ro[p] = FALSE
    /\ ro[p] => ask[p].kind = "read"
    /\ pc[p] \in {"idle", "stat", "open"} => tries[p] < Attempts /\ lock[p] = "none"
    /\ pc[p] \in {"idle", "stat", "open", "read"} => n[p] = 0

\* LevelDB's lock: a writer holds it alone, a reader among readers only.
LockWorks ==
  /\ \A p, q \in Proc : p # q /\ lock[p] = "exclusive" => lock[q] = "none"
  /\ \A p \in Proc :
       /\ pc[p] = "write" => lock[p] = "exclusive"
       /\ pc[p] = "read" => lock[p] # "none"

\* A writer has written the first n items of its batch and nothing else.
WritesInOrder ==
  \A p \in Proc : pc[p] = "write" =>
    n[p] <= Len(ask[p].batch) /\ rows = Table!After(base, ask[p].batch, n[p])

DBInv == TypeOK /\ AskMatchesPc /\ LockWorks /\ WritesInOrder

------------------------------------------------------------------------------
(* Questions and batches.                                                  *)

Row == [Key -> Val \cup {Absent}]

\* A reader asks the table for the keys of a Get or an All.
LEMMA ReadIsKnown ==
  ASSUME NEW q \in Asked, q.kind = "read"
  PROVE  q.keys \in Table!Scopes /\ q = Table!Reads(q.keys)
BY DEF Asked, Table!Reads, Table!Writes

\* What a batch holds.
LEMMA ItemOfBatch ==
  ASSUME NEW S, NEW b \in Seq(S), NEW i \in 1 .. Len(b)
  PROVE  b[i] \in S
OBVIOUS

\* A writer has a batch of updates or deletes.
LEMMA WriteIsKnown ==
  ASSUME NEW q \in Asked, q.kind = "write"
  PROVE  /\ q.batch \in Batch /\ q = Table!Writes(q.batch)
         /\ Len(q.batch) \in Nat
         /\ \A i \in 1 .. Len(q.batch) : q.batch[i].id \in Key /\ q.batch[i].val \in Val \cup {Absent}
<1>1. q.batch \in Batch /\ q = Table!Writes(q.batch)
  BY DEF Asked, Table!Reads, Table!Writes
<1>2. q.batch \in Seq([id : Key, val : Val \cup {Absent}])
  BY <1>1, DBConstantsOK DEF DBConstantsOK
<1>3. \A i \in 1 .. Len(q.batch) : q.batch[i] \in [id : Key, val : Val \cup {Absent}]
  BY <1>2, ItemOfBatch
<1>4. Len(q.batch) \in Nat
  BY <1>2
<1> QED
  BY <1>1, <1>3, <1>4

\* A process that was asked something reads or writes.
LEMMA NothingIsNotAsked == ASSUME NEW q \in Asked PROVE q.kind \in {"read", "write"}
BY DEF Asked, Table!Reads, Table!Writes

\* After no item the rows are as they were ...
LEMMA AfterNone ==
  ASSUME NEW f \in Row, NEW b
  PROVE  Table!After(f, b, 0) = f
BY DEF Row, Table!After

\* ... and one more item sets its own row.
LEMMA AfterNext ==
  ASSUME NEW f \in Row, NEW b, NEW m \in Nat, b[m + 1].id \in Key
  PROVE  Table!After(f, b, m + 1) = [Table!After(f, b, m) EXCEPT ![b[m + 1].id] = b[m + 1].val]
<1> DEFINE Hits(k, j) == {i \in 1 .. j : b[i].id = k}
<1>1. ASSUME NEW k \in Key, k # b[m + 1].id
      PROVE  Hits(k, m + 1) = Hits(k, m)
  BY <1>1
<1>2. m + 1 \in Hits(b[m + 1].id, m + 1)
  OBVIOUS
<1>3. ASSUME NEW i \in Hits(b[m + 1].id, m + 1), \A j \in Hits(b[m + 1].id, m + 1) : j <= i
      PROVE  i = m + 1
  BY <1>2, <1>3
<1>4. \A j \in Hits(b[m + 1].id, m + 1) : j <= m + 1
  OBVIOUS
<1>5. (CHOOSE i \in Hits(b[m + 1].id, m + 1) : \A j \in Hits(b[m + 1].id, m + 1) : j <= i) = m + 1
  <2> HIDE DEF Hits
  <2> QED
    BY <1>2, <1>3, <1>4
<1> DEFINE Last(k, j) == CHOOSE i \in Hits(k, j) : \A l \in Hits(k, j) : l <= i
<1>6. \A j : Table!After(f, b, j) = [k \in Key |-> IF Hits(k, j) = {} THEN f[k] ELSE b[Last(k, j)].val]
  BY DEF Row, Table!After
<1>7. \A k \in Key : k # b[m + 1].id => Last(k, m + 1) = Last(k, m)
  BY <1>1
<1>8. Last(b[m + 1].id, m + 1) = m + 1
  BY <1>5
<1> HIDE DEF Hits, Last
<1> QED
  BY <1>1, <1>2, <1>6, <1>7, <1>8

------------------------------------------------------------------------------
\* At first no process has the database open.
LEMMA DBInit == Init => DBInv
<1> SUFFICES ASSUME Init PROVE DBInv
  OBVIOUS
<1>1. TypeOK
  <2>1. 0 \in 0 .. Attempts /\ Nothing \in Answer
    BY DBConstantsOK DEF DBConstantsOK, Answer
  <2> QED
    BY <2>1 DEF Init, TypeOK
<1>2. AskMatchesPc /\ LockWorks /\ WritesInOrder
  BY DBConstantsOK DEF DBConstantsOK, Init, AskMatchesPc, LockWorks, WritesInOrder, Nothing
<1> QED
  BY <1>1, <1>2 DEF DBInv

\* Each step keeps the types.
LEMMA DBTypeStep ==
  ASSUME DBInv, [Next]_vars
  PROVE  TypeOK'
<1> USE DBConstantsOK DEF DBInv, TypeOK, Goto
<1>1. ASSUME NEW p \in Proc, NEW q \in Asked, Call(p, q)
      PROVE  TypeOK'
  BY <1>1 DEF Call
<1>2. ASSUME NEW p \in Proc, Stat(p)
      PROVE  TypeOK'
  BY <1>2 DEF Stat
<1>3. ASSUME NEW p \in Proc, Open(p)
      PROVE  TypeOK'
  <2>1. ask[p].kind \in {"read", "write"}
    BY <1>3, NothingIsNotAsked DEF Open, AskMatchesPc
  <2> QED
    BY <1>3, <2>1 DEF Open, Mode
<1>4. ASSUME NEW p \in Proc, OpenFails(p)
      PROVE  TypeOK'
  <2>1. tries[p] + 1 \in 0 .. Attempts
    BY <1>4 DEF OpenFails, AskMatchesPc, DBConstantsOK
  <2>2. Table!Failed \in Answer
    BY DEF Answer
  <2> QED
    BY <1>4, <2>1, <2>2 DEF OpenFails
<1>5. ASSUME NEW p \in Proc, Read(p)
      PROVE  TypeOK'
  <2>1. ask[p] \in Asked /\ ask[p].kind = "read"
    BY <1>5 DEF Read, AskMatchesPc
  <2>2. ask[p].keys \in Table!Scopes
    BY <2>1, ReadIsKnown
  <2>3. ask[p].keys \subseteq Key
    BY <2>2 DEF Table!Scopes
  <2>4. [k \in ask[p].keys |-> rows[k]] \in [ask[p].keys -> Val \cup {Absent}]
    BY <2>3
  <2>5. Table!Found([k \in ask[p].keys |-> rows[k]]) \in Answer /\ Table!Failed \in Answer
    BY <2>2, <2>4 DEF Answer
  <2> QED
    BY <1>5, <2>5 DEF Read
<1>6. ASSUME NEW p \in Proc, WriteItem(p)
      PROVE  TypeOK'
  <2>1. ask[p] \in Asked /\ ask[p].kind = "write"
    BY <1>6 DEF WriteItem, AskMatchesPc
  <2>2. n[p] + 1 \in 1 .. Len(ask[p].batch)
    BY <1>6, <2>1, WriteIsKnown DEF WriteItem
  <2>3. ask[p].batch[n[p] + 1].val \in Val \cup {Absent}
    BY <2>1, <2>2, WriteIsKnown
  <2>4. rows' = [rows EXCEPT ![ask[p].batch[n[p] + 1].id] = ask[p].batch[n[p] + 1].val]
    BY <1>6 DEF WriteItem
  <2>5. rows' \in [Key -> Val \cup {Absent}]
    BY <2>3, <2>4
  <2>6. n' \in [Proc -> Nat]
    BY <1>6 DEF WriteItem
  <2> QED
    BY <1>6, <2>5, <2>6 DEF WriteItem
<1>7. ASSUME NEW p \in Proc, WriteEnds(p)
      PROVE  TypeOK'
  <2>1. Table!Written \in Answer /\ Table!Failed \in Answer
    BY DEF Answer
  <2> QED
    BY <1>7, <2>1 DEF WriteEnds
<1>8. ASSUME NEW p \in Proc, Forget(p)
      PROVE  TypeOK'
  <2>1. Nothing \in Answer /\ 0 \in 0 .. Attempts
    BY DEF Answer, DBConstantsOK
  <2> QED
    BY <1>8, <2>1 DEF Forget
<1>9. CASE UNCHANGED vars
  BY <1>9 DEF vars
<1> QED
  BY <1>1, <1>2, <1>3, <1>4, <1>5, <1>6, <1>7, <1>8, <1>9 DEF Next, Return, Dies

\* Each step keeps locks, attempts and batches together.
LEMMA DBStep ==
  ASSUME DBInv, [Next]_vars
  PROVE  DBInv'
<1> DEFINE Part == AskMatchesPc /\ LockWorks /\ WritesInOrder
<1> SUFFICES Part'
  BY DBTypeStep DEF DBInv
<1> USE DBConstantsOK DEF DBInv, TypeOK, AskMatchesPc, LockWorks, WritesInOrder, Goto
<1>1. ASSUME NEW p \in Proc, NEW q \in Asked, Call(p, q)
      PROVE  Part'
  BY <1>1 DEF Call
<1>2. ASSUME NEW p \in Proc, Stat(p)
      PROVE  Part'
  BY <1>2 DEF Stat
<1>3. ASSUME NEW p \in Proc, Open(p)
      PROVE  Part'
  <2>1. ask[p] \in Asked /\ ask[p].kind \in {"read", "write"} /\ n[p] = 0
    BY <1>3, NothingIsNotAsked DEF Open
  <2>2. AskMatchesPc'
    BY <1>3, <2>1 DEF Open
  <2>3. LockWorks'
    BY <1>3, <2>1 DEF Open, Free, Mode
  <2>4. ASSUME NEW w \in Proc, pc'[w] = "write"
        PROVE  n[w] <= Len(ask[w].batch) /\ rows = Table!After(base', ask[w].batch, n[w])
    <3>1. CASE w = p
      <4>1. base' = rows
        BY <1>3, <2>1, <2>4, <3>1 DEF Open, Mode
      <4>2. ask[p].kind = "write"
        BY <1>3, <2>1, <2>4, <3>1 DEF Open
      <4>3. 0 <= Len(ask[p].batch)
        BY <2>1, <4>2, WriteIsKnown
      <4>4. rows = Table!After(rows, ask[p].batch, 0)
        BY AfterNone DEF Row
      <4> QED
        BY <2>1, <3>1, <4>1, <4>3, <4>4
    <3>2. CASE w # p
      <4>1. pc[w] = "write"
        BY <1>3, <2>4, <3>2 DEF Open
      <4>2. FALSE
        BY <1>3, <3>2, <4>1 DEF Open, Free
      <4> QED
        BY <4>2
    <3> QED
      BY <3>1, <3>2
  <2>5. WritesInOrder'
    BY <1>3, <2>4 DEF Open
  <2> QED
    BY <2>2, <2>3, <2>5
<1>4. ASSUME NEW p \in Proc, OpenFails(p)
      PROVE  Part'
  <2>1. CASE tries[p] + 1 < Attempts
    BY <1>4, <2>1 DEF OpenFails
  <2>2. CASE ~(tries[p] + 1 < Attempts)
    BY <1>4, <2>2 DEF OpenFails
  <2> QED
    BY <2>1, <2>2
<1>5. ASSUME NEW p \in Proc, Read(p)
      PROVE  Part'
  BY <1>5 DEF Read
<1>6. ASSUME NEW p \in Proc, WriteItem(p)
      PROVE  Part'
  <2>1. ask[p] \in Asked /\ ask[p].kind = "write" /\ pc[p] = "write"
    BY <1>6 DEF WriteItem
  <2>2. n[p] + 1 \in 1 .. Len(ask[p].batch) /\ n[p] + 1 <= Len(ask[p].batch)
    BY <1>6, <2>1, WriteIsKnown DEF WriteItem
  <2>3. ask[p].batch[n[p] + 1].id \in Key
    BY <2>1, <2>2, WriteIsKnown
  <2>4. Table!After(base, ask[p].batch, n[p] + 1) =
          [Table!After(base, ask[p].batch, n[p])
             EXCEPT ![ask[p].batch[n[p] + 1].id] = ask[p].batch[n[p] + 1].val]
    <3>1. base \in Row /\ n[p] \in Nat
      BY DEF Row
    <3> QED
      BY ONLY <2>3, <3>1, AfterNext
  <2>5. rows' = Table!After(base, ask[p].batch, n[p] + 1)
    BY <1>6, <2>1, <2>4 DEF WriteItem
  <2>6. \A w \in Proc : pc[w] = "write" => w = p
    BY <2>1
  <2>7. WritesInOrder'
    BY <1>6, <2>2, <2>5, <2>6 DEF WriteItem
  <2> QED
    BY <1>6, <2>7 DEF WriteItem
<1>7. ASSUME NEW p \in Proc, WriteEnds(p)
      PROVE  Part'
  BY <1>7 DEF WriteEnds
<1>8. ASSUME NEW p \in Proc, Forget(p)
      PROVE  Part'
  BY <1>8 DEF Forget, DBConstantsOK
<1>9. CASE UNCHANGED vars
  BY <1>9 DEF vars
<1> QED
  BY <1>1, <1>2, <1>3, <1>4, <1>5, <1>6, <1>7, <1>8, <1>9 DEF Next, Return, Dies

(* Who has a database of core_db.go open, whose lock that is and how far each batch
   has come fit together, whichever processes die. *)
THEOREM DBInductive == Spec => []DBInv
<1>1. DBInv /\ [Next]_vars => DBInv'
  BY DBStep
<1> QED
  BY DBInit, <1>1, PTL DEF Spec

(* The variables of the tables keep their types: in particular no process ever
   makes more than Attempts attempts to open a database. *)
THEOREM DBTypeCorrect == Spec => []TypeOK
<1>1. DBInv => TypeOK
  BY DEF DBInv
<1> QED
  BY <1>1, DBInductive, PTL

------------------------------------------------------------------------------
(* CoreDB implements CoreTable.                                            *)

\* A step of p is seen by nobody but p and the table.
LEMMA OneCallMoves ==
  ASSUME DBInv, NEW p \in Proc,
         pc' = [pc EXCEPT ![p] = pc'[p]], ask' = [ask EXCEPT ![p] = ask'[p]],
         answer' = [answer EXCEPT ![p] = answer'[p]]
  PROVE  Calls[p] = CallOf(p) /\ Calls' = [Calls EXCEPT ![p] = CallOf(p)']
<1>1. ASSUME NEW q \in Proc, q # p
      PROVE  CallOf(q)' = CallOf(q)
  BY <1>1 DEF CallOf, DBInv, TypeOK
<1> QED
  BY <1>1 DEF Calls

\* While a reader, or a writer before its first row, has the lock, the table is what is shown of it.
LEMMA NobodyWrites ==
  ASSUME DBInv, NEW p \in Proc, lock[p] # "none", pc[p] # "write"
  PROVE  Visible = rows
BY DEF DBInv, LockWorks, Visible

\* Every step is one of CoreTable or changes nothing that it shows.
LEMMA TableStep ==
  ASSUME DBInv, DBInv', [Next]_vars
  PROVE  [Table!Next]_Table!vars
<1> DEFINE Simulated == [Table!Next]_Table!vars
<1> SUFFICES Simulated
  OBVIOUS
<1> HIDE DEF Simulated
<1>a. TypeOK /\ AskMatchesPc /\ LockWorks /\ WritesInOrder
  BY DEF DBInv
<1>1. ASSUME NEW p \in Proc, NEW q \in Asked, Call(p, q)
      PROVE  Simulated
  <2>1. CallOf(p) = Table!None /\ CallOf(p)' = Table!Asks(q)
    BY <1>1, <1>a DEF Call, Goto, TypeOK, CallOf, Table!None, Table!Asks
  <2>2. Calls[p] = Table!None /\ Calls' = [Calls EXCEPT ![p] = Table!Asks(q)]
    BY <1>1, <1>a, <2>1, OneCallMoves DEF Call, Goto, TypeOK
  <2>3. Visible' = Visible
    BY <1>1, <1>a DEF Call, Goto, TypeOK, Visible
  <2>4. \/ \E ks \in Table!Scopes : q = Table!Reads(ks)
        \/ \E b \in Batch : q = Table!Writes(b)
    BY DEF Asked
  <2> QED
    BY <2>2, <2>3, <2>4 DEF Simulated, Table!Next, Table!Ask
<1>2. ASSUME NEW p \in Proc, Stat(p)
      PROVE  Simulated
  <2>1. CallOf(p)' = CallOf(p)
    BY <1>2, <1>a DEF Stat, Goto, TypeOK, CallOf
  <2>2. Calls' = Calls
    BY <1>2, <1>a, <2>1, OneCallMoves DEF Stat, Goto, TypeOK, Calls
  <2>3. Visible' = Visible
    BY <1>2, <1>a DEF Stat, Goto, TypeOK, Visible
  <2> QED
    BY <2>2, <2>3 DEF Simulated, Table!vars
<1>3. ASSUME NEW p \in Proc, Open(p)
      PROVE  Simulated
  <2>0. ask[p].kind \in {"read", "write"}
    BY <1>3, <1>a, NothingIsNotAsked DEF Open, AskMatchesPc
  <2>1. CallOf(p)' = CallOf(p)
    BY <1>3, <1>a, <2>0 DEF Open, Goto, TypeOK, CallOf
  <2>2. Calls' = Calls
    BY <1>3, <1>a, <2>1, OneCallMoves DEF Open, Goto, TypeOK, Calls
  <2>3. Visible' = Visible
    <3>1. CASE Mode(p) = "exclusive"
      <4>1. \A q \in Proc : pc[q] # "write"
        BY <1>3, <1>a, <3>1 DEF Open, Free, LockWorks
      <4>2. rows' = rows /\ base' = rows
        BY <1>3, <3>1 DEF Open
      <4> QED
        BY <4>1, <4>2 DEF Visible
    <3>2. CASE Mode(p) # "exclusive"
      <4>1. pc' = [pc EXCEPT ![p] = "read"] /\ UNCHANGED <<rows, base>>
        BY <1>3, <1>a, <2>0, <3>2 DEF Open, Mode, Goto, AskMatchesPc
      <4> QED
        BY <1>3, <1>a, <4>1 DEF Open, TypeOK, Visible
    <3> QED
      BY <3>1, <3>2
  <2> QED
    BY <2>2, <2>3 DEF Simulated, Table!vars
<1>4. ASSUME NEW p \in Proc, OpenFails(p)
      PROVE  Simulated
  <2>1. CASE tries[p] + 1 < Attempts
    <3>1. Calls' = Calls /\ Visible' = Visible
      BY <1>4, <2>1 DEF OpenFails, Calls, CallOf, Visible
    <3> QED
      BY <3>1 DEF Simulated, Table!vars
  <2>2. CASE ~(tries[p] + 1 < Attempts)
    <3>1. CallOf(p) = Table!Asks(ask[p]) /\ CallOf(p)' = Table!Answers(Table!Failed)
      BY <1>4, <1>a, <2>2 DEF OpenFails, Goto, TypeOK, CallOf, Table!Asks, Table!Answers
    <3>2. Calls[p] = Table!Asks(ask[p]) /\ Calls' = [Calls EXCEPT ![p] = Table!Answers(Table!Failed)]
      BY <1>4, <1>a, <2>2, <3>1, OneCallMoves DEF OpenFails, Goto, TypeOK
    <3>3. Visible' = Visible
      BY <1>4, <1>a, <2>2 DEF OpenFails, Goto, TypeOK, Visible
    <3>4. ask[p] \in Asked
      BY <1>4, <1>a DEF OpenFails, AskMatchesPc
    <3>5. CASE ask[p].kind = "read"
      <4>1. ask[p].keys \in Table!Scopes /\ ask[p] = Table!Reads(ask[p].keys)
        BY <3>4, <3>5, ReadIsKnown
      <4> QED
        BY <3>2, <3>3, <4>1 DEF Simulated, Table!Next, Table!ReadFails
    <3>6. CASE ask[p].kind = "write"
      <4>1. ask[p].batch \in Batch /\ ask[p] = Table!Writes(ask[p].batch) /\ 0 \in 0 .. Len(ask[p].batch)
        BY <3>4, <3>6, WriteIsKnown
      <4>2. Visible \in Row
        BY <1>a DEF TypeOK, Row, Visible
      <4>3. Visible' = Table!After(Visible, ask[p].batch, 0)
        BY <3>3, <4>2, AfterNone
      <4> QED
        BY <3>2, <4>1, <4>3 DEF Simulated, Table!Next, Table!WriteFails
    <3> QED
      BY <3>4, <3>5, <3>6, NothingIsNotAsked
  <2> QED
    BY <2>1, <2>2
<1>5. ASSUME NEW p \in Proc, Read(p)
      PROVE  Simulated
  <2>1. ask[p] \in Asked /\ ask[p].kind = "read" /\ pc[p] = "read"
    BY <1>5, <1>a DEF Read, AskMatchesPc
  <2>2. ask[p].keys \in Table!Scopes /\ ask[p] = Table!Reads(ask[p].keys)
    BY <2>1, ReadIsKnown
  <2>3. Visible = rows
    BY <2>1, <1>a, NobodyWrites DEF LockWorks
  <2>4. Visible' = rows
    <3>1. \A q \in Proc : pc'[q] # "write"
      BY <1>5, <2>1, <1>a DEF Read, Goto, TypeOK, LockWorks
    <3> QED
      BY <1>5, <3>1 DEF Read, Visible
  <2>5. PICK r \in {Table!Found([k \in ask[p].keys |-> rows[k]]), Table!Failed} :
          answer' = [answer EXCEPT ![p] = r]
    BY <1>5 DEF Read
  <2>6. CallOf(p) = Table!Asks(ask[p]) /\ CallOf(p)' = Table!Answers(r)
    BY <1>5, <1>a, <2>1, <2>5 DEF Read, Goto, TypeOK, CallOf, Table!Asks, Table!Answers
  <2>7. Calls[p] = Table!Asks(ask[p]) /\ Calls' = [Calls EXCEPT ![p] = Table!Answers(r)]
    <3>1. /\ pc' = [pc EXCEPT ![p] = pc'[p]] /\ ask' = [ask EXCEPT ![p] = ask'[p]]
          /\ answer' = [answer EXCEPT ![p] = answer'[p]]
      BY <1>5, <1>a, <2>5 DEF Read, Goto, TypeOK
    <3> QED
      BY <2>6, <3>1, OneCallMoves
  <2>8. CASE r = Table!Failed
    BY <2>2, <2>3, <2>4, <2>7, <2>8 DEF Simulated, Table!Next, Table!ReadFails
  <2>9. CASE r = Table!Found([k \in ask[p].keys |-> rows[k]])
    BY <2>2, <2>3, <2>4, <2>7, <2>9 DEF Simulated, Table!Next, Table!Read
  <2> QED
    BY <2>8, <2>9
<1>6. ASSUME NEW p \in Proc, WriteItem(p)
      PROVE  Simulated
  <2>1. Calls' = Calls /\ Visible' = Visible
    BY <1>6 DEF WriteItem, Calls, CallOf, Visible
  <2> QED
    BY <2>1 DEF Simulated, Table!vars
<1>7. ASSUME NEW p \in Proc, WriteEnds(p)
      PROVE  Simulated
  <2>1. ask[p] \in Asked /\ ask[p].kind = "write" /\ pc[p] = "write"
    BY <1>7, <1>a DEF WriteEnds, AskMatchesPc
  <2>2. /\ ask[p].batch \in Batch /\ ask[p] = Table!Writes(ask[p].batch)
        /\ Len(ask[p].batch) \in Nat /\ n[p] \in 0 .. Len(ask[p].batch)
    BY <2>1, <1>a, WriteIsKnown DEF TypeOK, WritesInOrder
  <2>3. Visible = base
    BY <2>1 DEF Visible
  <2>4. Visible' = rows
    <3>1. \A q \in Proc : pc'[q] # "write"
      BY <1>7, <2>1, <1>a DEF WriteEnds, Goto, TypeOK, LockWorks
    <3> QED
      BY <1>7, <3>1 DEF WriteEnds, Visible
  <2>5. rows = Table!After(base, ask[p].batch, n[p])
    BY <2>1, <1>a DEF WritesInOrder
  <2>6. PICK r \in {Table!Written, Table!Failed} :
          answer' = [answer EXCEPT ![p] = r] /\ (r = Table!Failed \/ n[p] = Len(ask[p].batch))
    BY <1>7 DEF WriteEnds
  <2>7. CallOf(p) = Table!Asks(ask[p]) /\ CallOf(p)' = Table!Answers(r)
    BY <1>7, <1>a, <2>1, <2>6 DEF WriteEnds, Goto, TypeOK, CallOf, Table!Asks, Table!Answers
  <2>8. Calls[p] = Table!Asks(ask[p]) /\ Calls' = [Calls EXCEPT ![p] = Table!Answers(r)]
    BY <1>7, <1>a, <2>6, <2>7, OneCallMoves DEF WriteEnds, Goto, TypeOK
  <2>9. CASE r = Table!Failed
    BY <2>2, <2>3, <2>4, <2>5, <2>8, <2>9 DEF Simulated, Table!Next, Table!WriteFails
  <2>10. CASE r = Table!Written /\ n[p] = Len(ask[p].batch)
    BY <2>2, <2>3, <2>4, <2>5, <2>8, <2>10 DEF Simulated, Table!Next, Table!Write
  <2> QED
    BY <2>6, <2>9, <2>10
<1>8. ASSUME NEW p \in Proc, Return(p)
      PROVE  Simulated
  <2>1. CallOf(p).phase = "done" /\ CallOf(p)' = Table!None
    BY <1>8, <1>a DEF Return, Forget, Goto, TypeOK, CallOf, Table!None
  <2>2. Calls[p].phase = "done" /\ Calls' = [Calls EXCEPT ![p] = Table!None]
    BY <1>8, <1>a, <2>1, OneCallMoves DEF Return, Forget, Goto, TypeOK
  <2>3. Visible' = Visible
    BY <1>8, <1>a DEF Return, Forget, Goto, TypeOK, Visible
  <2> QED
    BY <2>2, <2>3 DEF Simulated, Table!Next, Table!Return
<1>9. ASSUME NEW p \in Proc, Dies(p)
      PROVE  Simulated
  <2>1. CallOf(p)' = Table!None
    BY <1>9, <1>a DEF Dies, Forget, Goto, TypeOK, CallOf, Table!None
  <2>2. Calls[p] = CallOf(p) /\ Calls' = [Calls EXCEPT ![p] = Table!None]
    BY <1>9, <1>a, <2>1, OneCallMoves DEF Dies, Forget, Goto, TypeOK
  <2>3. CASE pc[p] # "write"
    <3>1. Visible' = Visible
      BY <1>9, <1>a, <2>3 DEF Dies, Forget, Goto, TypeOK, Visible
    <3> QED
      BY <2>2, <3>1 DEF Simulated, Table!Next, Table!Dies
  <2>4. CASE pc[p] = "write"
    <3>1. ask[p] \in Asked /\ ask[p].kind = "write"
      BY <2>4, <1>a DEF AskMatchesPc
    <3>2. /\ ask[p].batch \in Batch /\ ask[p] = Table!Writes(ask[p].batch)
          /\ Len(ask[p].batch) \in Nat /\ n[p] \in 0 .. Len(ask[p].batch)
      BY <3>1, <2>4, <1>a, WriteIsKnown DEF TypeOK, WritesInOrder
    <3>3. Visible = base
      BY <2>4 DEF Visible
    <3>4. \A q \in Proc : pc'[q] # "write"
      BY <1>9, <2>4, <1>a DEF Dies, Forget, Goto, TypeOK, LockWorks
    <3>5. Visible' = rows
      BY <1>9, <3>4 DEF Dies, Forget, Visible
    <3>6. rows = Table!After(base, ask[p].batch, n[p])
      BY <2>4, <1>a DEF WritesInOrder
    <3>7. Calls[p] = Table!Asks(Table!Writes(ask[p].batch))
      BY <2>2, <2>4, <3>2 DEF CallOf, Table!Asks
    <3>8. CASE n[p] = 0
      <4>1. rows = base
        BY <1>a, <3>6, <3>8, AfterNone DEF TypeOK, Row
      <4> QED
        BY <2>2, <3>3, <3>5, <4>1 DEF Simulated, Table!Next, Table!Dies
    <3>9. CASE n[p] # 0
      <4>1. n[p] \in 1 .. Len(ask[p].batch)
        BY <3>2, <3>9
      <4> QED
        BY <2>2, <3>2, <3>3, <3>5, <3>6, <3>7, <4>1 DEF Simulated, Table!Next, Table!Dies
    <3> QED
      BY <3>8, <3>9
  <2> QED
    BY <2>3, <2>4
<1>10. CASE UNCHANGED vars
  <2>1. Calls' = Calls /\ Visible' = Visible
    BY <1>10 DEF vars, Calls, CallOf, Visible
  <2> QED
    BY <2>1 DEF Simulated, Table!vars
<1> QED
  BY <1>1, <1>2, <1>3, <1>4, <1>5, <1>6, <1>7, <1>8, <1>9, <1>10 DEF Next

(* Reads and batches are atomic to one another, with readers and writers in several
   processes, an open that fails or gives up, a batch that fails half way and a
   process that dies at any point: nobody ever reads half of a batch under way. *)
THEOREM TableIsAtomic == Spec => ImplementsTable
<1>1. Init => Table!Init
  <2> SUFFICES ASSUME Init PROVE Table!Init
    OBVIOUS
  <2>1. Calls = [p \in Proc |-> Table!None]
    BY DEF Init, Calls, CallOf, Table!None
  <2>2. Visible = [k \in Key |-> Absent]
    BY DEF Init, Visible
  <2> QED
    BY <2>1, <2>2 DEF Table!Init
<1>2. DBInv /\ DBInv' /\ [Next]_vars => [Table!Next]_Table!vars
  BY TableStep
<1> QED
  BY <1>1, <1>2, DBInductive, PTL DEF Spec, ImplementsTable, Table!Spec

------------------------------------------------------------------------------
(* The way of a call.                                                      *)

\* The items a call still has to write.
ItemsLeft(p) == IF ask[p].kind = "write" THEN Len(ask[p].batch) - n[p] ELSE 0

\* A bound of the steps to the return.
StepsLeft(p) ==
  CASE pc[p] = "idle"  -> 0
    [] pc[p] = "stat"  -> Attempts - tries[p] + ItemsLeft(p) + 3
    [] pc[p] = "open"  -> Attempts - tries[p] + ItemsLeft(p) + 2
    [] pc[p] = "read"  -> 2
    [] pc[p] = "write" -> ItemsLeft(p) + 2
    [] OTHER           -> 1

\* A step of a process that serves a call brings it nearer to its return, and no
\* other one further away from it.
EndsInSight ==
  [][\E p \in Proc :
       /\ \A q \in Proc \ {p} : StepsLeft(q)' = StepsLeft(q)
       /\ pc[p] = "idle" \/ StepsLeft(p)' < StepsLeft(p)]_vars

\* Nobody has more items to write than its batch has, and a reader has none.
LEMMA ItemsAreCounted ==
  ASSUME DBInv, NEW p \in Proc, pc[p] \notin {"idle", "close"}
  PROVE  /\ ask[p] \in Asked /\ ask[p].kind \in {"read", "write"}
         /\ ask[p].kind = "write" => Len(ask[p].batch) \in Nat /\ n[p] \in 0 .. Len(ask[p].batch)
         /\ ItemsLeft(p) \in Nat /\ tries[p] \in 0 .. Attempts /\ Attempts \in Nat
<1>1. ask[p] \in Asked /\ ask[p].kind \in {"read", "write"}
  BY NothingIsNotAsked DEF DBInv, TypeOK, AskMatchesPc
<1>2. ask[p].kind = "write" => Len(ask[p].batch) \in Nat
  BY <1>1, WriteIsKnown
<1>3. n[p] \in Nat /\ (pc[p] # "write" => n[p] = 0)
  BY DEF DBInv, TypeOK, AskMatchesPc
<1>4. ask[p].kind = "write" => n[p] \in 0 .. Len(ask[p].batch)
  BY <1>2, <1>3 DEF DBInv, WritesInOrder
<1>5. tries[p] \in 0 .. Attempts /\ Attempts \in Nat
  BY DBConstantsOK DEF DBConstantsOK, DBInv, TypeOK
<1> QED
  BY <1>1, <1>2, <1>4, <1>5 DEF ItemsLeft

\* One step of a process counts down; what the others have to do stays the same.
LEMMA StepCountsDown ==
  ASSUME DBInv, NEW p \in Proc, pc[p] # "idle",
         Stat(p) \/ Open(p) \/ OpenFails(p) \/ Read(p) \/ WriteItem(p) \/ WriteEnds(p) \/ Forget(p)
  PROVE  StepsLeft(p)' < StepsLeft(p)
<1>a. pc[p] \notin {"idle", "close"} =>
        /\ ask[p].kind \in {"read", "write"}
        /\ ask[p].kind = "write" => Len(ask[p].batch) \in Nat /\ n[p] \in 0 .. Len(ask[p].batch)
        /\ ItemsLeft(p) \in Nat /\ Attempts - tries[p] \in Nat
        /\ pc[p] = "open" => tries[p] \in Nat /\ tries[p] < Attempts /\ Attempts \in Nat
  <2>1. pc[p] \notin {"idle", "close"} =>
          /\ ask[p].kind \in {"read", "write"}
          /\ ask[p].kind = "write" => Len(ask[p].batch) \in Nat /\ n[p] \in 0 .. Len(ask[p].batch)
          /\ ItemsLeft(p) \in Nat /\ tries[p] \in 0 .. Attempts /\ Attempts \in Nat
    BY ItemsAreCounted
  <2>2. pc[p] = "open" => tries[p] < Attempts
    BY DEF DBInv, AskMatchesPc
  <2> QED
    BY ONLY <2>1, <2>2
<1>b. DBInv => TypeOK
  BY DEF DBInv
<1> USE <1>b DEF TypeOK, Goto
<1>1. CASE Stat(p)
  <2>1. pc[p] = "stat" /\ pc'[p] = "open" /\ UNCHANGED <<ask, n, tries>>
    BY <1>1 DEF Stat
  <2>2. ItemsLeft(p)' = ItemsLeft(p) /\ tries' = tries
    BY <2>1 DEF ItemsLeft
  <2> QED
    BY ONLY <1>a, <2>1, <2>2 DEF StepsLeft
<1>2. CASE Open(p)
  <2>1. pc[p] = "open" /\ pc'[p] = ask[p].kind /\ UNCHANGED <<ask, n, tries>>
    BY <1>2 DEF Open
  <2>2. ItemsLeft(p)' = ItemsLeft(p) /\ 0 < Attempts - tries[p]
    BY <1>a, <2>1 DEF ItemsLeft
  <2> QED
    BY ONLY <1>a, <2>1, <2>2 DEF StepsLeft
<1>3. CASE OpenFails(p)
  <2>1. pc[p] = "open" /\ UNCHANGED <<ask, n>> /\ tries'[p] = tries[p] + 1
    BY <1>3 DEF OpenFails
  <2>2. pc'[p] = "open" \/ pc'[p] = "close"
    BY <1>3, <2>1 DEF OpenFails
  <2>3. ItemsLeft(p)' = ItemsLeft(p)
    BY <2>1 DEF ItemsLeft
  <2>4. StepsLeft(p) = Attempts - tries[p] + ItemsLeft(p) + 2
    BY ONLY <2>1 DEF StepsLeft
  <2>5. ItemsLeft(p) \in Nat /\ tries[p] \in Nat /\ Attempts \in Nat /\ tries[p] < Attempts
    BY ONLY <1>a, <2>1
  <2>6. CASE pc'[p] = "open"
    <3>1. StepsLeft(p)' = Attempts - (tries[p] + 1) + ItemsLeft(p) + 2
      BY ONLY <2>1, <2>3, <2>6 DEF StepsLeft
    <3> QED
      BY ONLY <2>4, <2>5, <3>1
  <2>7. CASE pc'[p] = "close"
    <3>1. StepsLeft(p)' = 1
      BY ONLY <2>7 DEF StepsLeft
    <3> QED
      BY ONLY <2>4, <2>5, <3>1
  <2> QED
    BY <2>2, <2>6, <2>7
<1>4. CASE Read(p)
  BY <1>4 DEF Read, StepsLeft
<1>5. CASE WriteItem(p)
  <2>1. pc[p] = "write" /\ pc'[p] = "write" /\ UNCHANGED ask /\ n'[p] = n[p] + 1
    BY <1>5 DEF WriteItem
  <2>2. ask[p].kind = "write"
    BY <2>1 DEF DBInv, AskMatchesPc
  <2>3. Len(ask[p].batch) \in Nat /\ n[p] \in Nat /\ ItemsLeft(p) \in Nat
    BY ONLY <1>a, <2>1, <2>2
  <2>4. ItemsLeft(p) = Len(ask[p].batch) - n[p] /\ ItemsLeft(p)' = Len(ask[p].batch) - (n[p] + 1)
    BY ONLY <2>1, <2>2 DEF ItemsLeft
  <2>5. StepsLeft(p) = ItemsLeft(p) + 2 /\ StepsLeft(p)' = ItemsLeft(p)' + 2
    BY ONLY <2>1 DEF StepsLeft
  <2>6. \A l, k \in Nat : l - (k + 1) + 2 < l - k + 2
    OBVIOUS
  <2>7. Len(ask[p].batch) - (n[p] + 1) + 2 < Len(ask[p].batch) - n[p] + 2
    BY ONLY <2>3, <2>6
  <2> QED
    BY ONLY <2>4, <2>5, <2>7
<1>6. CASE WriteEnds(p)
  <2>1. pc[p] = "write" /\ pc'[p] = "close"
    BY <1>6 DEF WriteEnds
  <2> QED
    BY ONLY <1>a, <2>1 DEF StepsLeft
<1>7. CASE Forget(p)
  <2>1. pc'[p] = "idle"
    BY <1>7 DEF Forget
  <2> QED
    BY ONLY pc[p] # "idle", <1>a, <2>1 DEF StepsLeft
<1> QED
  BY <1>1, <1>2, <1>3, <1>4, <1>5, <1>6, <1>7

(* The retries of getDB come to an end whoever holds the lock: a Get, All, UpdateInsert
   or Delete makes at most Attempts + 3 steps and one for each item it writes, and who
   has returned, died or not opened the table yet holds no lock that others meet. *)
THEOREM DBCallsEnd ==
  Spec => EndsInSight /\ [](\A p \in Proc : lock[p] # "none" => pc[p] \in {"read", "write", "close"})
<1>1. ASSUME DBInv, Next
      PROVE  \E p \in Proc :
               /\ \A q \in Proc \ {p} : StepsLeft(q)' = StepsLeft(q)
               /\ pc[p] = "idle" \/ StepsLeft(p)' < StepsLeft(p)
  <2>1. PICK p \in Proc :
          \/ \E q \in Asked : Call(p, q)
          \/ Stat(p) \/ Open(p) \/ OpenFails(p) \/ Read(p) \/ WriteItem(p) \/ WriteEnds(p)
          \/ pc[p] # "idle" /\ Forget(p)
    BY <1>1 DEF Next, Return, Dies
  <2>2. \A q \in Proc \ {p} :
          pc'[q] = pc[q] /\ ask'[q] = ask[q] /\ tries'[q] = tries[q] /\ n'[q] = n[q]
    BY <1>1, <2>1 DEF DBInv, TypeOK, Call, Stat, Open, OpenFails, Read, WriteItem, WriteEnds,
       Forget,
       Goto
  <2>3. \A q \in Proc \ {p} : StepsLeft(q)' = StepsLeft(q)
    BY <2>2 DEF StepsLeft, ItemsLeft
  <2>4. pc[p] = "idle" \/ StepsLeft(p)' < StepsLeft(p)
    BY <1>1, <2>1, StepCountsDown DEF Call
  <2> QED
    BY <2>3, <2>4
<1>2. DBInv /\ [Next]_vars
        => [\E p \in Proc :
              /\ \A q \in Proc \ {p} : StepsLeft(q)' = StepsLeft(q)
              /\ pc[p] = "idle" \/ StepsLeft(p)' < StepsLeft(p)]_vars
  BY <1>1
<1>3. DBInv => \A p \in Proc : lock[p] # "none" => pc[p] \in {"read", "write", "close"}
  BY DEF DBInv, TypeOK, AskMatchesPc
<1> QED
  BY <1>2, <1>3, DBInductive, PTL DEF Spec, EndsInSight
================================================================================
