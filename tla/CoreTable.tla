------------------------------ MODULE CoreTable ------------------------------
(***************************************************************************)
(* What v2/db promises of one table: Get, All, UpdateInsert and Delete     *)
(* take effect at one instant each, whatever else is going on, except that *)
(* a batch that fails, or whose process dies, may have been written up to  *)
(* some item.                                                              *)
(***************************************************************************)
EXTENDS Sequences, Naturals

CONSTANTS
  Proc,      \* goroutines (of one or more processes) using the table
  Key,       \* ids of rows
  Val,       \* contents of rows
  Absent,    \* what a key without a row holds
  Batch      \* the batches that callers write

VARIABLES
  rows,      \* the table
  call       \* call[p] : what p asked for and what came of it

vars == <<rows, call>>

\* A read asks for a set of keys; a batch is a sequence of items, and a Delete is
\* a batch of items that hold Absent.
Item == [id : Key, val : Val \cup {Absent}]

None       == [phase |-> "none"]
Asks(q)    == [phase |-> "asked", q |-> q]
Answers(r) == [phase |-> "done", r |-> r]
Reads(ks)  == [kind |-> "read", keys |-> ks]
Writes(b)  == [kind |-> "write", batch |-> b]
Failed     == [kind |-> "error"]
Found(f)   == [kind |-> "found", rows |-> f]
Written    == [kind |-> "ok"]

\* Get reads one key, All every key.
Scopes == {{k} : k \in Key} \cup {Key}

\* The rows after the first n items of a batch.
After(f, b, n) ==
  [k \in DOMAIN f |->
     LET hits == {i \in 1 .. n : b[i].id = k}
     IN  IF hits = {} THEN f[k]
         ELSE b[CHOOSE i \in hits : \A j \in hits : j <= i].val]

Init ==
  /\ rows = [k \in Key |-> Absent]
  /\ call = [p \in Proc |-> None]

Ask(p) ==
  /\ call[p] = None
  /\ \/ \E ks \in Scopes : call' = [call EXCEPT ![p] = Asks(Reads(ks))]
     \/ \E b \in Batch : call' = [call EXCEPT ![p] = Asks(Writes(b))]
  /\ UNCHANGED rows

Read(p) ==
  /\ \E ks \in Scopes :
       /\ call[p] = Asks(Reads(ks))
       /\ call' = [call EXCEPT ![p] = Answers(Found([k \in ks |-> rows[k]]))]
  /\ UNCHANGED rows

ReadFails(p) ==
  /\ \E ks \in Scopes : call[p] = Asks(Reads(ks))
  /\ call' = [call EXCEPT ![p] = Answers(Failed)]
  /\ UNCHANGED rows

Write(p) ==
  \E b \in Batch :
    /\ call[p] = Asks(Writes(b))
    /\ rows' = After(rows, b, Len(b))
    /\ call' = [call EXCEPT ![p] = Answers(Written)]

WriteFails(p) ==
  \E b \in Batch :
    /\ call[p] = Asks(Writes(b))
    /\ \E n \in 0 .. Len(b) : rows' = After(rows, b, n)
    /\ call' = [call EXCEPT ![p] = Answers(Failed)]

Return(p) ==
  /\ call[p].phase = "done"
  /\ call' = [call EXCEPT ![p] = None]
  /\ UNCHANGED rows

\* The process of p dies before, while or after its call takes effect.
Dies(p) ==
  /\ call' = [call EXCEPT ![p] = None]
  /\ \/ UNCHANGED rows
     \/ \E b \in Batch :
          /\ call[p] = Asks(Writes(b))
          /\ \E n \in 1 .. Len(b) : rows' = After(rows, b, n)

Next ==
  \E p \in Proc :
    Ask(p) \/ Read(p) \/ ReadFails(p) \/ Write(p) \/ WriteFails(p) \/ Return(p) \/ Dies(p)

Spec == Init /\ [][Next]_vars
==============================================================================
