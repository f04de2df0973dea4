---------------------------- MODULE ExtensionProofs ----------------------------
(***************************************************************************)
(* Theorems about the extension host and the page that is its client, for  *)
(* every set of extensions and every bound on the streams, edits,          *)
(* submissions, loads and faults.                                          *)
(***************************************************************************)
EXTENDS ExtensionPage, FiniteSetTheorems, SequenceTheorems, WellFoundedInduction, TLAPS

------------------------------------------------------------------------------
(* The inductive invariant.                                                *)

Kinds == {UPDATE_UI, SHOW_DIALOG}

Wires == {UiMessage(e, type) : e \in Ext, type \in Kinds}

Streams ==
  [at : {"sent", "push", "loop"}, ext : Ext, inst : Nat, net : Seq(Wires),
   page : {"live", "dead"}]

Edits ==
  [at : {"sent", "remove", "store", "load", "install", "answer", "failed"}, ext : Ext,
   enable : BOOLEAN, told : BOOLEAN]

Submissions ==
  [at : {"sent", "push"}, ext : Ext, from : Ext \cup {None}, fresh : BOOLEAN, inst : Nat,
   type : {0} \cup Kinds]

Entries == [enable : BOOLEAN, checked : BOOLEAN]

\* A call that was made and is not over.
Made(call) == call.at \notin {"unused", "over"}

\* The edits that will not load an instance any more.
Settled == {t \in 1 .. MaxEdits : edits[t].at \in {"answer", "failed", "over"}}

\* The rows and the instances: each instance was built at first, at a restart or
\* by an edit.
Instances ==
  /\ alive \in BOOLEAN /\ enabled \in [Ext -> BOOLEAN]
  /\ inst \in [Ext -> Nat] /\ made \in [Ext -> Nat] /\ missed \subseteq Ext
  /\ faults \in 0 .. MaxFaults
  /\ \A e \in Ext : inst[e] \in {0, made[e]}
  /\ \A e \in Ext : made[e] <= 1 + faults + Cardinality(Settled)

\* What is queued for an instance, and who is to take it.
Queues ==
  /\ queue \in [Ext -> [Number0 -> {<<>>} \cup {<<type>> : type \in Kinds}]]
  /\ \A e \in Ext : \A n \in Number0 : queue[e][n] # <<>> => n \in 1 .. made[e]

Kept ==
  \A e \in Ext : \A n \in Number0 :
    queue[e][n] # <<>> =>
      \/ <<e, n>> \in spoiled
      \/ \E s \in 1 .. MaxStreams : conns[s].at = "loop" /\ Key(conns[s]) = <<e, n>>

\* Calls.
StreamsFit ==
  /\ conns \in [1 .. MaxStreams -> {Unused, Over} \cup Streams]
  /\ \A s \in 1 .. MaxStreams :
       /\ conns[s].at \in {"push", "loop"} => conns[s].inst \in 1 .. made[conns[s].ext]
       /\ Made(conns[s]) /\ conns[s].page # "dead" => current \in Ext

EditsFit ==
  /\ edits \in [1 .. MaxEdits -> {Unused, Over} \cup Edits]
  /\ ~alive => \A t \in 1 .. MaxEdits : ~Serving(edits[t])

SubmissionsFit ==
  /\ submits \in Seq(Submissions)
  /\ \A k \in DOMAIN submits :
       submits[k].at = "push" =>
         submits[k].inst \in 1 .. made[submits[k].ext] /\ submits[k].type \in Kinds

\* A call that will load e, disable its row, or find that it cannot.
Underway(t, e) == edits[t].at \in {"store", "load", "install"} /\ edits[t].ext = e

\* An enabled extension that is not loaded was missed, or a call is at it.
Loading ==
  alive => \A e \in Ext : enabled[e] /\ inst[e] = 0 =>
    e \in missed \/ \E t \in 1 .. MaxEdits : Underway(t, e)

\* The page shows forms and dialogs of the current extension.
Shows ==
  /\ view \in {"list", "page"} /\ current \in Ext \cup {None}
  /\ view = "page" => current # None
  /\ form \in Ext \cup {None} /\ dialog \in Ext \cup {None} /\ listeners \in Nat
  /\ fresh \in BOOLEAN
  /\ fresh => form = current
  /\ dialog # None => dialog = current /\ listeners > 0
  /\ \A k \in DOMAIN submits :
       submits[k].from # None /\ submits[k].fresh => submits[k].from = submits[k].ext

\* The page waits for the answer to an edit of e, and will load the list after it.
Pending(e) ==
  \E t \in 1 .. MaxEdits : Made(edits[t]) /\ ~edits[t].told /\ edits[t].ext = e

Entry(on) == <<[enable |-> on, checked |-> on]>>

ListsFit ==
  /\ list \in [Ext -> Seq(Entries)] /\ muddled \in BOOLEAN
  /\ loads \in [1 .. MaxLoads -> {Unused, Over, [at |-> "sent"]}
                                 \cup [at : {"answer"}, rows : [Ext -> BOOLEAN]]]

\* What a list that was loaded once shows is the host's rows, but for the edits
\* the page waits for.
Lists ==
  /\ \A t \in 1 .. MaxEdits : Made(edits[t]) /\ edits[t].told /\ Serving(edits[t]) => muddled
  /\ ~muddled =>
       /\ \A l, m \in 1 .. MaxLoads : InFlight(l) /\ InFlight(m) => l = m
       /\ (\E l \in 1 .. MaxLoads : InFlight(l)) => list = Off
       /\ \A l \in 1 .. MaxLoads : \A e \in Ext :
            loads[l].at = "answer" /\ loads[l].rows[e] # enabled[e] => Pending(e)
       /\ \A e \in Ext :
            (\A l \in 1 .. MaxLoads : ~InFlight(l)) =>
              Len(list[e]) = 1 /\ (list[e] = Entry(enabled[e]) \/ Pending(e))

ExtInv ==
  /\ Instances
  /\ Queues
  /\ Kept
  /\ StreamsFit
  /\ EditsFit
  /\ SubmissionsFit
  /\ Loading
  /\ Shows
  /\ ListsFit
  /\ Lists

------------------------------------------------------------------------------
(* Facts the steps need.                                                   *)

\* The two kinds of message an extension can have queued are numbers other than 0.
LEMMA KindsAreNumbers == UPDATE_UI = 1 /\ SHOW_DIALOG = 2
BY DEF UPDATE_UI, SHOW_DIALOG, B!ExtensionResponseType

\* NextOf is one of the calls, and it was not used yet.
LEMMA NextOfIsUnused ==
  ASSUME NEW N \in Nat, NEW calls, DOMAIN calls = 1 .. N, HasNext(calls)
  PROVE  NextOf(calls) \in 1 .. N /\ calls[NextOf(calls)] = Unused
<1> DEFINE T == {n \in 1 .. N : calls[n] = Unused}
<1>1. T \subseteq Nat /\ T # {}
  BY DEF HasNext
<1>2. PICK n \in T : \A y \in T : ~(<<y, n>> \in OpToRel(<, Nat))
  BY <1>1, NatLessThanWellFounded, WFMin
<1>3. \A j \in 1 .. (n - 1) : calls[j] # Unused
  <2> SUFFICES ASSUME NEW j \in 1 .. (n - 1), calls[j] = Unused PROVE FALSE
    OBVIOUS
  <2>1. n \in 1 .. N
    OBVIOUS
  <2>2. j \in 1 .. N /\ j \in Nat /\ n \in Nat /\ j < n
    BY ONLY <2>1, j \in 1 .. (n - 1), N \in Nat
  <2>3. <<j, n>> \in OpToRel(<, Nat)
    BY <2>2 DEF OpToRel
  <2> QED
    BY <1>2, <2>2, <2>3
<1>4. DOMAIN calls = 1 .. N
  OBVIOUS
<1> QED
  BY <1>2, <1>3, <1>4 DEF NextOf

\* Counting the edits that are settled: more of them count more, one more counts
\* one more.
LEMMA Counting ==
  ASSUME NEW N \in Nat, NEW S, NEW T, S \subseteq 1 .. N, T \subseteq 1 .. N
  PROVE  /\ Cardinality(S) \in Nat /\ Cardinality(S) <= N
         /\ S \subseteq T => Cardinality(S) <= Cardinality(T)
         /\ \A n \in T : S \subseteq T /\ n \notin S => Cardinality(S) + 1 <= Cardinality(T)
<1>1. IsFiniteSet(1 .. N) /\ Cardinality(1 .. N) = N
  BY FS_Interval
<1>2. IsFiniteSet(S) /\ IsFiniteSet(T)
  BY <1>1, FS_Subset
<1>3. Cardinality(S) \in Nat /\ Cardinality(S) <= N
  <2>1. Cardinality(S) <= Cardinality(1 .. N)
    BY <1>1, FS_Subset
  <2> QED
    BY ONLY <1>1, <1>2, <2>1, FS_CardinalityType
<1>4. S \subseteq T => Cardinality(S) <= Cardinality(T)
  BY <1>2, FS_Subset
<1>5. ASSUME NEW n \in T, S \subseteq T, n \notin S
      PROVE  Cardinality(S) + 1 <= Cardinality(T)
  <2>1. Cardinality(S \cup {n}) = Cardinality(S) + 1
    BY <1>2, <1>5, FS_AddElement
  <2>2. S \cup {n} \subseteq T
    BY <1>5
  <2> QED
    BY <1>2, <2>1, <2>2, FS_Subset
<1> QED
  BY <1>3, <1>4, <1>5

\* The counts of the edits settled before and after a step.
LEMMA CountSettled ==
  /\ Cardinality(Settled) \in Nat /\ Cardinality(Settled) <= MaxEdits
  /\ Cardinality(Settled') \in Nat /\ Cardinality(Settled') <= MaxEdits
  /\ Settled \subseteq Settled' => Cardinality(Settled) <= Cardinality(Settled')
  /\ \A t \in Settled' : Settled \subseteq Settled' /\ t \notin Settled =>
       Cardinality(Settled) + 1 <= Cardinality(Settled')
<1>1. Settled \subseteq 1 .. MaxEdits /\ Settled' \subseteq 1 .. MaxEdits
  BY DEF Settled
<1>2. MaxEdits \in Nat
  BY HostConstantsOK
<1> HIDE DEF Settled
<1> QED
  BY <1>1, <1>2, Counting

\* What is left of a sequence without one of its elements.
LEMMA RemovedOne ==
  ASSUME NEW S, NEW s \in Seq(S), NEW k \in DOMAIN s
  PROVE  /\ RemoveAt(s, k) \in Seq(S)
         /\ \A j \in DOMAIN RemoveAt(s, k) : \E i \in DOMAIN s : RemoveAt(s, k)[j] = s[i]
<1> DEFINE u == SubSeq(s, 1, k - 1)
           v == SubSeq(s, k + 1, Len(s))
<1>1. k \in 1 .. Len(s) /\ Len(s) \in Nat
  OBVIOUS
<1>2. u \in Seq(S) /\ Len(u) = k - 1 /\ \A j \in 1 .. (k - 1) : u[j] = s[j]
  BY <1>1
<1>3. v \in Seq(S) /\ Len(v) = Len(s) - k /\ \A j \in 1 .. (Len(s) - k) : v[j] = s[k + j]
  BY <1>1
<1>4. RemoveAt(s, k) = u \o v
  BY DEF RemoveAt
<1> HIDE DEF u, v
<1>5. Len(u \o v) = Len(s) - 1
      /\ \A j \in 1 .. Len(u \o v) : (u \o v)[j] = IF j <= Len(u) THEN u[j] ELSE v[j - Len(u)]
  <2>1. /\ Len(u \o v) = Len(u) + Len(v)
        /\ \A j \in 1 .. Len(u) + Len(v) :
             (u \o v)[j] = IF j <= Len(u) THEN u[j] ELSE v[j - Len(u)]
    BY ONLY <1>2, <1>3, ConcatProperties
  <2>2. Len(u) + Len(v) = Len(s) - 1
    BY ONLY <1>1, <1>2, <1>3
  <2> QED
    BY ONLY <2>1, <2>2
<1>6. u \o v \in Seq(S)
  BY <1>2, <1>3
<1>7. ASSUME NEW j \in 1 .. Len(u \o v)  PROVE \E i \in DOMAIN s : (u \o v)[j] = s[i]
  <2>a. j \in 1 .. (Len(s) - 1) /\ Len(u) = k - 1
    BY ONLY <1>2, <1>5, <1>7
  <2>1. CASE j <= k - 1
    <3>1. (u \o v)[j] = u[j]
      BY ONLY <1>5, <1>7, <2>a, <2>1
    <3>2. j \in 1 .. (k - 1) /\ j \in 1 .. Len(s)
      BY ONLY <1>1, <2>a, <2>1
    <3>3. DOMAIN s = 1 .. Len(s)
      OBVIOUS
    <3> QED
      BY ONLY <1>2, <3>1, <3>2, <3>3
  <2>2. CASE j > k - 1
    <3>1. j - (k - 1) \in 1 .. (Len(s) - k) /\ (u \o v)[j] = v[j - (k - 1)]
      <4>1. j - (k - 1) \in 1 .. (Len(s) - k) /\ ~ (j <= k - 1)
        BY ONLY <1>1, <2>a, <2>2
      <4> QED
        BY ONLY <1>5, <1>7, <2>a, <4>1
    <3>2. v[j - (k - 1)] = s[k + (j - (k - 1))]
      BY ONLY <1>3, <3>1
    <3>3. k + (j - (k - 1)) \in DOMAIN s
      <4>1. DOMAIN s = 1 .. Len(s)
        OBVIOUS
      <4>2. k + (j - (k - 1)) = j + 1
        BY ONLY <1>1, <2>a
      <4>3. j + 1 \in 1 .. Len(s)
        BY ONLY <1>1, <2>a
      <4> QED
        BY ONLY <4>1, <4>2, <4>3
    <3> QED
      BY ONLY <3>1, <3>2, <3>3
  <2> QED
    BY <1>1, <2>1, <2>2
<1>8. DOMAIN (u \o v) = 1 .. Len(u \o v)
  BY <1>6
<1> QED
  BY <1>4, <1>6, <1>7, <1>8

\* Each part of the invariant is about some of the variables only.
LEMMA Frames ==
  /\ Instances /\ UNCHANGED <<alive, enabled, inst, made, missed, faults, edits>> => Instances'
  /\ Queues /\ UNCHANGED <<queue, made>> => Queues'
  /\ Kept /\ UNCHANGED <<queue, spoiled, conns>> => Kept'
  /\ StreamsFit /\ UNCHANGED <<conns, made, current>> => StreamsFit'
  /\ EditsFit /\ UNCHANGED <<edits, alive>> => EditsFit'
  /\ SubmissionsFit /\ UNCHANGED <<submits, made>> => SubmissionsFit'
  /\ Loading /\ UNCHANGED <<alive, enabled, inst, missed, edits>> => Loading'
  /\ Shows /\ UNCHANGED <<view, current, form, dialog, listeners, fresh, submits>> => Shows'
  /\ ListsFit /\ UNCHANGED <<list, muddled, loads>> => ListsFit'
  /\ Lists /\ UNCHANGED <<muddled, loads, list, enabled, edits>> => Lists'
<1>1. Instances /\ UNCHANGED <<alive, enabled, inst, made, missed, faults, edits>> => Instances'
  BY DEF Instances, Settled
<1>2. Queues /\ UNCHANGED <<queue, made>> => Queues'
  BY DEF Queues
<1>3. Kept /\ UNCHANGED <<queue, spoiled, conns>> => Kept'
  BY DEF Kept, Key
<1>4. StreamsFit /\ UNCHANGED <<conns, made, current>> => StreamsFit'
  BY DEF StreamsFit
<1>5. EditsFit /\ UNCHANGED <<edits, alive>> => EditsFit'
  BY DEF EditsFit
<1>6. SubmissionsFit /\ UNCHANGED <<submits, made>> => SubmissionsFit'
  BY DEF SubmissionsFit
<1>7. Loading /\ UNCHANGED <<alive, enabled, inst, missed, edits>> => Loading'
  BY DEF Loading, Underway
<1>8. Shows /\ UNCHANGED <<view, current, form, dialog, listeners, fresh, submits>> => Shows'
  BY DEF Shows
<1>9. ListsFit /\ UNCHANGED <<list, muddled, loads>> => ListsFit'
  BY DEF ListsFit
<1>10. Lists /\ UNCHANGED <<muddled, loads, list, enabled, edits>> => Lists'
  BY DEF Lists, Pending, InFlight
<1> QED
  BY ONLY <1>1, <1>2, <1>3, <1>4, <1>5, <1>6, <1>7, <1>8, <1>9, <1>10

\* The calls the host or the page has, by where they are.
LEMMA StreamShape ==
  ASSUME StreamsFit, NEW s \in 1 .. MaxStreams
  PROVE  /\ DOMAIN conns = 1 .. MaxStreams
         /\ Made(conns[s]) <=> conns[s] \in Streams
         /\ conns[s].at = "unused" <=> conns[s] = Unused
         /\ conns[s].at = "over" <=> conns[s] = Over
         /\ Made(conns[s]) =>
              /\ conns[s].at \in {"sent", "push", "loop"}
              /\ conns[s].ext \in Ext /\ conns[s].inst \in Nat /\ conns[s].net \in Seq(Wires)
              /\ conns[s].page \in {"live", "dead"}
<1>1. conns[s] \in {Unused, Over} \cup Streams /\ DOMAIN conns = 1 .. MaxStreams
  BY DEF StreamsFit
<1>2. CASE conns[s] \in Streams
  BY <1>1, <1>2 DEF Streams, Made, Unused, Over
<1>3. CASE conns[s] \in {Unused, Over}
  BY <1>1, <1>3 DEF Streams, Made, Unused, Over
<1> QED
  BY <1>1, <1>2, <1>3

\* A stream stays one when it moves on, and all else of it stays.
LEMMA StreamParts ==
  ASSUME NEW c \in Streams
  PROVE  /\ c.at \in {"sent", "push", "loop"} /\ c.ext \in Ext /\ c.inst \in Nat
         /\ c.net \in Seq(Wires) /\ c.page \in {"live", "dead"}
BY DEF Streams

\* ... taking what is queued,
LEMMA StreamAt ==
  ASSUME NEW c \in Streams
  PROVE  LET d == [c EXCEPT !.at = "loop"] IN
           /\ d \in Streams
           /\ d.at = "loop" /\ d.ext = c.ext /\ d.inst = c.inst /\ d.net = c.net /\ d.page = c.page
BY DEF Streams

\* ... waiting to put its form on the queue of instance y,
LEMMA StreamPush ==
  ASSUME NEW c \in Streams, NEW y \in Nat
  PROVE  LET d == [c EXCEPT !.at = "push", !.inst = y] IN
           /\ d \in Streams
           /\ d.at = "push" /\ d.ext = c.ext /\ d.inst = y /\ d.net = c.net /\ d.page = c.page
BY DEF Streams

\* ... with other messages on their way,
LEMMA StreamNet ==
  ASSUME NEW c \in Streams, NEW y \in Seq(Wires)
  PROVE  LET d == [c EXCEPT !.net = y] IN
           /\ d \in Streams
           /\ d.at = c.at /\ d.ext = c.ext /\ d.inst = c.inst /\ d.net = y /\ d.page = c.page
BY DEF Streams

\* ... that is broken, with what was on its way lost.
LEMMA StreamDead ==
  ASSUME NEW c \in Streams, NEW y \in Seq(Wires)
  PROVE  LET d == [c EXCEPT !.page = "dead", !.net = y] IN
           /\ d \in Streams
           /\ d.at = c.at /\ d.ext = c.ext /\ d.inst = c.inst /\ d.net = y /\ d.page = "dead"
BY DEF Streams

\* No instance has a number that is out of bounds.
LEMMA InstancesAreNumbered ==
  ASSUME Instances, NEW e \in Ext
  PROVE  1 .. made[e] \subseteq Number0 /\ made[e] \in Nat
<1>1. made[e] \in Nat /\ made[e] <= 1 + faults + Cardinality(Settled) /\ faults \in 0 .. MaxFaults
  BY DEF Instances
<1>2. MaxFaults \in Nat /\ MaxEdits \in Nat
  BY HostConstantsOK
<1>3. made[e] <= 1 + MaxEdits + MaxFaults
  BY <1>1, <1>2, CountSettled
<1> QED
  BY <1>1, <1>2, <1>3 DEF Number0

\* Only the queue of instance n of e changed, if any.
QueueMoves(e, n) ==
  \A x \in Ext : \A m \in Number0 : <<x, m>> # <<e, n>> => queue'[x][m] = queue[x][m]

\* One queue changes: it still belongs to an instance that was built.
LEMMA QueueChanges ==
  ASSUME Queues, NEW e \in Ext, NEW n \in Number0, n \in 1 .. made[e], made' = made,
         NEW q \in {<<>>} \cup {<<type>> : type \in Kinds}, queue' = [queue EXCEPT ![e][n] = q]
  PROVE  Queues' /\ QueueMoves(e, n) /\ queue'[e][n] = q
<1>1. queue' \in [Ext -> [Number0 -> {<<>>} \cup {<<type>> : type \in Kinds}]]
  BY DEF Queues
<1>2. QueueMoves(e, n) /\ queue'[e][n] = q
  BY DEF Queues, QueueMoves
<1> QED
  BY <1>1, <1>2 DEF Queues, QueueMoves

\* One stream changes.
LEMMA StreamChanges ==
  ASSUME StreamsFit, NEW s \in 1 .. MaxStreams, NEW c \in {Unused, Over} \cup Streams,
         conns' = [conns EXCEPT ![s] = c], made' = made,
         c.at \in {"push", "loop"} => c.inst \in 1 .. made[c.ext],
         Made(c) /\ c.page # "dead" => current' \in Ext,
         current' = current \/ current' \in Ext
  PROVE  /\ StreamsFit'
         /\ conns'[s] = c /\ \A r \in 1 .. MaxStreams \ {s} : conns'[r] = conns[r]
<1>1. conns' \in [1 .. MaxStreams -> {Unused, Over} \cup Streams]
  BY DEF StreamsFit
<1>2. conns'[s] = c /\ \A r \in 1 .. MaxStreams \ {s} : conns'[r] = conns[r]
  BY DEF StreamsFit
<1> QED
  BY <1>1, <1>2 DEF StreamsFit, Made

\* ... and every message that was to be taken still is.
LEMMA KeptWith ==
  ASSUME Kept, spoiled \subseteq spoiled', NEW s \in 1 .. MaxStreams,
         \A r \in 1 .. MaxStreams \ {s} : conns'[r] = conns[r],
         \A e \in Ext : \A n \in Number0 :
           queue'[e][n] # <<>> =>
             \/ <<e, n>> \in spoiled'
             \/ conns'[s].at = "loop" /\ Key(conns'[s]) = <<e, n>>
             \/ queue[e][n] # <<>> /\ (conns[s].at # "loop" \/ Key(conns[s]) # <<e, n>>)
  PROVE  Kept'
BY DEF Kept, Key

\* A submission that waits is still for the same extension.
LEMMA SubmissionOfExtension ==
  ASSUME ExtInv, NEW k \in DOMAIN submits, NEW y, NEW z
  PROVE  [submits[k] EXCEPT !.at = "push", !.inst = y, !.type = z].ext = submits[k].ext
BY DEF ExtInv, SubmissionsFit, Submissions

\* The edits, likewise.
LEMMA EditShape ==
  ASSUME EditsFit, NEW t \in 1 .. MaxEdits
  PROVE  /\ DOMAIN edits = 1 .. MaxEdits
         /\ Made(edits[t]) <=> edits[t] \in Edits
         /\ edits[t].at = "unused" <=> edits[t] = Unused
         /\ edits[t].at = "over" <=> edits[t] = Over
         /\ Made(edits[t]) =>
              /\ edits[t].at \in {"sent", "remove", "store", "load", "install", "answer", "failed"}
              /\ edits[t].ext \in Ext /\ edits[t].enable \in BOOLEAN /\ edits[t].told \in BOOLEAN
<1>1. edits[t] \in {Unused, Over} \cup Edits /\ DOMAIN edits = 1 .. MaxEdits
  BY DEF EditsFit
<1>2. CASE edits[t] \in Edits
  BY <1>1, <1>2 DEF Edits, Made, Unused, Over
<1>3. CASE edits[t] \in {Unused, Over}
  BY <1>1, <1>3 DEF Edits, Made, Unused, Over
<1> QED
  BY <1>1, <1>2, <1>3

\* An edit stays one when it moves on.
LEMMA EditAt ==
  ASSUME NEW c \in Edits,
         NEW x \in {"sent", "remove", "store", "load", "install", "answer", "failed"}
  PROVE  LET d == [c EXCEPT !.at = x] IN
           d \in Edits /\ d.at = x /\ d.ext = c.ext /\ d.enable = c.enable /\ d.told = c.told
BY DEF Edits

\* One edit changes.
LEMMA EditChanges ==
  ASSUME EditsFit, NEW t \in 1 .. MaxEdits, NEW c \in {Unused, Over} \cup Edits,
         edits' = [edits EXCEPT ![t] = c], alive' = alive,
         ~alive => ~Serving(c)
  PROVE  /\ EditsFit'
         /\ edits'[t] = c /\ \A r \in 1 .. MaxEdits \ {t} : edits'[r] = edits[r]
         /\ (t \in Settled => c.at \in {"answer", "failed", "over"}) => Settled \subseteq Settled'
         /\ c.at \in {"answer", "failed", "over"} => t \in Settled'
<1>1. edits' \in [1 .. MaxEdits -> {Unused, Over} \cup Edits]
  BY DEF EditsFit
<1>2. edits'[t] = c /\ \A r \in 1 .. MaxEdits \ {t} : edits'[r] = edits[r]
  BY DEF EditsFit
<1> QED
  BY <1>1, <1>2 DEF EditsFit, Settled, Serving

\* The instances are as many as they may be where no edit becomes unsettled.
LEMMA InstancesStay ==
  ASSUME Instances, Settled \subseteq Settled', faults' \in {faults, faults + 1},
         faults' \in 0 .. MaxFaults,
         alive' \in BOOLEAN, enabled' \in [Ext -> BOOLEAN], made' = made, missed' \subseteq Ext,
         inst' \in [Ext -> Nat], \A e \in Ext : inst'[e] \in {0, made[e]}
  PROVE  Instances'
<1>1. \A e \in Ext : made'[e] <= 1 + faults' + Cardinality(Settled')
  <2>1. \A e \in Ext : made'[e] \in Nat /\ made[e] <= 1 + faults + Cardinality(Settled)
    BY DEF Instances
  <2>2. faults \in Nat
    BY HostConstantsOK DEF Instances
  <2> QED
    BY <2>1, <2>2, CountSettled DEF Instances
<1> QED
  BY <1>1 DEF Instances

\* What the list shows stays right where the page goes on waiting for the edits.
LEMMA ListsStay ==
  ASSUME Lists, UNCHANGED <<muddled, loads, list>>,
         \A t \in 1 .. MaxEdits : Made(edits'[t]) /\ edits'[t].told /\ Serving(edits'[t]) =>
           Made(edits[t]) /\ edits[t].told /\ Serving(edits[t]),
         \A e \in Ext : Pending(e) => Pending(e)',
         \A e \in Ext : muddled \/ Pending(e)' \/ enabled'[e] = enabled[e]
  PROVE  Lists'
BY DEF Lists, InFlight, Entry

\* What is said of an instance stays true when there are more.
LEMMA MoreInstances ==
  ASSUME ExtInv, made' \in [Ext -> Nat], \A e \in Ext : made[e] <= made'[e],
         UNCHANGED <<queue, submits, conns, current>>
  PROVE  Queues' /\ SubmissionsFit' /\ StreamsFit'
<1>1. \A e \in Ext : 1 .. made[e] \subseteq 1 .. made'[e]
  BY DEF ExtInv, Instances
<1>2. Queues'
  BY <1>1 DEF ExtInv, Queues
<1>3. SubmissionsFit'
  <2>1. \A k \in DOMAIN submits : submits[k] \in Submissions
    BY DEF ExtInv, SubmissionsFit
  <2>2. \A k \in DOMAIN submits : submits[k].ext \in Ext
    BY <2>1 DEF Submissions
  <2> QED
    BY <1>1, <2>2 DEF ExtInv, SubmissionsFit
<1>4. StreamsFit'
  <2>1. \A s \in 1 .. MaxStreams : conns[s].at \in {"push", "loop"} => conns[s].ext \in Ext
    BY StreamShape DEF ExtInv, Made
  <2> QED
    BY <1>1, <2>1 DEF ExtInv, StreamsFit
<1> QED
  BY <1>2, <1>3, <1>4

\* listExtensions starts with an empty list, and is muddled where another load is
\* under way.
LEMMA ListIsLoaded ==
  ASSUME ListsFit, EditsFit', listExtensions, UNCHANGED enabled
  PROVE  ListsFit' /\ Lists' /\ view' = "list"
<1> DEFINE n == NextOf(loads)
<1>1. n \in 1 .. MaxLoads /\ loads[n] = Unused /\ DOMAIN loads = 1 .. MaxLoads
  BY NextOfIsUnused, PageConstantsOK DEF ListsFit, listExtensions
<1>2. list' = Off /\ loads' = [loads EXCEPT ![n] = [at |-> "sent"]]
      /\ muddled' = (Outstanding \/ \E l \in DOMAIN loads : InFlight(l))
  BY DEF listExtensions
<1> HIDE DEF n
<1>3. ListsFit'
  <2>1. Off \in [Ext -> Seq(Entries)]
    BY DEF Off
  <2> QED
    BY <1>1, <1>2, <2>1 DEF ListsFit
<1>4. \A l \in 1 .. MaxLoads : loads'[l] = IF l = n THEN [at |-> "sent"] ELSE loads[l]
  BY <1>1, <1>2
<1>5. Lists'
  <2>1. ASSUME NEW t \in 1 .. MaxEdits, Serving(edits'[t]), edits'[t].told  PROVE muddled'
    BY <1>2, <2>1 DEF Outstanding, EditsFit
  <2>2. ASSUME ~muddled', NEW l \in 1 .. MaxLoads  PROVE InFlight(l)' <=> l = n
    BY <1>1, <1>2, <1>4, <2>2 DEF InFlight
  <2>3. Off' = Off
    BY DEF Off
  <2>4. ASSUME ~muddled', NEW l \in 1 .. MaxLoads  PROVE loads'[l].at # "answer"
    BY <1>4, <2>2, <2>4 DEF InFlight
  <2> QED
    BY <1>1, <1>2, <2>1, <2>2, <2>3, <2>4 DEF Lists
<1> QED
  BY <1>3, <1>5 DEF listExtensions

\* New submissions are of the form that was current.
LEMMA SubmissionsMade ==
  ASSUME ExtInv, NEW new \in Seq(Submissions), submits' = submits \o new,
         \A j \in DOMAIN new : new[j].at = "sent"
           /\ (new[j].from # None => new[j].from = new[j].ext \/ ~new[j].fresh),
         UNCHANGED <<made, view, current, form, listeners, fresh>>, dialog' \in {dialog, None}
  PROVE  SubmissionsFit' /\ Shows'
<1>1. submits \in Seq(Submissions)
  BY DEF ExtInv, SubmissionsFit
<1>2. /\ submits' \in Seq(Submissions) /\ Len(submits') = Len(submits) + Len(new)
      /\ \A j \in 1 .. Len(submits') :
           submits'[j] = IF j <= Len(submits) THEN submits[j] ELSE new[j - Len(submits)]
  BY <1>1, ConcatProperties
<1>3. ASSUME NEW j \in DOMAIN submits'
      PROVE  \/ \E i \in DOMAIN submits : submits'[j] = submits[i]
             \/ \E i \in DOMAIN new : submits'[j] = new[i]
  <2>1. j \in 1 .. (Len(submits) + Len(new)) /\ Len(submits) \in Nat /\ Len(new) \in Nat
    BY <1>1, <1>2
  <2>2. CASE j <= Len(submits)
    BY <1>1, <1>2, <2>1, <2>2
  <2>3. CASE j > Len(submits)
    <3>1. j - Len(submits) \in DOMAIN new /\ submits'[j] = new[j - Len(submits)]
      BY <1>2, <2>1, <2>3
    <3> QED
      BY <3>1
  <2> QED
    BY <2>1, <2>2, <2>3
<1>4. SubmissionsFit'
  BY <1>2, <1>3 DEF ExtInv, SubmissionsFit
<1>5. Shows'
  <2>1. \A k \in DOMAIN submits' :
          submits'[k].from # None /\ submits'[k].fresh => submits'[k].from = submits'[k].ext
    BY <1>3 DEF ExtInv, Shows
  <2>2. dialog' # None => dialog' = current' /\ listeners' > 0
    BY DEF ExtInv, Shows
  <2> QED
    BY <2>1, <2>2 DEF ExtInv, Shows
<1> QED
  BY <1>4, <1>5

\* What each listener of a dialog submits once it is hidden.
LEMMA HiddenIsMade ==
  ASSUME ExtInv, current \in Ext
  PROVE  /\ Hidden \in Seq(Submissions)
         /\ \A j \in DOMAIN Hidden : Hidden[j].at = "sent" /\ Hidden[j].from = None
<1>1. /\ Submission(None) \in Submissions
      /\ Submission(None).at = "sent" /\ Submission(None).from = None
  BY DEF Submission, Submissions, ExtInv, Shows
<1> DEFINE N == IF dialog = None THEN 0 ELSE listeners
<1>2. N \in Nat /\ Hidden = [n \in 1 .. N |-> Submission(None)]
  BY DEF Hidden, ExtInv, Shows
<1> HIDE DEF N
<1> QED
  BY <1>1, <1>2

\* A submission that is served leaves the others as they are ...
LEMMA SubmissionServed ==
  ASSUME ExtInv, NEW k \in DOMAIN submits, submits' = RemoveAt(submits, k),
         UNCHANGED <<made, view, current, form, dialog, listeners, fresh>>
  PROVE  SubmissionsFit' /\ Shows'
<1>1. submits \in Seq(Submissions)
  BY DEF ExtInv, SubmissionsFit
<1>2. submits' \in Seq(Submissions)
      /\ \A j \in DOMAIN submits' : \E i \in DOMAIN submits : submits'[j] = submits[i]
  BY <1>1, RemovedOne
<1> QED
  BY <1>2 DEF ExtInv, SubmissionsFit, Shows

\* ... as does one that waits for room in the queue.
LEMMA SubmissionWaits ==
  ASSUME ExtInv, NEW k \in DOMAIN submits, NEW c \in Submissions,
         submits' = [submits EXCEPT ![k] = c],
         c.ext = submits[k].ext, c.from = submits[k].from, c.fresh = submits[k].fresh,
         c.inst \in 1 .. made[c.ext], c.type \in Kinds,
         UNCHANGED <<made, view, current, form, dialog, listeners, fresh>>
  PROVE  SubmissionsFit' /\ Shows'
<1>1. submits \in Seq(Submissions)
  BY DEF ExtInv, SubmissionsFit
<1>2. submits' \in Seq(Submissions) /\ DOMAIN submits' = DOMAIN submits
  BY <1>1
<1>3. \A j \in DOMAIN submits : submits'[j] = IF j = k THEN c ELSE submits[j]
  BY <1>1
<1> QED
  BY <1>2, <1>3 DEF ExtInv, SubmissionsFit, Shows

\* OnDataSubmit puts its message on the queue: it is taken by a stream, or spoils.
LEMMA SubmitsKeeps ==
  ASSUME ExtInv, NEW k \in DOMAIN submits, NEW c, NEW type \in Kinds,
         c.ext \in Ext, c.inst \in 1 .. made[c.ext], Room(c), Submits(k, c, type),
         UNCHANGED <<alive, enabled, inst, made, missed, sent, conns, edits, closing, pageVars>>
  PROVE  ExtInv'
<1> DEFINE e == c.ext
           n == c.inst
<1>1. e \in Ext /\ n \in Number0 /\ n \in 1 .. made[e]
  BY InstancesAreNumbered DEF ExtInv
<1>2. queue' = [queue EXCEPT ![e][n] = <<type>>] /\ queue[e][n] = <<>> /\ Key(c) = <<e, n>>
  BY DEF Submits, Put, Room, QueueOf, Key
<1> HIDE DEF e, n
<1>3. Queues' /\ QueueMoves(e, n)
  <2>1. <<type>> \in {<<x>> : x \in Kinds}
    OBVIOUS
  <2> QED
    BY <1>1, <1>2, <2>1, QueueChanges DEF ExtInv
<1>4. Kept'
  <2>1. spoiled \subseteq spoiled'
        /\ (<<e, n>> \in spoiled' \/ \E s \in 1 .. MaxStreams : conns[s].at = "loop"
             /\ Key(conns[s]) = <<e, n>>)
    BY <1>2 DEF Submits, Waiting, ExtInv, StreamsFit
  <2> QED
    BY <1>3, <2>1 DEF ExtInv, Kept, QueueMoves, Key
<1>5. SubmissionsFit' /\ Shows'
  BY SubmissionServed DEF Submits, pageVars
<1> QED
  BY <1>3, <1>4, <1>5, Frames DEF ExtInv, pageVars

\* The process dies: nothing is loaded or queued any more, and no call survives.
LEMMA DiesKeeps ==
  ASSUME ExtInv, Dies, faults' \in {faults, faults + 1}, faults' \in 0 .. MaxFaults,
         UNCHANGED <<view, current, form, fresh, dialog, listeners, list, loads, muddled>>
  PROVE  ExtInv'
<1>1. /\ DOMAIN edits = 1 .. MaxEdits
      /\ \A t \in 1 .. MaxEdits :
           edits'[t] = IF Serving(edits[t]) THEN Failed(edits[t]) ELSE edits[t]
  BY DEF ExtInv, EditsFit, Dies
<1>2. ASSUME NEW t \in 1 .. MaxEdits
      PROVE  /\ edits'[t] \in {Unused, Over} \cup Edits /\ ~Serving(edits'[t])
             /\ t \in Settled => t \in Settled'
             /\ Made(edits[t]) => /\ Made(edits'[t]) /\ edits'[t].told = edits[t].told
                                  /\ edits'[t].ext = edits[t].ext
  <2>1. CASE Serving(edits[t])
    <3>1. edits[t] \in Edits
      BY <2>1, EditShape DEF ExtInv, Serving, Made
    <3>2. Failed(edits[t]) \in Edits /\ Failed(edits[t]).at = "failed"
          /\ Failed(edits[t]).told = edits[t].told /\ Failed(edits[t]).ext = edits[t].ext
      BY <3>1, EditAt DEF Failed
    <3> QED
      BY <1>1, <2>1, <3>2 DEF Serving, Settled, Made
  <2>2. CASE ~Serving(edits[t])
    BY <1>1, <2>2 DEF ExtInv, EditsFit, Settled
  <2> QED
    BY <2>1, <2>2
<1>3. EditsFit'
  BY <1>1, <1>2 DEF EditsFit, Dies
<1>4. Instances'
  <2>1. Settled \subseteq Settled'
    BY <1>2 DEF Settled
  <2> QED
    BY <2>1, InstancesStay DEF ExtInv, Instances, Dies
<1>5. Queues' /\ Kept'
  BY DEF Queues, Kept, Dies
<1>6. StreamsFit'
  <2>1. /\ DOMAIN conns = 1 .. MaxStreams
        /\ \A s \in 1 .. MaxStreams :
             conns'[s] = IF conns[s] = Unused THEN Unused ELSE Over
    BY DEF ExtInv, StreamsFit, Dies
  <2>2. Over.at = "over" /\ Unused.at = "unused" /\ UNCHANGED <<made, current>>
    BY DEF Over, Unused, Dies
  <2> QED
    BY <2>1, <2>2 DEF ExtInv, StreamsFit, Dies, Made
<1>7. SubmissionsFit' /\ Loading' /\ Shows'
  BY DEF ExtInv, SubmissionsFit, Loading, Shows, Dies
<1>8. ListsFit'
  BY Frames DEF ExtInv
<1>9. Lists'
  <2>1. \A e \in Ext : Pending(e) => Pending(e)'
    BY <1>2 DEF Pending
  <2> QED
    BY <1>2, <2>1, ListsStay DEF ExtInv, Dies
<1> QED
  BY <1>3, <1>4, <1>5, <1>6, <1>7, <1>8, <1>9 DEF ExtInv

------------------------------------------------------------------------------
(* Steps.                                                                  *)

\* A stream is opened on the instance that is loaded, or refused.
LEMMA ConnectBeginsKeeps ==
  ASSUME ExtInv, NEW s \in 1 .. MaxStreams, ConnectBegins(s), UNCHANGED pageVars
  PROVE  ExtInv'
<1>1. conns[s] \in Streams
  BY StreamShape DEF ExtInv, ConnectBegins, Made
<1>2. PICK c \in {Over} \cup Streams :
        /\ conns' = [conns EXCEPT ![s] = c]
        /\ \/ c.at = "push" /\ c \in Streams /\ c.page = conns[s].page
           \/ c = Over
        /\ c.at = "push" => c.inst \in 1 .. made[c.ext]
  <2>1. ASSUME Available(conns[s].ext),
               conns' = [conns EXCEPT ![s].at = "push", ![s].inst = inst[conns[s].ext]]
        PROVE  \E c \in Streams :
                 /\ conns' = [conns EXCEPT ![s] = c]
                 /\ c.at = "push" /\ c.page = conns[s].page
                 /\ c.inst \in 1 .. made[c.ext]
    <3> DEFINE n == inst[conns[s].ext]
               d == [conns[s] EXCEPT !.at = "push", !.inst = n]
    <3>1. conns[s].ext \in Ext
      BY <1>1, StreamParts
    <3>2. n \in Nat /\ n \in 1 .. made[conns[s].ext]
      BY <2>1, <3>1 DEF ExtInv, Instances, Available
    <3>3. conns' = [conns EXCEPT ![s] = d]
      BY <1>1, <2>1 DEF ExtInv, StreamsFit
    <3> HIDE DEF n
    <3>4. d \in Streams /\ d.at = "push" /\ d.inst = n /\ d.ext = conns[s].ext
            /\ d.page = conns[s].page
      BY <1>1, <3>2, StreamPush
    <3> HIDE DEF d
    <3> QED
      BY <3>2, <3>3, <3>4
  <2>2. Over.at = "over"
    BY DEF Over
  <2> QED
    BY <2>1, <2>2 DEF ConnectBegins
<1>3. UNCHANGED <<hostVars, edits, submits, closing, pageVars>>
  BY DEF ConnectBegins
<1>4. StreamsFit' /\ conns'[s] = c /\ \A r \in 1 .. MaxStreams \ {s} : conns'[r] = conns[r]
  <2>1. StreamsFit /\ made' = made /\ current' = current
    BY <1>3 DEF ExtInv, hostVars, pageVars
  <2>2. c.at = "push" \/ c.at = "over"
    BY <1>2 DEF Over
  <2>3. Made(c) /\ c.page # "dead" => current' \in Ext
    <3>1. Made(conns[s])
      BY <1>1, StreamShape, <2>1
    <3> QED
      BY <1>2, <2>1, <3>1 DEF StreamsFit, Made, Over
  <2> QED
    BY <1>2, <2>1, <2>2, <2>3, StreamChanges
<1>5. Kept'
  <2>1. conns[s].at # "loop"
    BY DEF ConnectBegins
  <2> QED
    BY <1>3, <1>4, <2>1, KeptWith DEF ExtInv, hostVars
<1> QED
  BY <1>3, <1>4, <1>5, Frames DEF ExtInv, hostVars, pageVars

\* OnUIOpen's form is queued by the stream that will take it off.
LEMMA ConnectPushesKeeps ==
  ASSUME ExtInv, NEW s \in 1 .. MaxStreams, ConnectPushes(s), UNCHANGED pageVars
  PROVE  ExtInv'
<1> DEFINE c == [conns[s] EXCEPT !.at = "loop"]
           e == conns[s].ext
           n == conns[s].inst
<1>1. conns[s] \in Streams
  BY StreamShape DEF ExtInv, ConnectPushes, Made
<1>2. c \in Streams /\ c.at = "loop" /\ c.ext = e /\ c.inst = n /\ c.page = conns[s].page
  BY <1>1, StreamAt
<1>3. conns' = [conns EXCEPT ![s] = c] /\ UNCHANGED <<alive, enabled, inst, made, missed, spoiled, sent,
                                                      edits, submits, closing, pageVars>>
  BY DEF ConnectPushes
<1>4. e \in Ext /\ n \in Number0 /\ n \in 1 .. made[e]
  BY <1>1, StreamParts, InstancesAreNumbered DEF ExtInv, StreamsFit, ConnectPushes
<1>5. queue' = [queue EXCEPT ![e][n] = <<UPDATE_UI>>] /\ queue[e][n] = <<>>
  BY DEF ConnectPushes, Put, Room, QueueOf
<1> HIDE DEF c, e, n
<1>6. StreamsFit' /\ conns'[s] = c /\ \A r \in 1 .. MaxStreams \ {s} : conns'[r] = conns[r]
  BY <1>1, <1>2, <1>3, <1>4, StreamChanges, StreamShape DEF ExtInv, pageVars, StreamsFit, Made
<1>7. Queues' /\ QueueMoves(e, n)
  <2>1. <<UPDATE_UI>> \in {<<type>> : type \in Kinds}
    BY DEF Kinds
  <2> QED
    BY <1>3, <1>4, <1>5, <2>1, QueueChanges DEF ExtInv
<1>8. Kept'
  <2>1. Key(conns'[s]) = <<e, n>> /\ conns'[s].at = "loop" /\ conns[s].at # "loop"
    BY <1>2, <1>6 DEF Key, ConnectPushes
  <2> QED
    BY <1>3, <1>6, <1>7, <2>1, KeptWith DEF ExtInv, QueueMoves
<1> QED
  BY <1>3, <1>6, <1>7, <1>8, Frames DEF ExtInv, pageVars

\* A stream takes what is queued, and sends or loses it.
LEMMA ConnectSendsKeeps ==
  ASSUME ExtInv, NEW s \in 1 .. MaxStreams, ConnectSends(s), UNCHANGED pageVars
  PROVE  ExtInv'
<1> DEFINE e == conns[s].ext
           n == conns[s].inst
<1>1. conns[s] \in Streams /\ conns[s].at = "loop"
  BY StreamShape DEF ExtInv, ConnectSends, Made
<1>2. e \in Ext /\ n \in Number0 /\ n \in 1 .. made[e]
  BY <1>1, StreamParts, InstancesAreNumbered DEF ExtInv, StreamsFit
<1>3. queue' = [queue EXCEPT ![e][n] = <<>>] /\ queue[e][n] # <<>>
  BY DEF ConnectSends, Empties, Room, QueueOf
<1>4. PICK c \in Streams :
        /\ conns' = [conns EXCEPT ![s] = c]
        /\ c.at = "loop" /\ c.ext = e /\ c.inst = n /\ c.page = conns[s].page
  <2>1. CASE conns[s].page = "live"
    <3> DEFINE y == Append(conns[s].net, UiMessage(e, Head(queue[e][n])))
               d == [conns[s] EXCEPT !.net = y]
    <3>1. Head(queue[e][n]) \in Kinds
      BY <1>2, <1>3 DEF ExtInv, Queues
    <3>2. y \in Seq(Wires)
      BY <1>1, <1>2, <3>1, StreamParts DEF Wires
    <3>3. conns' = [conns EXCEPT ![s] = d]
      BY <2>1 DEF ConnectSends, QueueOf
    <3> HIDE DEF y
    <3>4. d \in Streams /\ d.at = conns[s].at /\ d.ext = e /\ d.inst = n /\ d.page = conns[s].page
      BY <1>1, <3>2, StreamNet
    <3> HIDE DEF d, e, n
    <3> QED
      BY <1>1, <3>3, <3>4
  <2>2. CASE conns[s].page # "live"
    <3>1. conns' = [conns EXCEPT ![s] = conns[s]]
      BY <2>2 DEF ConnectSends, ExtInv, StreamsFit
    <3> QED
      BY <1>1, <3>1
  <2> QED
    BY <2>1, <2>2
<1>5. UNCHANGED <<alive, enabled, inst, made, missed, sent, edits, submits, closing, pageVars>>
      /\ spoiled \subseteq spoiled'
  BY DEF ConnectSends
<1> HIDE DEF e, n
<1>6. StreamsFit' /\ conns'[s] = c /\ \A r \in 1 .. MaxStreams \ {s} : conns'[r] = conns[r]
  BY <1>1, <1>2, <1>4, <1>5, StreamChanges, StreamShape DEF ExtInv, pageVars, StreamsFit, Made
<1>7. Queues' /\ QueueMoves(e, n) /\ queue'[e][n] = <<>>
  BY <1>2, <1>3, <1>5, QueueChanges DEF ExtInv
<1>8. Kept'
  <2>1. Key(conns[s]) = <<e, n>>
    BY DEF Key, e, n
  <2> QED
    BY <1>5, <1>6, <1>7, <2>1, KeptWith DEF ExtInv, QueueMoves
<1> QED
  BY <1>5, <1>6, <1>7, <1>8, Frames DEF ExtInv, pageVars

\* A stream that is gone leaves what is queued behind, spoiled.
LEMMA ConnectReturnsKeeps ==
  ASSUME ExtInv, NEW s \in 1 .. MaxStreams, ConnectReturns(s), UNCHANGED pageVars
  PROVE  ExtInv'
<1>1. conns[s] \in Streams /\ conns[s].at = "loop"
  BY StreamShape DEF ExtInv, ConnectReturns, Made
<1>2. conns' = [conns EXCEPT ![s] = Over] /\ Over.at = "over"
      /\ UNCHANGED <<alive, enabled, inst, made, missed, queue, sent, edits, submits, closing, pageVars>>
  BY DEF ConnectReturns, Over
<1>3. StreamsFit' /\ \A r \in 1 .. MaxStreams \ {s} : conns'[r] = conns[r]
  BY <1>2, StreamChanges DEF ExtInv, pageVars, Made
<1>4. Kept'
  <2>1. conns[s].ext \in Ext /\ spoiled \subseteq spoiled'
    BY <1>1, StreamParts DEF ConnectReturns
  <2>2. Key(conns[s]) \in spoiled' \/ queue[conns[s].ext][conns[s].inst] = <<>>
    BY DEF ConnectReturns, Room, QueueOf
  <2>3. ASSUME NEW e \in Ext, NEW n \in Number0, queue[e][n] # <<>>
        PROVE  <<e, n>> \in spoiled' \/ Key(conns[s]) # <<e, n>>
    BY <2>2, <2>3 DEF Key
  <2> QED
    BY <1>2, <1>3, <2>1, <2>3, KeptWith DEF ExtInv
<1> QED
  BY <1>2, <1>3, <1>4, Frames DEF ExtInv, pageVars

\* A submission is served: nothing comes of it, or a message is queued or waits.
LEMMA SubmitBeginsKeeps ==
  ASSUME ExtInv, NEW k \in DOMAIN submits, SubmitBegins(k), UNCHANGED pageVars
  PROVE  ExtInv'
<1> DEFINE Others == UNCHANGED <<alive, enabled, inst, made, missed, sent, conns, edits, closing,
                                 pageVars>>
           Unread == UNCHANGED <<queue, spoiled>>
<1>1. Others
  BY DEF SubmitBegins
<1>2. CASE submits' = RemoveAt(submits, k) /\ Unread
  <2>1. submits' = RemoveAt(submits, k) /\ UNCHANGED <<made, view, current, form, dialog,
                                                       listeners, fresh>>
    BY <1>1, <1>2 DEF pageVars
  <2>2. SubmissionsFit' /\ Shows'
    BY ONLY <2>1, SubmissionServed, ExtInv, k \in DOMAIN submits
  <2> QED
    BY <1>1, <1>2, <2>2, Frames DEF ExtInv, pageVars
<1>3. ASSUME NEW type \in Kinds, Available(submits[k].ext),
             NEW c, c = [submits[k] EXCEPT !.at = "push", !.inst = inst[submits[k].ext],
               !.type = type],
             IF Room(c) THEN Submits(k, c, type)
             ELSE submits' = [submits EXCEPT ![k] = c] /\ Unread
      PROVE  ExtInv'
  <2>1. submits[k] \in Submissions
    BY DEF ExtInv, SubmissionsFit
  <2>2. submits[k].ext \in Ext
    BY <2>1 DEF Submissions
  <2>3. inst[submits[k].ext] \in Nat /\ inst[submits[k].ext] \in 1 .. made[submits[k].ext]
    BY <1>3, <2>2 DEF ExtInv, Instances, Available
  <2>4. /\ c \in Submissions /\ c.ext = submits[k].ext /\ c.inst = inst[c.ext]
        /\ c.type = type /\ c.from = submits[k].from /\ c.fresh = submits[k].fresh
    BY <1>3, <2>1, <2>3 DEF Submissions
  <2>5. CASE Room(c)
    BY <1>1, <1>3, <2>2, <2>3, <2>4, <2>5, SubmitsKeeps
  <2>6. CASE ~Room(c)
    <3>1. /\ submits' = [submits EXCEPT ![k] = c] /\ c.inst \in 1 .. made[c.ext]
               /\ c.type \in Kinds
          /\ UNCHANGED <<made, view, current, form, dialog, listeners, fresh>>
      BY <1>1, <1>3, <2>3, <2>4, <2>6 DEF pageVars
    <3>2. SubmissionsFit' /\ Shows'
      BY ONLY <3>1, <2>4, SubmissionWaits, ExtInv, k \in DOMAIN submits
    <3> QED
      BY <1>1, <1>3, <2>6, <3>2, Frames DEF ExtInv, pageVars
  <2> QED
    BY <2>5, <2>6
<1>4. \/ submits' = RemoveAt(submits, k) /\ Unread
      \/ \E type \in Kinds :
           LET c == [submits[k] EXCEPT !.at = "push", !.inst = inst[submits[k].ext],
                 !.type = type]
           IN /\ Available(submits[k].ext)
              /\ IF Room(c) THEN Submits(k, c, type)
                 ELSE submits' = [submits EXCEPT ![k] = c] /\ Unread
  BY SubmissionOfExtension DEF SubmitBegins, Kinds
<1> HIDE DEF Unread, Others
<1> QED
  BY <1>2, <1>3, <1>4

\* A message that waited is queued.
LEMMA SubmitPushesKeeps ==
  ASSUME ExtInv, NEW k \in DOMAIN submits, SubmitPushes(k), UNCHANGED pageVars
  PROVE  ExtInv'
<1>1. submits[k] \in Submissions
  BY DEF ExtInv, SubmissionsFit
<1>2. submits[k].ext \in Ext /\ submits[k].inst \in 1 .. made[submits[k].ext]
        /\ submits[k].type \in Kinds
  BY <1>1 DEF ExtInv, SubmissionsFit, Submissions, SubmitPushes
<1>3. Room(submits[k]) /\ Submits(k, submits[k], submits[k].type)
      /\ UNCHANGED <<alive, enabled, inst, made, missed, sent, conns, edits, closing, pageVars>>
  BY DEF SubmitPushes
<1> QED
  BY <1>2, <1>3, SubmitsKeeps

\* What is unchanged by the calls of EditExtension.
EditRest == <<alive, queue, spoiled, sent, conns, submits, closing, pageVars>>

\* An edit moves on, and what is said of the page's list stays right as long as
\* the page still waits for it where a row has changed.
LEMMA EditMoves ==
  ASSUME ExtInv, NEW t \in 1 .. MaxEdits, Serving(edits[t]), NEW c \in Edits,
         edits' = [edits EXCEPT ![t] = c], c.ext = edits[t].ext, c.told = edits[t].told,
         alive, UNCHANGED EditRest, enabled' \in [Ext -> BOOLEAN],
         \A x \in Ext : x # edits[t].ext => enabled'[x] = enabled[x]
  PROVE  /\ EditsFit' /\ edits'[t] = c /\ \A r \in 1 .. MaxEdits \ {t} : edits'[r] = edits[r]
         /\ Settled \subseteq Settled' /\ t \notin Settled
         /\ Lists'
<1>1. UNCHANGED <<alive, muddled, loads, list>>
  BY DEF EditRest, pageVars
<1>2. t \notin Settled
  BY DEF Settled, Serving
<1>3. /\ EditsFit' /\ edits'[t] = c /\ \A r \in 1 .. MaxEdits \ {t} : edits'[r] = edits[r]
      /\ Settled \subseteq Settled'
  BY <1>1, <1>2, EditChanges DEF ExtInv
<1>4. Lists'
  <2>1. Made(edits[t]) /\ Made(c)
    BY EditShape DEF ExtInv, Made, Serving, Edits
  <2>2. muddled \/ Pending(edits[t].ext)'
    <3>1. CASE edits[t].told
      BY <2>1, <3>1 DEF ExtInv, Lists
    <3>2. CASE ~edits[t].told
      BY <1>3, <2>1, <3>2 DEF Pending
    <3> QED
      BY <3>1, <3>2
  <2>3. \A y \in Ext : Pending(y) => Pending(y)'
    BY <1>3, <2>1 DEF Pending
  <2>4. \A r \in 1 .. MaxEdits : Made(edits'[r]) /\ edits'[r].told /\ Serving(edits'[r]) =>
          Made(edits[r]) /\ edits[r].told /\ Serving(edits[r])
    BY <1>3, <2>1
  <2>5. \A y \in Ext : muddled \/ Pending(y)' \/ enabled'[y] = enabled[y]
    BY <2>2
  <2> QED
    BY <1>1, <2>3, <2>4, <2>5, ListsStay DEF ExtInv
<1> QED
  BY <1>2, <1>3, <1>4

\* The call that is at an extension's row or instance is served by a process.
LEMMA EditIsServed ==
  ASSUME ExtInv, NEW t \in 1 .. MaxEdits, edits[t].at \in {"remove", "store", "load", "install"}
  PROVE  alive /\ Serving(edits[t]) /\ edits[t] \in Edits /\ edits[t].ext \in Ext
<1>1. Made(edits[t]) /\ Serving(edits[t])
  BY DEF Made, Serving
<1> QED
  BY <1>1, EditShape DEF ExtInv, EditsFit

\* An extension that is to be disabled is to be taken off the map, or takes the
\* process with it.
LEMMA EditLooksKeeps ==
  ASSUME ExtInv, NEW t \in 1 .. MaxEdits, EditLooks(t), UNCHANGED pageVars
  PROVE  ExtInv'
<1>1. CASE Dies
  BY <1>1, DiesKeeps DEF ExtInv, Instances, pageVars
<1>2. CASE edits' = [edits EXCEPT ![t].at = "remove"] /\ UNCHANGED <<hostVars, conns, submits, closing>>
  <2> DEFINE c == [edits[t] EXCEPT !.at = "remove"]
  <2>1. edits[t] \in Edits /\ alive /\ Serving(edits[t]) /\ edits[t].at = "sent"
    BY EditShape DEF ExtInv, EditLooks, Made, Serving
  <2>2. c \in Edits /\ c.at = "remove" /\ c.ext = edits[t].ext /\ c.told = edits[t].told
    BY <2>1, EditAt
  <2>3. edits' = [edits EXCEPT ![t] = c]
    BY <1>2, <2>1 DEF ExtInv, EditsFit
  <2>4. UNCHANGED EditRest /\ UNCHANGED <<hostVars, conns, submits, closing, pageVars>>
    BY <1>2 DEF EditRest, hostVars
  <2> HIDE DEF c
  <2>5. /\ EditsFit' /\ edits'[t] = c /\ \A r \in 1 .. MaxEdits \ {t} : edits'[r] = edits[r]
        /\ Settled \subseteq Settled' /\ Lists'
    <3>1. enabled' \in [Ext -> BOOLEAN] /\ enabled' = enabled
      BY <2>4 DEF ExtInv, Instances, hostVars
    <3> QED
      BY <2>1, <2>2, <2>3, <2>4, <3>1, EditMoves
  <2>6. Instances'
    BY <2>4, <2>5, InstancesStay DEF ExtInv, Instances, hostVars, pageVars
  <2>7. Loading'
    <3>1. \A r \in 1 .. MaxEdits : \A x : Underway(r, x) => Underway(r, x)'
      BY <2>1, <2>5 DEF Underway
    <3> QED
      BY <2>4, <3>1 DEF ExtInv, Loading, hostVars
  <2> QED
    BY <2>4, <2>5, <2>6, <2>7, Frames DEF ExtInv, hostVars, pageVars
<1> QED
  BY <1>1, <1>2 DEF EditLooks

\* An extension is off the map, and its row will be disabled or missed.
LEMMA EditRemovesKeeps ==
  ASSUME ExtInv, NEW t \in 1 .. MaxEdits, EditRemoves(t), UNCHANGED pageVars
  PROVE  ExtInv'
<1> DEFINE c == [edits[t] EXCEPT !.at = "store"]
<1>0. PICK e \in Ext : e = edits[t].ext
  BY EditIsServed DEF EditRemoves
<1>1. edits[t] \in Edits /\ alive /\ Serving(edits[t]) /\ edits[t].at = "remove"
  BY EditIsServed DEF EditRemoves
<1>2. c \in Edits /\ c.at = "store" /\ c.ext = e /\ c.told = edits[t].told
  BY <1>0, <1>1, EditAt
<1>3. inst' = [inst EXCEPT ![e] = 0] /\ edits' = [edits EXCEPT ![t] = c]
      /\ UNCHANGED <<enabled, made, missed>> /\ UNCHANGED EditRest
  BY <1>0, <1>1 DEF EditRemoves, EditRest, ExtInv, EditsFit
<1> HIDE DEF c
<1>4. /\ EditsFit' /\ edits'[t] = c /\ \A r \in 1 .. MaxEdits \ {t} : edits'[r] = edits[r]
      /\ Settled \subseteq Settled' /\ Lists'
  <2>1. enabled' \in [Ext -> BOOLEAN] /\ enabled' = enabled
    BY <1>3 DEF ExtInv, Instances
  <2> QED
    BY <1>1, <1>2, <1>3, <2>1, <1>0, EditMoves
<1>5. inst' \in [Ext -> Nat] /\ \A x \in Ext : inst'[x] = IF x = e THEN 0 ELSE inst[x]
  BY <1>1, <1>3 DEF ExtInv, Instances
<1>6. Instances'
  BY <1>3, <1>4, <1>5, InstancesStay DEF ExtInv, Instances, EditRest, pageVars
<1>7. Loading'
  <2>1. Underway(t, e)'
    BY <1>2, <1>4 DEF Underway
  <2>2. \A r \in 1 .. MaxEdits : \A x : Underway(r, x) => Underway(r, x)'
    BY <1>1, <1>4 DEF Underway
  <2> QED
    BY <1>3, <1>5, <2>1, <2>2 DEF ExtInv, Loading, EditRest
<1> QED
  BY <1>3, <1>4, <1>6, <1>7, Frames DEF ExtInv, EditRest, pageVars

\* The row is written or missed: what it enables is loaded next.
LEMMA EditStoresKeeps ==
  ASSUME ExtInv, NEW t \in 1 .. MaxEdits, EditStores(t), UNCHANGED pageVars
  PROVE  ExtInv'
<1> DEFINE on == edits[t].enable
           x == IF on THEN "load" ELSE "answer"
<1>0. PICK e \in Ext : e = edits[t].ext
  BY EditShape DEF ExtInv, EditStores, AtRow, Made, Serving
<1>1. edits[t] \in Edits /\ alive /\ Serving(edits[t]) /\ on \in BOOLEAN
        /\ edits[t].at \in {"sent", "store"} /\ (on => edits[t].at = "sent")
  BY EditShape DEF ExtInv, EditStores, AtRow, Made, Serving
<1>2. UNCHANGED EditRest /\ UNCHANGED <<inst, made>>
  BY DEF EditStores, EditRest
<1>3. PICK y \in {"load", "answer", "failed"} :
        /\ edits' = [edits EXCEPT ![t] = [edits[t] EXCEPT !.at = y]]
        /\ \/ enabled' = [enabled EXCEPT ![e] = on] /\ missed' = missed /\ (on => y = "load")
           \/ enabled' = enabled /\ Misses(e)
  <2>1. \/ edits' = [edits EXCEPT ![t].at = x]
             /\ \/ enabled' = [enabled EXCEPT ![e] = on] /\ missed' = missed
                \/ enabled' = enabled /\ Misses(e)
        \/ edits' = [edits EXCEPT ![t] = Failed(@)] /\ enabled' = enabled /\ Misses(e)
    BY <1>0 DEF EditStores
  <2>2. x \in {"load", "answer"} /\ (on => x = "load")
    BY <1>1
  <2> HIDE DEF x
  <2>3. [edits EXCEPT ![t].at = x] = [edits EXCEPT ![t] = [edits[t] EXCEPT !.at = x]]
        /\ [edits EXCEPT ![t] = Failed(@)] = [edits EXCEPT ![t] = [edits[t] EXCEPT !.at = "failed"]]
    BY DEF Failed, ExtInv, EditsFit
  <2> HIDE DEF on
  <2> QED
    BY <2>1, <2>2, <2>3
<1> DEFINE c == [edits[t] EXCEPT !.at = y]
<1>4. c \in Edits /\ c.at = y /\ c.ext = e /\ c.told = edits[t].told
  <2>1. y \in {"sent", "remove", "store", "load", "install", "answer", "failed"}
    OBVIOUS
  <2> QED
    BY <1>0, <1>1, <2>1, EditAt
<1>5. edits' = [edits EXCEPT ![t] = c]
  BY <1>3
<1> HIDE DEF c, on
<1>6. enabled' \in [Ext -> BOOLEAN]
        /\ \A z \in Ext : z # e => enabled'[z] = enabled[z]
  BY <1>1, <1>3 DEF ExtInv, Instances
<1>7. /\ EditsFit' /\ edits'[t] = c /\ \A r \in 1 .. MaxEdits \ {t} : edits'[r] = edits[r]
      /\ Settled \subseteq Settled' /\ Lists'
  BY <1>1, <1>2, <1>4, <1>5, <1>6, <1>0, EditMoves
<1>8. missed \subseteq missed' /\ missed' \subseteq Ext
        /\ (enabled'[e] /\ inst[e] = 0 => e \in missed' \/ y = "load")
  <2>1. CASE enabled' = [enabled EXCEPT ![e] = on] /\ missed' = missed /\ (on => y = "load")
    BY <1>1, <2>1 DEF ExtInv, Instances
  <2>2. CASE enabled' = enabled /\ Misses(e)
    BY <1>1, <2>2 DEF ExtInv, Instances, Misses
  <2> QED
    BY <1>3, <2>1, <2>2
<1>9. Instances'
  BY <1>2, <1>6, <1>7, <1>8, InstancesStay DEF ExtInv, Instances, EditRest, pageVars
<1>10. Loading'
  <2>1. y = "load" => Underway(t, e)'
    BY <1>4, <1>7 DEF Underway
  <2>2. \A r \in 1 .. MaxEdits : \A z : z # e /\ Underway(r, z) => Underway(r, z)'
    BY <1>7, <1>0 DEF Underway
  <2>3. ASSUME NEW z \in Ext, enabled'[z], inst'[z] = 0
        PROVE  z \in missed' \/ \E r \in 1 .. MaxEdits : Underway(r, z)'
    <3>1. CASE z = e
      BY <1>2, <1>8, <2>1, <2>3, <3>1
    <3>2. CASE z # e
      BY <1>1, <1>2, <1>6, <1>8, <2>2, <2>3, <3>2 DEF ExtInv, Loading
    <3> QED
      BY <3>1, <3>2
  <2> QED
    BY <2>3 DEF Loading
<1> QED
  BY <1>2, <1>7, <1>9, <1>10, Frames DEF ExtInv, EditRest, pageVars

\* The row is read again: what it enables is to be loaded, or missed.
LEMMA EditLoadsKeeps ==
  ASSUME ExtInv, NEW t \in 1 .. MaxEdits, EditLoads(t), UNCHANGED pageVars
  PROVE  ExtInv'
<1>0. PICK e \in Ext : e = edits[t].ext
  BY EditIsServed DEF EditLoads
<1>1. edits[t] \in Edits /\ alive /\ Serving(edits[t]) /\ edits[t].at = "load"
  BY EditIsServed DEF EditLoads
<1>2. UNCHANGED EditRest /\ UNCHANGED <<enabled, inst, made>>
  BY DEF EditLoads, EditRest
<1>3. PICK y \in {"install", "answer"} :
        /\ edits' = [edits EXCEPT ![t] = [edits[t] EXCEPT !.at = y]]
        /\ \/ y = "install" /\ missed' = missed
           \/ Misses(e)
  BY <1>0 DEF EditLoads, ExtInv, EditsFit
<1> DEFINE c == [edits[t] EXCEPT !.at = y]
<1>4. c \in Edits /\ c.at = y /\ c.ext = e /\ c.told = edits[t].told
  <2>1. y \in {"sent", "remove", "store", "load", "install", "answer", "failed"}
    OBVIOUS
  <2> QED
    BY <1>0, <1>1, <2>1, EditAt
<1>5. edits' = [edits EXCEPT ![t] = c]
  BY <1>3
<1> HIDE DEF c
<1>6. /\ EditsFit' /\ edits'[t] = c /\ \A r \in 1 .. MaxEdits \ {t} : edits'[r] = edits[r]
      /\ Settled \subseteq Settled' /\ Lists'
  <2>1. enabled' \in [Ext -> BOOLEAN] /\ enabled' = enabled
    BY <1>2 DEF ExtInv, Instances
  <2> QED
    BY <1>1, <1>2, <1>4, <1>5, <2>1, <1>0, EditMoves
<1>7. missed \subseteq missed' /\ missed' \subseteq Ext
        /\ (enabled[e] /\ inst[e] = 0 => e \in missed' \/ y = "install")
  BY <1>1, <1>3 DEF ExtInv, Instances, Misses
<1>8. Instances'
  BY <1>2, <1>6, <1>7, InstancesStay DEF ExtInv, Instances, EditRest, pageVars
<1>9. Loading'
  <2>1. y = "install" => Underway(t, e)'
    BY <1>4, <1>6 DEF Underway
  <2>2. \A r \in 1 .. MaxEdits : \A z : z # e /\ Underway(r, z) => Underway(r, z)'
    BY <1>6, <1>0 DEF Underway
  <2>3. ASSUME NEW z \in Ext, enabled'[z], inst'[z] = 0
        PROVE  z \in missed' \/ \E r \in 1 .. MaxEdits : Underway(r, z)'
    <3>1. CASE z = e
      BY <1>2, <1>7, <2>1, <2>3, <3>1
    <3>2. CASE z # e
      BY <1>1, <1>2, <1>7, <2>2, <2>3, <3>2 DEF ExtInv, Loading
    <3> QED
      BY <3>1, <3>2
  <2> QED
    BY <2>3 DEF Loading
<1> QED
  BY <1>2, <1>6, <1>8, <1>9, Frames DEF ExtInv, EditRest, pageVars

\* The new instance is loaded, with a number of its own.
LEMMA EditInstallsKeeps ==
  ASSUME ExtInv, NEW t \in 1 .. MaxEdits, EditInstalls(t), UNCHANGED pageVars
  PROVE  ExtInv'
<1> DEFINE c == [edits[t] EXCEPT !.at = "answer"]
<1>0. PICK e \in Ext : e = edits[t].ext
  BY EditIsServed DEF EditInstalls
<1>1. edits[t] \in Edits /\ alive /\ Serving(edits[t])
  BY EditIsServed DEF EditInstalls
<1>2. c \in Edits /\ c.at = "answer" /\ c.ext = e /\ c.told = edits[t].told
  BY <1>0, <1>1, EditAt
<1>3. edits' = [edits EXCEPT ![t] = c] /\ UNCHANGED EditRest /\ enabled' = enabled
  BY <1>1 DEF EditInstalls, EditRest, ExtInv, EditsFit
<1>4. made' = [made EXCEPT ![e] = @ + 1] /\ inst' = [inst EXCEPT ![e] = made'[e]]
        /\ missed' = missed \ {e}
  BY <1>0 DEF EditInstalls
<1> HIDE DEF c
<1>5. /\ EditsFit' /\ edits'[t] = c /\ \A r \in 1 .. MaxEdits \ {t} : edits'[r] = edits[r]
      /\ Settled \subseteq Settled' /\ t \notin Settled /\ Lists'
  <2>1. enabled' \in [Ext -> BOOLEAN] /\ enabled' = enabled
    BY <1>3 DEF ExtInv, Instances
  <2> QED
    BY <1>1, <1>2, <1>3, <2>1, <1>0, EditMoves
<1>6. t \in Settled'
  BY <1>2, <1>5 DEF Settled
<1>7. /\ made' \in [Ext -> Nat] /\ inst' \in [Ext -> Nat] /\ missed' \subseteq Ext
      /\ \A x \in Ext : inst'[x] \in {0, made'[x]} /\ made[x] <= made'[x]
           /\ made'[x] <= made[x] + 1
      /\ \A x \in Ext \ {e} : inst'[x] = inst[x]
      /\ inst'[e] # 0
  BY <1>1, <1>4 DEF ExtInv, Instances
<1>8. Instances'
  <2>1. \A x \in Ext : made'[x] <= 1 + faults + Cardinality(Settled')
    <3>1. \A x \in Ext : made[x] \in Nat /\ made'[x] \in Nat
                           /\ made[x] <= 1 + faults + Cardinality(Settled)
      BY <1>7 DEF ExtInv, Instances
    <3>2. Cardinality(Settled) + 1 <= Cardinality(Settled') /\ faults \in Nat
      BY <1>5, <1>6, CountSettled, HostConstantsOK DEF ExtInv, Instances
    <3> QED
      BY <1>7, <3>1, <3>2, CountSettled
  <2> QED
    BY <1>3, <1>7, <2>1 DEF ExtInv, Instances, EditRest, pageVars
<1>9. Queues' /\ SubmissionsFit' /\ StreamsFit'
  BY <1>3, MoreInstances, <1>7 DEF ExtInv, EditRest, pageVars, Instances
<1>10. Loading'
  <2>1. \A r \in 1 .. MaxEdits : \A x : x # e /\ Underway(r, x) => Underway(r, x)'
    BY <1>5, <1>0 DEF Underway
  <2>2. ASSUME NEW x \in Ext, enabled'[x], inst'[x] = 0
        PROVE  x \in missed' \/ \E r \in 1 .. MaxEdits : Underway(r, x)'
    <3>1. x # e /\ inst[x] = 0 /\ enabled[x]
      BY <1>3, <1>7, <2>2
    <3>2. x \in missed \/ \E r \in 1 .. MaxEdits : Underway(r, x)
      BY <1>1, <2>2, <3>1 DEF ExtInv, Loading
    <3> QED
      BY <1>4, <2>1, <3>1, <3>2
  <2> QED
    BY <2>2 DEF Loading
<1> QED
  BY <1>3, <1>5, <1>8, <1>9, <1>10, Frames DEF ExtInv, EditRest, pageVars

\* Close is refused or takes the process with it.
LEMMA CloseServedKeeps ==
  ASSUME ExtInv, CloseServed, UNCHANGED pageVars
  PROVE  ExtInv'
<1>1. CASE Dies
  BY <1>1, DiesKeeps DEF ExtInv, Instances, pageVars
<1>2. CASE UNCHANGED <<hostVars, conns, edits, submits>>
  BY <1>2, Frames DEF ExtInv, hostVars, pageVars
<1> QED
  BY <1>1, <1>2 DEF CloseServed

\* The host reads its rows for the list.
LEMMA ListServedKeeps ==
  ASSUME ExtInv, NEW l \in 1 .. MaxLoads, ListServed(l)
  PROVE  ExtInv'
<1>1. alive /\ loads[l].at = "sent"
        /\ loads' = [loads EXCEPT ![l] = [at |-> "answer", rows |-> enabled]]
      /\ UNCHANGED <<hostVars, conns, edits, submits, closing, view, current, form, fresh,
                     dialog, listeners, list, muddled, faults>>
  BY DEF ListServed
<1>2. ListsFit'
  BY <1>1 DEF ExtInv, ListsFit, Instances
<1>3. \A m \in 1 .. MaxLoads : loads'[m] = IF m = l THEN [at |-> "answer", rows |-> enabled]
                                 ELSE loads[m]
  BY <1>1 DEF ExtInv, ListsFit
<1>4. Lists'
  <2>1. \A m \in 1 .. MaxLoads : InFlight(m)' <=> InFlight(m)
    BY <1>1, <1>3 DEF InFlight
  <2>2. \A e \in Ext : Pending(e)' <=> Pending(e)
    BY <1>1 DEF Pending
  <2>3. loads'[l].rows = enabled'
    BY <1>1, <1>3 DEF hostVars
  <2>4. UNCHANGED <<enabled, edits, list, muddled>>
    BY <1>1 DEF hostVars
  <2> QED
    BY <1>3, <2>1, <2>2, <2>3, <2>4 DEF ExtInv, Lists
<1> QED
  BY <1>1, <1>2, <1>4, Frames DEF ExtInv, hostVars

\* What was read is shown: the rows may be newer only where an edit is pending.
LEMMA ListShownKeeps ==
  ASSUME ExtInv, NEW l \in 1 .. MaxLoads, ListShown(l)
  PROVE  ExtInv'
<1> DEFINE Row(e) == [enable |-> loads[l].rows[e], checked |-> loads[l].rows[e]]
<1>1. loads[l].at = "answer" /\ list' = [e \in Ext |-> Append(list[e], Row(e))]
      /\ loads' = [loads EXCEPT ![l] = Over]
      /\ UNCHANGED <<hostVars, conns, edits, submits, closing, view, current, form, fresh,
                     dialog, listeners, muddled, faults>>
  BY DEF ListShown
<1>2. loads[l].rows \in [Ext -> BOOLEAN]
  <2>1. loads[l] \in {Unused, Over, [at |-> "sent"]} \cup [at : {"answer"}, rows : [Ext -> BOOLEAN]]
    BY DEF ExtInv, ListsFit
  <2>2. Unused.at = "unused" /\ Over.at = "over"
    BY DEF Unused, Over
  <2> QED
    BY ONLY <1>1, <2>1, <2>2
<1>3. ListsFit'
  <2>1. \A e \in Ext : Row(e) \in Entries
    BY <1>2 DEF Entries
  <2> HIDE DEF Row
  <2> QED
    BY <1>1, <2>1 DEF ExtInv, ListsFit
<1>4. \A m \in 1 .. MaxLoads : loads'[m] = IF m = l THEN Over ELSE loads[m]
  BY <1>1 DEF ExtInv, ListsFit
<1>5. Lists'
  <2>1. \A m \in 1 .. MaxLoads : InFlight(m)' <=> m # l /\ InFlight(m)
    BY <1>4 DEF InFlight, Over
  <2>2. \A e \in Ext : Pending(e)' <=> Pending(e)
    BY <1>1 DEF Pending
  <2>3. UNCHANGED <<enabled, edits, muddled>> /\ InFlight(l)
    BY <1>1 DEF hostVars, InFlight
  <2>4. ASSUME ~muddled, NEW e \in Ext
        PROVE  Len(list'[e]) = 1 /\ (list'[e] = Entry(enabled[e]) \/ Pending(e))
    <3>1. list[e] = <<>>
      BY <2>3, <2>4 DEF ExtInv, Lists, Off
    <3>2. list'[e] = <<Row(e)>>
      <4>1. list'[e] = Append(list[e], Row(e))
        BY <1>1
      <4> HIDE DEF Row
      <4> QED
        BY <3>1, <4>1
    <3>3. loads[l].rows[e] = enabled[e] \/ Pending(e)
      BY <1>1, <2>4 DEF ExtInv, Lists
    <3> QED
      BY <3>2, <3>3 DEF Entry
  <2>5. \A e \in Ext : (Entry(enabled[e]))' = Entry(enabled[e])
    BY <2>3 DEF Entry
  <2>6. ~muddled => \A m \in 1 .. MaxLoads : ~InFlight(m)'
    BY <2>1, <2>3 DEF ExtInv, Lists
  <2>7. \A m \in 1 .. MaxLoads : loads'[m].at = "answer" => InFlight(m)'
    BY DEF InFlight
  <2> HIDE DEF Row
  <2> QED
    BY <2>2, <2>3, <2>4, <2>5, <2>6, <2>7 DEF ExtInv, Lists
<1> QED
  BY <1>1, <1>3, <1>5, Frames DEF ExtInv, hostVars

\* An edit is over for the page, and the list is loaded again.
LEMMA ToggleReturnsKeeps ==
  ASSUME ExtInv, NEW t \in 1 .. MaxEdits, ToggleReturns(t)
  PROVE  ExtInv'
<1>1. edits' = [edits EXCEPT ![t] = Over] /\ edits[t].at \in {"answer", "failed"}
        /\ listExtensions
      /\ UNCHANGED <<hostVars, conns, submits, closing, current, form, fresh, dialog, listeners,
                     faults>>
  BY DEF ToggleReturns
<1>2. /\ EditsFit' /\ edits'[t] = Over /\ \A r \in 1 .. MaxEdits \ {t} : edits'[r] = edits[r]
      /\ Settled \subseteq Settled'
  <2>1. EditsFit /\ alive' = alive
    BY <1>1 DEF ExtInv, hostVars
  <2>2. ~Serving(Over) /\ Over.at = "over"
    BY DEF Serving, Over
  <2> QED
    BY <1>1, <2>1, <2>2, EditChanges
<1>3. ListsFit' /\ Lists' /\ view' = "list"
  BY <1>1, <1>2, ListIsLoaded DEF ExtInv, hostVars
<1>4. Instances'
  BY <1>1, <1>2, InstancesStay DEF ExtInv, Instances, hostVars
<1>5. Loading'
  <2>1. \A r \in 1 .. MaxEdits : \A x : Underway(r, x) => Underway(r, x)'
    BY <1>1, <1>2 DEF Underway
  <2> QED
    BY <1>1, <2>1 DEF ExtInv, Loading, hostVars
<1>6. Shows'
  BY <1>1, <1>3 DEF ExtInv, Shows
<1> QED
  BY <1>1, <1>2, <1>3, <1>4, <1>5, <1>6, Frames DEF ExtInv, hostVars

\* What a stream brings is shown if it is the current extension's.
LEMMA ArrivesKeeps ==
  ASSUME ExtInv, NEW s \in 1 .. MaxStreams, Arrives(s)
  PROVE  ExtInv'
<1> DEFINE m == Read(B!ExtensionResponse, Head(conns[s].net))
<1>1. /\ Serving(conns[s]) /\ conns[s].page = "live" /\ conns[s].net # <<>>
      /\ conns' = [conns EXCEPT ![s].net = Tail(@)]
      /\ \/ UNCHANGED <<form, fresh, dialog, listeners>>
         \/ m.extension_id = current /\ dialog' = m.extension_id /\ listeners' = listeners + 1
              /\ UNCHANGED <<form, fresh>>
         \/ m.extension_id = current /\ form' = m.extension_id /\ fresh' = TRUE
              /\ UNCHANGED <<dialog, listeners>>
      /\ UNCHANGED <<hostVars, edits, submits, closing, view, current, list, loads, muddled,
                     faults>>
  BY DEF Arrives
<1> HIDE DEF m
<1>2. conns[s] \in Streams /\ Made(conns[s])
  BY <1>1, StreamShape DEF ExtInv, Serving, Made
<1>3. PICK c \in Streams :
        /\ conns' = [conns EXCEPT ![s] = c]
        /\ c.at = conns[s].at /\ c.ext = conns[s].ext /\ c.inst = conns[s].inst
             /\ c.page = conns[s].page
  <2> DEFINE y == Tail(conns[s].net)
             d == [conns[s] EXCEPT !.net = y]
  <2>1. y \in Seq(Wires)
    BY <1>1, <1>2, StreamParts
  <2>2. conns' = [conns EXCEPT ![s] = d]
    BY <1>1
  <2> HIDE DEF y
  <2>3. d \in Streams /\ d.at = conns[s].at /\ d.ext = conns[s].ext /\ d.inst = conns[s].inst
          /\ d.page = conns[s].page
    BY <1>2, <2>1, StreamNet
  <2> HIDE DEF d
  <2> QED
    BY <2>2, <2>3
<1>4. StreamsFit' /\ conns'[s] = c /\ \A r \in 1 .. MaxStreams \ {s} : conns'[r] = conns[r]
  <2>1. StreamsFit /\ made' = made /\ current' = current
    BY <1>1 DEF ExtInv, hostVars
  <2>2. c.at \in {"push", "loop"} => c.inst \in 1 .. made[c.ext]
    BY <1>3, <2>1 DEF StreamsFit
  <2>3. current' \in Ext
    BY <1>1, <1>2, <2>1 DEF StreamsFit
  <2> QED
    BY ONLY <1>3, <2>1, <2>2, <2>3, StreamChanges
<1>5. Kept'
  BY <1>1, <1>3, <1>4, KeptWith DEF ExtInv, hostVars, Key
<1>6. Shows'
  <2>1. CASE UNCHANGED <<form, fresh, dialog, listeners>>
    BY <1>1, <2>1 DEF ExtInv, Shows
  <2>2. CASE dialog' = current /\ listeners' = listeners + 1 /\ UNCHANGED <<form, fresh>>
    BY <1>1, <2>2 DEF ExtInv, Shows
  <2>3. CASE form' = current /\ fresh' = TRUE /\ UNCHANGED <<dialog, listeners>>
    BY <1>1, <2>3 DEF ExtInv, Shows
  <2> QED
    BY <1>1, <2>1, <2>2, <2>3
<1> QED
  BY <1>1, <1>4, <1>5, <1>6, Frames DEF ExtInv, hostVars

\* A switch flips, and an edit is pending.
LEMMA ToggleKeeps ==
  ASSUME ExtInv, NEW e \in Ext, NEW i \in DOMAIN list[e], Toggle(e, i)
  PROVE  ExtInv'
<1> DEFINE n == NextOf(edits)
           c == [at |-> IF alive THEN "sent" ELSE "failed", ext |-> e,
                 enable |-> ~list[e][i].checked, told |-> FALSE]
<1>1. /\ view = "list" /\ HasNext(edits)
      /\ list' = [list EXCEPT ![e][i].checked = ~@]
      /\ edits' = [edits EXCEPT ![n] = c]
      /\ UNCHANGED <<hostVars, conns, submits, closing, view, current, form, fresh, dialog,
                     listeners, loads, muddled, faults>>
  BY DEF Toggle
<1>2. list \in [Ext -> Seq(Entries)] /\ list[e] \in Seq(Entries) /\ list[e][i] \in Entries
  BY DEF ExtInv, ListsFit
<1>3. n \in 1 .. MaxEdits /\ edits[n] = Unused
  BY <1>1, NextOfIsUnused, HostConstantsOK DEF ExtInv, EditsFit
<1>4. c \in Edits /\ c.at \in {"sent", "failed"} /\ c.ext = e /\ c.told = FALSE
        /\ (~alive => c.at = "failed")
  BY <1>2 DEF Edits, Entries
<1> HIDE DEF n, c
<1>5. /\ EditsFit' /\ edits'[n] = c /\ \A r \in 1 .. MaxEdits \ {n} : edits'[r] = edits[r]
      /\ Settled \subseteq Settled'
  <2>1. edits[n].at = "unused"
    BY <1>3 DEF Unused
  <2>2. n \notin Settled
    BY <2>1 DEF Settled
  <2>3. alive' = alive /\ (~alive => ~Serving(c))
    BY <1>1, <1>4 DEF hostVars, Serving
  <2> QED
    BY <1>1, <1>3, <1>4, <2>2, <2>3, EditChanges DEF ExtInv
<1>6. Instances'
  BY <1>1, <1>5, InstancesStay DEF ExtInv, Instances, hostVars
<1>7. Loading'
  <2>1. \A r \in 1 .. MaxEdits : \A x : Underway(r, x) => Underway(r, x)'
    BY <1>3, <1>5 DEF Unused, Underway
  <2> QED
    BY <1>1, <2>1 DEF ExtInv, Loading, hostVars
<1>8. /\ list' \in [Ext -> Seq(Entries)]
      /\ Len(list'[e]) = Len(list[e])
      /\ \A x \in Ext : x # e => list'[x] = list[x]
  <2> DEFINE d == [list[e][i] EXCEPT !.checked = ~@]
             l == [list[e] EXCEPT ![i] = d]
  <2>1. d \in Entries
    BY <1>2 DEF Entries
  <2>2. list' = [list EXCEPT ![e] = l]
    BY <1>1
  <2> HIDE DEF d
  <2>3. l \in Seq(Entries) /\ Len(l) = Len(list[e])
    BY <1>2, <2>1
  <2> HIDE DEF l
  <2> QED
    BY <1>2, <2>2, <2>3
<1>9. Lists'
  <2>1. Pending(e)' /\ \A x \in Ext : Pending(x) => Pending(x)'
    BY <1>3, <1>4, <1>5 DEF Pending, Made, Unused
  <2>2. list # Off
    BY <1>2 DEF Off
  <2>3. \A r \in 1 .. MaxEdits : Made(edits'[r]) /\ edits'[r].told /\ Serving(edits'[r]) =>
          Made(edits[r]) /\ edits[r].told /\ Serving(edits[r])
    BY <1>4, <1>5
  <2>4. UNCHANGED <<enabled, loads, muddled>>
    BY <1>1 DEF hostVars
  <2>5. \A l \in 1 .. MaxLoads : InFlight(l)' <=> InFlight(l)
    BY <2>4 DEF InFlight
  <2>6. \A x \in Ext : (Entry(enabled[x]))' = Entry(enabled[x])
    BY <2>4 DEF Entry
  <2> QED
    BY <1>8, <2>1, <2>2, <2>3, <2>4, <2>5, <2>6 DEF ExtInv, Lists
<1>10. ListsFit'
  BY <1>1, <1>8 DEF ExtInv, ListsFit
<1> QED
  BY <1>1, <1>5, <1>6, <1>7, <1>9, <1>10, Frames DEF ExtInv, hostVars

\* Another extension is current, and what is shown of the last is not fresh.
LEMMA openExtensionPageKeeps ==
  ASSUME ExtInv, NEW e \in Ext, NEW i \in DOMAIN list[e], openExtensionPage(e, i)
  PROVE  ExtInv'
<1> DEFINE n == NextOf(conns)
           c == IF alive
                THEN [at |-> "sent", ext |-> e, inst |-> 0, net |-> <<>>, page |-> "live"]
                ELSE Over
<1>1. /\ dialog = None /\ HasNext(conns)
      /\ current' = e /\ view' = "page" /\ fresh' = FALSE
      /\ conns' = [conns EXCEPT ![n] = c]
      /\ UNCHANGED <<hostVars, edits, submits, closing, form, dialog, listeners, list, loads,
                     muddled, faults>>
  BY DEF openExtensionPage, Connecting
<1>2. n \in 1 .. MaxStreams /\ conns[n] = Unused
  BY <1>1, NextOfIsUnused, HostConstantsOK DEF ExtInv, StreamsFit
<1>3. c \in {Over} \cup Streams /\ c.at \in {"sent", "over"}
  BY DEF Streams, Over
<1> HIDE DEF n, c
<1>4. StreamsFit' /\ \A r \in 1 .. MaxStreams \ {n} : conns'[r] = conns[r]
  BY <1>1, <1>2, <1>3, StreamChanges DEF ExtInv, hostVars
<1>5. Kept'
  BY <1>1, <1>2, <1>4, KeptWith DEF ExtInv, hostVars, Unused
<1>6. Shows'
  BY <1>1, HostConstantsOK DEF ExtInv, Shows
<1> QED
  BY <1>1, <1>4, <1>5, <1>6, Frames DEF ExtInv, hostVars

\* The form that is shown is submitted.
LEMMA SubmitFormKeeps ==
  ASSUME ExtInv, SubmitForm
  PROVE  ExtInv'
<1>1. /\ view = "page" /\ form # None
      /\ submits' = submits \o <<Submission(form)>>
      /\ UNCHANGED <<HostButSent, conns, edits, closing, pageVars>>
  BY DEF SubmitForm, Submitting
<1>2. /\ Submission(form) \in Submissions
      /\ Submission(form).at = "sent" /\ Submission(form).from = form
      /\ Submission(form).ext = current /\ Submission(form).fresh = fresh
  BY <1>1 DEF Submission, Submissions, ExtInv, Shows
<1>3. <<Submission(form)>> \in Seq(Submissions)
      /\ \A j \in DOMAIN <<Submission(form)>> : <<Submission(form)>>[j] = Submission(form)
  BY <1>2
<1>4. fresh => form = current
  BY DEF ExtInv, Shows
<1>5. SubmissionsFit' /\ Shows'
  BY <1>1, <1>2, <1>3, <1>4, SubmissionsMade DEF HostButSent, pageVars
<1> QED
  BY <1>1, <1>5, Frames DEF ExtInv, HostButSent, pageVars

\* A dialog is submitted, and each listener's CloseDialog after it.
LEMMA SubmitDialogKeeps ==
  ASSUME ExtInv, SubmitDialog
  PROVE  ExtInv'
<1> DEFINE mine == <<Submission(dialog)>>
<1>1. /\ dialog # None /\ dialog' = None
      /\ submits' = submits \o (mine \o Hidden)
      /\ UNCHANGED <<HostButSent, conns, edits, closing, view, current, form, fresh, listeners,
                     list, loads, muddled, faults>>
  BY DEF SubmitDialog, Submitting
<1>2. dialog = current /\ current \in Ext
  BY <1>1 DEF ExtInv, Shows
<1>3. /\ Submission(dialog) \in Submissions
      /\ Submission(dialog).at = "sent" /\ Submission(dialog).from = dialog
      /\ Submission(dialog).ext = current
  BY <1>2 DEF Submission, Submissions, ExtInv, Shows
<1>4. mine \in Seq(Submissions) /\ Len(mine) = 1 /\ mine[1] = Submission(dialog)
  BY <1>3
<1>5. Hidden \in Seq(Submissions) /\ \A j \in DOMAIN Hidden : Hidden[j].at = "sent"
        /\ Hidden[j].from = None
  BY <1>2, HiddenIsMade
<1> HIDE DEF mine
<1>6. /\ mine \o Hidden \in Seq(Submissions)
      /\ \A j \in DOMAIN (mine \o Hidden) :
           (mine \o Hidden)[j].at = "sent"
           /\ ((mine \o Hidden)[j].from # None
                => (mine \o Hidden)[j].from = (mine \o Hidden)[j].ext)
  <2>1. Len(Hidden) \in Nat
    BY <1>5, LenProperties
  <2>2. /\ Len(mine \o Hidden) = Len(mine) + Len(Hidden)
         /\ \A j \in 1 .. (Len(mine) + Len(Hidden)) :
             (mine \o Hidden)[j] = IF j <= Len(mine) THEN mine[j] ELSE Hidden[j - Len(mine)]
    BY ONLY <1>4, <1>5, ConcatProperties
  <2>3. mine \o Hidden \in Seq(Submissions)
    BY ONLY <1>4, <1>5, ConcatProperties
  <2>4. /\ mine \o Hidden \in Seq(Submissions)
        /\ Len(mine \o Hidden) = 1 + Len(Hidden) /\ Len(Hidden) \in Nat
        /\ \A j \in 1 .. (1 + Len(Hidden)) :
             (mine \o Hidden)[j] = IF j <= 1 THEN mine[j] ELSE Hidden[j - 1]
    BY ONLY <1>4, <2>1, <2>2, <2>3
  <2>5. ASSUME NEW j \in 1 .. (1 + Len(Hidden))
        PROVE  (mine \o Hidden)[j] = Submission(dialog)
               \/ \E i \in DOMAIN Hidden : (mine \o Hidden)[j] = Hidden[i]
    <3>1. CASE j <= 1
      BY <1>4, <2>4, <3>1
    <3>2. CASE j > 1
      <4>1. j - 1 \in DOMAIN Hidden /\ (mine \o Hidden)[j] = Hidden[j - 1]
        BY <1>5, <2>4, <3>2
      <4> QED
        BY <4>1
    <3> QED
      BY <2>4, <3>1, <3>2
  <2>6. DOMAIN (mine \o Hidden) = 1 .. (1 + Len(Hidden))
    BY <2>4
  <2> QED
    BY <1>2, <1>3, <1>5, <2>4, <2>5, <2>6
<1> DEFINE new == mine \o Hidden
<1>7. new \in Seq(Submissions) /\ submits' = submits \o new
      /\ \A j \in DOMAIN new : new[j].at = "sent"
           /\ (new[j].from # None => new[j].from = new[j].ext \/ ~new[j].fresh)
  BY <1>1, <1>6
<1> HIDE DEF new
<1>8. SubmissionsFit' /\ Shows'
  BY <1>1, <1>7, SubmissionsMade DEF HostButSent
<1> QED
  BY <1>1, <1>8, Frames DEF ExtInv, HostButSent

\* A dialog is dismissed, with the listeners' CloseDialog.
LEMMA DismissDialogKeeps ==
  ASSUME ExtInv, DismissDialog
  PROVE  ExtInv'
<1>1. /\ dialog # None /\ dialog' = None /\ submits' = submits \o Hidden
      /\ UNCHANGED <<HostButSent, conns, edits, closing, view, current, form, fresh, listeners,
                     list, loads, muddled, faults>>
  BY DEF DismissDialog, Submitting
<1>2. dialog = current /\ current \in Ext
  BY <1>1 DEF ExtInv, Shows
<1>3. Hidden \in Seq(Submissions) /\ \A j \in DOMAIN Hidden : Hidden[j].at = "sent"
        /\ Hidden[j].from = None
  BY <1>2, HiddenIsMade
<1>4. SubmissionsFit' /\ Shows'
  BY <1>1, <1>3, SubmissionsMade DEF HostButSent
<1> QED
  BY <1>1, <1>4, Frames DEF ExtInv, HostButSent

\* The stop button does nothing the invariant is about.
LEMMA CloseKeeps ==
  ASSUME ExtInv, Close
  PROVE  ExtInv'
<1>1. Instances' /\ Queues' /\ Kept' /\ StreamsFit' /\ EditsFit' /\ SubmissionsFit' /\ Loading'
        /\ Shows' /\ ListsFit' /\ Lists'
  BY Frames DEF ExtInv, Close, hostVars, pageVars, HostButSent, HostButSpoiled
<1> QED
  BY <1>1 DEF ExtInv

\* The page is loaded anew: its calls are given up, those the host serves go on.
LEMMA ReloadKeeps ==
  ASSUME ExtInv, Reload
  PROVE  ExtInv'
<1> DEFINE n == NextOf(loads)
<1>1. /\ faults < MaxFaults /\ faults' = faults + 1 /\ HasNext(loads)
      /\ edits' = [t \in DOMAIN edits |-> IF Serving(edits[t])
           THEN [edits[t] EXCEPT !.told = TRUE]
                                          ELSE IF edits[t] = Unused THEN Unused ELSE Over]
      /\ view' = "list" /\ current' = None /\ form' = None /\ fresh' = FALSE
      /\ dialog' = None /\ listeners' = 0 /\ list' = Off /\ muddled' = Outstanding
      /\ loads' = [l \in DOMAIN loads |->
           IF l = n THEN [at |-> "sent"] ELSE IF loads[l] = Unused THEN Unused ELSE Over]
      /\ conns' = [s \in DOMAIN conns |->
           IF Serving(conns[s]) THEN [conns[s] EXCEPT !.page = "dead", !.net = <<>>]
           ELSE conns[s]]
      /\ spoiled \subseteq spoiled'
      /\ UNCHANGED <<HostButSpoiled, submits, closing>>
  BY DEF Reload, Fault
<1>2. n \in 1 .. MaxLoads /\ DOMAIN loads = 1 .. MaxLoads /\ DOMAIN edits = 1 .. MaxEdits
      /\ DOMAIN conns = 1 .. MaxStreams
  BY <1>1, NextOfIsUnused, PageConstantsOK DEF ExtInv, ListsFit, EditsFit, StreamsFit
<1>3. ASSUME NEW t \in 1 .. MaxEdits
      PROVE  /\ edits'[t] \in {Unused, Over} \cup Edits
             /\ t \in Settled => t \in Settled'
             /\ ~Serving(edits[t]) => ~Serving(edits'[t])
             /\ edits[t].at \in {"store", "load", "install"} =>
                  edits'[t].at = edits[t].at /\ edits'[t].ext = edits[t].ext
  <2>1. CASE Serving(edits[t])
    <3>1. edits[t] \in Edits
      BY <2>1, EditShape DEF ExtInv, Serving, Made
    <3>2. LET d == [edits[t] EXCEPT !.told = TRUE] IN d \in Edits /\ d.at = edits[t].at
                /\ d.ext = edits[t].ext
      BY <3>1 DEF Edits
    <3> QED
      BY <1>1, <1>2, <2>1, <3>2 DEF Settled
  <2>2. CASE ~Serving(edits[t])
    BY <1>1, <1>2, <2>2 DEF Settled, Serving, Unused, Over
  <2> QED
    BY <2>1, <2>2
<1>4. EditsFit'
  BY <1>1, <1>2, <1>3 DEF ExtInv, EditsFit, HostButSpoiled
<1>5. Instances'
  <2>1. Settled \subseteq Settled'
    BY <1>3 DEF Settled
  <2>2. faults' \in 0 .. MaxFaults /\ faults' = faults + 1
    <3>1. faults \in 0 .. MaxFaults /\ MaxFaults \in Nat
      BY HostConstantsOK DEF ExtInv, Instances
    <3>2. faults < MaxFaults /\ faults' = faults + 1
      BY <1>1
    <3> QED
      BY ONLY <3>1, <3>2
  <2>3. Instances /\ UNCHANGED <<alive, made, missed, enabled>>
    BY <1>1 DEF ExtInv, HostButSpoiled
  <2>4. \A e \in Ext : inst'[e] \in {0, made[e]}
    BY <1>1, <2>3 DEF Instances, HostButSpoiled
  <2>5. inst' \in [Ext -> Nat] /\ enabled' \in [Ext -> BOOLEAN] /\ alive' \in BOOLEAN
          /\ missed' \subseteq Ext
    BY <1>1, <2>3 DEF Instances, HostButSpoiled
  <2> QED
    BY ONLY <2>1, <2>2, <2>3, <2>4, <2>5, InstancesStay
<1>6. Loading'
  <2>1. Loading /\ UNCHANGED <<alive, enabled, inst, missed>>
    BY <1>1 DEF ExtInv, HostButSpoiled
  <2>2. \A t \in 1 .. MaxEdits : \A e : Underway(t, e) => Underway(t, e)'
    BY <1>3 DEF Underway
  <2> QED
    BY ONLY <2>1, <2>2 DEF Loading
<1>7. ASSUME NEW s \in 1 .. MaxStreams
      PROVE  /\ conns'[s] \in {Unused, Over} \cup Streams
             /\ Made(conns'[s]) => conns'[s].page = "dead"
             /\ conns'[s].at \in {"push", "loop"} =>
                  conns[s].at = conns'[s].at /\ conns'[s].ext = conns[s].ext
                    /\ conns'[s].inst = conns[s].inst
             /\ conns[s].at = "loop" =>
                  conns'[s].at = "loop" /\ conns'[s].ext = conns[s].ext
                    /\ conns'[s].inst = conns[s].inst
  <2>1. CASE Serving(conns[s])
    <3>1. conns[s] \in Streams
      BY <2>1, StreamShape DEF ExtInv, Made, Serving
    <3> DEFINE d == [conns[s] EXCEPT !.page = "dead", !.net = <<>>]
    <3>2. d \in Streams /\ d.at = conns[s].at /\ d.ext = conns[s].ext /\ d.inst = conns[s].inst
            /\ d.page = "dead"
      <4>1. <<>> \in Seq(Wires)
        OBVIOUS
      <4> QED
        BY <3>1, <4>1, StreamDead
    <3>3. conns'[s] = d
      BY <1>1, <1>2, <2>1, <3>1
    <3> HIDE DEF d
    <3> QED
      BY <3>2, <3>3
  <2>2. CASE ~Serving(conns[s])
    <3>1. ~Made(conns[s]) /\ conns[s] \in {Unused, Over}
      BY <2>2, StreamShape DEF ExtInv, Made, Serving, StreamsFit
    <3>2. conns'[s] = conns[s]
      BY <1>1, <1>2, <2>2
    <3> QED
      BY <3>1, <3>2 DEF Made, Unused, Over
  <2> QED
    BY <2>1, <2>2
<1>8. StreamsFit'
  <2>1. conns' \in [1 .. MaxStreams -> {Unused, Over} \cup Streams]
    BY <1>1, <1>2, <1>7
  <2>2. made' = made
    BY <1>1 DEF HostButSpoiled
  <2> QED
    BY <1>7, <2>1, <2>2 DEF ExtInv, StreamsFit
<1>9. Kept'
  <2>1. queue' = queue
    BY <1>1 DEF HostButSpoiled
  <2>2. \A s \in 1 .. MaxStreams :
          conns[s].at = "loop" => conns'[s].at = "loop" /\ Key(conns'[s]) = Key(conns[s])
    BY <1>7 DEF Key
  <2>3. spoiled \subseteq spoiled'
    BY <1>1
  <2>4. Kept
    BY DEF ExtInv
  <2>5. ASSUME NEW e \in Ext, NEW m \in Number0, queue'[e][m] # <<>>
        PROVE  \/ <<e, m>> \in spoiled'
               \/ \E s \in 1 .. MaxStreams : conns'[s].at = "loop" /\ Key(conns'[s]) = <<e, m>>
    <3>1. CASE <<e, m>> \in spoiled
      BY ONLY <2>3, <3>1
    <3>2. CASE <<e, m>> \notin spoiled
      <4>1. PICK s \in 1 .. MaxStreams : conns[s].at = "loop" /\ Key(conns[s]) = <<e, m>>
        BY ONLY <2>1, <2>4, <2>5, <3>2 DEF Kept
      <4> QED
        BY ONLY <2>2, <4>1
    <3> QED
      BY <3>1, <3>2
  <2> QED
    BY ONLY <2>5 DEF Kept, Key
<1>10. Shows'
  BY <1>1 DEF ExtInv, Shows
<1>11. ListsFit'
  <2>1. Off \in [Ext -> Seq(Entries)]
    BY DEF Off
  <2>2. Outstanding \in BOOLEAN
    BY DEF Outstanding
  <2> QED
    BY <1>1, <1>2, <2>1, <2>2 DEF ListsFit
<1>12. Lists'
  <2>1. ASSUME NEW t \in 1 .. MaxEdits, Serving(edits'[t]), edits'[t].told  PROVE muddled'
    BY <1>1, <1>4, <2>1 DEF Outstanding, EditsFit
  <2>2. \A l \in 1 .. MaxLoads : (InFlight(l)' <=> l = n) /\ loads'[l].at # "answer"
    BY <1>1, <1>2 DEF InFlight, Unused, Over
  <2>3. Off' = Off
    BY DEF Off
  <2> HIDE DEF n
  <2> QED
    BY <1>1, <1>2, <2>1, <2>2, <2>3 DEF Lists
<1> QED
  BY <1>1, <1>4, <1>5, <1>6, <1>8, <1>9, <1>10, <1>11, <1>12, Frames DEF ExtInv, HostButSpoiled

\* A load of the list fails.
LEMMA ListFailsKeeps ==
  ASSUME ExtInv, NEW l \in 1 .. MaxLoads, ListFails(l)
  PROVE  ExtInv'
<1>1. loads' = [loads EXCEPT ![l] = Over] /\ muddled' = TRUE /\ faults' \in {faults, faults + 1}
      /\ UNCHANGED <<hostVars, conns, edits, submits, closing, view, current, form, fresh,
                     dialog, listeners, list>>
  BY DEF ListFails
<1>2. faults' \in 0 .. MaxFaults
  BY HostConstantsOK DEF ListFails, ExtInv, Instances
<1>3. Instances'
  <2>1. Settled' = Settled
    BY <1>1 DEF Settled
  <2> QED
    BY <1>1, <1>2, <2>1, InstancesStay DEF ExtInv, Instances, hostVars
<1>4. ListsFit'
  BY <1>1 DEF ExtInv, ListsFit
<1>5. Lists'
  BY <1>1 DEF ExtInv, Lists
<1> QED
  BY <1>1, <1>3, <1>4, <1>5, Frames DEF ExtInv, hostVars

\* A stream breaks: what was on its way is lost.
LEMMA StreamBreaksKeeps ==
  ASSUME ExtInv, NEW s \in 1 .. MaxStreams, StreamBreaks(s)
  PROVE  ExtInv'
<1> DEFINE c == [conns[s] EXCEPT !.page = "dead", !.net = <<>>]
<1>1. /\ faults < MaxFaults /\ faults' = faults + 1
      /\ Serving(conns[s])
      /\ conns' = [conns EXCEPT ![s].page = "dead", ![s].net = <<>>]
      /\ spoiled \subseteq spoiled'
      /\ UNCHANGED <<HostButSpoiled, edits, submits, closing, view, current, form, fresh, dialog,
                     listeners, list, loads, muddled>>
  BY DEF StreamBreaks, Fault
<1>2. conns[s] \in Streams
  BY <1>1, StreamShape DEF ExtInv, Made, Serving
<1>3. c \in Streams /\ c.at = conns[s].at /\ c.ext = conns[s].ext /\ c.inst = conns[s].inst
        /\ c.page = "dead"
  <2>1. <<>> \in Seq(Wires)
    OBVIOUS
  <2> QED
    BY <1>2, <2>1, StreamDead
<1>4. conns' = [conns EXCEPT ![s] = c]
  BY <1>1, <1>2 DEF ExtInv, StreamsFit
<1> HIDE DEF c
<1>5. StreamsFit' /\ conns'[s] = c /\ \A r \in 1 .. MaxStreams \ {s} : conns'[r] = conns[r]
  BY <1>1, <1>3, <1>4, StreamChanges DEF ExtInv, HostButSpoiled, StreamsFit
<1>6. Kept'
  BY <1>1, <1>3, <1>5, KeptWith DEF ExtInv, HostButSpoiled, Key
<1>7. Instances'
  <2>1. faults' \in 0 .. MaxFaults
    BY <1>1, HostConstantsOK DEF ExtInv, Instances
  <2>2. Settled' = Settled
    BY <1>1 DEF Settled
  <2> QED
    BY <1>1, <2>1, <2>2, InstancesStay DEF ExtInv, Instances, HostButSpoiled
<1> QED
  BY <1>1, <1>5, <1>6, <1>7, Frames DEF ExtInv, HostButSpoiled

\* The page gives an edit up that the host may still serve.
LEMMA EditCallFailsKeeps ==
  ASSUME ExtInv, NEW t \in 1 .. MaxEdits, EditCallFails(t)
  PROVE  ExtInv'
<1> DEFINE c == [edits[t] EXCEPT !.told = TRUE]
<1>1. edits' = [edits EXCEPT ![t] = c] /\ Serving(edits[t]) /\ listExtensions
      /\ faults < MaxFaults /\ faults' = faults + 1
      /\ UNCHANGED <<hostVars, conns, submits, closing, current, form, fresh, dialog, listeners>>
  BY DEF EditCallFails, Fault
<1>2. edits[t] \in Edits
  BY <1>1, EditShape DEF ExtInv, Serving, Made
<1>3. c \in Edits /\ c.at = edits[t].at /\ c.ext = edits[t].ext
  BY <1>2 DEF Edits
<1> HIDE DEF c
<1>4. /\ EditsFit' /\ edits'[t] = c /\ \A r \in 1 .. MaxEdits \ {t} : edits'[r] = edits[r]
      /\ Settled \subseteq Settled'
  <2>1. ~alive => ~Serving(c)
    BY <1>1 DEF ExtInv, EditsFit
  <2>2. alive' = alive
    BY <1>1 DEF hostVars
  <2>3. t \in Settled => c.at \in {"answer", "failed", "over"}
    BY <1>3 DEF Settled
  <2> QED
    BY <1>1, <1>3, <2>1, <2>2, <2>3, EditChanges DEF ExtInv
<1>5. ListsFit' /\ Lists' /\ view' = "list"
  BY <1>1, <1>4, ListIsLoaded DEF ExtInv, hostVars
<1>6. Instances'
  <2>1. faults' \in 0 .. MaxFaults
    BY <1>1, HostConstantsOK DEF ExtInv, Instances
  <2> QED
    BY <1>1, <1>4, <2>1, InstancesStay DEF ExtInv, Instances, hostVars
<1>7. Loading'
  <2>1. \A r \in 1 .. MaxEdits : \A x : Underway(r, x) => Underway(r, x)'
    BY <1>3, <1>4 DEF Underway
  <2> QED
    BY <1>1, <2>1 DEF ExtInv, Loading, hostVars
<1>8. Shows'
  BY <1>1, <1>5 DEF ExtInv, Shows
<1> QED
  BY <1>1, <1>4, <1>5, <1>6, <1>7, <1>8, Frames DEF ExtInv, hostVars

\* The process dies by itself.
LEMMA CrashKeeps ==
  ASSUME ExtInv, Crash
  PROVE  ExtInv'
<1>1. faults' = faults + 1 /\ faults' \in 0 .. MaxFaults
  BY HostConstantsOK DEF ExtInv, Instances, Crash, Fault
<1> QED
  BY <1>1, DiesKeeps DEF Crash

\* The process is started again, and loads what the rows enable as far as it gets.
LEMMA RestartKeeps ==
  ASSUME ExtInv, Fault, Restart, muddled' = (muddled \/ enabled' # enabled),
         UNCHANGED <<view, current, form, fresh, dialog, listeners, list, loads>>
  PROVE  ExtInv'
<1> DEFINE Loads(seen, reset) ==
             /\ enabled' = [e \in Ext |-> enabled[e] /\ e \notin reset]
             /\ inst' = [e \in Ext |-> IF e \in {x \in seen \ reset : enabled[x]}
                                      THEN made[e] + 1 ELSE 0]
             /\ made' = [e \in Ext |-> IF e \in {x \in seen \ reset : enabled[x]}
                                      THEN made[e] + 1 ELSE made[e]]
             /\ missed' = Ext \ seen
<1>a. PICK seen \in SUBSET Ext : \E reset \in SUBSET seen : Loads(seen, reset)
  BY DEF Restart, Loaded
<1>1. PICK reset \in SUBSET seen : Loads(seen, reset)
  BY <1>a
<1>2. /\ faults < MaxFaults /\ faults' = faults + 1 /\ ~alive /\ alive' = TRUE
      /\ UNCHANGED <<queue, spoiled, sent, conns, edits, submits, closing>>
  BY DEF Fault, Restart
<1>3. /\ made' \in [Ext -> Nat] /\ inst' \in [Ext -> Nat] /\ missed' \subseteq Ext
      /\ \A e \in Ext : inst'[e] \in {0, made'[e]} /\ made[e] <= made'[e]
           /\ made'[e] <= made[e] + 1
  BY <1>1 DEF ExtInv, Instances
<1>4. enabled' \in [Ext -> BOOLEAN]
  BY <1>1 DEF ExtInv, Instances
<1>5. Instances'
  <2>1. \A e \in Ext : made'[e] <= 1 + faults' + Cardinality(Settled')
    <3>1. \A e \in Ext : made[e] \in Nat /\ made'[e] \in Nat
                           /\ made[e] <= 1 + faults + Cardinality(Settled)
      BY <1>3 DEF ExtInv, Instances
    <3>2. Settled' = Settled /\ faults \in Nat
      BY <1>2, HostConstantsOK DEF ExtInv, Instances, Settled
    <3> QED
      BY <1>2, <1>3, <3>1, <3>2, CountSettled
  <2>2. faults' \in 0 .. MaxFaults
    BY <1>2, HostConstantsOK DEF ExtInv, Instances
  <2> QED
    BY <1>2, <1>3, <1>4, <2>1, <2>2 DEF ExtInv, Instances
<1>6. Queues' /\ SubmissionsFit' /\ StreamsFit'
  BY <1>2, <1>3, MoreInstances
<1>7. EditsFit'
  BY <1>2 DEF ExtInv, EditsFit
<1>8. Loading'
  <2>1. ASSUME NEW e \in Ext, enabled'[e], inst'[e] = 0  PROVE e \in missed'
    <3>1. enabled[e] /\ e \notin reset /\ made[e] \in Nat
      BY <1>1, <2>1 DEF ExtInv, Instances
    <3>2. e \notin seen
      BY <1>1, <2>1, <3>1
    <3> QED
      BY <1>1, <3>2
  <2> QED
    BY <2>1 DEF Loading
<1>9. ListsFit'
  BY <1>2 DEF ExtInv, ListsFit
<1>10. Lists'
  <2>1. CASE enabled' = enabled
    <3>1. muddled' = muddled
      BY <2>1 DEF ExtInv, ListsFit
    <3> QED
      BY <1>2, <2>1, <3>1, Frames DEF ExtInv
  <2>2. CASE enabled' # enabled
    BY <2>2 DEF Lists
  <2> QED
    BY <2>1, <2>2
<1> QED
  BY <1>2, <1>5, <1>6, <1>7, <1>8, <1>9, <1>10, Frames DEF ExtInv

------------------------------------------------------------------------------
(* The theorems.                                                           *)

\* At first nothing is called but the list, and what the rows enable is loaded.
LEMMA InitHolds == Init => ExtInv
<1> SUFFICES ASSUME Init PROVE ExtInv
  OBVIOUS
<1>1. /\ alive = TRUE /\ enabled = [e \in Ext |-> e \in Enabled]
      /\ made = [e \in Ext |-> IF enabled[e] THEN 1 ELSE 0] /\ inst = made /\ missed = {}
      /\ queue = [e \in Ext |-> [n \in Number0 |-> <<>>]] /\ spoiled = {}
      /\ conns = [s \in 1 .. MaxStreams |-> Unused] /\ edits = [t \in 1 .. MaxEdits |-> Unused]
      /\ submits = <<>>
      /\ view = "list" /\ current = None /\ form = None /\ fresh = FALSE
      /\ dialog = None /\ listeners = 0
      /\ list = Off /\ loads = FirstLoads /\ muddled = FALSE /\ faults = 0
  BY DEF Init, HostInit
<1>2. Instances
  <2>1. /\ made \in [Ext -> Nat] /\ \A e \in Ext : made[e] <= 1
        /\ enabled \in [Ext -> BOOLEAN]
    BY <1>1
  <2>2. Cardinality(Settled) \in Nat
    BY CountSettled
  <2>3. 0 \in 0 .. MaxFaults
    BY HostConstantsOK
  <2>4. \A e \in Ext : made[e] <= 1 + faults + Cardinality(Settled)
    BY <1>1, <2>1, <2>2
  <2> QED
    BY <1>1, <2>1, <2>3, <2>4 DEF Instances
<1>3. Queues /\ Kept
  BY <1>1 DEF Queues, Kept
<1>4. StreamsFit
  BY <1>1 DEF StreamsFit, Made, Unused
<1>5. EditsFit
  BY <1>1 DEF EditsFit
<1>6. SubmissionsFit
  BY <1>1 DEF SubmissionsFit
<1>7. Loading
  <2>1. \A e \in Ext : enabled[e] => inst[e] = 1
    BY <1>1
  <2> QED
    BY <2>1 DEF Loading
<1>8. Shows
  <2>1. /\ view = "list" /\ current = None /\ form = None /\ fresh = FALSE
        /\ dialog = None /\ listeners = 0
    BY <1>1
  <2>2. submits = <<>> /\ DOMAIN submits = {}
    BY <1>1
  <2> QED
    BY ONLY <2>1, <2>2 DEF Shows
<1>9. ListsFit
  <2>1. Off \in [Ext -> Seq(Entries)]
    BY DEF Off
  <2>2. FirstLoads \in [1 .. MaxLoads -> {Unused, Over, [at |-> "sent"]}]
    BY DEF FirstLoads
  <2> QED
    BY <1>1, <2>1, <2>2 DEF ListsFit
<1>10. Lists
  <2>1. InFlight(1)
    BY <1>1, PageConstantsOK DEF InFlight, FirstLoads
  <2>2. \A l \in 1 .. MaxLoads : (InFlight(l) => l = 1) /\ loads[l].at # "answer"
    BY <1>1 DEF InFlight, FirstLoads, Unused
  <2>3. \A t \in 1 .. MaxEdits : ~Made(edits[t])
    BY <1>1 DEF Made, Unused
  <2>4. 1 \in 1 .. MaxLoads
    BY PageConstantsOK
  <2> QED
    BY <1>1, <2>1, <2>2, <2>3, <2>4 DEF Lists
<1> QED
  BY <1>2, <1>3, <1>4, <1>5, <1>6, <1>7, <1>8, <1>9, <1>10 DEF ExtInv

\* Nothing happens.
LEMMA StutterKeeps ==
  ASSUME ExtInv, UNCHANGED vars
  PROVE  ExtInv'
<1>1. UNCHANGED <<alive, enabled, inst, made, missed, queue, spoiled, sent, conns, edits, submits,
                  view, current, form, fresh, dialog, listeners, list, loads, muddled, faults>>
  BY DEF vars, hostVars, pageVars
<1> QED
  BY <1>1, Frames DEF ExtInv

\* Whichever step is taken.
LEMMA NextKeeps ==
  ASSUME ExtInv, Next
  PROVE  ExtInv'
<1>1. /\ DOMAIN conns = 1 .. MaxStreams /\ DOMAIN edits = 1 .. MaxEdits
      /\ DOMAIN loads = 1 .. MaxLoads
  BY DEF ExtInv, StreamsFit, EditsFit, ListsFit
<1>2. CASE Host /\ UNCHANGED pageVars
  <2>1. ASSUME NEW s \in 1 .. MaxStreams, ConnectStep(s), UNCHANGED pageVars  PROVE ExtInv'
    BY <2>1, ConnectBeginsKeeps, ConnectPushesKeeps, ConnectSendsKeeps, ConnectReturnsKeeps
       DEF ConnectStep
  <2>2. ASSUME NEW k \in DOMAIN submits, SubmitStep(k), UNCHANGED pageVars  PROVE ExtInv'
    BY <2>2, SubmitBeginsKeeps, SubmitPushesKeeps DEF SubmitStep
  <2>3. ASSUME NEW t \in 1 .. MaxEdits, EditStep(t), UNCHANGED pageVars  PROVE ExtInv'
    BY <2>3, EditLooksKeeps, EditRemovesKeeps, EditStoresKeeps, EditLoadsKeeps, EditInstallsKeeps
       DEF EditStep
  <2>4. ASSUME CloseServed, UNCHANGED pageVars  PROVE ExtInv'
    BY <2>4, CloseServedKeeps
  <2> QED
    BY <1>1, <1>2, <2>1, <2>2, <2>3, <2>4 DEF Host
<1>3. CASE Page
  <2>1. ASSUME NEW l \in 1 .. MaxLoads, ListServed(l) \/ ListShown(l)  PROVE ExtInv'
    BY <2>1, ListServedKeeps, ListShownKeeps
  <2>2. ASSUME NEW t \in 1 .. MaxEdits, ToggleReturns(t)  PROVE ExtInv'
    BY <2>2, ToggleReturnsKeeps
  <2>3. ASSUME NEW s \in 1 .. MaxStreams, Arrives(s)  PROVE ExtInv'
    BY <2>3, ArrivesKeeps
  <2> QED
    BY <1>1, <1>3, <2>1, <2>2, <2>3 DEF Page
<1>4. CASE User
  <2>1. ASSUME NEW e \in Ext, NEW i \in DOMAIN list[e], Toggle(e, i) \/ openExtensionPage(e, i)
        PROVE  ExtInv'
    BY <2>1, ToggleKeeps, openExtensionPageKeeps
  <2>2. ASSUME SubmitForm \/ SubmitDialog \/ DismissDialog \/ Close \/ Reload  PROVE ExtInv'
    BY <2>2, SubmitFormKeeps, SubmitDialogKeeps, DismissDialogKeeps, CloseKeeps, ReloadKeeps
  <2> QED
    BY <1>4, <2>1, <2>2 DEF User
<1>5. CASE Faulty
  <2>1. ASSUME NEW l \in 1 .. MaxLoads, ListFails(l)  PROVE ExtInv'
    BY <2>1, ListFailsKeeps
  <2>2. ASSUME NEW s \in 1 .. MaxStreams, StreamBreaks(s)  PROVE ExtInv'
    BY <2>2, StreamBreaksKeeps
  <2>3. ASSUME NEW t \in 1 .. MaxEdits, EditCallFails(t)  PROVE ExtInv'
    BY <2>3, EditCallFailsKeeps
  <2>4. ASSUME Crash  PROVE ExtInv'
    BY <2>4, CrashKeeps
  <2>5. ASSUME Fault, Restart, muddled' = (muddled \/ enabled' # enabled),
               UNCHANGED <<view, current, form, fresh, dialog, listeners, list, loads>>
        PROVE  ExtInv'
    BY <2>5, RestartKeeps
  <2> QED
    BY <1>1, <1>5, <2>1, <2>2, <2>3, <2>4, <2>5 DEF Faulty
<1> QED
  BY <1>2, <1>3, <1>4, <1>5 DEF Next

\* The parts of ExtInv hold of the host and the page together, always.
THEOREM ExtInductive == Spec => []ExtInv
<1>1. Init => ExtInv
  BY InitHolds
<1>2. ExtInv /\ [Next]_vars => ExtInv'
  BY NextKeeps, StutterKeeps
<1> QED
  BY <1>1, <1>2, PTL DEF Spec

\* What an extension sends of its form or dialog, every page of the bundle can read.
LEMMA WiresAreReadable ==
  ASSUME NEW w \in Wires
  PROVE  Readable(B!ExtensionResponse, w)
<1>1. PICK e \in Ext, type \in Kinds : w = UiMessage(e, type)
  BY DEF Wires
<1> DEFINE m == [type |-> type, extension_id |-> e, json_ui |-> "{}"]
<1>2. /\ DOMAIN w \subseteq DOMAIN V!ExtensionResponse
      /\ \A n \in DOMAIN w : w[n].wire = WireType(V!ExtensionResponse[n])
  <2> DEFINE S == V!ExtensionResponse
  <2>1. w = Write(S, m)
    BY <1>1 DEF UiMessage
  <2> HIDE DEF S, m
  <2>2. DOMAIN w \subseteq DOMAIN S /\ \A n \in DOMAIN w : w[n].wire = WireType(S[n])
    BY <2>1 DEF Write, Written
  <2> QED
    BY <2>2 DEF S
<1>3. \A n \in DOMAIN V!ExtensionResponse \cap DOMAIN B!ExtensionResponse :
        WireType(V!ExtensionResponse[n]) = WireType(B!ExtensionResponse[n])
  BY DEF V!ExtensionResponse, B!ExtensionResponse, V!Enum, V!Str, B!Enum, B!Str, V!Field,
     B!Field, WireType, Enum, Str, Field
<1> QED
  BY <1>2, <1>3 DEF Readable

\* Rows, instances, queues, streams and what the page shows keep their shape; the
\* loaded instance of an extension is the newest one, and what streams carry can
\* be read by the page: with any number of streams, edits, crashes and reloads.
THEOREM ExtTypeCorrect == Spec => []TypeOK
<1>1. ExtInv => TypeOK
  <2> SUFFICES ASSUME ExtInv PROVE TypeOK
    OBVIOUS
  <2>1. /\ alive \in BOOLEAN /\ enabled \in [Ext -> BOOLEAN] /\ faults \in 0 .. MaxFaults
        /\ missed \subseteq Ext
        /\ \A e \in Ext : inst[e] \in {0, made[e]}
    BY DEF ExtInv, Instances
  <2>2. \A e \in Ext : made[e] \in Number0
    <3> SUFFICES ASSUME NEW e \in Ext PROVE made[e] \in Number0
      OBVIOUS
    <3>1. 1 .. made[e] \subseteq Number0 /\ made[e] \in Nat
      BY InstancesAreNumbered DEF ExtInv
    <3>2. 0 \in Number0
      BY HostConstantsOK DEF Number0
    <3>3. made[e] # 0 => made[e] \in 1 .. made[e]
      BY <3>1
    <3> QED
      BY <3>1, <3>2, <3>3
  <2>3. ASSUME NEW e \in Ext, NEW n \in Number0, queue[e][n] # <<>>
        PROVE  n \in 1 .. made[e] /\ queue[e][n] \in {<<UPDATE_UI>>, <<SHOW_DIALOG>>}
    BY <2>3 DEF ExtInv, Queues, Kinds
  <2>4. ASSUME NEW s \in DOMAIN conns, Serving(conns[s])
        PROVE  /\ conns[s].at \in {"sent", "push", "loop"}
               /\ conns[s].page \in {"live", "dead"}
               /\ \A k \in DOMAIN conns[s].net : Readable(B!ExtensionResponse, conns[s].net[k])
    <3>1. s \in 1 .. MaxStreams /\ Made(conns[s])
      BY <2>4 DEF ExtInv, StreamsFit, Serving, Made
    <3>2. conns[s].net \in Seq(Wires)
      BY <3>1, StreamShape DEF ExtInv
    <3>3. \A k \in DOMAIN conns[s].net : conns[s].net[k] \in Wires
      BY <3>2
    <3> QED
      BY <3>1, <3>3, StreamShape, WiresAreReadable DEF ExtInv
  <2>5. /\ view \in {"list", "page"} /\ current \in Ext \cup {None}
        /\ view = "page" => current # None
        /\ form \in Ext \cup {None} /\ dialog \in Ext \cup {None} /\ listeners \in Nat
        /\ dialog # None => listeners > 0
        /\ fresh \in BOOLEAN
    BY DEF ExtInv, Shows
  <2>6. muddled \in BOOLEAN
    BY DEF ExtInv, ListsFit
  <2> QED
    BY <2>1, <2>2, <2>3, <2>4, <2>5, <2>6 DEF TypeOK
<1> QED
  BY <1>1, ExtInductive, PTL

\* What the user fills in goes to the extension whose form it is, whatever pages
\* were opened before, whatever their streams still bring and whichever of them
\* break: each is shown only while its extension is the current one.
THEOREM FormsGoHome == Spec => []FormGoesHome
<1>1. ExtInv => FormGoesHome
  BY DEF ExtInv, Shows, FormGoesHome
<1> QED
  BY <1>1, ExtInductive, PTL

\* Once no load and no edit is under way the list has each extension once, with
\* its switch where the host's row is, through crashes, restarts and toggles.
THEOREM ListsSettle == Spec => []ListSettles
<1>1. ExtInv => ListSettles
  <2> SUFFICES ASSUME ExtInv, ~muddled, \A l \in DOMAIN loads : ~InFlight(l),
                      \A t \in DOMAIN edits :
                        edits[t] \notin {Unused, Over} => edits[t].told /\ ~Serving(edits[t]),
                      NEW e \in Ext
               PROVE  list[e] = <<[enable |-> enabled[e], checked |-> enabled[e]]>>
    BY DEF ListSettles
  <2>1. DOMAIN loads = 1 .. MaxLoads /\ DOMAIN edits = 1 .. MaxEdits
    BY DEF ExtInv, ListsFit, EditsFit
  <2>2. ~Pending(e)
    BY <2>1 DEF Pending, Made, Unused, Over
  <2>3. list[e] = Entry(enabled[e])
    BY <2>1, <2>2 DEF ExtInv, Lists
  <2> QED
    BY <2>3 DEF Entry
<1> QED
  BY <1>1, ExtInductive, PTL

\* Whenever no call is between an extension's row and its instance, an extension
\* that is enabled is loaded or was missed by a table call that failed: edits of
\* the same extension overlap, table calls fail and processes die at every point.
THEOREM EnabledLoaded == Spec => []EnabledIsLoaded
<1>1. ExtInv => EnabledIsLoaded
  <2> SUFFICES ASSUME ExtInv, alive, \A t \in DOMAIN edits : edits[t].at \notin {"store", "load", "install"},
                      NEW e \in Ext, enabled[e], inst[e] = 0
               PROVE  e \in missed
    BY DEF EnabledIsLoaded
  <2>1. DOMAIN edits = 1 .. MaxEdits
    BY DEF ExtInv, EditsFit
  <2> QED
    BY <2>1 DEF ExtInv, Loading, Underway
<1> QED
  BY <1>1, ExtInductive, PTL

\* A stream is never stuck on a full queue unless its instance lost a message or
\* was given one while nobody listened: whoever else fills the queue has a stream
\* that will empty it.
THEOREM BlockedSpoiled == Spec => []BlockedOnlyIfSpoiled
<1>1. ExtInv => BlockedOnlyIfSpoiled
  <2> SUFFICES ASSUME ExtInv, NEW s \in DOMAIN conns, Blocked(s)
               PROVE  Key(conns[s]) \in spoiled
    BY DEF BlockedOnlyIfSpoiled
  <2>1. s \in 1 .. MaxStreams /\ DOMAIN conns = 1 .. MaxStreams
    BY DEF ExtInv, StreamsFit
  <2>2. conns[s].at = "push" /\ QueueOf(conns[s]) # <<>>
    BY DEF Blocked, Room
  <2>3. conns[s].ext \in Ext /\ conns[s].inst \in Number0
    BY <2>1, <2>2, StreamShape, InstancesAreNumbered DEF ExtInv, StreamsFit, Made
  <2>4. \/ <<conns[s].ext, conns[s].inst>> \in spoiled
        \/ \E r \in 1 .. MaxStreams :
             conns[r].at = "loop" /\ Key(conns[r]) = <<conns[s].ext, conns[s].inst>>
    BY <2>2, <2>3 DEF ExtInv, Kept, QueueOf
  <2> QED
    BY <2>1, <2>4 DEF Blocked, Key
<1> QED
  BY <1>1, ExtInductive, PTL
================================================================================
