----------------------------- MODULE PageProofs -----------------------------
(***************************************************************************)
(* Theorems about the page beside the core.  What holds of every class,    *)
(* whatever its fields and its messages: a class reads back what it wrote, *)
(* and two generations that agree exchange exactly the fields both of them *)
(* have.  And of the connection pane, for any number of clicks under way   *)
(* and every bound on presses, other clients, faults and messages: its     *)
(* buffers and messages, and that it settles on the core's status.         *)
(***************************************************************************)
EXTENDS ConnectionPage, SequenceTheorems, TLAPS

------------------------------------------------------------------------------
(* The classes.                                                            *)

\* Number finds the one field that has a name.
LEMMA NumberOfName ==
  ASSUME NEW S, WellFormed(S), NEW n \in DOMAIN S
  PROVE  Number(S, S[n].name) = n
BY DEF Number, WellFormed

\* A name of a class is the name of its number.
LEMMA NameOfNumber ==
  ASSUME NEW S, NEW x \in Names(S)
  PROVE  Number(S, x) \in DOMAIN S /\ S[Number(S, x)].name = x
BY DEF Number, Names

\* serializeBinary followed by deserializeBinary of the same class never
\* throws and gives back the message, the fields at their default included,
\* which are not on the wire at all.
THEOREM RoundTrip ==
  ASSUME NEW S, WellFormed(S), NEW m, Message(S, m)
  PROVE  Readable(S, Write(S, m)) /\ Read(S, Write(S, m)) = m
<1> DEFINE w == Write(S, m)
<1>1. DOMAIN w = Written(S, m)
  BY DEF Write
<1>2. ASSUME NEW n \in Written(S, m)
      PROVE  /\ w[n].type = S[n].type /\ w[n].shape = S[n].shape
             /\ w[n].wire = WireType(S[n]) /\ w[n].value = m[S[n].name]
  BY <1>2 DEF Write
<1>3. Readable(S, w)
  BY <1>1, <1>2 DEF Readable
<1>4. ASSUME NEW x \in Names(S) PROVE Read(S, w)[x] = m[x]
  <2> DEFINE n == Number(S, x)
  <2>1. n \in DOMAIN S /\ S[n].name = x
    BY NameOfNumber
  <2>2. CASE n \in Written(S, m)
    BY <1>1, <1>2, <2>1, <2>2 DEF Read, ReadField
  <2>3. CASE n \notin Written(S, m)
    BY <1>1, <2>1, <2>3 DEF Read, Written
  <2> QED BY <2>2, <2>3
<1>5. Read(S, w) = [x \in Names(S) |-> Read(S, w)[x]]
  BY DEF Read
<1> QED BY <1>3, <1>4, <1>5 DEF Message

\* The page reads what a server of another generation wrote (or the other way
\* round): where the two agree, the reader never throws, the fields both have
\* arrive unchanged and the reader's own fields read as their defaults.
THEOREM SharedFieldsArrive ==
  ASSUME NEW S, NEW T, WellFormed(T), Agree(S, T), NEW m
  PROVE  /\ Readable(T, Write(S, m))
         /\ \A n \in DOMAIN S \cap DOMAIN T :
              Read(T, Write(S, m))[T[n].name] = m[S[n].name]
         /\ \A n \in DOMAIN T \ DOMAIN S :
              Read(T, Write(S, m))[T[n].name] = Default(T[n])
<1> DEFINE w == Write(S, m)
<1>1. DOMAIN w = Written(S, m) /\ Written(S, m) \subseteq DOMAIN S
  BY DEF Write, Written
<1>2. ASSUME NEW n \in Written(S, m)
      PROVE  /\ w[n].type = S[n].type /\ w[n].shape = S[n].shape
             /\ w[n].wire = WireType(S[n]) /\ w[n].value = m[S[n].name]
  BY <1>2 DEF Write
<1>3. ASSUME NEW n \in DOMAIN S \cap DOMAIN T
      PROVE  WireType(S[n]) = WireType(T[n]) /\ Default(S[n]) = Default(T[n])
  BY <1>3 DEF Agree, WireType, Default
<1>4. Readable(T, w)
  BY <1>1, <1>2, <1>3 DEF Readable
<1>5. ASSUME NEW n \in DOMAIN T
      PROVE  Read(T, w)[T[n].name] =
               IF n \in DOMAIN w THEN ReadField(T[n], w[n]) ELSE Default(T[n])
  <2>1. T[n].name \in Names(T)
    BY <1>5 DEF Names
  <2>2. Number(T, T[n].name) = n
    BY <1>5, NumberOfName
  <2> QED BY <2>1, <2>2 DEF Read
<1>6. ASSUME NEW n \in DOMAIN S \cap DOMAIN T
      PROVE  Read(T, w)[T[n].name] = m[S[n].name]
  <2>1. CASE n \in Written(S, m)
    BY <1>1, <1>2, <1>5, <1>6, <2>1 DEF ReadField, Agree
  <2>2. CASE n \notin Written(S, m)
    BY <1>1, <1>3, <1>5, <1>6, <2>2 DEF Written
  <2> QED BY <2>1, <2>2
<1>7. ASSUME NEW n \in DOMAIN T \ DOMAIN S
      PROVE  Read(T, w)[T[n].name] = Default(T[n])
  BY <1>1, <1>5, <1>7
<1> QED BY <1>4, <1>6, <1>7

\* Readable unfolded at a field the two generations lay out differently: a message
\* in which the field is set cannot be read, whatever else it holds.
LEMMA DisagreementIsRefused ==
  ASSUME NEW S, NEW T, NEW m,
         NEW n \in DOMAIN S \cap DOMAIN T, WireType(S[n]) # WireType(T[n]),
         m[S[n].name] # Default(S[n])
  PROVE  ~Readable(T, Write(S, m))
<1>1. n \in DOMAIN Write(S, m) /\ Write(S, m)[n].wire = WireType(S[n])
  BY DEF Write, Written
<1> QED BY <1>1 DEF Readable

\* A class that does not know some fields drops them: what it passes on of a
\* message it read is what it knew of it, so an older reader in the middle
\* never invents a field and always loses the newer ones.
THEOREM RelayDropsUnknown ==
  ASSUME NEW S, NEW T, WellFormed(T), Agree(S, T), NEW m
  PROVE  DOMAIN Write(T, Read(T, Write(S, m))) = DOMAIN Write(S, m) \cap DOMAIN T
<1> DEFINE r == Read(T, Write(S, m))
<1>1. DOMAIN Write(T, r) = {n \in DOMAIN T : r[T[n].name] # Default(T[n])}
  BY DEF Write, Written
<1>2. DOMAIN Write(S, m) = {n \in DOMAIN S : m[S[n].name] # Default(S[n])}
  BY DEF Write, Written
<1>3. \A n \in DOMAIN S \cap DOMAIN T : Default(S[n]) = Default(T[n])
  BY DEF Agree, Default
<1>4. \A n \in DOMAIN S \cap DOMAIN T : r[T[n].name] = m[S[n].name]
  BY SharedFieldsArrive
<1>5. \A n \in DOMAIN T \ DOMAIN S : r[T[n].name] = Default(T[n])
  BY SharedFieldsArrive
<1> QED BY <1>1, <1>2, <1>3, <1>4, <1>5

\* For what the page's own code sends or reads, and for the classes that did not
\* change incompatibly, in either direction: the other side never throws, every
\* field both have arrives and the reader's own fields read as their defaults.
THEOREM PageAndServerAgree ==
  ASSUME NEW p \in PageUses \cup Unchanged, NEW m
  PROVE  \A c \in {<<p[1], p[2]>>, <<p[2], p[1]>>} :
           /\ Readable(c[2], Write(c[1], m))
           /\ \A n \in DOMAIN c[1] \cap DOMAIN c[2] :
                Read(c[2], Write(c[1], m))[c[2][n].name] = m[c[1][n].name]
           /\ \A n \in DOMAIN c[2] \ DOMAIN c[1] :
                Read(c[2], Write(c[1], m))[c[2][n].name] = Default(c[2][n])
<1>1. p[1] \in B!Classes /\ p[2] \in V!Classes
  BY DEF PageUses, Unchanged, B!Classes, V!Classes
<1>2. WellFormed(p[1]) /\ WellFormed(p[2])
  BY <1>1, SchemasWellFormed
<1>3. Agree(p[1], p[2])
  BY GenerationsAgree
<1>4. Agree(p[2], p[1])
  BY <1>3 DEF Agree
<1> QED
  BY <1>2, <1>3, <1>4, SharedFieldsArrive

\* Each of the three classes that were renumbered or retyped has a field that the
\* other generation refuses, in either direction, on every message in which it is set.
THEOREM ChangedAreRefused ==
  ASSUME NEW p \in Changed
  PROVE  \E n \in DOMAIN p[1] \cap DOMAIN p[2] :
           \A m : /\ m[p[1][n].name] # Default(p[1][n]) => ~Readable(p[2], Write(p[1], m))
                  /\ m[p[2][n].name] # Default(p[2][n]) => ~Readable(p[1], Write(p[2], m))
<1>1. PICK n \in DOMAIN p[1] \cap DOMAIN p[2] : WireType(p[1][n]) # WireType(p[2][n])
  BY GenerationsDisagree
<1>2. ASSUME NEW m, m[p[1][n].name] # Default(p[1][n])
      PROVE  ~Readable(p[2], Write(p[1], m))
  BY <1>1, <1>2, DisagreementIsRefused
<1>3. ASSUME NEW m, m[p[2][n].name] # Default(p[2][n])
      PROVE  ~Readable(p[1], Write(p[2], m))
  BY <1>1, <1>3, DisagreementIsRefused
<1> QED
  BY <1>1, <1>2, <1>3

------------------------------------------------------------------------------
(* The connection pane: the inductive invariant.                           *)

States == {State[x] : x \in DOMAIN State}

Goroutines == {"op", "alert"}

\* The places of a click's handler.
Handlers ==
  [at : {"idle", "prepare", "start", "stop", "running"}]
    \cup [at : {"answer"}, ok : BOOLEAN, state : States, ver : Nat]

\* The operations that hold the lock, or none.
Operations ==
  [by : Click \cup {Nobody, Other}, step : {"free", "starting", "refused", "stopping"}]

\* What the pane can be.
Panes ==
  [pane : {"before", "connecting"}, text : {"none"} \cup {Texts[x] : x \in DOMAIN Texts},
   ver : Nat, by : {"html", "stream", "answer"}]

EndOfStream == [kind |-> "end"]

Messages == {EndOfStream} \cup {Data(c) : c \in Status}

\* The core's status.
CoreFits == core \in Status

\* The lock is a click's while that click waits, and an answer is no younger than
\* the core's status.
OpFits ==
  /\ op \in Operations
  /\ op.by = Nobody <=> op = Free
  /\ clicks \in [Click -> Handlers]
  /\ \A i \in Click : op.by = i <=> clicks[i].at = "running"
  /\ \A i \in Click : clicks[i].at = "answer" => clicks[i].ver <= core.ver

\* A place for one status: it was set, and the core's number is the core's status.
Place(b) ==
  b # <<>> =>
    /\ b = <<Head(b)>> /\ Head(b) \in Status
    /\ Head(b).ver <= core.ver
    /\ Head(b).ver = core.ver => Head(b) = core

\* What was written and not emitted, and the two buffers.
Pipes ==
  /\ DOMAIN pend = Goroutines
  /\ \A g \in Goroutines : Place(pend[g])
  /\ Place(source) /\ Place(buffer)

\* A message that carries a status that was set; the core's number carries the
\* core's state, and a type only where the core has one.
Carries(m) ==
  \E c \in Status :
    /\ m = Data(c) /\ c.ver <= core.ver
    /\ c.ver = core.ver => c.state = core.state /\ (core.type = EMPTY => c.type = EMPTY)

\* The messages on their way: statuses, and an end after them; a stream that is not
\* open has none.
NetFits ==
  /\ net \in Seq(Messages)
  /\ \A k \in 1 .. Len(net) :
       IF net[k] = EndOfStream THEN k = Len(net) /\ stream = "ending" ELSE Carries(net[k])
  /\ stream \notin {"open", "ending"} => net = <<>>

\* Only a stream that listens has a buffer.
StreamFits ==
  /\ stream \in {"opening", "subscribed", "open", "ending", "timer", "dead"}
  /\ buffer # <<>> => Listening

\* Of the core's status, where the stream brought it, the pane shows the state.
ShownFits ==
  /\ shown \in Panes
  /\ shown.ver <= core.ver
  /\ shown.by = "stream" /\ shown.ver = core.ver /\ core.type = EMPTY
       => State[Displayed] = core.state

\* The place holds the core's status.
Fresh(b) == b # <<>> /\ Head(b).ver = core.ver

\* Where both goroutines have a status to emit, one of them has the core's.
OneFresh == \E g \in Goroutines : pend[g] = <<>> \/ Fresh(pend[g])

\* Unless it is still to be emitted, or was lost and the ghost says so, the core's
\* status is the last that is on its way to the page, or the page has it.
LastWord ==
  /\ untold \in BOOLEAN
  /\ ~untold /\ (\A g \in Goroutines : ~Fresh(pend[g])) =>
       IF source # <<>> THEN Fresh(source)
       ELSE IF buffer # <<>> THEN Fresh(buffer)
       ELSE stream = "open" =>
              IF net # <<>> THEN net[Len(net)].ver = core.ver
              ELSE shown.by = "stream" => shown.ver = core.ver

\* The inductive invariant.
ConnInv ==
  /\ CoreFits
  /\ OpFits
  /\ Pipes
  /\ NetFits
  /\ StreamFits
  /\ ShownFits
  /\ OneFresh
  /\ LastWord

------------------------------------------------------------------------------
(* Messages and statuses.                                                  *)

\* The numbers of the states.
LEMMA StatesAre ==
  /\ State.STOPPED = 0 /\ State.STARTING = 1 /\ State.STARTED = 2 /\ State.STOPPING = 3
  /\ DOMAIN State = {"STOPPED", "STARTING", "STARTED", "STOPPING"}
  /\ States = {0, 1, 2, 3}
  /\ Status = [state : States, type : Nat, ver : Nat, up : BOOLEAN]
BY DEF State, B!CoreState, States, Status

\* The fields of CoreInfoResponse, in both generations.
LEMMA InfoFields ==
  /\ DOMAIN B!CoreInfoResponse = 1 .. 3 /\ DOMAIN V!CoreInfoResponse = 1 .. 3
  /\ \A S \in {B!CoreInfoResponse, V!CoreInfoResponse} :
       S[1].name = "core_state" /\ S[2].name = "message_type" /\ S[3].name = "message"
BY DEF B!CoreInfoResponse, V!CoreInfoResponse, B!Enum, B!Str, B!Field, V!Enum, V!Str, V!Field

\* The bundle's class reads of a status what was set.
LEMMA StatusArrives ==
  ASSUME NEW c \in Status
  PROVE  /\ Readable(B!CoreInfoResponse, Data(c).wire)
         /\ \A n \in States :
              Equals(Read(B!CoreInfoResponse, Data(c).wire), n)
                <=> c.state = n /\ c.type = EMPTY
<1> DEFINE m == [core_state |-> c.state, message_type |-> c.type,
                 message |-> IF c.type = EMPTY THEN "" ELSE "why"]
           w == Write(V!CoreInfoResponse, m)
           r == Read(B!CoreInfoResponse, w)
<1>1. WellFormed(B!CoreInfoResponse)
  BY SchemasWellFormed DEF B!Classes
<1>2. Agree(V!CoreInfoResponse, B!CoreInfoResponse)
  <2>1. Agree(B!CoreInfoResponse, V!CoreInfoResponse)
    <3> DEFINE p == <<B!CoreInfoResponse, V!CoreInfoResponse>>
    <3>1. p \in PageUses
      BY DEF PageUses
    <3>2. Agree(p[1], p[2])
      BY <3>1, GenerationsAgree
    <3>3. p[1] = B!CoreInfoResponse /\ p[2] = V!CoreInfoResponse
      OBVIOUS
    <3> HIDE DEF p
    <3> QED
      BY <3>2, <3>3
  <2> QED
    BY <2>1 DEF Agree
<1>3. m.core_state = c.state /\ m.message_type = c.type
      /\ m.message = IF c.type = EMPTY THEN "" ELSE "why"
  OBVIOUS
<1>4. Data(c).wire = w
  BY DEF Data
<1> HIDE DEF m
<1>5. Readable(B!CoreInfoResponse, w)
  BY <1>1, <1>2, SharedFieldsArrive
<1>6. \A n \in DOMAIN V!CoreInfoResponse \cap DOMAIN B!CoreInfoResponse :
        r[B!CoreInfoResponse[n].name] = m[V!CoreInfoResponse[n].name]
  BY <1>1, <1>2, SharedFieldsArrive
<1> HIDE DEF w, r
<1>7. r["core_state"] = m["core_state"] /\ r["message_type"] = m["message_type"]
      /\ r["message"] = m["message"]
  <2>1. 1 \in 1 .. 3 /\ 2 \in 1 .. 3 /\ 3 \in 1 .. 3
    OBVIOUS
  <2> QED
    BY <2>1, <1>6, InfoFields
<1>8. ASSUME NEW n \in States PROVE Equals(r, n) <=> c.state = n /\ c.type = EMPTY
  BY <1>3, <1>7 DEF Equals, EMPTY
<1> QED
  BY <1>4, <1>5, <1>8 DEF r

\* One place has a head; a sequence of messages has a last one.
LEMMA Sequence1 ==
  ASSUME NEW x
  PROVE  <<x>> # <<>> /\ Head(<<x>>) = x /\ Len(<<x>>) = 1 /\ <<x>>[1] = x
OBVIOUS

\* A message that carries a status is no end of a stream.
LEMMA DataIs ==
  ASSUME NEW c
  PROVE  Data(c).kind = "data" /\ Data(c).ver = c.ver /\ Data(c) # EndOfStream
BY DEF Data, EndOfStream

\* What a message carries does not tell the type from EMPTY, or whether a box is up.
LEMMA SameData ==
  ASSUME NEW c, NEW d, c.ver = d.ver, c.state = d.state, c.type = d.type
  PROVE  Data(c) = Data(d)
BY DEF Data

------------------------------------------------------------------------------
(* Steps of the core.                                                      *)

\* A status is written: every other one is older now, and it is still to be emitted.
LEMMA StatusSet ==
  ASSUME ConnInv, NEW g \in Goroutines,
         NEW state \in States, NEW type \in Nat, NEW up \in BOOLEAN,
         SetCoreStatus(g, state, type, up), UNCHANGED <<source, buffer, stream, net, shown>>
  PROVE  /\ core'.ver = core.ver + 1 /\ core' \in Status /\ core'.state = state
         /\ CoreFits' /\ Pipes' /\ NetFits' /\ StreamFits' /\ ShownFits' /\ OneFresh' /\ LastWord'
<1> USE DEF ConnInv, SetCoreStatus
<1>1. core' \in Status /\ core'.ver = core.ver + 1 /\ core.ver \in Nat /\ core'.state = state
  BY StatesAre DEF CoreFits
<1>2. CoreFits'
  BY <1>1 DEF CoreFits
<1>3. Pipes'
  <2>1. ASSUME NEW b, Place(b)
        PROVE  b # <<>> => /\ b = <<Head(b)>> /\ Head(b) \in Status
                           /\ Head(b).ver <= core'.ver /\ Head(b).ver # core'.ver
    <3>1. ASSUME NEW c \in Status, c.ver <= core.ver
          PROVE  c.ver <= core'.ver /\ c.ver # core'.ver
      BY <1>1, <3>1, StatesAre
    <3> QED
      BY <2>1, <3>1 DEF Place
  <2>2. Place(source)' /\ Place(buffer)'
    BY <2>1 DEF Pipes, Place
  <2>3. Place(pend[g])'
    <3>1. pend'[g] = <<core'>>
      BY DEF Pipes
    <3>2. core'.ver <= core'.ver
      BY <1>1
    <3> QED
      BY <1>1, <3>1, <3>2, Sequence1 DEF Place
  <2>4. ASSUME NEW h \in Goroutines, h # g PROVE Place(pend[h])'
    <3>1. pend'[h] = pend[h] /\ Place(pend[h])
      BY <2>4 DEF Pipes
    <3> QED
      BY <2>1, <3>1 DEF Place
  <2>5. DOMAIN pend' = Goroutines
    BY DEF Pipes
  <2> QED
    BY <2>2, <2>3, <2>4, <2>5 DEF Pipes
<1>4. NetFits'
  <2>1. ASSUME NEW m, Carries(m) PROVE Carries(m)'
    <3>1. PICK c \in Status : m = Data(c) /\ c.ver <= core.ver
      BY <2>1 DEF Carries
    <3>2. c.ver <= core'.ver /\ c.ver # core'.ver
      BY <1>1, <3>1, StatesAre
    <3> QED
      BY <3>1, <3>2 DEF Carries
  <2>2. ASSUME NEW k \in 1 .. Len(net)
        PROVE  IF net[k] = EndOfStream THEN k = Len(net) /\ stream = "ending"
               ELSE Carries(net[k])'
    BY <2>1, <2>2 DEF NetFits
  <2> QED
    BY <2>2 DEF NetFits
<1>5. StreamFits'
  BY DEF StreamFits, Listening
<1>6. ShownFits'
  BY <1>1 DEF ShownFits, Panes, Displayed
<1>7. Fresh(pend[g])'
  <2>1. pend'[g] = <<core'>>
    BY DEF Pipes
  <2> QED
    BY <2>1, Sequence1 DEF Fresh
<1>8. OneFresh'
  BY <1>7 DEF OneFresh
<1>9. LastWord'
  BY <1>7 DEF LastWord
<1> QED
  BY <1>1, <1>2, <1>3, <1>4, <1>5, <1>6, <1>8, <1>9

\* The operation that holds the lock ends, and its click has an answer.
LEMMA EndKeeps ==
  ASSUME ConnInv, NEW state \in States, NEW type \in Nat, NEW up \in BOOLEAN,
         NEW ok \in BOOLEAN,
         op.step # "free", SetCoreStatus("op", state, type, up), op' = Free,
         clicks' = Answered(op.by, ok), UnchangedOutside
  PROVE  ConnInv'
<1> USE DEF ConnInv
<1>1. /\ core'.ver = core.ver + 1 /\ core' \in Status /\ core'.state = state
      /\ CoreFits' /\ Pipes' /\ NetFits' /\ StreamFits' /\ ShownFits' /\ OneFresh' /\ LastWord'
  BY StatusSet DEF UnchangedOutside, Goroutines
<1>2. core.ver \in Nat /\ core'.ver \in Nat /\ core.ver <= core'.ver
  BY <1>1, StatesAre DEF CoreFits
<1>3. OpFits'
  <2>1. op'.by = Nobody /\ op' \in Operations
    BY DEF Free, Operations
  <2>2. op.by # Nobody
    BY DEF OpFits, Free
  <2>3. ASSUME NEW i \in Click, i # op.by
        PROVE  clicks'[i] = clicks[i] /\ clicks[i].at # "running"
    BY <2>3 DEF OpFits, Answered
  <2>4. ASSUME op.by \in Click
        PROVE  clicks'[op.by] =
                 [at |-> "answer", ok |-> ok, state |-> core'.state, ver |-> core'.ver]
    BY <2>4 DEF OpFits, Answered
  <2>5. [at |-> "answer", ok |-> ok, state |-> core'.state, ver |-> core'.ver] \in Handlers
    BY <1>1, <1>2 DEF Handlers
  <2>6. clicks' \in [Click -> Handlers]
    BY <2>5 DEF OpFits, Answered
  <2>7. \A i \in Click : clicks[i].at = "answer" => clicks[i].ver \in Nat
    BY DEF OpFits, Handlers
  <2>8. \A i \in Click : clicks'[i].at = "answer" => clicks'[i].ver <= core'.ver
    BY <1>2, <2>3, <2>4, <2>7 DEF OpFits
  <2>9. \A i \in Click : op'.by = i <=> clicks'[i].at = "running"
    BY <2>1, <2>3, <2>4, ConnectionConstantsOK
  <2> QED
    BY <2>1, <2>6, <2>8, <2>9 DEF OpFits
<1> QED
  BY <1>1, <1>3

\* An operation takes the lock, for a click that calls or for another client.
LEMMA BeginKeeps ==
  ASSUME ConnInv, NEW by, \/ by = Other
                          \/ by \in Click /\ clicks[by].at \in {"start", "stop"},
         BeginStart(by) \/ BeginStop(by), UnchangedOutside
  PROVE  ConnInv'
<1> USE DEF ConnInv
<1>1. PICK state \in States, type \in Nat, up \in BOOLEAN,
           step \in {"starting", "refused", "stopping"} :
        SetCoreStatus("op", state, type, up) /\ op' = [by |-> by, step |-> step]
  <2>1. core.up \in BOOLEAN /\ EMPTY \in Nat /\ UNEXPECTED_ERROR \in Nat
    BY StatesAre DEF CoreFits, EMPTY, UNEXPECTED_ERROR
  <2>2. State.STARTING \in States /\ State.STOPPED \in States /\ State.STOPPING \in States
    BY StatesAre
  <2> QED
    BY <2>1, <2>2 DEF BeginStart, BeginStop
<1>2. /\ core'.ver = core.ver + 1 /\ core' \in Status /\ core'.state = state
      /\ CoreFits' /\ Pipes' /\ NetFits' /\ StreamFits' /\ ShownFits' /\ OneFresh' /\ LastWord'
  BY <1>1, StatusSet DEF UnchangedOutside, Goroutines
<1>3. core.ver \in Nat /\ core'.ver \in Nat /\ core.ver <= core'.ver
  BY <1>2, StatesAre DEF CoreFits
<1>4. clicks' = Running(by) /\ op = Free
  BY DEF BeginStart, BeginStop
<1>5. OpFits'
  <2>1. op'.by = by /\ by # Nobody /\ op' # Free
    BY <1>1, ConnectionConstantsOK DEF Free, Nobody, Other
  <2>2. op' \in Operations
    BY <1>1 DEF Operations
  <2>3. ASSUME NEW i \in Click, i # by
        PROVE  clicks'[i] = clicks[i] /\ clicks[i].at # "running"
    BY <1>4, <2>3, ConnectionConstantsOK DEF OpFits, Running, Free
  <2>4. ASSUME by \in Click
        PROVE  clicks[by] \in [at : {"idle", "prepare", "start", "stop", "running"}]
    BY <2>4, ConnectionConstantsOK DEF OpFits, Handlers
  <2>5. ASSUME by \in Click
        PROVE  clicks'[by] \in Handlers /\ clicks'[by].at = "running"
    BY <1>4, <2>4, <2>5 DEF OpFits, Running, Handlers
  <2>6. clicks' \in [Click -> Handlers]
    BY <1>4, <2>3, <2>5 DEF OpFits, Running
  <2>7. \A i \in Click : clicks[i].at = "answer" => clicks[i].ver \in Nat
    BY DEF OpFits, Handlers
  <2>8. \A i \in Click : clicks'[i].at = "answer" => clicks'[i].ver <= core'.ver
    BY <1>3, <2>3, <2>5, <2>7 DEF OpFits
  <2>9. \A i \in Click : op'.by = i <=> clicks'[i].at = "running"
    BY <2>1, <2>3, <2>5
  <2> QED
    BY <2>1, <2>2, <2>6, <2>8, <2>9 DEF OpFits
<1> QED
  BY <1>2, <1>5

\* A status without an operation's beginning or end.
LEMMA AlertKeeps ==
  ASSUME ConnInv, NEW g \in Goroutines, NEW type \in Nat, NEW up \in BOOLEAN,
         SetCoreStatus(g, State.STOPPED, type, up), UnchangedOutside, UNCHANGED clicks,
         \/ UNCHANGED op
         \/ op.step # "free" /\ op' = [op EXCEPT !.step = "refused"]
  PROVE  ConnInv'
<1> USE DEF ConnInv
<1>1. /\ core'.ver = core.ver + 1 /\ core' \in Status
      /\ CoreFits' /\ Pipes' /\ NetFits' /\ StreamFits' /\ ShownFits' /\ OneFresh' /\ LastWord'
  BY StatusSet, StatesAre DEF UnchangedOutside
<1>2. core.ver \in Nat /\ core'.ver \in Nat /\ core.ver <= core'.ver
  BY <1>1, StatesAre DEF CoreFits
<1>3. OpFits'
  <2>1. \A i \in Click : clicks[i].at = "answer" => clicks[i].ver \in Nat
    BY DEF OpFits, Handlers
  <2>2. \A i \in Click : clicks[i].at = "answer" => clicks[i].ver <= core'.ver
    BY <1>2, <2>1 DEF OpFits
  <2>3. op'.by = op.by /\ op' \in Operations
    BY DEF OpFits, Operations
  <2>4. op' = Free <=> op = Free
    BY DEF OpFits, Free
  <2> QED
    BY <2>2, <2>3, <2>4 DEF OpFits
<1> QED
  BY <1>1, <1>3

\* Every step of the operation that holds the lock.
LEMMA ServerKeeps ==
  ASSUME ConnInv, Server
  PROVE  ConnInv'
<1> USE StatesAre DEF EMPTY, CREATE_SERVICE, UNEXPECTED_ERROR, ALREADY_STOPPED
<1>1. core.up \in BOOLEAN
  BY DEF ConnInv, CoreFits
<1>2. CASE StartSucceeds
  <2>1. State.STARTED \in States /\ EMPTY \in Nat /\ TRUE \in BOOLEAN
    OBVIOUS
  <2>2. /\ op.step # "free" /\ SetCoreStatus("op", State.STARTED, EMPTY, TRUE)
        /\ op' = Free /\ clicks' = Answered(op.by, TRUE) /\ UnchangedOutside
    BY <1>2 DEF StartSucceeds
  <2> QED
    BY ONLY ConnInv, <2>1, <2>2, EndKeeps
<1>3. CASE OperationFails
  BY <1>1, <1>3, AlertKeeps DEF OperationFails, Goroutines
<1>4. CASE ErrorWrapper
  BY <1>4, EndKeeps DEF ErrorWrapper
<1>5. CASE StopSucceeds
  <2> DEFINE type == IF core.up THEN EMPTY ELSE ALREADY_STOPPED
  <2>1. State.STOPPED \in States /\ type \in Nat /\ TRUE \in BOOLEAN /\ FALSE \in BOOLEAN
    BY <1>1
  <2>2. /\ op.step # "free" /\ SetCoreStatus("op", State.STOPPED, type, FALSE)
        /\ op' = Free /\ clicks' = Answered(op.by, TRUE) /\ UnchangedOutside
    BY <1>5 DEF StopSucceeds
  <2> HIDE DEF type
  <2> QED
    BY ONLY ConnInv, <2>1, <2>2, EndKeeps
<1> QED
  BY <1>2, <1>3, <1>4, <1>5 DEF Server

\* Another client starts or stops.
LEMMA OtherClientKeeps ==
  ASSUME ConnInv, OtherClient
  PROVE  ConnInv'
BY BeginKeeps DEF OtherClient

\* An alert, without the lock.
LEMMA RaiseKeeps ==
  ASSUME ConnInv, Alert
  PROVE  ConnInv'
BY AlertKeeps DEF Alert, Goroutines, UNEXPECTED_ERROR

\* The server serves a click's call.
LEMMA ServeKeeps ==
  ASSUME ConnInv, NEW i \in Click, Serve(i)
  PROVE  ConnInv'
BY BeginKeeps DEF Serve

------------------------------------------------------------------------------
(* Steps of the stream.                                                    *)

\* What a status that is still in its place says of the core's.
LEMMA PlaceOfOne ==
  ASSUME NEW b, Place(b), b # <<>>
  PROVE  /\ Len(b) = 1 /\ Head(b) \in Status /\ Head(b).ver <= core.ver
         /\ Place(<<Head(b)>>)
         /\ Fresh(b) => Head(b) = core
         /\ Carries(Data(Head(b)))
<1>1. b = <<Head(b)>> /\ Len(<<Head(b)>>) = 1 /\ Head(<<Head(b)>>) = Head(b)
  BY DEF Place
<1>2. Carries(Data(Head(b)))
  BY DEF Place, Carries
<1> QED
  BY <1>1, <1>2 DEF Place, Fresh

\* A message is added after the others, which is none that ends the stream.
LEMMA NetGrows ==
  ASSUME ConnInv, stream = "open", NEW c \in Status, Carries(Data(c)),
         net' = Append(net, Data(c)), stream' = "open", core' = core
  PROVE  NetFits' /\ net' # <<>> /\ net'[Len(net')] = Data(c)
<1> USE DEF ConnInv
<1>1. net \in Seq(Messages)
  BY DEF NetFits
<1>2. /\ net' \in Seq(Messages)
      /\ Len(net') = Len(net) + 1 /\ net'[Len(net) + 1] = Data(c)
      /\ \A k \in 1 .. Len(net) : net'[k] = net[k]
      /\ Len(net) \in Nat /\ net' # <<>>
  BY <1>1 DEF Messages
<1>3. ASSUME NEW k \in 1 .. Len(net)
      PROVE  net'[k] # EndOfStream /\ Carries(net[k])'
  <2>1. net[k] # EndOfStream /\ Carries(net[k])
    BY <1>3 DEF NetFits
  <2> QED
    BY <1>2, <2>1 DEF Carries
<1>4. Data(c) # EndOfStream /\ Carries(Data(c))'
  BY DataIs DEF Carries
<1>5. \A k \in 1 .. Len(net') : k \in 1 .. Len(net) \/ k = Len(net) + 1
  BY <1>2
<1> QED
  BY <1>2, <1>3, <1>4, <1>5 DEF NetFits

\* What the stream's steps leave alone.
LEMMA StreamLeaves ==
  ASSUME ConnInv, UnchangedByStream
  PROVE  CoreFits' /\ OpFits' /\ ShownFits' /\ OneFresh'
BY DEF ConnInv, UnchangedByStream, CoreFits, OpFits, ShownFits, Displayed, OneFresh, Fresh

\* A status is emitted: the observer takes it unless it is full, and where that or
\* the order of two emits loses the core's status, the ghost knows.
LEMMA EmitKeeps ==
  ASSUME ConnInv, NEW g \in Goroutines, Emit(g)
  PROVE  ConnInv'
<1> USE DEF ConnInv
<1> DEFINE c == Head(pend[g])
           late == c.ver < core.ver /\ \A h \in DOMAIN pend \ {g} : pend[h] = <<>>
<1>1. /\ pend[g] # <<>> /\ pend' = [pend EXCEPT ![g] = <<>>]
      /\ IF source = <<>>
         THEN source' = <<c>> /\ untold' = (untold \/ late)
         ELSE source' = source /\ untold' = (untold \/ late \/ c.ver = core.ver)
      /\ UNCHANGED <<core, op, buffer, stream, net, clicks, shown>>
  BY DEF Emit
<1>2. CoreFits' /\ OpFits' /\ ShownFits'
  BY <1>1 DEF CoreFits, OpFits, ShownFits, Displayed
<1>3. NetFits' /\ StreamFits'
  BY <1>1 DEF NetFits, Carries, StreamFits, Listening
<1>4. Place(pend[g]) /\ DOMAIN pend = Goroutines
  BY DEF Pipes
<1>5. pend'[g] = <<>> /\ \A h \in Goroutines \ {g} : pend'[h] = pend[h]
  BY <1>1, <1>4
<1>6. Place(<<c>>) /\ Head(<<c>>) = c /\ <<c>> # <<>> /\ c.ver \in Nat /\ c.ver <= core.ver
  BY <1>1, <1>4, PlaceOfOne, StatesAre
<1>7. Pipes'
  <2>1. Place(source)'
    BY <1>1, <1>6 DEF Pipes, Place
  <2>2. Place(buffer)'
    BY <1>1 DEF Pipes, Place
  <2>3. \A h \in Goroutines : Place(pend[h])'
    BY <1>1, <1>5 DEF Pipes, Place
  <2>4. DOMAIN pend' = Goroutines
    BY <1>1, <1>4
  <2> QED
    BY <2>1, <2>2, <2>3, <2>4 DEF Pipes
<1>8. OneFresh'
  BY <1>5 DEF OneFresh
<1>9. LastWord'
  <2>1. untold' \in BOOLEAN
    BY <1>1 DEF LastWord
  <2>2. ASSUME ~untold', \A h \in Goroutines : ~Fresh(pend[h])'
        PROVE  IF source' # <<>> THEN Fresh(source)'
               ELSE IF buffer # <<>> THEN Fresh(buffer)
               ELSE stream = "open" =>
                      IF net # <<>> THEN net[Len(net)].ver = core.ver
                      ELSE shown.by = "stream" => shown.ver = core.ver
    <3>1. ~untold /\ ~late
      BY <1>1, <2>2
    <3>2. \A h \in Goroutines \ {g} : ~Fresh(pend[h])
      BY <1>1, <1>5, <2>2 DEF Fresh
    <3>3. CASE c.ver = core.ver
      BY <1>1, <1>6, <2>2, <3>3 DEF Fresh
    <3>4. CASE c.ver # core.ver
      <4>1. c.ver < core.ver
        BY <1>6, <3>4, StatesAre DEF CoreFits
      <4>2. PICK h \in Goroutines \ {g} : pend[h] # <<>>
        BY <1>4, <3>1, <4>1
      <4>3. Goroutines = {g, h}
        BY <4>2 DEF Goroutines
      <4>4. ~Fresh(pend[g])
        BY <3>4 DEF Fresh
      <4> QED
        BY <1>1, <3>2, <4>2, <4>3, <4>4 DEF OneFresh
    <3> QED
      BY <3>3, <3>4
  <2>3. buffer' = buffer /\ (Fresh(buffer)' <=> Fresh(buffer))
    BY <1>1 DEF Fresh
  <2> QED
    BY <1>1, <2>1, <2>2, <2>3 DEF LastWord
<1> QED
  BY <1>2, <1>3, <1>7, <1>8, <1>9

\* The observer's goroutine hands its status on, or the ghost knows that it was
\* the core's.
LEMMA RelayKeeps ==
  ASSUME ConnInv, Relay
  PROVE  ConnInv'
<1> USE DEF ConnInv
<1>1. /\ source # <<>> /\ source' = <<>>
      /\ IF Listening /\ buffer # <<>>
         THEN buffer' = buffer /\ untold' = (untold \/ Head(source).ver = core.ver)
         ELSE buffer' = (IF Listening THEN source ELSE <<>>) /\ untold' = untold
      /\ UNCHANGED <<stream, net, core, pend, shown>> /\ UnchangedByStream
  BY DEF Relay, UnchangedByStream
<1>2. NetFits' /\ StreamFits'
  BY <1>1 DEF NetFits, Carries, StreamFits, Listening
<1>3. Pipes'
  BY <1>1 DEF Pipes, Place
<1>4. LastWord'
  <2>1. (\A g \in Goroutines : ~Fresh(pend[g])') <=> (\A g \in Goroutines : ~Fresh(pend[g]))
    BY <1>1 DEF Fresh
  <2>2. untold' \in BOOLEAN
    BY <1>1 DEF LastWord
  <2>3. ASSUME ~untold', \A g \in Goroutines : ~Fresh(pend[g])
        PROVE  IF buffer' # <<>> THEN Fresh(buffer)' ELSE stream # "open"
    <3>1. ~untold /\ Fresh(source)
      BY <1>1, <2>3 DEF LastWord
    <3> QED
      BY <1>1, <2>3, <3>1 DEF Fresh, Listening
  <2> QED
    BY <1>1, <2>1, <2>2, <2>3 DEF LastWord
<1> QED
  BY <1>1, <1>2, <1>3, <1>4, StreamLeaves

\* The places of a stream that is opened, ends or breaks off are as they were, or empty.
LEMMA StreamStops ==
  ASSUME ConnInv, UnchangedByStream, UNCHANGED <<source, untold>>,
         buffer' = buffer \/ buffer' = <<>>, stream' # "open",
         stream' \in {"opening", "subscribed", "ending", "timer", "dead"},
         buffer' # <<>> => stream' = "subscribed"
  PROVE  CoreFits' /\ OpFits' /\ Pipes' /\ StreamFits' /\ ShownFits' /\ OneFresh' /\ LastWord'
<1> USE DEF ConnInv
<1>1. UNCHANGED <<core, pend, source, untold>>
  BY DEF UnchangedByStream
<1>2. Pipes'
  BY <1>1 DEF Pipes, Place
<1>3. StreamFits'
  BY DEF StreamFits, Listening
<1>4. LastWord'
  BY <1>1 DEF LastWord, Fresh
<1> QED
  BY <1>2, <1>3, <1>4, StreamLeaves

\* The stream has a subscription, with nothing in it.
LEMMA SubscribeKeeps ==
  ASSUME ConnInv, Subscribe
  PROVE  ConnInv'
<1>1. buffer = <<>>
  BY DEF ConnInv, Subscribe, StreamFits, Listening
<1>2. NetFits'
  BY DEF ConnInv, Subscribe, UnchangedByStream, NetFits
<1> QED
  BY <1>1, <1>2, StreamStops DEF ConnInv, Subscribe

\* What is sent first is the core's state as it is read.
LEMMA SendInitialKeeps ==
  ASSUME ConnInv, SendInitial
  PROVE  ConnInv'
<1> USE DEF ConnInv
<1>0. PICK c : c = [core EXCEPT !.type = EMPTY]
  OBVIOUS
<1>1. /\ stream = "subscribed" /\ stream' = "open" /\ net' = Append(net, Data(c))
      /\ UNCHANGED <<core, pend, source, buffer, untold, shown>> /\ UnchangedByStream
  BY <1>0 DEF SendInitial, UnchangedByStream
<1>2. /\ c \in Status /\ c.ver = core.ver /\ c.state = core.state /\ c.type = EMPTY
      /\ core.ver <= core.ver
  BY <1>0, StatesAre DEF CoreFits, EMPTY
<1>3. net = <<>>
  BY <1>1 DEF NetFits
<1>4. net' = <<Data(c)>> /\ Len(<<Data(c)>>) = 1 /\ <<Data(c)>> # <<>> /\ <<Data(c)>>[1] = Data(c)
  BY <1>1, <1>3
<1>5. NetFits'
  <2>1. Carries(Data(c))' /\ Data(c) # EndOfStream
    BY <1>1, <1>2, DataIs DEF Carries
  <2>2. <<Data(c)>> \in Seq(Messages)
    BY <1>2 DEF Messages
  <2> QED
    BY <1>1, <1>4, <2>1, <2>2 DEF NetFits
<1>6. Pipes' /\ StreamFits'
  BY <1>1 DEF Pipes, Place, StreamFits, Listening
<1>7. LastWord'
  BY <1>1, <1>2, <1>4, DataIs DEF LastWord, Fresh
<1> QED
  BY <1>1, <1>5, <1>6, <1>7, StreamLeaves

\* The stream sends what its subscription has.
LEMMA ForwardKeeps ==
  ASSUME ConnInv, Forward
  PROVE  ConnInv'
<1> USE DEF ConnInv
<1> DEFINE c == Head(buffer)
<1>1. /\ stream = "open" /\ stream' = "open" /\ buffer # <<>> /\ buffer' = <<>>
      /\ net' = Append(net, Data(c))
      /\ UNCHANGED <<core, pend, source, untold, shown>> /\ UnchangedByStream
  BY DEF Forward, UnchangedByStream
<1>2. Place(buffer)
  BY DEF Pipes
<1>3. c \in Status /\ Carries(Data(c))
  BY <1>1, <1>2, PlaceOfOne
<1>4. NetFits' /\ net' # <<>> /\ net'[Len(net')] = Data(c)
  BY <1>1, <1>3, NetGrows
<1>5. Pipes' /\ StreamFits'
  BY <1>1 DEF Pipes, Place, StreamFits
<1>6. LastWord'
  BY <1>1, <1>4, DataIs DEF LastWord, Fresh
<1> QED
  BY <1>1, <1>4, <1>5, <1>6, StreamLeaves

\* The handler returns: the end is the last that the stream brings.
LEMMA StreamEndsKeeps ==
  ASSUME ConnInv, StreamEnds
  PROVE  ConnInv'
<1> USE DEF ConnInv
<1>1. /\ stream \in {"opening", "subscribed", "open"} /\ stream' = "ending" /\ buffer' = <<>>
      /\ net' = Append(net, EndOfStream) /\ core' = core
  BY DEF StreamEnds, EndOfStream, UnchangedByStream
<1>2. /\ net' \in Seq(Messages)
      /\ Len(net') = Len(net) + 1 /\ net'[Len(net) + 1] = EndOfStream
      /\ \A k \in 1 .. Len(net) : net'[k] = net[k]
      /\ Len(net) \in Nat
  BY <1>1 DEF NetFits, Messages
<1>3. ASSUME NEW k \in 1 .. Len(net)
      PROVE  net'[k] # EndOfStream /\ Carries(net[k])'
  <2>1. net[k] # EndOfStream /\ Carries(net[k])
    BY <1>1, <1>3 DEF NetFits
  <2> QED
    BY <1>1, <1>2, <2>1 DEF Carries
<1>4. \A k \in 1 .. Len(net') : k \in 1 .. Len(net) \/ k = Len(net) + 1
  BY <1>2
<1>5. NetFits'
  BY <1>1, <1>2, <1>3, <1>4 DEF NetFits
<1> QED
  BY <1>1, <1>5, StreamStops DEF StreamEnds

\* The connection breaks, and what was on it is gone.
LEMMA StreamFailsKeeps ==
  ASSUME ConnInv, StreamFails
  PROVE  ConnInv'
<1>1. NetFits'
  BY DEF StreamFails, NetFits
<1> QED
  BY <1>1, StreamStops DEF ConnInv, StreamFails

------------------------------------------------------------------------------
(* Steps of the page.                                                      *)

\* Each text is one state's.
LEMMA TextsAre ==
  /\ DOMAIN Texts = {"STARTING", "STOPPING", "STARTED"}
  /\ Texts["STARTING"] = "Starting" /\ Texts["STOPPING"] = "Stopping" /\ Texts["STARTED"] = "Connected"
  /\ \A x, y \in DOMAIN Texts : Texts[x] = Texts[y] => x = y
  /\ \A x \in DOMAIN Texts : x \in DOMAIN State /\ Texts[x] # "none"
BY StatesAre DEF Texts

\* The pane takes one of its values, and of a status without a message it shows
\* the state.
LEMMA HandleShows ==
  ASSUME ShownFits, NEW status, NEW ver \in Nat, NEW by \in {"stream", "answer"},
         handleCoreStatus(status, ver, by)
  PROVE  /\ shown' \in Panes
         /\ shown'.ver = ver /\ shown'.by = by
         /\ \A state \in States :
              (\A n \in States : Equals(status, n) <=> n = state) => State[Displayed'] = state
<1> DEFINE told == {x \in DOMAIN Texts : Equals(status, State[x])}
<1>1. shown \in Panes
  BY DEF ShownFits
<1>2. CASE Equals(status, State.STOPPED)
  <2>1. shown' = [shown EXCEPT !.pane = "before", !.ver = ver, !.by = by]
    BY <1>2 DEF handleCoreStatus
  <2>2. Displayed' = "STOPPED"
    BY <1>1, <2>1 DEF Displayed
  <2>3. \A state \in States :
          (\A n \in States : Equals(status, n) <=> n = state) => State["STOPPED"] = state
    BY <1>2, StatesAre
  <2> QED
    BY <1>1, <2>1, <2>2, <2>3 DEF Panes
<1>3. CASE ~Equals(status, State.STOPPED)
  <2>1. shown' = [pane |-> "connecting", ver |-> ver, by |-> by,
                  text |-> IF told = {} THEN shown.text ELSE Texts[CHOOSE x \in told : TRUE]]
    BY <1>3 DEF handleCoreStatus
  <2>2. told # {} => (CHOOSE x \in told : TRUE) \in told
    OBVIOUS
  <2>3. shown'.text \in {"none"} \cup {Texts[x] : x \in DOMAIN Texts}
    BY <1>1, <2>1, <2>2 DEF Panes
  <2>4. ASSUME NEW state \in States, \A n \in States : Equals(status, n) <=> n = state
        PROVE  State[Displayed'] = state
    <3>1. PICK x \in DOMAIN Texts : State[x] = state
      BY <1>3, <2>4, StatesAre, TextsAre
    <3>2. told = {x}
      BY <2>4, <3>1, StatesAre, TextsAre
    <3>3. shown'.pane = "connecting" /\ shown'.text = Texts[x]
      BY <2>1, <2>2, <3>2
    <3>4. Displayed' = x
      BY <3>3, TextsAre DEF Displayed
    <3> QED
      BY <3>1, <3>4
  <2> QED
    BY <2>1, <2>3, <2>4 DEF Panes
<1> QED
  BY <1>2, <1>3

\* The first message of those on their way, and what is left of them.
LEMMA FirstMessage ==
  ASSUME NetFits, net # <<>>
  PROVE  /\ 1 \in 1 .. Len(net) /\ Len(net) \in 1 .. Len(net) /\ Head(net) = net[1]
         /\ Tail(net) \in Seq(Messages)
         /\ Len(Tail(net)) = Len(net) - 1 /\ Len(net) \in Nat
         /\ \A k \in 1 .. Len(Tail(net)) : Tail(net)[k] = net[k + 1] /\ k + 1 \in 1 .. Len(net)
         /\ Tail(net) = <<>> <=> Len(net) = 1
         /\ stream \in {"open", "ending"}
<1> DEFINE T == Messages
<1>1. net \in Seq(T) /\ stream \in {"open", "ending"}
  BY DEF NetFits
<1> HIDE DEF T
<1>2. /\ Len(net) \in Nat /\ Len(net) # 0 /\ Tail(net) \in Seq(T) /\ Len(Tail(net)) = Len(net) - 1
      /\ \A k \in 1 .. Len(Tail(net)) : Tail(net)[k] = net[k + 1] /\ k + 1 \in 1 .. Len(net)
  BY <1>1, EmptySeq, HeadTailProperties
<1>3. Head(net) = net[1] /\ 1 \in 1 .. Len(net) /\ Len(net) \in 1 .. Len(net)
  BY <1>1, <1>2, HeadTailProperties
<1>4. Tail(net) = <<>> <=> Len(net) = 1
  <2> DEFINE rest == Tail(net)
  <2>1. rest \in Seq(T) /\ Len(rest) = Len(net) - 1 /\ Len(net) \in Nat
    BY <1>2
  <2> HIDE DEF rest
  <2>2. rest = <<>> <=> Len(rest) = 0
    BY <2>1, EmptySeq
  <2>3. rest = <<>> <=> Len(net) = 1
    BY <2>1, <2>2
  <2> QED
    BY <2>3 DEF rest
<1> QED
  BY <1>1, <1>2, <1>3, <1>4 DEF T

\* What the page's steps leave alone.
LEMMA PageLeaves ==
  ASSUME ConnInv, UnchangedByPage, UNCHANGED clicks
  PROVE  CoreFits' /\ OpFits' /\ Pipes' /\ OneFresh'
BY DEF ConnInv, UnchangedByPage, CoreFits, OpFits, Pipes, Place, OneFresh, Fresh

\* A status arrives and is shown: it is older than the core's, or the core's.
LEMMA DeliverKeeps ==
  ASSUME ConnInv, Deliver
  PROVE  ConnInv'
<1> USE DEF ConnInv
<1>1. /\ net # <<>> /\ Head(net).kind = "data" /\ net' = Tail(net)
      /\ handleCoreStatus(Read(B!CoreInfoResponse, Head(net).wire), Head(net).ver, "stream")
      /\ UNCHANGED <<stream, clicks>> /\ UnchangedByPage
      /\ UNCHANGED <<core, pend, source, buffer, untold>>
  BY DEF Deliver, UnchangedByPage
<1>2. PICK c \in Status :
        /\ Head(net) = Data(c) /\ c.ver <= core.ver
        /\ c.ver = core.ver => c.state = core.state /\ (core.type = EMPTY => c.type = EMPTY)
  <2>1. Head(net) # EndOfStream
    BY <1>1 DEF EndOfStream
  <2> QED
    BY <1>1, <2>1, FirstMessage DEF NetFits, Carries
<1> DEFINE status == Read(B!CoreInfoResponse, Data(c).wire)
<1>3. \A n \in States : Equals(status, n) <=> c.state = n /\ c.type = EMPTY
  BY StatusArrives
<1>4. c.ver \in Nat /\ c.state \in States /\ core.state \in States /\ Head(net).ver = c.ver
  BY <1>2, StatesAre, DataIs DEF CoreFits
<1> HIDE DEF status
<1>5. handleCoreStatus(status, c.ver, "stream")
  BY <1>1, <1>2, <1>4 DEF status
<1>6. /\ shown' \in Panes
      /\ shown'.ver = c.ver /\ shown'.by = "stream"
      /\ \A state \in States :
           (\A n \in States : Equals(status, n) <=> n = state) => State[Displayed'] = state
  BY <1>4, <1>5, HandleShows
<1>7. ShownFits'
  <2>1. ASSUME c.ver = core.ver, core.type = EMPTY PROVE State[Displayed'] = core.state
    <3>1. \A n \in States : Equals(status, n) <=> n = core.state
      BY <1>2, <1>3, <2>1
    <3> QED
      BY <1>4, <1>6, <3>1
  <2> QED
    BY <1>1, <1>2, <1>6, <2>1 DEF ShownFits
<1>8. NetFits'
  <2>1. ASSUME NEW k \in 1 .. Len(Tail(net))
        PROVE  IF Tail(net)[k] = EndOfStream THEN k = Len(Tail(net)) /\ stream = "ending"
               ELSE Carries(Tail(net)[k])
    <3>1. k + 1 \in 1 .. Len(net) /\ Tail(net)[k] = net[k + 1] /\ Len(Tail(net)) = Len(net) - 1
      BY <1>1, FirstMessage
    <3>2. IF net[k + 1] = EndOfStream THEN k + 1 = Len(net) /\ stream = "ending"
          ELSE Carries(net[k + 1])
      BY <3>1 DEF NetFits
    <3> QED
      BY <3>1, <3>2
  <2>2. \A m : Carries(m) <=> Carries(m)'
    BY <1>1 DEF Carries
  <2>3. Tail(net) \in Seq(Messages)
        /\ stream' \in {"open", "ending"}
    BY <1>1, FirstMessage
  <2> QED
    BY <1>1, <2>1, <2>2, <2>3 DEF NetFits, Carries
<1>9. StreamFits'
  BY <1>1 DEF StreamFits, Listening
<1>10. LastWord'
  <2>1. net' # <<>> => net'[Len(net')] = net[Len(net)]
    BY <1>1, FirstMessage
  <2>2. net' = <<>> => net[Len(net)].ver = c.ver
    BY <1>1, <1>4, FirstMessage
  <2> QED
    BY <1>1, <1>6, <2>1, <2>2 DEF LastWord, Fresh
<1> QED
  BY <1>1, <1>7, <1>8, <1>9, <1>10, PageLeaves

\* The end of the stream: nothing came after it.
LEMMA DeliverEndKeeps ==
  ASSUME ConnInv, DeliverEnd
  PROVE  ConnInv'
<1> USE DEF ConnInv
<1>1. /\ net # <<>> /\ Head(net).kind = "end" /\ net' = Tail(net) /\ stream' = "timer"
      /\ UNCHANGED <<clicks, shown>> /\ UnchangedByPage
      /\ UNCHANGED <<core, pend, source, buffer, untold>>
  BY DEF DeliverEnd, UnchangedByPage
<1>2. net[1] = EndOfStream
  <2>1. net[1].kind # "data"
    BY <1>1, FirstMessage
  <2>2. \A c : net[1] # Data(c)
    BY <2>1, DataIs
  <2> QED
    BY <1>1, <2>2, FirstMessage DEF NetFits, Carries
<1>3. net' = <<>> /\ stream = "ending"
  BY <1>1, <1>2, FirstMessage DEF NetFits
<1>4. buffer = <<>>
  BY <1>3 DEF StreamFits, Listening
<1>5. NetFits' /\ StreamFits'
  <2>1. net' \in Seq(Messages) /\ 1 .. Len(net') = {}
    BY <1>3
  <2> QED
    BY <1>1, <1>3, <1>4, <2>1 DEF NetFits, StreamFits
<1>6. ShownFits' /\ LastWord'
  BY <1>1 DEF ShownFits, Displayed, LastWord, Fresh
<1> QED
  BY <1>1, <1>5, <1>6, PageLeaves

\* The page connects again, with nothing on the way.
LEMMA ReconnectKeeps ==
  ASSUME ConnInv, Reconnect
  PROVE  ConnInv'
<1> USE DEF ConnInv
<1>1. /\ stream = "timer" /\ stream' = "opening"
      /\ UNCHANGED <<net, clicks, shown, core, pend, source, buffer, untold>> /\ UnchangedByPage
  BY DEF Reconnect, UnchangedByPage
<1>2. net = <<>> /\ buffer = <<>>
  BY <1>1 DEF NetFits, StreamFits, Listening
<1>3. NetFits' /\ StreamFits'
  BY <1>1, <1>2 DEF NetFits, StreamFits
<1>4. ShownFits' /\ LastWord'
  BY <1>1 DEF ShownFits, Displayed, LastWord, Fresh
<1> QED
  BY <1>1, <1>3, <1>4, PageLeaves

\* A handler goes on within its values, and the operation with it.
LEMMA ClickKeeps ==
  ASSUME ConnInv, NEW i \in Click, NEW h \in Handlers, h.at \notin {"running", "answer"},
         clicks' = [clicks EXCEPT ![i] = h],
         IF op.by = i THEN op' = [op EXCEPT !.by = Other] ELSE op' = op,
         core' = core
  PROVE  OpFits'
<1>1. /\ op \in Operations
      /\ op.by = Nobody <=> op = Free
      /\ clicks \in [Click -> Handlers]
      /\ \A j \in Click : op.by = j <=> clicks[j].at = "running"
      /\ \A j \in Click : clicks[j].at = "answer" => clicks[j].ver <= core.ver
  BY DEF ConnInv, OpFits
<1>2. Free.by = Nobody /\ Other # Nobody
  BY DEF Free, Nobody, Other
<1>3. /\ op' \in Operations
      /\ op'.by = IF op.by = i THEN Other ELSE op.by
      /\ op.by # i => op' = op
  BY <1>1 DEF Operations
<1>4. op'.by = Nobody <=> op' = Free
  BY <1>1, <1>2, <1>3, ConnectionConstantsOK
<1>5. /\ clicks' \in [Click -> Handlers] /\ clicks'[i] = h
      /\ \A j \in Click : j # i => clicks'[j] = clicks[j]
  BY <1>1
<1>6. \A j \in Click : op'.by = j <=> clicks'[j].at = "running"
  BY <1>1, <1>3, <1>5, ConnectionConstantsOK
<1>7. \A j \in Click : clicks'[j].at = "answer" => clicks'[j].ver <= core.ver
  BY <1>1, <1>5
<1> QED
  BY <1>3, <1>4, <1>5, <1>6, <1>7 DEF OpFits

\* Such a step leaves the rest as it is.
LEMMA ClickLeaves ==
  ASSUME ConnInv, UNCHANGED <<core, pend, source, buffer, stream, net, shown, untold>>
  PROVE  CoreFits' /\ Pipes' /\ NetFits' /\ StreamFits' /\ ShownFits' /\ OneFresh' /\ LastWord'
BY DEF ConnInv, CoreFits, Pipes, Place, NetFits, Carries, StreamFits, Listening, ShownFits,
   Displayed,
       OneFresh, Fresh, LastWord

\* A button is pressed, or the handler of Connect goes on.
LEMMA PressKeeps ==
  ASSUME ConnInv, NEW i \in Click, PressConnect(i) \/ PressDisconnect(i) \/ Prepared(i)
  PROVE  ConnInv'
<1>1. op.by # i
  BY DEF ConnInv, OpFits, PressConnect, PressDisconnect, Press, Prepared, Idle
<1>2. PICK h \in {[at |-> "prepare"], [at |-> "stop"], [at |-> "start"], Idle} :
        clicks' = [clicks EXCEPT ![i] = h]
  BY DEF PressConnect, PressDisconnect, Press, Prepared
<1>3. h \in Handlers /\ h.at \notin {"running", "answer"}
  BY <1>2 DEF Handlers, Idle
<1>4. UNCHANGED <<core, op, pend, source, buffer, untold, stream, net, shown>>
  BY DEF PressConnect, PressDisconnect, Press, Prepared, UnchangedByPage
<1> QED
  BY <1>1, <1>2, <1>3, <1>4, ClickKeeps, ClickLeaves DEF ConnInv

\* A call fails: what the server does for it is nobody's on the page.
LEMMA CallFailsKeeps ==
  ASSUME ConnInv, NEW i \in Click, CallFails(i)
  PROVE  ConnInv'
<1>1. Idle \in Handlers /\ Idle.at = "idle"
  BY DEF Handlers, Idle
<1> QED
  BY <1>1, ClickKeeps, ClickLeaves DEF ConnInv, CallFails

\* An answer is shown as the answer of a call, whatever status came since.
LEMMA ShowAnswerKeeps ==
  ASSUME ConnInv, NEW i \in Click, ShowAnswer(i)
  PROVE  ConnInv'
<1> USE DEF ConnInv
<1>1. /\ clicks[i].at = "answer" /\ clicks' = [clicks EXCEPT ![i] = Idle]
      /\ handleCoreStatus(JustState(clicks[i].state), clicks[i].ver, "answer")
      /\ UNCHANGED <<stream, net, core, op, pend, source, buffer, untold>>
  BY DEF ShowAnswer, UnchangedByPage
<1>2. clicks[i].ver \in Nat /\ clicks[i].ver <= core.ver /\ op.by # i
  BY <1>1 DEF OpFits, Handlers
<1>3. /\ shown' \in Panes
      /\ shown'.ver = clicks[i].ver /\ shown'.by = "answer"
  BY <1>1, <1>2, HandleShows
<1>4. ShownFits'
  BY <1>1, <1>2, <1>3 DEF ShownFits
<1>5. OpFits'
  <2>1. Idle \in Handlers /\ Idle.at = "idle"
    BY DEF Handlers, Idle
  <2> QED
    BY <1>1, <1>2, <2>1, ClickKeeps
<1>6. CoreFits' /\ Pipes' /\ NetFits' /\ StreamFits' /\ OneFresh'
  BY <1>1 DEF CoreFits, Pipes, Place, NetFits, Carries, StreamFits, Listening, OneFresh, Fresh
<1>7. LastWord'
  BY <1>1, <1>3 DEF LastWord, Fresh
<1> QED
  BY <1>4, <1>5, <1>6, <1>7

------------------------------------------------------------------------------
(* The specification.                                                      *)

\* Nothing was set and nothing is under way.
LEMMA ConnInitHolds ==
  ASSUME Init
  PROVE  ConnInv
<1> USE StatesAre DEF Init, EMPTY
<1>1. CoreFits
  BY DEF CoreFits
<1>2. OpFits
  BY ConnectionConstantsOK DEF OpFits, Free, Idle, Handlers, Operations
<1>3. Pipes
  BY DEF Pipes, Place, Goroutines
<1>4. NetFits /\ StreamFits
  BY DEF NetFits, StreamFits
<1>5. ShownFits
  BY DEF ShownFits, Panes
<1>6. OneFresh /\ LastWord
  BY DEF OneFresh, LastWord, Goroutines
<1> QED
  BY <1>1, <1>2, <1>3, <1>4, <1>5, <1>6 DEF ConnInv

\* The inductive invariant of the pane beside the core, for any number of clicks
\* and every bound.
THEOREM ConnInductive == Spec => []ConnInv
<1>1. Init => ConnInv
  BY ConnInitHolds
<1>2. ConnInv /\ [Next]_vars => ConnInv'
  <2> SUFFICES ASSUME ConnInv, [Next]_vars PROVE ConnInv'
    OBVIOUS
  <2>1. CASE Server
    BY <2>1, ServerKeeps
  <2>2. CASE Streaming
    BY <2>2, EmitKeeps, RelayKeeps, SubscribeKeeps, SendInitialKeeps, ForwardKeeps,
       DeliverKeeps, DeliverEndKeeps, ReconnectKeeps DEF Streaming, ConnInv, Pipes
  <2>3. CASE OtherClient
    BY <2>3, OtherClientKeeps
  <2>4. CASE Alert
    BY <2>4, RaiseKeeps
  <2>5. CASE StreamEnds
    BY <2>5, StreamEndsKeeps
  <2>6. CASE StreamFails
    BY <2>6, StreamFailsKeeps
  <2>7. ASSUME NEW i \in Click, Clicking(i) PROVE ConnInv'
    BY <2>7, PressKeeps, ServeKeeps, ShowAnswerKeeps, CallFailsKeeps DEF Clicking
  <2>8. CASE UNCHANGED vars
    BY <2>8, ClickLeaves DEF vars, ConnInv, OpFits
  <2> QED
    BY <2>1, <2>2, <2>3, <2>4, <2>5, <2>6, <2>7, <2>8 DEF Next
<1> QED
  BY <1>1, <1>2, PTL DEF Spec

\* The buffers of the observer and of the subscription hold one status at most,
\* every message on its way is one the bundle's class reads, and the lock is a
\* click's only while that click waits.
THEOREM ConnTypeCorrect == Spec => []TypeOK
<1>1. ConnInv => TypeOK
  <2> SUFFICES ASSUME ConnInv PROVE TypeOK
    OBVIOUS
  <2> USE DEF ConnInv
  <2>1. \A b \in {source, buffer, pend["op"], pend["alert"]} :
          b # <<>> => Len(b) = 1 /\ Head(b) \in Status /\ Head(b).ver <= core.ver
    BY PlaceOfOne DEF Pipes, Goroutines
  <2>2. ASSUME NEW k \in DOMAIN net
        PROVE  IF net[k].kind = "end" THEN k = Len(net) /\ stream = "ending"
               ELSE /\ Readable(B!CoreInfoResponse, net[k].wire)
                    /\ Message(B!CoreInfoResponse, Read(B!CoreInfoResponse, net[k].wire))
                    /\ net[k].ver <= core.ver
    <3>1. k \in 1 .. Len(net)
      BY <2>2 DEF NetFits
    <3>2. CASE net[k] = EndOfStream
      BY <3>1, <3>2 DEF NetFits, EndOfStream
    <3>3. CASE net[k] # EndOfStream
      <4>1. PICK c \in Status : net[k] = Data(c) /\ c.ver <= core.ver
        BY <3>1, <3>3 DEF NetFits, Carries
      <4>2. net[k].kind = "data" /\ net[k].ver = c.ver /\ Readable(B!CoreInfoResponse, net[k].wire)
        BY <4>1, DataIs, StatusArrives
      <4>3. \A w : Message(B!CoreInfoResponse, Read(B!CoreInfoResponse, w))
        BY DEF Message, Read
      <4> QED
        BY <4>1, <4>2, <4>3
    <3> QED
      BY <3>2, <3>3
  <2>3. stream \in {"opening", "subscribed", "open", "ending", "timer", "dead"}
        /\ (stream \in {"timer", "dead"} => net = <<>>)
    BY DEF StreamFits, NetFits
  <2>4. shown.pane \in {"before", "connecting"} /\ shown.ver <= core.ver /\ untold \in BOOLEAN
    BY DEF ShownFits, LastWord, Panes
  <2> QED
    BY <2>1, <2>2, <2>3, <2>4 DEF TypeOK, CoreFits, OpFits, Operations
<1> QED
  BY <1>1, ConnInductive, PTL

\* With nothing on its way the page shows the core's last status, and, that having
\* no message, the core's state, unless the ghost knows that it was lost or the
\* page showed an answer last: however often the stream ended, and whatever was
\* written between the subscription and the state that is sent first.
THEOREM SettlesAlways == Spec => []SettlesOnCore
<1>1. ConnInv => SettlesOnCore
  <2>1. ConnInv /\ Quiet => \A g \in Goroutines : ~Fresh(pend[g])
    BY DEF ConnInv, Pipes, Quiet, Fresh
  <2> QED
    BY <2>1 DEF ConnInv, SettlesOnCore, Quiet, LastWord, ShownFits
<1> QED
  BY <1>1, ConnInductive, PTL
=============================================================================
