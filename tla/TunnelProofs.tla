---------------------------- MODULE TunnelProofs ----------------------------
(***************************************************************************)
(* TypeOK, OneTunnel, DeactivatedIsDown and ActivationIsTruthful hold for  *)
(* any number of clients, commands, deadlines that run out and deaths.     *)
(*                                                                         *)
(* The argument: as long as nothing crossed, an activation between its     *)
(* Stop and its Start has the service to itself (Alone), so what its Stop  *)
(* found is all there is, at most one Start is handled at a time, and what *)
(* runs is either its box or s.box (Serial).                               *)
(***************************************************************************)
EXTENDS TunnelService, FiniteSetTheorems, TLAPS

Waiting == {"stopping", "stopping again", "starting", "exiting"}
Starting(s) == handler[s].op = "start"

\* A handler of a client is the call that the client waits for.
Asked(c) ==
  Busy(c) =>
    /\ reply[c] = "none" /\ cmd[c].at \in Waiting
    /\ cmd[c].at = "starting" <=> Starting(c)
    /\ cmd[c].at = "exiting" <=> handler[c].op = "exit"

Sound(s) ==
  /\ Busy(s) => handler[s].op # "none"
  /\ handler[s].at = "store" => Starting(s)
  /\ handler[s].at = "closing" => handler[s].op \in {"stop", "exit"}

Proper(c) ==
  /\ cmd[c].at \in {"stopping", "starting"} => cmd[c].op # "exit"
  /\ cmd[c].at = "starting" \/ cmd[c].install => cmd[c].op = "activate"
  /\ cmd[c].at \in {"exit", "exiting"} => cmd[c].op # "deactivate"
  /\ cmd[c].op = "none" => cmd[c] = Idle

Serves ==
  /\ \A c \in Client : Asked(c)
  /\ \A s \in Slot : Sound(s)
  /\ \A c \in Client : Proper(c)

\* Nobody but c is served.
Alone(c) ==
  /\ \A s \in Slot : Busy(s) => s = c
  /\ \A d \in Client \ {c} : ~Replacing(d)

\* An undisturbed command has the service to itself.
Undisturbing == \A c \in Client : quiet[c] => Alone(c) /\ \A d \in Client \ {c} : cmd[d] = Idle

\* c has asked for a Stop that nothing else can make void.
Clearing(c) ==
  \/ At(c, "activate", "stopping")
  \/ quiet[c] /\ cmd[c].op = "deactivate" /\ cmd[c].at \in {"stopping", "stopping again"}

Exclusive == \A c \in Client : Replacing(c) => Alone(c)
SingleStart == \A s, t \in Slot : Starting(s) /\ Starting(t) => s = t
OnlyStarted == \A s \in Slot : Starting(s) => live \subseteq IF handler[s].at = "new" THEN {} ELSE {handler[s].box}
OnlyHeld == (\A s \in Slot : ~Starting(s)) => live \subseteq {box}
ClosesIt == \A c \in Client : Clearing(c) /\ handler[c].at = "closing" => live \subseteq {handler[c].box}
Cleared == \A c \in Client : Clearing(c) /\ reply[c] # "none" => live = {}
Stands == \A c \in Client : quiet[c] /\ handler[c].at = "store" => handler[c].box \in live
Succeeded == \A c \in Client : quiet[c] /\ At(c, "activate", "starting") /\ reply[c] = "ok" => box \in live
Refused == \A c \in Client : quiet[c] /\ At(c, "activate", "starting") /\ reply[c] = "error" => live = {}

Serial ==
  /\ Exclusive /\ SingleStart
  /\ OnlyStarted /\ OnlyHeld
  /\ ClosesIt /\ Cleared
  /\ Stands /\ Succeeded /\ Refused

IInv == TypeOK /\ Serves /\ Undisturbing /\ (~crossed => Serial)

USE TunnelAssumption DEF Free, Handler, Idle, Command, NoBox

\* The slots of handlers are the clients' own and those of orphaned calls.
LEMMA SlotKinds == (\A c \in Client : c \in Slot /\ c \notin Orphan) /\ \A s \in Orphan : s \in Slot
  BY DEF Slot, Orphan

-----------------------------------------------------------------------------
\* At first no process runs and no command is given.
LEMMA InitIInv == Init => IInv
<1> SUFFICES ASSUME Init PROVE IInv
  OBVIOUS
<1>1. 1 \in Box
  BY DEF Box
<1>2. TypeOK
  BY <1>1 DEF Init, TypeOK, Busy, Box
<1>3. Serves /\ Undisturbing /\ Serial
  BY SlotKinds DEF Init, Serves, Asked, Sound, Proper, Undisturbing, Serial, Exclusive,
     SingleStart, OnlyStarted, OnlyHeld, ClosesIt,
    Cleared, Stands, Succeeded, Refused, Busy, Starting, Replacing, Clearing, At
<1> QED
  BY <1>2, <1>3 DEF IInv

\* What a handler's step leaves as it is.
LEMMA Answers ==
  ASSUME TypeOK, NEW s \in Slot, NEW answer, Answer(s, answer)
  PROVE  /\ \A t \in Slot : handler'[t] = IF t = s THEN Free ELSE handler[t]
         /\ \A c \in Client : reply'[c] = IF c = s THEN answer ELSE reply[c]
  BY DEF TypeOK, Answer

\* TypeOK but for the typing of what a step does not touch.
LEMMA HandleType ==
  ASSUME TypeOK, Serves, NEW s \in Slot, Handle(s)
  PROVE  TypeOK'
<1> USE SlotKinds
<1>0. up
  <2>1. handler[s].op # "none" \/ handler[s].at = "closing"
    BY DEF Handle, StartsBox, StartFails, StoresBox, NothingToClose, Closes, Closed, Handling
  <2>2. Busy(s)
    BY <2>1 DEF Busy
  <2> QED
    BY <2>2 DEF TypeOK
<1>1. ASSUME NEW answer \in {"ok", "error"}, Answer(s, answer), Busy(s), box' \in Box \cup {NoBox}, live' \subseteq Box,
             exiting' \in BOOLEAN, UNCHANGED <<up, launching, cmd, given, deaths, crossed, quiet>>
      PROVE  TypeOK'
  BY <1>0, <1>1, Answers DEF TypeOK, Answer, Busy
<1>2. ASSUME NEW at \in {"store", "closing"}, NEW b \in Box \cup {NoBox}, handler' = [handler EXCEPT ![s] = Handler(handler[s].op, at, b)],
             Busy(s), live' \subseteq Box, UNCHANGED <<process, box, cmd, reply, given, deaths, crossed, quiet>>
      PROVE  TypeOK'
  BY <1>0, <1>2 DEF TypeOK, Busy, process
<1>3. handler[s].op # "none" => Busy(s)
  BY DEF Busy
<1>4. handler[s].box \in Box \cup {NoBox}
  BY DEF TypeOK
<1>a. CASE StartsBox(s)
  BY <1>a, <1>2, <1>3 DEF StartsBox, Handling, TypeOK
<1>b. CASE StartFails(s)
  BY <1>b, <1>1, <1>3 DEF StartFails, Handling, process, TypeOK
<1>c. CASE StoresBox(s)
  BY <1>c, <1>1, <1>3, <1>4 DEF StoresBox, Handling, process, TypeOK
<1>d. CASE NothingToClose(s)
  BY <1>d, <1>1, <1>3 DEF NothingToClose, Handling, TypeOK
<1>e. CASE Closes(s)
  BY <1>e, <1>2, <1>3 DEF Closes, Handling, TypeOK
<1>f. CASE Closed(s)
  BY <1>f, <1>1, <1>3 DEF Closed, TypeOK, Serves, Asked, Sound, Proper
<1> QED
  BY <1>a, <1>b, <1>c, <1>d, <1>e, <1>f DEF Handle

\* A handler's step keeps the client's side and what is undisturbed.
LEMMA HandleServes ==
  ASSUME TypeOK, Serves, Undisturbing, NEW s \in Slot, Handle(s)
  PROVE  Serves' /\ Undisturbing'
<1> USE SlotKinds
<1>1. ASSUME NEW answer, Answer(s, answer), UNCHANGED <<cmd, quiet>>
      PROVE  Serves' /\ Undisturbing'
  BY <1>1, Answers DEF Serves, Asked, Sound, Proper, Undisturbing, Alone, Busy, Starting, Replacing
<1>2. ASSUME NEW at \in {"store", "closing"}, NEW b, handler' = [handler EXCEPT ![s] = Handler(handler[s].op, at, b)],
             handler[s].op \in IF at = "store" THEN {"start"} ELSE {"stop", "exit"}, UNCHANGED <<cmd, reply, quiet>>
      PROVE  Serves' /\ Undisturbing'
  <2>1. \A t \in Slot : handler'[t] = IF t = s THEN Handler(handler[s].op, at, b) ELSE handler[t]
    BY <1>2 DEF TypeOK
  <2>2. Busy(s)
    BY <1>2 DEF Busy
  <2>3. Serves'
    BY <1>2, <2>1, <2>2 DEF Serves, Asked, Sound, Proper, Busy, Starting
  <2>4. Undisturbing'
    BY <1>2, <2>1, <2>2 DEF Undisturbing, Alone, Busy, Replacing
  <2> QED
    BY <2>3, <2>4
<1>a. CASE StartsBox(s)
  BY <1>a, <1>2 DEF StartsBox, Handling
<1>b. CASE StartFails(s)
  BY <1>b, <1>1 DEF StartFails
<1>c. CASE StoresBox(s)
  BY <1>c, <1>1 DEF StoresBox
<1>d. CASE NothingToClose(s)
  BY <1>d, <1>1 DEF NothingToClose
<1>e. CASE Closes(s)
  BY <1>e, <1>2 DEF Closes, Handling
<1>f. CASE Closed(s)
  BY <1>f, <1>1 DEF Closed
<1> QED
  BY <1>a, <1>b, <1>c, <1>d, <1>e, <1>f DEF Handle

\* A command that Stop or Start serves is alone.
LEMMA ClearingAlone ==
  ASSUME Undisturbing, Serial, NEW c \in Client, Clearing(c) \/ quiet[c]
  PROVE  Alone(c)
  BY DEF Undisturbing, Serial, Exclusive, Clearing, At, Replacing

\* What a handler does keeps the order of an activation's Stop and Start.
LEMMA HandleSerial ==
  ASSUME IInv, ~crossed, NEW s \in Slot, Handle(s)
  PROVE  Serial'
<1> USE SlotKinds
<1>0. TypeOK /\ Serves /\ Undisturbing /\ Serial
  BY DEF IInv
<1>1. Busy(s) /\ (handler[s].op # "none" => Busy(s))
  <2>1. handler[s].op # "none" \/ handler[s].at = "closing"
    BY DEF Handle, StartsBox, StartFails, StoresBox, NothingToClose, Closes, Closed, Handling
  <2> QED
    BY <2>1 DEF Busy
<1>2. \A c \in Client : Clearing(c) \/ quiet[c] \/ Replacing(c) => Alone(c)
  BY <1>0, ClearingAlone DEF Serial, Exclusive
<1>a. CASE StartsBox(s)
  <2>1. PICK b \in Box : live' = live \cup {b} /\ handler' = [handler EXCEPT ![s] = Handler("start", "store", b)]
    BY <1>a DEF StartsBox
  <2>2. \A t \in Slot : handler'[t] = IF t = s THEN Handler("start", "store", b) ELSE handler[t]
    BY <1>0, <2>1 DEF TypeOK
  <2>3. live = {} /\ Starting(s) /\ UNCHANGED <<box, cmd, reply, quiet>>
    BY <1>0, <1>a DEF StartsBox, Handling, Starting, Serial, OnlyStarted
  <2>5. \A c \in Client : ~Clearing(c)
    <3> SUFFICES ASSUME NEW c \in Client, Clearing(c) PROVE FALSE
      OBVIOUS
    <3>1. s = c
      BY <1>1, <1>2 DEF Alone
    <3> QED
      BY <1>0, <1>1, <2>3, <3>1 DEF Serves, Asked, Sound, Proper, Clearing, At, Starting
  <2>6. \A c \in Client : Replacing(c) => Alone(c)'
    BY <1>0, <1>1, <2>2, <2>3 DEF Serial, Exclusive, Alone, Busy, Replacing
  <2>7. \A c \in Client : quiet[c] => c = s
    BY <1>1, <1>2 DEF Alone
  <2>8. \A c \in Client : c = s => reply[c] = "none"
    BY <1>0, <1>1 DEF Serves, Asked, Sound, Proper
  <2>9. Exclusive' /\ SingleStart' /\ OnlyStarted' /\ OnlyHeld'
    <3>1. \A t \in Slot : Starting(t)' <=> Starting(t)
      BY <2>2, <2>3 DEF Starting
    <3> QED
      BY <1>0, <2>1, <2>2, <2>3, <2>6, <3>1 DEF Exclusive, SingleStart, OnlyStarted, OnlyHeld,
         Serial, Replacing
  <2>10. \A c \in Client : ~Clearing(c)'
    BY <2>3, <2>5 DEF Clearing, At
  <2>11. ClosesIt' /\ Cleared'
    BY <2>10 DEF ClosesIt, Cleared
  <2>12. Stands'
    BY <2>1, <2>2, <2>3, <2>7 DEF Stands
  <2>13. Succeeded' /\ Refused'
    BY <2>3, <2>7, <2>8 DEF Succeeded, Refused, At
  <2> QED
    BY <2>9, <2>11, <2>12, <2>13 DEF Serial
<1>3. ASSUME NEW answer, Answer(s, answer), UNCHANGED <<cmd, quiet>>
      PROVE  /\ Exclusive' /\ SingleStart'
             /\ \A t \in Slot : Starting(t)' => t # s /\ Starting(t)
             /\ \A c \in Client : Clearing(c)' <=> Clearing(c)
             /\ \A t \in Slot : handler'[t] = IF t = s THEN Free ELSE handler[t]
             /\ \A c \in Client : reply'[c] = IF c = s THEN answer ELSE reply[c]
  <2>1. \A t \in Slot : handler'[t] = IF t = s THEN Free ELSE handler[t]
    BY <1>0, <1>3, Answers
  <2>2. \A c \in Client : reply'[c] = IF c = s THEN answer ELSE reply[c]
    BY <1>0, <1>3, Answers
  <2>3. \A c \in Client : (Clearing(c)' <=> Clearing(c)) /\ (Replacing(c)' <=> Replacing(c))
    BY <1>3 DEF Clearing, Replacing, At
  <2>4. Exclusive'
    BY <1>0, <2>1, <2>3 DEF Serial, Exclusive, Alone, Busy
  <2>5. \A t \in Slot : Starting(t)' => t # s /\ Starting(t)
    BY <2>1 DEF Starting
  <2>6. SingleStart'
    BY <1>0, <2>5 DEF Serial, SingleStart
  <2> QED
    BY <2>1, <2>2, <2>3, <2>4, <2>5, <2>6
<1>4. \A c \in Client : Clearing(c) \/ quiet[c] => c = s
  BY <1>1, <1>2 DEF Alone
<1>5. \A c \in Client : Clearing(c) => ~Starting(c)
  BY <1>0, <1>1, <1>4 DEF Serves, Asked, Sound, Proper, Clearing, At, Starting
<1>6. ASSUME \E c \in Client : Clearing(c) \/ quiet[c] PROVE \A t \in Slot : Busy(t) => t = s
  BY <1>1, <1>2, <1>6 DEF Alone
<1>7. \A t \in Slot : Starting(t) => Busy(t)
  BY DEF Starting, Busy
<1>b. CASE StartFails(s)
  <2>1. live = {} /\ live' = live /\ box' = box /\ Answer(s, "error") /\ UNCHANGED <<cmd, quiet>>
    BY <1>0, <1>b DEF StartFails, Handling, Starting, Serial, OnlyStarted
  <2>2. OnlyStarted' /\ OnlyHeld' /\ ClosesIt' /\ Cleared' /\ Refused'
    BY <2>1 DEF OnlyStarted, OnlyHeld, ClosesIt, Cleared, Refused
  <2>3. Stands' /\ Succeeded'
    BY <1>0, <1>3, <1>4, <2>1 DEF Stands, Succeeded, At
  <2> QED
    BY <1>3, <2>1, <2>2, <2>3 DEF Serial
<1>c. CASE StoresBox(s)
  <2>1. box' = handler[s].box /\ live' = live /\ Answer(s, "ok") /\ UNCHANGED <<cmd, quiet>>
    BY <1>c DEF StoresBox
  <2>2. Starting(s) /\ handler[s].at = "store" /\ live \subseteq {handler[s].box}
    BY <1>0, <1>c DEF StoresBox, Handling, Starting, Serial, OnlyStarted
  <2>3. \A c \in Client : ~Clearing(c)
    BY <1>4, <1>5, <2>2
  <2>4. OnlyStarted' /\ OnlyHeld'
    BY <1>0, <1>3, <2>1, <2>2 DEF OnlyStarted, OnlyHeld, Serial, SingleStart
  <2>5. ClosesIt' /\ Cleared'
    BY <1>3, <2>1, <2>3 DEF ClosesIt, Cleared
  <2>6. Stands' /\ Succeeded' /\ Refused'
    BY <1>0, <1>3, <1>4, <2>1, <2>2 DEF Stands, Succeeded, Refused, At, Serial
  <2> QED
    BY <1>3, <2>1, <2>4, <2>5, <2>6 DEF Serial
<1>d. CASE NothingToClose(s)
  <2>1. ASSUME NEW c \in Client, Clearing(c) PROVE live = {}
    <3>1. s = c /\ \A t \in Slot : Busy(t) => t = s
      BY <1>4, <1>6, <2>1
    <3>2. \A t \in Slot : ~Starting(t) /\ handler[t].at # "closing"
      BY <1>0, <1>1, <1>5, <1>7, <1>d, <2>1, <3>1 DEF NothingToClose, Handling, Serves, Asked,
         Sound, Proper, Busy
    <3>3. Closing = {} /\ live \subseteq {box}
      BY <1>0, <3>2 DEF Closing, Serial, OnlyHeld
    <3> QED
      BY <1>d, <3>3 DEF NothingToClose
  <2>2. PICK answer : Answer(s, answer) /\ UNCHANGED <<live, box, cmd, quiet>>
    BY <1>d DEF NothingToClose
  <2>3. ~Starting(s)
    BY <1>d DEF NothingToClose, Handling, Starting
  <2>4. \A t \in Slot : Starting(t)' <=> Starting(t)
    BY <1>3, <2>2, <2>3 DEF Starting
  <2>5. OnlyStarted' /\ OnlyHeld'
    BY <1>0, <1>3, <2>2, <2>3, <2>4 DEF OnlyStarted, OnlyHeld, Serial
  <2>6. ClosesIt' /\ Cleared'
    BY <1>3, <2>1, <2>2 DEF ClosesIt, Cleared
  <2>7. \A c \in Client : quiet[c] => c = s /\ ~At(c, "activate", "starting")
    BY <1>0, <1>1, <1>4, <2>3 DEF Serves, Asked, Sound, Proper, At
  <2>8. Stands' /\ Succeeded' /\ Refused'
    BY <1>3, <2>2, <2>7 DEF Stands, Succeeded, Refused, At
  <2> QED
    BY <1>3, <2>2, <2>5, <2>6, <2>8 DEF Serial
<1>e. CASE Closes(s)
  <2>1. \A t \in Slot : handler'[t] = IF t = s THEN Handler(handler[s].op, "closing", box) ELSE handler[t]
    BY <1>0, <1>e DEF TypeOK, Closes
  <2>2. handler[s].op \in {"stop", "exit"} /\ UNCHANGED <<live, box, cmd, reply, quiet>>
    BY <1>e DEF Closes, Handling
  <2>3. ASSUME NEW c \in Client, Clearing(c) PROVE live \subseteq {box} /\ s = c
    <3>1. s = c /\ \A t \in Slot : Busy(t) => t = s
      BY <1>4, <1>6, <2>3
    <3> QED
      BY <1>0, <1>7, <2>2, <3>1 DEF Serial, OnlyHeld, Starting
  <2>4. \A c \in Client : (Replacing(c) => Alone(c))'
    BY <1>0, <1>1, <2>1, <2>2 DEF Serial, Exclusive, Alone, Busy, Replacing
  <2>5. \A t \in Slot : Starting(t)' <=> Starting(t)
    BY <2>1 DEF Starting
  <2>6. ~Starting(s)
    BY <2>2 DEF Starting
  <2>7. Exclusive' /\ SingleStart' /\ OnlyStarted' /\ OnlyHeld'
    BY <1>0, <2>1, <2>2, <2>4, <2>5, <2>6 DEF Exclusive, SingleStart, OnlyStarted, OnlyHeld, Serial
  <2>8. \A c \in Client : Clearing(c)' <=> Clearing(c)
    BY <2>2 DEF Clearing, At
  <2>9. ClosesIt' /\ Cleared'
    BY <1>0, <2>1, <2>2, <2>3, <2>8 DEF ClosesIt, Cleared, Serial
  <2>10. Stands' /\ Succeeded' /\ Refused'
    BY <1>0, <2>1, <2>2 DEF Stands, Succeeded, Refused, At, Serial
  <2> QED
    BY <2>7, <2>9, <2>10 DEF Serial
<1>f. CASE Closed(s)
  <2>1. PICK answer : Answer(s, answer) /\ UNCHANGED <<box, cmd, quiet>>
    BY <1>f DEF Closed
  <2>2. live' = live \ {handler[s].box} /\ handler[s].at = "closing" /\ ~Starting(s)
    BY <1>0, <1>f DEF Closed, Serves, Asked, Sound, Proper, Starting
  <2>3. \A t \in Slot : Starting(t)' <=> Starting(t)
    BY <1>3, <2>1, <2>2 DEF Starting
  <2>4. OnlyStarted' /\ OnlyHeld'
    BY <1>0, <1>3, <2>1, <2>2, <2>3 DEF OnlyStarted, OnlyHeld, Serial
  <2>5. \A c \in Client : Clearing(c) => live' = {}
    BY <1>0, <1>4, <2>2 DEF Serial, ClosesIt
  <2>6. ClosesIt' /\ Cleared'
    BY <1>3, <2>1, <2>5 DEF ClosesIt, Cleared
  <2>7. \A c \in Client : quiet[c] => c = s /\ ~At(c, "activate", "starting")
    BY <1>0, <1>1, <1>4, <2>2 DEF Serves, Asked, Sound, Proper, At
  <2>8. Stands' /\ Succeeded' /\ Refused'
    BY <1>3, <2>1, <2>7 DEF Stands, Succeeded, Refused, At
  <2> QED
    BY <1>3, <2>1, <2>4, <2>6, <2>8 DEF Serial
<1> QED
  BY <1>a, <1>b, <1>c, <1>d, <1>e, <1>f DEF Handle

-----------------------------------------------------------------------------
(* The process.                                                            *)

\* All handlers and boxes go; a client that waits has an error.
LEMMA EndsIInv ==
  ASSUME IInv, Ends, UNCHANGED <<launching, cmd, given, crossed>>, quiet' \in [Client -> BOOLEAN],
         deaths' \in Nat, \A c \in Client : quiet'[c] => quiet[c] /\ cmd[c].at \in {"idle", "run", "port"}
  PROVE  IInv'
<1> USE SlotKinds DEF IInv
<1>1. /\ \A s \in Slot : handler'[s] = Free
      /\ \A c \in Client : reply'[c] = IF Busy(c) THEN "error" ELSE reply[c]
  BY DEF Ends
<1>2. TypeOK'
  BY <1>1 DEF Ends, TypeOK, Busy, process
<1>3. Serves'
  BY <1>1 DEF Serves, Asked, Sound, Proper, Busy, Starting
<1>4. \A c \in Client : Alone(c) => Alone(c)'
  BY <1>1 DEF Alone, Busy, Replacing
<1>5. Undisturbing'
  BY <1>4 DEF Undisturbing
<1>6. ASSUME ~crossed PROVE Serial'
  <2>1. live' = {} /\ \A s \in Slot : ~Starting(s)' /\ handler'[s].at = "new"
    BY <1>1 DEF Ends, Starting
  <2>2. Exclusive'
    BY <1>4, <1>6 DEF Serial, Exclusive, Replacing
  <2>3. SingleStart' /\ OnlyStarted' /\ OnlyHeld' /\ ClosesIt' /\ Cleared' /\ Refused'
    BY <2>1 DEF SingleStart, OnlyStarted, OnlyHeld, ClosesIt, Cleared, Refused
  <2>4. Stands' /\ Succeeded'
    BY <2>1 DEF Stands, Succeeded, At
  <2> QED
    BY <2>2, <2>3, <2>4 DEF Serial
<1> QED
  BY <1>2, <1>3, <1>5, <1>6

\* The process ends, dies, is launched or listens.
LEMMA ProcessIInv == IInv /\ (Exits \/ Dies \/ Relaunches \/ Listens \/ UNCHANGED vars) => IInv'
<1> SUFFICES ASSUME IInv, Exits \/ Dies \/ Relaunches \/ Listens \/ UNCHANGED vars PROVE IInv'
  OBVIOUS
<1>0. TypeOK
  BY DEF IInv
<1>1. CASE Exits
  <2>1. quiet' \in [Client -> BOOLEAN] /\ \A c \in Client : quiet'[c] => quiet[c] /\ cmd[c].at \in {"idle", "run", "port"}
    BY <1>0, <1>1 DEF Exits, TypeOK
  <2> QED
    BY <1>0, <1>1, <2>1, EndsIInv DEF Exits, TypeOK
<1>2. CASE Dies
  <2>1. quiet' \in [Client -> BOOLEAN] /\ \A c \in Client : ~quiet'[c]
    BY <1>2 DEF Dies
  <2>2. deaths' \in Nat
    <3>1. deaths \in Nat
      BY <1>0 DEF TypeOK
    <3> QED
      BY <1>2, <3>1 DEF Dies
  <2> QED
    BY <1>2, <2>1, <2>2, EndsIInv DEF Dies
<1>3. CASE Relaunches \/ Listens \/ UNCHANGED vars
  <2>1. UNCHANGED <<exiting, box, live, handler, cmd, reply, given, deaths, crossed, quiet>> /\ up' \in BOOLEAN
        /\ (up => up') /\ launching' \in BOOLEAN
    BY <1>0, <1>3 DEF Relaunches, Listens, vars, process, TypeOK
  <2>2. TypeOK'
    BY <1>0, <2>1 DEF TypeOK, Busy
  <2>3. Serves' /\ Undisturbing'
    BY <2>1 DEF IInv, Serves, Asked, Sound, Proper, Undisturbing, Alone, Busy, Starting, Replacing
  <2>4. Serial <=> Serial'
    BY <2>1 DEF Serial, Exclusive, SingleStart, OnlyStarted, OnlyHeld, ClosesIt, Cleared, Stands,
       Succeeded,
      Refused, Alone, Busy, Starting, Replacing, Clearing, At
  <2> QED
    BY <2>1, <2>2, <2>3, <2>4 DEF IInv
<1> QED
  BY <1>1, <1>2, <1>3

-----------------------------------------------------------------------------
(* The commands.                                                           *)

\* A client that is not waiting any more, or not yet, has no handler.
Resting == {"idle", "port", "stop", "exit", "run"}

\* A step of c that gives its command another place to rest in.
LEMMA Rests ==
  ASSUME IInv, NEW c \in Client, ~Busy(c), NEW command, cmd' = [cmd EXCEPT ![c] = command],
         command \in [op : {"none", "activate", "deactivate", "exit"}, install : BOOLEAN, at : Resting],
         command.op = "none" => command = Idle, command.install => command.op = "activate",
         command.op = "deactivate" => command.at # "exit",
         NEW answer \in {"none", "ok", "false", "error", "late"}, reply' = [reply EXCEPT ![c] = answer],
         quiet' \in [Client -> BOOLEAN],
         \A d \in Client : quiet'[d] => quiet[d] \/ (d = c /\ (\A x \in Client : cmd[x] = Idle) /\ \A s \in Slot : ~Busy(s)),
         \A d \in Client : quiet'[d] => d = c \/ command = Idle,
         launching' \in BOOLEAN, given' \in Nat,
         UNCHANGED <<up, exiting, box, live, handler, deaths, crossed>>
  PROVE  IInv'
<1> USE SlotKinds DEF IInv
<1>1. /\ \A d \in Client : cmd'[d] = IF d = c THEN command ELSE cmd[d]
      /\ \A d \in Client : reply'[d] = IF d = c THEN answer ELSE reply[d]
      /\ \A s \in Slot : (Busy(s)' <=> Busy(s)) /\ (Starting(s)' <=> Starting(s))
  BY DEF TypeOK, Busy, Starting
<1>2. TypeOK'
  <2>1. cmd' \in [Client -> [op : {"none", "activate", "deactivate", "exit"}, install : BOOLEAN,
          at : {"idle", "port", "stop", "stopping", "stopping again", "starting", "exit", "exiting", "run"}]]
    BY DEF TypeOK, Resting
  <2>2. reply' \in [Client -> {"none", "ok", "false", "error", "late"}]
    BY DEF TypeOK
  <2>3. \A d \in Client :
          cmd'[d].at \in {"stopping", "starting", "exiting", "stopping again"} /\ reply'[d] = "none" => Busy(d)'
    <3>1. ASSUME NEW d \in Client, d # c,
                 cmd'[d].at \in {"stopping", "starting", "exiting", "stopping again"}, reply'[d] = "none"
          PROVE  Busy(d)'
      <4>1. cmd[d].at \in {"stopping", "starting", "exiting", "stopping again"} /\ reply[d] = "none"
        BY <1>1, <3>1
      <4>2. Busy(d)
        BY <4>1 DEF TypeOK
      <4> QED
        BY <1>1, <4>2
    <3>2. cmd'[c].at \notin {"stopping", "starting", "exiting", "stopping again"}
      BY <1>1 DEF Resting
    <3> QED
      BY <3>1, <3>2
  <2> QED
    BY <1>1, <2>1, <2>2, <2>3 DEF TypeOK
<1>r. \A d \in Client : d # c => cmd'[d] = cmd[d] /\ reply'[d] = reply[d]
  BY <1>1
<1>c. cmd'[c] = command /\ command.at \notin Waiting
  BY <1>1 DEF Resting, Waiting
<1>3. Serves'
  <2>1. \A d \in Client : Busy(d) => d # c
    OBVIOUS
  <2>2. \A d \in Client : Asked(d)'
    BY <1>1, <1>r, <2>1 DEF Serves, Asked
  <2>3. \A s \in Slot : Sound(s)'
    BY <1>1 DEF Serves, Sound
  <2>4. \A d \in Client : Proper(d)'
    <3>1. \A d \in Client : d # c => Proper(d)'
      BY <1>r DEF Serves, Proper
    <3>2. Proper(c)'
      BY <1>c DEF Proper, Waiting
    <3> QED
      BY <3>1, <3>2
  <2> QED
    BY <2>2, <2>3, <2>4 DEF Serves
<1>4. \A d \in Client : Alone(d) => Alone(d)'
  BY <1>1 DEF Alone, Replacing, Resting
<1>5. Undisturbing'
  <2> SUFFICES ASSUME NEW d \in Client, quiet'[d] PROVE Alone(d)' /\ \A x \in Client \ {d} : cmd'[x] = Idle
    BY DEF Undisturbing
  <2>1. Alone(d) /\ \A x \in Client \ {d} : cmd[x] = Idle
    BY DEF Undisturbing, Alone, Replacing
  <2> QED
    BY <1>1, <1>4, <2>1
<1>6. ASSUME ~crossed PROVE Serial'
  <2>1. \A d \in Client : quiet'[d] /\ d # c => quiet[d]
    OBVIOUS
  <2>2. \A d \in Client : Clearing(d)' => d # c /\ Clearing(d)
    BY <1>r, <1>c, <2>1 DEF Clearing, At, Waiting
  <2>3. Exclusive'
    BY <1>1, <1>4, <1>6 DEF Serial, Exclusive, Replacing, Resting
  <2>4. SingleStart' /\ OnlyStarted' /\ OnlyHeld'
    BY <1>1, <1>6 DEF Serial, SingleStart, OnlyStarted, OnlyHeld
  <2>5. ClosesIt' /\ Cleared'
    BY <1>1, <1>6, <2>2 DEF Serial, ClosesIt, Cleared
  <2>6. Stands'
    <3>1. handler[c].at # "store"
      BY DEF Busy
    <3> QED
      BY <1>6, <2>1, <3>1 DEF Serial, Stands
  <2>7. Succeeded' /\ Refused'
    BY <1>1, <1>6, <2>1 DEF Serial, Succeeded, Refused, At, Resting
  <2> QED
    BY <2>3, <2>4, <2>5, <2>6, <2>7 DEF Serial
<1> QED
  BY <1>2, <1>3, <1>5, <1>6

\* A step of c that calls the service.  If anything else is on, it crosses.
LEMMA CallsIInv ==
  ASSUME IInv, NEW c \in Client, ~Busy(c), NEW op \in {"start", "stop", "exit"}, NEW at \in Waiting, Calls(c, op, at),
         at = "starting" <=> op = "start", at = "exiting" <=> op = "exit",
         at \in {"stopping", "starting"} => cmd[c].op # "exit",
         at \in {"stopping", "starting"} /\ cmd[c].op = "activate" => At(c, "activate", "port") \/ Replacing(c),
         at = "starting" => At(c, "activate", "stopping") /\ reply[c] # "none",
         at = "exiting" => cmd[c].op # "deactivate", cmd[c].op # "none"
  PROVE  IInv'
<1> USE SlotKinds DEF IInv
<1>1. /\ \A d \in Client : d # c => cmd'[d] = cmd[d] /\ reply'[d] = reply[d]
      /\ cmd'[c].at = at /\ cmd'[c].op = cmd[c].op /\ cmd'[c].install = cmd[c].install
      /\ reply'[c] = IF up THEN "none" ELSE "error"
      /\ \A s \in Slot : handler'[s] = IF up /\ s = c THEN Handler(op, "new", NoBox) ELSE handler[s]
      /\ UNCHANGED <<up, box, live, quiet>>
  BY DEF TypeOK, Calls, MovesTo, UnchangedService, process
<1>2. TypeOK'
  <2>1. cmd' \in [Client -> [op : {"none", "activate", "deactivate", "exit"}, install : BOOLEAN,
          at : {"idle", "port", "stop", "stopping", "stopping again", "starting", "exit", "exiting", "run"}]]
    BY DEF TypeOK, Waiting, Calls, MovesTo
  <2>2. reply' \in [Client -> {"none", "ok", "false", "error", "late"}]
    BY DEF TypeOK, Calls
  <2>3. handler' \in [Slot -> [op : {"none", "start", "stop", "exit"}, at : {"new", "store", "closing"}, box : Box \cup {NoBox}]]
    BY DEF TypeOK, Calls
  <2>4. \A d \in Client : cmd'[d].at \in {"stopping", "starting", "exiting", "stopping again"} /\ reply'[d] = "none" => Busy(d)'
    <3>1. \A d \in Client : d # c => handler'[d] = handler[d]
      BY <1>1
    <3>2. reply'[c] = "none" => Busy(c)'
      BY <1>1 DEF Busy
    <3>3. \A d \in Client : d # c /\ cmd'[d].at \in {"stopping", "starting", "exiting", "stopping again"} /\ reply'[d] = "none" => Busy(d)'
      <4>1. \A d \in Client : d # c => cmd'[d] = cmd[d] /\ reply'[d] = reply[d] /\ (Busy(d)' <=> Busy(d))
        BY <1>1, <3>1 DEF Busy
      <4> QED
        BY <4>1 DEF TypeOK
    <3> QED
      BY <3>2, <3>3
  <2>5. ~up => \A s \in Slot : ~Busy(s)'
    BY <1>1 DEF TypeOK, Busy
  <2>6. crossed' \in BOOLEAN
    BY DEF TypeOK, Calls, Crosses, At, Replacing
  <2>7. UNCHANGED <<up, launching, exiting, box, live, given, deaths, quiet>>
    BY DEF Calls, UnchangedService, process
  <2>8. ~up => box = NoBox /\ live = {} /\ ~exiting
    BY DEF TypeOK
  <2> QED
    BY <2>1, <2>2, <2>3, <2>4, <2>5, <2>6, <2>7, <2>8 DEF TypeOK
<1>3. Serves'
  <2>1. \A d \in Client : Asked(d)'
    BY <1>1 DEF Serves, Asked, Busy, Starting
  <2>2. \A s \in Slot : Sound(s)'
    BY <1>1 DEF Serves, Sound, Busy, Starting
  <2>3. \A d \in Client : d # c => Proper(d)'
    BY <1>1 DEF Serves, Proper
  <2>4. Proper(c)'
    <3>1. cmd[c].install => cmd[c].op = "activate"
      BY DEF Serves, Proper
    <3>2. at = "starting" => cmd[c].op = "activate"
      BY DEF At
    <3> QED
      BY <1>1, <3>1, <3>2 DEF Proper, Waiting
  <2> QED
    BY <2>1, <2>2, <2>3, <2>4 DEF Serves
<1>4. \A d \in Client : quiet[d] => d = c \/ cmd[c] = Idle
  BY DEF Undisturbing
<1>5. \A d \in Client : quiet[d] => d = c
  BY <1>4
<1>6. Alone(c) => Alone(c)'
  BY <1>1 DEF Alone, Busy, Replacing
<1>7. Undisturbing'
  BY <1>1, <1>5, <1>6 DEF Undisturbing
<1>8. ASSUME ~crossed' PROVE Serial'
  <2>1. Serial /\ ~crossed /\ \A d \in Client \ {c} : ~Replacing(d)
    BY <1>8 DEF Calls, Crosses
  <2>2. Clearing(c)' => Alone(c)
    BY <1>1, <1>8, <2>1 DEF Clearing, At, Calls, Crosses, Undisturbing, Alone, Replacing, Serial,
       Exclusive
  <2>3. Replacing(c)' => Alone(c)
    BY <1>1, <1>8, <2>1 DEF At, Calls, Crosses, Alone, Replacing, Serial, Exclusive
  <2>4. \A d \in Client \ {c} : ~Clearing(d)' /\ ~Replacing(d)' /\ ~quiet[d]
    BY <1>1, <1>5, <2>1 DEF Clearing, At, Replacing
  <2>5. Alone(c) => \A s \in Slot : ~Busy(s) /\ ~Starting(s)
    BY DEF Alone, Busy, Starting
  <2>6. Exclusive'
    BY <1>6, <2>3, <2>4 DEF Exclusive
  <2>7. op = "start" => Alone(c) /\ live = {}
    BY <2>1 DEF Serial, Exclusive, Cleared, Clearing, At, Replacing
  <2>8. op # "start" => \A s \in Slot : (Starting(s)' <=> Starting(s)) /\ (Starting(s) => handler'[s] = handler[s])
    BY <1>1 DEF Starting, Busy
  <2>9. SingleStart' /\ OnlyStarted' /\ OnlyHeld'
    <3>1. CASE op = "start"
      <4>1. \A s \in Slot : Starting(s)' => s = c
        BY <1>1, <2>5, <2>7, <3>1 DEF Starting
      <4> QED
        BY <1>1, <2>7, <3>1, <4>1 DEF SingleStart, OnlyStarted, OnlyHeld
    <3>2. CASE op # "start"
      BY <1>1, <2>1, <2>8, <3>2 DEF Serial, SingleStart, OnlyStarted, OnlyHeld
    <3> QED
      BY <3>1, <3>2
  <2>10. handler'[c].at = "new"
    BY <1>1 DEF Busy
  <2>11. reply'[c] # "none" => live = {} /\ reply'[c] = "error"
    BY <1>1 DEF TypeOK
  <2>12. ClosesIt' /\ Cleared'
    BY <1>1, <2>4, <2>10, <2>11 DEF ClosesIt, Cleared
  <2>13. Stands' /\ Succeeded' /\ Refused'
    BY <1>1, <2>4, <2>10, <2>11 DEF Stands, Succeeded, Refused
  <2> QED
    BY <2>6, <2>9, <2>12, <2>13 DEF Serial
<1> QED
  BY <1>2, <1>3, <1>7, <1>8

\* What is given up is still handled, but by then it is nobody's.
LEMMA GivesUpIInv ==
  ASSUME IInv, NEW c \in Client, GivesUp(c)
  PROVE  IInv'
<1> USE SlotKinds DEF IInv
<1>1. PICK o \in Orphan : ~Busy(o) /\ handler' = [handler EXCEPT ![o] = handler[c], ![c] = Free]
  BY DEF GivesUp
<1>2. /\ \A s \in Slot : handler'[s] = IF s = c THEN Free ELSE IF s = o THEN handler[c] ELSE handler[s]
      /\ handler' \in [Slot -> [op : {"none", "start", "stop", "exit"}, at : {"new", "store", "closing"}, box : Box \cup {NoBox}]]
  BY <1>1 DEF TypeOK
<1>3. PICK command \in [op : {"none", "activate", "deactivate", "exit"}, install : BOOLEAN, at : Resting \cup {"exiting"}],
           answer \in {"error", "late"} :
        /\ cmd' = [cmd EXCEPT ![c] = command] /\ reply' = [reply EXCEPT ![c] = answer]
        /\ quiet' = [quiet EXCEPT ![c] = FALSE]
        /\ command.op = "none" => command = Idle
        /\ command.install => command.op = "activate"
        /\ command.op = "deactivate" => command.at \notin {"exit", "exiting"}
        /\ UnchangedService /\ UNCHANGED crossed
  <2>1. CASE cmd[c].install \/ cmd[c].at = "exiting"
    <3> DEFINE at == IF cmd[c].at = "exiting" THEN "exiting" ELSE "exit"
               command == Command(cmd[c].op, at, cmd[c].install)
    <3>1. command \in [op : {"none", "activate", "deactivate", "exit"}, install : BOOLEAN, at : Resting \cup {"exiting"}]
      BY DEF TypeOK, Resting
    <3>2. cmd' = [cmd EXCEPT ![c] = command] /\ reply' = [reply EXCEPT ![c] = "error"]
      BY <2>1 DEF GivesUp, MovesTo
    <3>3. cmd[c].op # "none"
      <4>1. cmd[c].at \in Waiting /\ Proper(c)
        BY DEF GivesUp, Serves, Asked
      <4>2. cmd[c].op = "none" => cmd[c].at = "idle"
        BY <4>1 DEF Proper
      <4> QED
        BY <4>1, <4>2 DEF Waiting
    <3>4. cmd[c].op # "deactivate" /\ (cmd[c].install => cmd[c].op = "activate")
      BY <2>1 DEF Serves, Proper
    <3> QED
      BY <2>1, <3>1, <3>2, <3>3, <3>4 DEF GivesUp
  <2>2. CASE ~(cmd[c].install \/ cmd[c].at = "exiting")
    BY <2>2 DEF GivesUp, Returns, Resting
  <2> QED
    BY <2>1, <2>2
<1>4. /\ \A d \in Client : d # c => cmd'[d] = cmd[d] /\ reply'[d] = reply[d] /\ quiet'[d] = quiet[d] /\ handler'[d] = handler[d]
      /\ cmd'[c] = command /\ reply'[c] = answer /\ ~quiet'[c] /\ handler'[c] = Free
      /\ UNCHANGED <<up, launching, exiting, box, live, given, deaths, crossed>>
  <2>1. \A d \in Client : d # c => d # o /\ handler'[d] = handler[d]
    BY <1>2
  <2>2. UNCHANGED <<up, launching, exiting, box, live, given, deaths, crossed>>
    BY <1>3 DEF UnchangedService, process
  <2>3. \A d \in Client : /\ cmd'[d] = IF d = c THEN command ELSE cmd[d]
                          /\ reply'[d] = IF d = c THEN answer ELSE reply[d]
                          /\ quiet'[d] = IF d = c THEN FALSE ELSE quiet[d]
    BY <1>3 DEF TypeOK
  <2> QED
    BY <1>2, <2>1, <2>2, <2>3
<1>5. Busy(c) /\ ~Busy(o) /\ up
  BY <1>1 DEF GivesUp, TypeOK
<1>6. TypeOK'
  <2>1. cmd' \in [Client -> [op : {"none", "activate", "deactivate", "exit"}, install : BOOLEAN,
          at : {"idle", "port", "stop", "stopping", "stopping again", "starting", "exit", "exiting", "run"}]]
    BY <1>3 DEF TypeOK, Resting
  <2>2. reply' \in [Client -> {"none", "ok", "false", "error", "late"}] /\ quiet' \in [Client -> BOOLEAN]
    BY <1>3 DEF TypeOK
  <2>3. \A d \in Client : cmd'[d].at \in {"stopping", "starting", "exiting", "stopping again"} /\ reply'[d] = "none" => Busy(d)'
    <3>1. \A d \in Client : d # c => (Busy(d)' <=> Busy(d))
      BY <1>4 DEF Busy
    <3>2. reply'[c] # "none"
      BY <1>4
    <3> QED
      BY <1>4, <3>1, <3>2 DEF TypeOK
  <2>4. up' /\ UNCHANGED <<launching, exiting, box, live, given, deaths, crossed>>
    BY <1>4, <1>5
  <2> QED
    BY <1>2, <2>1, <2>2, <2>3, <2>4 DEF TypeOK
<1>7. \A s \in Slot : Sound(s)'
  BY <1>2 DEF Serves, Sound, Busy, Starting
<1>8. \A d \in Client : Asked(d)' /\ Proper(d)'
  <2>1. \A d \in Client : d # c => Asked(d)' /\ Proper(d)'
    BY <1>4 DEF Serves, Asked, Proper, Busy, Starting
  <2>2. Asked(c)' /\ Proper(c)'
    BY <1>3, <1>4 DEF Asked, Proper, Busy, Resting
  <2> QED
    BY <2>1, <2>2
<1>9. Undisturbing'
  <2>1. \A d \in Client : quiet'[d] => d # c /\ quiet[d]
    BY <1>4
  <2>2. \A d \in Client : quiet[d] => d = c
    BY <1>5 DEF Undisturbing, Alone
  <2> QED
    BY <2>1, <2>2 DEF Undisturbing
<1>10. ASSUME ~crossed PROVE Serial'
  <2>1. Serial /\ \A d \in Client \ {c} : ~Replacing(d) /\ ~Clearing(d)
    BY <1>5, <1>10 DEF Serial, Exclusive, Alone, Undisturbing, Replacing, Clearing, At
  <2>2. \A d \in Client : ~Replacing(d)' /\ ~Clearing(d)' /\ ~quiet'[d]
    <3>1. \A d \in Client : quiet[d] => d = c
      BY <1>5 DEF Undisturbing, Alone
    <3>2. ~Replacing(c)' /\ ~Clearing(c)'
      BY <1>4 DEF Replacing, Clearing, At, Resting
    <3>3. ASSUME NEW d \in Client, d # c
          PROVE  ~Replacing(d)' /\ ~Clearing(d)' /\ ~quiet'[d]
      <4>1. cmd'[d] = cmd[d] /\ quiet'[d] = quiet[d] /\ ~Replacing(d) /\ ~Clearing(d) /\ ~quiet[d]
        BY <1>4, <2>1, <3>1, <3>3
      <4>2. ~Replacing(d)'
        BY <1>4, <4>1 DEF Replacing, At
      <4>3. ~Clearing(d)'
        BY <1>4, <4>1 DEF Clearing, At
      <4> QED
        BY <4>1, <4>2, <4>3
    <3> QED
      BY <1>4, <3>2, <3>3
  <2>3. \A s \in Slot : Starting(s)' => s # c /\ IF s = o THEN Starting(c) /\ handler'[s] = handler[c]
                                                   ELSE Starting(s) /\ handler'[s] = handler[s]
    BY <1>2 DEF Starting
  <2>4. ~Starting(o)
    BY <1>5 DEF Starting, Busy
  <2>5. (\A s \in Slot : ~Starting(s)') => \A s \in Slot : ~Starting(s)
    BY <1>2, <2>4 DEF Starting
  <2>6. SingleStart' /\ OnlyStarted' /\ OnlyHeld'
    BY <1>4, <2>1, <2>3, <2>5 DEF Serial, SingleStart, OnlyStarted, OnlyHeld
  <2> QED
    BY <2>2, <2>6 DEF Serial, Exclusive, ClosesIt, Cleared, Stands, Succeeded, Refused
<1> QED
  BY <1>4, <1>6, <1>7, <1>8, <1>9, <1>10 DEF Serves
-----------------------------------------------------------------------------
\* A command is given.
LEMMA BeginsIInv == ASSUME IInv, NEW c \in Client, Begins(c) PROVE IInv'
<1> USE SlotKinds DEF IInv
<1>1. PICK op \in {"activate", "deactivate", "exit"} : cmd' = [cmd EXCEPT ![c] = Command(op, First[op], op = "activate")]
  BY DEF Begins
<1> DEFINE command == Command(op, First[op], op = "activate")
<1>2. command \in [op : {"none", "activate", "deactivate", "exit"}, install : BOOLEAN, at : Resting] /\ command.op # "none"
  BY DEF First, Resting
<1>3. cmd[c] = Idle /\ ~Busy(c)
  <2>1. cmd[c].at = "idle" /\ cmd[c] = Idle
    BY DEF Begins
  <2>2. Busy(c) => cmd[c].at \in Waiting
    BY DEF Serves, Asked
  <2> QED
    BY <2>1, <2>2 DEF Waiting
<1>4. quiet' \in [Client -> BOOLEAN]
  BY DEF Begins
<1>5. \A d \in Client : quiet'[d] => d = c /\ (\A x \in Client : cmd[x] = Idle) /\ \A s \in Slot : ~Busy(s)
  BY DEF Begins
<1>6. given' \in Nat
  <2>1. given \in Nat
    BY DEF TypeOK
  <2> QED
    BY <2>1 DEF Begins
<1>7. launching' \in BOOLEAN /\ reply' = [reply EXCEPT ![c] = "none"] /\ UNCHANGED <<up, exiting, box, live, handler, deaths, crossed>>
  BY DEF Begins, process, TypeOK
<1>8. /\ \A d \in Client : quiet'[d] => quiet[d] \/ (d = c /\ (\A x \in Client : cmd[x] = Idle) /\ \A s \in Slot : ~Busy(s))
      /\ \A d \in Client : quiet'[d] => d = c \/ command = Idle
  BY <1>5
<1>9. cmd' = [cmd EXCEPT ![c] = command] /\ (command.op = "none" => command = Idle)
      /\ (command.install => command.op = "activate") /\ (command.op = "deactivate" => command.at # "exit")
  <2>1. command.install = (op = "activate") /\ command.op = op /\ command.at = First[op]
    OBVIOUS
  <2>2. First["deactivate"] = "stop"
    BY DEF First
  <2> QED
    BY <1>1, <1>2, <2>1, <2>2
<1> HIDE DEF command
<1> QED
  BY <1>2, <1>3, <1>4, <1>6, <1>7, <1>8, <1>9, Rests

\* A step of c that stays in the client.
LEMMA RestsAgain ==
  ASSUME IInv, NEW c \in Client, ~Busy(c),
         \/ \E at \in Resting \ {"idle"} : Goes(c, at) /\ cmd[c].op = "activate"
         \/ \E result \in {"ok", "false", "error", "late"} : Returns(c, result) /\ UNCHANGED handler
         \/ RunsService(c)
  PROVE  IInv'
<1> USE DEF IInv
<1>0. TypeOK /\ Undisturbing
  OBVIOUS
<1>1. cmd[c].op \in {"none", "activate", "deactivate", "exit"} /\ cmd[c].install \in BOOLEAN /\ given \in Nat
      /\ launching \in BOOLEAN /\ quiet \in [Client -> BOOLEAN] /\ reply = [reply EXCEPT ![c] = reply[c]]
      /\ reply[c] \in {"none", "ok", "false", "error", "late"}
  BY DEF TypeOK
<1>2. \A d \in Client : quiet[d] => d = c \/ cmd[c] = Idle
  BY DEF Undisturbing
<1>3. CASE \E at \in Resting \ {"idle"} : Goes(c, at) /\ cmd[c].op = "activate"
  <2>1. PICK at \in Resting \ {"idle"} : Goes(c, at) /\ cmd[c].op = "activate"
    BY <1>3
  <2> DEFINE command == Command(cmd[c].op, at, cmd[c].install)
  <2>2. command \in [op : {"none", "activate", "deactivate", "exit"}, install : BOOLEAN, at : Resting] /\ command.op # "none"
    BY <1>1, <2>1
  <2>5. (command.install => command.op = "activate") /\ (command.op = "deactivate" => command.at # "exit")
    BY <2>1
  <2>3. \A d \in Client : quiet[d] => d = c
    BY <1>2, <2>1
  <2>4. cmd' = [cmd EXCEPT ![c] = command] /\ reply' = [reply EXCEPT ![c] = "none"]
        /\ UNCHANGED <<up, launching, exiting, box, live, handler, given, deaths, crossed, quiet>>
    BY <2>1 DEF Goes, MovesTo, UnchangedService, process
  <2> QED
    BY <1>1, <2>2, <2>3, <2>4, <2>5, Rests
<1>4. CASE \E result \in {"ok", "false", "error", "late"} : Returns(c, result) /\ UNCHANGED handler
  <2>1. PICK result \in {"ok", "false", "error", "late"} : Returns(c, result) /\ UNCHANGED handler
    BY <1>4
  <2>2. Idle \in [op : {"none", "activate", "deactivate", "exit"}, install : BOOLEAN, at : Resting]
    BY DEF Resting
  <2>3. quiet' \in [Client -> BOOLEAN] /\ \A d \in Client : quiet'[d] => quiet[d]
    BY <1>1, <2>1 DEF Returns
  <2>4. cmd' = [cmd EXCEPT ![c] = Idle] /\ reply' = [reply EXCEPT ![c] = result]
        /\ UNCHANGED <<up, launching, exiting, box, live, handler, given, deaths, crossed>>
    BY <2>1 DEF Returns, UnchangedService, process
  <2> QED
    BY <1>1, <2>2, <2>3, <2>4, Rests
<1>5. CASE RunsService(c)
  <2> DEFINE command == Command("activate", "port", FALSE)
  <2>1. command \in [op : {"none", "activate", "deactivate", "exit"}, install : BOOLEAN, at : Resting] /\ command.op # "none"
    BY DEF Resting
  <2>2. cmd' = [cmd EXCEPT ![c] = command] /\ launching' \in BOOLEAN /\ cmd[c].op = "activate"
        /\ UNCHANGED <<up, exiting, box, live, handler, reply, given, deaths, crossed, quiet>>
    BY <1>1, <1>5 DEF RunsService, RunCommand, At
  <2>3. \A d \in Client : quiet[d] => d = c
    BY <1>2, <2>2
  <2> QED
    BY <1>1, <2>1, <2>2, <2>3, Rests
<1> QED
  BY <1>3, <1>4, <1>5

\* A command's steps, each of them a wait given up, a call or a step of the client.
LEMMA ContinuesIInv == ASSUME IInv, NEW c \in Client, Continues(c) PROVE IInv'
<1> USE DEF IInv
<1>0. Busy(c) => reply[c] = "none" /\ cmd[c].at \in Waiting
  BY DEF Serves, Asked
<1>1. cmd[c].op # "none" \/ cmd[c].at = "idle"
  BY DEF Serves, Proper
<1>2. cmd[c].at \in {"exit", "exiting"} => cmd[c].op \notin {"none", "deactivate"}
  BY <1>1 DEF Serves, Proper
<1>3. reply[c] \in {"none", "ok", "false", "error", "late"}
  BY DEF TypeOK
<1>a. CASE GivesUp(c)
  BY <1>a, GivesUpIInv
<1>b. CASE FindsPort(c) \/ ThenStarts(c) \/ TellsToExit(c) \/ Stops(c) \/ StopsAgain(c)
  <2>1. ~Busy(c)
    BY <1>0, <1>b DEF FindsPort, ThenStarts, TellsToExit, Stops, StopsAgain, Answered, At, Waiting
  <2>2. CASE FindsPort(c)
    BY <2>1, <2>2, CallsIInv DEF FindsPort, At, Waiting
  <2>3. CASE ThenStarts(c)
    BY <2>1, <2>3, CallsIInv DEF ThenStarts, Answered, At, Waiting, Replacing
  <2>4. CASE TellsToExit(c)
    BY <1>2, <2>1, <2>4, CallsIInv DEF TellsToExit, Waiting
  <2>5. CASE Stops(c)
    BY <2>1, <2>5, CallsIInv DEF Stops, At, Waiting
  <2>6. CASE StopsAgain(c)
    BY <2>1, <2>6, CallsIInv DEF StopsAgain, Answered, At, Waiting
  <2> QED
    BY <1>b, <2>2, <2>3, <2>4, <2>5, <2>6
<1>c. CASE NoService(c) \/ RunsService(c) \/ Started(c) \/ StartRefused(c) \/ ToldToExit(c) \/ StopAnswered(c) \/ StoppedAgain(c)
  <2>1. ~Busy(c)
    BY <1>0, <1>c DEF NoService, RunsService, RunCommand, Started, StartRefused, ToldToExit,
       StopAnswered, StoppedAgain,
      Answered, At, Waiting
  <2>2. CASE NoService(c)
    BY <2>1, <2>2, RestsAgain DEF NoService, At, Resting
  <2>3. CASE Started(c) \/ StopAnswered(c) \/ StoppedAgain(c)
    BY <2>1, <2>3, RestsAgain DEF Started, StopAnswered, StoppedAgain
  <2>4. CASE StartRefused(c)
    BY <2>1, <2>4, RestsAgain DEF StartRefused, Answered, At, Resting
  <2>5. CASE ToldToExit(c)
    BY <1>2, <1>3, <2>1, <2>5, RestsAgain DEF ToldToExit, Resting
  <2> QED
    BY <1>c, <2>1, <2>2, <2>3, <2>4, <2>5, RestsAgain
<1> QED
  BY <1>a, <1>b, <1>c DEF Continues

\* Whichever step is taken.
LEMMA NextIInv == IInv /\ [Next]_vars => IInv'
<1> SUFFICES ASSUME IInv, [Next]_vars PROVE IInv'
  OBVIOUS
<1>1. ASSUME NEW c \in Client, Begins(c) \/ Continues(c) PROVE IInv'
  BY <1>1, BeginsIInv, ContinuesIInv
<1>2. ASSUME NEW s \in Slot, Handle(s) PROVE IInv'
  <2>1. TypeOK /\ Serves /\ Undisturbing
    BY DEF IInv
  <2>2. crossed' = crossed
    BY <1>2 DEF Handle, StartsBox, StartFails, StoresBox, NothingToClose, Closes, Closed
  <2>3. ~crossed => Serial'
    BY <1>2, HandleSerial
  <2> QED
    BY <1>2, <2>1, <2>2, <2>3, HandleType, HandleServes DEF IInv
<1>3. CASE Exits \/ Dies \/ Relaunches \/ Listens \/ UNCHANGED vars
  BY <1>3, ProcessIInv
<1> QED
  BY <1>1, <1>2, <1>3 DEF Next

\* The invariant holds of every reachable state.
LEMMA Invariance == Spec => []IInv
<1> QED
  BY InitIInv, NextIInv, PTL DEF Spec

\* The service, its handlers and the commands keep the shape of the state, and a client
\* that waits for an answer has a handler.
THEOREM TunnelTypes == Spec => []TypeOK
<1>1. IInv => TypeOK
  BY DEF IInv
<1> QED
  BY <1>1, Invariance, PTL

\* One tunnel, which s.box will close, whatever failed or came late, as long as no call
\* overlapped the Stop and Start of an activation.
THEOREM TunnelOne == Spec => []OneTunnel
<1>1. ASSUME IInv PROVE OneTunnel
  <2> SUFFICES ASSUME ~crossed
               PROVE  /\ Cardinality(live) <= 1
                      /\ \A b \in live : b = box \/ \E s \in Slot : Busy(s) /\ handler[s].at = "store" /\ handler[s].box = b
    BY DEF OneTunnel
  <2>1. Serial /\ Serves /\ TypeOK
    BY <1>1 DEF IInv
  <2>2. \E b : live \subseteq {b}
    BY <2>1 DEF Serial, OnlyStarted, OnlyHeld
  <2>3. live = {} \/ \E b : live = {b}
    BY <2>2
  <2>4. Cardinality({}) = 0 /\ \A b : Cardinality({b}) = 1
    BY FS_EmptySet, FS_Singleton
  <2>5. Cardinality(live) <= 1
    BY <2>3, <2>4
  <2>6. ASSUME NEW b \in live, b # box
        PROVE  \E s \in Slot : Busy(s) /\ handler[s].at = "store" /\ handler[s].box = b
    <3>1. PICK s \in Slot : Starting(s)
      BY <2>1, <2>6 DEF Serial, OnlyHeld
    <3>2. handler[s].at # "new" /\ handler[s].box = b
      BY <2>1, <2>6, <3>1 DEF Serial, OnlyStarted
    <3>3. handler[s].at \in {"new", "store", "closing"} /\ Sound(s)
      BY <2>1 DEF TypeOK, Serves
    <3>4. handler[s].at = "store"
      BY <3>1, <3>2, <3>3 DEF Sound, Starting
    <3>5. Busy(s)
      BY <3>4 DEF Busy
    <3> QED
      BY <3>2, <3>4, <3>5
  <2> QED
    BY <2>5, <2>6
<1> QED
  BY <1>1, Invariance, PTL

\* The steps in which a command returns.
LEMMA ReturnSteps ==
  ASSUME TypeOK, Serves, NEW c \in Client, [Next]_vars, cmd[c].op # "none", cmd'[c].op = "none"
  PROVE  /\ live' = live /\ box' = box /\ up' = up
         /\ \/ NoService(c) \/ Started(c) \/ StartRefused(c) \/ ToldToExit(c) \/ StopAnswered(c) \/ StoppedAgain(c) \/ GivesUp(c)
<1> USE SlotKinds
<1>1. CASE \E d \in Client : Begins(d)
  <2>1. PICK d \in Client : Begins(d)
    BY <1>1
  <2>2. PICK op \in {"activate", "deactivate", "exit"} : cmd' = [cmd EXCEPT ![d] = Command(op, First[op], op = "activate")]
    BY <2>1 DEF Begins
  <2>3. cmd'[c] = cmd[c] \/ cmd'[c].op = op
    BY <2>2 DEF TypeOK
  <2> QED
    BY <2>3
<1>2. ASSUME NEW d \in Client, NEW at, MovesTo(d, at) PROVE FALSE
  BY <1>2 DEF MovesTo, TypeOK
<1>3. ASSUME NEW d \in Client, NEW command, cmd' = [cmd EXCEPT ![d] = command], command.op # "none" PROVE FALSE
  BY <1>3 DEF TypeOK
<1>4. ASSUME NEW d \in Client, NEW command, cmd' = [cmd EXCEPT ![d] = command] PROVE d = c
  BY <1>4 DEF TypeOK
<1>5. CASE \E d \in Client : Continues(d)
  <2>1. PICK d \in Client : Continues(d)
    BY <1>5
  <2>2. ~(FindsPort(d) \/ ThenStarts(d) \/ TellsToExit(d) \/ Stops(d) \/ StopsAgain(d))
    BY <1>2 DEF FindsPort, ThenStarts, TellsToExit, Stops, StopsAgain, Calls
  <2>3. ~RunsService(d)
    BY <1>3 DEF RunsService
  <2>4. ASSUME NoService(d) \/ Started(d) \/ StartRefused(d) \/ ToldToExit(d) \/ StopAnswered(d) \/ StoppedAgain(d) \/ GivesUp(d)
        PROVE  d = c /\ UnchangedService
    <3>1. (\E at : Goes(d, at)) \/ (\E result : Returns(d, result)) \/ ((\E at : MovesTo(d, at)) /\ UnchangedService)
      BY <2>4 DEF NoService, Started, StartRefused, ToldToExit, StopAnswered, StoppedAgain, GivesUp
    <3> QED
      BY <1>2, <1>4, <3>1 DEF Goes, Returns
  <2> QED
    BY <2>1, <2>2, <2>3, <2>4 DEF Continues, UnchangedService, process
<1>6. ASSUME UNCHANGED cmd PROVE FALSE
  BY <1>6
<1>7. CASE \E s \in Slot : Handle(s)
  BY <1>6, <1>7 DEF Handle, StartsBox, StartFails, StoresBox, NothingToClose, Closes, Closed
<1>8. CASE Exits \/ Dies \/ Relaunches \/ Listens \/ UNCHANGED vars
  BY <1>6, <1>8 DEF Exits, Dies, Relaunches, Listens, vars
<1> QED
  BY <1>1, <1>5, <1>7, <1>8 DEF Next

\* What an undisturbed activation or deactivation reports agrees with what runs.
LEMMA Reports ==
  ASSUME IInv, [Next]_vars, NEW c \in Client, Undisturbed(c)
  PROVE  /\ ReturnsWith(c, "deactivate", {"ok", "error"}) => live = {}
         /\ ReturnsWith(c, "activate", {"ok"}) => box \in live
         /\ ReturnsWith(c, "activate", {"error"}) => live = {}
<1>0. TypeOK /\ Serves /\ Serial /\ quiet[c] /\ Proper(c)
  BY DEF IInv, Undisturbed, Serves
<1>1. ASSUME NEW result, Returns(c, result) PROVE reply'[c] = result
  BY <1>0, <1>1 DEF TypeOK, Returns
<1>2. ASSUME NEW at, Goes(c, at), cmd[c].op # "none" PROVE cmd'[c].op # "none"
  BY <1>0, <1>2 DEF Goes, MovesTo, TypeOK
<1>3. ASSUME NEW at, MovesTo(c, at), cmd[c].op # "none" PROVE cmd'[c].op # "none"
  BY <1>0, <1>3 DEF MovesTo, TypeOK
<1>4. ASSUME ReturnsWith(c, "deactivate", {"ok", "error"}) PROVE live = {}
  <2>1. NoService(c) \/ Started(c) \/ StartRefused(c) \/ ToldToExit(c) \/ StopAnswered(c) \/ StoppedAgain(c) \/ GivesUp(c)
    BY <1>0, <1>4, ReturnSteps DEF ReturnsWith
  <2>2. ~GivesUp(c)
    BY <1>1, <1>3, <1>4 DEF GivesUp, ReturnsWith
  <2>3. ~(NoService(c) \/ Started(c) \/ StartRefused(c))
    BY <1>4 DEF NoService, Started, StartRefused, Answered, At, ReturnsWith
  <2>4. CASE ToldToExit(c)
    BY <1>0, <1>4, <2>4 DEF ToldToExit, ReturnsWith, Proper
  <2>5. CASE StopAnswered(c) \/ StoppedAgain(c)
    BY <1>0, <2>5 DEF StopAnswered, StoppedAgain, Answered, At, Serial, Cleared, Clearing
  <2> QED
    BY <2>1, <2>2, <2>3, <2>4, <2>5
<1>5. NoService(c) \/ Started(c) \/ StartRefused(c) \/ ToldToExit(c) \/ StopAnswered(c) \/ StoppedAgain(c) \/ GivesUp(c)
      \/ ~ReturnsWith(c, "activate", {"ok", "error"})
  BY <1>0, ReturnSteps DEF ReturnsWith
<1>6. ~ReturnsWith(c, "activate", {"ok", "error"}) \/ NoService(c) \/ Started(c) \/ StartRefused(c)
  <2>1. ~(GivesUp(c) /\ ReturnsWith(c, "activate", {"ok", "error"}))
    BY <1>1, <1>3 DEF GivesUp, ReturnsWith
  <2>2. ~((StopAnswered(c) \/ StoppedAgain(c)) /\ ReturnsWith(c, "activate", {"ok", "error"}))
    BY DEF StopAnswered, StoppedAgain, Answered, At, ReturnsWith
  <2>3. ~(ToldToExit(c) /\ ReturnsWith(c, "activate", {"ok", "error"}))
    BY <1>2 DEF ToldToExit, ReturnsWith
  <2> QED
    BY <1>5, <2>1, <2>2, <2>3
<1>7. ASSUME ReturnsWith(c, "activate", {"ok"}) PROVE box \in live
  <2>1. ~NoService(c) /\ ~StartRefused(c)
    BY <1>1, <1>2, <1>7 DEF NoService, StartRefused, Answered, At, ReturnsWith
  <2>2. Started(c)
    BY <1>6, <1>7, <2>1 DEF ReturnsWith
  <2> QED
    BY <1>0, <2>2 DEF Started, Answered, Serial, Succeeded
<1>8. ASSUME ReturnsWith(c, "activate", {"error"}) PROVE live = {}
  <2>1. ~Started(c)
    BY <1>1, <1>8 DEF Started, ReturnsWith
  <2>2. CASE NoService(c)
    BY <1>0, <2>2 DEF NoService, TypeOK
  <2>3. CASE StartRefused(c)
    BY <1>0, <2>3 DEF StartRefused, Answered, Serial, Refused
  <2> QED
    BY <1>6, <1>8, <2>1, <2>2, <2>3 DEF ReturnsWith
<1> QED
  BY <1>4, <1>7, <1>8

\* DeactivateTunnelService, answered and undisturbed, leaves no tunnel, for any number of
\* clients and calls given up.
THEOREM TunnelDeactivation == Spec => DeactivatedIsDown
<1> DEFINE Down == \A c \in Client : ReturnsWith(c, "deactivate", {"ok", "error"}) /\ Undisturbed(c) => live = {}
<1>1. IInv /\ [Next]_vars => [Down]_vars
  BY Reports
<1> HIDE DEF Down
<1>2. Spec => [][Down]_vars
  BY <1>1, Invariance, PTL DEF Spec
<1> QED
  BY <1>2 DEF DeactivatedIsDown, Down

\* An undisturbed ActivateTunnelService reports success only with the tunnel there and an
\* error only with none.
THEOREM TunnelActivation == Spec => ActivationIsTruthful
<1> DEFINE Truthful ==
      \A c \in Client : Undisturbed(c) =>
        /\ ReturnsWith(c, "activate", {"ok"}) => box \in live
        /\ ReturnsWith(c, "activate", {"error"}) => live = {}
<1>1. IInv /\ [Next]_vars => [Truthful]_vars
  BY Reports
<1> HIDE DEF Truthful
<1>2. Spec => [][Truthful]_vars
  BY <1>1, Invariance, PTL DEF Spec
<1> QED
  BY <1>2 DEF ActivationIsTruthful, Truthful
=============================================================================
