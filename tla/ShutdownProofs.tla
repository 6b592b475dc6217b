--------------------------- MODULE ShutdownProofs ---------------------------
(***************************************************************************)
(* Proofs about the event bus and the shutdown of the process, for every   *)
(* set of publishers and subscribers, every batch of events, every filter  *)
(* and every capacity of the channels.                                     *)
(***************************************************************************)
EXTENDS Shutdown, FiniteSetTheorems, SequenceTheorems, TLAPS

(***************************************************************************)
(* The inductive invariant.                                                *)
(***************************************************************************)
(* The read lock: who holds it is in the loops, and nobody is once the     *)
(* channels are closed.                                                    *)
LockOK ==
  /\ \A p \in Publishers : p \in readers <=> pub[p] \in {"loop", "send"}
  /\ closed => readers = {}

(* How far run has come, and what a request may still be doing then. *)
LifeOK ==
  /\ Len(subs) <= Len(Wiring) /\ \A i \in 1 .. Len(subs) : subs[i] = Wiring[i]
  /\ main = "wiring" => \A p \in Publishers : pub[p] = "none"
  /\ main # "wiring" => subs = Wiring
  /\ \A p \in active \union gone : pub[p] # "none"
  /\ \A p \in Publishers \ (active \union gone) : pub[p] \in {"none", "returned"}
  /\ closer # "open" => main \in {"closing", "stopped", "exited"}
  /\ main \in {"closing", "stopped", "exited"} => active = {}
  /\ main \in {"stopped", "exited"} => closer = "closed"

(* Where the loops of publisher p may be. *)
CursorOK(p) ==
  /\ at[p].ev <= Len(Batch[p]) + 1 /\ at[p].sub <= Len(Wiring)
  /\ at[p].ev = Len(Batch[p]) + 1 => at[p].sub = 1
  /\ pub[p] \in {"none", "command", "rlock"} => at[p].ev = 1 /\ at[p].sub = 1
  /\ pub[p] = "send" => ~LoopsDone(p) /\ Matches(SubscriberAt(p), p, at[p].ev)
  /\ pub[p] = "returned" => LoopsDone(p) \/ (at[p].ev = 1 /\ at[p].sub = 1)

(* What the WaitGroup counts: the places that hold an event some worker    *)
(* has still to call Done for.  A publisher between Add and its send holds *)
(* one, a worker between its receive and Done holds one.                   *)
Held(x, n) ==
  \/ x \in Subscribers /\ n \in 1 .. Len(ch[x])
  \/ x \in Subscribers /\ n = 0 /\ hand[x] # <<>>
  \/ x \in Publishers /\ n = -1 /\ pub[x] = "send"

Tokens == {t \in (Subscribers \union Publishers) \X Int : Held(t[1], t[2])}

CountOK == IsFiniteSet(Tokens) /\ Cardinality(Tokens) = inflight

(* What every subscriber was sent: in order, and what the loops came to. *)
SentOK ==
  \A s \in Subscribers :
    /\ Increasing(Sent(s))
    /\ \A p \in Publishers :
         From(p, Sent(s)) = {n \in Wanted(p, s) : Passed(p, s, n)}

(* Close once it was woken, and once it has waited. *)
CloseOK ==
  /\ closer = "woken" /\ gone = {} => inflight = 0
  /\ closer \in {"lock", "locking", "closed"} =>
       \A p \in Publishers \ gone, s \in Subscribers : From(p, hand[s] \o ch[s]) = {}

IInv ==
  /\ TypeOK
  /\ LockOK
  /\ LifeOK
  /\ \A p \in Publishers : CursorOK(p)
  /\ CountOK
  /\ SentOK
  /\ CloseOK
  /\ PanicNeedsOutlivingCommand

(***************************************************************************)
(* Lemmas.                                                                 *)
(***************************************************************************)
(* Where a publisher in the loops is: at a subscriber and an event. *)
LEMMA CursorFacts ==
  ASSUME IInv, NEW p \in Publishers, pub[p] \in {"loop", "send"}
  PROVE  /\ main # "wiring" /\ subs = Wiring
         /\ at[p].sub \in 1 .. Len(subs) /\ at[p].ev \in Nat \ {0}
         /\ SubscriberAt(p) \in Subscribers
         /\ EventAt(p) \in EventRecords
         /\ p \in readers /\ ~closed
<1>1. /\ main # "wiring" /\ subs = Wiring /\ subs \in Seq(Subscribers)
      /\ p \in readers /\ ~closed
  BY DEF IInv, TypeOK, LifeOK, LockOK
<1>2. at[p].sub \in 1 .. Len(subs) /\ at[p].ev \in Nat \ {0}
  <2>1. at[p] \in [ev : Nat \ {0}, sub : Nat \ {0}]
    BY DEF IInv, TypeOK
  <2>2. at[p].sub <= Len(Wiring)
    BY DEF IInv, CursorOK
  <2> QED BY <1>1, <2>1, <2>2
<1>3. SubscriberAt(p) \in Subscribers /\ EventAt(p) \in EventRecords
  BY <1>1, <1>2 DEF SubscriberAt, EventAt, EventRecords
<1> QED BY <1>1, <1>2, <1>3

(* The next subscriber run registers. *)
LEMMA WireFacts ==
  ASSUME IInv, Wire
  PROVE  /\ Len(subs) < Len(Wiring)
         /\ Wiring[Len(subs) + 1] \in Subscribers
         /\ subs' = Append(subs, Wiring[Len(subs) + 1])
<1>1. subs \in Seq(Subscribers) /\ Wiring \in Seq(Subscribers)
  BY ShutdownAssumption DEF IInv, TypeOK
<1>2. Len(subs) <= Len(Wiring) /\ \A i \in 1 .. Len(subs) : subs[i] = Wiring[i]
  BY DEF IInv, LifeOK
<1>3. subs # Wiring
  BY DEF Wire
<1>4. Len(subs) # Len(Wiring)
  BY <1>1, <1>2, <1>3, SeqEqual
<1>5. Len(subs) < Len(Wiring) /\ Wiring[Len(subs) + 1] \in Subscribers
  BY <1>1, <1>2, <1>4
<1> QED BY <1>5 DEF Wire, Subscribe

(***************************************************************************)
(* Types, the lock, the life of the process and the loops.                 *)
(***************************************************************************)
Control == LockOK /\ LifeOK /\ \A p \in Publishers : CursorOK(p)

(* run: everything but Close. *)
LEMMA RunControl ==
  ASSUME IInv, Wire \/ Listen \/ ListenFails \/ Signal \/ ShutdownDone
               \/ ShutdownTimeout \/ StoppedCleanly \/ Exit
  PROVE  TypeOK' /\ Control'
<1>1. CASE Wire
  <2>1. /\ UNCHANGED <<ch, hand, handled, stopped, publisherVars, closeVars, main, active, gone>>
        /\ main = "wiring"
    BY <1>1 DEF Wire, Subscribe
  <2>2. /\ Len(subs) < Len(Wiring) /\ Wiring[Len(subs) + 1] \in Subscribers
        /\ subs' = Append(subs, Wiring[Len(subs) + 1])
    BY <1>1, WireFacts
  <2>3. subs \in Seq(Subscribers) /\ Wiring \in Seq(Subscribers)
    BY ShutdownAssumption DEF IInv, TypeOK
  <2>4. subs' \in Seq(Subscribers) /\ Len(subs') <= Len(Wiring)
        /\ \A i \in 1 .. Len(subs') : subs'[i] = Wiring[i]
    BY <2>2, <2>3 DEF IInv, LifeOK
  <2>5. TypeOK' /\ LockOK' /\ LifeOK'
    BY <2>1, <2>4 DEF IInv, TypeOK, LockOK, LifeOK, publisherVars, closeVars
  <2>6. \A p \in Publishers : CursorOK(p)'
    BY <2>1 DEF IInv, LifeOK, CursorOK, LoopsDone, SubscriberAt, publisherVars
  <2> QED BY <2>5, <2>6 DEF Control
<1>2. CASE Listen \/ ListenFails \/ Signal \/ ShutdownTimeout \/ StoppedCleanly \/ Exit
  <2>1. UNCHANGED <<busVars, active, gone>>
    BY <1>2 DEF Listen, ListenFails, Signal, ShutdownTimeout, StoppedCleanly, Exit, MainStep
  <2>2. TypeOK'
    BY <1>2, <2>1 DEF IInv, TypeOK, busVars, queueVars, publisherVars, closeVars,
       Listen, ListenFails, Signal, ShutdownTimeout, StoppedCleanly, Exit, MainStep
  <2>3. LockOK' /\ \A p \in Publishers : CursorOK(p)'
    BY <2>1 DEF IInv, LockOK, CursorOK, LoopsDone, SubscriberAt, busVars, queueVars,
       publisherVars, closeVars
  <2>4. LifeOK'
    BY <1>2, <2>1 DEF IInv, LifeOK, busVars, queueVars, publisherVars, closeVars,
       Listen, ListenFails, Signal, ShutdownTimeout, StoppedCleanly, Exit, MainStep
  <2> QED BY <2>2, <2>3, <2>4 DEF Control
<1>3. CASE ShutdownDone
  <2>1. /\ UNCHANGED <<queueVars, publisherVars, inflight, closed, crash, active, gone>>
        /\ main = "shutting" /\ active = {} /\ main' = "closing" /\ closer' = "wait"
    BY <1>3 DEF ShutdownDone
  <2>2. TypeOK'
    BY <2>1 DEF IInv, TypeOK, queueVars, publisherVars
  <2>3. LockOK' /\ \A p \in Publishers : CursorOK(p)'
    BY <2>1 DEF IInv, LockOK, CursorOK, LoopsDone, SubscriberAt, queueVars, publisherVars
  <2>4. LifeOK'
    BY <2>1 DEF IInv, LifeOK, queueVars, publisherVars
  <2> QED BY <2>2, <2>3, <2>4 DEF Control
<1> QED BY <1>1, <1>2, <1>3

LEMMA CloseControl ==
  ASSUME IInv, CloseBus
  PROVE  TypeOK' /\ Control'
<1>1. UNCHANGED <<queueVars, publisherVars, inflight, main, active, gone>> /\ main = "closing"
  BY DEF CloseBus, Close, CloseWait, CloseWoken, CloseReused, CloseLock, CloseChannels, CloseStep
<1>2. \A p \in Publishers : CursorOK(p)'
  BY <1>1 DEF IInv, CursorOK, LoopsDone, SubscriberAt, queueVars, publisherVars
<1>3. closer' \in {"lock", "asleep", "locking", "closed", "woken"}
  BY DEF CloseBus, Close, CloseWait, CloseWoken, CloseReused, CloseLock, CloseChannels, CloseStep
<1>4. LockOK' /\ closed' \in BOOLEAN
  <2>1. UNCHANGED closed \/ (closed' = TRUE /\ readers = {})
    BY DEF CloseBus, Close, CloseWait, CloseWoken, CloseReused, CloseLock, CloseChannels,
       CloseStep
  <2>2. LockOK'
    BY <1>1, <2>1 DEF IInv, LockOK, publisherVars
  <2>3. closed' \in BOOLEAN
    BY <2>1, Zenon DEF IInv, TypeOK
  <2> QED BY <2>2, <2>3
<1>5. crash' \in {"none", "send on closed channel", "WaitGroup reused"}
  BY DEF IInv, TypeOK, CloseBus, Close, CloseWait, CloseWoken, CloseReused,
     CloseLock, CloseChannels, CloseStep
<1>6. TypeOK'
  BY <1>1, <1>3, <1>4, <1>5 DEF IInv, TypeOK, queueVars, publisherVars
<1>7. LifeOK'
  BY <1>1, <1>3 DEF IInv, LifeOK, queueVars, publisherVars
<1> QED BY <1>2, <1>4, <1>6, <1>7 DEF Control

LEMMA RequestControl ==
  ASSUME IInv, NEW p \in Publishers,
         Serve(p) \/ Command(p) \/ HandlerReturns(p) \/ ClientGone(p)
  PROVE  TypeOK' /\ Control'
<1>1. CASE Serve(p) \/ Command(p)
  <2>1. /\ UNCHANGED <<queueVars, readers, at, closeVars, main, gone>>
        /\ main \in {"serving", "shutting"} \/ pub[p] = "command"
        /\ pub[p] \in {"none", "command"}
    BY <1>1 DEF Serve, Command
  <2>2. PICK l \in {"command", "rlock", "returned"} : pub' = [pub EXCEPT ![p] = l]
    BY <1>1 DEF Serve, Command, Goto
  <2>3. TypeOK'
    BY <1>1, <2>1, <2>2 DEF Serve, Command, IInv, TypeOK, LifeOK, queueVars, closeVars
  <2>4. LockOK'
    BY <2>1, <2>2 DEF IInv, LockOK, TypeOK, closeVars
  <2>5. LifeOK'
    <3>1. /\ LifeOK /\ active \subseteq Publishers /\ gone \subseteq Publishers
          /\ \A q \in Publishers : pub'[q] = IF q = p THEN l ELSE pub[q]
      BY <2>2 DEF IInv, TypeOK
    <3>2. \/ active' = active \union {p} /\ main \in {"serving", "shutting"}
          \/ active' = active /\ pub[p] = "command"
      BY <1>1 DEF Serve, Command
    <3>3. main # "wiring"
      BY <3>1, <3>2 DEF LifeOK
    <3>4. p \in active' \union gone
      BY <3>1, <3>2 DEF LifeOK
    <3> QED BY <2>1, <3>1, <3>2, <3>3, <3>4 DEF LifeOK, queueVars, closeVars
  <2>6. ASSUME NEW q \in Publishers PROVE CursorOK(q)'
    <3>1. CursorOK(q) /\ CursorOK(p)
      BY DEF IInv
    <3>2. pub'[q] = IF q = p THEN l ELSE pub[q]
      BY <2>2 DEF IInv, TypeOK
    <3>3. CASE q = p
      BY <2>1, <3>1, <3>2, <3>3 DEF CursorOK, LoopsDone
    <3>4. CASE q # p
      BY <2>1, <3>1, <3>2, <3>4 DEF CursorOK, LoopsDone, SubscriberAt, queueVars
    <3> QED BY <3>3, <3>4
  <2> QED BY <2>3, <2>4, <2>5, <2>6 DEF Control
<1>2. CASE HandlerReturns(p) \/ ClientGone(p)
  <2>1. UNCHANGED <<busVars, main>>
    BY <1>2 DEF HandlerReturns, ClientGone
  <2>2. TypeOK'
    BY <1>2, <2>1 DEF HandlerReturns, ClientGone, IInv, TypeOK, busVars, queueVars,
       publisherVars, closeVars
  <2>3. LockOK' /\ \A q \in Publishers : CursorOK(q)'
    BY <2>1 DEF IInv, LockOK, CursorOK, LoopsDone, SubscriberAt, busVars, queueVars,
       publisherVars, closeVars
  <2>4. LifeOK'
    BY <1>2, <2>1 DEF HandlerReturns, ClientGone, IInv, LifeOK, busVars, queueVars,
       publisherVars, closeVars
  <2> QED BY <2>2, <2>3, <2>4 DEF Control
<1> QED BY <1>1, <1>2

(* One step of the loops keeps them in bounds. *)
LEMMA AdvanceFacts ==
  ASSUME IInv, NEW p \in Publishers, pub[p] \in {"loop", "send"}, ~LoopsDone(p),
         Advance(p)
  PROVE  /\ at' \in [Publishers -> [ev : Nat \ {0}, sub : Nat \ {0}]]
         /\ \A q \in Publishers : q # p => at'[q] = at[q]
         /\ at'[p] = IF at[p].sub < Len(subs)
                     THEN [ev |-> at[p].ev, sub |-> at[p].sub + 1]
                     ELSE [ev |-> at[p].ev + 1, sub |-> 1]
         /\ at'[p].ev <= Len(Batch[p]) + 1 /\ at'[p].sub <= Len(Wiring)
         /\ at'[p].ev = Len(Batch[p]) + 1 => at'[p].sub = 1
<1> DEFINE c == IF at[p].sub < Len(subs)
                THEN [ev |-> at[p].ev, sub |-> at[p].sub + 1]
                ELSE [ev |-> at[p].ev + 1, sub |-> 1]
<1>1. at[p].sub \in Nat \ {0} /\ at[p].ev \in Nat \ {0} /\ subs = Wiring
      /\ at \in [Publishers -> [ev : Nat \ {0}, sub : Nat \ {0}]]
  BY CursorFacts DEF IInv, TypeOK
<1>2. Len(Batch[p]) \in Nat /\ Len(Wiring) \in Nat /\ Len(Wiring) >= 1
  BY BusAssumption, ShutdownAssumption
<1>3. at[p].ev <= Len(Batch[p])
  BY <1>1, <1>2 DEF LoopsDone
<1>4. at' = [at EXCEPT ![p] = c]
  BY DEF Advance
<1>5. c \in [ev : Nat \ {0}, sub : Nat \ {0}]
  BY <1>1
<1>6. /\ c.ev <= Len(Batch[p]) + 1 /\ c.sub <= Len(Wiring)
      /\ c.ev = Len(Batch[p]) + 1 => c.sub = 1
  BY <1>1, <1>2, <1>3
<1> HIDE DEF c
<1>7. at'[p] = c /\ at' \in [Publishers -> [ev : Nat \ {0}, sub : Nat \ {0}]]
      /\ \A q \in Publishers : q # p => at'[q] = at[q]
  BY <1>1, <1>4, <1>5
<1> QED BY <1>6, <1>7 DEF c

(* Publish keeps its types, holds the lock exactly in its loops and stays  *)
(* within them.                                                            *)
LEMMA PublishControl ==
  ASSUME IInv, NEW p \in Publishers, Publishing(p), inflight' \in Nat
  PROVE  TypeOK' /\ Control'
<1>1. UNCHANGED <<subs, hand, handled, stopped, closed, closer, main, active, gone>>
  BY DEF Publishing, Publish, PublishEnter, PublishSkip, PublishAdd, PublishSend,
     PublishReturn, queueVars, closeVars
<1>2. /\ pub[p] \in {"rlock", "loop", "send"}
      /\ p \in active \union gone
  BY DEF Publishing, Publish, PublishEnter, PublishSkip, PublishAdd, PublishSend,
     PublishReturn, IInv, LifeOK
<1>3. PICK l \in {"loop", "send", "returned"} : pub' = [pub EXCEPT ![p] = l]
  <2>1. CASE PublishSkip(p)
    BY <2>1 DEF PublishSkip, IInv, TypeOK
  <2>2. CASE PublishSend(p)
    BY <1>2, <2>2, CursorFacts DEF PublishSend, Goto
  <2>3. CASE PublishEnter(p) \/ PublishAdd(p) \/ PublishReturn(p)
    BY <2>3 DEF PublishEnter, PublishAdd, PublishReturn, Goto
  <2> QED BY <2>1, <2>2, <2>3 DEF Publishing, Publish
<1>4. /\ pub' \in [Publishers -> {"none", "command", "rlock", "loop", "send", "returned"}]
      /\ \A q \in Publishers : pub'[q] = IF q = p THEN l ELSE pub[q]
  BY <1>3 DEF IInv, TypeOK
<1>5. LifeOK'
  BY <1>1, <1>2, <1>4 DEF IInv, TypeOK, LifeOK
<1>6. /\ readers' = IF l = "returned" THEN readers \ {p} ELSE readers \union {p}
      /\ l # "returned" => ~closed
  <2>1. CASE PublishEnter(p)
    BY <1>4, <2>1 DEF PublishEnter, IInv, LockOK, Goto, Dropped
  <2>2. CASE PublishSkip(p) \/ PublishAdd(p) \/ PublishSend(p)
    <3>1. p \in readers /\ ~closed /\ readers' = readers
      BY <2>2, CursorFacts DEF PublishSkip, PublishAdd, PublishSend
    <3>2. l \in {"loop", "send"}
      BY <1>4, <2>2, <3>1 DEF PublishSkip, PublishAdd, PublishSend, Goto
    <3> QED BY <3>1, <3>2
  <2>3. CASE PublishReturn(p)
    BY <1>4, <2>3 DEF PublishReturn, Goto
  <2> QED BY <2>1, <2>2, <2>3 DEF Publishing, Publish
<1>7. LockOK'
  BY <1>1, <1>4, <1>6 DEF IInv, LockOK
<1>8. ASSUME NEW q \in Publishers PROVE CursorOK(q)'
  <2>1. CursorOK(q) /\ pub'[q] = IF q = p THEN l ELSE pub[q]
    BY <1>4 DEF IInv
  <2>2. CASE q # p
    <3>1. at'[q] = at[q]
      BY <2>2, AdvanceFacts DEF Publishing, Publish, PublishEnter, PublishSkip,
         PublishAdd, PublishSend, PublishReturn, IInv, CursorOK
    <3> QED BY <1>1, <2>1, <2>2, <3>1 DEF CursorOK, LoopsDone, SubscriberAt
  <2>3. CASE q = p /\ UNCHANGED at
    <3>1. pub[p] # "rlock" => (l = "send" => ~LoopsDone(p) /\ Matches(SubscriberAt(p), p, at[p].ev))
      BY <1>4, <2>3, CursorFacts DEF Publishing, Publish, PublishEnter, PublishSkip,
         PublishAdd, PublishSend, PublishReturn, Goto, IInv, CursorOK
    <3>2. pub[p] = "rlock" => l # "send"
      BY <1>4 DEF Publishing, Publish, PublishEnter, PublishSkip,
         PublishAdd, PublishSend, PublishReturn, Goto
    <3>3. l = "returned" => (LoopsDone(p) \/ pub[p] = "rlock")
      BY <1>4 DEF Publishing, Publish, PublishEnter, PublishSkip,
         PublishAdd, PublishSend, PublishReturn, Goto
    <3> QED BY <1>1, <2>1, <2>3, <3>1, <3>2, <3>3 DEF CursorOK, LoopsDone, SubscriberAt
  <2>4. CASE q = p /\ ~UNCHANGED at
    <3>1. PublishSkip(p) \/ (PublishSend(p) /\ ~closed)
      BY <2>4 DEF Publishing, Publish, PublishEnter, PublishAdd, PublishSend, PublishReturn
    <3>2. ~LoopsDone(p) /\ Advance(p) /\ pub[p] \in {"loop", "send"}
      BY <3>1 DEF PublishSkip, PublishSend, IInv, CursorOK
    <3>3. l = "loop"
      BY <1>4, <3>1 DEF PublishSkip, PublishSend, Goto
    <3>4. /\ at'[p].ev <= Len(Batch[p]) + 1 /\ at'[p].sub <= Len(Wiring)
          /\ at'[p].ev = Len(Batch[p]) + 1 => at'[p].sub = 1
      BY <3>2, AdvanceFacts
    <3> QED BY <2>1, <2>4, <3>3, <3>4 DEF CursorOK
  <2> QED BY <2>2, <2>3, <2>4
<1>9. TypeOK'
  <2>1. at' \in [Publishers -> [ev : Nat \ {0}, sub : Nat \ {0}]]
    BY AdvanceFacts DEF Publishing, Publish, PublishEnter, PublishSkip,
       PublishAdd, PublishSend, PublishReturn, IInv, CursorOK, TypeOK
  <2>2. /\ ch' \in [Subscribers -> Seq(EventRecords)]
        /\ \A s \in Subscribers : Len(ch'[s]) <= BufferSize
    <3>1. CASE UNCHANGED ch
      BY <3>1 DEF IInv, TypeOK
    <3>2. CASE ~UNCHANGED ch
      <4> DEFINE s == SubscriberAt(p)
                 e == EventAt(p)
      <4>1. pub[p] = "send" /\ HasRoom(s) /\ ch' = [ch EXCEPT ![s] = Append(ch[s], e)]
        BY <3>2 DEF Publishing, Publish, PublishEnter, PublishSkip, PublishAdd,
           PublishSend, PublishReturn, queueVars
      <4>2. s \in Subscribers /\ e \in EventRecords
        BY <4>1, CursorFacts
      <4> HIDE DEF s, e
      <4>3. ch \in [Subscribers -> Seq(EventRecords)] /\ ch[s] \in Seq(EventRecords)
        BY <4>2 DEF IInv, TypeOK
      <4>4. /\ Append(ch[s], e) \in Seq(EventRecords)
            /\ Len(Append(ch[s], e)) <= BufferSize
        BY <4>1, <4>2, <4>3, BusAssumption DEF HasRoom
      <4> QED BY <4>1, <4>2, <4>3, <4>4 DEF IInv, TypeOK
    <3> QED BY <3>1, <3>2
  <2>3. crash' = crash
    BY CursorFacts DEF Publishing, Publish, PublishEnter, PublishSkip, PublishAdd,
       PublishSend, PublishReturn, closeVars
  <2>4. readers' \subseteq Publishers
    BY <1>6 DEF IInv, TypeOK
  <2> QED BY <1>1, <1>4, <2>1, <2>2, <2>3, <2>4 DEF IInv, TypeOK
<1> QED BY <1>5, <1>7, <1>8, <1>9 DEF Control

(* The workers move events on and never touch the lock or a publisher. *)
LEMMA WorkerControl ==
  ASSUME IInv, NEW s \in Subscribers, Working(s), inflight' \in Nat
  PROVE  TypeOK' /\ Control'
<1>1. UNCHANGED <<subs, publisherVars, closed, crash, main, active, gone>>
  BY DEF Working, Worker, Receive, Handle, WorkerEnds, closeVars
<1>2. /\ closer' \in {closer, "woken"}
      /\ closer' # closer => closer = "asleep"
  BY DEF Working, Worker, Receive, Handle, WorkerEnds, Done, closeVars
<1>3. LockOK' /\ \A p \in Publishers : CursorOK(p)'
  BY <1>1 DEF IInv, LockOK, CursorOK, LoopsDone, SubscriberAt, publisherVars
<1>4. LifeOK'
  BY <1>1, <1>2 DEF IInv, LifeOK, publisherVars
<1>5. TypeOK'
  <2>1. /\ ch[s] \in Seq(EventRecords) /\ hand[s] \in Seq(EventRecords)
        /\ handled[s] \in Seq(EventRecords) /\ Len(ch[s]) <= BufferSize
    BY DEF IInv, TypeOK
  <2>2. CASE Receive(s)
    <3>1. ch[s] # <<>> /\ UNCHANGED <<handled, stopped, closer>>
      BY <2>2 DEF Receive, MayReceive, closeVars
    <3>2. /\ Tail(ch[s]) \in Seq(EventRecords) /\ Len(Tail(ch[s])) <= BufferSize
          /\ <<Head(ch[s])>> \in Seq(EventRecords) /\ Len(<<Head(ch[s])>>) = 1
      <4>1. Head(ch[s]) \in EventRecords /\ Tail(ch[s]) \in Seq(EventRecords)
            /\ Len(Tail(ch[s])) = Len(ch[s]) - 1 /\ Len(ch[s]) \in Nat
        BY <2>1, <3>1, HeadTailProperties
      <4>2. <<Head(ch[s])>> \in Seq(EventRecords) /\ Len(<<Head(ch[s])>>) = 1
        BY <4>1
      <4>3. Len(ch[s]) - 1 <= BufferSize
        BY <2>1, <4>1, BusAssumption
      <4> QED BY <4>1, <4>2, <4>3
    <3>3. /\ ch' \in [Subscribers -> Seq(EventRecords)]
          /\ hand' \in [Subscribers -> Seq(EventRecords)]
          /\ \A q \in Subscribers : Len(ch'[q]) <= BufferSize /\ Len(hand'[q]) <= 1
      <4> DEFINE h == <<Head(ch[s])>>
                 t == Tail(ch[s])
      <4>1. hand' = [hand EXCEPT ![s] = h] /\ ch' = [ch EXCEPT ![s] = t]
        BY <2>2 DEF Receive
      <4>2. /\ t \in Seq(EventRecords) /\ Len(t) <= BufferSize
            /\ h \in Seq(EventRecords) /\ Len(h) <= 1
        BY <3>2
      <4> HIDE DEF h, t
      <4> QED BY <4>1, <4>2 DEF IInv, TypeOK
    <3> QED BY <1>1, <3>1, <3>3 DEF IInv, TypeOK, publisherVars
  <2>3. CASE Handle(s)
    <3>1. /\ handled' = [handled EXCEPT ![s] = handled[s] \o hand[s]]
          /\ hand' = [hand EXCEPT ![s] = <<>>]
          /\ UNCHANGED <<ch, stopped>>
      BY <2>3 DEF Handle
    <3>2. handled[s] \o hand[s] \in Seq(EventRecords)
      BY <2>1, ConcatProperties
    <3>3. handled' \in [Subscribers -> Seq(EventRecords)]
      BY <3>1, <3>2 DEF IInv, TypeOK
    <3>4. /\ hand' \in [Subscribers -> Seq(EventRecords)]
          /\ \A q \in Subscribers : Len(hand'[q]) <= 1
      <4>1. <<>> \in Seq(EventRecords) /\ Len(<<>>) = 0
        BY EmptySeq
      <4>2. /\ hand \in [Subscribers -> Seq(EventRecords)]
            /\ \A q \in Subscribers : Len(hand[q]) <= 1
        BY DEF IInv, TypeOK
      <4> QED BY <3>1, <4>1, <4>2
    <3> QED BY <1>1, <1>2, <3>1, <3>3, <3>4 DEF IInv, TypeOK, publisherVars
  <2>4. CASE WorkerEnds(s)
    BY <1>1, <2>4 DEF WorkerEnds, IInv, TypeOK, publisherVars, closeVars
  <2> QED BY <2>2, <2>3, <2>4 DEF Working, Worker
<1> QED BY <1>3, <1>4, <1>5 DEF Control

(***************************************************************************)
(* The WaitGroup's count.                                                  *)
(***************************************************************************)
(* Moving an event from one place to another does not change how many      *)
(* there are.                                                              *)
LEMMA MovedCount ==
  ASSUME NEW T, IsFiniteSet(T), NEW x \in T, NEW y, y \notin T
  PROVE  /\ IsFiniteSet((T \ {x}) \union {y})
         /\ Cardinality((T \ {x}) \union {y}) = Cardinality(T)
<1> DEFINE R == T \ {x}
<1>1. IsFiniteSet(R) /\ Cardinality(R) = Cardinality(T) - 1
  BY FS_RemoveElement
<1>2. y \notin R
  OBVIOUS
<1>3. /\ IsFiniteSet(R \union {y})
      /\ Cardinality(R \union {y}) = Cardinality(R) + 1
  BY <1>1, <1>2, FS_AddElement
<1>4. Cardinality(T) \in Nat
  BY FS_CardinalityType
<1> QED BY <1>1, <1>3, <1>4

(* While the count is 0 no channel and no worker holds an event. *)
LEMMA NothingHeld ==
  ASSUME IInv, inflight = 0
  PROVE  /\ \A s \in Subscribers : ch[s] = <<>> /\ hand[s] = <<>>
         /\ \A p \in Publishers : pub[p] # "send"
<1>1. Tokens = {}
  BY FS_EmptySet DEF IInv, CountOK
<1>2. ASSUME NEW s \in Subscribers PROVE ch[s] = <<>> /\ hand[s] = <<>>
  <2>1. ch[s] \in Seq(EventRecords)
    BY DEF IInv, TypeOK
  <2>2. ~Held(s, 0) /\ ~Held(s, 1)
    <3>1. /\ <<s, 0>> \in (Subscribers \union Publishers) \X Int
          /\ <<s, 1>> \in (Subscribers \union Publishers) \X Int
          /\ <<s, 0>>[1] = s /\ <<s, 0>>[2] = 0 /\ <<s, 1>>[1] = s /\ <<s, 1>>[2] = 1
      OBVIOUS
    <3> QED BY <1>1, <3>1, Zenon DEF Tokens
  <2> QED BY <2>1, <2>2 DEF Held
<1>3. ASSUME NEW p \in Publishers PROVE pub[p] # "send"
  <2>1. ~Held(p, -1)
    <3>1. /\ <<p, -1>> \in (Subscribers \union Publishers) \X Int
          /\ <<p, -1>>[1] = p /\ <<p, -1>>[2] = -1
      OBVIOUS
    <3> QED BY <1>1, <3>1, Zenon DEF Tokens
  <2> QED BY <2>1 DEF Held
<1> QED BY <1>2, <1>3

(* A step that leaves the places alone, or fails to touch the count. *)
LEMMA CountQuiet ==
  ASSUME IInv, UNCHANGED <<ch, hand, inflight>>,
         \A p \in Publishers : pub'[p] = "send" <=> pub[p] = "send"
  PROVE  CountOK'
<1>1. Tokens' = Tokens
  BY DEF Tokens, Held
<1> QED BY <1>1 DEF IInv, CountOK

LEMMA AddCount ==
  ASSUME IInv, NEW p \in Publishers, PublishAdd(p)
  PROVE  CountOK'
<1>1. Tokens' = Tokens \union {<<p, -1>>} /\ <<p, -1>> \notin Tokens
  <2>1. /\ UNCHANGED <<ch, hand>> /\ pub[p] = "loop"
        /\ \A q \in Publishers : pub'[q] = IF q = p THEN "send" ELSE pub[q]
    BY DEF PublishAdd, Goto, queueVars, IInv, TypeOK
  <2>2. <<p, -1>> \notin Tokens
    BY <2>1 DEF Tokens, Held
  <2>3. ASSUME NEW t \in (Subscribers \union Publishers) \X Int
        PROVE  Held(t[1], t[2])' <=> (Held(t[1], t[2]) \/ t = <<p, -1>>)
    BY <2>1 DEF Held
  <2> QED BY <2>2, <2>3 DEF Tokens
<1>2. IsFiniteSet(Tokens) /\ Cardinality(Tokens) = inflight
  BY DEF IInv, CountOK
<1>3. /\ IsFiniteSet(Tokens \union {<<p, -1>>})
      /\ Cardinality(Tokens \union {<<p, -1>>}) = Cardinality(Tokens) + 1
  BY <1>1, <1>2, FS_AddElement
<1> QED BY <1>1, <1>2, <1>3 DEF CountOK, PublishAdd

LEMMA SendCount ==
  ASSUME IInv, NEW p \in Publishers, PublishSend(p)
  PROVE  CountOK'
<1> DEFINE s == SubscriberAt(p)
           x == <<p, -1>>
           y == <<s, Len(ch[s]) + 1>>
<1>1. s \in Subscribers /\ EventAt(p) \in EventRecords /\ ~closed
  BY CursorFacts DEF PublishSend
<1>2. /\ UNCHANGED <<hand, inflight>> /\ pub[p] = "send"
      /\ \A q \in Publishers : pub'[q] = IF q = p THEN "loop" ELSE pub[q]
      /\ ch' = [ch EXCEPT ![s] = Append(ch[s], EventAt(p))]
  BY <1>1 DEF PublishSend, Goto, IInv, TypeOK
<1>3. ch \in [Subscribers -> Seq(EventRecords)] /\ Len(ch[s]) \in Nat
  <2>1. ch \in [Subscribers -> Seq(EventRecords)]
    BY DEF IInv, TypeOK
  <2> HIDE DEF s
  <2> QED BY <1>1, <2>1
<1>4. /\ Len(ch'[s]) = Len(ch[s]) + 1
      /\ \A q \in Subscribers : q # s => ch'[q] = ch[q]
  BY <1>1, <1>2, <1>3
<1> HIDE DEF s
<1>5. x \in Tokens /\ y \notin Tokens
  BY <1>1, <1>2, <1>3 DEF Tokens, Held
<1>6. Tokens' = (Tokens \ {x}) \union {y}
  <2>1. ASSUME NEW t \in (Subscribers \union Publishers) \X Int
        PROVE  Held(t[1], t[2])' <=> ((Held(t[1], t[2]) /\ t # x) \/ t = y)
    BY <1>1, <1>2, <1>3, <1>4 DEF Held
  <2>2. y \in (Subscribers \union Publishers) \X Int
    BY <1>1, <1>3
  <2> QED BY <2>1, <2>2 DEF Tokens
<1> HIDE DEF x, y
<1>7. IsFiniteSet(Tokens) /\ Cardinality(Tokens) = inflight
  BY DEF IInv, CountOK
<1> QED BY <1>2, <1>5, <1>6, <1>7, MovedCount DEF CountOK

LEMMA ReceiveCount ==
  ASSUME IInv, NEW s \in Subscribers, Receive(s)
  PROVE  CountOK'
<1> DEFINE x == <<s, Len(ch[s])>>
           y == <<s, 0>>
<1>1. /\ UNCHANGED <<pub, inflight>> /\ hand[s] = <<>> /\ ch[s] # <<>>
      /\ hand' = [hand EXCEPT ![s] = <<Head(ch[s])>>]
      /\ ch' = [ch EXCEPT ![s] = Tail(ch[s])]
  BY DEF Receive, MayReceive, publisherVars, closeVars
<1>2. /\ ch \in [Subscribers -> Seq(EventRecords)] /\ ch[s] \in Seq(EventRecords)
      /\ hand \in [Subscribers -> Seq(EventRecords)]
  BY DEF IInv, TypeOK
<1>3. Len(ch[s]) \in Nat \ {0} /\ Len(Tail(ch[s])) = Len(ch[s]) - 1
  BY <1>1, <1>2
<1>4. /\ Len(ch'[s]) = Len(ch[s]) - 1 /\ hand'[s] # <<>>
      /\ \A q \in Subscribers : q # s => ch'[q] = ch[q] /\ hand'[q] = hand[q]
  BY <1>1, <1>2, <1>3
<1>5. x \in Tokens /\ y \notin Tokens
  BY <1>1, <1>3 DEF Tokens, Held
<1>6. Tokens' = (Tokens \ {x}) \union {y}
  <2>1. ASSUME NEW t \in (Subscribers \union Publishers) \X Int
        PROVE  Held(t[1], t[2])' <=> ((Held(t[1], t[2]) /\ t # x) \/ t = y)
    BY <1>1, <1>3, <1>4 DEF Held
  <2>2. y \in (Subscribers \union Publishers) \X Int
    OBVIOUS
  <2> QED BY <2>1, <2>2 DEF Tokens
<1> HIDE DEF x, y
<1>7. IsFiniteSet(Tokens) /\ Cardinality(Tokens) = inflight
  BY DEF IInv, CountOK
<1> QED BY <1>1, <1>5, <1>6, <1>7, MovedCount DEF CountOK

LEMMA HandleCount ==
  ASSUME IInv, NEW s \in Subscribers, Handle(s)
  PROVE  CountOK'
<1> DEFINE x == <<s, 0>>
<1>1. /\ UNCHANGED <<pub, ch>> /\ hand[s] # <<>> /\ inflight' = inflight - 1
      /\ hand' = [hand EXCEPT ![s] = <<>>]
  BY DEF Handle, Done, publisherVars
<1>2. hand'[s] = <<>> /\ \A q \in Subscribers : q # s => hand'[q] = hand[q]
  BY <1>1 DEF IInv, TypeOK
<1>3. x \in Tokens
  BY <1>1 DEF Tokens, Held
<1>4. Tokens' = Tokens \ {x}
  <2>1. ASSUME NEW t \in (Subscribers \union Publishers) \X Int
        PROVE  Held(t[1], t[2])' <=> (Held(t[1], t[2]) /\ t # x)
    BY <1>1, <1>2 DEF Held
  <2> QED BY <2>1 DEF Tokens
<1>5. IsFiniteSet(Tokens) /\ Cardinality(Tokens) = inflight
  BY DEF IInv, CountOK
<1> HIDE DEF x
<1>6. IsFiniteSet(Tokens \ {x}) /\ Cardinality(Tokens \ {x}) = Cardinality(Tokens) - 1
  BY <1>3, <1>5, FS_RemoveElement
<1> QED BY <1>1, <1>4, <1>5, <1>6 DEF CountOK

(* Every step keeps the count equal to the events it stands for. *)
LEMMA StepCount ==
  ASSUME IInv, Next
  PROVE  CountOK'
<1>1. CASE Run
  <2>1. UNCHANGED <<ch, hand, inflight, pub>>
    BY <1>1 DEF Run, Terminating, Wire, Subscribe, Listen, ListenFails, Signal,
       ShutdownDone, ShutdownTimeout, CloseBus, Close, CloseWait, CloseWoken,
       CloseReused, CloseLock, CloseChannels, CloseStep, StoppedCleanly, Exit,
       MainStep, busVars, queueVars, publisherVars, closeVars
  <2> QED BY <2>1, CountQuiet
<1>2. ASSUME NEW s \in Subscribers, Working(s) PROVE CountOK'
  <2>1. CASE WorkerEnds(s)
    BY <2>1, CountQuiet DEF WorkerEnds, publisherVars, closeVars
  <2> QED BY <1>2, <2>1, ReceiveCount, HandleCount DEF Working, Worker
<1>3. ASSUME NEW p \in Publishers, Serve(p) \/ Request(p) \/ ClientGone(p)
      PROVE  CountOK'
  <2>1. CASE PublishAdd(p) \/ PublishSend(p)
    BY <2>1, AddCount, SendCount
  <2>2. CASE HandlerReturns(p) \/ ClientGone(p)
    BY <2>2, CountQuiet DEF HandlerReturns, ClientGone, busVars, queueVars,
       publisherVars, closeVars
  <2>3. CASE \/ Serve(p) \/ Command(p) \/ PublishEnter(p) \/ PublishSkip(p)
             \/ PublishReturn(p)
    <3>1. UNCHANGED <<ch, hand, inflight>>
      BY <2>3 DEF Serve, Command, PublishEnter, PublishSkip, PublishReturn,
         queueVars, closeVars
    <3>2. \A q \in Publishers : pub'[q] = "send" <=> pub[q] = "send"
      BY <2>3 DEF Serve, Command, PublishEnter, PublishSkip, PublishReturn, Goto,
         IInv, TypeOK
    <3> QED BY <3>1, <3>2, CountQuiet
  <2> QED BY <1>3, <2>1, <2>2, <2>3 DEF Request, Publishing, Publish
<1> QED BY <1>1, <1>2, <1>3 DEF Next

(***************************************************************************)
(* What the subscribers are sent.                                          *)
(***************************************************************************)
(* The events of p in two sequences put together. *)
LEMMA FromConcat ==
  ASSUME NEW a \in Seq(EventRecords), NEW b \in Seq(EventRecords), NEW p
  PROVE  From(p, a \o b) = From(p, a) \union From(p, b)
<1>1. /\ a \o b \in Seq(EventRecords) /\ Len(a \o b) = Len(a) + Len(b)
      /\ Len(a) \in Nat /\ Len(b) \in Nat
      /\ DOMAIN a = 1 .. Len(a) /\ DOMAIN b = 1 .. Len(b)
      /\ DOMAIN (a \o b) = 1 .. Len(a) + Len(b)
      /\ \A i \in 1 .. Len(a) + Len(b) :
           (a \o b)[i] = IF i <= Len(a) THEN a[i] ELSE b[i - Len(a)]
  BY ConcatProperties, LenProperties
<1>2. ASSUME NEW n \in From(p, a \o b) PROVE n \in From(p, a) \union From(p, b)
  <2>1. PICK i \in 1 .. Len(a) + Len(b) : (a \o b)[i].from = p /\ n = (a \o b)[i].nr
    BY <1>1 DEF From
  <2>2. CASE i <= Len(a)
    BY <1>1, <2>1, <2>2 DEF From
  <2>3. CASE i > Len(a)
    <3>1. i - Len(a) \in DOMAIN b /\ (a \o b)[i] = b[i - Len(a)]
      BY <1>1, <2>1, <2>3
    <3> QED BY <2>1, <3>1 DEF From
  <2> QED BY <1>1, <2>1, <2>2, <2>3
<1>3. ASSUME NEW n \in From(p, a) PROVE n \in From(p, a \o b)
  <2>1. PICK i \in 1 .. Len(a) : a[i].from = p /\ n = a[i].nr
    BY <1>1 DEF From
  <2>2. i \in DOMAIN (a \o b) /\ (a \o b)[i] = a[i]
    BY <1>1, <2>1
  <2> QED BY <2>1, <2>2 DEF From
<1>4. ASSUME NEW n \in From(p, b) PROVE n \in From(p, a \o b)
  <2>1. PICK i \in 1 .. Len(b) : b[i].from = p /\ n = b[i].nr
    BY <1>1 DEF From
  <2>2. i + Len(a) \in DOMAIN (a \o b) /\ (a \o b)[i + Len(a)] = b[i]
    BY <1>1, <2>1
  <2> QED BY <2>1, <2>2 DEF From
<1> QED BY <1>2, <1>3, <1>4

(* Taking the head off and putting it back in front. *)
LEMMA HeadFirst ==
  ASSUME NEW a \in Seq(EventRecords), NEW c \in Seq(EventRecords), c # <<>>
  PROVE  /\ <<Head(c)>> \o Tail(c) = c
         /\ (a \o <<Head(c)>>) \o Tail(c) = a \o c
<1> DEFINE x == <<Head(c)>>
           t == Tail(c)
<1>1. /\ Head(c) \in EventRecords /\ t \in Seq(EventRecords) /\ Len(t) = Len(c) - 1 /\ Len(c) \in Nat
      /\ \A i \in 1 .. Len(t) : t[i] = c[i + 1]
  BY HeadTailProperties, LenProperties
<1>2. x \in Seq(EventRecords) /\ Len(x) = 1 /\ x[1] = c[1]
  BY <1>1
<1> HIDE DEF x, t
<1>3. /\ x \o t \in Seq(EventRecords) /\ Len(x \o t) = Len(x) + Len(t)
      /\ \A i \in 1 .. Len(x) + Len(t) :
           (x \o t)[i] = IF i <= Len(x) THEN x[i] ELSE t[i - Len(x)]
  <2>1. x \in Seq(EventRecords) /\ t \in Seq(EventRecords)
    BY <1>1, <1>2
  <2> QED BY <2>1, ConcatProperties, Zenon
<1>4. Len(x \o t) = Len(c)
  BY <1>1, <1>2, <1>3
<1>5. \A i \in 1 .. Len(x \o t) : (x \o t)[i] = c[i]
  BY <1>1, <1>2, <1>3
<1>6. x \o t = c
  BY <1>3, <1>4, <1>5, SeqEqual
<1>7. (a \o x) \o t = a \o (x \o t)
  <2>1. a \in Seq(EventRecords) /\ x \in Seq(EventRecords) /\ t \in Seq(EventRecords)
    BY <1>1, <1>2
  <2>2. \A u, v, w \in Seq(EventRecords) : (u \o v) \o w = u \o (v \o w)
    BY ConcatAssociative
  <2> QED BY <2>1, <2>2
<1> QED BY <1>6, <1>7 DEF x, t

(* One event more at the end: the order is kept if it is the highest of    *)
(* its publisher.                                                          *)
LEMMA AppendFrom ==
  ASSUME NEW l \in Seq(EventRecords), NEW e \in EventRecords
  PROVE  /\ From(e.from, Append(l, e)) = From(e.from, l) \union {e.nr}
         /\ \A p : p # e.from => From(p, Append(l, e)) = From(p, l)
         /\ (Increasing(l) /\ \A n \in From(e.from, l) : n < e.nr)
              => Increasing(Append(l, e))
<1>1. /\ DOMAIN l = 1 .. Len(l) /\ Len(l) \in Nat
      /\ DOMAIN Append(l, e) = 1 .. Len(l) + 1
      /\ \A i \in 1 .. Len(l) : Append(l, e)[i] = l[i]
      /\ Append(l, e)[Len(l) + 1] = e
  BY AppendProperties, LenProperties
<1>2. From(e.from, Append(l, e)) = From(e.from, l) \union {e.nr}
  BY <1>1 DEF From
<1>3. ASSUME NEW p, p # e.from PROVE From(p, Append(l, e)) = From(p, l)
  BY <1>1, <1>3 DEF From
<1>4. ASSUME Increasing(l), \A n \in From(e.from, l) : n < e.nr
      PROVE  Increasing(Append(l, e))
  <2>1. \A i \in 1 .. Len(l) : l[i].from = e.from => l[i].nr < e.nr
    BY <1>1, <1>4 DEF From
  <2> QED BY <1>1, <1>4, <2>1 DEF Increasing
<1> QED BY <1>2, <1>3, <1>4

(* Moving the loops on by one: exactly the subscriber and the event they   *)
(* were at become passed, and they were not before.                        *)
LEMMA AdvancePasses ==
  ASSUME IInv, NEW p \in Publishers, pub[p] \in {"loop", "send"}, ~LoopsDone(p),
         Advance(p), UNCHANGED subs
  PROVE  /\ at[p].ev \in 1 .. Len(Batch[p])
         /\ \A s \in Subscribers, n \in 1 .. Len(Batch[p]) :
              Passed(p, s, n)' <=> \/ Passed(p, s, n)
                                   \/ s = SubscriberAt(p) /\ n = at[p].ev
         /\ \A n \in 1 .. Len(Batch[p]) :
              Passed(p, SubscriberAt(p), n) => n < at[p].ev
         /\ \A q \in Publishers, s \in Subscribers, n \in Nat :
              q # p => (Passed(q, s, n)' <=> Passed(q, s, n))
<1> DEFINE m == at[p].ev
           k == at[p].sub
<1>1. /\ subs = Wiring /\ k \in 1 .. Len(subs) /\ m \in Nat \ {0}
      /\ SubscriberAt(p) = subs[k]
  BY CursorFacts DEF SubscriberAt
<1>2. /\ at'[p] = IF k < Len(subs) THEN [ev |-> m, sub |-> k + 1]
                                   ELSE [ev |-> m + 1, sub |-> 1]
      /\ \A q \in Publishers : q # p => at'[q] = at[q]
  BY AdvanceFacts
<1>3. Len(Batch[p]) \in Nat /\ m <= Len(Batch[p])
  BY <1>1, BusAssumption DEF LoopsDone
<1>4. /\ Len(subs) \in Nat /\ DOMAIN subs = 1 .. Len(subs)
      /\ \A i, j \in 1 .. Len(subs) : subs[i] = subs[j] => i = j
      /\ \A s \in Subscribers : \E i \in 1 .. Len(subs) : subs[i] = s
  <2>1. Len(Wiring) \in Nat /\ DOMAIN Wiring = 1 .. Len(Wiring)
    BY ShutdownAssumption
  <2> QED BY <1>1, <2>1, ShutdownAssumption DEF IsInjective, Range
<1>5. ASSUME NEW s \in Subscribers, NEW n \in 1 .. Len(Batch[p])
      PROVE  Passed(p, s, n)' <=> (Passed(p, s, n) \/ (s = subs[k] /\ n = m))
  <2> DEFINE Before(j) == \E i \in 1 .. j - 1 : subs[i] = s
  <2>1. Passed(p, s, n) <=> (n < m \/ (n = m /\ Before(k)))
    BY DEF Passed
  <2>2. CASE k < Len(subs)
    <3>1. at'[p].ev = m /\ at'[p].sub = k + 1
      BY <1>2, <2>2
    <3>2. Passed(p, s, n)' <=> (n < m \/ (n = m /\ Before(k + 1)))
      BY <3>1 DEF Passed
    <3>3. Before(k + 1) <=> (Before(k) \/ subs[k] = s)
      BY <1>1
    <3> HIDE DEF Before
    <3> QED BY <2>1, <3>2, <3>3
  <2>3. CASE k = Len(subs)
    <3>1. at'[p].ev = m + 1 /\ at'[p].sub = 1
      BY <1>2, <1>4, <2>3
    <3>2. Passed(p, s, n)' <=> n < m + 1
      BY <1>1, <3>1 DEF Passed
    <3>3. Before(k) \/ subs[k] = s
      BY <1>1, <1>4, <2>3
    <3> HIDE DEF Before
    <3> QED BY <1>1, <2>1, <3>2, <3>3
  <2> QED BY <1>1, <1>4, <2>2, <2>3
<1>6. ASSUME NEW n \in 1 .. Len(Batch[p]), Passed(p, subs[k], n) PROVE n < m
  BY <1>1, <1>4, <1>6 DEF Passed
<1>7. ASSUME NEW q \in Publishers, NEW s \in Subscribers, NEW n \in Nat, q # p
      PROVE  Passed(q, s, n)' <=> Passed(q, s, n)
  BY <1>2, <1>7 DEF Passed
<1> QED BY <1>1, <1>3, <1>5, <1>6, <1>7

(* Nothing was sent and the loops of nobody moved. *)
LEMMA SentQuiet ==
  ASSUME IInv, \A s \in Subscribers : Sent(s)' = Sent(s),
         \A p \in Publishers, s \in Subscribers, n \in Nat :
           n \in Wanted(p, s) => (Passed(p, s, n)' <=> Passed(p, s, n))
  PROVE  SentOK'
<1>1. \A p \in Publishers, s \in Subscribers : Wanted(p, s) \subseteq Nat
  BY DEF Wanted
<1>2. ASSUME NEW s \in Subscribers, NEW p \in Publishers
      PROVE  From(p, Sent(s)') = {n \in Wanted(p, s) : Passed(p, s, n)'}
  <2>1. From(p, Sent(s)) = {n \in Wanted(p, s) : Passed(p, s, n)}
    BY DEF IInv, SentOK
  <2>2. \A n \in Wanted(p, s) : Passed(p, s, n)' <=> Passed(p, s, n)
    BY <1>1
  <2> QED BY <2>1, <2>2
<1>3. \A s \in Subscribers : Increasing(Sent(s)')
  BY DEF IInv, SentOK
<1> QED BY <1>2, <1>3 DEF SentOK, From, Increasing, Wanted, Matches

(* The worker moves an event along the line and changes nothing in it. *)
LEMMA WorkerSent ==
  ASSUME IInv, NEW s \in Subscribers, Working(s)
  PROVE  SentOK'
<1> DEFINE a == handled[s]
           h == hand[s]
           c == ch[s]
<1>1. a \in Seq(EventRecords) /\ h \in Seq(EventRecords) /\ c \in Seq(EventRecords)
  BY DEF IInv, TypeOK
<1>2. /\ handled \in [Subscribers -> Seq(EventRecords)]
      /\ hand \in [Subscribers -> Seq(EventRecords)]
      /\ ch \in [Subscribers -> Seq(EventRecords)]
  BY DEF IInv, TypeOK
<1>3. \A q \in Subscribers : q # s => Sent(q)' = Sent(q)
  BY <1>2 DEF Working, Worker, Receive, Handle, WorkerEnds, Sent
<1>4. Sent(s)' = Sent(s)
  <2>1. CASE Receive(s)
    <3>1. h = <<>> /\ c # <<>>
      BY <2>1 DEF Receive, MayReceive
    <3>2. Sent(s) = a \o c
      BY <1>1, <3>1, ConcatEmptySeq DEF Sent
    <3>3. handled'[s] = a /\ hand'[s] = <<Head(c)>> /\ ch'[s] = Tail(c)
      BY <1>2, <2>1 DEF Receive
    <3>4. (a \o <<Head(c)>>) \o Tail(c) = a \o c
      <4>1. \A u, v \in Seq(EventRecords) :
              v # <<>> => (u \o <<Head(v)>>) \o Tail(v) = u \o v
        BY HeadFirst
      <4> HIDE DEF a, c
      <4> QED BY <1>1, <3>1, <4>1
    <3> QED BY <3>2, <3>3, <3>4 DEF Sent
  <2>2. CASE Handle(s)
    <3>1. handled'[s] = a \o h /\ hand'[s] = <<>> /\ ch'[s] = c
      BY <1>2, <2>2 DEF Handle
    <3>2. a \o h \in Seq(EventRecords)
      BY <1>1, ConcatProperties
    <3>3. (a \o h) \o <<>> = a \o h
      BY <3>2, ConcatEmptySeq
    <3> QED BY <3>1, <3>3 DEF Sent
  <2>3. CASE WorkerEnds(s)
    BY <2>3 DEF WorkerEnds, Sent
  <2> QED BY <2>1, <2>2, <2>3 DEF Working, Worker
<1>5. UNCHANGED <<at, subs>>
  BY DEF Working, Worker, Receive, Handle, WorkerEnds, publisherVars
<1> QED BY <1>3, <1>4, <1>5, SentQuiet DEF Passed

(* A send puts the event the loops are at behind everything sent before,   *)
(* and behind everything of its batch.                                     *)
LEMMA SendSent ==
  ASSUME IInv, NEW p \in Publishers, PublishSend(p)
  PROVE  SentOK'
<1>1. PICK s \in Subscribers, e \in EventRecords :
        s = SubscriberAt(p) /\ e = EventAt(p) /\ ~closed
  BY CursorFacts DEF PublishSend
<1>2. ~LoopsDone(p) /\ Matches(s, p, at[p].ev) /\ pub[p] \in {"loop", "send"}
  BY <1>1 DEF PublishSend, IInv, CursorOK
<1>3. /\ UNCHANGED <<handled, hand, subs>> /\ Advance(p)
      /\ ch' = [ch EXCEPT ![s] = Append(ch[s], e)]
  BY <1>1 DEF PublishSend
<1>4. /\ at[p].ev \in 1 .. Len(Batch[p])
      /\ \A q \in Subscribers, n \in 1 .. Len(Batch[p]) :
           Passed(p, q, n)' <=> (Passed(p, q, n) \/ (q = s /\ n = at[p].ev))
      /\ \A n \in 1 .. Len(Batch[p]) : Passed(p, s, n) => n < at[p].ev
      /\ \A o \in Publishers, q \in Subscribers, n \in Nat :
           o # p => (Passed(o, q, n)' <=> Passed(o, q, n))
  BY <1>1, <1>2, <1>3, AdvancePasses
<1>5. e.from = p /\ e.nr = at[p].ev
  BY <1>1 DEF EventAt
<1>6. /\ Sent(s) \in Seq(EventRecords) /\ Sent(s)' = Append(Sent(s), e)
      /\ \A q \in Subscribers : q # s => Sent(q)' = Sent(q)
  <2>1. /\ ch \in [Subscribers -> Seq(EventRecords)] /\ ch[s] \in Seq(EventRecords)
        /\ handled[s] \in Seq(EventRecords) /\ hand[s] \in Seq(EventRecords)
    BY <1>1 DEF IInv, TypeOK
  <2> DEFINE b == handled[s] \o hand[s]
             c == ch[s]
  <2>2. b \in Seq(EventRecords) /\ c \in Seq(EventRecords)
    BY <2>1, ConcatProperties
  <2>3. ch'[s] = Append(c, e) /\ \A q \in Subscribers : q # s => ch'[q] = ch[q]
    BY <1>1, <1>3, <2>1
  <2>4. Sent(s) = b \o c /\ Sent(s)' = b \o Append(c, e)
    BY <1>3, <2>3 DEF Sent
  <2> HIDE DEF b, c
  <2>5. b \o c \in Seq(EventRecords) /\ <<e>> \in Seq(EventRecords)
    BY <1>1, <2>2, ConcatProperties
  <2>6. Append(c, e) = c \o <<e>> /\ Append(b \o c, e) = (b \o c) \o <<e>>
    BY <1>1, <2>2, <2>5, AppendIsConcat
  <2>7. (b \o c) \o <<e>> = b \o (c \o <<e>>)
    BY <2>2, <2>5, ConcatAssociative
  <2>8. \A q \in Subscribers : q # s => Sent(q)' = Sent(q)
    BY <1>3, <2>3 DEF Sent
  <2> QED BY <2>4, <2>5, <2>6, <2>7, <2>8
<1>7. /\ \A o \in Publishers, q \in Subscribers : Wanted(o, q) \subseteq Nat
      /\ \A q \in Subscribers : Wanted(p, q) \subseteq 1 .. Len(Batch[p])
      /\ at[p].ev \in Wanted(p, s)
  BY <1>2, <1>4 DEF Wanted
<1>8. \A o \in Publishers, q \in Subscribers :
        From(o, Sent(q)) = {n \in Wanted(o, q) : Passed(o, q, n)}
  BY DEF IInv, SentOK
<1>9. ASSUME NEW o \in Publishers, NEW q \in Subscribers
      PROVE  From(o, Sent(q)') = {n \in Wanted(o, q) : Passed(o, q, n)'}
  <2>1. CASE q # s
    <3>1. Sent(q)' = Sent(q)
      BY <1>6, <2>1
    <3>2. \A n \in Wanted(o, q) : Passed(o, q, n)' <=> Passed(o, q, n)
      BY <1>4, <1>7, <2>1
    <3> QED BY <1>8, <3>1, <3>2
  <2>2. CASE q = s /\ o # p
    <3>1. From(o, Sent(q)') = From(o, Sent(q))
      <4>1. \A x : x # e.from => From(x, Append(Sent(s), e)) = From(x, Sent(s))
        BY <1>6, AppendFrom
      <4>2. From(o, Append(Sent(s), e)) = From(o, Sent(s))
        BY <1>5, <2>2, <4>1
      <4> QED BY <1>6, <2>2, <4>2
    <3>2. \A n \in Wanted(o, q) : Passed(o, q, n)' <=> Passed(o, q, n)
      BY <1>4, <1>7, <2>2
    <3> QED BY <1>8, <3>1, <3>2
  <2>3. CASE q = s /\ o = p
    <3>1. From(p, Sent(s)') = From(p, Sent(s)) \union {at[p].ev}
      BY <1>1, <1>5, <1>6, AppendFrom
    <3>2. \A n \in Wanted(p, s) : Passed(p, s, n)' <=> (Passed(p, s, n) \/ n = at[p].ev)
      BY <1>1, <1>4, <1>7
    <3> QED BY <1>1, <1>7, <1>8, <2>3, <3>1, <3>2
  <2> QED BY <2>1, <2>2, <2>3
<1>10. ASSUME NEW q \in Subscribers PROVE Increasing(Sent(q)')
  <2>1. Increasing(Sent(q))
    BY DEF IInv, SentOK
  <2>2. CASE q # s
    BY <1>6, <2>1, <2>2
  <2>3. CASE q = s
    <3>1. \A n \in From(p, Sent(s)) : n < e.nr
      BY <1>1, <1>4, <1>5, <1>7, <1>8
    <3> QED BY <1>1, <1>5, <1>6, <2>1, <2>3, <3>1, AppendFrom
  <2> QED BY <2>2, <2>3
<1> QED BY <1>9, <1>10 DEF SentOK, From, Increasing, Wanted, Matches

(* No step repeats, reorders or drops an event of a batch. *)
LEMMA StepSent ==
  ASSUME IInv, Next
  PROVE  SentOK'
<1>1. CASE Wire
  <2>1. main = "wiring" /\ UNCHANGED <<handled, hand, ch, at>>
    BY <1>1 DEF Wire, Subscribe, publisherVars
  <2>2. \A p \in Publishers : at[p].sub = 1
    BY <2>1 DEF IInv, LifeOK, CursorOK
  <2>3. \A p \in Publishers, s \in Subscribers, n \in Nat :
          Passed(p, s, n)' <=> Passed(p, s, n)
    BY <2>1, <2>2 DEF Passed
  <2>4. \A s \in Subscribers : Sent(s)' = Sent(s)
    BY <2>1 DEF Sent
  <2> QED BY <2>3, <2>4, SentQuiet
<1>2. CASE Run /\ ~Wire
  <2>1. UNCHANGED <<handled, hand, ch, at, subs>>
    BY <1>2 DEF Run, Terminating, Listen, ListenFails, Signal,
       ShutdownDone, ShutdownTimeout, CloseBus, Close, CloseWait, CloseWoken,
       CloseReused, CloseLock, CloseChannels, CloseStep, StoppedCleanly, Exit,
       MainStep, busVars, queueVars, publisherVars, closeVars
  <2> QED BY <2>1, SentQuiet DEF Sent, Passed
<1>3. ASSUME NEW s \in Subscribers, Working(s) PROVE SentOK'
  BY <1>3, WorkerSent
<1>4. ASSUME NEW p \in Publishers, Serve(p) \/ Request(p) \/ ClientGone(p)
      PROVE  SentOK'
  <2>1. CASE PublishSend(p)
    BY <2>1, SendSent
  <2>2. CASE PublishSkip(p)
    <3>1. UNCHANGED <<handled, hand, ch, subs>> /\ Advance(p) /\ ~LoopsDone(p)
          /\ pub[p] \in {"loop", "send"} /\ ~Matches(SubscriberAt(p), p, at[p].ev)
      BY <2>2 DEF PublishSkip, queueVars
    <3>2. /\ \A s \in Subscribers, n \in 1 .. Len(Batch[p]) :
               Passed(p, s, n)' <=> \/ Passed(p, s, n)
                                    \/ s = SubscriberAt(p) /\ n = at[p].ev
          /\ \A q \in Publishers, s \in Subscribers, n \in Nat :
               q # p => (Passed(q, s, n)' <=> Passed(q, s, n))
      BY <3>1, AdvancePasses
    <3>3. ASSUME NEW q \in Publishers, NEW s \in Subscribers, NEW n \in Nat,
                 n \in Wanted(q, s)
          PROVE  Passed(q, s, n)' <=> Passed(q, s, n)
      <4>1. n \in 1 .. Len(Batch[q]) /\ Matches(s, q, n)
        BY <3>3 DEF Wanted
      <4> QED BY <3>1, <3>2, <4>1
    <3>4. \A s \in Subscribers : Sent(s)' = Sent(s)
      BY <3>1 DEF Sent
    <3> QED BY <3>3, <3>4, SentQuiet
  <2>3. CASE ~PublishSend(p) /\ ~PublishSkip(p)
    <3>1. UNCHANGED <<handled, hand, ch, at, subs>>
      BY <1>4, <2>3 DEF Request, Serve, Command, Publishing, Publish, PublishEnter,
         PublishAdd, PublishReturn, HandlerReturns, ClientGone, busVars, queueVars,
         publisherVars
    <3> QED BY <3>1, SentQuiet DEF Sent, Passed
  <2> QED BY <2>1, <2>2, <2>3
<1> QED BY <1>1, <1>2, <1>3, <1>4 DEF Next

(***************************************************************************)
(* Close.                                                                  *)
(***************************************************************************)
(* While Close runs, only a command that outlived its handler publishes. *)
LEMMA OnlyGonePublish ==
  ASSUME IInv, closer # "open", NEW p \in Publishers,
         pub[p] \notin {"none", "returned"}
  PROVE  p \in gone
BY DEF IInv, LifeOK

(* The wait of Close lets go only when nothing is held. *)
LEMMA CloseClose ==
  ASSUME IInv, CloseBus
  PROVE  CloseOK'
<1>1. UNCHANGED <<hand, ch, inflight, gone>>
  BY DEF CloseBus, Close, CloseWait, CloseWoken, CloseReused, CloseLock, CloseChannels,
     CloseStep, queueVars
<1>2. closer' = "woken" => closer = "woken"
  BY DEF CloseBus, Close, CloseWait, CloseWoken, CloseReused, CloseLock, CloseChannels,
     CloseStep
<1>3. closer' \in {"lock", "locking", "closed"} =>
        \/ inflight = 0
        \/ closer \in {"lock", "locking", "closed"}
  BY DEF CloseBus, Close, CloseWait, CloseWoken, CloseReused, CloseLock, CloseChannels,
     CloseStep, Drained
<1>4. inflight = 0 => \A p \in Publishers, s \in Subscribers : From(p, hand[s] \o ch[s]) = {}
  <2>1. \A p : From(p, <<>> \o <<>>) = {}
    BY DEF From
  <2> QED BY <2>1, NothingHeld
<1> QED BY <1>1, <1>2, <1>3, <1>4 DEF IInv, CloseOK

(* What a worker holds and has queued only shrinks, and Done wakes Close   *)
(* only at 0.                                                              *)
LEMMA WorkerClose ==
  ASSUME IInv, NEW s \in Subscribers, Working(s)
  PROVE  CloseOK'
<1>1. /\ hand \in [Subscribers -> Seq(EventRecords)]
      /\ ch \in [Subscribers -> Seq(EventRecords)] /\ inflight \in Nat
  BY DEF IInv, TypeOK
<1>2. UNCHANGED gone
  BY DEF Working
<1>3. closer' = closer \/ (closer' = "woken" /\ inflight' = 0)
  BY <1>1 DEF Working, Worker, Receive, Handle, WorkerEnds, Done, closeVars
<1>4. closer = "woken" /\ gone = {} => inflight' = 0
  <2>1. CASE Handle(s)
    BY <2>1, NothingHeld DEF Handle, IInv, CloseOK
  <2>2. CASE Receive(s) \/ WorkerEnds(s)
    BY <2>2 DEF Receive, WorkerEnds, closeVars, IInv, CloseOK
  <2> QED BY <2>1, <2>2 DEF Working, Worker
<1>5. ASSUME NEW p \in Publishers, NEW q \in Subscribers
      PROVE  From(p, hand'[q] \o ch'[q]) \subseteq From(p, hand[q] \o ch[q])
  <2>1. CASE q # s
    BY <1>1, <2>1 DEF Working, Worker, Receive, Handle, WorkerEnds
  <2>2. CASE q = s /\ Receive(s)
    <3> DEFINE c == ch[s]
    <3>1. /\ hand[s] = <<>> /\ c # <<>> /\ c \in Seq(EventRecords)
          /\ hand'[s] = <<Head(c)>> /\ ch'[s] = Tail(c)
      BY <1>1, <2>2 DEF Receive, MayReceive
    <3>2. <<>> \o c = c
      BY <3>1, ConcatEmptySeq
    <3>3. <<Head(c)>> \o Tail(c) = c
      BY <3>1, HeadFirst
    <3> HIDE DEF c
    <3>4. hand'[s] \o ch'[s] = hand[s] \o ch[s]
      BY <3>1, <3>2, <3>3 DEF c
    <3> QED BY <2>2, <3>4
  <2>3. CASE q = s /\ Handle(s)
    <3>1. hand'[s] = <<>> /\ ch'[s] = ch[s]
      BY <1>1, <2>3 DEF Handle
    <3>2. ch[s] \in Seq(EventRecords) /\ hand[s] \in Seq(EventRecords)
      BY <1>1
    <3>3. <<>> \o ch[s] = ch[s]
      BY <3>2, ConcatEmptySeq
    <3>4. From(p, hand[s] \o ch[s]) = From(p, hand[s]) \union From(p, ch[s])
      BY <3>2, FromConcat
    <3> QED BY <2>3, <3>1, <3>3, <3>4
  <2>4. CASE WorkerEnds(s)
    BY <2>4 DEF WorkerEnds
  <2> QED BY <2>1, <2>2, <2>3, <2>4 DEF Working, Worker
<1>6. ASSUME closer' \in {"lock", "locking", "closed"},
             NEW p \in Publishers \ gone', NEW q \in Subscribers
      PROVE  From(p, (hand[q] \o ch[q])') = {}
  <2>1. From(p, hand[q] \o ch[q]) = {}
    BY <1>2, <1>3, <1>6 DEF IInv, CloseOK
  <2> QED BY <1>5, <2>1
<1>7. (closer' = "woken" /\ gone' = {}) => inflight' = 0
  BY <1>2, <1>3, <1>4
<1> QED BY <1>6, <1>7 DEF CloseOK, From

(* A late publisher adds only its own events. *)
LEMMA PublishClose ==
  ASSUME IInv, NEW p \in Publishers, Publishing(p)
  PROVE  CloseOK'
<1>1. UNCHANGED <<hand, closer, gone>> /\ pub[p] \in {"rlock", "loop", "send"}
  BY DEF Publishing, Publish, PublishEnter, PublishSkip, PublishAdd, PublishSend,
     PublishReturn, queueVars, closeVars
<1>2. closer # "open" => p \in gone
  BY <1>1, OnlyGonePublish
<1>3. ASSUME closer' \in {"lock", "locking", "closed"},
             NEW q \in Publishers \ gone', NEW s \in Subscribers
      PROVE  From(q, (hand[s] \o ch[s])') = {}
  <2>1. From(q, hand[s] \o ch[s]) = {} /\ q # p
    BY <1>1, <1>2, <1>3 DEF IInv, CloseOK
  <2>2. CASE ch'[s] = ch[s]
    BY <1>1, <2>1, <2>2
  <2>3. CASE ch'[s] # ch[s]
    <3> DEFINE e == EventAt(p)
    <3>1. /\ ch \in [Subscribers -> Seq(EventRecords)] /\ ch[s] \in Seq(EventRecords)
          /\ hand[s] \in Seq(EventRecords)
      BY DEF IInv, TypeOK
    <3>2. PublishSend(p)
      BY <2>3 DEF Publishing, Publish, PublishEnter, PublishSkip, PublishAdd,
         PublishReturn, queueVars
    <3>3. ch'[s] = Append(ch[s], e) /\ e \in EventRecords /\ e.from = p
      <4>1. SubscriberAt(p) \in Subscribers /\ e \in EventRecords /\ ~closed
        BY <3>2, CursorFacts DEF PublishSend
      <4>2. ch' = [ch EXCEPT ![SubscriberAt(p)] = Append(ch[SubscriberAt(p)], e)]
        BY <3>2, <4>1 DEF PublishSend
      <4>3. s = SubscriberAt(p)
        BY <2>3, <3>1, <4>1, <4>2
      <4> QED BY <3>1, <4>1, <4>2, <4>3 DEF EventAt
    <3> HIDE DEF e
    <3>4. /\ Append(ch[s], e) \in Seq(EventRecords)
          /\ \A x : x # e.from => From(x, Append(ch[s], e)) = From(x, ch[s])
      BY <3>1, <3>3, AppendFrom, AppendProperties
    <3>5. From(q, hand[s] \o Append(ch[s], e))
            = From(q, hand[s]) \union From(q, Append(ch[s], e))
      BY <3>1, <3>4, FromConcat
    <3>6. From(q, hand[s] \o ch[s]) = From(q, hand[s]) \union From(q, ch[s])
      BY <3>1, FromConcat
    <3>7. From(q, Append(ch[s], e)) = From(q, ch[s])
      BY <2>1, <3>3, <3>4
    <3> QED BY <1>1, <2>1, <3>3, <3>5, <3>6, <3>7
  <2> QED BY <2>2, <2>3
<1>4. (closer' = "woken" /\ gone' = {}) => inflight' = 0
  BY <1>1, <1>2
<1> QED BY <1>3, <1>4 DEF CloseOK, From

(* The last parts: what Close has waited for, and the panics. *)
LEMMA StepClose ==
  ASSUME IInv, Next
  PROVE  CloseOK' /\ PanicNeedsOutlivingCommand'
<1>1. CASE CloseBus
  <2>1. CloseOK'
    BY <1>1, CloseClose
  <2>2. PanicNeedsOutlivingCommand'
    BY <1>1 DEF Next, Alive, CloseBus, Close, CloseWait, CloseWoken, CloseReused,
       CloseLock, CloseChannels, CloseStep, Drained, IInv, CloseOK,
       PanicNeedsOutlivingCommand
  <2> QED BY <2>1, <2>2
<1>2. ASSUME NEW s \in Subscribers, Working(s)
      PROVE  CloseOK' /\ PanicNeedsOutlivingCommand'
  <2>1. UNCHANGED crash /\ crash = "none"
    BY <1>2 DEF Next, Alive, Working, Worker, Receive, Handle, WorkerEnds, closeVars
  <2> QED BY <1>2, <2>1, WorkerClose DEF PanicNeedsOutlivingCommand
<1>3. ASSUME NEW p \in Publishers, Publishing(p)
      PROVE  CloseOK' /\ PanicNeedsOutlivingCommand'
  <2>1. UNCHANGED crash /\ crash = "none"
    BY <1>3, CursorFacts DEF Next, Alive, Publishing, Publish, PublishEnter, PublishSkip,
       PublishAdd, PublishSend, PublishReturn, closeVars
  <2> QED BY <1>3, <2>1, PublishClose DEF PanicNeedsOutlivingCommand
<1>4. CASE \/ Run /\ ~CloseBus
           \/ \E p \in Publishers : \/ Serve(p) \/ Command(p) \/ HandlerReturns(p)
                                    \/ ClientGone(p)
  <2>1. UNCHANGED <<hand, ch, inflight, crash>> /\ crash = "none"
    BY <1>4 DEF Next, Alive, Run, Terminating, Wire, Subscribe, Listen, ListenFails,
       Signal, ShutdownDone, ShutdownTimeout, StoppedCleanly, Exit, MainStep, Serve,
       Command, HandlerReturns, ClientGone, busVars, queueVars, publisherVars, closeVars
  <2>2. UNCHANGED closer \/ closer' = "wait"
    BY <1>4 DEF Run, Terminating, Wire, Subscribe, Listen, ListenFails,
       Signal, ShutdownDone, ShutdownTimeout, StoppedCleanly, Exit, MainStep, Serve,
       Command, HandlerReturns, ClientGone, busVars, queueVars, publisherVars, closeVars
  <2>3. gone \subseteq gone'
    BY <1>4 DEF Run, Terminating, Wire, Subscribe, Listen, ListenFails,
       Signal, ShutdownDone, ShutdownTimeout, StoppedCleanly, Exit, MainStep, Serve,
       Command, HandlerReturns, ClientGone
  <2>4. CloseOK'
    BY <2>1, <2>2, <2>3 DEF IInv, CloseOK
  <2> QED BY <2>1, <2>4 DEF PanicNeedsOutlivingCommand
<1> QED BY <1>1, <1>2, <1>3, <1>4 DEF Next, Request

(***************************************************************************)
(* The theorems.                                                           *)
(***************************************************************************)
(* Nothing is wired, sent or held at the start. *)
LEMMA InitInv == Init => IInv
<1> SUFFICES ASSUME Init PROVE IInv
  OBVIOUS
<1>1. <<>> \in Seq(EventRecords) /\ <<>> \in Seq(Subscribers) /\ Len(<<>>) = 0
  BY EmptySeq
<1>2. TypeOK
  <2>1. /\ ch = [s \in Subscribers |-> <<>>] /\ hand = ch /\ handled = ch
        /\ subs = <<>> /\ stopped = {} /\ readers = {}
        /\ pub = [p \in Publishers |-> "none"]
        /\ at = [p \in Publishers |-> [ev |-> 1, sub |-> 1]]
        /\ inflight = 0 /\ closed = FALSE /\ closer = "open" /\ crash = "none"
        /\ main = "wiring" /\ active = {} /\ gone = {}
    BY DEF Init, BusInit
  <2>2. BufferSize \in Nat
    BY BusAssumption
  <2>3. /\ ch \in [Subscribers -> Seq(EventRecords)]
        /\ \A s \in Subscribers : Len(ch[s]) <= BufferSize /\ Len(hand[s]) <= 1
    BY <1>1, <2>1, <2>2
  <2>4. closed \in BOOLEAN
    BY <2>1
  <2> QED BY <1>1, <2>1, <2>3, <2>4 DEF TypeOK
<1>3. LockOK /\ PanicNeedsOutlivingCommand
  BY DEF Init, BusInit, LockOK, PanicNeedsOutlivingCommand
<1>4. LifeOK
  BY <1>1, ShutdownAssumption DEF Init, BusInit, LifeOK
<1>5. \A p \in Publishers : CursorOK(p)
  BY BusAssumption, ShutdownAssumption DEF Init, BusInit, CursorOK
<1>6. CountOK
  <2>1. Tokens = {}
    BY <1>1 DEF Init, BusInit, Tokens, Held
  <2> QED BY <2>1, FS_EmptySet DEF Init, BusInit, CountOK
<1>7. SentOK
  <2>1. \A s \in Subscribers : Sent(s) = <<>>
    BY <1>1, ConcatEmptySeq DEF Init, BusInit, Sent
  <2>2. \A p \in Publishers, s \in Subscribers :
          {n \in Wanted(p, s) : Passed(p, s, n)} = {}
    BY BusAssumption DEF Init, BusInit, Wanted, Passed
  <2> QED BY <2>1, <2>2 DEF SentOK, From, Increasing
<1>8. CloseOK
  BY DEF Init, BusInit, CloseOK
<1> QED BY <1>2, <1>3, <1>4, <1>5, <1>6, <1>7, <1>8 DEF IInv

LEMMA StepInv == IInv /\ [Next]_vars => IInv'
<1>1. ASSUME IInv, Next PROVE IInv'
  <2>1. CountOK' /\ SentOK' /\ CloseOK' /\ PanicNeedsOutlivingCommand'
    BY <1>1, StepCount, StepSent, StepClose
  <2>2. inflight' \in Nat
    BY <2>1, FS_CardinalityType DEF CountOK
  <2>3. TypeOK' /\ Control'
    <3>1. CASE Run
      BY <1>1, <3>1, RunControl, CloseControl DEF Run, Terminating
    <3>2. ASSUME NEW s \in Subscribers, Working(s) PROVE TypeOK' /\ Control'
      BY <1>1, <2>2, <3>2, WorkerControl
    <3>3. ASSUME NEW p \in Publishers, Serve(p) \/ Request(p) \/ ClientGone(p)
          PROVE  TypeOK' /\ Control'
      BY <1>1, <2>2, <3>3, RequestControl, PublishControl DEF Request
    <3> QED BY <1>1, <3>1, <3>2, <3>3 DEF Next
  <2> QED BY <2>1, <2>3 DEF IInv, Control
<1>2. ASSUME IInv, UNCHANGED vars PROVE IInv'
  <2>1. UNCHANGED <<subs, ch, hand, handled, stopped, readers, pub, at, inflight,
                    closed, closer, crash, main, active, gone>>
    BY <1>2 DEF vars, busVars, queueVars, publisherVars, closeVars
  <2>2. TypeOK' /\ LockOK' /\ LifeOK' /\ PanicNeedsOutlivingCommand'
    BY <1>2, <2>1 DEF IInv, TypeOK, LockOK, LifeOK, PanicNeedsOutlivingCommand
  <2>3. \A p \in Publishers : CursorOK(p)'
    BY <1>2, <2>1 DEF IInv, CursorOK, LoopsDone, SubscriberAt
  <2>4. CountOK'
    BY <1>2, <2>1, CountQuiet
  <2>5. SentOK'
    BY <1>2, <2>1, SentQuiet DEF Sent, Passed
  <2>6. CloseOK'
    BY <1>2, <2>1 DEF IInv, CloseOK
  <2> QED BY <2>2, <2>3, <2>4, <2>5, <2>6 DEF IInv
<1> QED BY <1>1, <1>2

(* Before Publish nothing of a batch was sent, after it all or nothing. *)
LEMMA AllOrNothing ==
  ASSUME IInv, NEW s \in Subscribers, NEW p \in Publishers
  PROVE  /\ pub[p] \in {"none", "command", "rlock"} => From(p, Sent(s)) = {}
         /\ pub[p] = "returned" => From(p, Sent(s)) \in {{}, Wanted(p, s)}
<1>1. From(p, Sent(s)) = {n \in Wanted(p, s) : Passed(p, s, n)} /\ CursorOK(p)
  BY DEF IInv, SentOK
<1>2. Len(Batch[p]) \in Nat
  BY BusAssumption
<1>3. at[p] \in [ev : Nat \ {0}, sub : Nat \ {0}]
  BY DEF IInv, TypeOK
<1>4. (at[p].ev = 1 /\ at[p].sub = 1) => \A n \in Wanted(p, s) : ~Passed(p, s, n)
  BY <1>2 DEF Wanted, Passed
<1>5. LoopsDone(p) => \A n \in Wanted(p, s) : Passed(p, s, n)
  BY <1>2, <1>3 DEF LoopsDone, Wanted, Passed
<1> QED BY <1>1, <1>4, <1>5 DEF CursorOK

(* Channels stay within their capacity and the WaitGroup never goes below  *)
(* 0 (eventbus.go:55, which would panic), for any number of requests.      *)
THEOREM TypeCorrect == Spec => []TypeOK
<1>1. IInv => TypeOK
  BY DEF IInv
<1> QED BY InitInv, StepInv, <1>1, PTL DEF Spec

(* No send on a closed channel ever, and no reuse panic of the WaitGroup   *)
(* unless some command outlived its handler.                               *)
THEOREM NoPanicOfItsOwn == Spec => []PanicNeedsOutlivingCommand
<1>1. IInv => PanicNeedsOutlivingCommand
  BY DEF IInv
<1> QED BY InitInv, StepInv, <1>1, PTL DEF Spec

(* Every subscriber sees every batch once and in submission order, for any *)
(* filters, any batches and any interleaving.                              *)
THEOREM InSubmissionOrder == Spec => []OnceAndInOrder
<1>1. ASSUME IInv PROVE OnceAndInOrder
  BY <1>1, AllOrNothing DEF IInv, SentOK, OnceAndInOrder
<1> QED BY InitInv, StepInv, <1>1, PTL DEF Spec

(* A clean stop has projected every event of every command whose handler   *)
(* Shutdown waited for.                                                    *)
THEOREM CleanStop == Spec => []CleanStopProjectsAll
<1>1. ASSUME IInv, main \in {"stopped", "exited"},
             NEW p \in Publishers \ gone, NEW s \in Subscribers
      PROVE  /\ pub[p] \in {"none", "returned"}
             /\ From(p, hand[s] \o ch[s]) = {}
             /\ From(p, handled[s]) \in {{}, Wanted(p, s)}
  <2>1. pub[p] \in {"none", "returned"} /\ From(p, hand[s] \o ch[s]) = {}
    BY <1>1 DEF IInv, LifeOK, CloseOK
  <2>2. From(p, Sent(s)) \in {{}, Wanted(p, s)}
    BY <1>1, <2>1, AllOrNothing
  <2>3. /\ handled[s] \in Seq(EventRecords) /\ hand[s] \in Seq(EventRecords)
        /\ ch[s] \in Seq(EventRecords)
    BY <1>1 DEF IInv, TypeOK
  <2>4. handled[s] \o hand[s] \in Seq(EventRecords)
    BY <2>3, ConcatProperties
  <2>5. From(p, Sent(s)) = From(p, handled[s] \o hand[s]) \union From(p, ch[s])
    BY <2>3, <2>4, FromConcat DEF Sent
  <2>6. From(p, handled[s] \o hand[s]) = From(p, handled[s]) \union From(p, hand[s])
    BY <2>3, FromConcat
  <2>7. From(p, hand[s] \o ch[s]) = From(p, hand[s]) \union From(p, ch[s])
    BY <2>3, FromConcat
  <2>8. From(p, Sent(s)) = From(p, handled[s])
    BY <2>1, <2>5, <2>6, <2>7
  <2> QED BY <2>1, <2>2, <2>8
<1>2. IInv => CleanStopProjectsAll
  BY <1>1 DEF CleanStopProjectsAll
<1> QED BY InitInv, StepInv, <1>2, PTL DEF Spec
=============================================================================
