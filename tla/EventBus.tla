------------------------------ MODULE EventBus ------------------------------
(***************************************************************************)
(* internal/adapters/memory/eventbus.go lock by lock: Subscribe, Publish,  *)
(* the workers, Wait and Close.  Each publisher calls Publish once, with   *)
(* the batch of events its command raised.                                 *)
(*                                                                         *)
(* sync.RWMutex: a writer waits until no reader is left, and while it      *)
(* waits no new reader gets in.  sync.WaitGroup: Wait returns at once when *)
(* the count is 0; otherwise the Done that reaches 0 wakes it, and it      *)
(* panics if the count has left 0 again before it runs.                    *)
(***************************************************************************)
EXTENDS Integers, SequencesExt

CONSTANTS Publishers,    \* goroutines that call Publish
          Subscribers,
          Filter,          \* subscriber -> event name it wants, "" for all
          Batch,           \* publisher -> names of the events it publishes
          BufferSize       \* depth of a subscriber's channel

ASSUME BusAssumption ==
  /\ Filter \in [Subscribers -> STRING]
  /\ Batch \in [Publishers -> Seq(STRING)]
  /\ BufferSize \in Nat \ {0}

VARIABLES
  subs,       \* b.subs
  ch,         \* the subscribers' channels
  hand,       \* the event a worker is handling, if any
  handled,    \* history: what each handler has been given
  stopped,    \* workers that have ended
  inflight,   \* the WaitGroup's count
  closed,     \* b.closed; the channels are closed with it
  readers,    \* publishers that hold the read lock
  pub,        \* where a publisher is
  at,         \* the variables of the loops of Publish: event, subscriber
  closer,     \* where the caller of Close is
  crash       \* the panic that ended the process, or "none"

queueVars == <<subs, ch, hand, handled, stopped>>
publisherVars == <<readers, pub, at>>
closeVars == <<inflight, closed, closer, crash>>
busVars == <<queueVars, publisherVars, closeVars>>

Matches(s, p, i) == Filter[s] = "" \/ Filter[s] = Batch[p][i]

BusInit ==
  /\ subs = <<>> /\ stopped = {}
  /\ ch = [s \in Subscribers |-> <<>>] /\ hand = ch /\ handled = ch
  /\ readers = {}
  /\ pub = [p \in Publishers |-> "none"]
  /\ at = [p \in Publishers |-> [ev |-> 1, sub |-> 1]]
  /\ inflight = 0 /\ closed = FALSE /\ closer = "open" /\ crash = "none"

Subscribe(s) ==
  /\ s \notin Range(subs)
  /\ readers = {}
  /\ subs' = Append(subs, s)
  /\ UNCHANGED <<ch, hand, handled, stopped, publisherVars, closeVars>>

(***************************************************************************)
(* Publish.                                                                *)
(***************************************************************************)
Goto(p, l) == pub' = [pub EXCEPT ![p] = l]

(* The two nested loops: for each event, each subscriber. *)
LoopsDone(p) == at[p].ev > Len(Batch[p])

SubscriberAt(p) == subs[at[p].sub]

(* A bug to catch: the send sees the last value of the loop variable. *)
LastEvent(p) == [from |-> p, nr |-> Len(Batch[p])]

EventAt(p) == [from |-> p, nr |-> at[p].ev]

Advance(p) ==
  at' = [at EXCEPT ![p] = IF @.sub < Len(subs)
                          THEN [ev |-> @.ev, sub |-> @.sub + 1]
                          ELSE [ev |-> @.ev + 1, sub |-> 1]]

ReaderMayEnter == closer # "locking"

(* A bug to catch: closed is not tested. *)
NothingDropped == FALSE

Dropped == closed

(* RLock, then the test of closed, which changes only under the write      *)
(* lock: events published after Close are dropped.                         *)
PublishEnter(p) ==
  /\ pub[p] = "rlock"
  /\ ReaderMayEnter
  /\ IF Dropped
     THEN Goto(p, "returned") /\ UNCHANGED readers
     ELSE Goto(p, "loop") /\ readers' = readers \union {p}
  /\ UNCHANGED <<queueVars, at, closeVars>>

PublishSkip(p) ==
  /\ pub[p] = "loop"
  /\ ~LoopsDone(p)
  /\ ~Matches(SubscriberAt(p), p, at[p].ev)
  /\ Advance(p)
  /\ UNCHANGED <<queueVars, readers, pub, closeVars>>

(* inflight.Add(1), before the send. *)
PublishAdd(p) ==
  /\ pub[p] = "loop"
  /\ ~LoopsDone(p)
  /\ Matches(SubscriberAt(p), p, at[p].ev)
  /\ inflight' = inflight + 1
  /\ Goto(p, "send")
  /\ UNCHANGED <<queueVars, closed, readers, at, closer, crash>>

(* A bug to catch: the channel takes one event more than it holds. *)
HasRoomForOneMore(s) == Len(ch[s]) <= BufferSize

HasRoom(s) == Len(ch[s]) < BufferSize

(* The send blocks while the channel is full and panics when it is closed. *)
PublishSend(p) ==
  /\ pub[p] = "send"
  /\ IF closed
     THEN crash' = "send on closed channel" /\ UNCHANGED <<ch, at, pub>>
     ELSE /\ HasRoom(SubscriberAt(p))
          /\ ch' = [ch EXCEPT ![SubscriberAt(p)] = Append(@, EventAt(p))]
          /\ Advance(p)
          /\ Goto(p, "loop")
          /\ UNCHANGED crash
  /\ UNCHANGED <<subs, hand, handled, stopped, inflight, closed, readers, closer>>

PublishReturn(p) ==
  /\ pub[p] = "loop"
  /\ LoopsDone(p)
  /\ readers' = readers \ {p}
  /\ Goto(p, "returned")
  /\ UNCHANGED <<queueVars, at, closeVars>>

Publish(p) ==
  \/ PublishEnter(p)
  \/ PublishSkip(p)
  \/ PublishAdd(p)
  \/ PublishSend(p)
  \/ PublishReturn(p)

(***************************************************************************)
(* The worker of a subscription.                                           *)
(***************************************************************************)
(* A bug to catch: the worker takes the read lock before it receives. *)
MayReceiveWithLock(s) == ReaderMayEnter /\ ch[s] # <<>>

MayReceive(s) == ch[s] # <<>>

Receive(s) ==
  /\ s \in Range(subs)
  /\ hand[s] = <<>>
  /\ MayReceive(s)
  /\ hand' = [hand EXCEPT ![s] = <<Head(ch[s])>>]
  /\ ch' = [ch EXCEPT ![s] = Tail(@)]
  /\ UNCHANGED <<subs, handled, stopped, publisherVars, closeVars>>

(* inflight.Done() wakes Wait when the count reaches 0. *)
Done ==
  /\ inflight' = inflight - 1
  /\ closer' = IF inflight = 1 /\ closer = "asleep" THEN "woken" ELSE closer

(* The handler runs, then Done. *)
Handle(s) ==
  /\ hand[s] # <<>>
  /\ handled' = [handled EXCEPT ![s] = @ \o hand[s]]
  /\ hand' = [hand EXCEPT ![s] = <<>>]
  /\ Done
  /\ UNCHANGED <<subs, ch, stopped, publisherVars, closed, crash>>

(* The range loop ends once the channel is closed and drained. *)
WorkerEnds(s) ==
  /\ s \in Range(subs) \ stopped
  /\ closed
  /\ ch[s] = <<>> /\ hand[s] = <<>>
  /\ stopped' = stopped \union {s}
  /\ UNCHANGED <<subs, ch, hand, handled, publisherVars, closeVars>>

Worker(s) == Receive(s) \/ Handle(s) \/ WorkerEnds(s)

(***************************************************************************)
(* Close: Wait, then Lock, then close.                                     *)
(***************************************************************************)
CloseStep(from, to) ==
  /\ closer = from
  /\ closer' = to
  /\ UNCHANGED <<queueVars, publisherVars, inflight, closed, crash>>

(* A bug to catch: Close does not wait. *)
NotWaitedFor == TRUE

Drained == inflight = 0

CloseWait == CloseStep("wait", IF Drained THEN "lock" ELSE "asleep")

CloseWoken == Drained /\ CloseStep("woken", "lock")

CloseReused ==
  /\ closer = "woken"
  /\ ~Drained
  /\ crash' = "WaitGroup reused"
  /\ UNCHANGED <<queueVars, publisherVars, inflight, closed, closer>>

CloseLock == CloseStep("lock", "locking")

CloseChannels ==
  /\ closer = "locking"
  /\ readers = {}
  /\ closed' = TRUE
  /\ closer' = "closed"
  /\ UNCHANGED <<queueVars, publisherVars, inflight, crash>>

Close == CloseWait \/ CloseWoken \/ CloseReused \/ CloseLock \/ CloseChannels
=============================================================================
