------------------------------ MODULE Shutdown ------------------------------
(***************************************************************************)
(* The life of the process: run of cmd/tradedesk/main.go with the event    *)
(* bus it closes and the requests whose commands publish to it.            *)
(*                                                                         *)
(* http.Server.Shutdown waits for the handlers that are active.  It does   *)
(* not wait for a command that goes on after its handler returned: the     *)
(* GraphQL library executes a request in a goroutine of its own and        *)
(* returns as soon as the client has gone.                                 *)
(***************************************************************************)
EXTENDS EventBus

CONSTANTS Wiring,          \* the order in which run subscribes
          Disconnecting    \* requests whose client may go away

ASSUME ShutdownAssumption ==
  /\ Wiring \in Seq(Subscribers) /\ Range(Wiring) = Subscribers
  /\ IsInjective(Wiring) /\ Wiring # <<>>
  /\ Disconnecting \subseteq Publishers

VARIABLES
  main,      \* where run is
  active,    \* requests whose handler has not returned
  gone       \* requests whose handler returned before their command

vars == <<busVars, main, active, gone>>

Init ==
  /\ BusInit
  /\ main = "wiring" /\ active = {} /\ gone = {}

(* run has returned, or some goroutine has panicked: nothing moves any more. *)
Alive == main \notin {"failed", "exited"} /\ crash = "none"

(***************************************************************************)
(* Requests.                                                               *)
(***************************************************************************)
(* A connection that was accepted in time may still send its request while *)
(* Shutdown waits.                                                         *)
Serve(p) ==
  /\ main \in {"serving", "shutting"}
  /\ pub[p] = "none"
  /\ Goto(p, "command")
  /\ active' = active \union {p}
  /\ UNCHANGED <<queueVars, readers, at, closeVars, main, gone>>

(* The command stores its change and calls Publish, or it is refused. *)
Command(p) ==
  /\ pub[p] = "command"
  /\ \E l \in {"rlock", "returned"} : Goto(p, l)
  /\ UNCHANGED <<queueVars, readers, at, closeVars, main, active, gone>>

HandlerReturns(p) ==
  /\ p \in active
  /\ pub[p] = "returned"
  /\ active' = active \ {p}
  /\ UNCHANGED <<busVars, main, gone>>

ClientGone(p) ==
  /\ p \in active \intersect Disconnecting
  /\ pub[p] # "returned"
  /\ active' = active \ {p}
  /\ gone' = gone \union {p}
  /\ UNCHANGED <<busVars, main>>

(***************************************************************************)
(* run.                                                                    *)
(***************************************************************************)
Wire ==
  /\ main = "wiring"
  /\ subs # Wiring
  /\ Subscribe(Wiring[Len(subs) + 1])
  /\ UNCHANGED <<main, active, gone>>

MainStep(from, to) ==
  /\ main = from
  /\ main' = to
  /\ UNCHANGED <<busVars, active, gone>>

(* Every subscriber is registered before the server listens. *)
Listen == subs = Wiring /\ MainStep("wiring", "serving")

(* ListenAndServe reports an error: run returns it. *)
ListenFails == MainStep("serving", "failed")

Signal == MainStep("serving", "shutting")

(* Shutdown returns nil: no handler is active.  Close begins. *)
ShutdownDone ==
  /\ main = "shutting"
  /\ active = {}
  /\ main' = "closing"
  /\ closer' = "wait"
  /\ UNCHANGED <<queueVars, publisherVars, inflight, closed, crash, active, gone>>

(* The deadline of ShutdownContext: run returns the error without Close. *)
ShutdownTimeout == MainStep("shutting", "failed")

CloseBus == main = "closing" /\ Close /\ UNCHANGED <<main, active, gone>>

(* "stopped cleanly" is logged, and main returns. *)
StoppedCleanly == closer = "closed" /\ MainStep("closing", "stopped")

Exit == MainStep("stopped", "exited")

(* The steps of run that wait for nothing outside the process. *)
Terminating ==
  ShutdownDone \/ ShutdownTimeout \/ CloseBus \/ StoppedCleanly \/ Exit

Run == Wire \/ Listen \/ ListenFails \/ Signal \/ Terminating

Publishing(p) == Publish(p) /\ UNCHANGED <<main, active, gone>>

Working(s) == Worker(s) /\ UNCHANGED <<main, active, gone>>

Request(p) == Command(p) \/ Publishing(p) \/ HandlerReturns(p)

Next ==
  /\ Alive
  /\ \/ Run
     \/ \E s \in Subscribers : Working(s)
     \/ \E p \in Publishers : Serve(p) \/ Request(p) \/ ClientGone(p)

Spec == Init /\ [][Next]_vars

(* Goroutines that can run do, and the shutdown deadline passes.  Nothing  *)
(* obliges a client or the operator to do anything.                        *)
Fairness ==
  /\ WF_vars(Alive /\ Terminating)
  /\ \A s \in Subscribers : WF_vars(Alive /\ Working(s))
  /\ \A p \in Publishers : WF_vars(Alive /\ Request(p))

FairSpec == Spec /\ Fairness

(***************************************************************************)
(* Safety.                                                                 *)
(***************************************************************************)
EventRecords == [from : Publishers, nr : Nat \ {0}]

(* Every variable keeps its type: channels within their capacity, and a    *)
(* WaitGroup whose count is never negative, which would be a panic.        *)
TypeOK ==
  /\ subs \in Seq(Subscribers)
  /\ ch \in [Subscribers -> Seq(EventRecords)]
  /\ \A s \in Subscribers : Len(ch[s]) <= BufferSize /\ Len(hand[s]) <= 1
  /\ hand \in [Subscribers -> Seq(EventRecords)]
  /\ handled \in [Subscribers -> Seq(EventRecords)]
  /\ stopped \subseteq Subscribers
  /\ inflight \in Nat
  /\ closed \in BOOLEAN
  /\ readers \subseteq Publishers
  /\ pub \in [Publishers -> {"none", "command", "rlock", "loop", "send", "returned"}]
  /\ at \in [Publishers -> [ev : Nat \ {0}, sub : Nat \ {0}]]
  /\ closer \in {"open", "wait", "asleep", "woken", "lock", "locking", "closed"}
  /\ crash \in {"none", "send on closed channel", "WaitGroup reused"}
  /\ main \in {"wiring", "serving", "shutting", "closing", "stopped", "exited", "failed"}
  /\ active \subseteq Publishers /\ gone \subseteq Publishers \ active

(* The shutdown never panics while http.Server.Shutdown waits for every    *)
(* publisher.  A command that outlives its handler may publish while Close *)
(* waits: that can only hit the reuse check of the WaitGroup               *)
(* (eventbus.go:82), never a send on a closed channel (eventbus.go:72).    *)
PanicNeedsOutlivingCommand ==
  crash # "none" => crash = "WaitGroup reused" /\ gone # {}

(* The numbers of the events of p in the sequence q. *)
From(p, q) == {q[i].nr : i \in {j \in DOMAIN q : q[j].from = p}}

Increasing(q) ==
  \A i, j \in DOMAIN q : i < j /\ q[i].from = q[j].from => q[i].nr < q[j].nr

(* Everything that was sent to s so far, oldest first. *)
Sent(s) == handled[s] \o hand[s] \o ch[s]

(* The events of p that s is to see. *)
Wanted(p, s) == {n \in 1 .. Len(Batch[p]) : Matches(s, p, n)}

(* The loops of p have been at event n and subscriber s. *)
Passed(p, s, n) ==
  \/ n < at[p].ev
  \/ n = at[p].ev /\ \E j \in 1 .. at[p].sub - 1 : subs[j] = s

(* eventbus.go:59: "in submission order".  What a subscriber was sent of a *)
(* publisher's batch is in order and without repetition, and it is what    *)
(* the loops have come to so far, all of it or nothing once Publish has    *)
(* returned, however publishers and workers interleave.                    *)
OnceAndInOrder ==
  \A s \in Subscribers :
    /\ Increasing(Sent(s))
    /\ \A p \in Publishers :
         /\ From(p, Sent(s)) = {n \in Wanted(p, s) : Passed(p, s, n)}
         /\ pub[p] \in {"none", "command", "rlock"} => From(p, Sent(s)) = {}
         /\ pub[p] = "returned" => From(p, Sent(s)) \in {{}, Wanted(p, s)}

(* main.go:105 and eventbus.go:80, "Close drains outstanding events": when *)
(* run reports a clean stop, every subscriber has handled every event of   *)
(* every command whose handler Shutdown waited for.                        *)
CleanStopProjectsAll ==
  main \in {"stopped", "exited"} =>
    \A p \in Publishers \ gone, s \in Subscribers :
      /\ pub[p] \in {"none", "returned"}
      /\ From(p, hand[s] \o ch[s]) = {}
      /\ From(p, handled[s]) \in {{}, Wanted(p, s)}

(***************************************************************************)
(* Liveness, under FairSpec.                                               *)
(***************************************************************************)
(* A signal ends the process: Close waits for publishers that wait for     *)
(* room in a channel, and for the workers, and none of them for Close.     *)
SignalEndsProcess == main = "shutting" ~> ~Alive
=============================================================================
