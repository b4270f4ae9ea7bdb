------------------------------- MODULE EventBus ------------------------------
(***************************************************************************)
(* internal/eventbus/bus.go: the publishers, the dispatch goroutine, the   *)
(* worker goroutine of each subscription, and the goroutines that          *)
(* subscribe, unsubscribe and stop the bus (web.go).                       *)
(*                                                                         *)
(* Events are numbered in the order in which the bus accepts them.  Every  *)
(* Subscribe makes a new worker; workers are numbered too.  The fan-out    *)
(* holds b.mu and never blocks, so it is one action; another goroutine may *)
(* run between the receive of an event and its fan-out.  What handlers do  *)
(* is not modelled: those of the ids in Stuck may never return.            *)
(***************************************************************************)
EXTENDS Naturals, Sequences

CONSTANTS
    Ids,              \* subscriber ids ("email-notifier", "tg-notifier")
    Stuck,            \* the ids whose handlers may block for ever
    BufferSize,       \* DefaultBufferSize: the capacity of b.ch
    SubscriberQueueSize,       \* subscriberQueueSize
    MaxEvents,        \* bound: events that the bus accepts
    MaxWorkers        \* bound: calls of Subscribe that make a worker

ASSUME StuckAssumption == Stuck \subseteq Ids
ASSUME BoundAssumption ==
    {BufferSize, SubscriberQueueSize, MaxEvents, MaxWorkers} \subseteq Nat \ {0}

VARIABLES
    accepted,         \* history: the number of events accepted so far
    ch,               \* b.ch
    dpc,              \* where dispatch is
    event,            \* the event that dispatch has received
    subs,             \* b.subs: the registered workers
    made,             \* workers made so far
    id, queue, quit,  \* of each worker: its id, its queue; quit is closed
    wpc,              \* wpc[w]: where w's runWorker is
    stop,             \* where Stop is: it sets b.stopped, closes b.done, waits
    got               \* history: the events that w's handler was called with

busVars == <<accepted, ch, dpc, event>>
workerVars == <<queue, wpc, got>>
subVars == <<subs, made, id, quit>>
vars == <<accepted, ch, dpc, event, subs, made, id, queue, quit, wpc, stop, got>>

Workers == 1..MaxWorkers
Events == 1..MaxEvents
Stopped == stop # "running"
BusDone == stop \in {"closed", "returned"}

Init ==
    /\ accepted = 0 /\ ch = <<>>
    /\ dpc = "select" /\ event = 0
    /\ subs = {} /\ made = 0
    /\ id \in [Workers -> Ids]
    /\ queue = [w \in Workers |-> <<>>]
    /\ quit = [w \in Workers |-> FALSE]
    /\ wpc = [w \in Workers |-> "none"]
    /\ stop = "running"
    /\ got = [w \in Workers |-> {}]

-----------------------------------------------------------------------------
(* Mutant: the buffer has no bound. *)
Publish_Unbounded ==
    /\ accepted < MaxEvents
    /\ accepted' = accepted + 1
    /\ ch' = Append(ch, accepted + 1)
    /\ UNCHANGED <<dpc, event, subVars, workerVars, stop>>

(* Publish, when there is room: else the event is dropped, and nothing       *)
(* changes.  Events are accepted, and not read, after Stop.                  *)
Publish ==
    /\ accepted < MaxEvents
    /\ Len(ch) < BufferSize
    /\ accepted' = accepted + 1
    /\ ch' = Append(ch, accepted + 1)
    /\ UNCHANGED <<dpc, event, subVars, workerVars, stop>>

Registered(i) == {w \in subs : id[w] = i}

Close(old) == quit' = [w \in Workers |-> quit[w] \/ w \in old]

NewWorker(w, i) ==
    /\ w \in Workers
    /\ made' = w
    /\ id' = [id EXCEPT ![w] = i]
    /\ wpc' = [wpc EXCEPT ![w] = "select"]

(* Mutant: it does not look at b.stopped. *)
Subscribe_Late(i) ==
    /\ NewWorker(made + 1, i)
    /\ Close(Registered(i))
    /\ subs' = (subs \ Registered(i)) \cup {made + 1}
    /\ UNCHANGED <<busVars, queue, stop, got>>

(* Mutant: the worker that it replaces stays registered. *)
Subscribe_Beside(i) ==
    /\ ~Stopped
    /\ NewWorker(made + 1, i)
    /\ Close({})
    /\ subs' = subs \cup {made + 1}
    /\ UNCHANGED <<busVars, queue, stop, got>>

(* Subscribe replaces the worker that is registered with the same id. *)
Subscribe(i) ==
    /\ ~Stopped
    /\ NewWorker(made + 1, i)
    /\ Close(Registered(i))
    /\ subs' = (subs \ Registered(i)) \cup {made + 1}
    /\ UNCHANGED <<busVars, queue, stop, got>>

(* Mutant: the worker is told to quit, and stays registered. *)
Unsubscribe_Registered(i) ==
    /\ Registered(i) # {}
    /\ Close(Registered(i))
    /\ UNCHANGED <<busVars, subs, made, id, workerVars, stop>>

Unsubscribe(i) ==
    /\ Registered(i) # {}
    /\ Close(Registered(i))
    /\ subs' = subs \ Registered(i)
    /\ UNCHANGED <<busVars, made, id, workerVars, stop>>

-----------------------------------------------------------------------------
(* dispatch.  Its select prefers nothing. *)
DispatchReceive ==
    /\ dpc = "select" /\ ch # <<>>
    /\ event' = Head(ch) /\ ch' = Tail(ch)
    /\ dpc' = "fanout"
    /\ UNCHANGED <<accepted, subVars, workerVars, stop>>

Full(w) == Len(queue[w]) = SubscriberQueueSize

Deliver(to) ==
    /\ queue' = [w \in Workers |-> IF w \in to THEN Append(queue[w], event) ELSE queue[w]]
    /\ dpc' = "select" /\ event' = 0
    /\ UNCHANGED <<accepted, ch, subVars, wpc, stop, got>>

(* Mutant: the send waits for room in every queue. *)
FanOut_Blocking ==
    /\ dpc = "fanout"
    /\ \A w \in subs : ~Full(w)
    /\ Deliver(subs)

(* Mutant: the loop ends at the first full queue. *)
FanOut_Break ==
    /\ dpc = "fanout"
    /\ Deliver({w \in subs : \A v \in subs : v <= w => ~Full(v)})

(* A full queue drops the event, and the others get it. *)
FanOut ==
    /\ dpc = "fanout"
    /\ Deliver({w \in subs : ~Full(w)})

DispatchExit ==
    /\ dpc = "select" /\ BusDone
    /\ dpc' = "exited"
    /\ UNCHANGED <<accepted, ch, event, subVars, workerVars, stop>>

-----------------------------------------------------------------------------
(* Mutant: every event is handled in a goroutine of its own. *)
Receive_Any(w) ==
    /\ wpc[w] = "select"
    /\ \E k \in DOMAIN queue[w] :
          /\ got' = [got EXCEPT ![w] = @ \cup {queue[w][k]}]
          /\ queue' = [queue EXCEPT ![w] = SubSeq(@, 1, k - 1) \o SubSeq(@, k + 1, Len(@))]
    /\ wpc' = [wpc EXCEPT ![w] = "handle"]
    /\ UNCHANGED <<busVars, subVars, stop>>

(* runWorker calls the handler; safeCall recovers a panic.  Its select        *)
(* prefers nothing: it may still take an event after quit or b.done.         *)
Receive(w) ==
    /\ wpc[w] = "select" /\ queue[w] # <<>>
    /\ got' = [got EXCEPT ![w] = @ \cup {Head(queue[w])}]
    /\ queue' = [queue EXCEPT ![w] = Tail(@)]
    /\ wpc' = [wpc EXCEPT ![w] = "handle"]
    /\ UNCHANGED <<busVars, subVars, stop>>

HandlerReturn(w) ==
    /\ wpc[w] = "handle"
    /\ wpc' = [wpc EXCEPT ![w] = "select"]
    /\ UNCHANGED <<busVars, subVars, queue, stop, got>>

(* Mutant: the worker does not look at b.done. *)
WorkerExit_OnQuit(w) ==
    /\ wpc[w] = "select" /\ quit[w]
    /\ wpc' = [wpc EXCEPT ![w] = "exited"]
    /\ UNCHANGED <<busVars, subVars, queue, stop, got>>

WorkerExit(w) ==
    /\ wpc[w] = "select"
    /\ quit[w] \/ BusDone
    /\ wpc' = [wpc EXCEPT ![w] = "exited"]
    /\ UNCHANGED <<busVars, subVars, queue, stop, got>>

-----------------------------------------------------------------------------
(* Stop is called once. *)
StopMark ==
    /\ stop = "running"
    /\ stop' = "marked"
    /\ UNCHANGED <<busVars, subVars, workerVars>>

StopClose ==
    /\ stop = "marked"
    /\ stop' = "closed"
    /\ UNCHANGED <<busVars, subVars, workerVars>>

(* b.wg.Wait *)
AllExited == dpc = "exited" /\ \A w \in Workers : wpc[w] \in {"none", "exited"}

StopWait ==
    /\ stop = "closed"
    /\ AllExited
    /\ stop' = "returned"
    /\ UNCHANGED <<busVars, subVars, workerVars>>

Dispatch == DispatchReceive \/ FanOut \/ DispatchExit
Work(w) == Receive(w) \/ WorkerExit(w)
Next ==
    \/ Publish
    \/ \E i \in Ids : Subscribe(i) \/ Unsubscribe(i)
    \/ Dispatch
    \/ \E w \in Workers : Work(w) \/ HandlerReturn(w)
    \/ StopMark \/ StopClose \/ StopWait

Spec == Init /\ [][Next]_vars

(* Goroutines run, and the handlers return but for those in Stuck.  Nobody   *)
(* has to publish, to subscribe or to stop.                                  *)
Fairness ==
    /\ WF_vars(Dispatch)
    /\ \A w \in Workers : WF_vars(Work(w)) /\ WF_vars(HandlerReturn(w) /\ id[w] \notin Stuck)
    /\ WF_vars(StopClose \/ StopWait)
FairSpec == Spec /\ Fairness

-----------------------------------------------------------------------------
InQueue(w) == {queue[w][k] : k \in DOMAIN queue[w]}

(* Types, and the capacities of the two kinds of queue.                      *)
TypeOK ==
    /\ accepted \in 0..MaxEvents
    /\ ch \in Seq(Events) /\ Len(ch) <= BufferSize
    /\ dpc \in {"select", "fanout", "exited"} /\ event \in 0..MaxEvents
    /\ subs \subseteq Workers /\ made \in 0..MaxWorkers
    /\ id \in [Workers -> Ids] /\ quit \in [Workers -> BOOLEAN]
    /\ queue \in [Workers -> Seq(Events)]
    /\ \A w \in Workers : Len(queue[w]) <= SubscriberQueueSize
    /\ wpc \in [Workers -> {"none", "select", "handle", "exited"}]
    /\ stop \in {"running", "marked", "closed", "returned"}
    /\ got \in [Workers -> SUBSET Events]

(* A worker's handler sees the events in the order of their publication      *)
(* (runWorker's comment), whatever was dropped on the way.                   *)
InOrder ==
    [][\A w \in Workers : \A m \in got[w], n \in got'[w] \ got[w] : m < n]_vars

(* Nothing is lost but what a full queue drops: an event that is in the bus, *)
(* or in the queue of a registered worker, leaves it only to the handler or  *)
(* because there is no room (dispatch's comment).                            *)
OnTheWay(w) ==
    InQueue(w) \cup {ch[k] : k \in DOMAIN ch} \cup (IF dpc = "fanout" THEN {event} ELSE {})
NothingLost ==
    [][\A w \in subs \cap subs' : \A n \in OnTheWay(w) :
          \/ n \in OnTheWay(w)' \cup got'[w]
          \/ dpc = "fanout" /\ n = event /\ Full(w)]_vars

(* An event is handled once by an id, although Subscribe replaces the worker *)
(* of an id while events are on their way.                                   *)
OneCopy ==
    \A v, w \in Workers : v # w /\ id[v] = id[w] /\ wpc[v] # "none" /\ wpc[w] # "none" =>
        (got[v] \cup InQueue(v)) \cap (got[w] \cup InQueue(w)) = {}

(* A worker that was removed or replaced is given nothing more.              *)
NoneAfterRemoval ==
    [][\A w \in Workers : quit[w] => InQueue(w)' \subseteq InQueue(w)]_vars

(* After Stop has returned, no goroutine of the bus runs and none will:      *)
(* Subscribe's wg.Add cannot race with Stop's wg.Wait (Stop's comment).      *)
StopQuiet == stop = "returned" => AllExited

(* A subscriber whose handler blocks does not hold up the others             *)
(* (dispatch's comment): an event on its way to any other worker leaves the  *)
(* bus and the worker's queue, so that by NothingLost it was handled, unless *)
(* the queue was full.                                                       *)
Isolation ==
    \A w \in Workers, n \in Events :
        w \in subs /\ id[w] \notin Stuck /\ n \in OnTheWay(w)
        ~> w \notin subs \/ n \notin OnTheWay(w) \/ Stopped

(* Stop returns, unless a handler never does.                                *)
StopReturns ==
    stop = "marked" ~> \/ stop = "returned"
                       \/ \E w \in Workers : wpc[w] = "handle" /\ id[w] \in Stuck
=============================================================================
