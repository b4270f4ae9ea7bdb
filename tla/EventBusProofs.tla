---------------------------- MODULE EventBusProofs ---------------------------
(***************************************************************************)
(* Theorems about EventBus, for any ids, capacities and numbers of events  *)
(* and workers.                                                            *)
(*                                                                         *)
(* The inductive invariant has two parts.  RegInv says which workers exist *)
(* and which are registered, at most one for an id.  OrderInv says that    *)
(* events move through the bus in the order of their numbers: what was     *)
(* handed to a worker is older than the event that is fanned out, which is *)
(* older than what is in the channel.                                      *)
(***************************************************************************)
EXTENDS EventBus, SequenceTheorems, TLAPS

Increasing(s) == \A j, k \in DOMAIN s : j < k => s[j] < s[k]
Elements(s) == {s[k] : k \in DOMAIN s}
Handed(w) == got[w] \cup Elements(queue[w])

RegInv ==
    /\ \A w \in Workers : IF w <= made THEN wpc[w] # "none"
                          ELSE /\ wpc[w] = "none" /\ w \notin subs /\ ~quit[w]
                               /\ queue[w] = <<>> /\ got[w] = {}
    /\ \A w \in subs : ~quit[w]
    /\ \A v, w \in subs : id[v] = id[w] => v = w
    /\ stop = "returned" => AllExited
OrderInv ==
    /\ Increasing(ch)
    /\ \A n \in Elements(ch) : n <= accepted
    /\ dpc = "fanout" => /\ event \in 1..accepted
                         /\ \A n \in Elements(ch) : event < n
    /\ \A w \in Workers :
          /\ Increasing(queue[w])
          /\ \A m \in got[w], n \in Elements(queue[w]) : m < n
          /\ \A n \in Handed(w) : /\ n <= accepted
                                  /\ dpc = "fanout" => n < event
                                  /\ \A m \in Elements(ch) : n < m
BusInv == TypeOK /\ RegInv /\ OrderInv

-----------------------------------------------------------------------------
(* Queues.                                                                   *)

LEMMA TailFacts ==
    ASSUME NEW S \in SUBSET Nat, NEW s \in Seq(S), s # <<>>
    PROVE  /\ Tail(s) \in Seq(S) /\ Len(Tail(s)) = Len(s) - 1
           /\ Elements(s) = {Head(s)} \cup Elements(Tail(s))
           /\ Increasing(s) => /\ Increasing(Tail(s))
                               /\ \A n \in Elements(Tail(s)) : Head(s) < n
<1>1. /\ Tail(s) \in Seq(S) /\ Len(Tail(s)) = Len(s) - 1 /\ Len(s) \in Nat \ {0}
      /\ \A k \in 1..Len(s) - 1 : Tail(s)[k] = s[k + 1]
      /\ Head(s) = s[1] /\ DOMAIN s = 1..Len(s) /\ DOMAIN Tail(s) = 1..Len(s) - 1
  OBVIOUS
<1>2. Elements(s) = {Head(s)} \cup Elements(Tail(s))
  <2>1. ASSUME NEW k \in 1..Len(s)
        PROVE  s[k] \in {Head(s)} \cup Elements(Tail(s))
    <3>1. CASE k = 1
      BY <1>1, <3>1
    <3>2. CASE k # 1
      <4>1. k - 1 \in 1..Len(s) - 1 /\ Tail(s)[k - 1] = s[k]
        BY <1>1, <3>2
      <4> QED BY <1>1, <4>1 DEF Elements
    <3> QED BY <3>1, <3>2
  <2>2. ASSUME NEW k \in 1..Len(s) - 1
        PROVE  Tail(s)[k] \in Elements(s)
    BY <1>1 DEF Elements
  <2>3. Head(s) \in Elements(s)
    BY <1>1 DEF Elements
  <2> QED BY <1>1, <2>1, <2>2, <2>3 DEF Elements
<1>3. ASSUME Increasing(s)
      PROVE  Increasing(Tail(s)) /\ \A n \in Elements(Tail(s)) : Head(s) < n
  <2>1. ASSUME NEW j \in 1..Len(s) - 1, NEW k \in 1..Len(s) - 1, j < k
        PROVE  Tail(s)[j] < Tail(s)[k]
    <3>1. j + 1 \in DOMAIN s /\ k + 1 \in DOMAIN s /\ j + 1 < k + 1
      BY <1>1, <2>1
    <3>2. s[j + 1] < s[k + 1]
      BY <1>3, <3>1 DEF Increasing
    <3> QED BY <1>1, <3>2
  <2>2. ASSUME NEW k \in 1..Len(s) - 1
        PROVE  Head(s) < Tail(s)[k]
    <3>1. 1 \in DOMAIN s /\ k + 1 \in DOMAIN s /\ 1 < k + 1
      BY <1>1, <2>2
    <3>2. s[1] < s[k + 1]
      BY <1>3, <3>1 DEF Increasing
    <3> QED BY <1>1, <3>2
  <2> QED BY <1>1, <2>1, <2>2 DEF Increasing, Elements
<1> QED BY <1>1, <1>2, <1>3

LEMMA AppendFacts ==
    ASSUME NEW S \in SUBSET Nat, NEW s \in Seq(S), NEW n \in S
    PROVE  /\ Append(s, n) \in Seq(S) /\ Len(Append(s, n)) = Len(s) + 1
           /\ Elements(Append(s, n)) = Elements(s) \cup {n}
           /\ Increasing(s) /\ (\A m \in Elements(s) : m < n) => Increasing(Append(s, n))
<1>1. /\ Append(s, n) \in Seq(S) /\ Len(Append(s, n)) = Len(s) + 1 /\ Len(s) \in Nat
      /\ \A k \in 1..Len(s) : Append(s, n)[k] = s[k]
      /\ Append(s, n)[Len(s) + 1] = n
      /\ DOMAIN s = 1..Len(s) /\ DOMAIN Append(s, n) = 1..Len(s) + 1
  OBVIOUS
<1>2. Elements(Append(s, n)) = Elements(s) \cup {n}
  <2>1. \A k \in 1..Len(s) + 1 : Append(s, n)[k] \in Elements(s) \cup {n}
    BY <1>1 DEF Elements
  <2>2. \A k \in 1..Len(s) : s[k] \in Elements(Append(s, n))
    BY <1>1 DEF Elements
  <2>3. n \in Elements(Append(s, n))
    BY <1>1 DEF Elements
  <2> QED BY <1>1, <2>1, <2>2, <2>3 DEF Elements
<1>3. ASSUME Increasing(s), \A m \in Elements(s) : m < n
      PROVE  Increasing(Append(s, n))
  BY <1>1, <1>3 DEF Increasing, Elements
<1> QED BY <1>1, <1>2, <1>3

LEMMA ElementTypes == ASSUME NEW S, NEW s \in Seq(S) PROVE Elements(s) \subseteq S
BY DEF Elements

LEMMA QueueTypes == TypeOK =>
    /\ Events \in SUBSET Nat /\ ch \in Seq(Events) /\ Elements(ch) \subseteq Events
    /\ \A w \in Workers :
          /\ queue[w] \in Seq(Events) /\ InQueue(w) = Elements(queue[w])
          /\ got[w] \subseteq Events /\ Elements(queue[w]) \subseteq Events
<1> SUFFICES ASSUME TypeOK
             PROVE  /\ Events \in SUBSET Nat /\ ch \in Seq(Events)
                    /\ \A w \in Workers :
                          /\ queue[w] \in Seq(Events) /\ InQueue(w) = Elements(queue[w])
                          /\ got[w] \subseteq Events
  BY ElementTypes
<1>1. \A w \in Workers : InQueue(w) = Elements(queue[w])
  BY DEF InQueue, Elements
<1> QED BY <1>1 DEF TypeOK, Events

-----------------------------------------------------------------------------
(* Types.                                                                    *)

LEMMA InitBusInv == Init => BusInv
<1> SUFFICES ASSUME Init PROVE BusInv
  OBVIOUS
<1>1. TypeOK
  BY BoundAssumption DEF Init, TypeOK, Events
<1>2. RegInv
  BY BoundAssumption DEF Init, RegInv, AllExited
<1>3. OrderInv
  BY DEF Init, OrderInv, Increasing, Handed, Elements
<1> QED BY <1>1, <1>2, <1>3 DEF BusInv

LEMMA PublishType == TypeOK /\ Publish => TypeOK'
BY QueueTypes, AppendFacts, BoundAssumption DEF TypeOK, Publish, Events, subVars, workerVars

LEMMA SubscribeType == ASSUME NEW i \in Ids PROVE TypeOK /\ Subscribe(i) => TypeOK'
<1> SUFFICES ASSUME TypeOK, Subscribe(i) PROVE TypeOK'
  OBVIOUS
<1>1. made + 1 \in Workers /\ made' = made + 1
  BY DEF Subscribe, NewWorker
<1>2. quit' \in [Workers -> BOOLEAN]
  BY DEF Subscribe, Close, TypeOK
<1>3. id' \in [Workers -> Ids] /\ made' \in 0..MaxWorkers
  BY <1>1, BoundAssumption DEF Subscribe, NewWorker, TypeOK, Workers
<1>4. wpc' \in [Workers -> {"none", "select", "handle", "exited"}]
  BY <1>1 DEF Subscribe, NewWorker, TypeOK
<1>5. subs' \subseteq Workers
  BY <1>1 DEF Subscribe, TypeOK
<1> QED BY <1>2, <1>3, <1>4, <1>5 DEF Subscribe, TypeOK, busVars

LEMMA UnsubscribeType == ASSUME NEW i \in Ids PROVE TypeOK /\ Unsubscribe(i) => TypeOK'
BY DEF TypeOK, Unsubscribe, Close, Registered, busVars, workerVars

(* What the fan-out does to the queue of a worker.                           *)
LEMMA FanOutQueue ==
    ASSUME BusInv, FanOut, NEW w \in Workers
    PROVE  \/ queue'[w] = queue[w] /\ (w \in subs => Full(w))
           \/ /\ w \in subs /\ ~Full(w) /\ queue'[w] = Append(queue[w], event)
              /\ queue'[w] \in Seq(Events) /\ Len(queue'[w]) <= SubscriberQueueSize
              /\ Elements(queue'[w]) = Elements(queue[w]) \cup {event}
              /\ Increasing(queue'[w])
<1> DEFINE to == {v \in subs : ~Full(v)}
<1>1. queue'[w] = IF w \in to THEN Append(queue[w], event) ELSE queue[w]
  BY DEF FanOut, Deliver
<1>2. event \in Events /\ dpc = "fanout"
  BY DEF FanOut, BusInv, OrderInv, TypeOK, Events
<1>3. CASE w \in to
  <2>1. /\ queue[w] \in Seq(Events) /\ Len(queue[w]) <= SubscriberQueueSize
        /\ Len(queue[w]) # SubscriberQueueSize /\ Len(queue[w]) \in Nat
    BY <1>3 DEF BusInv, TypeOK, Full
  <2>2. Increasing(queue[w]) /\ \A m \in Elements(queue[w]) : m < event
    BY <1>2 DEF BusInv, OrderInv, Handed
  <2>3. /\ Append(queue[w], event) \in Seq(Events)
        /\ Len(Append(queue[w], event)) = Len(queue[w]) + 1
        /\ Elements(Append(queue[w], event)) = Elements(queue[w]) \cup {event}
        /\ Increasing(Append(queue[w], event))
    BY <1>2, <2>1, <2>2, QueueTypes, AppendFacts DEF BusInv
  <2> QED BY <1>1, <1>3, <2>1, <2>3, BoundAssumption
<1>4. CASE w \notin to
  BY <1>1, <1>4
<1> QED BY <1>3, <1>4

LEMMA DispatchType == BusInv /\ Dispatch => TypeOK'
<1> SUFFICES ASSUME BusInv, Dispatch PROVE TypeOK'
  OBVIOUS
<1> USE DEF BusInv
<1>1. CASE DispatchReceive
  <2>1. ch' \in Seq(Events) /\ Len(ch') <= BufferSize
    BY <1>1, QueueTypes, TailFacts, BoundAssumption DEF TypeOK, DispatchReceive
  <2>2. event' \in Events
    BY <1>1, QueueTypes DEF DispatchReceive
  <2> QED BY <1>1, <2>1, <2>2 DEF TypeOK, DispatchReceive, subVars, workerVars, Events
<1>2. CASE FanOut
  <2>1. ASSUME NEW w \in Workers
        PROVE  queue'[w] \in Seq(Events) /\ Len(queue'[w]) <= SubscriberQueueSize
    BY <1>2, FanOutQueue DEF TypeOK
  <2>2. queue' = [w \in Workers |-> queue'[w]]
    BY <1>2 DEF FanOut, Deliver
  <2>3. queue' \in [Workers -> Seq(Events)]
    BY <2>1, <2>2
  <2> QED BY <1>2, <2>1, <2>3, BoundAssumption DEF TypeOK, FanOut, Deliver, subVars
<1>3. CASE DispatchExit
  BY <1>3 DEF TypeOK, DispatchExit, subVars, workerVars
<1> QED BY <1>1, <1>2, <1>3 DEF Dispatch

(* What the worker takes out of its queue.                                   *)
LEMMA ReceiveQueue ==
    ASSUME BusInv, NEW w \in Workers, Receive(w)
    PROVE  /\ queue' \in [Workers -> Seq(Events)] /\ got' \in [Workers -> SUBSET Events]
           /\ \A v \in Workers \ {w} : queue'[v] = queue[v] /\ got'[v] = got[v]
           /\ Len(queue'[w]) <= SubscriberQueueSize
           /\ got'[w] = got[w] \cup {Head(queue[w])}
           /\ Elements(queue[w]) = {Head(queue[w])} \cup Elements(queue'[w])
           /\ Increasing(queue'[w]) /\ \A n \in Elements(queue'[w]) : Head(queue[w]) < n
<1>1. /\ queue[w] \in Seq(Events) /\ queue[w] # <<>> /\ Increasing(queue[w])
      /\ Len(queue[w]) <= SubscriberQueueSize /\ Events \in SUBSET Nat
      /\ queue \in [Workers -> Seq(Events)] /\ got \in [Workers -> SUBSET Events]
  BY QueueTypes DEF Receive, BusInv, TypeOK, OrderInv
<1>2. Head(queue[w]) \in Events /\ Tail(queue[w]) \in Seq(Events)
  BY <1>1
<1>3. /\ queue' = [queue EXCEPT ![w] = Tail(queue[w])]
      /\ got' = [got EXCEPT ![w] = got[w] \cup {Head(queue[w])}]
  BY DEF Receive
<1>4. /\ Len(Tail(queue[w])) = Len(queue[w]) - 1
      /\ Elements(queue[w]) = {Head(queue[w])} \cup Elements(Tail(queue[w]))
      /\ Increasing(Tail(queue[w]))
      /\ \A n \in Elements(Tail(queue[w])) : Head(queue[w]) < n
  BY <1>1, TailFacts
<1>5. Len(Tail(queue[w])) <= SubscriberQueueSize
  BY <1>1, <1>4, BoundAssumption
<1> QED BY <1>1, <1>2, <1>3, <1>4, <1>5

LEMMA WorkerType ==
    ASSUME NEW w \in Workers
    PROVE  BusInv /\ (Work(w) \/ HandlerReturn(w)) => TypeOK'
<1> SUFFICES ASSUME BusInv, Work(w) \/ HandlerReturn(w) PROVE TypeOK'
  OBVIOUS
<1>1. CASE Receive(w)
  <2>1. \A v \in Workers : Len(queue'[v]) <= SubscriberQueueSize
    BY <1>1, ReceiveQueue DEF BusInv, TypeOK
  <2>2. queue' \in [Workers -> Seq(Events)] /\ got' \in [Workers -> SUBSET Events]
    BY <1>1, ReceiveQueue
  <2> QED BY <1>1, <2>1, <2>2 DEF BusInv, TypeOK, Receive, busVars, subVars
<1>2. CASE WorkerExit(w) \/ HandlerReturn(w)
  BY <1>2 DEF BusInv, TypeOK, WorkerExit, HandlerReturn, busVars, subVars
<1> QED BY <1>1, <1>2 DEF Work

LEMMA StopType == TypeOK /\ (StopMark \/ StopClose \/ StopWait) => TypeOK'
BY DEF TypeOK, StopMark, StopClose, StopWait, busVars, subVars, workerVars

-----------------------------------------------------------------------------
(* Registration.                                                             *)

LEMMA SubscribeReg == ASSUME NEW i \in Ids PROVE BusInv /\ Subscribe(i) => RegInv'
<1> SUFFICES ASSUME BusInv, Subscribe(i) PROVE RegInv'
  OBVIOUS
<1>1. /\ made + 1 \in Workers /\ made' = made + 1 /\ made \in Nat /\ Workers \subseteq Nat
      /\ subs' = (subs \ Registered(i)) \cup {made + 1}
  BY DEF Subscribe, NewWorker, BusInv, TypeOK, Workers
<1>2. \A w \in Workers : /\ id'[w] = IF w = made + 1 THEN i ELSE id[w]
                         /\ wpc'[w] = IF w = made + 1 THEN "select" ELSE wpc[w]
                         /\ quit'[w] = (quit[w] \/ w \in Registered(i))
                         /\ queue'[w] = queue[w] /\ got'[w] = got[w]
  BY DEF Subscribe, NewWorker, Close, BusInv, TypeOK
<1>3. made + 1 \notin subs /\ ~quit[made + 1] /\ subs \subseteq Workers
  BY <1>1 DEF BusInv, RegInv, TypeOK
<1>4. \A w \in Workers : IF w <= made' THEN wpc'[w] # "none"
                         ELSE /\ wpc'[w] = "none" /\ w \notin subs' /\ ~quit'[w]
                              /\ queue'[w] = <<>> /\ got'[w] = {}
  <2>1. ASSUME NEW w \in Workers, w <= made
        PROVE  w <= made' /\ wpc'[w] # "none"
    BY <1>1, <1>2, <2>1 DEF BusInv, RegInv
  <2>2. ASSUME NEW w \in Workers, ~(w <= made')
        PROVE  /\ wpc'[w] = "none" /\ w \notin subs' /\ ~quit'[w]
               /\ queue'[w] = <<>> /\ got'[w] = {}
    <3>1. ~(w <= made) /\ w # made + 1
      BY <1>1, <2>2
    <3> QED BY <1>1, <1>2, <3>1 DEF BusInv, RegInv, Registered
  <2>3. \A w \in Workers : w <= made' => w <= made \/ w = made + 1
    BY <1>1
  <2> QED BY <1>2, <2>1, <2>2, <2>3
<1>5. \A w \in subs' : ~quit'[w]
  BY <1>1, <1>2, <1>3 DEF BusInv, RegInv, Registered
<1>6. \A v, w \in subs' : id'[v] = id'[w] => v = w
  BY <1>1, <1>2, <1>3 DEF BusInv, RegInv, Registered
<1>7. stop' # "returned"
  BY DEF Subscribe, Stopped
<1> QED BY <1>4, <1>5, <1>6, <1>7 DEF RegInv

LEMMA NextReg == BusInv /\ [Next]_vars => RegInv'
<1> SUFFICES ASSUME BusInv, [Next]_vars PROVE RegInv'
  OBVIOUS
<1>1. ASSUME NEW i \in Ids, Unsubscribe(i)
      PROVE  RegInv'
  <2>1. /\ subs' = subs \ Registered(i) /\ subs \subseteq Workers
        /\ \A w \in Workers : quit'[w] = (quit[w] \/ w \in Registered(i))
        /\ UNCHANGED <<made, id, wpc, queue, got, stop, dpc>>
    BY <1>1 DEF Unsubscribe, Close, busVars, workerVars, BusInv, TypeOK
  <2> QED BY <2>1 DEF BusInv, RegInv, Registered, AllExited
<1>2. CASE Publish \/ DispatchReceive \/ DispatchExit
  BY <1>2 DEF Publish, DispatchReceive, DispatchExit, subVars, workerVars, BusInv, RegInv,
              AllExited
<1>3. CASE FanOut
  <2>1. \A w \in Workers : w \notin subs => queue'[w] = queue[w]
    BY <1>3 DEF FanOut, Deliver
  <2> QED BY <1>3, <2>1 DEF FanOut, Deliver, subVars, BusInv, RegInv, AllExited
<1>4. ASSUME NEW w \in Workers, Receive(w)
      PROVE  RegInv'
  BY <1>4 DEF Receive, busVars, subVars, BusInv, RegInv, TypeOK, AllExited
<1>5. ASSUME NEW w \in Workers, WorkerExit(w) \/ HandlerReturn(w)
      PROVE  RegInv'
  BY <1>5 DEF WorkerExit, HandlerReturn, busVars, subVars, BusInv, RegInv, TypeOK, AllExited
<1>6. CASE StopMark \/ StopClose \/ StopWait \/ UNCHANGED vars
  BY <1>6 DEF StopMark, StopClose, StopWait, vars, busVars, subVars, workerVars, BusInv,
              RegInv, AllExited
<1> QED BY <1>1, <1>2, <1>3, <1>4, <1>5, <1>6, SubscribeReg DEF Next, Dispatch, Work

-----------------------------------------------------------------------------
(* Order.                                                                    *)

LEMMA PublishOrder == BusInv /\ TypeOK' /\ Publish => OrderInv'
<1> SUFFICES ASSUME BusInv, TypeOK', Publish PROVE OrderInv'
  OBVIOUS
<1>1. /\ accepted \in Nat /\ accepted + 1 \in Events /\ event \in Nat
      /\ accepted' = accepted + 1 /\ ch' = Append(ch, accepted + 1)
      /\ UNCHANGED <<dpc, event, queue, got>>
  BY BoundAssumption DEF Publish, BusInv, TypeOK, Events, subVars, workerVars
<1>2. \A w \in Workers : got[w] \subseteq Nat /\ Elements(queue[w]) \subseteq Nat
  BY QueueTypes DEF BusInv
<1>3. OrderInv /\ TypeOK
  BY DEF BusInv
<1>4. \A n \in Elements(ch) : n \in Nat /\ n <= accepted
  BY <1>3, QueueTypes DEF OrderInv
<1>5. Elements(ch') = Elements(ch) \cup {accepted + 1} /\ Increasing(ch')
  <2>1. \A n \in Elements(ch) : n < accepted + 1
    BY <1>1, <1>4
  <2> QED BY <1>1, <1>3, <2>1, QueueTypes, AppendFacts DEF OrderInv
<1> QED
  BY <1>1, <1>2, <1>3, <1>4, <1>5 DEF OrderInv, Handed

LEMMA ReceiveEventOrder == BusInv /\ TypeOK' /\ DispatchReceive => OrderInv'
<1> SUFFICES ASSUME BusInv, TypeOK', DispatchReceive PROVE OrderInv'
  OBVIOUS
<1>1. /\ dpc = "select" /\ event' = Head(ch) /\ ch' = Tail(ch) /\ dpc' = "fanout"
      /\ UNCHANGED <<accepted, queue, got>>
  BY DEF DispatchReceive, workerVars
<1>2. OrderInv /\ TypeOK
  BY DEF BusInv
<1>3. /\ Elements(ch) = {event'} \cup Elements(ch') /\ Increasing(ch')
      /\ \A n \in Elements(ch') : event' < n
  BY <1>1, <1>2, QueueTypes, TailFacts DEF OrderInv, DispatchReceive
<1>4. event' \in 1..accepted
  <2>1. event' \in Elements(ch) /\ accepted \in Nat
    BY <1>2, <1>3 DEF TypeOK
  <2> QED BY <1>2, <2>1, QueueTypes DEF OrderInv, Events
<1> QED BY <1>1, <1>2, <1>3, <1>4 DEF OrderInv, Handed

LEMMA FanOutOrder == BusInv /\ TypeOK' /\ FanOut => OrderInv'
<1> SUFFICES ASSUME BusInv, TypeOK', FanOut PROVE OrderInv'
  OBVIOUS
<1>1. dpc = "fanout" /\ dpc' = "select" /\ UNCHANGED <<accepted, ch, got>>
  BY DEF FanOut, Deliver
<1>2. OrderInv /\ TypeOK
  BY DEF BusInv
<1>3. ASSUME NEW w \in Workers
      PROVE  /\ Increasing(queue'[w])
             /\ \A m \in got'[w], n \in Elements(queue'[w]) : m < n
             /\ \A n \in got'[w] \cup Elements(queue'[w]) :
                   n <= accepted' /\ \A m \in Elements(ch') : n < m
  <2>1. Elements(queue'[w]) \subseteq Elements(queue[w]) \cup {event}
        /\ Increasing(queue'[w])
    BY <1>2, FanOutQueue DEF OrderInv, Handed
  <2> QED BY <1>1, <1>2, <2>1 DEF OrderInv, Handed
<1> QED BY <1>1, <1>2, <1>3 DEF OrderInv, Handed

LEMMA ReceiveOrder ==
    ASSUME NEW w \in Workers
    PROVE  BusInv /\ TypeOK' /\ Receive(w) => OrderInv'
<1> SUFFICES ASSUME BusInv, TypeOK', Receive(w) PROVE OrderInv'
  OBVIOUS
<1>1. UNCHANGED <<accepted, ch, dpc, event>>
  BY DEF Receive, busVars
<1>2. OrderInv /\ TypeOK
  BY DEF BusInv
<1>3. ASSUME NEW v \in Workers
      PROVE  /\ Increasing(queue'[v])
             /\ \A m \in got'[v], n \in Elements(queue'[v]) : m < n
             /\ got'[v] \cup Elements(queue'[v]) = got[v] \cup Elements(queue[v])
  BY ZenonT(60), <1>2, ReceiveQueue DEF OrderInv, Handed
<1> QED BY <1>1, <1>2, <1>3 DEF OrderInv, Handed

LEMMA NextBusInv == BusInv /\ [Next]_vars => BusInv'
<1> SUFFICES ASSUME BusInv, [Next]_vars PROVE TypeOK' /\ OrderInv'
  BY NextReg DEF BusInv
<1>1. CASE Publish
  BY <1>1, PublishType, PublishOrder DEF BusInv
<1>2. ASSUME UNCHANGED <<accepted, ch, event, queue, got>>, dpc' = "fanout" => dpc = "fanout"
      PROVE  OrderInv'
  BY <1>2 DEF BusInv, OrderInv, Handed
<1>3. ASSUME NEW i \in Ids, Subscribe(i) \/ Unsubscribe(i)
      PROVE  TypeOK' /\ OrderInv'
  <2>1. TypeOK'
    BY <1>3, SubscribeType, UnsubscribeType DEF BusInv
  <2>2. UNCHANGED <<accepted, ch, event, queue, got, dpc>>
    BY <1>3 DEF Subscribe, Unsubscribe, busVars, workerVars
  <2> QED BY <1>2, <2>1, <2>2
<1>4. CASE Dispatch
  <2>1. TypeOK'
    BY <1>4, DispatchType
  <2>2. CASE DispatchExit
    BY <1>2, <2>1, <2>2 DEF DispatchExit, workerVars
  <2> QED BY <1>4, <2>1, <2>2, ReceiveEventOrder, FanOutOrder DEF Dispatch
<1>5. ASSUME NEW w \in Workers, Work(w) \/ HandlerReturn(w)
      PROVE  TypeOK' /\ OrderInv'
  <2>1. TypeOK'
    BY <1>5, WorkerType
  <2>2. CASE WorkerExit(w) \/ HandlerReturn(w)
    BY <1>2, <2>1, <2>2 DEF WorkerExit, HandlerReturn, busVars
  <2> QED BY <1>5, <2>1, <2>2, ReceiveOrder DEF Work
<1>6. CASE StopMark \/ StopClose \/ StopWait
  <2>1. UNCHANGED <<accepted, ch, event, queue, got, dpc>>
    BY <1>6 DEF StopMark, StopClose, StopWait, busVars, workerVars
  <2> QED BY <1>2, <1>6, <2>1, StopType DEF BusInv
<1>7. CASE UNCHANGED vars
  <2>1. TypeOK' /\ UNCHANGED <<accepted, ch, event, queue, got, dpc>>
    BY <1>7 DEF vars, BusInv, TypeOK
  <2> QED BY <1>2, <2>1
<1> QED BY <1>1, <1>3, <1>4, <1>5, <1>6, <1>7 DEF Next

-----------------------------------------------------------------------------
(* Every variable keeps its type, and no queue exceeds its capacity.         *)
THEOREM TypeCorrect == Spec => []TypeOK
<1>1. Spec => []BusInv
  BY InitBusInv, NextBusInv, PTL DEF Spec
<1> QED BY <1>1, PTL DEF BusInv

(* Once Stop has returned, no goroutine of the bus runs, and Subscribe makes *)
(* none.                                                                     *)
THEOREM QuietAfterStop == Spec => []StopQuiet
<1>1. Spec => []BusInv
  BY InitBusInv, NextBusInv, PTL DEF Spec
<1>2. BusInv => StopQuiet
  BY DEF BusInv, RegInv, StopQuiet
<1> QED BY <1>1, <1>2, PTL

(* A handler is called with events in the order of their publication.        *)
THEOREM HandledInOrder == Spec => InOrder
<1>1. BusInv /\ [Next]_vars =>
         \A w \in Workers : \A m \in got[w], n \in got'[w] \ got[w] : m < n
  <2> SUFFICES ASSUME BusInv, [Next]_vars, NEW w \in Workers, NEW m \in got[w],
                      NEW n \in got'[w] \ got[w]
               PROVE  m < n
    OBVIOUS
  <2>1. \E v \in Workers : Receive(v)
    BY DEF Next, vars, Publish, Subscribe, Unsubscribe, Dispatch, DispatchReceive, FanOut,
           Deliver, DispatchExit, Work, WorkerExit, HandlerReturn, StopMark, StopClose,
           StopWait, workerVars
  <2>2. n = Head(queue[w]) /\ Head(queue[w]) \in Elements(queue[w])
    BY ZenonT(60), <2>1, ReceiveQueue
  <2> QED BY <2>2 DEF BusInv, OrderInv
<1> QED BY <1>1, InitBusInv, NextBusInv, PTL DEF Spec, InOrder

(* Subscribe never lets an id have an event twice, although it replaces a    *)
(* worker while the dispatcher holds an event.                               *)
Distinct == \A v, w \in Workers :
    v # w /\ id[v] = id[w] /\ wpc[v] # "none" /\ wpc[w] # "none" => Handed(v) \cap Handed(w) = {}

LEMMA NextDistinct == BusInv /\ Distinct /\ [Next]_vars => Distinct'
<1> SUFFICES ASSUME BusInv, Distinct, [Next]_vars PROVE Distinct'
  OBVIOUS
<1>1. ASSUME UNCHANGED <<id, wpc, queue, got>>
      PROVE  Distinct'
  BY <1>1 DEF Distinct, Handed
<1>2. ASSUME NEW i \in Ids, Subscribe(i)
      PROVE  Distinct'
  <2>1. made + 1 \in Workers /\ made \in Nat
    BY <1>2 DEF Subscribe, NewWorker, BusInv, TypeOK
  <2>2. \A w \in Workers : /\ w # made + 1 => id'[w] = id[w] /\ wpc'[w] = wpc[w]
                           /\ Handed(w)' = Handed(w)
    BY <1>2 DEF Subscribe, NewWorker, BusInv, TypeOK, Handed
  <2>3. Handed(made + 1) = {}
    BY <2>1 DEF BusInv, RegInv, Handed, Elements
  <2> QED BY <2>2, <2>3 DEF Distinct
<1>3. CASE FanOut
  <2>1. dpc = "fanout" /\ UNCHANGED <<id, wpc, got>>
    BY <1>3 DEF FanOut, Deliver, subVars
  <2>2. ASSUME NEW w \in Workers
        PROVE  /\ Handed(w)' = Handed(w) \/ (w \in subs /\ Handed(w)' = Handed(w) \cup {event})
               /\ event \notin Handed(w)
    <3>1. event \notin Handed(w)
      BY <2>1, QueueTypes DEF BusInv, OrderInv, Handed
    <3> QED BY <1>3, <2>1, <3>1, FanOutQueue DEF Handed
  <2> QED BY <2>1, <2>2 DEF Distinct, BusInv, RegInv
<1>4. ASSUME NEW w \in Workers, Receive(w)
      PROVE  Distinct'
  <2>1. /\ id' = id /\ \A v \in Workers : wpc'[v] # "none" => wpc[v] # "none"
    BY <1>4 DEF Receive, subVars, BusInv, TypeOK
  <2>2. \A v \in Workers : Handed(v)' = Handed(v)
    BY <1>4, ReceiveQueue DEF Handed
  <2> QED BY <2>1, <2>2 DEF Distinct
<1>5. ASSUME NEW w \in Workers, WorkerExit(w) \/ HandlerReturn(w)
      PROVE  Distinct'
  <2>1. /\ id' = id /\ \A v \in Workers : wpc'[v] # "none" => wpc[v] # "none"
        /\ UNCHANGED <<queue, got>>
    BY <1>5 DEF WorkerExit, HandlerReturn, subVars, BusInv, TypeOK
  <2> QED BY <2>1 DEF Distinct, Handed
<1>6. CASE \/ Publish \/ DispatchReceive \/ DispatchExit \/ \E i \in Ids : Unsubscribe(i)
           \/ StopMark \/ StopClose \/ StopWait \/ UNCHANGED vars
  BY <1>1, <1>6 DEF Publish, DispatchReceive, DispatchExit, Unsubscribe, StopMark, StopClose,
                    StopWait, vars, subVars, workerVars
<1> QED BY <1>2, <1>3, <1>4, <1>5, <1>6 DEF Next, Dispatch, Work

(* An event is handled once by an id.                                        *)
THEOREM HandledOnce == Spec => []OneCopy
<1>1. Init => Distinct
  BY DEF Init, Distinct, Handed, Elements
<1>2. Spec => [](BusInv /\ Distinct)
  BY <1>1, InitBusInv, NextBusInv, NextDistinct, PTL DEF Spec
<1>3. BusInv /\ Distinct => OneCopy
  BY QueueTypes DEF BusInv, Distinct, OneCopy, Handed
<1> QED BY <1>2, <1>3, PTL

(* A worker that was removed or replaced is given nothing more.              *)
THEOREM RemovedGetsNothing == Spec => NoneAfterRemoval
<1>1. BusInv /\ BusInv' /\ [Next]_vars =>
         \A w \in Workers : quit[w] => InQueue(w)' \subseteq InQueue(w)
  <2> SUFFICES ASSUME BusInv, BusInv', [Next]_vars, NEW w \in Workers, quit[w]
               PROVE  Elements(queue'[w]) \subseteq Elements(queue[w])
    BY DEF InQueue, Elements
  <2>1. CASE queue' = queue
    BY <2>1
  <2>2. CASE FanOut
    BY <2>2, FanOutQueue DEF BusInv, RegInv
  <2>3. ASSUME NEW v \in Workers, Receive(v)
        PROVE  Elements(queue'[w]) \subseteq Elements(queue[w])
    BY <2>3, ReceiveQueue
  <2> QED BY <2>1, <2>2, <2>3 DEF Next, vars, Publish, Subscribe, Unsubscribe, Dispatch,
        DispatchReceive, DispatchExit, Work, WorkerExit, HandlerReturn, StopMark, StopClose,
        StopWait, workerVars
<1> QED BY <1>1, InitBusInv, NextBusInv, PTL DEF Spec, NoneAfterRemoval

(* What is on its way to a registered worker leaves only to its handler, or  *)
(* at a full queue.                                                          *)
THEOREM OnlyFullDrops == Spec => NothingLost
<1>1. BusInv /\ [Next]_vars =>
         \A w \in subs \cap subs' : \A n \in OnTheWay(w) :
            \/ n \in OnTheWay(w)' \cup got'[w]
            \/ dpc = "fanout" /\ n = event /\ Full(w)
  <2> SUFFICES ASSUME BusInv, [Next]_vars, NEW w \in subs \cap subs'
               PROVE  \A n \in OnTheWay(w) :
                         \/ n \in OnTheWay(w)' \cup got'[w]
                         \/ dpc = "fanout" /\ n = event /\ Full(w)
    OBVIOUS
  <2> DEFINE way == Elements(queue[w]) \cup Elements(ch)
                       \cup (IF dpc = "fanout" THEN {event} ELSE {})
  <2>1. /\ OnTheWay(w) = way /\ OnTheWay(w)' = way' /\ w \in Workers
    BY DEF OnTheWay, InQueue, Elements, BusInv, TypeOK
  <2> SUFFICES \A n \in way :
                 \/ n \in way' \cup got'[w]
                 \/ dpc = "fanout" /\ n = event /\ Full(w)
    BY <2>1
  <2>2. CASE Publish
    <3>1. accepted + 1 \in Events
      BY <2>2, BoundAssumption DEF Publish, BusInv, TypeOK, Events
    <3>2. Elements(ch') = Elements(ch) \cup {accepted + 1}
      BY <2>2, <3>1, QueueTypes, AppendFacts DEF Publish, BusInv
    <3> QED BY <2>2, <3>2 DEF Publish, workerVars
  <2>3. CASE DispatchReceive
    <3>1. Elements(ch) = {event'} \cup Elements(ch')
      BY <2>3, QueueTypes, TailFacts DEF DispatchReceive, BusInv
    <3> QED BY <2>3, <3>1 DEF DispatchReceive, workerVars
  <2>4. CASE FanOut
    BY <2>1, <2>4, FanOutQueue DEF FanOut, Deliver
  <2>5. ASSUME NEW v \in Workers, Receive(v)
        PROVE  \A n \in way : n \in way' \cup got'[w]
    <3>1. ch' = ch /\ event' = event /\ dpc' = dpc
      BY <2>5 DEF Receive, busVars
    <3>2. Elements(queue[w]) \subseteq Elements(queue'[w]) \cup got'[w]
      <4>1. CASE v = w
        <5>1. /\ got'[w] = got[w] \cup {Head(queue[w])}
              /\ Elements(queue[w]) = {Head(queue[w])} \cup Elements(queue'[w])
          BY <2>5, <4>1, ReceiveQueue
        <5> QED BY <5>1
      <4>2. CASE v # w
        <5>1. queue'[w] = queue[w]
          BY <2>1, <2>5, <4>2, ReceiveQueue
        <5> QED BY <5>1
      <4> QED BY <4>1, <4>2
    <3> QED BY <3>1, <3>2
  <2>6. CASE UNCHANGED <<ch, event, queue>> /\ (dpc = "fanout" => dpc' = "fanout")
    BY <2>6
  <2> QED BY <2>2, <2>3, <2>4, <2>5, <2>6 DEF Next, vars, Subscribe, Unsubscribe, Dispatch,
        DispatchExit, Work, WorkerExit, HandlerReturn, StopMark, StopClose, StopWait, busVars,
        workerVars
<1> QED BY <1>1, InitBusInv, NextBusInv, PTL DEF Spec, NothingLost
=============================================================================
