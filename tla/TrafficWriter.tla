---------------------------- MODULE TrafficWriter ---------------------------
(***************************************************************************)
(* internal/web/service/traffic_writer.go: the goroutine that serialises   *)
(* the writes to the traffic tables, the goroutines that submit writes to  *)
(* it, and the goroutines that start and stop it.  Every Start that finds  *)
(* no live writer makes a new generation: a queue, a context and a done    *)
(* channel.  Generation 0 stands for the nil package state.                *)
(*                                                                         *)
(* A step that holds twMu from Lock to Unlock without blocking is one      *)
(* action; submitTrafficWrite's send, which may block with twMu held, is   *)
(* not.  A write is named by its submitter: a goroutine has one call of    *)
(* submitTrafficWrite at a time.                                           *)
(***************************************************************************)
EXTENDS Naturals, Sequences

CONSTANTS
    Submitters,       \* goroutines that call submitTrafficWrite
    Controllers,      \* goroutines that call StartTrafficWriter, StopTrafficWriter
    NoOne,            \* nobody holds twMu, or no request is in hand
    QueueSize,        \* trafficWriterQueueSize
    MaxGen            \* bound: how many generations are ever started

ASSUME QueueSizeAssumption == QueueSize \in Nat \ {0}
ASSUME MaxGenAssumption    == MaxGen \in Nat \ {0}
ASSUME NoOneAssumption     == NoOne \notin Submitters

VARIABLES
    mu,               \* the submitter that blocks with twMu held, or NoOne
    cur,              \* generation in twQueue, twCtx, twCancel, twDone; 0 is nil
    made,             \* generations made so far
    queue,            \* queue[g]: requests in generation g's channel
    cancelled,        \* cancelled[g]: g's context is cancelled
    wpc,              \* wpc[g]: where g's runTrafficWriter is; "exited" is done closed
    wreq,             \* wreq[g]: the request whose function g's writer runs
    spc,              \* spc[s]: where s is in submitTrafficWrite
    sgen,             \* sgen[s]: the generation s read under twMu
    reply,            \* reply[s]: s's request has an answer in req.done
    res,              \* res[s]: what s's last call returned
    applied,          \* history: how often the function of s's call has run
    cpc,              \* cpc[c]: where c is in StopTrafficWriter
    cgen              \* cgen[c]: the generation c is stopping

writerVars == <<cur, made, cancelled>>
controlVars == <<cpc, cgen>>
vars == <<mu, cur, made, queue, cancelled, wpc, wreq, spc, sgen, reply, res,
          applied, cpc, cgen>>

Gens == 1..MaxGen
Done(g) == wpc[g] = "exited"

Init == /\ mu = NoOne
        /\ cur = 0
        /\ made = 0
        /\ queue = [g \in Gens |-> <<>>]
        /\ cancelled = [g \in Gens |-> FALSE]
        /\ wpc = [g \in Gens |-> "none"]
        /\ wreq = [g \in Gens |-> NoOne]
        /\ spc = [s \in Submitters |-> "idle"]
        /\ sgen = [s \in Submitters |-> 0]
        /\ reply = [s \in Submitters |-> FALSE]
        /\ res = [s \in Submitters |-> "none"]
        /\ applied = [s \in Submitters |-> 0]
        /\ cpc = [c \in Controllers |-> "idle"]
        /\ cgen = [c \in Controllers |-> 0]

-----------------------------------------------------------------------------
(* Mutant: it does not look at twDone, and always makes a generation. *)
Start_Always(c) ==
    /\ cpc[c] = "idle" /\ mu = NoOne /\ made < MaxGen
    /\ made' = made + 1
    /\ cur' = made + 1
    /\ wpc' = [wpc EXCEPT ![made + 1] = "select"]
    /\ UNCHANGED <<mu, queue, cancelled, wreq, spc, sgen, reply, res, applied,
                   controlVars>>

(* Mutant: the goroutine is spawned under a sync.Once. *)
Start_Once(c) ==
    /\ cpc[c] = "idle" /\ mu = NoOne /\ made < MaxGen /\ (cur # 0 => Done(cur))
    /\ made' = made + 1
    /\ cur' = made + 1
    /\ wpc' = IF made = 0 THEN [wpc EXCEPT ![1] = "select"] ELSE wpc
    /\ UNCHANGED <<mu, queue, cancelled, wreq, spc, sgen, reply, res, applied,
                   controlVars>>

(* StartTrafficWriter.  With a live writer, one that is draining included,  *)
(* it returns without an effect: that call is a stuttering step.            *)
Start(c) ==
    /\ cpc[c] = "idle"
    /\ mu = NoOne
    /\ cur # 0 => Done(cur)
    /\ made < MaxGen
    /\ made' = made + 1
    /\ cur' = made + 1
    /\ wpc' = [wpc EXCEPT ![made + 1] = "select"]
    /\ UNCHANGED <<mu, queue, cancelled, wreq, spc, sgen, reply, res, applied,
                   controlVars>>

(* StopTrafficWriter, up to the wait: cancel under the lock. *)
StopCancel(c) ==
    /\ cpc[c] = "idle"
    /\ mu = NoOne
    /\ cur # 0
    /\ cancelled' = [cancelled EXCEPT ![cur] = TRUE]
    /\ cgen' = [cgen EXCEPT ![c] = cur]
    /\ cpc' = [cpc EXCEPT ![c] = "waitDone"]
    /\ UNCHANGED <<mu, cur, made, queue, wpc, wreq, spc, sgen, reply, res,
                   applied>>

(* Mutant: Stop does not wait for done. *)
StopDone_NoWait(c) ==
    /\ cpc[c] = "waitDone"
    /\ cpc' = [cpc EXCEPT ![c] = "clear"]
    /\ UNCHANGED <<mu, writerVars, queue, wpc, wreq, spc, sgen, reply, res,
                   applied, cgen>>

(* StopTrafficWriter's <-done. *)
StopDone(c) ==
    /\ cpc[c] = "waitDone"
    /\ Done(cgen[c])
    /\ cpc' = [cpc EXCEPT ![c] = "clear"]
    /\ UNCHANGED <<mu, writerVars, queue, wpc, wreq, spc, sgen, reply, res,
                   applied, cgen>>

(* StopTrafficWriter's last critical section, and its return. *)
StopClear(c) ==
    /\ cpc[c] = "clear"
    /\ mu = NoOne
    /\ cur' = IF cur = cgen[c] THEN 0 ELSE cur
    /\ cpc' = [cpc EXCEPT ![c] = "idle"]
    /\ UNCHANGED <<mu, made, queue, cancelled, wpc, wreq, spc, sgen, reply, res,
                   applied, cgen>>

-----------------------------------------------------------------------------
(* runTrafficWriter receives a request, from either of its loops: select    *)
(* may prefer the queue to a cancelled context.                             *)
Take(g) ==
    /\ wpc[g] \in {"select", "drain"}
    /\ queue[g] # <<>>
    /\ wreq' = [wreq EXCEPT ![g] = Head(queue[g])]
    /\ queue' = [queue EXCEPT ![g] = Tail(@)]
    /\ wpc' = [wpc EXCEPT ![g] = IF @ = "select" THEN "apply" ELSE "drainApply"]
    /\ UNCHANGED <<mu, writerVars, spc, sgen, reply, res, applied, controlVars>>

(* The function it runs ends, in a result, an error or a recovered panic,   *)
(* and the answer goes to req.done, which has room for it.                  *)
Answer(g) ==
    /\ wpc[g] \in {"apply", "drainApply"}
    /\ applied' = [applied EXCEPT ![wreq[g]] = @ + 1]
    /\ reply' = [reply EXCEPT ![wreq[g]] = TRUE]
    /\ wreq' = [wreq EXCEPT ![g] = NoOne]
    /\ wpc' = [wpc EXCEPT ![g] = IF @ = "apply" THEN "select" ELSE "drain"]
    /\ UNCHANGED <<mu, writerVars, queue, spc, sgen, res, controlVars>>

(* Mutant: the context is looked at only between two requests. *)
Notice_BetweenRequests(g) ==
    /\ wpc[g] = "select" /\ cancelled[g] /\ queue[g] # <<>>
    /\ wpc' = [wpc EXCEPT ![g] = "drain"]
    /\ UNCHANGED <<mu, writerVars, queue, wreq, spc, sgen, reply, res, applied,
                   controlVars>>

(* It receives from ctx.Done() and turns to the draining loop. *)
Notice(g) ==
    /\ wpc[g] = "select"
    /\ cancelled[g]
    /\ wpc' = [wpc EXCEPT ![g] = "drain"]
    /\ UNCHANGED <<mu, writerVars, queue, wreq, spc, sgen, reply, res, applied,
                   controlVars>>

(* Mutant: the cancelled writer returns without draining. *)
Exit_Undrained(g) ==
    /\ wpc[g] = "drain"
    /\ wpc' = [wpc EXCEPT ![g] = "exited"]
    /\ UNCHANGED <<mu, writerVars, queue, wreq, spc, sgen, reply, res, applied,
                   controlVars>>

(* The draining loop finds the queue empty: return, and close(done). *)
Exit(g) ==
    /\ wpc[g] = "drain"
    /\ queue[g] = <<>>
    /\ wpc' = [wpc EXCEPT ![g] = "exited"]
    /\ UNCHANGED <<mu, writerVars, queue, wreq, spc, sgen, reply, res, applied,
                   controlVars>>

-----------------------------------------------------------------------------
(* submitTrafficWrite is called, with a fresh request. *)
Submit(s) ==
    /\ spc[s] = "idle"
    /\ spc' = [spc EXCEPT ![s] = "lock"]
    /\ reply' = [reply EXCEPT ![s] = FALSE]
    /\ res' = [res EXCEPT ![s] = "none"]
    /\ applied' = [applied EXCEPT ![s] = 0]
    /\ UNCHANGED <<mu, writerVars, queue, wpc, wreq, sgen, controlVars>>

(* Mutant: a busy twMu is taken for a missing writer (TryLock). *)
RunInline_TryLock(s) ==
    /\ spc[s] = "lock"
    /\ mu # NoOne \/ (cur # 0 => cancelled[cur])
    /\ spc' = [spc EXCEPT ![s] = "inline"]
    /\ UNCHANGED <<mu, writerVars, queue, wpc, wreq, sgen, reply, res, applied,
                   controlVars>>

(* It finds no writer, or one whose context is cancelled: run in place. *)
RunInline(s) ==
    /\ spc[s] = "lock"
    /\ mu = NoOne
    /\ cur # 0 => cancelled[cur]
    /\ spc' = [spc EXCEPT ![s] = "inline"]
    /\ UNCHANGED <<mu, writerVars, queue, wpc, wreq, sgen, reply, res, applied,
                   controlVars>>

(* It finds an open writer, and keeps twMu for the send. *)
Acquire(s) ==
    /\ spc[s] = "lock"
    /\ mu = NoOne
    /\ cur # 0
    /\ ~cancelled[cur]
    /\ mu' = s
    /\ sgen' = [sgen EXCEPT ![s] = cur]
    /\ spc' = [spc EXCEPT ![s] = "send"]
    /\ UNCHANGED <<writerVars, queue, wpc, wreq, reply, res, applied,
                   controlVars>>

(* Mutant: a queue without a limit. *)
Enqueue_Unbounded(s) ==
    /\ spc[s] = "send"
    /\ queue' = [queue EXCEPT ![sgen[s]] = Append(@, s)]
    /\ mu' = NoOne
    /\ spc' = [spc EXCEPT ![s] = "wait"]
    /\ UNCHANGED <<writerVars, wpc, wreq, sgen, reply, res, applied, controlVars>>

(* The send finds room. *)
Enqueue(s) ==
    /\ spc[s] = "send"
    /\ Len(queue[sgen[s]]) < QueueSize
    /\ queue' = [queue EXCEPT ![sgen[s]] = Append(@, s)]
    /\ mu' = NoOne
    /\ spc' = [spc EXCEPT ![s] = "wait"]
    /\ UNCHANGED <<writerVars, wpc, wreq, sgen, reply, res, applied, controlVars>>

(* Mutant: the timer bounds the wait for the answer as well. *)
SubmitTimeout_WhileQueued(s) ==
    /\ \/ spc[s] = "send" /\ Len(queue[sgen[s]]) = QueueSize /\ mu' = NoOne
       \/ spc[s] = "wait" /\ ~reply[s] /\ mu' = mu
    /\ spc' = [spc EXCEPT ![s] = "returned"]
    /\ res' = [res EXCEPT ![s] = "full"]
    /\ UNCHANGED <<writerVars, queue, wpc, wreq, sgen, reply, applied,
                   controlVars>>

(* The queue stays full for trafficWriterSubmitTimeout. *)
SubmitTimeout(s) ==
    /\ spc[s] = "send"
    /\ Len(queue[sgen[s]]) = QueueSize
    /\ mu' = NoOne
    /\ spc' = [spc EXCEPT ![s] = "returned"]
    /\ res' = [res EXCEPT ![s] = "full"]
    /\ UNCHANGED <<writerVars, queue, wpc, wreq, sgen, reply, applied,
                   controlVars>>

(* The function that runs in place ends. *)
InlineReturn(s) ==
    /\ spc[s] = "inline"
    /\ applied' = [applied EXCEPT ![s] = @ + 1]
    /\ spc' = [spc EXCEPT ![s] = "returned"]
    /\ res' = [res EXCEPT ![s] = "applied"]
    /\ UNCHANGED <<mu, writerVars, queue, wpc, wreq, sgen, reply, controlVars>>

(* The last select receives the answer. *)
ReceiveReply(s) ==
    /\ spc[s] = "wait"
    /\ reply[s]
    /\ spc' = [spc EXCEPT ![s] = "returned"]
    /\ res' = [res EXCEPT ![s] = "applied"]
    /\ UNCHANGED <<mu, writerVars, queue, wpc, wreq, sgen, reply, applied,
                   controlVars>>

(* Mutant: a closed done is taken for a lost write, the answer unread. *)
ObserveDone_NoRecheck(s) ==
    /\ spc[s] = "wait" /\ Done(sgen[s])
    /\ spc' = [spc EXCEPT ![s] = "returned"]
    /\ res' = [res EXCEPT ![s] = "stopped"]
    /\ UNCHANGED <<mu, writerVars, queue, wpc, wreq, sgen, reply, applied,
                   controlVars>>

(* The last select receives from done, whether or not there is an answer,   *)
(* and looks for the answer once more.                                      *)
ObserveDone(s) ==
    /\ spc[s] = "wait"
    /\ Done(sgen[s])
    /\ spc' = [spc EXCEPT ![s] = "returned"]
    /\ res' = [res EXCEPT ![s] = IF reply[s] THEN "applied" ELSE "stopped"]
    /\ UNCHANGED <<mu, writerVars, queue, wpc, wreq, sgen, reply, applied,
                   controlVars>>

(* The caller has the result and may submit again. *)
Return(s) ==
    /\ spc[s] = "returned"
    /\ spc' = [spc EXCEPT ![s] = "idle"]
    /\ UNCHANGED <<mu, writerVars, queue, wpc, wreq, sgen, reply, res, applied,
                   controlVars>>

-----------------------------------------------------------------------------
WriterStep(g) == Take(g) \/ Answer(g) \/ Notice(g) \/ Exit(g)
Waiting(s) == Enqueue(s) \/ SubmitTimeout(s) \/ InlineReturn(s)
              \/ ReceiveReply(s) \/ ObserveDone(s) \/ Return(s)
Locking(s) == RunInline(s) \/ Acquire(s)
StopStep(c) == StopDone(c) \/ StopClear(c)

Next == \/ \E c \in Controllers : Start(c) \/ StopCancel(c) \/ StopStep(c)
        \/ \E g \in Gens : WriterStep(g)
        \/ \E s \in Submitters : Submit(s) \/ Locking(s) \/ Waiting(s)

Spec == Init /\ [][Next]_vars

(* Every goroutine that can run is run, every submitted function ends, and  *)
(* the timer fires.  sync.Mutex hands a waiter the lock after a millisecond *)
(* (its starvation mode): strong fairness for the steps that take twMu.     *)
(* Nobody has to submit, start or stop.                                     *)
Fairness == /\ \A g \in Gens : WF_vars(WriterStep(g))
            /\ \A s \in Submitters : WF_vars(Waiting(s)) /\ SF_vars(Locking(s))
            /\ \A c \in Controllers : WF_vars(StopDone(c)) /\ SF_vars(StopClear(c))

FairSpec == Spec /\ Fairness

-----------------------------------------------------------------------------
(* Types, and the capacity of the channel. *)
TypeOK ==
    /\ mu \in Submitters \cup {NoOne}
    /\ cur \in 0..MaxGen
    /\ made \in 0..MaxGen
    /\ queue \in [Gens -> Seq(Submitters)]
    /\ \A g \in Gens : Len(queue[g]) <= QueueSize
    /\ cancelled \in [Gens -> BOOLEAN]
    /\ wpc \in [Gens -> {"none", "select", "apply", "drain", "drainApply", "exited"}]
    /\ wreq \in [Gens -> Submitters \cup {NoOne}]
    /\ spc \in [Submitters -> {"idle", "lock", "inline", "send", "wait", "returned"}]
    /\ sgen \in [Submitters -> 0..MaxGen]
    /\ reply \in [Submitters -> BOOLEAN]
    /\ res \in [Submitters -> {"none", "applied", "full", "stopped"}]
    /\ applied \in [Submitters -> Nat]
    /\ cpc \in [Controllers -> {"idle", "waitDone", "clear"}]
    /\ cgen \in [Controllers -> 0..MaxGen]

Queued(s, g) == \E i \in DOMAIN queue[g] : queue[g][i] = s
InHand(s, g) == wpc[g] \in {"apply", "drainApply"} /\ wreq[g] = s

(* No accepted write is lost, whenever Stop arrives: a caller that waits has *)
(* its request in its generation's queue, in the writer's hand or answered,  *)
(* so the error "traffic writer stopped before write completed" is never     *)
(* returned (traffic_writer.go:174-180).                                     *)
AcceptedNeverLost ==
    \A s \in Submitters :
        /\ spc[s] = "wait" => \/ reply[s]
                              \/ Queued(s, sgen[s])
                              \/ InHand(s, sgen[s])
        /\ res[s] # "stopped"

(* The result tells the truth: a result of the write's own means that it    *)
(* ran once; an error "queue full" or "stopped" means that it has not run,   *)
(* and that no queue and no writer still holds it, so a retry cannot count   *)
(* the same bytes twice (traffic_writer.go:164-181).                         *)
ResultTruthful ==
    \A s \in Submitters : spc[s] = "returned" =>
        /\ res[s] = "applied" => applied[s] = 1
        /\ res[s] # "applied" => applied[s] = 0
        /\ \A g \in Gens : ~Queued(s, g) /\ ~InHand(s, g)

(* At most one writer goroutine runs a write at any time, across every      *)
(* Start and Stop: a generation starts only after the one before it exited.  *)
OneWriter ==
    \A g, h \in Gens : wpc[g] \notin {"none", "exited"}
                       /\ wpc[h] \notin {"none", "exited"} => g = h

(* StopTrafficWriter "waits for the goroutine to drain any pending requests  *)
(* before returning": past its wait, every write its generation accepted has *)
(* been answered (traffic_writer.go:66-81).                                  *)
StopDrains ==
    \A c \in Controllers : cpc[c] = "clear" =>
        \A s \in Submitters : spc[s] = "wait" /\ sgen[s] = cgen[c] => reply[s]

(* No write begins in place while a writer that nobody is stopping exists,   *)
(* whichever generation it is: the inline path can only overlap a writer     *)
(* that drains (traffic_writer.go:145-160).                                  *)
InlineOnlyWithoutWriter ==
    [][\A s \in Submitters :
          spc[s] # "inline" /\ spc'[s] = "inline" =>
              ~\E g \in Gens : wpc[g] \notin {"none", "exited"} /\ ~cancelled[g]]_vars

(* Every call of submitTrafficWrite returns, whatever Start and Stop do. *)
SubmitReturns == \A s \in Submitters : spc[s] = "lock" ~> spc[s] = "idle"

(* Every call of StopTrafficWriter returns. *)
StopReturns == \A c \in Controllers : cpc[c] = "waitDone" ~> cpc[c] = "idle"

-----------------------------------------------------------------------------
(* The abstract service: a call is pending until its function has run or it *)
(* has been refused.                                                        *)
CallState(s) ==
    CASE spc[s] = "idle" -> "idle"
      [] spc[s] = "returned" /\ res[s] # "applied" -> "refused"
      [] spc[s] = "returned" /\ res[s] = "applied" -> "applied"
      [] spc[s] = "wait" /\ reply[s] -> "applied"
      [] OTHER -> "pending"

Service == INSTANCE WriteService
               WITH st <- [s \in Submitters |-> CallState(s)], count <- applied
ImplementsService == Service!ServiceSpec
=============================================================================
