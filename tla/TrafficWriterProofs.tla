------------------------- MODULE TrafficWriterProofs ------------------------
(***************************************************************************)
(* Theorems about TrafficWriter, for every number of submitters and        *)
(* controllers, every queue size and every number of generations.          *)
(*                                                                         *)
(* The inductive invariant IInv is TypeOK with three groups of facts.      *)
(* Generations: only the current generation can have a live writer, and    *)
(* only a cancelled one drains or has exited.  Lock: the submitter that    *)
(* blocks in its send holds twMu, so its generation is still current and   *)
(* open.  Requests: whoever is in a queue or in a writer's hand waits for  *)
(* exactly that, and whoever waits without an answer is in one of them.    *)
(***************************************************************************)
EXTENDS TrafficWriter, TLAPS

GenInv ==
    /\ \A g \in Gens : wpc[g] = "none" <=> g > made
    /\ cur <= made
    /\ \A g \in Gens : wpc[g] \notin {"none", "exited"} => g = cur
    /\ \A g \in Gens : cancelled[g] => g <= made
    /\ \A g \in Gens : wpc[g] \in {"drain", "drainApply", "exited"} => cancelled[g]
    /\ \A g \in Gens : wpc[g] = "exited" => queue[g] = <<>>
    /\ \A c \in Controllers : cpc[c] # "idle" => cgen[c] \in Gens /\ cgen[c] <= made
    /\ \A c \in Controllers : cpc[c] = "clear" => wpc[cgen[c]] = "exited"

LockInv ==
    \A s \in Submitters : 
        spc[s] = "send" => /\ mu = s
                           /\ cur # 0
                           /\ sgen[s] = cur
                           /\ ~cancelled[cur]

(* s's request is accepted by g and has no answer yet. *)
Accepted(s, g) == /\ s \in Submitters
                  /\ spc[s] = "wait"
                  /\ sgen[s] = g
                  /\ ~reply[s]
                  /\ applied[s] = 0

RequestInv ==
    /\ \A g \in Gens : \A i \in 1..Len(queue[g]) : Accepted(queue[g][i], g)
    /\ \A g \in Gens : \A i, j \in 1..Len(queue[g]) :
          queue[g][i] = queue[g][j] => i = j
    /\ \A g \in Gens : wpc[g] \in {"apply", "drainApply"} =>
          /\ Accepted(wreq[g], g)
          /\ \A i \in 1..Len(queue[g]) : queue[g][i] # wreq[g]
    /\ \A s \in Submitters : spc[s] = "wait" =>
          /\ sgen[s] \in Gens
          /\ \/ reply[s]
             \/ \E i \in 1..Len(queue[sgen[s]]) : queue[sgen[s]][i] = s
             \/ wpc[sgen[s]] \in {"apply", "drainApply"} /\ wreq[sgen[s]] = s

CallInv ==
    \A s \in Submitters :
        /\ spc[s] \in {"lock", "inline", "send"} => ~reply[s] /\ applied[s] = 0
        /\ spc[s] \in {"lock", "inline", "send", "wait"} => res[s] = "none"
        /\ spc[s] = "wait" /\ reply[s] => applied[s] = 1
        /\ spc[s] = "returned" => res[s] \in {"applied", "full"}
        /\ spc[s] = "returned" /\ res[s] = "applied" => applied[s] = 1
        /\ spc[s] = "returned" /\ res[s] = "full" => applied[s] = 0
        /\ res[s] # "stopped"

IInv == TypeOK /\ GenInv /\ LockInv /\ RequestInv /\ CallInv

-----------------------------------------------------------------------------
(* Removing the head of a queue leaves its other elements, one place down. *)
LEMMA TailFacts ==
    ASSUME NEW S, NEW q \in Seq(S), q # <<>>
    PROVE  /\ Head(q) \in S
           /\ Head(q) = q[1]
           /\ Len(q) \in Nat \ {0}
           /\ Tail(q) \in Seq(S)
           /\ Len(Tail(q)) = Len(q) - 1
           /\ \A i \in 1..Len(Tail(q)) : Tail(q)[i] = q[i + 1]
  OBVIOUS

(* Appending adds one element at the end. *)
LEMMA AppendFacts ==
    ASSUME NEW S, NEW q \in Seq(S), NEW e \in S
    PROVE  /\ Append(q, e) \in Seq(S)
           /\ Len(q) \in Nat
           /\ Len(Append(q, e)) = Len(q) + 1
           /\ \A i \in 1..Len(q) : Append(q, e)[i] = q[i]
           /\ Append(q, e)[Len(q) + 1] = e
  OBVIOUS

(* The invariant holds of the initial state. *)
LEMMA InitIInv == Init => IInv
  BY QueueSizeAssumption, MaxGenAssumption DEF Init, IInv, TypeOK, GenInv, LockInv, RequestInv, CallInv, Gens

LEMMA StartIInv ==
    ASSUME IInv, NEW c \in Controllers, Start(c)
    PROVE  IInv'
  <1>1. TypeOK'
    BY MaxGenAssumption DEF IInv, TypeOK, Gens, controlVars, Start
  <1>2. GenInv'
    BY DEF IInv, TypeOK, GenInv, Gens, Done, writerVars, controlVars, Start
  <1>3. LockInv'
    BY NoOneAssumption DEF IInv, TypeOK, LockInv, controlVars, Start
  <1>4. RequestInv'
    BY DEF IInv, TypeOK, GenInv, LockInv, RequestInv, CallInv, Accepted, Gens, Done, writerVars, controlVars, Start
  <1>5. CallInv'
    BY DEF IInv, TypeOK, GenInv, LockInv, RequestInv, CallInv, Accepted, Gens, Done, writerVars, controlVars, Start
  <1> QED BY <1>1, <1>2, <1>3, <1>4, <1>5 DEF IInv

LEMMA StopCancelIInv ==
    ASSUME IInv, NEW c \in Controllers, StopCancel(c)
    PROVE  IInv'
  <1>1. TypeOK'
    BY DEF IInv, TypeOK, Gens, writerVars, controlVars, StopCancel
  <1>2. GenInv'
    BY DEF IInv, TypeOK, GenInv, Gens, Done, writerVars, controlVars, StopCancel
  <1>3. LockInv'
    BY NoOneAssumption DEF IInv, TypeOK, LockInv, StopCancel
  <1>4. RequestInv'
    BY DEF IInv, TypeOK, GenInv, LockInv, RequestInv, CallInv, Accepted, Gens, Done, writerVars, controlVars, StopCancel
  <1>5. CallInv'
    BY DEF IInv, TypeOK, GenInv, LockInv, RequestInv, CallInv, Accepted, Gens, Done, writerVars, controlVars, StopCancel
  <1> QED BY <1>1, <1>2, <1>3, <1>4, <1>5 DEF IInv

LEMMA StopDoneIInv ==
    ASSUME IInv, NEW c \in Controllers, StopDone(c)
    PROVE  IInv'
  <1>1. TypeOK'
    BY DEF IInv, TypeOK, Gens, writerVars, controlVars, StopDone
  <1>2. GenInv'
    BY DEF IInv, TypeOK, GenInv, Gens, Done, writerVars, controlVars, StopDone
  <1>3. LockInv'
    BY DEF IInv, TypeOK, LockInv, GenInv, Gens, writerVars, controlVars, StopDone
  <1>4. RequestInv'
    BY DEF IInv, TypeOK, GenInv, LockInv, RequestInv, CallInv, Accepted, Gens, Done, writerVars, controlVars, StopDone
  <1>5. CallInv'
    BY DEF IInv, TypeOK, GenInv, LockInv, RequestInv, CallInv, Accepted, Gens, Done, writerVars, controlVars, StopDone
  <1> QED BY <1>1, <1>2, <1>3, <1>4, <1>5 DEF IInv

LEMMA StopClearIInv ==
    ASSUME IInv, NEW c \in Controllers, StopClear(c)
    PROVE  IInv'
  <1>1. TypeOK'
    BY MaxGenAssumption DEF IInv, TypeOK, StopClear
  <1>2. GenInv'
    BY DEF IInv, TypeOK, GenInv, Gens, Done, writerVars, controlVars, StopClear
  <1>3. LockInv'
    BY DEF IInv, TypeOK, LockInv, GenInv, Gens, writerVars, controlVars, StopClear
  <1>4. RequestInv'
    BY DEF IInv, TypeOK, GenInv, LockInv, RequestInv, CallInv, Accepted, Gens, Done, writerVars, controlVars, StopClear
  <1>5. CallInv'
    BY DEF IInv, TypeOK, GenInv, LockInv, RequestInv, CallInv, Accepted, Gens, Done, writerVars, controlVars, StopClear
  <1> QED BY <1>1, <1>2, <1>3, <1>4, <1>5 DEF IInv

LEMMA TakeIInv ==
    ASSUME IInv, NEW g \in Gens, Take(g)
    PROVE  IInv'
  <1>1. TypeOK'
    <2>1. /\ Head(queue[g]) \in Submitters
          /\ Tail(queue[g]) \in Seq(Submitters)
          /\ Len(Tail(queue[g])) = Len(queue[g]) - 1
          /\ Len(queue[g]) \in Nat
      BY TailFacts DEF IInv, TypeOK, Take
    <2> QED
      BY SMTT(60), <2>1, QueueSizeAssumption DEF IInv, TypeOK, Gens, writerVars, controlVars, Take
  <1>2. GenInv'
    BY DEF IInv, TypeOK, GenInv, Gens, Done, writerVars, controlVars, Take
  <1>3. LockInv'
    BY DEF IInv, TypeOK, LockInv, GenInv, Gens, writerVars, controlVars, Take
  <1>4. RequestInv'
    <2>1. /\ queue[g] \in Seq(Submitters) /\ queue[g] # <<>>
          /\ wpc[g] \notin {"apply", "drainApply"}
          /\ wpc'[g] \in {"apply", "drainApply"}
          /\ queue'[g] = Tail(queue[g]) /\ wreq'[g] = Head(queue[g])
          /\ \A h \in Gens : h # g => /\ queue'[h] = queue[h]
                                     /\ wreq'[h] = wreq[h]
                                     /\ wpc'[h] = wpc[h]
          /\ UNCHANGED <<spc, sgen, reply, applied>>
      BY DEF IInv, TypeOK, Take
    <2>2. /\ wreq'[g] = queue[g][1]
          /\ 1 \in 1..Len(queue[g])
          /\ \A i \in 1..Len(queue'[g]) : /\ i + 1 \in 1..Len(queue[g])
                                         /\ i + 1 # 1
                                         /\ queue'[g][i] = queue[g][i + 1]
          /\ \A i \in 1..Len(queue[g]) : i # 1 =>
                 i - 1 \in 1..Len(queue'[g]) /\ queue'[g][i - 1] = queue[g][i]
      <3>1. /\ Head(queue[g]) = queue[g][1]
            /\ Len(queue[g]) \in Nat \ {0}
            /\ Len(queue'[g]) = Len(queue[g]) - 1
            /\ \A i \in 1..Len(queue'[g]) : queue'[g][i] = queue[g][i + 1]
        BY <2>1, TailFacts
      <3>2. \A i \in 1..Len(queue[g]) : i # 1 =>
                 i - 1 \in 1..Len(queue'[g]) /\ (i - 1) + 1 = i
        BY <3>1
      <3> QED BY <2>1, <3>1, <3>2
    <2>3. \A t, h : Accepted(t, h)' <=> Accepted(t, h)
      BY <2>1 DEF Accepted
    <2>4. ASSUME NEW h \in Gens, NEW i \in 1..Len(queue'[h])
          PROVE  Accepted(queue[h][i], h)'
      <3>1. CASE h = g
        <4>1. i + 1 \in 1..Len(queue[g]) /\ queue'[h][i] = queue[g][i + 1]
          BY <2>2, <2>4, <3>1
        <4>2. Accepted(queue[g][i + 1], g)
          BY <4>1 DEF IInv, RequestInv
        <4> QED BY <2>1, <3>1, <4>1, <4>2 DEF Accepted
      <3>2. CASE h # g
        BY SMTT(60), <2>1, <2>3, <2>4, <3>2 DEF IInv, RequestInv, Accepted
      <3> QED BY <3>1, <3>2
    <2>5. ASSUME NEW h \in Gens, NEW i \in 1..Len(queue'[h]), NEW j \in 1..Len(queue'[h]),
                 queue'[h][i] = queue'[h][j]
          PROVE  i = j
      <3>1. CASE h = g
        <4>1. i + 1 = j + 1
          BY <2>2, <2>5, <3>1 DEF IInv, RequestInv
        <4> QED BY <4>1
      <3>2. CASE h # g
        BY <2>1, <2>5, <3>2 DEF IInv, RequestInv
      <3> QED BY <3>1, <3>2
    <2>6. ASSUME NEW h \in Gens, wpc'[h] \in {"apply", "drainApply"}
          PROVE  /\ Accepted(wreq[h], h)'
                 /\ \A i \in 1..Len(queue'[h]) : queue'[h][i] # wreq'[h]
      <3>1. CASE h = g
        <4>1. Accepted(queue[g][1], g)
          BY <2>2 DEF IInv, RequestInv
        <4>2. \A i \in 1..Len(queue'[g]) : queue'[g][i] # queue[g][1]
          BY <2>2 DEF IInv, RequestInv
        <4> QED BY <2>1, <2>2, <3>1, <4>1, <4>2 DEF Accepted
      <3>2. CASE h # g
        BY <2>1, <2>3, <2>6, <3>2 DEF IInv, RequestInv, Accepted
      <3> QED BY <3>1, <3>2
    <2>7. ASSUME NEW s \in Submitters, spc'[s] = "wait"
          PROVE  /\ sgen'[s] \in Gens
                 /\ \/ reply'[s]
                    \/ \E i \in 1..Len(queue'[sgen'[s]]) : queue'[sgen'[s]][i] = s
                    \/ wpc'[sgen'[s]] \in {"apply", "drainApply"} /\ wreq'[sgen'[s]] = s
      <3>1. CASE sgen[s] # g
        BY <2>1, <2>7, <3>1 DEF IInv, RequestInv
      <3>2. CASE sgen[s] = g /\ ~reply[s]
        <4>1. PICK i \in 1..Len(queue[g]) : queue[g][i] = s
          BY <2>1, <2>7, <3>2 DEF IInv, RequestInv
        <4>2. CASE i = 1
          BY <2>1, <2>2, <3>2, <4>1, <4>2
        <4>3. CASE i # 1
          <5>1. i - 1 \in 1..Len(queue'[g]) /\ queue'[g][i - 1] = s
            BY <2>2, <4>1, <4>3
          <5> QED BY <2>1, <3>2, <5>1
        <4> QED BY <4>2, <4>3
      <3>3. CASE sgen[s] = g /\ reply[s]
        BY <2>1, <3>3
      <3> QED BY <3>1, <3>2, <3>3
    <2> QED BY <2>4, <2>5, <2>6, <2>7 DEF RequestInv
  <1>5. CallInv'
    BY DEF IInv, TypeOK, GenInv, LockInv, RequestInv, CallInv, Accepted, Gens, Done, writerVars, controlVars, Take
  <1> QED BY <1>1, <1>2, <1>3, <1>4, <1>5 DEF IInv

LEMMA AnswerIInv ==
    ASSUME IInv, NEW g \in Gens, Answer(g)
    PROVE  IInv'
  <1>1. TypeOK'
    <2>1. wreq[g] \in Submitters
      BY DEF IInv, RequestInv, Accepted, Answer
    <2> QED
      BY <2>1 DEF IInv, TypeOK, writerVars, controlVars, Answer
  <1>2. GenInv'
    BY DEF IInv, TypeOK, GenInv, Gens, Done, writerVars, controlVars, Answer
  <1>3. LockInv'
    BY DEF IInv, TypeOK, LockInv, GenInv, Gens, writerVars, controlVars, Answer
  <1>4. RequestInv'
    BY SMTT(60) DEF IInv, TypeOK, GenInv, LockInv, RequestInv, CallInv, Accepted, Gens, Done, writerVars, controlVars, Answer
  <1>5. CallInv'
    BY DEF IInv, TypeOK, GenInv, LockInv, RequestInv, CallInv, Accepted, Gens, Done, writerVars, controlVars, Answer
  <1> QED BY <1>1, <1>2, <1>3, <1>4, <1>5 DEF IInv

LEMMA NoticeIInv ==
    ASSUME IInv, NEW g \in Gens, Notice(g)
    PROVE  IInv'
  <1>1. TypeOK'
    BY DEF IInv, TypeOK, Gens, writerVars, controlVars, Notice
  <1>2. GenInv'
    BY DEF IInv, TypeOK, GenInv, Gens, Done, writerVars, controlVars, Notice
  <1>3. LockInv'
    BY DEF IInv, TypeOK, LockInv, GenInv, Gens, writerVars, controlVars, Notice
  <1>4. RequestInv'
    BY DEF IInv, TypeOK, GenInv, LockInv, RequestInv, CallInv, Accepted, Gens, Done, writerVars, controlVars, Notice
  <1>5. CallInv'
    BY DEF IInv, TypeOK, GenInv, LockInv, RequestInv, CallInv, Accepted, Gens, Done, writerVars, controlVars, Notice
  <1> QED BY <1>1, <1>2, <1>3, <1>4, <1>5 DEF IInv

LEMMA ExitIInv ==
    ASSUME IInv, NEW g \in Gens, Exit(g)
    PROVE  IInv'
  <1>1. TypeOK'
    BY DEF IInv, TypeOK, Gens, writerVars, controlVars, Exit
  <1>2. GenInv'
    BY DEF IInv, TypeOK, GenInv, Gens, Done, writerVars, controlVars, Exit
  <1>3. LockInv'
    BY DEF IInv, TypeOK, LockInv, GenInv, Gens, writerVars, controlVars, Exit
  <1>4. RequestInv'
    BY DEF IInv, TypeOK, GenInv, LockInv, RequestInv, CallInv, Accepted, Gens, Done, writerVars, controlVars, Exit
  <1>5. CallInv'
    BY DEF IInv, TypeOK, GenInv, LockInv, RequestInv, CallInv, Accepted, Gens, Done, writerVars, controlVars, Exit
  <1> QED BY <1>1, <1>2, <1>3, <1>4, <1>5 DEF IInv

LEMMA SubmitIInv ==
    ASSUME IInv, NEW s \in Submitters, Submit(s)
    PROVE  IInv'
  <1>1. TypeOK'
    BY DEF IInv, TypeOK, Gens, writerVars, controlVars, Submit
  <1>2. GenInv'
    BY DEF IInv, TypeOK, GenInv, Gens, Done, writerVars, controlVars, Submit
  <1>3. LockInv'
    BY DEF IInv, TypeOK, LockInv, GenInv, Gens, writerVars, controlVars, Submit
  <1>4. RequestInv'
    BY DEF IInv, TypeOK, GenInv, LockInv, RequestInv, CallInv, Accepted, Gens, Done, writerVars, controlVars, Submit
  <1>5. CallInv'
    BY DEF IInv, TypeOK, GenInv, LockInv, RequestInv, CallInv, Accepted, Gens, Done, writerVars, controlVars, Submit
  <1> QED BY <1>1, <1>2, <1>3, <1>4, <1>5 DEF IInv

LEMMA RunInlineIInv ==
    ASSUME IInv, NEW s \in Submitters, RunInline(s)
    PROVE  IInv'
  <1>1. TypeOK'
    BY DEF IInv, TypeOK, Gens, writerVars, controlVars, RunInline
  <1>2. GenInv'
    BY DEF IInv, TypeOK, GenInv, Gens, Done, writerVars, controlVars, RunInline
  <1>3. LockInv'
    BY DEF IInv, TypeOK, LockInv, GenInv, Gens, writerVars, controlVars, RunInline
  <1>4. RequestInv'
    BY DEF IInv, TypeOK, GenInv, LockInv, RequestInv, CallInv, Accepted, Gens, Done, writerVars, controlVars, RunInline
  <1>5. CallInv'
    BY DEF IInv, TypeOK, GenInv, LockInv, RequestInv, CallInv, Accepted, Gens, Done, writerVars, controlVars, RunInline
  <1> QED BY <1>1, <1>2, <1>3, <1>4, <1>5 DEF IInv

LEMMA AcquireIInv ==
    ASSUME IInv, NEW s \in Submitters, Acquire(s)
    PROVE  IInv'
  <1>1. TypeOK'
    BY DEF IInv, TypeOK, Gens, writerVars, controlVars, Acquire
  <1>2. GenInv'
    BY DEF IInv, TypeOK, GenInv, Gens, Done, writerVars, controlVars, Acquire
  <1>3. LockInv'
    BY NoOneAssumption DEF IInv, TypeOK, LockInv, writerVars, Acquire
  <1>4. RequestInv'
    BY DEF IInv, TypeOK, GenInv, LockInv, RequestInv, CallInv, Accepted, Gens, Done, writerVars, controlVars, Acquire
  <1>5. CallInv'
    BY DEF IInv, TypeOK, GenInv, LockInv, RequestInv, CallInv, Accepted, Gens, Done, writerVars, controlVars, Acquire
  <1> QED BY <1>1, <1>2, <1>3, <1>4, <1>5 DEF IInv

LEMMA EnqueueIInv ==
    ASSUME IInv, NEW s \in Submitters, Enqueue(s)
    PROVE  IInv'
  <1>1. TypeOK'
    <2>1. /\ Append(queue[sgen[s]], s) \in Seq(Submitters)
          /\ Len(Append(queue[sgen[s]], s)) = Len(queue[sgen[s]]) + 1
          /\ Len(queue[sgen[s]]) \in Nat
          /\ sgen[s] \in Gens
      BY AppendFacts DEF IInv, TypeOK, GenInv, LockInv, Gens, Enqueue
    <2> QED
      BY <2>1, QueueSizeAssumption DEF IInv, TypeOK, writerVars, controlVars, Enqueue
  <1>2. GenInv'
    <2>1. sgen[s] \in Gens /\ wpc[sgen[s]] # "exited"
      BY DEF IInv, TypeOK, GenInv, LockInv, Gens, Enqueue
    <2> QED
      BY <2>1 DEF IInv, TypeOK, GenInv, writerVars, controlVars, Enqueue
  <1>3. LockInv'
    BY DEF IInv, TypeOK, LockInv, GenInv, Gens, writerVars, controlVars, Enqueue
  <1>4. RequestInv'
    <2>1. /\ sgen[s] \in Gens /\ spc[s] = "send"
          /\ queue[sgen[s]] \in Seq(Submitters)
      BY DEF IInv, TypeOK, LockInv, Gens, Enqueue
    <2>2. /\ queue'[sgen[s]] = Append(queue[sgen[s]], s)
          /\ \A h \in Gens : h # sgen[s] => queue'[h] = queue[h]
          /\ spc'[s] = "wait" /\ ~reply[s] /\ applied[s] = 0
          /\ \A t \in Submitters : t # s => spc'[t] = spc[t]
          /\ UNCHANGED <<sgen, reply, applied, wpc, wreq>>
      BY <2>1 DEF IInv, TypeOK, CallInv, Enqueue
    <2>3. /\ Len(queue[sgen[s]]) \in Nat
          /\ Len(queue'[sgen[s]]) = Len(queue[sgen[s]]) + 1
          /\ \A i \in 1..Len(queue[sgen[s]]) : queue'[sgen[s]][i] = queue[sgen[s]][i]
          /\ queue'[sgen[s]][Len(queue[sgen[s]]) + 1] = s
      BY <2>1, <2>2, AppendFacts
    <2>4. \A h \in Gens : \A i \in 1..Len(queue'[h]) :
             \/ h = sgen[s] /\ i = Len(queue[h]) + 1 /\ queue'[h][i] = s
             \/ i \in 1..Len(queue[h]) /\ queue'[h][i] = queue[h][i]
      <3> SUFFICES ASSUME NEW h \in Gens, NEW i \in 1..Len(queue'[h])
                   PROVE  \/ h = sgen[s] /\ i = Len(queue[h]) + 1 /\ queue'[h][i] = s
                          \/ i \in 1..Len(queue[h]) /\ queue'[h][i] = queue[h][i]
        OBVIOUS
      <3>1. CASE h = sgen[s]
        BY <2>3, <3>1
      <3>2. CASE h # sgen[s]
        BY <2>2, <3>2
      <3> QED BY <3>1, <3>2
    <2>5. \A h \in Gens : \A i \in 1..Len(queue[h]) :
             i \in 1..Len(queue'[h]) /\ queue'[h][i] = queue[h][i]
      BY SMTT(60), <2>1, <2>2, <2>3
    <2>6. \A h \in Gens : /\ \A i \in 1..Len(queue[h]) : queue[h][i] # s
                          /\ wpc[h] \in {"apply", "drainApply"} => wreq[h] # s
      BY <2>1 DEF IInv, RequestInv, Accepted
    <2>7. \A t, h : Accepted(t, h) => Accepted(t, h)'
      BY <2>1, <2>2 DEF Accepted
    <2>8. ASSUME NEW h \in Gens, NEW i \in 1..Len(queue'[h])
          PROVE  Accepted(queue[h][i], h)'
      <3>1. CASE h = sgen[s] /\ queue'[h][i] = s
        BY <2>2, <3>1 DEF Accepted
      <3>2. CASE i \in 1..Len(queue[h]) /\ queue'[h][i] = queue[h][i]
        BY <2>7, <3>2 DEF IInv, RequestInv, Accepted
      <3> QED BY <2>4, <3>1, <3>2
    <2>9. ASSUME NEW h \in Gens, NEW i \in 1..Len(queue'[h]), NEW j \in 1..Len(queue'[h]),
                 queue'[h][i] = queue'[h][j]
          PROVE  i = j
      <3>1. CASE i \in 1..Len(queue[h]) /\ j \in 1..Len(queue[h])
        BY <2>4, <2>5, <2>9, <3>1 DEF IInv, RequestInv
      <3>2. CASE i \notin 1..Len(queue[h]) \/ j \notin 1..Len(queue[h])
        BY <2>4, <2>6, <2>9, <3>2
      <3> QED BY <3>1, <3>2
    <2>10. ASSUME NEW h \in Gens, wpc'[h] \in {"apply", "drainApply"}
           PROVE  /\ Accepted(wreq[h], h)'
                  /\ \A i \in 1..Len(queue'[h]) : queue'[h][i] # wreq'[h]
      BY <2>2, <2>4, <2>6, <2>7, <2>10 DEF IInv, RequestInv, Accepted
    <2>11. ASSUME NEW t \in Submitters, spc'[t] = "wait"
           PROVE  /\ sgen'[t] \in Gens
                  /\ \/ reply'[t]
                     \/ \E i \in 1..Len(queue'[sgen'[t]]) : queue'[sgen'[t]][i] = t
                     \/ wpc'[sgen'[t]] \in {"apply", "drainApply"} /\ wreq'[sgen'[t]] = t
      <3>1. CASE t = s
        <4>1. Len(queue[sgen[s]]) + 1 \in 1..Len(queue'[sgen[s]])
          BY <2>3
        <4> QED BY <2>1, <2>2, <2>3, <3>1, <4>1
      <3>2. CASE t # s
        BY <2>2, <2>5, <2>11, <3>2 DEF IInv, RequestInv
      <3> QED BY <3>1, <3>2
    <2> QED BY <2>8, <2>9, <2>10, <2>11 DEF RequestInv
  <1>5. CallInv'
    BY DEF IInv, TypeOK, GenInv, LockInv, RequestInv, CallInv, Accepted, Gens, Done, writerVars, controlVars, Enqueue
  <1> QED BY <1>1, <1>2, <1>3, <1>4, <1>5 DEF IInv

LEMMA SubmitTimeoutIInv ==
    ASSUME IInv, NEW s \in Submitters, SubmitTimeout(s)
    PROVE  IInv'
  <1>1. TypeOK'
    BY DEF IInv, TypeOK, Gens, writerVars, controlVars, SubmitTimeout
  <1>2. GenInv'
    BY DEF IInv, TypeOK, GenInv, Gens, Done, writerVars, controlVars, SubmitTimeout
  <1>3. LockInv'
    BY DEF IInv, TypeOK, LockInv, GenInv, Gens, writerVars, controlVars, SubmitTimeout
  <1>4. RequestInv'
    BY SMTT(60) DEF IInv, TypeOK, GenInv, LockInv, RequestInv, CallInv, Accepted, Gens, Done, writerVars, controlVars, SubmitTimeout
  <1>5. CallInv'
    BY DEF IInv, TypeOK, GenInv, LockInv, RequestInv, CallInv, Accepted, Gens, Done, writerVars, controlVars, SubmitTimeout
  <1> QED BY <1>1, <1>2, <1>3, <1>4, <1>5 DEF IInv

LEMMA InlineReturnIInv ==
    ASSUME IInv, NEW s \in Submitters, InlineReturn(s)
    PROVE  IInv'
  <1>1. TypeOK'
    BY DEF IInv, TypeOK, Gens, writerVars, controlVars, InlineReturn
  <1>2. GenInv'
    BY DEF IInv, TypeOK, GenInv, Gens, Done, writerVars, controlVars, InlineReturn
  <1>3. LockInv'
    BY DEF IInv, TypeOK, LockInv, GenInv, Gens, writerVars, controlVars, InlineReturn
  <1>4. RequestInv'
    BY DEF IInv, TypeOK, GenInv, LockInv, RequestInv, CallInv, Accepted, Gens, Done, writerVars, controlVars, InlineReturn
  <1>5. CallInv'
    BY DEF IInv, TypeOK, GenInv, LockInv, RequestInv, CallInv, Accepted, Gens, Done, writerVars, controlVars, InlineReturn
  <1> QED BY <1>1, <1>2, <1>3, <1>4, <1>5 DEF IInv

LEMMA ReceiveReplyIInv ==
    ASSUME IInv, NEW s \in Submitters, ReceiveReply(s)
    PROVE  IInv'
  <1>1. TypeOK'
    BY DEF IInv, TypeOK, Gens, writerVars, controlVars, ReceiveReply
  <1>2. GenInv'
    BY DEF IInv, TypeOK, GenInv, Gens, Done, writerVars, controlVars, ReceiveReply
  <1>3. LockInv'
    BY DEF IInv, TypeOK, LockInv, GenInv, Gens, writerVars, controlVars, ReceiveReply
  <1>4. RequestInv'
    BY DEF IInv, TypeOK, GenInv, LockInv, RequestInv, CallInv, Accepted, Gens, Done, writerVars, controlVars, ReceiveReply
  <1>5. CallInv'
    BY DEF IInv, TypeOK, GenInv, LockInv, RequestInv, CallInv, Accepted, Gens, Done, writerVars, controlVars, ReceiveReply
  <1> QED BY <1>1, <1>2, <1>3, <1>4, <1>5 DEF IInv

LEMMA ObserveDoneIInv ==
    ASSUME IInv, NEW s \in Submitters, ObserveDone(s)
    PROVE  IInv'
  <1>1. TypeOK'
    BY DEF IInv, TypeOK, Gens, writerVars, controlVars, ObserveDone
  <1>2. GenInv'
    BY DEF IInv, TypeOK, GenInv, Gens, Done, writerVars, controlVars, ObserveDone
  <1>3. LockInv'
    BY DEF IInv, TypeOK, LockInv, GenInv, Gens, writerVars, controlVars, ObserveDone
  <1>4. RequestInv'
    BY DEF IInv, TypeOK, GenInv, LockInv, RequestInv, CallInv, Accepted, Gens, Done, writerVars, controlVars, ObserveDone
  <1>5. CallInv'
    BY DEF IInv, TypeOK, GenInv, LockInv, RequestInv, CallInv, Accepted, Gens, Done, writerVars, controlVars, ObserveDone
  <1> QED BY <1>1, <1>2, <1>3, <1>4, <1>5 DEF IInv

LEMMA ReturnIInv ==
    ASSUME IInv, NEW s \in Submitters, Return(s)
    PROVE  IInv'
  <1>1. TypeOK'
    BY DEF IInv, TypeOK, Gens, writerVars, controlVars, Return
  <1>2. GenInv'
    BY DEF IInv, TypeOK, GenInv, Gens, Done, writerVars, controlVars, Return
  <1>3. LockInv'
    BY DEF IInv, TypeOK, LockInv, GenInv, Gens, writerVars, controlVars, Return
  <1>4. RequestInv'
    BY DEF IInv, TypeOK, GenInv, LockInv, RequestInv, CallInv, Accepted, Gens, Done, writerVars, controlVars, Return
  <1>5. CallInv'
    BY DEF IInv, TypeOK, GenInv, LockInv, RequestInv, CallInv, Accepted, Gens, Done, writerVars, controlVars, Return
  <1> QED BY <1>1, <1>2, <1>3, <1>4, <1>5 DEF IInv

LEMMA StutterIInv ==
    ASSUME IInv, UNCHANGED vars
    PROVE  IInv'
  BY DEF IInv, TypeOK, GenInv, LockInv, RequestInv, CallInv, Accepted, vars

(* Every step keeps the invariant, one lemma per action. *)
LEMMA NextIInv == IInv /\ [Next]_vars => IInv'
  <1> SUFFICES ASSUME IInv, [Next]_vars
               PROVE  IInv'
    OBVIOUS
  <1>1. CASE \E c \in Controllers : Start(c)
    BY <1>1, StartIInv
  <1>2. CASE \E c \in Controllers : StopCancel(c)
    BY <1>2, StopCancelIInv
  <1>3. CASE \E c \in Controllers : StopDone(c)
    BY <1>3, StopDoneIInv
  <1>4. CASE \E c \in Controllers : StopClear(c)
    BY <1>4, StopClearIInv
  <1>5. CASE \E g \in Gens : Take(g)
    BY <1>5, TakeIInv
  <1>6. CASE \E g \in Gens : Answer(g)
    BY <1>6, AnswerIInv
  <1>7. CASE \E g \in Gens : Notice(g)
    BY <1>7, NoticeIInv
  <1>8. CASE \E g \in Gens : Exit(g)
    BY <1>8, ExitIInv
  <1>9. CASE \E s \in Submitters : Submit(s)
    BY <1>9, SubmitIInv
  <1>10. CASE \E s \in Submitters : RunInline(s)
    BY <1>10, RunInlineIInv
  <1>11. CASE \E s \in Submitters : Acquire(s)
    BY <1>11, AcquireIInv
  <1>12. CASE \E s \in Submitters : Enqueue(s)
    BY <1>12, EnqueueIInv
  <1>13. CASE \E s \in Submitters : SubmitTimeout(s)
    BY <1>13, SubmitTimeoutIInv
  <1>14. CASE \E s \in Submitters : InlineReturn(s)
    BY <1>14, InlineReturnIInv
  <1>15. CASE \E s \in Submitters : ReceiveReply(s)
    BY <1>15, ReceiveReplyIInv
  <1>16. CASE \E s \in Submitters : ObserveDone(s)
    BY <1>16, ObserveDoneIInv
  <1>17. CASE \E s \in Submitters : Return(s)
    BY <1>17, ReturnIInv
  <1>18. CASE UNCHANGED vars
    BY <1>18, StutterIInv
  <1> QED
    BY <1>1, <1>2, <1>3, <1>4, <1>5, <1>6, <1>7, <1>8, <1>9,
       <1>10, <1>11, <1>12, <1>13, <1>14, <1>15, <1>16, <1>17, <1>18
    DEF Next, WriterStep, Locking, Waiting, StopStep

(* IInv holds in every reachable state. *)
THEOREM Invariance == Spec => []IInv
  <1>1. Init => IInv
    BY InitIInv
  <1>2. IInv /\ [Next]_vars => IInv'
    BY NextIInv
  <1> QED
    BY <1>1, <1>2, PTL DEF Spec

(* The variables keep their types and a queue its capacity (the channel of  *)
(* traffic_writer.go:53).                                                   *)
THEOREM TypeCorrect == Spec => []TypeOK
  <1>1. IInv => TypeOK
    BY DEF IInv
  <1> QED
    BY <1>1, Invariance, PTL

(* No accepted write is lost, and the error "traffic writer stopped before  *)
(* write completed" is unreachable (traffic_writer.go:172-181).             *)
THEOREM NeverLost == Spec => []AcceptedNeverLost
  <1>1. ASSUME IInv, NEW g \in Gens
        PROVE  DOMAIN queue[g] = 1..Len(queue[g])
    BY <1>1 DEF IInv, TypeOK
  <1>2. ASSUME IInv, NEW s \in Submitters, spc[s] = "wait"
        PROVE  reply[s] \/ Queued(s, sgen[s]) \/ InHand(s, sgen[s])
    <2>1. sgen[s] \in Gens
      BY <1>2 DEF IInv, RequestInv
    <2> QED
      BY <1>1, <1>2, <2>1 DEF IInv, RequestInv, Queued, InHand
  <1>3. IInv => AcceptedNeverLost
    BY <1>2 DEF IInv, CallInv, AcceptedNeverLost
  <1> QED
    BY <1>3, Invariance, PTL

(* submitTrafficWrite's result means one run, and its error none, now or    *)
(* later (traffic_writer.go:142-182).                                       *)
THEOREM Truthful == Spec => []ResultTruthful
  <1>1. IInv => ResultTruthful
    BY DEF IInv, TypeOK, RequestInv, CallInv, Accepted, ResultTruthful, Queued, InHand
  <1> QED
    BY <1>1, Invariance, PTL

(* Across every Start and Stop at most one writer goroutine is alive        *)
(* (traffic_writer.go:41-64).                                               *)
THEOREM SingleWriter == Spec => []OneWriter
  <1>1. IInv => OneWriter
    BY DEF IInv, GenInv, OneWriter
  <1> QED
    BY <1>1, Invariance, PTL

(* When StopTrafficWriter has seen done, its generation owes no answer      *)
(* (traffic_writer.go:66-81).                                               *)
THEOREM Drained == Spec => []StopDrains
  <1>1. ASSUME IInv, NEW c \in Controllers, cpc[c] = "clear",
               NEW s \in Submitters, spc[s] = "wait", sgen[s] = cgen[c]
        PROVE  reply[s]
    <2>1. cgen[c] \in Gens /\ queue[cgen[c]] = <<>> /\ wpc[cgen[c]] = "exited"
      BY <1>1 DEF IInv, GenInv
    <2>2. Len(queue[cgen[c]]) = 0
      BY <2>1
    <2> QED
      BY <1>1, <2>1, <2>2 DEF IInv, RequestInv
  <1>2. IInv => StopDrains
    BY <1>1 DEF StopDrains
  <1> QED
    BY <1>2, Invariance, PTL

(* No write begins in place beside a writer nobody is stopping              *)
(* (traffic_writer.go:145-160).                                             *)
THEOREM InlineSafe == Spec => InlineOnlyWithoutWriter
  <1> DEFINE LiveOpen == \E g \in Gens : wpc[g] \notin {"none", "exited"} /\ ~cancelled[g]
             Guarded  == \A s \in Submitters :
                            (spc[s] # "inline" /\ spc'[s] = "inline") => ~LiveOpen
  <1>1. ASSUME IInv, [Next]_vars
        PROVE  Guarded
    <2> SUFFICES ASSUME NEW t \in Submitters, spc[t] # "inline", spc'[t] = "inline",
                        NEW h \in Gens, wpc[h] \notin {"none", "exited"}
                 PROVE  cancelled[h]
      OBVIOUS
    <2>1. RunInline(t)
      BY <1>1 DEF IInv, TypeOK, Next, WriterStep, Locking, Waiting, StopStep, vars,
                  Start, StopCancel, StopDone, StopClear, Take, Answer, Notice, Exit,
                  Submit, RunInline, Acquire, Enqueue, SubmitTimeout, InlineReturn,
                  ReceiveReply, ObserveDone, Return
    <2> QED
      BY <1>1, <2>1 DEF IInv, GenInv, RunInline, Gens
  <1>2. IInv /\ [Next]_vars => [Guarded]_vars
    BY <1>1
  <1> QED
    BY <1>2, Invariance, PTL DEF Spec, InlineOnlyWithoutWriter

-----------------------------------------------------------------------------
(* The writer implements WriteService: a step of a submitter's call is the  *)
(* abstract step of the same name, the answer to a queued write is its      *)
(* abstract application, and every other step stutters.                     *)
LEMMA StepRefines ==
    ASSUME IInv, IInv', [Next]_vars
    PROVE  [Service!SNext]_(Service!svars)
  <1> USE DEF Service!SNext, Service!svars
  <1>1. CASE \E s \in Submitters : Submit(s)
    <2> PICK s \in Submitters : Submit(s)
      BY <1>1
    <2>1. CallState(s) = "idle" /\ CallState(s)' = "pending"
      BY DEF IInv, TypeOK, Submit, CallState
    <2>2. ASSUME NEW t \in Submitters, t # s
          PROVE  CallState(t)' = CallState(t)
      BY <2>2 DEF IInv, TypeOK, Submit, CallState
    <2>3. applied' = [applied EXCEPT ![s] = 0]
      BY DEF IInv, TypeOK, Submit
    <2>4. Service!SSubmit(s)
      BY <2>1, <2>2, <2>3 DEF Service!SSubmit
    <2> QED BY <2>4
  <1>2. CASE \E s \in Submitters : InlineReturn(s)
    <2> PICK s \in Submitters : InlineReturn(s)
      BY <1>2
    <2>1. CallState(s) = "pending" /\ CallState(s)' = "applied"
      BY DEF IInv, TypeOK, CallInv, InlineReturn, CallState
    <2>2. ASSUME NEW t \in Submitters, t # s
          PROVE  CallState(t)' = CallState(t)
      BY <2>2 DEF IInv, TypeOK, InlineReturn, CallState
    <2>3. applied[s] = 0 /\ applied' = [applied EXCEPT ![s] = 1]
      <3>1. applied[s] = 0
        BY DEF IInv, CallInv, InlineReturn
      <3>2. applied' = [applied EXCEPT ![s] = applied[s] + 1]
        BY DEF InlineReturn
      <3> QED BY <3>1, <3>2
    <2>4. Service!SApply(s)
      BY <2>1, <2>2, <2>3 DEF Service!SApply
    <2> QED BY <2>4
  <1>3. CASE \E g \in Gens : Answer(g)
    <2> PICK g \in Gens : Answer(g)
      BY <1>3
    <2>1. Accepted(wreq[g], g)
      BY DEF IInv, RequestInv, Answer
    <2>2. PICK s \in Submitters : s = wreq[g]
      BY <2>1 DEF Accepted
    <2>3. CallState(s) = "pending" /\ CallState(s)' = "applied"
      BY <2>1, <2>2 DEF IInv, TypeOK, Accepted, Answer, CallState
    <2>4. ASSUME NEW t \in Submitters, t # s
          PROVE  CallState(t)' = CallState(t)
      BY <2>2, <2>4 DEF IInv, TypeOK, Answer, CallState
    <2>5. applied[s] = 0 /\ applied' = [applied EXCEPT ![s] = 1]
      BY <2>1, <2>2 DEF IInv, TypeOK, Accepted, Answer
    <2>6. Service!SApply(s)
      BY <2>3, <2>4, <2>5 DEF Service!SApply
    <2> QED BY <2>6
  <1>4. CASE \E s \in Submitters : SubmitTimeout(s)
    <2> PICK s \in Submitters : SubmitTimeout(s)
      BY <1>4
    <2>1. CallState(s) = "pending" /\ CallState(s)' = "refused"
      BY DEF IInv, TypeOK, CallInv, SubmitTimeout, CallState
    <2>2. ASSUME NEW t \in Submitters, t # s
          PROVE  CallState(t)' = CallState(t)
      BY <2>2 DEF IInv, TypeOK, SubmitTimeout, CallState
    <2>3. applied[s] = 0 /\ UNCHANGED applied
      BY DEF IInv, TypeOK, CallInv, SubmitTimeout
    <2>4. Service!SRefuse(s)
      BY <2>1, <2>2, <2>3 DEF Service!SRefuse
    <2> QED BY <2>4
  <1>5. CASE \E s \in Submitters : Return(s)
    <2> PICK s \in Submitters : Return(s)
      BY <1>5
    <2>1. CallState(s) \in {"applied", "refused"} /\ CallState(s)' = "idle"
      BY DEF IInv, TypeOK, Return, CallState
    <2>2. ASSUME NEW t \in Submitters, t # s
          PROVE  CallState(t)' = CallState(t)
      BY <2>2 DEF IInv, TypeOK, Return, CallState
    <2>3. UNCHANGED applied
      BY DEF Return
    <2>4. Service!SReturn(s)
      BY <2>1, <2>2, <2>3 DEF Service!SReturn
    <2> QED BY <2>4
  <1>6. CASE \E s \in Submitters : ObserveDone(s)
    <2> PICK s \in Submitters : ObserveDone(s)
      BY <1>6
    <2>1. reply[s]
      BY DEF IInv, TypeOK, CallInv, ObserveDone
    <2>2. ASSUME NEW t \in Submitters
          PROVE  CallState(t)' = CallState(t)
      BY <2>1 DEF IInv, TypeOK, CallInv, ObserveDone, CallState
    <2>3. UNCHANGED applied
      BY DEF ObserveDone
    <2> QED BY <2>2, <2>3
  <1>7. CASE \E s \in Submitters : ReceiveReply(s)
    <2>1. ASSUME NEW t \in Submitters
          PROVE  CallState(t)' = CallState(t)
      BY <1>7 DEF IInv, TypeOK, CallInv, ReceiveReply, CallState
    <2>2. UNCHANGED applied
      BY <1>7 DEF ReceiveReply
    <2> QED BY <2>1, <2>2
  <1>8. CASE \E s \in Submitters : RunInline(s) \/ Acquire(s)
    <2>1. ASSUME NEW t \in Submitters
          PROVE  CallState(t)' = CallState(t)
      BY <1>8 DEF IInv, TypeOK, RunInline, Acquire, CallState
    <2>2. UNCHANGED applied
      BY <1>8 DEF RunInline, Acquire
    <2> QED BY <2>1, <2>2
  <1>9. CASE \E s \in Submitters : Enqueue(s)
    <2>1. ASSUME NEW t \in Submitters
          PROVE  CallState(t)' = CallState(t)
      BY <1>9 DEF IInv, TypeOK, CallInv, Enqueue, CallState
    <2>2. UNCHANGED applied
      BY <1>9 DEF Enqueue
    <2> QED BY <2>1, <2>2
  <1>10. CASE UNCHANGED <<spc, reply, res, applied>>
    BY <1>10 DEF CallState
  <1>11. CASE \E c \in Controllers : Start(c) \/ StopCancel(c) \/ StopStep(c)
    BY <1>10, <1>11 DEF Start, StopCancel, StopStep, StopDone, StopClear
  <1>12. CASE \E g \in Gens : Take(g) \/ Notice(g) \/ Exit(g)
    BY <1>10, <1>12 DEF Take, Notice, Exit
  <1>13. CASE UNCHANGED vars
    BY <1>10, <1>13 DEF vars
  <1> QED
    BY <1>1, <1>2, <1>3, <1>4, <1>5, <1>6, <1>7, <1>8, <1>9, <1>11, <1>12, <1>13
    DEF Next, WriterStep, Locking, Waiting

(* TrafficWriter implements WriteService: submitTrafficWrite keeps its      *)
(* promise (traffic_writer.go:142-182).                                     *)
THEOREM Refinement == Spec => ImplementsService
  <1>1. Init => Service!SInit
    BY DEF Init, Service!SInit, CallState
  <1>2. IInv /\ IInv' /\ [Next]_vars => [Service!SNext]_(Service!svars)
    BY StepRefines
  <1> QED
    BY <1>1, <1>2, Invariance, PTL DEF Spec, ImplementsService, Service!ServiceSpec
=============================================================================
