-------------------------- MODULE NodeConfigProofs ---------------------------
(***************************************************************************)
(* Theorems about NodeConfig, for every set of inbounds, clients and        *)
(* editors, and every bound.                                                *)
(*                                                                         *)
(* TypeInv is TypeOK together with what the call of an editor has at each   *)
(* of its points; it is proved group by group (rows, calls, tick, counters),*)
(* since most actions change one group only.  The other theorems add one    *)
(* invariant each to it.                                                    *)
(***************************************************************************)
EXTENDS NodeConfig, FiniteSetTheorems, TLAPS

Working == {"commit", "push"}
Holds(a, i) == a.op \in ClientOps /\ a.i = i

(* A call works on an inbound from its commit, or its first push, to the end.*)
GoodCall(a) ==
    /\ a.pc \in Working => a.i \in Inbounds
    /\ a.pc \notin Working => a.i = None
    /\ a.pc \in Working /\ a.op # "drop" => a.new \in Config
    /\ a.pc \in Working => a.op \in ClientOps \cup RowOps
    /\ a.pc = "loop" \/ a.left # {} => a.op \in {"delete", "bulkDelete"}

EdInv == /\ ed \in [Editors -> CallType]
         /\ lock \in [Inbounds -> Editors \cup {None}]
         /\ \A i \in Inbounds, e \in Editors : lock[i] = e <=> Holds(ed[e], i)
         /\ \A e \in Editors : GoodCall(ed[e])
RowInv == /\ central \in [Inbounds -> Row]
          /\ node \in [Inbounds -> Row]
          /\ fp \in [Inbounds -> Row]
FlagInv == dirty \in BOOLEAN /\ adopted \in BOOLEAN /\ online \in BOOLEAN
SetInv == /\ tomb \subseteq Clients
          /\ imported \subseteq Inbounds
CountInv == /\ dirtyAt \in Nat
            /\ edits \in 0..MaxEdits
            /\ locals \in 0..MaxLocal
            /\ faults \in 0..MaxFaults
(* A tick sends the rows that it has read.                                   *)
Pushing == {"push", "record"}
JobInv == /\ job \in JobType
          /\ job.pc = "record" => job.cur \in Inbounds
          /\ job.pc \in Pushing => \A i \in job.todo : job.want[i] # None
TypeInv == EdInv /\ RowInv /\ FlagInv /\ SetInv /\ CountInv /\ JobInv

LEMMA TypeInvTypeOK == TypeInv => TypeOK
BY DEF TypeInv, EdInv, RowInv, FlagInv, SetInv, CountInv, JobInv, TypeOK, Holds

-----------------------------------------------------------------------------
(* Rows.                                                                     *)

LEMMA RowCases == /\ None \in Row
                  /\ Config \subseteq Row
                  /\ \A r \in Row : r # None => r \in Config
BY DEF Row

LEMMA ConfigParts ==
    ASSUME NEW r \in Config
    PROVE  /\ r # None
           /\ r.enable \in BOOLEAN
           /\ r.clients \subseteq Entries
           /\ \A cs \in SUBSET Entries : [r EXCEPT !.clients = cs] \in Config
           /\ \A b \in BOOLEAN : [r EXCEPT !.enable = b] \in Config
BY NoneAssumption DEF Config

(* Emails are clients; the disabled ones of a row are taken from it.         *)
LEMMA EmailsType ==
    /\ \A x \in Entries : x[1] \in Clients
    /\ \A xs \in SUBSET Entries : Emails(xs) \subseteq Clients
BY DEF Entries, Emails

LEMMA BuiltParts ==
    ASSUME NEW r \in Config
    PROVE  /\ Built(r) \in Config /\ Built(r) # None
           /\ Built(r).enable = r.enable
           /\ Built(r).clients = {x \in r.clients : x[2] \notin Off}
<1>1. {x \in r.clients : x[2] \notin Off} \in SUBSET Entries
  BY ConfigParts
<1>2. [r EXCEPT !.clients = {x \in r.clients : x[2] \notin Off}] \in Config
  BY <1>1, ConfigParts
<1> QED BY <1>2, ConfigParts DEF Built, Config

LEMMA RowUpdate ==
    ASSUME NEW f \in [Inbounds -> Row], NEW i \in Inbounds, NEW r \in Row
    PROVE  [f EXCEPT ![i] = r] \in [Inbounds -> Row]
OBVIOUS

LEMMA ClientsUpdate ==
    ASSUME NEW f \in [Inbounds -> Row], NEW i \in Inbounds, f[i] # None,
           NEW cs \in SUBSET Entries
    PROVE  [f EXCEPT ![i].clients = cs] \in [Inbounds -> Row]
<1>1. f[i] \in Config
  BY RowCases
<1>2. [f[i] EXCEPT !.clients = cs] \in Row
  BY <1>1, ConfigParts, RowCases
<1> QED BY <1>2, RowUpdate

LEMMA RowsSubset == ASSUME NEW f PROVE Rows(f) \subseteq Inbounds
BY DEF Rows

(* What a request does to the node, whichever way it goes.                   *)
LEMMA EffectType ==
    ASSUME TypeInv, NEW rows \in [Inbounds -> Row], Effect(rows)
    PROVE  node' \in [Inbounds -> Row]
BY DEF Effect

LEMMA FailsType ==
    ASSUME TypeInv, Fails
    PROVE  /\ node' \in [Inbounds -> Row]
           /\ faults' \in 0..MaxFaults
BY BoundAssumption DEF Fails, TypeInv, SetInv, CountInv, JobInv, RowInv

LEMMA LostType ==
    ASSUME TypeInv, NEW rows \in [Inbounds -> Row], Lost(rows)
    PROVE  /\ node' \in [Inbounds -> Row]
           /\ faults' \in 0..MaxFaults
BY EffectType, BoundAssumption DEF Lost, TypeInv, CountInv, JobInv

-----------------------------------------------------------------------------
(* Calls and locks.                                                          *)

LEMMA IdleCallGood == IdleCall \in CallType /\ GoodCall(IdleCall)
                      /\ \A i \in Inbounds : ~Holds(IdleCall, i)
BY RowCases, NoneAssumption DEF IdleCall, CallType, GoodCall, Holds, Working

LEMMA CallOnGood ==
    ASSUME TypeInv, NEW op \in ClientOps \cup RowOps, NEW i \in Inbounds,
           NEW new \in Row, op # "drop" => new \in Config,
           NEW push \in BOOLEAN, NEW rest \in SUBSET (Clients \cup {None})
    PROVE  /\ CallOn(op, i, new, push, rest) \in CallType
           /\ GoodCall(CallOn(op, i, new, push, rest))
           /\ CallOn(op, i, new, push, rest).op = op
           /\ CallOn(op, i, new, push, rest).i = i
<1>1. central[i] \in Row
  BY DEF TypeInv, RowInv
<1> QED BY <1>1 DEF CallOn, CallType, GoodCall, Working, ClientOps, RowOps

(* A step of a call that neither takes nor releases a lock.                  *)
LEMMA KeepLock ==
    ASSUME EdInv, NEW e \in Editors, NEW a \in CallType, GoodCall(a),
           \A i \in Inbounds : Holds(a, i) <=> Holds(ed[e], i),
           ed' = [ed EXCEPT ![e] = a], lock' = lock
    PROVE  EdInv'
<1>1. ed' \in [Editors -> CallType] /\ lock' \in [Inbounds -> Editors \cup {None}]
  BY DEF EdInv
<1>2. \A f \in Editors : ed'[f] = IF f = e THEN a ELSE ed[f]
  BY DEF EdInv
<1>3. \A i \in Inbounds, f \in Editors : lock'[i] = f <=> Holds(ed'[f], i)
  BY <1>2 DEF EdInv
<1>4. \A f \in Editors : GoodCall(ed'[f])
  BY <1>2 DEF EdInv
<1> QED BY <1>1, <1>3, <1>4 DEF EdInv, Holds, GoodCall

LEMMA TakeLock ==
    ASSUME EdInv, NEW e \in Editors, NEW i \in Inbounds, Lock(e, i),
           NEW a \in CallType, GoodCall(a), a.op \in ClientOps, a.i = i,
           ed[e].i = None, ed' = [ed EXCEPT ![e] = a]
    PROVE  EdInv'
<1>1. ed' \in [Editors -> CallType] /\ lock' \in [Inbounds -> Editors \cup {None}]
  BY DEF EdInv, Lock
<1>2. \A f \in Editors : ed'[f] = IF f = e THEN a ELSE ed[f]
  BY DEF EdInv
<1>3. ASSUME NEW j \in Inbounds, NEW f \in Editors
      PROVE  lock'[j] = f <=> Holds(ed'[f], j)
  <2>1. CASE f = e
    <3>1. Holds(ed'[f], j) <=> j = i
      BY <1>2, <2>1 DEF Holds
    <3>2. lock[j] # e
      BY NoneAssumption DEF EdInv, Holds
    <3> QED BY <2>1, <3>1, <3>2 DEF Lock, EdInv
  <2>2. CASE f # e
    <3>1. lock[j] = f <=> Holds(ed'[f], j)
      BY <1>2, <2>2 DEF EdInv
    <3>2. lock'[j] = f <=> lock[j] = f
      BY <2>2, NoneAssumption DEF Lock, EdInv
    <3> QED BY <3>1, <3>2
  <2> QED BY <2>1, <2>2
<1>4. \A f \in Editors : GoodCall(ed'[f])
  BY <1>2 DEF EdInv
<1> QED BY <1>1, <1>3, <1>4 DEF EdInv, Holds, GoodCall

LEMMA LeaveInv ==
    ASSUME EdInv, NEW e \in Editors, ed[e].pc \in Working, Leave(e)
    PROVE  EdInv'
<1> DEFINE a == ed'[e]
<1>1. ed[e] \in CallType /\ ed[e].i \in Inbounds
  BY DEF EdInv, GoodCall
<1>2. /\ ed' = [ed EXCEPT ![e] = a]
      /\ a \in CallType /\ GoodCall(a) /\ a.i = None
  <2> DEFINE more == [IdleCall EXCEPT !.pc = "loop", !.op = ed[e].op,
                                      !.who = ed[e].who, !.left = ed[e].left]
  <2>1. ed' = [ed EXCEPT ![e] = IF ed[e].left = {} THEN IdleCall ELSE more]
    BY DEF Leave
  <2>2. a = IF ed[e].left = {} THEN IdleCall ELSE more
    BY <2>1 DEF EdInv
  <2>3. more \in CallType /\ more.i = None
    BY <1>1, IdleCallGood DEF IdleCall, CallType
  <2>4. ed[e].left # {} => GoodCall(more)
    BY DEF EdInv, GoodCall, IdleCall, Working
  <2>5. IdleCall.i = None
    BY DEF IdleCall
  <2> QED BY <2>1, <2>2, <2>3, <2>4, <2>5, IdleCallGood
<1>3. lock' = IF ed[e].op \in ClientOps THEN [lock EXCEPT ![ed[e].i] = None] ELSE lock
  BY DEF Leave
<1>4. lock' \in [Inbounds -> Editors \cup {None}]
  BY <1>3 DEF EdInv
<1> HIDE DEF a
<1>5. \A f \in Editors : ed'[f] = IF f = e THEN a ELSE ed[f]
  BY <1>2 DEF EdInv
<1>6. ASSUME NEW j \in Inbounds, NEW f \in Editors
      PROVE  lock'[j] = f <=> Holds(ed'[f], j)
  <2>1. lock[j] = f <=> Holds(ed[f], j)
    BY DEF EdInv
  <2>2. CASE f = e
    <3>1. ~Holds(ed'[f], j)
      BY <1>2, <1>5, <2>2, NoneAssumption DEF Holds
    <3>2. lock'[j] # e
      BY <1>1, <1>3, <2>1, <2>2, NoneAssumption DEF EdInv, Holds
    <3> QED BY <2>2, <3>1, <3>2
  <2>3. CASE f # e
    <3>1. lock[ed[e].i] = e \/ ed[e].op \notin ClientOps
      BY <1>1 DEF EdInv, Holds
    <3>2. lock'[j] = f <=> lock[j] = f
      BY <1>1, <1>3, <2>3, <3>1, NoneAssumption DEF EdInv
    <3> QED BY <1>5, <2>1, <2>3, <3>2
  <2> QED BY <2>2, <2>3
<1>7. \A f \in Editors : GoodCall(ed'[f])
  BY <1>2, <1>5 DEF EdInv
<1> QED BY <1>2, <1>4, <1>6, <1>7 DEF EdInv, Holds, GoodCall

-----------------------------------------------------------------------------
(* The steps of a call.                                                      *)

LEMMA StartLocked ==
    ASSUME TypeInv, NEW e \in Editors, NEW i \in Inbounds, Lock(e, i),
           NEW op \in ClientOps, NEW new \in Config, NEW push \in BOOLEAN,
           NEW rest \in SUBSET Clients,
           Begin(e, 1, CallOn(op, i, new, push, rest)),
           CallUnchanged, tomb' = tomb
    PROVE  TypeInv'
<1> DEFINE a == CallOn(op, i, new, push, rest)
<1>1. a \in CallType /\ GoodCall(a) /\ a.op = op /\ a.i = i
  BY CallOnGood, RowCases
<1>2. ed' = [ed EXCEPT ![e] = a] /\ ed[e].i = None
  BY DEF Begin, TypeInv, EdInv, GoodCall, Working
<1> HIDE DEF a
<1>3. EdInv'
  BY <1>1, <1>2, TakeLock DEF TypeInv
<1>4. edits' \in 0..MaxEdits
  BY BoundAssumption DEF Begin, TypeInv, CountInv, JobInv
<1> QED BY <1>3, <1>4 DEF CallUnchanged, db, TypeInv, RowInv, FlagInv, SetInv, CountInv, JobInv

LEMMA AddClientsInv ==
    ASSUME TypeInv, NEW e \in Editors, NEW i \in Inbounds,
           NEW xs \in SUBSET Entries, AddClients(e, i, xs)
    PROVE  TypeInv'
<1>1. central[i] \in Config
  BY RowCases DEF AddClients, Lock, TypeInv, RowInv
<1>2. [central[i] EXCEPT !.clients = @ \cup xs] \in Config
  BY <1>1, ConfigParts
<1>3. Plan(Emails(xs)) \in BOOLEAN /\ Emails(xs) \in SUBSET Clients
  BY EmailsType DEF Plan
<1> QED BY <1>2, <1>3, StartLocked DEF AddClients, ClientOps

LEMMA DetachInv ==
    ASSUME TypeInv, NEW e \in Editors, NEW op \in {"remove", "detach"},
           NEW i \in Inbounds, NEW cs \in SUBSET Clients, Detach(e, op, i, cs)
    PROVE  TypeInv'
<1>1. central[i] \in Config
  BY RowCases DEF Detach, Lock, TypeInv, RowInv
<1>2. [central[i] EXCEPT !.clients = @ \ Of(cs)] \in Config
  BY <1>1, ConfigParts
<1>3. (Small(cs) /\ (online \/ op = "remove")) \in BOOLEAN
  OBVIOUS
<1> QED BY <1>2, <1>3, StartLocked DEF Detach, ClientOps

LEMMA UpdateClientInv ==
    ASSUME TypeInv, NEW e \in Editors, NEW op \in {"update", "bulkAdjust"},
           NEW i \in Inbounds, NEW x \in Entries, NEW y \in Entries,
           UpdateClient(e, op, i, x, y)
    PROVE  TypeInv'
<1>1. central[i] \in Config
  BY RowCases DEF UpdateClient, Lock, TypeInv, RowInv
<1>2. [central[i] EXCEPT !.clients = (@ \ Of({x[1]})) \cup {y}] \in Config
  BY <1>1, ConfigParts
<1>3. Plan({x[1]}) \in BOOLEAN /\ {x[1]} \in SUBSET Clients
  BY EmailsType DEF Plan
<1> QED BY <1>2, <1>3, StartLocked DEF UpdateClient, ClientOps

LEMMA DeleteInv ==
    ASSUME TypeInv, NEW e \in Editors, NEW op \in {"delete", "bulkDelete"},
           NEW cs \in SUBSET Clients, Delete(e, op, cs)
    PROVE  TypeInv'
<1> DEFINE a == [IdleCall EXCEPT !.pc = "loop", !.op = op, !.who = cs,
                                 !.left = Homes(cs)]
<1>1. Homes(cs) \subseteq Inbounds
  BY DEF Homes, Rows
<1>2. /\ a \in CallType /\ GoodCall(a)
      /\ \A i \in Inbounds : Holds(a, i) <=> Holds(ed[e], i)
  <2>1. a \in CallType
    BY <1>1, RowCases DEF IdleCall, CallType, ClientOps
  <2>2. GoodCall(a) /\ a.i = None
    BY DEF IdleCall, GoodCall, Working
  <2>3. ed[e].i = None
    BY DEF Delete, Begin, TypeInv, EdInv, GoodCall, Working
  <2> QED BY <2>1, <2>2, <2>3, NoneAssumption DEF Holds
<1>3. ed' = [ed EXCEPT ![e] = a] /\ lock' = lock
  BY DEF Delete, Begin
<1> HIDE DEF a
<1>4. EdInv'
  BY <1>2, <1>3, KeepLock DEF TypeInv
<1>5. edits' \in 0..MaxEdits
  <2>1. Cardinality(Homes(cs)) \in Nat
    BY <1>1, FiniteAssumption, FS_Subset, FS_CardinalityType
  <2> QED BY <2>1, BoundAssumption DEF Delete, Begin, TypeInv, CountInv, JobInv
<1>6. tomb' \subseteq Clients
  BY DEF Delete, TypeInv, SetInv
<1> QED BY <1>4, <1>5, <1>6 DEF Delete, CallUnchanged, db, TypeInv, RowInv, FlagInv,
                                SetInv, CountInv, JobInv

LEMMA NextInboundInv ==
    ASSUME TypeInv, NEW e \in Editors, NEW i \in Inbounds, NextInbound(e, i)
    PROVE  TypeInv'
<1>1. /\ ed[e] \in CallType /\ ed[e].pc = "loop" /\ ed[e].i = None
      /\ ed[e].left \ {i} \subseteq Inbounds
  BY DEF NextInbound, TypeInv, EdInv, GoodCall, Working, CallType
<1>2. EdInv'
  <2>1. CASE i \in Homes(ed[e].who)
    <3> DEFINE cs == ed[e].who \cap Emails(central[i].clients)
               new == [central[i] EXCEPT !.clients = @ \ Of(cs)]
               b == CallOn(ed[e].op, i, new, Plan(cs), cs)
               a == [b EXCEPT !.who = ed[e].who, !.left = ed[e].left \ {i}]
    <3>1. Lock(e, i) /\ ed' = [ed EXCEPT ![e] = a]
      BY <2>1 DEF NextInbound
    <3>2. central[i] \in Config
      BY <3>1, RowCases DEF Lock, TypeInv, RowInv
    <3>3. new \in Config /\ cs \in SUBSET Clients /\ Plan(cs) \in BOOLEAN
      <4>1. cs \in SUBSET Clients
        <5>1. ed[e].who \in SUBSET Clients
          BY <1>1 DEF CallType
        <5> QED BY <5>1
      <4>2. central[i].clients \ Of(cs) \in SUBSET Entries
        BY <3>2, ConfigParts
      <4>3. new \in Config
        BY <3>2, <4>2, ConfigParts
      <4>4. Plan(cs) \in BOOLEAN
        BY Zenon DEF Plan
      <4> QED BY <4>1, <4>3, <4>4
    <3>4. ed[e].op \in {"delete", "bulkDelete"}
      BY <1>1 DEF TypeInv, EdInv, GoodCall
    <3>5. b \in CallType /\ GoodCall(b) /\ b.op = ed[e].op /\ b.i = i
      <4>1. ed[e].op \in ClientOps \cup RowOps /\ cs \in SUBSET (Clients \cup {None})
        BY <3>3, <3>4 DEF ClientOps
      <4>2. new \in Row
        BY <3>3, RowCases
      <4> HIDE DEF cs, new
      <4>3. ASSUME NEW push \in BOOLEAN
            PROVE  LET k == CallOn(ed[e].op, i, new, push, cs)
                   IN k \in CallType /\ GoodCall(k) /\ k.op = ed[e].op /\ k.i = i
        BY <3>3, <4>1, <4>2, CallOnGood
      <4> QED BY Zenon, <3>3, <4>3
    <3>6. a \in CallType /\ GoodCall(a) /\ a.op = ed[e].op /\ a.i = i
      BY <1>1, <3>4, <3>5 DEF CallType, GoodCall
    <3> QED BY <1>1, <3>1, <3>4, <3>6, TakeLock DEF TypeInv, ClientOps
  <2>2. CASE i \notin Homes(ed[e].who)
    <3> DEFINE a == IF ed[e].left \ {i} = {} THEN IdleCall
                    ELSE [ed[e] EXCEPT !.left = ed[e].left \ {i}]
    <3>1. ed' = [ed EXCEPT ![e] = a] /\ lock' = lock
      BY <2>2 DEF NextInbound
    <3>2. a \in CallType /\ a.i = None
      BY <1>1, IdleCallGood DEF CallType, IdleCall
    <3>3. GoodCall(a)
      BY <1>1, IdleCallGood DEF GoodCall, CallType, TypeInv, EdInv
    <3>4. \A j \in Inbounds : Holds(a, j) <=> Holds(ed[e], j)
      BY <1>1, <3>2, NoneAssumption DEF Holds
    <3> QED BY <3>1, <3>2, <3>3, <3>4, KeepLock DEF TypeInv
  <2> QED BY <2>1, <2>2
<1> QED BY <1>2 DEF NextInbound, CallUnchanged, db, TypeInv, RowInv, FlagInv,
                    SetInv, CountInv, JobInv

LEMMA ChangeInboundInv ==
    ASSUME TypeInv, NEW e \in Editors, NEW op \in RowOps, NEW i \in Inbounds,
           NEW new \in Row, ChangeInbound(e, op, i, new)
    PROVE  TypeInv'
<1> DEFINE b == op = "enable" \/ (op = "drop" /\ online)
           a == CallOn(op, i, new, b, {None})
<1>1. op # "drop" => new \in Config
  BY RowCases, ConfigParts DEF ChangeInbound, RowOps, TypeInv, RowInv
<1>2. a \in CallType /\ GoodCall(a) /\ a.op = op
  <2>1. b \in BOOLEAN /\ {None} \in SUBSET (Clients \cup {None})
    OBVIOUS
  <2> HIDE DEF b
  <2> QED BY <1>1, <2>1, CallOnGood
<1>3. ed' = [ed EXCEPT ![e] = a] /\ lock' = lock /\ ed[e].i = None
  BY DEF ChangeInbound, Begin, TypeInv, EdInv, GoodCall, Working
<1>4. \A j \in Inbounds : Holds(a, j) <=> Holds(ed[e], j)
  BY <1>2, <1>3, NoneAssumption DEF Holds, ClientOps, RowOps
<1> HIDE DEF a
<1>5. EdInv'
  BY <1>2, <1>3, <1>4, KeepLock DEF TypeInv
<1>6. edits' \in 0..MaxEdits
  BY BoundAssumption DEF ChangeInbound, Begin, TypeInv, CountInv, JobInv
<1> QED BY <1>5, <1>6 DEF ChangeInbound, CallUnchanged, db, TypeInv, RowInv,
                          FlagInv, SetInv, CountInv, JobInv

LEMMA CommitInv ==
    ASSUME TypeInv, NEW e \in Editors, Commit(e)
    PROVE  TypeInv'
<1>1. /\ ed[e] \in CallType /\ ed[e].pc = "commit" /\ ed[e].i \in Inbounds
      /\ GoodCall(ed[e])
  BY DEF Commit, TypeInv, EdInv, GoodCall, Working
<1>2. Committed(ed[e]) \in Row
  BY <1>1, RowCases, ConfigParts
     DEF Committed, CallType, GoodCall, Working, TypeInv, RowInv
<1>3. central' \in [Inbounds -> Row] /\ dirty' \in BOOLEAN /\ dirtyAt' \in Nat
  <2>1. CASE /\ central' = [central EXCEPT ![ed[e].i] = Committed(ed[e])]
             /\ MarkNodeDirty
    <3>1. central' \in [Inbounds -> Row]
      BY <1>1, <1>2, <2>1, RowUpdate DEF TypeInv, RowInv
    <3> QED BY <2>1, <3>1 DEF MarkNodeDirty, TypeInv, CountInv, JobInv
  <2>2. CASE UNCHANGED <<central, dirty, dirtyAt>>
    BY <2>2 DEF TypeInv, RowInv, FlagInv, CountInv, JobInv
  <2> QED BY <2>1, <2>2 DEF Commit
<1>4. node' \in [Inbounds -> Row] /\ faults' \in 0..MaxFaults
  BY FailsType DEF Commit, TypeInv, RowInv, SetInv, CountInv, JobInv
<1>5. EdInv'
  <2>1. CASE Leave(e)
    BY <1>1, <2>1, LeaveInv DEF TypeInv, Working
  <2>2. CASE ~Leave(e)
    <3> DEFINE drop == ed[e].op \in {"remove", "enable"} /\ ~online
               b == ed[e].push /\ ~drop
               a == [ed[e] EXCEPT !.pc = "push", !.push = b,
                                  !.rest = IF drop THEN {} ELSE @]
    <3>1. ed' = [ed EXCEPT ![e] = a] /\ lock' = lock
      BY <1>1, <2>2 DEF Commit, TypeInv, EdInv
    <3>2. b \in BOOLEAN
      OBVIOUS
    <3> HIDE DEF b
    <3>3. a \in CallType /\ GoodCall(a)
      BY <1>1, <3>2 DEF CallType, GoodCall, Working
    <3>4. \A j \in Inbounds : Holds(a, j) <=> Holds(ed[e], j)
      BY <1>1 DEF Holds, CallType
    <3> QED BY <3>1, <3>3, <3>4, KeepLock DEF TypeInv
  <2> QED BY <2>1, <2>2
<1> QED BY <1>3, <1>4, <1>5 DEF Commit, TypeInv, RowInv, FlagInv, SetInv, CountInv, JobInv

LEMMA SentInv ==
    ASSUME TypeInv, NEW e \in Editors, ed[e].pc = "push", NEW c, NEW ok \in BOOLEAN,
           ed' = [ed EXCEPT ![e] = Sent(ed[e], c, ok)], lock' = lock
    PROVE  EdInv'
<1> DEFINE a == Sent(ed[e], c, ok)
<1>1. ed[e] \in CallType /\ GoodCall(ed[e])
  BY DEF TypeInv, EdInv
<1>2. a \in CallType /\ a.pc = ed[e].pc /\ a.op = ed[e].op /\ a.i = ed[e].i
      /\ a.new = ed[e].new /\ a.left = ed[e].left
  BY <1>1 DEF Sent, CallType
<1>3. GoodCall(a) /\ \A i \in Inbounds : Holds(a, i) <=> Holds(ed[e], i)
  BY <1>1, <1>2 DEF GoodCall, Holds
<1> HIDE DEF a
<1> QED BY <1>2, <1>3, KeepLock DEF a, TypeInv

LEMMA RequestedType ==
    ASSUME TypeInv, NEW e \in Editors, ed[e].pc = "push", ed[e].op \in ClientOps,
           NEW c \in Clients, Possible(ed[e], c)
    PROVE  Requested(ed[e], c) \in [Inbounds -> Row]
<1>1. /\ node \in [Inbounds -> Row] /\ ed[e].i \in Inbounds
      /\ ed[e].new \in Config
  BY DEF TypeInv, RowInv, EdInv, GoodCall, Working, ClientOps
<1>2. CASE ed[e].op \in {"delete", "bulkDelete"}
  <2>1. \A j \in Inbounds : node[j] # None =>
           [node[j] EXCEPT !.clients = @ \ Of({c})] \in Row
    <3> SUFFICES ASSUME NEW j \in Inbounds, node[j] # None
                 PROVE  [node[j] EXCEPT !.clients = @ \ Of({c})] \in Row
      OBVIOUS
    <3>1. node[j] \in Config
      BY <1>1, RowCases
    <3>2. node[j].clients \ Of({c}) \in SUBSET Entries
      BY <3>1, ConfigParts
    <3> QED BY <3>1, <3>2, ConfigParts, RowCases
  <2> QED BY <1>2, <2>1, RowCases DEF Requested
<1>3. CASE ed[e].op \notin {"delete", "bulkDelete"}
  <2>1. node[ed[e].i] # None
    BY <1>3 DEF Possible
  <2>2. node[ed[e].i].clients \subseteq Entries /\ ed[e].new.clients \subseteq Entries
    BY <1>1, <2>1, RowCases, ConfigParts
  <2>3. \A cs \in SUBSET Entries : [node EXCEPT ![ed[e].i].clients = cs] \in [Inbounds -> Row]
    BY <1>1, <2>1, ClientsUpdate
  <2> DEFINE r == node[ed[e].i]
             without == r.clients \ Of({c})
             added == r.clients \cup (ed[e].new.clients \cap Of({c}))
             changed == without \cup (ed[e].new.clients \ ed[e].old.clients)
  <2>4. /\ without \in SUBSET Entries
        /\ added \in SUBSET Entries
        /\ changed \in SUBSET Entries
    BY <2>2
  <2>5. /\ [node EXCEPT ![ed[e].i].clients = without] \in [Inbounds -> Row]
        /\ [node EXCEPT ![ed[e].i].clients = added] \in [Inbounds -> Row]
        /\ [node EXCEPT ![ed[e].i].clients = changed] \in [Inbounds -> Row]
    BY <2>3, <2>4
  <2>6. \/ Requested(ed[e], c) = node
        \/ Requested(ed[e], c) = [node EXCEPT ![ed[e].i].clients = without]
        \/ Requested(ed[e], c) = [node EXCEPT ![ed[e].i].clients = added]
        \/ Requested(ed[e], c) = [node EXCEPT ![ed[e].i].clients = changed]
    BY <1>1, <1>3 DEF Requested
  <2> QED BY <1>1, <2>5, <2>6
<1> QED BY <1>2, <1>3

LEMMA PushClientInv ==
    ASSUME TypeInv, NEW e \in Editors, NEW c \in Clients, PushClient(e, c)
    PROVE  TypeInv'
<1>1. ed[e].pc = "push" /\ ed[e].op \in ClientOps
  BY DEF PushClient
<1>2. EdInv'
  BY <1>1, SentInv DEF PushClient
<1>3. node' \in [Inbounds -> Row] /\ faults' \in 0..MaxFaults
  <2>1. CASE Possible(ed[e], c) /\ Effect(Requested(ed[e], c)) /\ UNCHANGED faults
    BY <1>1, <2>1, RequestedType, EffectType DEF TypeInv, CountInv, JobInv
  <2>2. CASE UNCHANGED <<node, faults>>
    BY <2>2 DEF TypeInv, RowInv, SetInv, CountInv, JobInv
  <2>3. CASE Fails
    BY <2>3, FailsType
  <2>4. CASE Possible(ed[e], c) /\ Lost(Requested(ed[e], c))
    BY <1>1, <2>4, RequestedType, LostType
  <2> QED BY <2>1, <2>2, <2>3, <2>4 DEF PushClient
<1> QED BY <1>2, <1>3 DEF PushClient, db, TypeInv, RowInv, FlagInv, SetInv, CountInv, JobInv

LEMMA PushRowInv ==
    ASSUME TypeInv, NEW e \in Editors, PushRow(e)
    PROVE  TypeInv'
<1>1. ed[e].pc = "push" /\ ed[e] \in CallType /\ ed[e].i \in Inbounds
  BY DEF PushRow, TypeInv, EdInv, GoodCall, Working
<1>2. EdInv'
  BY <1>1, SentInv DEF PushRow
<1> DEFINE rows == [node EXCEPT ![ed[e].i] = ed[e].new]
<1>3. rows \in [Inbounds -> Row]
  BY <1>1, RowUpdate DEF CallType, TypeInv, RowInv
<1>4. node' \in [Inbounds -> Row] /\ faults' \in 0..MaxFaults
  <2>1. CASE Effect(rows) /\ UNCHANGED faults
    BY <1>3, <2>1, EffectType DEF TypeInv, CountInv, JobInv
  <2>2. CASE UNCHANGED <<node, faults>>
    BY <2>2 DEF TypeInv, RowInv, SetInv, CountInv, JobInv
  <2>3. CASE Fails
    BY <2>3, FailsType
  <2>4. CASE Lost(rows)
    BY <1>3, <2>4, LostType
  <2> QED BY <2>1, <2>2, <2>3, <2>4 DEF PushRow
<1> QED BY <1>2, <1>4 DEF PushRow, db, TypeInv, RowInv, FlagInv, SetInv, CountInv, JobInv

LEMMA EndPushInv ==
    ASSUME TypeInv, NEW e \in Editors, EndPush(e)
    PROVE  TypeInv'
<1>1. ed[e].pc = "push" /\ ed[e] \in CallType /\ ed[e].i \in Inbounds /\ GoodCall(ed[e])
  BY DEF EndPush, TypeInv, EdInv, GoodCall, Working
<1>2. fp' \in [Inbounds -> Row]
  BY <1>1, RowUpdate DEF EndPush, Pushed, CallType, TypeInv, RowInv
<1>3. EdInv'
  <2>1. CASE Leave(e)
    BY <1>1, <2>1, LeaveInv DEF TypeInv, Working
  <2>2. CASE ~Leave(e)
    <3> DEFINE a == [ed[e] EXCEPT !.pc = "commit"]
    <3>1. ed' = [ed EXCEPT ![e] = a] /\ lock' = lock
      BY <1>1, <2>2 DEF EndPush, TypeInv, EdInv
    <3>2. a \in CallType /\ GoodCall(a)
      BY <1>1 DEF CallType, GoodCall, Working
    <3>3. \A j \in Inbounds : Holds(a, j) <=> Holds(ed[e], j)
      BY <1>1 DEF Holds, CallType
    <3> QED BY <3>1, <3>2, <3>3, KeepLock DEF TypeInv
  <2> QED BY <2>1, <2>2
<1> QED BY <1>2, <1>3 DEF EndPush, db, counts, TypeInv, RowInv, FlagInv, SetInv, CountInv, JobInv

LEMMA WorkInv ==
    ASSUME TypeInv, NEW e \in Editors, Work(e)
    PROVE  TypeInv'
BY NextInboundInv, CommitInv, PushClientInv, PushRowInv, EndPushInv DEF Work

LEMMA EditInv ==
    ASSUME TypeInv, NEW e \in Editors, ClientEdit(e) \/ RowEdit(e)
    PROVE  TypeInv'
<1>1. CASE ClientEdit(e)
  BY <1>1, AddClientsInv, DetachInv, UpdateClientInv, DeleteInv DEF ClientEdit
<1>2. CASE RowEdit(e)
  BY <1>2, ChangeInboundInv DEF RowEdit
<1> QED BY <1>1, <1>2

LEMMA AddInboundInv ==
    ASSUME TypeInv, NEW i \in Inbounds, NEW row \in Config, AddInbound(i, row)
    PROVE  TypeInv'
<1>1. central' \in [Inbounds -> Row]
  BY RowUpdate, RowCases DEF AddInbound, TypeInv, RowInv
<1>2. dirty' \in BOOLEAN /\ dirtyAt' \in Nat
  <2>1. CASE MarkNodeDirty
    BY <2>1 DEF MarkNodeDirty, TypeInv, CountInv, JobInv
  <2>2. CASE UNCHANGED <<dirty, dirtyAt>>
    BY <2>2 DEF TypeInv, FlagInv, CountInv, JobInv
  <2> QED BY <2>1, <2>2 DEF AddInbound
<1>3. edits' \in 0..MaxEdits
  BY BoundAssumption DEF AddInbound, TypeInv, CountInv, JobInv
<1> QED BY <1>1, <1>2, <1>3
        DEF AddInbound, TypeInv, EdInv, Holds, GoodCall, RowInv, FlagInv, SetInv, CountInv, JobInv

LEMMA UpdateNodeInv ==
    ASSUME TypeInv, NEW fresh \in BOOLEAN, UpdateNode(fresh)
    PROVE  TypeInv'
<1>1. node' \in [Inbounds -> Row] /\ fp' \in [Inbounds -> Row]
  BY RowCases DEF UpdateNode, TypeInv, RowInv
<1>2. dirty' \in BOOLEAN /\ dirtyAt' \in Nat
  <2>1. CASE MarkNodeDirty
    BY <2>1 DEF MarkNodeDirty, TypeInv, CountInv
  <2>2. CASE UNCHANGED <<dirty, dirtyAt>>
    BY <2>2 DEF TypeInv, FlagInv, CountInv
  <2> QED BY <2>1, <2>2 DEF UpdateNode
<1>3. edits' \in 0..MaxEdits /\ faults' \in 0..MaxFaults
  BY BoundAssumption DEF UpdateNode, TypeInv, CountInv
<1> QED BY <1>1, <1>2, <1>3
        DEF UpdateNode, TypeInv, EdInv, Holds, GoodCall, RowInv, FlagInv, SetInv, CountInv, JobInv

-----------------------------------------------------------------------------
(* The steps of the tick.                                                    *)

LEMMA IdleJobType == IdleJob \in JobType /\ IdleJob.pc = "idle"
BY RowCases, NoneAssumption DEF IdleJob, JobType, JobInv

LEMMA JobElse == ASSUME job' \in JobType, job'.pc \notin Pushing PROVE JobInv'
BY DEF JobInv, Pushing

LEMMA JobKept ==
    ASSUME TypeInv, job.pc \in Pushing, job' \in JobType, job'.pc = "push",
           job'.todo \subseteq job.todo, job'.want = job.want
    PROVE  JobInv'
BY DEF TypeInv, JobInv, Pushing

(* A step of the tick that changes its own variables only.                   *)
LEMMA JobOnly ==
    ASSUME TypeInv, JobInv',
           UNCHANGED <<db, tomb, fp, node, online, lock, ed, counts, imported>>
    PROVE  TypeInv'
BY DEF db, counts, TypeInv, EdInv, Holds, GoodCall, RowInv, FlagInv, SetInv, CountInv, JobInv

(* A request of the tick, which may change the node and a fingerprint.       *)
LEMMA JobRequest ==
    ASSUME TypeInv, JobInv', node' \in [Inbounds -> Row],
           faults' \in 0..MaxFaults,
           fp' \in [Inbounds -> Row],
           UNCHANGED <<db, tomb, online, lock, ed, edits, locals, imported>>
    PROVE  TypeInv'
BY DEF db, TypeInv, EdInv, Holds, GoodCall, RowInv, FlagInv, SetInv, CountInv, JobInv

LEMMA LocalSteps ==
    ASSUME TypeInv,
           \/ Tick \/ ReadCentral
           \/ \E i \in Inbounds : SkipInbound(i)
    PROVE  TypeInv'
<1>1. JobInv'
  <2>1. CASE Tick
    <3>1. job' \in JobType /\ job'.pc \notin Pushing
      BY <2>1, IdleJobType DEF Tick, JobType, TypeInv, FlagInv, CountInv, Pushing
    <3> QED BY <3>1, JobElse
  <2>2. CASE ReadCentral
    <3>1. job' \in JobType /\ job'.pc \notin Pushing
      BY <2>2 DEF ReadCentral, JobType, JobInv, TypeInv, RowInv, Pushing
    <3> QED BY <3>1, JobElse
  <2>3. ASSUME NEW i \in Inbounds, SkipInbound(i)
        PROVE  JobInv'
    <3>1. job' \in JobType /\ job.pc = "push" /\ job'.pc = "push"
      BY <2>3 DEF SkipInbound, JobAt, JobType, JobInv, TypeInv
    <3>2. job'.todo = job.todo \ {i} /\ job'.want = job.want
      BY <2>3 DEF SkipInbound, JobType, JobInv, TypeInv
    <3> QED BY <3>1, <3>2, JobKept DEF Pushing
  <2> QED BY <2>1, <2>2, <2>3
<1> QED BY <1>1, JobOnly DEF Tick, ReadCentral, SkipInbound

LEMMA CheckDirtyInv == ASSUME TypeInv, CheckDirty PROVE TypeInv'
<1>1. JobInv'
  <2>1. PICK b \in BOOLEAN : job' = [job EXCEPT !.pc = "merge", !.stale = b]
    BY DEF CheckDirty, TypeInv, FlagInv
  <2>2. job' \in JobType /\ job'.pc \notin Pushing
    BY <2>1 DEF JobType, JobInv, TypeInv, Pushing
  <2> QED BY <2>2, JobElse
<1>2. node' \in [Inbounds -> Row] /\ faults' \in 0..MaxFaults
  BY FailsType DEF CheckDirty, TypeInv, RowInv, CountInv
<1> QED BY <1>1, <1>2, JobRequest DEF CheckDirty, TypeInv, RowInv

LEMMA ListTagsInv == ASSUME TypeInv, ListTags PROVE TypeInv'
<1>1. JobInv'
  <2> DEFINE tags == Rows(node)
             todo == Rows(job.want)
  <2>1. tags \subseteq Inbounds /\ todo \subseteq Inbounds
    BY RowsSubset
  <2>2. \/ job' = [job EXCEPT !.pc = "push", !.tags = tags, !.todo = todo]
        \/ job' = [job EXCEPT !.pc = "fetch"]
    BY DEF ListTags
  <2>3. \A i \in todo : job.want[i] # None
    BY DEF Rows
  <2>4. job \in JobType
    BY DEF TypeInv, JobInv
  <2> HIDE DEF tags, todo
  <2>5. CASE job' = [job EXCEPT !.pc = "push", !.tags = tags, !.todo = todo]
    <3>1. job' \in JobType /\ job'.pc = "push" /\ job'.todo = todo /\ job'.want = job.want
      BY <2>1, <2>4, <2>5 DEF JobType
    <3> QED BY <2>3, <3>1 DEF JobInv
  <2>6. CASE job' = [job EXCEPT !.pc = "fetch"]
    <3>1. job' \in JobType /\ job'.pc \notin Pushing
      BY <2>4, <2>6 DEF JobType, Pushing
    <3> QED BY <3>1, JobElse
  <2> QED BY <2>2, <2>5, <2>6
<1>2. node' \in [Inbounds -> Row] /\ faults' \in 0..MaxFaults
  BY FailsType DEF ListTags, TypeInv, RowInv, SetInv, CountInv, JobInv
<1> QED BY <1>1, <1>2, JobRequest DEF ListTags, TypeInv, RowInv

LEMMA PayloadsType ==
    ASSUME TypeInv, job.pc \in Pushing, NEW i \in Inbounds, i \in job.todo,
           NEW row \in Payloads(i)
    PROVE  row \in Config
<1>1. job.want[i] \in Config
  BY RowCases DEF TypeInv, JobInv, JobType
<1> QED BY <1>1, BuiltParts DEF Payloads

LEMMA SendInboundInv ==
    ASSUME TypeInv, NEW i \in Inbounds, SendInbound(i)
    PROVE  TypeInv'
<1>1. PICK row \in Payloads(i) :
         LET rows == [node EXCEPT ![i] = row]
             fail == [job EXCEPT !.todo = @ \ {i}, !.failed = TRUE]
         IN \/ /\ Effect(rows)
               /\ job' = [job EXCEPT !.pc = "record", !.cur = i, !.sent = row,
                                     !.todo = @ \ {i}]
               /\ UNCHANGED faults
            \/ job' = fail /\ UNCHANGED <<node, faults>>
            \/ Fails /\ job' = fail
            \/ Lost(rows) /\ job' = fail
  BY DEF SendInbound
<1> DEFINE rows == [node EXCEPT ![i] = row]
<1>2. i \in job.todo /\ job.pc = "push"
  BY DEF SendInbound, JobAt
<1>3. row \in Row
  BY <1>2, PayloadsType, RowCases DEF Pushing
<1>4. rows \in [Inbounds -> Row]
  BY <1>3, RowUpdate DEF TypeInv, RowInv
<1> HIDE DEF rows
<1>5. JobInv'
  <2> DEFINE todo == job.todo \ {i}
  <2>1. \/ job' = [job EXCEPT !.pc = "record", !.cur = i, !.sent = row, !.todo = todo]
        \/ job' = [job EXCEPT !.todo = todo, !.failed = TRUE]
    BY <1>1
  <2>2. job \in JobType /\ todo \in SUBSET Inbounds /\ \A j \in todo : job.want[j] # None
    BY <1>2 DEF TypeInv, JobInv, JobType, Pushing
  <2> HIDE DEF todo
  <2>3. CASE job' = [job EXCEPT !.pc = "record", !.cur = i, !.sent = row, !.todo = todo]
    <3>1. job' \in JobType /\ job'.cur = i /\ job'.todo = todo /\ job'.want = job.want
      BY <1>3, <2>2, <2>3 DEF JobType
    <3> QED BY <2>2, <3>1 DEF JobInv
  <2>4. CASE job' = [job EXCEPT !.todo = todo, !.failed = TRUE]
    <3>1. /\ job' \in JobType /\ job'.pc = "push" /\ job'.todo = todo
          /\ job'.want = job.want
      BY <1>2, <2>2, <2>4 DEF JobType
    <3> QED BY <2>2, <3>1 DEF JobInv
  <2> QED BY <2>1, <2>3, <2>4
<1>6. node' \in [Inbounds -> Row] /\ faults' \in 0..MaxFaults
  <2>1. CASE Effect(rows) /\ UNCHANGED faults
    BY <1>4, <2>1, EffectType DEF TypeInv, CountInv
  <2>2. CASE UNCHANGED <<node, faults>>
    BY <2>2 DEF TypeInv, RowInv, CountInv
  <2>3. CASE Fails
    BY <2>3, FailsType
  <2>4. CASE Lost(rows)
    BY <1>4, <2>4, LostType
  <2> QED BY <1>1, <2>1, <2>2, <2>3, <2>4 DEF rows
<1> QED BY <1>5, <1>6, JobRequest DEF SendInbound, TypeInv, RowInv

LEMMA RecordInboundInv == ASSUME TypeInv, RecordInbound PROVE TypeInv'
<1>1. JobInv'
  <2>1. job' \in JobType /\ job'.pc = "push" /\ job'.todo = job.todo /\ job'.want = job.want
    BY RowCases DEF RecordInbound, JobType, JobInv, TypeInv
  <2> QED BY <2>1, JobKept DEF RecordInbound, JobAt, Pushing
<1>2. fp' \in [Inbounds -> Row]
  BY RowUpdate DEF RecordInbound, JobType, JobInv, TypeInv, RowInv
<1> QED BY <1>1, <1>2, JobRequest DEF RecordInbound, counts, TypeInv, RowInv, SetInv, CountInv, JobInv

LEMMA SweepInv ==
    ASSUME TypeInv, NEW i \in Inbounds, Sweep(i)
    PROVE  TypeInv'
<1> DEFINE rows == [node EXCEPT ![i] = None]
<1>1. rows \in [Inbounds -> Row] /\ [fp EXCEPT ![i] = None] \in [Inbounds -> Row]
  BY RowUpdate, RowCases DEF TypeInv, RowInv
<1>2. JobInv'
  <2>1. job.pc = "push" /\ job \in JobType
    BY DEF Sweep, JobAt, TypeInv, JobInv
  <2>2. job' \in JobType /\ job'.pc = "push" /\ job'.todo = job.todo /\ job'.want = job.want
    BY <2>1 DEF Sweep, JobType
  <2> QED BY <2>1, <2>2, JobKept DEF Pushing
<1>3. node' \in [Inbounds -> Row] /\ faults' \in 0..MaxFaults
  <2>1. CASE Effect(rows) /\ UNCHANGED faults
    BY <1>1, <2>1, EffectType DEF TypeInv, CountInv, JobInv
  <2>2. CASE Fails
    BY <2>2, FailsType
  <2>3. CASE Lost(rows)
    BY <1>1, <2>3, LostType
  <2> QED BY <2>1, <2>2, <2>3 DEF Sweep
<1>4. fp' \in [Inbounds -> Row]
  BY <1>1 DEF Sweep, TypeInv, RowInv
<1> QED BY <1>2, <1>3, <1>4, JobRequest DEF Sweep

LEMMA ClearDirtyInv == ASSUME TypeInv, ClearDirty PROVE TypeInv'
<1>1. JobInv'
  <2>1. job' \in JobType /\ job'.pc \notin Pushing
    BY DEF ClearDirty, JobType, JobInv, TypeInv, Pushing
  <2> QED BY <2>1, JobElse
<1>2. dirty' \in BOOLEAN
  <2>1. dirty' = dirty \/ dirty' = FALSE
    BY DEF ClearDirty
  <2> QED BY <2>1 DEF TypeInv, FlagInv
<1>3. EdInv' /\ RowInv'
  BY DEF ClearDirty, TypeInv, EdInv, Holds, GoodCall, RowInv
<1>4. FlagInv' /\ SetInv' /\ CountInv'
  BY <1>2 DEF ClearDirty, counts, TypeInv, FlagInv, SetInv, CountInv
<1> QED BY <1>1, <1>3, <1>4 DEF TypeInv

LEMMA FetchInv == ASSUME TypeInv, Fetch PROVE TypeInv'
<1>1. JobInv'
  <2>1. ASSUME NEW rows \in [Inbounds -> Row],
               job' = [job EXCEPT !.pc = "check", !.snap = rows]
        PROVE  JobInv'
    <3>1. job' \in JobType /\ job'.pc \notin Pushing
      BY <2>1 DEF TypeInv, JobInv, JobType, Pushing
    <3> QED BY <3>1, JobElse
  <2>2. CASE job' = IdleJob
    BY <2>2, IdleJobType, JobElse DEF Pushing
  <2>3. node \in [Inbounds -> Row] /\ [i \in Inbounds |-> None] \in [Inbounds -> Row]
    BY RowCases DEF TypeInv, RowInv
  <2> QED BY <2>1, <2>2, <2>3 DEF Fetch
<1>2. node' \in [Inbounds -> Row] /\ faults' \in 0..MaxFaults
  BY FailsType DEF Fetch, TypeInv, RowInv, SetInv, CountInv, JobInv
<1> QED BY <1>1, <1>2, JobRequest DEF Fetch, TypeInv, RowInv

LEMMA StripType == ASSUME NEW r \in Row, r # None PROVE Strip(r) \in Config
BY RowCases, ConfigParts DEF Strip

LEMMA MergeInv == ASSUME TypeInv, Merge PROVE TypeInv'
<1>1. \A i \in Inbounds : Merged(i) \in Row /\ Stamped(i) \in Row
  BY StripType, RowCases DEF Merged, Stamped, JobType, JobInv, TypeInv, RowInv
<1>2. central' \in [Inbounds -> Row] /\ imported' \subseteq Inbounds
  BY <1>1, RowsSubset DEF Merge, TypeInv, RowInv, SetInv
<1>3. JobInv'
  <2> DEFINE stamp == [i \in Inbounds |-> IF job.stale THEN None ELSE Stamped(i)]
  <2>1. stamp \in [Inbounds -> Row]
    BY <1>1, RowCases
  <2>2. job' = [job EXCEPT !.pc = "adopt", !.stamp = stamp] \/ job' = IdleJob
    BY DEF Merge
  <2>3. job \in JobType
    BY DEF TypeInv, JobInv
  <2> HIDE DEF stamp
  <2>4. CASE job' = [job EXCEPT !.pc = "adopt", !.stamp = stamp]
    <3>1. job' \in JobType /\ job'.pc \notin Pushing
      BY <2>1, <2>3, <2>4 DEF JobType, Pushing
    <3> QED BY <3>1, JobElse
  <2>5. CASE job' = IdleJob
    BY <2>5, IdleJobType, JobElse DEF Pushing
  <2> QED BY <2>2, <2>4, <2>5
<1>4. node' \in [Inbounds -> Row] /\ faults' \in 0..MaxFaults
  BY FailsType DEF Merge, TypeInv, RowInv, SetInv, CountInv, JobInv
<1> QED BY <1>2, <1>3, <1>4 DEF Merge, TypeInv, EdInv, Holds, GoodCall, RowInv,
                                FlagInv, SetInv, CountInv, JobInv

LEMMA RecordAdoptedInv == ASSUME TypeInv, RecordAdopted PROVE TypeInv'
<1>1. JobInv'
  <2>1. job' \in JobType /\ job'.pc \notin Pushing
    BY DEF RecordAdopted, JobType, JobInv, TypeInv, Pushing
  <2> QED BY <2>1, JobElse
<1>2. fp' \in [Inbounds -> Row]
  BY DEF RecordAdopted, JobType, JobInv, TypeInv, RowInv
<1> QED BY <1>1, <1>2, JobRequest DEF RecordAdopted, counts, TypeInv, RowInv, SetInv, CountInv, JobInv

LEMMA MarkAdoptedInv == ASSUME TypeInv, MarkAdopted PROVE TypeInv'
<1>1. JobInv' /\ adopted' \in BOOLEAN
  BY IdleJobType, JobElse DEF MarkAdopted, Pushing, TypeInv, FlagInv
<1> QED BY <1>1 DEF MarkAdopted, counts, TypeInv, EdInv, Holds, GoodCall, RowInv,
                    FlagInv, SetInv, CountInv, JobInv

LEMMA EnvironmentInv == ASSUME TypeInv, Environment PROVE TypeInv'
<1>1. ASSUME NEW i \in Inbounds, NEW row \in Row, EditOnNode(i, row)
      PROVE  TypeInv'
  <2>1. [node EXCEPT ![i] = row] \in [Inbounds -> Row]
    BY RowUpdate DEF TypeInv, RowInv
  <2>2. node' \in [Inbounds -> Row]
    BY <1>1, <2>1, EffectType DEF EditOnNode
  <2>3. locals' \in 0..MaxLocal
    BY <1>1, BoundAssumption DEF EditOnNode, TypeInv, CountInv, JobInv
  <2> QED BY <1>1, <2>2, <2>3 DEF EditOnNode, db, TypeInv, EdInv, Holds, GoodCall,
                                  RowInv, FlagInv, SetInv, CountInv, JobInv
<1>2. CASE Heartbeat
  <2>1. faults' \in 0..MaxFaults /\ online' \in BOOLEAN
    BY <1>2, BoundAssumption DEF Heartbeat, TypeInv, CountInv, JobInv
  <2> QED BY <1>2, <2>1 DEF Heartbeat, db, TypeInv, EdInv, Holds, GoodCall,
                            RowInv, FlagInv, SetInv, CountInv, JobInv
<1>3. ASSUME NEW c \in Clients, ExpireTomb(c)
      PROVE  TypeInv'
  BY <1>3 DEF ExpireTomb, db, counts, TypeInv, EdInv, Holds, GoodCall, RowInv,
              FlagInv, SetInv, CountInv, JobInv
<1> QED BY <1>1, <1>2, <1>3 DEF Environment

LEMMA SyncInv == ASSUME TypeInv, Sync PROVE TypeInv'
BY LocalSteps, CheckDirtyInv, ListTagsInv, SendInboundInv, RecordInboundInv, SweepInv, ClearDirtyInv,
   FetchInv, MergeInv, RecordAdoptedInv, MarkAdoptedInv DEF Sync

LEMMA InitTypeInv == Init => TypeInv
<1> SUFFICES ASSUME Init PROVE TypeInv
  OBVIOUS
<1>1. EdInv
  <2>1. \A e \in Editors : ed[e] = IdleCall
    BY DEF Init
  <2>2. \A i \in Inbounds, e \in Editors : lock[i] # e
    BY NoneAssumption DEF Init
  <2>3. /\ ed \in [Editors -> CallType]
        /\ lock \in [Inbounds -> Editors \cup {None}]
    BY IdleCallGood DEF Init
  <2> QED BY <2>1, <2>2, <2>3, IdleCallGood DEF EdInv
<1>2. RowInv
  <2>1. \A f \in Fields : [enable |-> TRUE, clients |-> Clients \X {f}] \in Config
    BY DEF Config, Entries
  <2> QED BY <2>1, RowCases DEF Init, RowInv
<1>3. CountInv /\ FlagInv /\ SetInv
  <2>1. CountInv
    BY BoundAssumption DEF Init, CountInv
  <2>2. FlagInv
    BY DEF Init, FlagInv
  <2>3. SetInv
    BY DEF Init, SetInv
  <2> QED BY <2>1, <2>2, <2>3
<1>4. JobInv
  BY IdleJobType DEF Init, JobInv, Pushing
<1> QED BY <1>1, <1>2, <1>3, <1>4 DEF TypeInv

LEMMA NextTypeInv == TypeInv /\ [Next]_vars => TypeInv'
<1> SUFFICES ASSUME TypeInv, [Next]_vars PROVE TypeInv'
  OBVIOUS
<1>1. ASSUME NEW e \in Editors, ClientEdit(e) \/ RowEdit(e) \/ Work(e)
      PROVE  TypeInv'
  BY <1>1, EditInv, WorkInv
<1>2. ASSUME NEW i \in Inbounds, NEW row \in Config, AddInbound(i, row)
      PROVE  TypeInv'
  BY <1>2, AddInboundInv
<1>3. ASSUME NEW fresh \in BOOLEAN, UpdateNode(fresh)
      PROVE  TypeInv'
  BY <1>3, UpdateNodeInv
<1>4. CASE Sync \/ Environment
  BY <1>4, SyncInv, EnvironmentInv
<1>5. CASE UNCHANGED vars
  BY <1>5 DEF vars, TypeInv, EdInv, Holds, GoodCall, RowInv, FlagInv, SetInv,
              CountInv, JobInv
<1> QED BY <1>1, <1>2, <1>3, <1>4, <1>5 DEF Next

(* Every variable keeps its type, and an inbound is locked by the client    *)
(* call that works on it and by no other (lockInbound, client_locks.go).     *)
THEOREM TypeCorrect == Spec => []TypeOK
<1>1. Spec => []TypeInv
  BY InitTypeInv, NextTypeInv, PTL DEF Spec
<1> QED BY <1>1, TypeInvTypeOK, PTL

-----------------------------------------------------------------------------
(* Clearing the flag.                                                        *)

(* As long as no edit was marked since the tick loaded the stamp, the rows   *)
(* that the reconcile read are still the panel's, but for those that were    *)
(* added disabled.                                                           *)
Wanted(i) == \/ job.want[i] = central[i]
             \/ job.want[i] = None /\ central[i] # None /\ ~central[i].enable
WantInv ==
    /\ job.at <= dirtyAt
    /\ job.pc \in {"list", "push", "record"} /\ job.at = dirtyAt =>
          \A i \in Inbounds : Wanted(i)

LEMMA WantUnchanged ==
    ASSUME WantInv, UNCHANGED <<central, dirtyAt, job>>
    PROVE  WantInv'
BY DEF WantInv, Wanted

LEMMA WantMarked ==
    ASSUME TypeInv, WantInv, MarkNodeDirty, job' = job
    PROVE  WantInv'
BY DEF WantInv, MarkNodeDirty, TypeInv, CountInv, JobInv, JobType

LEMMA WantAddInbound ==
    ASSUME TypeInv, WantInv, NEW i \in Inbounds, NEW row \in Config, AddInbound(i, row)
    PROVE  WantInv'
<1>1. CASE row.enable
  BY <1>1, WantMarked DEF AddInbound
<1>2. CASE ~row.enable
  <2>1. \A j \in Inbounds : central'[j] = IF j = i THEN row ELSE central[j]
    BY DEF AddInbound, TypeInv, RowInv
  <2>2. row # None
    BY ConfigParts
  <2>3. \A j \in Inbounds : Wanted(j) => Wanted(j)'
    BY <1>2, <2>1, <2>2 DEF Wanted, AddInbound
  <2> QED BY <1>2, <2>3 DEF WantInv, AddInbound
<1> QED BY <1>1, <1>2

LEMMA WantSync == ASSUME TypeInv, WantInv, Sync PROVE WantInv'
<1>1. job \in JobType /\ dirtyAt \in Nat
  BY DEF TypeInv, JobInv, CountInv
<1>2. CASE Tick
  BY <1>1, <1>2 DEF Tick, db, IdleJob, WantInv
<1>3. CASE ReadCentral
  BY <1>1, <1>3 DEF ReadCentral, db, WantInv, Wanted, JobType
<1>4. CASE ListTags
  BY ZenonT(60), <1>1, <1>4 DEF ListTags, JobAt, db, WantInv, Wanted, JobType
<1>5. ASSUME NEW i \in Inbounds, SkipInbound(i) \/ SendInbound(i) \/ Sweep(i)
      PROVE  WantInv'
  <2>1. /\ job.pc = "push" /\ UNCHANGED <<central, dirtyAt>>
        /\ job'.at = job.at /\ job'.want = job.want
    BY <1>1, <1>5 DEF SkipInbound, SendInbound, Sweep, JobAt, db, JobType
  <2> QED BY <2>1 DEF WantInv, Wanted
<1>6. CASE RecordInbound
  BY <1>1, <1>6 DEF RecordInbound, JobAt, db, WantInv, Wanted, JobType
<1>7. ASSUME job'.pc \notin {"list", "push", "record"}, job'.at \in {job.at, 0},
             dirtyAt' = dirtyAt
      PROVE  WantInv'
  BY <1>1, <1>7 DEF WantInv, JobType
<1>8. CASE ClearDirty \/ Fetch \/ CheckDirty \/ Merge \/ RecordAdopted \/ MarkAdopted
  <2>1. CASE job' = IdleJob
    BY <1>1, <2>1, <1>7, <1>8 DEF ClearDirty, Fetch, CheckDirty, Merge, RecordAdopted,
                                  MarkAdopted, db, IdleJob
  <2>2. CASE Fetch /\ job' # IdleJob
    BY <1>1, <2>2, <1>7 DEF Fetch, db, JobType
  <2>3. CASE Merge /\ job' # IdleJob
    BY <1>1, <2>3, <1>7 DEF Merge, JobType
  <2>4. CASE ClearDirty \/ CheckDirty \/ RecordAdopted
    BY <1>1, <2>4, <1>7 DEF ClearDirty, CheckDirty, RecordAdopted, db, JobType
  <2> QED BY <1>8, <2>1, <2>2, <2>3, <2>4 DEF MarkAdopted
<1> QED BY <1>2, <1>3, <1>4, <1>5, <1>6, <1>8 DEF Sync

LEMMA NextWantInv == TypeInv /\ WantInv /\ [Next]_vars => WantInv'
<1> SUFFICES ASSUME TypeInv, WantInv, [Next]_vars PROVE WantInv'
  OBVIOUS
<1>1. ASSUME NEW e \in Editors, ClientEdit(e) \/ RowEdit(e)
      PROVE  WantInv'
  BY ZenonT(60), <1>1, WantUnchanged DEF ClientEdit, RowEdit, AddClients, Detach, UpdateClient,
       Delete, ChangeInbound, CallUnchanged, db
<1>2. ASSUME NEW e \in Editors, Work(e)
      PROVE  WantInv'
  <2>1. CASE \E i \in Inbounds : NextInbound(e, i)
    BY <2>1, WantUnchanged DEF NextInbound, CallUnchanged, db
  <2>2. CASE Commit(e)
    <3>1. MarkNodeDirty \/ UNCHANGED <<central, dirtyAt>>
      BY <2>2 DEF Commit
    <3> QED BY <2>2, <3>1, WantUnchanged, WantMarked DEF Commit
  <2>3. CASE (\E c \in Clients : PushClient(e, c)) \/ PushRow(e) \/ EndPush(e)
    BY <2>3, WantUnchanged DEF PushClient, PushRow, EndPush, db
  <2> QED BY <1>2, <2>1, <2>2, <2>3 DEF Work
<1>3. ASSUME NEW i \in Inbounds, NEW row \in Config, AddInbound(i, row)
      PROVE  WantInv'
  BY <1>3, WantAddInbound
<1>4. ASSUME NEW fresh \in BOOLEAN, UpdateNode(fresh)
      PROVE  WantInv'
  BY <1>4, WantMarked, WantUnchanged DEF UpdateNode
<1>5. CASE Environment
  BY <1>5, WantUnchanged DEF Environment, EditOnNode, Heartbeat, ExpireTomb, db
<1>6. CASE UNCHANGED vars
  BY <1>6, WantUnchanged DEF vars
<1> QED BY <1>1, <1>2, <1>3, <1>4, <1>5, <1>6, WantSync DEF Next

(* No step but ClearDirty takes the flag back.                               *)
LEMMA OnlyClearDirty ==
    ASSUME [Next]_vars, dirty, ~dirty' PROVE ClearDirty
<1>1. ASSUME NEW e \in Editors, ClientEdit(e) \/ RowEdit(e) \/ Work(e)
      PROVE  FALSE
  BY ZenonT(60), <1>1 DEF ClientEdit, RowEdit, AddClients, Detach, UpdateClient, Delete,
       ChangeInbound, CallUnchanged, db, Work, NextInbound, Commit, PushClient, PushRow,
       EndPush, MarkNodeDirty
<1>2. ASSUME NEW i \in Inbounds, NEW row \in Config, AddInbound(i, row)
      PROVE  FALSE
  BY <1>2 DEF AddInbound, MarkNodeDirty
<1>3. ASSUME NEW fresh \in BOOLEAN, UpdateNode(fresh)
      PROVE  FALSE
  BY <1>3 DEF UpdateNode, MarkNodeDirty
<1>4. CASE Environment
  BY <1>4 DEF Environment, EditOnNode, Heartbeat, ExpireTomb, db
<1>5. CASE Sync
  BY <1>5 DEF Sync, Tick, ReadCentral, ListTags, SkipInbound, SendInbound, Sweep,
       RecordInbound, Fetch, CheckDirty, Merge, RecordAdopted, MarkAdopted, db
<1> QED BY <1>1, <1>2, <1>3, <1>4, <1>5 DEF Next, vars

(* The reconcile that clears the dirty flag has read the rows of every edit  *)
(* that was marked before: the compare-and-swap on config_dirty_at is enough *)
(* (ClearNodeDirty, node.go).                                                *)
THEOREM ClearCoversHolds == Spec => ClearCovers
<1>1. Init => WantInv
  BY DEF Init, WantInv, IdleJob
<1>2. TypeInv /\ WantInv /\ [Next]_vars =>
         (dirty /\ ~dirty' =>
            \A i \in Inbounds : \/ job.want[i] = central[i]
                                \/ job.want[i] = None /\ ~central[i].enable)
  <2> SUFFICES ASSUME TypeInv, WantInv, [Next]_vars, dirty, ~dirty'
               PROVE  \A i \in Inbounds : Wanted(i)
    BY DEF Wanted
  <2>1. ClearDirty
    BY OnlyClearDirty
  <2>2. job.pc = "push" /\ job.at = dirtyAt
    BY <2>1 DEF ClearDirty, Reconciled, JobAt
  <2> QED BY <2>2 DEF WantInv
<1> QED BY <1>1, <1>2, InitTypeInv, NextTypeInv, NextWantInv, PTL DEF Spec, ClearCovers

-----------------------------------------------------------------------------
(* The first adoption.                                                       *)

(* An inbound that the panel, a call or the reconcile knows once had a row   *)
(* here.  Nothing else puts an inbound on the node, so what a snapshot does  *)
(* not name, or what is there after the first merge, is known here as well.  *)
Known(f) == Rows(f) \subseteq imported
OwnInv ==
    /\ Known(central)
    /\ \A e \in Editors : ed[e].i # None => ed[e].i \in imported
    /\ Known(job.want) /\ job.todo \subseteq imported
    /\ job.pc \in {"check", "merge"} => Rows(node) \subseteq Rows(job.snap) \cup imported
    /\ job.pc \in {"adopt", "mark"} /\ ~job.stale => Known(node)
    /\ adopted \/ job.adopted => Known(node)

(* What the requests of calls and of the reconcile may do to the node.       *)
Tame == Rows(node') \subseteq Rows(node) \cup imported /\ imported \subseteq imported'

LEMMA RowsExcept ==
    ASSUME NEW f \in [Inbounds -> Row], NEW i \in Inbounds, NEW r
    PROVE  /\ Rows([f EXCEPT ![i] = r]) \subseteq Rows(f) \cup {i}
           /\ Rows([f EXCEPT ![i] = None]) \subseteq Rows(f)
BY DEF Rows

LEMMA RequestedRows ==
    ASSUME TypeInv, NEW e \in Editors, ed[e].pc = "push", NEW c \in Clients,
           Possible(ed[e], c)
    PROVE  Rows(Requested(ed[e], c)) \subseteq Rows(node)
<1> DEFINE a == ed[e]
<1>1. node \in [Inbounds -> Row] /\ a.i \in Inbounds
  BY DEF TypeInv, RowInv, EdInv, GoodCall, Working
<1>2. CASE a.op \in {"delete", "bulkDelete"}
  BY <1>1, <1>2 DEF Requested, Rows
<1>3. CASE a.op \notin {"delete", "bulkDelete"}
  <2>1. node[a.i] # None
    BY <1>3 DEF Possible
  <2>2. \A j \in Inbounds \ {a.i} : Requested(a, c)[j] = node[j]
    BY <1>1, <1>3 DEF Requested
  <2> QED BY <1>1, <2>1, <2>2 DEF Rows
<1> QED BY <1>2, <1>3

LEMMA WorkTame ==
    ASSUME TypeInv, OwnInv, NEW e \in Editors, Work(e)
    PROVE  Tame
<1>1. node' = node /\ imported' = imported => Tame
  BY DEF Tame, Rows
<1>2. CASE (\E i \in Inbounds : NextInbound(e, i)) \/ Commit(e) \/ EndPush(e)
  BY <1>1, <1>2 DEF NextInbound, CallUnchanged, Commit, EndPush, Fails
<1>3. ASSUME NEW c \in Clients, PushClient(e, c)
      PROVE  Tame
  <2>1. \/ node' = node
        \/ Possible(ed[e], c) /\ node' = Requested(ed[e], c)
    BY <1>3 DEF PushClient, Fails, Effect, Lost
  <2>2. imported' = imported /\ ed[e].pc = "push"
    BY <1>3 DEF PushClient
  <2> QED BY <1>1, <2>1, <2>2, RequestedRows DEF Tame
<1>4. CASE PushRow(e)
  <2>1. /\ node' \in {node, [node EXCEPT ![ed[e].i] = ed[e].new]}
        /\ imported' = imported /\ ed[e].pc = "push"
    BY <1>4 DEF PushRow, Fails, Effect, Lost
  <2>2. ed[e].i \in Inbounds /\ ed[e].i \in imported
    BY <2>1, NoneAssumption DEF TypeInv, EdInv, GoodCall, Working, OwnInv
  <2>3. node \in [Inbounds -> Row]
    BY DEF TypeInv, RowInv
  <2>4. Rows([node EXCEPT ![ed[e].i] = ed[e].new]) \subseteq Rows(node) \cup {ed[e].i}
    BY ZenonT(60), <2>2, <2>3, RowsExcept
  <2>5. CASE node' = [node EXCEPT ![ed[e].i] = ed[e].new]
    BY <2>1, <2>2, <2>4, <2>5 DEF Tame
  <2> QED BY <1>1, <2>1, <2>5
<1> QED BY <1>2, <1>3, <1>4 DEF Work

LEMMA SyncTame == ASSUME TypeInv, OwnInv, Sync PROVE Tame
<1>1. node' = node /\ imported \subseteq imported' => Tame
  BY DEF Tame, Rows
<1>2. node \in [Inbounds -> Row]
  BY DEF TypeInv, RowInv
<1>3. ASSUME NEW i \in Inbounds, SendInbound(i)
      PROVE  Tame
  <2>1. PICK row : /\ node' \in {node, [node EXCEPT ![i] = row]}
                   /\ imported' = imported
    BY <1>3 DEF SendInbound, Fails, Effect, Lost
  <2>2. i \in imported
    BY <1>3 DEF SendInbound, OwnInv
  <2>3. Rows([node EXCEPT ![i] = row]) \subseteq Rows(node) \cup {i}
    BY ZenonT(60), <1>2, RowsExcept
  <2>4. CASE node' = [node EXCEPT ![i] = row]
    BY <2>1, <2>2, <2>3, <2>4 DEF Tame
  <2> QED BY <1>1, <2>1, <2>4
<1>4. ASSUME NEW i \in Inbounds, Sweep(i)
      PROVE  Tame
  <2>1. node' \in {node, [node EXCEPT ![i] = None]} /\ imported' = imported
    BY <1>4 DEF Sweep, Fails, Effect, Lost
  <2> QED BY <1>1, <1>2, <2>1, RowsExcept DEF Tame
<1>5. CASE \/ Tick \/ ReadCentral \/ ListTags \/ \E i \in Inbounds : SkipInbound(i)
           \/ RecordInbound \/ ClearDirty \/ Fetch \/ CheckDirty \/ RecordAdopted
           \/ MarkAdopted
  BY <1>1, <1>5 DEF Tick, ReadCentral, ListTags, SkipInbound, RecordInbound, ClearDirty,
                    Fetch, CheckDirty, RecordAdopted, MarkAdopted, Fails
<1>6. CASE Merge
  BY <1>1, <1>6 DEF Merge, Fails
<1> QED BY <1>3, <1>4, <1>5, <1>6 DEF Sync

(* The tick's own steps.                                                     *)
LEMMA OwnTame ==
    ASSUME OwnInv, Tame, job' = job, adopted' = adopted, Known(central)',
           \A e \in Editors : ed'[e].i # None => ed'[e].i \in imported'
    PROVE  OwnInv'
BY DEF OwnInv, Tame, Known, Rows

LEMMA MergedRows ==
    ASSUME TypeInv, Rows(job.snap) # {}
    PROVE  Rows(job.snap) \subseteq Rows([i \in Inbounds |-> Merged(i)])
<1>1. ASSUME NEW i \in Inbounds, job.snap[i] # None
      PROVE  Merged(i) # None
  <2>1. job.snap[i] \in Row
    BY DEF TypeInv, JobInv, JobType
  <2>2. Strip(job.snap[i]) # None
    BY <1>1, <2>1, StripType, ConfigParts
  <2> QED BY <1>1, <2>2 DEF Merged
<1> QED BY <1>1 DEF Rows

LEMMA OwnSync ==
    ASSUME TypeInv, OwnInv, Blips = FALSE, Sync
    PROVE  OwnInv'
<1> DEFINE CallsOwn == \A e \in Editors : ed[e].i # None => ed[e].i \in imported
<1>1. Tame /\ job \in JobType
  BY SyncTame DEF TypeInv, JobInv
<1>2. Known(IdleJob.want) /\ IdleJob.todo = {} /\ IdleJob.pc = "idle" /\ ~IdleJob.adopted
  BY DEF IdleJob, Known, Rows
<1>3. CallsOwn'
  <2>1. ed' = ed
    BY DEF Sync, Tick, ReadCentral, ListTags, SkipInbound, SendInbound, Sweep,
           RecordInbound, ClearDirty, Fetch, CheckDirty, Merge, RecordAdopted, MarkAdopted
  <2> QED BY <1>1, <2>1 DEF OwnInv, Tame
(* A step that leaves the panel's rows alone, by what it does to the tick.   *)
<1>4. ASSUME UNCHANGED <<central, adopted, imported>>, 
             Rows(node') \subseteq Rows(node) \cup imported,
             job'.adopted => adopted \/ job.adopted,
             job'.want \in {job.want, central, IdleJob.want},
             job'.todo \subseteq job.todo \cup Rows(job.want),
             \/ job'.pc \notin {"check", "merge", "adopt", "mark"}
             \/ job'.pc = "check" /\ job'.snap = node /\ node' = node
             \/ job'.pc = "merge" /\ job.pc = "check" /\ job'.snap = job.snap
             \/ job'.pc = "mark" /\ job.pc = "adopt" /\ job'.stale = job.stale
      PROVE  OwnInv'
  <2>1. Known(central)' /\ Known(job.want)'
    BY <1>2, <1>4 DEF OwnInv, Known, Rows
  <2>2. job'.todo \subseteq imported'
    BY <1>4 DEF OwnInv, Known
  <2>3. adopted' \/ job'.adopted => Known(node)'
    BY <1>4 DEF OwnInv, Known, Rows
  <2>4. job'.pc \in {"check", "merge"} => Rows(node') \subseteq Rows(job'.snap) \cup imported'
    BY <1>4 DEF OwnInv
  <2>5. job'.pc \in {"adopt", "mark"} /\ ~job'.stale => Known(node)'
    BY <1>4 DEF OwnInv, Known, Rows
  <2> QED BY <1>3, <2>1, <2>2, <2>3, <2>4, <2>5 DEF OwnInv, Known, Rows
<1>5. CASE Tick \/ ReadCentral \/ CheckDirty
  <2>1. CASE Tick
    <3>1. /\ job'.pc \in {"read", "fetch"} /\ job'.want = IdleJob.want
          /\ job'.todo = {} /\ job'.adopted = adopted
      BY <2>1 DEF Tick, IdleJob
    <3>2. UNCHANGED <<central, adopted, imported, node>>
      BY <2>1 DEF Tick, db
    <3> QED BY <1>1, <1>4, <3>1, <3>2 DEF Tame
  <2>2. CASE ReadCentral \/ CheckDirty
    BY ZenonT(60), <1>1, <1>4, <2>2 DEF ReadCentral, CheckDirty, JobAt, db, JobType, Tame
  <2> QED BY <1>5, <2>1, <2>2
<1>6. CASE ListTags
  BY <1>1, <1>2, <1>4, <1>6 DEF ListTags, JobAt, db, JobType, Tame
<1>7. ASSUME NEW i \in Inbounds, SkipInbound(i) \/ SendInbound(i) \/ Sweep(i)
      PROVE  OwnInv'
  BY ZenonT(60), <1>1, <1>2, <1>4, <1>7 DEF SkipInbound, SendInbound, Sweep, JobAt, db, JobType, Tame
<1>8. CASE RecordInbound \/ RecordAdopted
  BY <1>1, <1>2, <1>4, <1>8 DEF RecordInbound, RecordAdopted, JobAt, db, JobType, Tame
<1>9. CASE ClearDirty
  BY <1>1, <1>2, <1>4, <1>9 DEF ClearDirty, Reconciled, JobAt, JobType, Tame
<1>10. CASE Fetch
  <2>1. CASE job' = [job EXCEPT !.pc = "check", !.snap = node] /\ node' = node
    BY <1>1, <1>4, <1>10, <2>1 DEF Fetch, db, JobType, Tame
  <2>2. CASE job' = IdleJob
    BY <1>1, <1>2, <1>4, <1>10, <2>2 DEF Fetch, db, Tame
  <2> QED BY <1>10, <2>1, <2>2 DEF Fetch
<1>11. CASE Merge
  <2>1. CASE job' = IdleJob
    BY <1>1, <1>2, <1>3, <1>11, <2>1 DEF Merge, OwnInv, Tame, Known, Rows
  <2>2. CASE job' # IdleJob
    <3>1. /\ job.pc = "merge" /\ node' = node /\ adopted' = adopted
          /\ central' = IF job.stale THEN central ELSE [i \in Inbounds |-> Merged(i)]
          /\ imported' = imported \cup Rows(central')
      BY <1>11, <2>2 DEF Merge, JobAt
    <3>2. /\ job'.pc = "adopt" /\ job'.stale = job.stale /\ job'.adopted = job.adopted
          /\ job'.want = job.want /\ job'.todo = job.todo
      BY <1>1, <1>11, <2>2 DEF Merge, JobType
    <3>3. ~job.stale => Known(node)'
      <4>1. CASE Rows(job.snap) = {}
        BY <3>1, <4>1 DEF OwnInv, Known, Rows
      <4>2. CASE Rows(job.snap) # {} /\ ~job.stale
        <5>1. Rows(job.snap) \subseteq Rows(central')
          BY <3>1, <4>2, MergedRows
        <5>2. Rows(node) \subseteq imported'
          BY <3>1, <5>1 DEF OwnInv
        <5> QED BY <3>1, <5>2 DEF Known, Rows
      <4> QED BY <4>1, <4>2
    <3>4. Known(central)' /\ Known(job.want)' /\ job'.todo \subseteq imported'
      BY <3>1, <3>2 DEF OwnInv, Known, Rows
    <3>5. adopted' \/ job'.adopted => Known(node)'
      BY <3>1, <3>2 DEF OwnInv, Known, Rows
    <3> QED BY <1>3, <3>2, <3>3, <3>4, <3>5 DEF OwnInv, Known, Rows
  <2> QED BY <2>1, <2>2
<1>12. CASE MarkAdopted
  <2>1. /\ job.pc = "mark" /\ job' = IdleJob /\ UNCHANGED <<central, node, imported>>
        /\ adopted' = (adopted \/ ~job.stale)
    BY <1>12 DEF MarkAdopted, JobAt
  <2>2. adopted' => Known(node)'
    BY <2>1 DEF OwnInv, Known, Rows
  <2>3. Known(central)' /\ Known(job.want)' /\ job'.todo \subseteq imported'
    BY <1>2, <2>1 DEF OwnInv, Known, Rows
  <2>4. job'.pc = "idle" /\ ~job'.adopted
    BY <1>2, <2>1
  <2>5. adopted' \/ job'.adopted => Known(node)'
    BY <2>2, <2>4
  <2> QED BY <1>3, <2>3, <2>4, <2>5 DEF OwnInv, Known
<1> QED BY <1>5, <1>6, <1>7, <1>8, <1>9, <1>10, <1>11, <1>12 DEF Sync

(* A call that starts or goes on works on an inbound that has a row.         *)
LEMMA EditPlaces ==
    ASSUME TypeInv, NEW e \in Editors, ClientEdit(e) \/ RowEdit(e)
    PROVE  \A f \in Editors : ed'[f].i \in {None, ed[f].i} \cup Rows(central)
<1>1. ASSUME NEW op, NEW i \in Inbounds, NEW new, NEW push, NEW rest,
             Begin(e, 1, CallOn(op, i, new, push, rest)), central[i] # None
      PROVE  \A f \in Editors : ed'[f].i \in {None, ed[f].i} \cup Rows(central)
  <2>1. \A f \in Editors : ed'[f] = IF f = e THEN CallOn(op, i, new, push, rest) ELSE ed[f]
    BY <1>1 DEF Begin, TypeInv, EdInv
  <2>2. CallOn(op, i, new, push, rest).i = i /\ i \in Rows(central)
    BY <1>1 DEF CallOn, Rows
  <2> QED BY <2>1, <2>2
<1>2. ASSUME NEW i \in Inbounds, NEW cs \in SUBSET Clients,
             Detach(e, "remove", i, cs) \/ Detach(e, "detach", i, cs)
      PROVE  \A f \in Editors : ed'[f].i \in {None, ed[f].i} \cup Rows(central)
  BY <1>1, <1>2 DEF Detach, Lock
<1>6. ASSUME NEW i \in Inbounds, NEW xs \in SUBSET Entries, AddClients(e, i, xs)
      PROVE  \A f \in Editors : ed'[f].i \in {None, ed[f].i} \cup Rows(central)
  BY <1>1, <1>6 DEF AddClients, Lock
<1>3. ASSUME NEW i \in Inbounds, NEW x \in Entries, NEW y \in Entries,
             UpdateClient(e, "update", i, x, y) \/ UpdateClient(e, "bulkAdjust", i, x, y)
      PROVE  \A f \in Editors : ed'[f].i \in {None, ed[f].i} \cup Rows(central)
  BY <1>1, <1>3 DEF UpdateClient, Lock
<1>4. ASSUME NEW cs \in SUBSET Clients, NEW op, Delete(e, op, cs)
      PROVE  \A f \in Editors : ed'[f].i \in {None, ed[f].i} \cup Rows(central)
  BY <1>4 DEF Delete, Begin, IdleCall, TypeInv, EdInv
<1>5. ASSUME NEW i \in Inbounds, NEW new \in Row, NEW op, ChangeInbound(e, op, i, new)
      PROVE  \A f \in Editors : ed'[f].i \in {None, ed[f].i} \cup Rows(central)
  BY <1>1, <1>5 DEF ChangeInbound
<1> QED BY <1>2, <1>3, <1>4, <1>5, <1>6 DEF ClientEdit, RowEdit

LEMMA WorkPlaces ==
    ASSUME TypeInv, NEW e \in Editors, Work(e)
    PROVE  \A f \in Editors : ed'[f].i \in {None, ed[f].i} \cup Rows(central)
<1> DEFINE Placed == \A f \in Editors : ed'[f].i \in {None, ed[f].i} \cup Rows(central)
<1>1. ed \in [Editors -> CallType] /\ ed[e] \in CallType
  BY DEF TypeInv, EdInv
<1>2. ASSUME NEW a, ed' = [ed EXCEPT ![e] = a], a.i \in {None, ed[e].i} \cup Rows(central)
      PROVE  Placed
  <2>1. \A f \in Editors : ed'[f] = IF f = e THEN a ELSE ed[f]
    BY <1>1, <1>2
  <2> QED BY <1>2, <2>1
<1>3. CASE Leave(e)
  BY <1>1, <1>2, <1>3 DEF Leave, IdleCall, CallType
<1>4. ASSUME NEW i \in Inbounds, NextInbound(e, i)
      PROVE  Placed
  <2>1. CASE i \in Homes(ed[e].who)
    BY <1>2, <1>4, <2>1 DEF NextInbound, CallOn, Homes
  <2>2. CASE i \notin Homes(ed[e].who)
    BY <1>1, <1>2, <1>4, <2>2 DEF NextInbound, CallType, IdleCall
  <2> QED BY <2>1, <2>2
<1>5. CASE Commit(e) \/ EndPush(e)
  BY <1>1, <1>3, <1>5 DEF Commit, EndPush, CallType
<1>6. ASSUME NEW c, NEW ok, ed' = [ed EXCEPT ![e] = Sent(ed[e], c, ok)]
      PROVE  Placed
  BY <1>1, <1>2, <1>6 DEF Sent, CallType
<1>7. CASE (\E c \in Clients : PushClient(e, c)) \/ PushRow(e)
  BY <1>6, <1>7 DEF PushClient, PushRow
<1> QED BY <1>4, <1>5, <1>7 DEF Work

LEMMA NextOwnInv ==
    ASSUME Blips = FALSE, MaxLocal = 0
    PROVE  TypeInv /\ OwnInv /\ [Next]_vars => OwnInv'
<1> SUFFICES ASSUME TypeInv, OwnInv, [Next]_vars PROVE OwnInv'
  OBVIOUS
<1>1. node' = node /\ imported \subseteq imported' => Tame
  BY DEF Tame, Rows
<1>2. (\A f \in Editors : ed'[f].i \in {None, ed[f].i} \cup Rows(central))
         /\ imported \subseteq imported'
      => \A f \in Editors : ed'[f].i # None => ed'[f].i \in imported'
  BY DEF OwnInv, Known
<1>3. ASSUME NEW e \in Editors, ClientEdit(e) \/ RowEdit(e)
      PROVE  OwnInv'
  <2>1. CallUnchanged
    BY <1>3 DEF ClientEdit, RowEdit, AddClients, Detach, UpdateClient, Delete, ChangeInbound
  <2>2. Known(central)'
    BY <2>1 DEF OwnInv, Known, CallUnchanged, db, Rows
  <2> QED BY <1>1, <1>2, <1>3, <2>1, <2>2, EditPlaces, OwnTame DEF CallUnchanged, db
<1>4. ASSUME NEW e \in Editors, Work(e)
      PROVE  OwnInv'
  <2>1. UNCHANGED <<job, adopted, imported>>
    BY <1>4 DEF Work, NextInbound, CallUnchanged, Commit, PushClient, PushRow, EndPush, db
  <2>2. Known(central)'
    <3>1. CASE Commit(e)
      <4>1. central' = [central EXCEPT ![ed[e].i] = Committed(ed[e])] \/ central' = central
        BY <3>1 DEF Commit
      <4>2. ed[e].i \in Inbounds /\ ed[e].i \in imported /\ central \in [Inbounds -> Row]
        BY <3>1, NoneAssumption DEF Commit, TypeInv, EdInv, RowInv, GoodCall, Working, OwnInv
      <4>3. Rows([central EXCEPT ![ed[e].i] = Committed(ed[e])])
                \subseteq Rows(central) \cup {ed[e].i}
        BY <4>2, RowsExcept
      <4> QED BY <2>1, <4>1, <4>2, <4>3 DEF OwnInv, Known, Rows
    <3>2. CASE central' = central
      BY <2>1, <3>2 DEF OwnInv, Known, Rows
    <3> QED BY <1>4, <3>1, <3>2 DEF Work, NextInbound, CallUnchanged, PushClient, PushRow,
                                    EndPush, db
  <2> QED BY <1>2, <1>4, <2>1, <2>2, WorkPlaces, WorkTame, OwnTame
<1>5. ASSUME NEW i \in Inbounds, NEW row \in Config, AddInbound(i, row)
      PROVE  OwnInv'
  <2>1. central \in [Inbounds -> Row]
    BY DEF TypeInv, RowInv
  <2>2. Known(central)'
    BY <1>5, <2>1 DEF AddInbound, OwnInv, Known, Rows
  <2>3. /\ UNCHANGED <<job, adopted, node, ed>>
        /\ imported' = imported \cup {i}
    BY <1>5 DEF AddInbound
  <2>4. \A f \in Editors : ed'[f].i # None => ed'[f].i \in imported'
    BY <2>3 DEF OwnInv
  <2> QED BY <1>1, <2>2, <2>3, <2>4, OwnTame
<1>6. ASSUME NEW fresh \in BOOLEAN, UpdateNode(fresh)
      PROVE  OwnInv'
  <2>1. UNCHANGED <<job, adopted, ed, central, imported>>
    BY <1>6 DEF UpdateNode
  <2>2. Tame
    BY <1>6 DEF UpdateNode, Tame, Rows
  <2>3. Known(central)' /\ \A f \in Editors : ed'[f].i # None => ed'[f].i \in imported'
    BY <2>1 DEF OwnInv, Known, Rows
  <2> QED BY <2>1, <2>2, <2>3, OwnTame
<1>7. CASE Environment \/ UNCHANGED vars
  <2>1. ~(\E i \in Inbounds, row \in Row : EditOnNode(i, row))
    BY DEF EditOnNode, TypeInv, CountInv
  <2>2. UNCHANGED <<job, adopted, ed, central, node, imported>>
    BY <1>7, <2>1 DEF Environment, Heartbeat, ExpireTomb, db, vars
  <2>3. Known(central)' /\ \A f \in Editors : ed'[f].i # None => ed'[f].i \in imported'
    BY <2>2 DEF OwnInv, Known, Rows
  <2> QED BY <1>1, <2>2, <2>3, OwnTame
<1> QED BY <1>3, <1>4, <1>5, <1>6, <1>7, OwnSync DEF Next

(* A node that was just added keeps what it has until its own inbounds were  *)
(* adopted (ReconcileNode's sweep waits for inbounds_adopted_at), when the   *)
(* node answers with all of its inbounds and only the panel edits it.        *)
THEOREM OnboardingHolds ==
    ASSUME Blips = FALSE, MaxLocal = 0
    PROVE  Spec => OnboardingSafe
<1>1. Init => OwnInv
  BY DEF Init, OwnInv, IdleJob, IdleCall, Known, Rows
<1>2. TypeInv /\ OwnInv /\ [Next]_vars =>
         \A i \in Inbounds :
            /\ JobAt("push") /\ job'.tags = job.tags \ {i} /\ job.tags # job'.tags
            /\ node[i] # None /\ node'[i] = None
            => i \in imported
  <2> SUFFICES ASSUME TypeInv, OwnInv, [Next]_vars, NEW i \in Inbounds,
                      JobAt("push"), job.tags # job'.tags, node[i] # None
               PROVE  i \in imported
    OBVIOUS
  <2>1. job \in JobType
    BY DEF TypeInv, JobInv
  <2>2. job' # job
    OBVIOUS
  <2>3. Sync
    <3>1. ASSUME NEW e \in Editors, ClientEdit(e) \/ RowEdit(e)
          PROVE  job' = job
      BY ZenonT(60), <3>1 DEF ClientEdit, RowEdit, AddClients, Detach, UpdateClient, Delete,
           ChangeInbound, CallUnchanged
    <3>2. ASSUME NEW e \in Editors, Work(e)
          PROVE  job' = job
      BY <3>2 DEF Work, NextInbound, CallUnchanged, Commit, PushClient, PushRow, EndPush
    <3>3. ASSUME NEW j \in Inbounds, NEW row \in Config, AddInbound(j, row)
          PROVE  job' = job
      BY <3>3 DEF AddInbound
    <3>4. ASSUME NEW fresh \in BOOLEAN, UpdateNode(fresh)
          PROVE  job' = job
      BY <3>4 DEF UpdateNode
    <3>5. CASE Environment \/ UNCHANGED vars
      BY <3>5 DEF Environment, EditOnNode, Heartbeat, ExpireTomb, vars
    <3> QED BY <2>2, <3>1, <3>2, <3>3, <3>4, <3>5 DEF Next
  <2>4. \E j \in Inbounds : Sweep(j)
    BY <2>1, <2>3 DEF Sync, Tick, ReadCentral, ListTags, SkipInbound, SendInbound,
         RecordInbound, ClearDirty, Fetch, CheckDirty, Merge, RecordAdopted, MarkAdopted,
         JobAt, JobType
  <2>5. job.adopted
    BY <2>4 DEF Sweep
  <2> QED BY <2>5 DEF OwnInv, Known, Rows
<1> QED BY <1>1, <1>2, InitTypeInv, NextTypeInv, NextOwnInv, PTL DEF Spec, OnboardingSafe
=============================================================================
