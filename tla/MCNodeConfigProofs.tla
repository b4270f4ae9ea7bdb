------------------------- MODULE MCNodeConfigProofs --------------------------
(***************************************************************************)
(* Theorems about the specifications of MCNodeConfig, which bar some of the *)
(* behaviours of NodeConfig, for every set of inbounds, clients and editors *)
(* and every bound.                                                         *)
(***************************************************************************)
EXTENDS MCNodeConfig, NodeConfigProofs

-----------------------------------------------------------------------------
(* Calls on clients, by several editors: CallsSpec.                          *)

(* A call that has not committed yet holds the row that it read.             *)
Before(a) == a.pc = "commit" \/ (a.pc = "push" /\ a.op \in PushFirst)
Fresh(a) == /\ a.op \notin RowOps
            /\ Before(a) => a.old # None /\ central[a.i] = a.old
FreshInv == \A e \in Editors : Fresh(ed[e])

LEMMA CallsAreSteps == Calls => [Next]_vars
BY DEF Calls, Done, Next, Environment

(* A step that leaves the rows alone: by what it makes of the calls.         *)
LEMMA FreshCalls ==
    ASSUME TypeInv, FreshInv, central' = central, NEW e \in Editors, NEW a,
           ed' = [ed EXCEPT ![e] = a], a.op \notin RowOps,
           Before(a) => a.old # None /\ central[a.i] = a.old
    PROVE  FreshInv'
<1>1. \A f \in Editors : ed'[f] = IF f = e THEN a ELSE ed[f]
  BY DEF TypeInv, EdInv
<1> QED BY <1>1 DEF FreshInv, Fresh, Before

LEMMA FreshStart ==
    ASSUME TypeInv, FreshInv, NEW e \in Editors, NEW op \in ClientOps, NEW i \in Inbounds,
           Lock(e, i), NEW new, NEW push, NEW rest, NEW n,
           Begin(e, n, CallOn(op, i, new, push, rest)), CallUnchanged
    PROVE  FreshInv'
<1> DEFINE a == CallOn(op, i, new, push, rest)
<1>1. a.op = op /\ a.i = i /\ a.old = central[i]
  BY DEF CallOn
<1>2. ed' = [ed EXCEPT ![e] = a] /\ central' = central /\ central[i] # None
  BY DEF Begin, CallUnchanged, db, Lock
<1>3. op \notin RowOps
  BY DEF ClientOps, RowOps
<1> HIDE DEF a
<1> QED BY <1>1, <1>2, <1>3, FreshCalls

LEMMA FreshEdit ==
    ASSUME TypeInv, FreshInv, NEW e \in Editors, ClientEdit(e)
    PROVE  FreshInv'
<1>1. ASSUME NEW i \in Inbounds, NEW cs \in SUBSET Clients,
             Detach(e, "remove", i, cs) \/ Detach(e, "detach", i, cs)
      PROVE  FreshInv'
  BY <1>1, FreshStart DEF Detach, ClientOps
<1>4. ASSUME NEW i \in Inbounds, NEW xs \in SUBSET Entries, AddClients(e, i, xs)
      PROVE  FreshInv'
  BY <1>4, FreshStart DEF AddClients, ClientOps
<1>2. ASSUME NEW i \in Inbounds, NEW x \in Entries, NEW y \in Entries,
             UpdateClient(e, "update", i, x, y) \/ UpdateClient(e, "bulkAdjust", i, x, y)
      PROVE  FreshInv'
  BY <1>2, FreshStart DEF UpdateClient, ClientOps
<1>3. ASSUME NEW cs \in SUBSET Clients, NEW op \in {"delete", "bulkDelete"}, Delete(e, op, cs)
      PROVE  FreshInv'
  <2> DEFINE a == [IdleCall EXCEPT !.pc = "loop", !.op = op, !.who = cs, !.left = Homes(cs)]
  <2>1. ed' = [ed EXCEPT ![e] = a] /\ central' = central
    BY <1>3 DEF Delete, Begin, CallUnchanged, db
  <2>2. a.pc = "loop" /\ a.op = op
    BY DEF IdleCall
  <2> HIDE DEF a
  <2> QED BY <2>1, <2>2, FreshCalls DEF Before, RowOps
<1> QED BY <1>1, <1>2, <1>3, <1>4 DEF ClientEdit

LEMMA FreshLeave ==
    ASSUME TypeInv, FreshInv, NEW e \in Editors, Leave(e),
           \A f \in Editors \ {e} : Before(ed[f]) => central'[ed[f].i] = central[ed[f].i]
    PROVE  FreshInv'
<1>1. ed'[e].op \notin RowOps /\ ~Before(ed'[e])
  BY DEF Leave, IdleCall, TypeInv, EdInv, FreshInv, Fresh, Before, RowOps
<1>2. \A f \in Editors \ {e} : ed'[f] = ed[f]
  BY DEF Leave, TypeInv, EdInv
<1> QED BY <1>1, <1>2 DEF FreshInv, Fresh, Before

LEMMA FreshWork ==
    ASSUME TypeInv, FreshInv, NEW e \in Editors, Work(e)
    PROVE  FreshInv'
<1>1. ed \in [Editors -> CallType] /\ ed[e] \in CallType /\ Fresh(ed[e]) /\ GoodCall(ed[e])
  BY DEF TypeInv, EdInv, FreshInv
<1>2. ASSUME NEW i \in Inbounds, NextInbound(e, i)
      PROVE  FreshInv'
  <2>1. central' = central
    BY <1>2 DEF NextInbound, CallUnchanged, db
  <2>2. ed[e].op \in {"delete", "bulkDelete"}
    BY <1>1, <1>2 DEF NextInbound, GoodCall
  <2>3. CASE i \in Homes(ed[e].who)
    <3> DEFINE cs == ed[e].who \cap Emails(central[i].clients)
               new == [central[i] EXCEPT !.clients = @ \ Of(cs)]
               a == [CallOn(ed[e].op, i, new, Plan(cs), cs)
                        EXCEPT !.who = ed[e].who, !.left = ed[e].left \ {i}]
    <3>1. ed' = [ed EXCEPT ![e] = a]
      BY <1>2, <2>3 DEF NextInbound
    <3>2. a.op = ed[e].op /\ a.i = i /\ a.old = central[i]
      BY DEF CallOn
    <3>3. central[i] # None
      BY <1>2, <2>3 DEF NextInbound, Lock
    <3> HIDE DEF a
    <3>4. ed[e].op \notin RowOps
      BY <2>2 DEF RowOps
    <3> QED BY <2>1, <3>1, <3>2, <3>3, <3>4, FreshCalls
  <2>4. CASE i \notin Homes(ed[e].who)
    <3> DEFINE a == IF ed[e].left \ {i} = {} THEN IdleCall
                    ELSE [ed[e] EXCEPT !.left = ed[e].left \ {i}]
    <3>1. ed' = [ed EXCEPT ![e] = a]
      BY <1>2, <2>4 DEF NextInbound
    <3>2. ~Before(a) /\ a.op \notin RowOps
      BY <1>1, <1>2 DEF NextInbound, IdleCall, Before, RowOps, CallType, Fresh
    <3> HIDE DEF a
    <3> QED BY <2>1, <3>1, <3>2, FreshCalls
  <2> QED BY <2>3, <2>4
<1>3. CASE Commit(e)
  <2>1. ed[e].pc = "commit" /\ ed[e].op \in ClientOps /\ ed[e].i \in Inbounds
    BY <1>1, <1>3 DEF Commit, GoodCall, Working, Fresh
  <2>2. ASSUME NEW f \in Editors \ {e}, Before(ed[f])
        PROVE  central'[ed[f].i] = central[ed[f].i]
    <3>1. ed[f].op \in ClientOps /\ ed[f].i \in Inbounds
      BY <2>2 DEF TypeInv, EdInv, GoodCall, Working, FreshInv, Fresh, Before
    <3>2. ed[f].i # ed[e].i
      BY <2>1, <3>1 DEF TypeInv, EdInv, Holds
    <3> QED BY <1>3, <2>1, <3>1, <3>2 DEF Commit, TypeInv, RowInv
  <2>3. CASE Leave(e)
    BY <2>2, <2>3, FreshLeave
  <2>4. CASE ~Leave(e)
    <3>1. /\ ed[e].op \notin PushFirst
          /\ ed'[e].pc = "push" /\ ed'[e].op = ed[e].op
          /\ \A f \in Editors \ {e} : ed'[f] = ed[f]
      BY <1>1, <1>3, <2>4 DEF Commit, CallType
    <3>2. ed[e].op \notin RowOps
      BY <1>1 DEF Fresh
    <3> QED BY <2>2, <3>1, <3>2 DEF FreshInv, Fresh, Before
  <2> QED BY <2>3, <2>4
<1>4. ASSUME NEW c, NEW ok, ed' = [ed EXCEPT ![e] = Sent(ed[e], c, ok)], central' = central
      PROVE  FreshInv'
  <2> DEFINE a == Sent(ed[e], c, ok)
  <2>1. a.pc = ed[e].pc /\ a.op = ed[e].op /\ a.i = ed[e].i /\ a.old = ed[e].old
    BY <1>1 DEF Sent, CallType
  <2> HIDE DEF a
  <2>2. ed' = [ed EXCEPT ![e] = a]
    BY <1>4 DEF a
  <2> QED BY ZenonT(60), <1>1, <1>4, <2>1, <2>2, FreshCalls DEF Fresh, Before
<1>5. CASE (\E c \in Clients : PushClient(e, c)) \/ PushRow(e)
  BY <1>4, <1>5 DEF PushClient, PushRow, db
<1>6. CASE EndPush(e)
  <2>1. central' = central
    BY <1>6 DEF EndPush, db
  <2>2. CASE Leave(e)
    BY <2>1, <2>2, FreshLeave
  <2>3. CASE ~Leave(e)
    <3> DEFINE a == [ed[e] EXCEPT !.pc = "commit"]
    <3>1. ed' = [ed EXCEPT ![e] = a] /\ ed[e].op \in PushFirst /\ ed[e].pc = "push"
      BY <1>1, <1>6, <2>3 DEF EndPush
    <3>2. a.pc = "commit" /\ a.op = ed[e].op /\ a.i = ed[e].i /\ a.old = ed[e].old
      BY <1>1 DEF CallType
    <3> HIDE DEF a
    <3> QED BY <1>1, <2>1, <3>1, <3>2, FreshCalls DEF Fresh, Before
  <2> QED BY <2>2, <2>3
<1> QED BY <1>2, <1>3, <1>5, <1>6 DEF Work

LEMMA FreshStep ==
    ASSUME TypeInv, FreshInv, Calls \/ UNCHANGED vars
    PROVE  FreshInv'
<1>1. ASSUME NEW i \in Inbounds, NEW row \in Config, AddInbound(i, row)
      PROVE  FreshInv'
  <2>1. central[i] = None /\ central' = [central EXCEPT ![i] = row] /\ ed' = ed
    BY <1>1 DEF AddInbound
  <2>2. \A e \in Editors : Before(ed[e]) => ed[e].i # i
    BY <2>1 DEF FreshInv, Fresh
  <2>3. \A e \in Editors : Before(ed[e]) => ed[e].i \in Inbounds
    BY DEF TypeInv, EdInv, GoodCall, Working, Before
  <2>4. \A e \in Editors : Before(ed[e]) => central'[ed[e].i] = central[ed[e].i]
    BY <2>1, <2>2, <2>3 DEF TypeInv, RowInv
  <2> QED BY <2>1, <2>4 DEF FreshInv, Fresh, Before
<1>2. CASE Heartbeat \/ Done \/ UNCHANGED vars
  BY <1>2 DEF Heartbeat, Done, vars, db, FreshInv, Fresh, Before
<1> QED BY <1>1, <1>2, FreshEdit, FreshWork DEF Calls

(* A client call commits the row that it read, with its own change: the      *)
(* inbound's lock (lockInbound), which is held over the pushes, keeps every  *)
(* other client call off the row, whichever way the pushes go.               *)
THEOREM ClientEditsHold == CallsSpec => ClientEditsKept
<1>1. Init => FreshInv
  BY DEF Init, IdleCall, FreshInv, Fresh, Before, RowOps
<1>2. FreshInv => \A e \in Editors :
          /\ ed[e].pc = "commit" /\ ed'[e].pc # "commit" /\ dirtyAt' # dirtyAt
          /\ ed[e].op \in ClientOps
          => central[ed[e].i] = ed[e].old
  BY DEF FreshInv, Fresh, Before
<1>3. TypeInv /\ [Calls]_vars => TypeInv'
  BY CallsAreSteps, NextTypeInv
<1>4. TypeInv /\ FreshInv /\ [Calls]_vars => FreshInv'
  BY FreshStep
<1> QED BY <1>1, <1>2, <1>3, <1>4, InitTypeInv, PTL DEF CallsSpec, ClientEditsKept

-----------------------------------------------------------------------------
(* One actor at a time: PlainSpec.                                           *)
(*                                                                         *)
(* As long as nobody edits the node itself, the panel's rows, the recorded  *)
(* payloads and the node's rows are related through every call and tick.    *)
(* The relation is a predicate of the call that is under way, which only   *)
(* its own steps change; Quiet is what is left of it between calls.         *)

Deletions == {"delete", "bulkDelete"}
Updates   == {"update", "bulkAdjust"}

(* What a call carries.                                                      *)
Shape(a) ==
    /\ a.left # {} \/ a.who # {} => a.op \in Deletions
    /\ a.pc \in Working =>
       /\ a.i \notin a.left /\ a.old \in Config
       /\ a.op \in RowOps /\ a.pc = "commit" /\ a.push => a.rest # {}
       /\ a.op = "enable" => a.new = [a.old EXCEPT !.enable = ~@]
       /\ a.op \in ClientOps => a.new # a.old /\ a.new.enable = a.old.enable
       /\ a.op \in {"remove", "detach"} \cup Deletions => a.new.clients \cap Of(a.rest) = {}
       /\ a.op \in Deletions => /\ a.new.clients = a.old.clients \ Of(a.who)
                                /\ a.rest \subseteq a.who
       /\ a.op \in Updates => \A c \in a.rest :
             /\ a.rest = {c}
             /\ a.new.clients = (a.old.clients \ Of({c})) \cup (a.new.clients \ a.old.clients)

(* f is a payload that ReconcileNode sends for the row.                      *)
IsPayload(f, row) == f \in {Built(row), row}

(* The node serves the panel's row c when a payload of c is recorded.        *)
Agrees(c, n, f) == c # None /\ IsPayload(f, c) => Serves(n, c)

(* An inbound from which a deletion has still to take its clients.           *)
Awaiting(a, c, n, f) ==
    /\ IsPayload(f, c) =>
          /\ n \in Config /\ n.enable = c.enable
          /\ n.clients \subseteq c.clients
          /\ Built(c).clients \ Of(a.who) \subseteq n.clients
    /\ Agrees([c EXCEPT !.clients = @ \ Of(a.who)], n, f)

(* The inbound's row on the node, as long as no request has failed.          *)
Sending(a, n) ==
    /\ a.op \in Updates =>
          /\ Serves(n, IF a.rest = {} THEN a.new ELSE a.old)
          /\ \A c \in a.rest : n.clients \cap Of({c}) # {}
    /\ a.op \notin Updates =>
          /\ n \in Config /\ n.enable = a.new.enable
          /\ n.clients \ Of(a.rest) \subseteq a.new.clients
          /\ Built(a.new).clients \ Of(a.rest) \subseteq n.clients
          /\ a.op = "add" => n.clients \cap Of(a.rest) = {}

(* The inbound that the call works on.                                       *)
Target(a, c, n, f) ==
    /\ Agrees(a.new, n, f)
    /\ a.pc = "commit" /\ a.op \notin PushFirst \cup {"delete"} => Agrees(c, n, f)
    /\ a.op \in ClientOps /\ f = a.old /\ a.push /\ ~a.failed => Sending(a, n)
    /\ a.op \in RowOps /\ a.pc = "push" /\ a.push /\ ~a.failed /\ a.rest = {} => n = a.new

Prints(a) == \A i \in Inbounds :
    /\ i \in a.left => Awaiting(a, central[i], node[i], fp[i])
    /\ i = a.i => Target(a, central[i], node[i], fp[i])
    /\ i \notin a.left /\ i # a.i => Agrees(central[i], node[i], fp[i])

(* The rows before and after the transaction; those that a deletion has done. *)
Stands(a) ==
    /\ Before(a) => central[a.i] = a.old
    /\ a.pc = "push" /\ a.op \notin PushFirst => central[a.i] = a.new /\ dirty
    /\ \A i \in a.left : central[i] # None /\ central[i].clients \cap Of(a.who) # {}
    /\ \A i \in Inbounds : central[i] # None /\ i \notin a.left =>
          (i = a.i /\ Before(a)) \/ central[i].clients \cap Of(a.who) = {}

(* Tombstones are those of clients that no row has, or of the call's.        *)
Buried(a) ==
    /\ \A i \in Inbounds : central[i] # None => central[i].clients \cap Of(tomb) \subseteq Of(a.who)
    /\ a.pc \in Working /\ a.new # None => a.new.clients \cap Of(tomb) = {}
    /\ adopted \/ tomb = {}

(* A clean node serves the panel's rows, and once adopted has no others.     *)
Same == /\ \A i \in Inbounds : central[i] # None => Serves(node[i], central[i])
        /\ adopted => Rows(node) \subseteq Rows(central)
Clean(a) == dirty \/ (a.op \in PushFirst /\ a.pc \in Working) \/ Same

Alike(a) == Shape(a) /\ Prints(a) /\ Stands(a) /\ Buried(a) /\ Clean(a)

Quiet == /\ \A i \in Inbounds : Agrees(central[i], node[i], fp[i])
         /\ \A i \in Inbounds : central[i] # None => central[i].clients \cap Of(tomb) = {}
         /\ adopted \/ tomb = {}
         /\ dirty \/ Same

(* What the tick has read, and what it has done to the node.                 *)
TickOK ==
    /\ job.pc # "idle" => job.adopted = adopted
    /\ job.pc \in {"read", "list", "push", "record"} => dirty
    /\ job.pc \in {"list", "push", "record"} => job.want = central
    /\ job.pc \in {"push", "record"} /\ ~job.failed =>
          /\ \A i \in Rows(job.want) \ job.todo : Serves(node[i], job.want[i])
          /\ Rows(node) \subseteq job.tags \cup Rows(job.want)
    /\ job.pc = "record" =>
          /\ job.want[job.cur] # None /\ node[job.cur] = job.sent
          /\ IsPayload(job.sent, job.want[job.cur])
    /\ job.pc \in {"check", "merge"} =>
          job.snap = node \/ (Rows(job.snap) = {} /\ (adopted \/ Rows(node) = {}))
    /\ job.pc = "merge" => (job.stale <=> dirty)
    /\ job.pc \in {"adopt", "mark"} =>
          /\ \A i \in Inbounds : job.stamp[i] # None =>
                job.stamp[i] = central[i] /\ node[i] = central[i]
          /\ ~job.stale => ~dirty /\ Rows(node) \subseteq Rows(central)

OneActor == /\ \A e, f \in Editors : ed[e].pc # "idle" /\ ed[f].pc # "idle" => e = f
            /\ Calling => job.pc = "idle"
AlikeInv == /\ OneActor
            /\ locals = 0 => /\ TickOK
                             /\ \A e \in Editors : ed[e].pc # "idle" => Alike(ed[e])
                             /\ ~Calling => Quiet

LEMMA PlainIsNext == [Plain]_vars => [Next]_vars
BY DEF Plain, Onward, Next

LEMMA SameConfig ==
    ASSUME NEW r \in Config, NEW s \in Config, r.enable = s.enable, r.clients = s.clients
    PROVE  r = s
BY DEF Config

LEMMA WithClients ==
    ASSUME NEW r \in Config, NEW cs
    PROVE  /\ [r EXCEPT !.clients = cs].enable = r.enable
           /\ [r EXCEPT !.clients = cs].clients = cs
           /\ cs \subseteq Entries => [r EXCEPT !.clients = cs] \in Config
BY DEF Config

(* The entries that emails stand for.                                        *)
LEMMA OfParts ==
    /\ Of({}) = {}
    /\ \A cs, ds : cs \subseteq ds => Of(cs) \subseteq Of(ds)
    /\ \A cs : \A x \in Entries : x \in Of(cs) <=> x[1] \in cs
    /\ \A xs \in SUBSET Entries : xs \subseteq Of(Emails(xs))
BY DEF Of, Entries, Emails

(* What serves a row.                                                        *)
LEMMA ServesParts ==
    ASSUME NEW n, NEW r \in Config
    PROVE  Serves(n, r) <=> /\ n # None /\ n.enable = r.enable
                            /\ n.clients \subseteq r.clients
                            /\ \A x \in r.clients : x[2] \notin Off => x \in n.clients
BY BuiltParts DEF Serves

LEMMA PayloadServes ==
    ASSUME NEW f, NEW r \in Config, IsPayload(f, r)
    PROVE  Serves(f, r) /\ f \in Config
BY BuiltParts, ServesParts, ConfigParts DEF IsPayload

LEMMA ServesItself == ASSUME NEW r \in Config PROVE Serves(r, r)
BY ServesParts, ConfigParts

LEMMA IdleParts == /\ IdleCall.pc = "idle" /\ IdleCall.op = "none" /\ IdleCall.i = None
                   /\ IdleCall.left = {} /\ IdleCall.who = {}
                   /\ ~Before(IdleCall) /\ IdleCall.pc \notin Working
BY DEF IdleCall, Before, Working

LEMMA RowType ==
    ASSUME TypeInv, NEW i \in Inbounds
    PROVE  /\ central[i] \in Row /\ node[i] \in Row /\ fp[i] \in Row
           /\ central[i] # None => central[i] \in Config
           /\ node[i] # None => node[i] \in Config
           /\ fp[i] # None => fp[i] \in Config
BY RowCases DEF TypeInv, RowInv

-----------------------------------------------------------------------------
(* Which call is under way.                                                  *)

LEMMA QuietAlike == Quiet => Alike(IdleCall)
BY IdleParts, OfParts, NoneAssumption
   DEF Quiet, Alike, Shape, Prints, Stands, Buried, Clean

(* The rest of a deletion, or nothing, once a call has left an inbound.      *)
Remainder(a) == IF a.left = {} THEN IdleCall
                ELSE [IdleCall EXCEPT !.pc = "loop", !.op = a.op, !.who = a.who, !.left = a.left]

LEMMA RemainderParts ==
    ASSUME NEW a
    PROVE  /\ Remainder(a).left = a.left
           /\ Remainder(a).i = None
           /\ Remainder(a).who = IF a.left = {} THEN {} ELSE a.who
           /\ a.left # {} => Remainder(a).op = a.op /\ Remainder(a).pc = "loop"
           /\ Remainder(a).pc \notin Working /\ ~Before(Remainder(a))
           /\ Remainder(a).pc # "push"
           /\ a.left = {} => Remainder(a) = IdleCall
BY DEF Remainder, IdleCall, Working, Before

(* A caller's step: what it makes of its call decides.                        *)
LEMMA CallerMoves ==
    ASSUME TypeInv, NEW e \in Editors, NEW b,
           \A f \in Editors \ {e} : ed[f].pc = "idle",
           ed' = [ed EXCEPT ![e] = b], b.pc = "idle" => b = IdleCall,
           job' = job, job.pc = "idle",
           locals' = 0 => Alike(b)'
    PROVE  AlikeInv'
<1>1. \A f \in Editors : ed'[f] = IF f = e THEN b ELSE ed[f]
  BY DEF TypeInv, EdInv
<1>2. OneActor'
  BY <1>1 DEF OneActor
<1>3. TickOK'
  BY DEF TickOK
<1>4. ASSUME locals' = 0, NEW f \in Editors, ed'[f].pc # "idle"
      PROVE  Alike(ed[f])'
  <2>1. f = e /\ ed'[f] = b
    BY <1>1, <1>4
  <2>2. Alike(b)'
    BY <1>4
  <2> QED BY <2>1, <2>2 DEF Alike, Shape, Prints, Stands, Buried, Clean
<1>5. ASSUME locals' = 0, ~Calling'
      PROVE  Quiet'
  <2>1. b = IdleCall
    BY <1>1, <1>5 DEF Calling
  <2>2. Alike(IdleCall)'
    BY <1>5, <2>1
  <2> QED BY <2>2, IdleParts, OfParts, NoneAssumption
          DEF Quiet, Alike, Prints, Buried, Clean
<1> QED BY <1>2, <1>3, <1>4, <1>5 DEF AlikeInv

(* A step that changes nothing that the relation speaks of.                  *)
LEMMA SameRows ==
    ASSUME NEW b, Alike(b), UNCHANGED <<central, node, fp, tomb, dirty, adopted>>
    PROVE  Alike(b)'
BY DEF Alike, Shape, Prints, Stands, Buried, Clean, Same

LEMMA Leaves ==
    ASSUME TypeInv, NEW e \in Editors, Leave(e)
    PROVE  ed' = [ed EXCEPT ![e] = Remainder(ed[e])]
BY DEF Leave, Remainder

(* What a call that leaves an inbound has to leave behind.                   *)
LEMMA LeftAlike ==
    ASSUME NEW a, Shape(a),
           \A j \in Inbounds :
              /\ j \in a.left => Awaiting(a, central'[j], node'[j], fp'[j])
              /\ j \notin a.left => Agrees(central'[j], node'[j], fp'[j]),
           \A j \in a.left : central'[j] # None /\ central'[j].clients \cap Of(a.who) # {},
           \A j \in Inbounds : central'[j] # None /\ j \notin a.left =>
              central'[j].clients \cap Of(a.who) = {},
           \A j \in Inbounds : central'[j] # None =>
              central'[j].clients \cap Of(tomb') \subseteq Of(a.who),
           adopted' \/ tomb' = {}, dirty' \/ Same'
    PROVE  Alike(Remainder(a))'
<1> DEFINE b == Remainder(a)
<1>1. b.left = a.left /\ b.i = None /\ b.who = IF a.left = {} THEN {} ELSE a.who
  BY RemainderParts
<1>2. b.pc \notin Working /\ ~Before(b) /\ b.pc # "push" /\ (a.left # {} => b.op = a.op)
  BY RemainderParts
<1> HIDE DEF b
<1>3. Shape(b)
  BY <1>1, <1>2 DEF Shape
<1>4. Prints(b)'
  <2>1. \A j \in Inbounds : j \in b.left => Awaiting(b, central'[j], node'[j], fp'[j])
    BY <1>1 DEF Awaiting
  <2> QED BY <1>1, <2>1, NoneAssumption DEF Prints
<1>5. Stands(b)'
  BY <1>1, <1>2, OfParts, NoneAssumption DEF Stands
<1>6. Buried(b)'
  BY <1>1, <1>2, OfParts DEF Buried
<1>7. Clean(b)'
  BY DEF Clean
<1>8. Shape(b)'
  BY <1>3 DEF Shape
<1> QED BY <1>4, <1>5, <1>6, <1>7, <1>8 DEF Alike, b

-----------------------------------------------------------------------------
(* A call begins.                                                            *)

(* The client that an update is about to push is on the node.                *)
Reached(b, i) == b.op \in Updates => \A c \in b.rest : node[i].clients \cap Of({c}) # {}

LEMMA Alone_Idle ==
    ASSUME AlikeInv, Alone, edits' # edits
    PROVE  /\ job.pc = "idle" /\ \A f \in Editors : ed[f].pc = "idle"
           /\ locals = 0 => Quiet
BY DEF AlikeInv, Alone, JobAt, Calling

LEMMA StartAlike ==
    ASSUME TypeInv, Quiet, NEW i \in Inbounds, central[i] # None, NEW b,
           b.i = i, b.left = {}, b.who = {}, b.old = central[i],
           Shape(b), Before(b),
           b.new # None => b.new.clients \cap Of(tomb) = {},
           ~Lapsed(i, b.new),
           b.op \in ClientOps /\ b.push /\ fp[i] = central[i] => Sending(b, node[i])
    PROVE  Alike(b)
<1>1. Agrees(central[i], node[i], fp[i])
  BY DEF Quiet
<1>2. Target(b, central[i], node[i], fp[i])
  <2>1. Agrees(b.new, node[i], fp[i])
    BY DEF Lapsed, Agrees, IsPayload
  <2>3. ~(b.op \in RowOps /\ b.pc = "push")
    BY DEF Before, PushFirst, RowOps
  <2> QED BY <1>1, <2>1, <2>3 DEF Target
<1>3. Prints(b)
  BY <1>2 DEF Prints, Quiet
<1>4. Stands(b)
  BY OfParts DEF Stands, Before
<1>5. Buried(b)
  BY OfParts DEF Buried, Quiet
<1>6. Clean(b)
  BY DEF Clean, Quiet
<1> QED BY <1>3, <1>4, <1>5, <1>6 DEF Alike

LEMMA StartStep ==
    ASSUME TypeInv, AlikeInv, Alone, NoRevival, NoReturn, NoLoss,
           NEW e \in Editors, NEW op, NEW i \in Inbounds, central[i] # None,
           NEW new, NEW push, NEW rest, NEW b, b = CallOn(op, i, new, push, rest),
           Begin(e, 1, b), CallUnchanged, tomb' = tomb,
           Shape(b),
           op \in ClientOps /\ push /\ Serves(node[i], central[i]) /\ Reached(b, i)
              => Sending(b, node[i])
    PROVE  AlikeInv'
<1>1. /\ b.i = i /\ b.left = {} /\ b.who = {} /\ b.old = central[i] /\ b.new = new
      /\ b.op = op /\ b.push = push
      /\ b.pc = IF op \in PushFirst THEN "push" ELSE "commit"
  BY DEF CallOn
<1>2. ed' = [ed EXCEPT ![e] = b] /\ edits' = edits + 1
  BY DEF Begin
<1>3. Shape(b)
  OBVIOUS
<1>4. ed'[e] = b /\ edits' # edits
  BY <1>2 DEF TypeInv, EdInv, CountInv
<1>5. /\ job.pc = "idle" /\ \A f \in Editors : ed[f].pc = "idle"
      /\ locals = 0 => Quiet
  BY <1>4, Alone_Idle
<1>6. b.new # None => b.new.clients \cap Of(tomb) = {}
  BY <1>4 DEF NoRevival
<1>7. ~Lapsed(i, b.new)
  <2>1. i \in Targets(b) /\ Result(b, i) = b.new
    BY <1>1, NoneAssumption DEF Targets, Result
  <2> QED BY <1>4, <2>1 DEF NoReturn
<1>8. ASSUME locals' = 0
      PROVE  Alike(b)'
  <2>1. Quiet
    BY <1>5, <1>8 DEF CallUnchanged
  <2>2. Before(b)
    BY <1>1 DEF Before
  <2>3. fp[i] = central[i] => Serves(node[i], central[i]) /\ Reached(b, i)
    <3>1. b.op \in Updates /\ fp[i] = b.old => Reached(b, i)
      BY <1>1, <1>4 DEF NoLoss, Reached, Updates
    <3>2. Agrees(central[i], node[i], fp[i])
      BY <2>1 DEF Quiet
    <3> QED BY <1>1, <3>1, <3>2 DEF Agrees, IsPayload, Reached
  <2>4. b.op \in ClientOps /\ b.push /\ fp[i] = central[i] => Sending(b, node[i])
    BY <1>1, <2>3
  <2>5. Alike(b)
    BY <1>1, <1>3, <1>6, <1>7, <2>1, <2>2, <2>4, StartAlike
  <2> QED BY <2>5, SameRows DEF CallUnchanged, db
<1>9. b.pc # "idle"
  BY <1>1
<1> QED BY <1>2, <1>5, <1>8, <1>9, CallerMoves DEF CallUnchanged

LEMMA EditStep ==
    ASSUME TypeInv, AlikeInv, Alone, NoRevival, NoReturn, NoLoss,
           NEW e \in Editors, NEW i \in Inbounds,
           \/ \E xs \in SUBSET Entries : AddClients(e, i, xs)
           \/ \E cs \in SUBSET Clients : \/ Detach(e, "remove", i, cs)
                                         \/ Detach(e, "detach", i, cs)
           \/ \E x, y \in Entries : \/ UpdateClient(e, "update", i, x, y)
                                    \/ UpdateClient(e, "bulkAdjust", i, x, y)
    PROVE  AlikeInv'
<1>1. central[i] \in Config /\ central[i] # None
  BY RowType DEF AddClients, Detach, UpdateClient, Lock
<1>2. ASSUME NEW xs \in SUBSET Entries, AddClients(e, i, xs)
      PROVE  AlikeInv'
  <2> DEFINE cs == Emails(xs)
             new == [central[i] EXCEPT !.clients = @ \cup xs]
             p == Plan(cs)
             b == CallOn("add", i, new, p, cs)
  <2>1. /\ xs # {} /\ xs \subseteq Of(cs) /\ central[i].clients \cap Of(cs) = {}
        /\ central[i].clients \subseteq Entries
    <3>1. xs # {} /\ cs \cap Emails(central[i].clients) = {}
      BY <1>2 DEF AddClients
    <3>2. central[i].clients \subseteq Entries
      BY <1>1, ConfigParts
    <3>3. \A x \in central[i].clients : x[1] \notin cs
      BY <3>1 DEF Emails
    <3> HIDE DEF cs
    <3>4. central[i].clients \cap Of(cs) = {}
      BY <3>2, <3>3, OfParts
    <3>5. xs \subseteq Of(Emails(xs))
      BY OfParts
    <3> QED BY <3>1, <3>2, <3>4, <3>5 DEF cs
  <2>2. new \in Config /\ new.enable = central[i].enable /\ new.clients = central[i].clients \cup xs
    BY <1>1, <2>1, WithClients
  <2> HIDE DEF new, cs, p
  <2>3. /\ b.op = "add" /\ b.old = central[i] /\ b.new = new /\ b.rest \subseteq cs /\ b.i = i
        /\ b.left = {} /\ b.who = {} /\ b.push = p /\ b.pc = "commit"
        /\ b.push => b.rest = cs
    BY DEF CallOn, PushFirst
  <2> HIDE DEF b
  <2>4. Shape(b)
    BY <1>1, <2>1, <2>2, <2>3 DEF Shape, Deletions, Updates, RowOps
  <2>5. b.push /\ Serves(node[i], central[i]) => Sending(b, node[i])
    <3>1. node[i] # None => node[i] \in Config
      BY RowType
    <3> QED BY <1>1, <2>1, <2>2, <2>3, <3>1, ServesParts, BuiltParts DEF Sending, Updates
  <2>6. Begin(e, 1, b) /\ CallUnchanged /\ tomb' = tomb
    BY <1>2 DEF AddClients, new, b, p, cs
  <2> QED BY <1>1, <2>3, <2>4, <2>5, <2>6, StartStep DEF b
<1>3. ASSUME NEW cs \in SUBSET Clients, NEW op \in {"remove", "detach"}, Detach(e, op, i, cs)
      PROVE  AlikeInv'
  <2> DEFINE new == [central[i] EXCEPT !.clients = @ \ Of(cs)]
             p == Small(cs) /\ (online \/ op = "remove")
             b == CallOn(op, i, new, p, cs)
  <2>1. central[i].clients \cap Of(cs) # {} /\ central[i].clients \subseteq Entries
    <3>1. cs # {} /\ cs \subseteq Emails(central[i].clients)
      BY <1>3 DEF Detach
    <3>2. central[i].clients \subseteq Entries
      BY <1>1, ConfigParts
    <3>3. PICK x \in central[i].clients : x[1] \in cs
      BY <3>1 DEF Emails
    <3> QED BY <3>2, <3>3, OfParts
  <2>2. new \in Config /\ new.enable = central[i].enable /\ new.clients = central[i].clients \ Of(cs)
    BY <1>1, <2>1, WithClients
  <2> HIDE DEF new, p
  <2>3. /\ b.op = op /\ b.old = central[i] /\ b.new = new /\ b.rest \subseteq cs /\ b.i = i
        /\ b.left = {} /\ b.who = {} /\ b.push = p /\ b.pc = "commit"
        /\ b.push => b.rest = cs
    BY DEF CallOn, PushFirst
  <2> HIDE DEF b
  <2>4. Shape(b)
    <3>1. Of(b.rest) \subseteq Of(cs)
      BY <2>3, OfParts
    <3> QED BY <1>1, <2>1, <2>2, <2>3, <3>1 DEF Shape, Deletions, Updates, RowOps
  <2>5. b.push /\ Serves(node[i], central[i]) => Sending(b, node[i])
    <3>1. node[i] # None => node[i] \in Config
      BY RowType
    <3> QED BY <1>1, <2>1, <2>2, <2>3, <3>1, ServesParts, BuiltParts DEF Sending, Updates
  <2>6. Begin(e, 1, b) /\ CallUnchanged /\ tomb' = tomb
    BY <1>3 DEF Detach, new, b, p
  <2> QED BY <1>1, <2>3, <2>4, <2>5, <2>6, StartStep DEF b
<1>4. ASSUME NEW x \in Entries, NEW y \in Entries, NEW op \in Updates,
             UpdateClient(e, op, i, x, y)
      PROVE  AlikeInv'
  <2> DEFINE c == x[1]
             new == [central[i] EXCEPT !.clients = (@ \ Of({c})) \cup {y}]
             p == Plan({c})
             b == CallOn(op, i, new, p, {c})
  <2>1. y \notin central[i].clients /\ central[i].clients \subseteq Entries
    BY <1>1, <1>4, ConfigParts DEF UpdateClient
  <2>2. /\ new \in Config /\ new.enable = central[i].enable
        /\ new.clients = (central[i].clients \ Of({c})) \cup {y}
    BY <1>1, <2>1, WithClients
  <2> HIDE DEF new, c, p
  <2>3. /\ b.op = op /\ b.old = central[i] /\ b.new = new /\ b.rest \subseteq {c} /\ b.i = i
        /\ b.left = {} /\ b.who = {} /\ b.push = p
        /\ b.push => b.rest = {c}
    BY DEF CallOn
  <2> HIDE DEF b
  <2>4. Shape(b)
    BY <1>1, <2>1, <2>2, <2>3 DEF Shape, Deletions, Updates, RowOps
  <2>5. b.push /\ Serves(node[i], central[i]) /\ Reached(b, i) => Sending(b, node[i])
    BY <2>3 DEF Sending, Updates, Reached
  <2>6. Begin(e, 1, b) /\ CallUnchanged /\ tomb' = tomb
    BY <1>4 DEF UpdateClient, new, b, c, p
  <2> QED BY <1>1, <2>3, <2>4, <2>5, <2>6, StartStep DEF b
<1> QED BY <1>2, <1>3, <1>4 DEF Updates

LEMMA ChangeStep ==
    ASSUME TypeInv, AlikeInv, Alone, NoRevival, NoReturn, NoLoss, NEW e \in Editors,
           NEW op \in RowOps, NEW i \in Inbounds, NEW new \in Row, ChangeInbound(e, op, i, new)
    PROVE  AlikeInv'
<1> DEFINE p == op = "enable" \/ (op = "drop" /\ online)
           b == CallOn(op, i, new, p, {None})
<1>1. central[i] \in Config /\ central[i] # None
  BY RowType DEF ChangeInbound
<1>2. /\ op = "enable" => new = [central[i] EXCEPT !.enable = ~@]
      /\ Begin(e, 1, b) /\ CallUnchanged /\ tomb' = tomb
  BY DEF ChangeInbound
<1>3. op \notin ClientOps
  BY DEF ClientOps, RowOps
<1> HIDE DEF p
<1>4. /\ b.op = op /\ b.old = central[i] /\ b.new = new /\ b.i = i
      /\ b.left = {} /\ b.who = {} /\ b.push = p
      /\ b.push => b.rest # {}
  BY DEF CallOn
<1> HIDE DEF b
<1>5. Shape(b)
  BY <1>1, <1>2, <1>3, <1>4 DEF Shape, Deletions, Updates, RowOps, ClientOps
<1> QED BY <1>1, <1>2, <1>3, <1>5, StartStep DEF b

LEMMA DeleteStep ==
    ASSUME TypeInv, AlikeInv, Alone, NoReturn, KnownDeletion, NEW e \in Editors,
           NEW op \in Deletions, NEW cs \in SUBSET Clients, Delete(e, op, cs)
    PROVE  AlikeInv'
<1> DEFINE call == [IdleCall EXCEPT !.pc = "loop", !.op = op, !.who = cs, !.left = Homes(cs)]
<1>0. PICK b : b = call
  OBVIOUS
<1>1. /\ b.pc = "loop" /\ b.op = op /\ b.who = cs /\ b.left = Homes(cs) /\ b.i = None
      /\ b.pc \notin Working /\ ~Before(b) /\ b.pc # "push"
  BY <1>0 DEF IdleCall, Working, Before
<1>2. /\ ed' = [ed EXCEPT ![e] = b] /\ tomb' = tomb \cup cs /\ cs # {} /\ Homes(cs) # {}
      /\ edits' = edits + Cardinality(Homes(cs))
      /\ UNCHANGED <<central, dirty, adopted, fp, node, job, locals>>
  BY <1>0 DEF Delete, Begin, CallUnchanged, db
<1>3. edits' # edits
  <2>1. IsFiniteSet(Homes(cs))
    BY FiniteAssumption, FS_Subset DEF Homes, Rows
  <2>2. Cardinality(Homes(cs)) \in Nat /\ Cardinality(Homes(cs)) # 0
    BY <1>2, <2>1, FS_CardinalityType, FS_EmptySet
  <2> QED BY <1>2, <2>2 DEF TypeInv, CountInv
<1>4. /\ job.pc = "idle" /\ \A f \in Editors : ed[f].pc = "idle"
      /\ locals = 0 => Quiet
  BY <1>3, Alone_Idle
<1>5. ed'[e] = b
  BY <1>2 DEF TypeInv, EdInv
<1>6. \A j \in Homes(cs) : j \in Inbounds /\ central[j] # None /\ central[j].clients \cap Of(cs) # {}
  BY DEF Homes, Rows
<1>7. ASSUME Quiet
      PROVE  Alike(b)'
  <2>1. ASSUME NEW j \in Homes(cs)
        PROVE  Awaiting(b, central[j], node[j], fp[j])
    <3> DEFINE cut == [central[j] EXCEPT !.clients = @ \ Of(cs)]
    <3>1. central[j] \in Config /\ j \in Inbounds
      BY <1>6, RowType
    <3>2. Result(b, j) = cut /\ j \in Targets(b)
      BY <1>1 DEF Result, Targets
    <3>3. ~Lapsed(j, cut)
      BY <1>3, <1>5, <3>2 DEF NoReturn
    <3>4. Agrees(cut, node[j], fp[j])
      BY <3>3 DEF Lapsed, Agrees, IsPayload
    <3>5. IsPayload(fp[j], central[j]) => Serves(node[j], central[j])
      BY <1>6, <1>7, <3>1 DEF Quiet, Agrees
    <3>6. node[j] # None => node[j] \in Config
      BY <3>1, RowType
    <3> QED BY <1>1, <3>4, <3>5, <3>6 DEF Awaiting, Serves
  <2>2. Prints(b)'
    BY <1>1, <1>2, <1>7, <2>1, NoneAssumption DEF Prints, Quiet
  <2>3. Stands(b)'
    <3>1. \A j \in Inbounds \ Homes(cs) : central[j] # None => central[j].clients \cap Of(cs) = {}
      BY DEF Homes, Rows
    <3> QED BY <1>1, <1>2, <1>6, <3>1 DEF Stands
  <2>4. Buried(b)'
    <3>1. \A j \in Inbounds : central[j] # None => central[j].clients \cap Of(tomb \cup cs) \subseteq Of(cs)
      <4>1. SUFFICES ASSUME NEW j \in Inbounds, central[j] # None, NEW x \in central[j].clients,
                            x \in Of(tomb \cup cs)
                     PROVE  x \in Of(cs)
        OBVIOUS
      <4>2. x \in Entries
        BY <4>1, RowType, ConfigParts
      <4>3. x[1] \in tomb \cup cs /\ (x[1] \in tomb => x \in Of(tomb)) /\ (x[1] \in cs => x \in Of(cs))
        BY <4>1, <4>2, OfParts
      <4> QED BY <1>7, <4>1, <4>3 DEF Quiet
    <3> QED BY <1>1, <1>2, <1>7, <3>1 DEF Buried, Quiet, KnownDeletion
  <2>5. Clean(b)'
    BY <1>2, <1>7 DEF Clean, Quiet, Same
  <2>6. Shape(b)'
    BY <1>1 DEF Shape
  <2> QED BY <2>2, <2>3, <2>4, <2>5, <2>6 DEF Alike
<1> QED BY <1>1, <1>2, <1>4, <1>7, CallerMoves

-----------------------------------------------------------------------------
(* A call goes on.                                                           *)

LEMMA OnlyCaller ==
    ASSUME AlikeInv, NEW e \in Editors, ed[e].pc # "idle"
    PROVE  /\ job.pc = "idle" /\ \A f \in Editors \ {e} : ed[f].pc = "idle"
           /\ locals = 0 => Alike(ed[e])
BY DEF AlikeInv, OneActor, Calling

LEMMA CallParts ==
    ASSUME TypeInv, NEW e \in Editors
    PROVE  /\ ed[e] \in CallType /\ GoodCall(ed[e])
           /\ ed[e].left \subseteq Inbounds /\ ed[e].who \subseteq Clients
           /\ ed[e].pc \in Working => ed[e].i \in Inbounds
           /\ ed[e].pc \in Working /\ ed[e].op \in ClientOps => ed[e].new \in Config
BY DEF TypeInv, EdInv, GoodCall, CallType, Working, ClientOps

(* Taking the emails that a row has is taking all of them.                    *)
LEMMA TakenEmails ==
    ASSUME NEW r \in Config, NEW who
    PROVE  r.clients \ Of(who \cap Emails(r.clients)) = r.clients \ Of(who)
<1>1. \A x \in r.clients : x \in Entries /\ x[1] \in Emails(r.clients)
  BY ConfigParts DEF Emails
<1> QED BY <1>1, OfParts

(* The call that takes the clients of a deletion from one of their inbounds.  *)
LEMMA NextAlike ==
    ASSUME TypeInv, NEW a, Alike(a), GoodCall(a), a.pc = "loop",
           a.left \subseteq Inbounds, a.who \subseteq Clients,
           NEW i \in a.left, NEW cs, cs = a.who \cap Emails(central[i].clients), NEW b,
           b.op = a.op, b.i = i, b.old = central[i],
           b.new = [central[i] EXCEPT !.clients = @ \ Of(cs)], b.who = a.who,
           b.left = a.left \ {i}, b.rest \subseteq cs, b.push => b.rest = cs,
           b.pc = IF a.op \in PushFirst THEN "push" ELSE "commit"
    PROVE  Alike(b)
<1> DEFINE new == [central[i] EXCEPT !.clients = @ \ Of(cs)]
<1>1. b.new = new
  OBVIOUS
<1>2. /\ a.op \in Deletions /\ a.op \in ClientOps /\ a.op \notin RowOps
      /\ a.op \notin Updates /\ a.op \notin {"add", "enable", "remove", "detach"}
      /\ a.op \in PushFirst \cup {"delete"} /\ a.i = None
  BY DEF GoodCall, Working, Deletions, ClientOps, RowOps, Updates, PushFirst
<1>3. /\ central[i] # None /\ central[i] \in Config
      /\ central[i].clients \cap Of(a.who) # {} /\ i \in Inbounds
  BY RowType DEF Alike, Stands
<1>4. /\ new \in Config /\ new.enable = central[i].enable
      /\ new.clients = central[i].clients \ Of(a.who)
      /\ new.clients = central[i].clients \ Of(cs)
      /\ new = [central[i] EXCEPT !.clients = @ \ Of(a.who)]
  <2>1. /\ central[i].clients \subseteq Entries
        /\ central[i].clients \ Of(cs) = central[i].clients \ Of(a.who)
    BY <1>3, ConfigParts, TakenEmails
  <2> QED BY SMTT(60), <1>3, <2>1, WithClients
<1> HIDE DEF new
<1>5. new # central[i] /\ new # None
  BY <1>3, <1>4, NoneAssumption
<1>6. Shape(b)
  <2>1. new.clients \cap Of(b.rest) = {} /\ b.rest \subseteq a.who
    BY <1>1, <1>4, OfParts
  <2>2. i \notin b.left /\ b.old \in Config /\ b.new # b.old /\ b.new.enable = b.old.enable
    BY <1>1, <1>3, <1>4, <1>5
  <2> QED BY <1>1, <1>2, <1>4, <2>1, <2>2 DEF Shape
<1>7. Target(b, central[i], node[i], fp[i])
  <2>1. Awaiting(a, central[i], node[i], fp[i])
    BY <1>3 DEF Alike, Prints
  <2>2. Agrees(new, node[i], fp[i])
    BY <1>4, <2>1 DEF Awaiting
  <2>3. fp[i] = central[i] /\ b.push => Sending(b, node[i])
    <3>1. fp[i] = central[i] =>
             /\ node[i] \in Config /\ node[i].enable = central[i].enable
             /\ node[i].clients \subseteq central[i].clients
             /\ Built(central[i]).clients \ Of(a.who) \subseteq node[i].clients
      BY <2>1 DEF Awaiting, IsPayload
    <3>2. Built(new).clients \subseteq Built(central[i]).clients \ Of(a.who)
      <4>1. /\ Built(new).clients = {x \in new.clients : x[2] \notin Off}
            /\ Built(central[i]).clients = {x \in central[i].clients : x[2] \notin Off}
        BY <1>3, <1>4, BuiltParts
      <4> QED BY <1>4, <4>1
    <3> QED BY <1>1, <1>2, <1>4, <3>1, <3>2 DEF Sending
  <2> QED BY <1>1, <1>2, <2>2, <2>3 DEF Target
<1>8. Prints(b)
  <2>1. \A j \in b.left : Awaiting(b, central[j], node[j], fp[j])
    BY <1>1 DEF Alike, Prints, Awaiting
  <2> QED BY <1>1, <1>2, <1>7, <2>1, NoneAssumption DEF Alike, Prints
<1>9. Stands(b)
  <2>1. ~Before(a) /\ Before(b) /\ ~(b.pc = "push" /\ b.op \notin PushFirst)
    BY <1>1 DEF Before
  <2> QED BY <1>1, <1>2, <1>3, <2>1 DEF Alike, Stands
<1>10. Buried(b)
  BY <1>1, <1>3, <1>4 DEF Alike, Buried
<1>11. Clean(b)
  BY <1>1 DEF Alike, Clean, Working
<1> QED BY <1>6, <1>8, <1>9, <1>10, <1>11 DEF Alike

LEMMA NextStep ==
    ASSUME TypeInv, AlikeInv, NEW e \in Editors, NEW i \in Inbounds, NextInbound(e, i)
    PROVE  AlikeInv'
<1>0. PICK a : a = ed[e]
  OBVIOUS
<1>1. /\ a.pc = "loop" /\ i \in a.left
      /\ UNCHANGED <<central, dirty, adopted, fp, node, tomb, job, locals>>
  BY <1>0 DEF NextInbound, CallUnchanged, db
<1>2. /\ GoodCall(a) /\ a.left \subseteq Inbounds /\ a.who \subseteq Clients
      /\ a \in CallType
  BY <1>0, CallParts
<1>3. /\ job.pc = "idle" /\ \A f \in Editors \ {e} : ed[f].pc = "idle"
      /\ locals = 0 => Alike(a)
  BY <1>0, <1>1, OnlyCaller
<1>4. CASE i \in Homes(a.who)
  <2>1. PICK cs : cs = a.who \cap Emails(central[i].clients)
    OBVIOUS
  <2> DEFINE new == [central[i] EXCEPT !.clients = @ \ Of(cs)]
             call == [CallOn(a.op, i, new, Plan(cs), cs) EXCEPT !.who = a.who,
                                                               !.left = a.left \ {i}]
  <2>2. /\ call.op = a.op /\ call.i = i /\ call.old = central[i] /\ call.new = new
        /\ call.who = a.who /\ call.left = a.left \ {i} /\ call.rest \subseteq cs
        /\ call.push => call.rest = cs
        /\ call.pc = IF a.op \in PushFirst THEN "push" ELSE "commit"
    BY DEF CallOn
  <2>3. PICK b : b = call
    OBVIOUS
  <2>4. ed' = [ed EXCEPT ![e] = b]
    BY <1>0, <1>4, <2>1, <2>3 DEF NextInbound
  <2> HIDE DEF call
  <2>5. b.pc # "idle"
    BY <2>2, <2>3
  <2>6. ASSUME Alike(a)
        PROVE  Alike(b)
    <3>1. /\ b.op = a.op /\ b.i = i /\ b.old = central[i] /\ b.new = new
          /\ b.who = a.who /\ b.left = a.left \ {i} /\ b.rest \subseteq cs
          /\ b.push => b.rest = cs
          /\ b.pc = IF a.op \in PushFirst THEN "push" ELSE "commit"
      BY <2>2, <2>3
    <3> QED BY ZenonT(60), <1>1, <1>2, <2>1, <2>6, <3>1, NextAlike
  <2>7. locals' = 0 => Alike(b)'
    BY <1>1, <1>3, <2>6, SameRows
  <2> QED BY <1>1, <1>3, <2>4, <2>5, <2>7, CallerMoves
<1>5. CASE i \notin Homes(a.who)
  <2>1. PICK b : b = IF a.left \ {i} = {} THEN IdleCall ELSE [a EXCEPT !.left = a.left \ {i}]
    OBVIOUS
  <2>2. ed' = [ed EXCEPT ![e] = b]
    BY <1>0, <1>5, <2>1 DEF NextInbound
  <2>3. b.pc = "idle" => b = IdleCall
    BY <1>1, <1>2, <2>1 DEF CallType
  <2>4. locals # 0
    BY <1>1, <1>3, <1>5 DEF Alike, Stands, Homes, Rows
  <2> QED BY <1>1, <1>3, <2>2, <2>3, <2>4, CallerMoves
<1> QED BY <1>4, <1>5

LEMMA CommitPushes ==
    ASSUME TypeInv, NEW e \in Editors, Commit(e), MarkNodeDirty, ed[e].op \notin PushFirst
    PROVE  LET drop == ed[e].op \in {"remove", "enable"} /\ ~online
           IN ed' = [ed EXCEPT ![e] = [ed[e] EXCEPT !.pc = "push", !.push = @ /\ ~drop,
                                                    !.rest = IF drop THEN {} ELSE @]]
<1>1. dirtyAt' # dirtyAt
  BY DEF MarkNodeDirty, TypeInv, CountInv
<1> QED BY <1>1 DEF Commit, TypeInv, EdInv

LEMMA CommitStep ==
    ASSUME TypeInv, AlikeInv, SureCommit, NEW e \in Editors, Commit(e)
    PROVE  AlikeInv'
<1>0. PICK a : a = ed[e]
  OBVIOUS
<1>1. /\ a.pc = "commit" /\ a.pc \in Working /\ Before(a) /\ a.pc # "idle"
      /\ UNCHANGED <<adopted, tomb, fp, job, locals>>
  BY <1>0 DEF Commit, Working, Before
<1>2. /\ a \in CallType /\ GoodCall(a) /\ a.left \subseteq Inbounds /\ a.who \subseteq Clients
      /\ a.i \in Inbounds /\ (a.op \in ClientOps => a.new \in Config)
      /\ a.op \in ClientOps \cup RowOps /\ (a.op # "drop" => a.new \in Config)
  BY <1>0, <1>1, CallParts DEF GoodCall
<1>3. /\ job.pc = "idle" /\ \A f \in Editors \ {e} : ed[f].pc = "idle"
      /\ locals = 0 => Alike(a)
  BY <1>0, <1>1, OnlyCaller
<1>4. PushFirst \subseteq ClientOps /\ PushFirst \cap RowOps = {}
  BY DEF PushFirst, ClientOps, RowOps
<1>5. CASE Fails /\ Leave(e) /\ UNCHANGED <<central, dirty, dirtyAt>>
  <2>1. a.op \notin PushFirst \cup {"delete"} /\ node' = node
    BY <1>0, <1>1, <1>5 DEF SureCommit, Fails, TypeInv, CountInv
  <2>2. ed' = [ed EXCEPT ![e] = Remainder(a)]
    BY <1>0, <1>5, Leaves
  <2>3. ASSUME locals' = 0
        PROVE  Alike(Remainder(a))'
    <3>1. Alike(a)
      BY <1>1, <1>3, <2>3
    <3>2. a.left = {} /\ a.who = {}
      BY <2>1, <3>1 DEF Alike, Shape, Deletions, PushFirst
    <3>3. Agrees(central[a.i], node[a.i], fp[a.i])
      BY <1>1, <1>2, <2>1, <3>1 DEF Alike, Prints, Target
    <3>4. \A j \in Inbounds : Agrees(central[j], node[j], fp[j])
      BY <3>1, <3>2, <3>3 DEF Alike, Prints
    <3>5. dirty' \/ Same'
      BY <1>1, <1>5, <2>1, <3>1 DEF Alike, Clean, Same
    <3>6. Shape(a) /\ Buried(a)
      BY <3>1 DEF Alike
    <3>7. /\ Of(a.who) = {} /\ (adopted' \/ tomb' = {})
          /\ \A j \in Inbounds : central'[j] # None =>
                central'[j].clients \cap Of(tomb') \subseteq Of(a.who)
      BY <1>1, <1>5, <3>2, <3>6, OfParts DEF Buried
    <3>8. \A j \in Inbounds : Agrees(central'[j], node'[j], fp'[j])
      BY <1>1, <1>5, <2>1, <3>4
    <3> QED BY <3>2, <3>5, <3>6, <3>7, <3>8, LeftAlike
  <2>4. Remainder(a).pc = "idle" => Remainder(a) = IdleCall
    BY RemainderParts
  <2> QED BY <1>1, <1>3, <2>2, <2>3, <2>4, CallerMoves
<1>6. CASE central' = [central EXCEPT ![a.i] = Committed(a)] /\ MarkNodeDirty /\ node' = node
  <2>1. dirty' = TRUE
    BY <1>6 DEF MarkNodeDirty
  <2>2. ASSUME Alike(a)
        PROVE  /\ central'[a.i] = a.new
               /\ \A j \in Inbounds \ {a.i} : central'[j] = central[j]
    <3>1. central[a.i] = a.old /\ a.old \in Config /\ a.old # None
      BY <1>1, <2>2, NoneAssumption DEF Alike, Stands, Shape
    <3>2. Committed(a) = a.new
      <4>1. CASE a.op = "enable"
        <5>1. a.new = [a.old EXCEPT !.enable = ~@]
          BY <1>1, <2>2, <4>1 DEF Alike, Shape
        <5>2. a.new.enable = ~a.old.enable
          BY <3>1, <5>1 DEF Config
        <5>3. Committed(a) = [a.old EXCEPT !.enable = a.new.enable]
          BY <3>1, <4>1 DEF Committed
        <5> QED BY <5>1, <5>2, <5>3
      <4>2. CASE a.op # "enable"
        BY <4>2 DEF Committed
      <4> QED BY <4>1, <4>2
    <3> QED BY <1>2, <1>6, <3>2 DEF TypeInv, RowInv
  <2>3. ASSUME Alike(a)
        PROVE  /\ \A j \in a.left : j # a.i /\ central'[j] # None /\ central'[j].clients \cap Of(a.who) # {}
               /\ \A j \in Inbounds : central'[j] # None /\ j \notin a.left =>
                     central'[j].clients \cap Of(a.who) = {}
               /\ \A j \in Inbounds : central'[j] # None =>
                     central'[j].clients \cap Of(tomb') \subseteq Of(a.who)
    <3>1. a.i \notin a.left
      BY <1>1, <2>3 DEF Alike, Shape
    <3>2. a.new # None =>
             a.new.clients \cap Of(a.who) = {} /\ a.new.clients \cap Of(tomb') \subseteq Of(a.who)
      BY <1>1, <2>3, OfParts DEF Alike, Shape, Buried
    <3> QED BY <1>1, <1>2, <2>2, <2>3, <3>1, <3>2 DEF Alike, Stands, Buried
  <2>4. CASE a.op \in PushFirst /\ Leave(e)
    <3>1. ed' = [ed EXCEPT ![e] = Remainder(a)]
      BY <1>0, <2>4, Leaves
    <3>2. ASSUME locals' = 0
          PROVE  Alike(Remainder(a))'
      <4>1. Alike(a)
        BY <1>1, <1>3, <3>2
      <4>2. Agrees(central'[a.i], node'[a.i], fp'[a.i])
        BY <1>1, <1>2, <1>6, <2>2, <4>1 DEF Alike, Prints, Target, Agrees
      <4>3. \A j \in Inbounds :
               /\ j \in a.left => Awaiting(a, central'[j], node'[j], fp'[j])
               /\ j \notin a.left => Agrees(central'[j], node'[j], fp'[j])
        BY <1>1, <1>6, <2>2, <2>3, <4>1, <4>2 DEF Alike, Prints
      <4>4. Shape(a) /\ (adopted' \/ tomb' = {})
        BY <1>1, <4>1 DEF Alike, Buried
      <4> QED BY <2>1, <2>3, <4>1, <4>3, <4>4, LeftAlike
    <3>3. Remainder(a).pc = "idle" => Remainder(a) = IdleCall
      BY RemainderParts
    <3> QED BY <1>1, <1>3, <3>1, <3>2, <3>3, CallerMoves
  <2>5. CASE a.op \notin PushFirst
    <3> DEFINE drop == ed[e].op \in {"remove", "enable"} /\ ~online
               p == ed[e].push /\ ~drop
               call == [ed[e] EXCEPT !.pc = "push", !.push = p, !.rest = IF drop THEN {} ELSE @]
    <3>1. ed' = [ed EXCEPT ![e] = call]
      <4>1. ed[e].op \notin PushFirst /\ MarkNodeDirty
        BY <1>0, <1>6, <2>5
      <4> QED BY <4>1, CommitPushes, Zenon
    <3>p. p => ed[e].push /\ ~drop
      OBVIOUS
    <3> HIDE DEF drop, p
    <3>c. /\ call.pc = "push" /\ call.op = a.op /\ call.i = a.i /\ call.old = a.old
          /\ call.new = a.new /\ call.who = a.who /\ call.left = a.left
          /\ call.failed = a.failed /\ call.push = p
          /\ call.rest = IF drop THEN {} ELSE a.rest
      BY <1>0, <1>2 DEF CallType
    <3> HIDE DEF call
    <3>b. PICK b : b = call
      OBVIOUS
    <3>2. /\ ed' = [ed EXCEPT ![e] = b]
          /\ b.pc = "push" /\ b.op = a.op /\ b.i = a.i /\ b.old = a.old /\ b.new = a.new
          /\ b.who = a.who /\ b.left = a.left /\ b.failed = a.failed /\ b.rest \subseteq a.rest
          /\ b.push => a.push /\ b.rest = a.rest
          /\ b.pc \in Working /\ ~Before(b)
      BY <1>0, <2>5, <3>1, <3>p, <3>c, <3>b DEF Working, Before
    <3>3. ASSUME Alike(a)
          PROVE  Alike(b)'
      <4>1. Shape(b)
        <5>1. Of(b.rest) \subseteq Of(a.rest)
          BY <3>2, OfParts
        <5> QED BY <1>1, <3>2, <3>3, <5>1 DEF Alike, Shape
      <4>2. Target(b, central'[a.i], node'[a.i], fp'[a.i])
        <5>1. Target(a, central[a.i], node[a.i], fp[a.i])
          BY <1>2, <3>3 DEF Alike, Prints
        <5>2. a.op \in RowOps /\ a.push => a.rest # {}
          BY <1>1, <3>3 DEF Alike, Shape
        <5>3. \A n : b.push /\ Sending(a, n) => Sending(b, n)
          BY <3>2 DEF Sending
        <5> QED BY <1>1, <1>6, <3>2, <5>1, <5>2, <5>3 DEF Target
      <4>3. Prints(b)'
        <5>1. \A j \in a.left : Awaiting(b, central'[j], node'[j], fp'[j])
          BY <1>1, <1>2, <1>6, <2>2, <2>3, <3>2, <3>3 DEF Alike, Prints, Awaiting
        <5> QED BY <1>1, <1>6, <2>2, <3>2, <3>3, <4>2, <5>1 DEF Alike, Prints
      <4>4. Stands(b)'
        BY <2>1, <2>2, <2>3, <3>2, <3>3 DEF Stands
      <4>5. Buried(b)'
        BY <1>1, <2>3, <3>2, <3>3 DEF Alike, Buried
      <4>6. Clean(b)' /\ Shape(b)'
        BY <2>1, <4>1 DEF Clean, Shape
      <4> QED BY <4>3, <4>4, <4>5, <4>6 DEF Alike
    <3> QED BY <1>1, <1>3, <3>2, <3>3, CallerMoves
  <2> QED BY <1>0, <1>2, <1>6, <2>4, <2>5 DEF Commit
<1> QED BY <1>0, <1>5, <1>6 DEF Commit

-----------------------------------------------------------------------------
(* The requests of a call.                                                   *)

With(r, xs) == [r EXCEPT !.clients = xs]

LEMMA SetClients ==
    ASSUME NEW r \in Config, NEW xs \in SUBSET Entries
    PROVE  /\ With(r, xs) \in Config /\ With(r, xs) # None
           /\ With(r, xs).enable = r.enable /\ With(r, xs).clients = xs
<1>1. With(r, xs) \in Config
  BY WithClients DEF With
<1> QED BY <1>1, WithClients, ConfigParts DEF With

(* What the request for c makes of the row n of the call's inbound.           *)
Changed(a, c, n) ==
    CASE a.op \in Deletions \cup {"remove", "detach"} -> n.clients \ Of({c})
      [] a.op = "add" -> IF n.clients \cap Of({c}) # {} THEN n.clients
                         ELSE n.clients \cup (a.new.clients \cap Of({c}))
      [] OTHER -> IF n.clients \cap Of({c}) = {} THEN n.clients
                  ELSE (n.clients \ Of({c})) \cup (a.new.clients \ a.old.clients)

LEMMA ChangedType ==
    ASSUME NEW a, a.new \in Config, NEW c, NEW n \in Config
    PROVE  Changed(a, c, n) \in SUBSET Entries
<1>1. n.clients \subseteq Entries /\ a.new.clients \subseteq Entries
  BY ConfigParts
<1> QED BY <1>1 DEF Changed

LEMMA SameClients == ASSUME NEW r \in Config PROVE With(r, r.clients) = r
BY DEF Config, With

(* Without a deletion, only the call's own inbound changes on the node.      *)
LEMMA RequestedParts ==
    ASSUME TypeInv, NEW a, a.i \in Inbounds, NEW c, Possible(a, c),
           a.op \in ClientOps, a.new \in Config, node' = Requested(a, c)
    PROVE  /\ a.op \in Deletions => \A j \in Inbounds :
                 node'[j] = IF node[j] = None THEN None ELSE With(node[j], Changed(a, c, node[j]))
           /\ a.op \notin Deletions =>
                 /\ \A j \in Inbounds \ {a.i} : node'[j] = node[j]
                 /\ node[a.i] \in Config
                 /\ node'[a.i] = With(node[a.i], Changed(a, c, node[a.i]))
<1>1. node \in [Inbounds -> Row]
  BY DEF TypeInv, RowInv
<1>2. a.op \notin Deletions => node[a.i] \in Config
  BY <1>1, RowCases DEF Possible, Deletions
<1>3. CASE a.op \in Deletions
  BY <1>1, <1>3 DEF Requested, With, Deletions, Changed
<1>4. CASE a.op \in {"remove", "detach"}
  BY <1>1, <1>2, <1>4 DEF Requested, With, Deletions, Changed
<1>5. CASE a.op = "add"
  <2>1. node' = IF node[a.i].clients \cap Of({c}) # {} THEN node
                ELSE [node EXCEPT ![a.i].clients = @ \cup (a.new.clients \cap Of({c}))]
    BY <1>5 DEF Requested
  <2>2. Changed(a, c, node[a.i]) =
           IF node[a.i].clients \cap Of({c}) # {} THEN node[a.i].clients
           ELSE node[a.i].clients \cup (a.new.clients \cap Of({c}))
    BY <1>5 DEF Changed, Deletions
  <2> QED BY <1>1, <1>2, <1>5, <2>1, <2>2, SameClients DEF With, Deletions
<1>6. CASE a.op \in Updates
  <2>1. node' = IF node[a.i].clients \cap Of({c}) = {} THEN node
                ELSE [node EXCEPT ![a.i].clients = (@ \ Of({c})) \cup (a.new.clients \ a.old.clients)]
    BY <1>6 DEF Requested, Updates
  <2>2. Changed(a, c, node[a.i]) =
           IF node[a.i].clients \cap Of({c}) = {} THEN node[a.i].clients
           ELSE (node[a.i].clients \ Of({c})) \cup (a.new.clients \ a.old.clients)
    BY <1>6 DEF Changed, Deletions, Updates
  <2> QED BY ZenonT(60), <1>1, <1>2, <1>6, <2>1, <2>2, SameClients DEF With, Deletions, Updates
<1> QED BY <1>3, <1>4, <1>5, <1>6 DEF ClientOps, Deletions, Updates

(* A request takes nothing from a row that serves the call's row, nor from    *)
(* one that serves a row without the client that it deletes.                  *)
LEMMA ChangedServes ==
    ASSUME NEW a, a.op \in ClientOps, Shape(a), a.pc \in Working, a.new \in Config,
           NEW c \in a.rest, NEW n \in Config
    PROVE  /\ Serves(n, a.new) => Serves(With(n, Changed(a, c, n)), a.new)
           /\ a.op \in Deletions => \A r \in Config :
                 Serves(n, r) /\ r.clients \cap Of({c}) = {} => Serves(With(n, Changed(a, c, n)), r)
<1> DEFINE xs == Changed(a, c, n)
<1>1. With(n, xs) # None /\ With(n, xs).enable = n.enable /\ With(n, xs).clients = xs
  BY ChangedType, SetClients
<1>2. a.op \notin Updates => \A r \in Config : Serves(n, r) /\ r.clients \cap Of({c}) = {}
         /\ a.op # "add" => xs = n.clients
  BY ServesParts DEF Changed, ClientOps, Deletions, Updates
<1>3. Of({c}) \subseteq Of(a.rest)
  BY OfParts
<1>4. a.op \in {"remove", "detach"} \cup Deletions => a.new.clients \cap Of({c}) = {}
  BY <1>3 DEF Shape
<1>5. CASE a.op \in {"remove", "detach"} \cup Deletions
  <2>1. \A r \in Config : Serves(n, r) /\ r.clients \cap Of({c}) = {} => Serves(With(n, xs), r)
    BY <1>1, <1>2, <1>5, ServesParts DEF Deletions, Updates
  <2> QED BY <1>4, <1>5, <2>1
<1>6. CASE a.op = "add"
  <2>1. xs = n.clients \/ xs = n.clients \cup (a.new.clients \cap Of({c}))
    BY <1>6 DEF Changed, Deletions
  <2>2. Serves(n, a.new) => n.clients \subseteq xs /\ xs \subseteq a.new.clients
    BY <2>1, ServesParts
  <2> QED BY <1>1, <1>6, <2>2, ServesParts DEF Deletions
<1>7. CASE a.op \in Updates
  <2>1. a.new.clients = (a.old.clients \ Of({c})) \cup (a.new.clients \ a.old.clients)
    BY <1>7 DEF Shape
  <2>2. xs = n.clients \/ xs = (n.clients \ Of({c})) \cup (a.new.clients \ a.old.clients)
    BY <1>7 DEF Changed, Deletions, Updates
  <2>3. Serves(n, a.new) => /\ xs \subseteq a.new.clients
                            /\ \A x \in a.new.clients : x[2] \notin Off => x \in xs
    <3> SUFFICES ASSUME Serves(n, a.new)
                 PROVE  /\ xs \subseteq a.new.clients
                        /\ \A x \in a.new.clients : x[2] \notin Off => x \in xs
      OBVIOUS
    <3>1. /\ n.clients \subseteq a.new.clients
          /\ \A x \in a.new.clients : x[2] \notin Off => x \in n.clients
      BY ServesParts
    <3> HIDE DEF xs
    <3>2. CASE xs = n.clients
      BY <3>1, <3>2
    <3>3. CASE xs = (n.clients \ Of({c})) \cup (a.new.clients \ a.old.clients)
      <4> SUFFICES ASSUME NEW x \in a.new.clients, x[2] \notin Off, x \notin n.clients \ Of({c})
                   PROVE  x \notin a.old.clients
        BY <3>1, <3>3
      <4> QED BY <2>1, <3>1
    <3> QED BY <2>2, <3>2, <3>3
  <2>4. Serves(n, a.new) => n.enable = a.new.enable
    BY ServesParts
  <2> QED BY <1>1, <1>7, <2>3, <2>4, ServesParts DEF Deletions, Updates
<1> QED BY <1>5, <1>6, <1>7 DEF ClientOps, Deletions, Updates

(* A request brings the row nearer to the call's row.                         *)
LEMMA ChangedSending ==
    ASSUME NEW a, a.op \in ClientOps, Shape(a), a.pc \in Working, a.new \in Config,
           NEW c \in a.rest, NEW n \in Config, Sending(a, n),
           NEW b, b.op = a.op, b.old = a.old, b.new = a.new, b.rest = a.rest \ {c}
    PROVE  Sending(b, With(n, Changed(a, c, n)))
<1> DEFINE xs == Changed(a, c, n)
           m == With(n, xs)
<1>1. m \in Config /\ m.enable = n.enable /\ m.clients = xs /\ xs \subseteq Entries
  BY ChangedType, SetClients
<1>2. n.clients \subseteq Entries /\ a.new.clients \subseteq Entries
  BY ConfigParts
<1>3. \A x \in Entries : /\ x \in Of(a.rest) <=> x \in Of({c}) \/ x \in Of(b.rest)
                         /\ ~(x \in Of({c}) /\ x \in Of(b.rest))
  BY OfParts
<1>4. Built(a.new).clients = {x \in a.new.clients : x[2] \notin Off}
  BY BuiltParts
<1>5. CASE a.op \in Updates
  <2>1. /\ a.rest = {c} /\ b.rest = {} /\ a.old \in Config /\ a.new.enable = a.old.enable
        /\ a.new.clients = (a.old.clients \ Of({c})) \cup (a.new.clients \ a.old.clients)
    BY <1>5 DEF Shape
  <2>2. Serves(n, a.old) /\ n.clients \cap Of({c}) # {}
    BY <1>5, <2>1 DEF Sending
  <2>3. xs = (n.clients \ Of({c})) \cup (a.new.clients \ a.old.clients)
    BY <1>5, <2>2 DEF Changed, Deletions, Updates
  <2>4. /\ n.enable = a.old.enable /\ n.clients \subseteq a.old.clients
        /\ \A x \in a.old.clients : x[2] \notin Off => x \in n.clients
    BY <2>1, <2>2, ServesParts
  <2>5. xs \subseteq a.new.clients /\ \A x \in a.new.clients : x[2] \notin Off => x \in xs
    BY <2>1, <2>3, <2>4
  <2> HIDE DEF m, xs
  <2>6. Serves(m, a.new)
    BY <1>1, <2>1, <2>4, <2>5, ServesParts, ConfigParts
  <2> QED BY <1>5, <2>1, <2>6 DEF Sending, m, xs
<1>6. CASE a.op \in {"remove", "detach"} \cup Deletions
  <2>1. xs = n.clients \ Of({c})
    BY <1>6 DEF Changed, Deletions
  <2>2. a.new.clients \cap Of(a.rest) = {}
    BY <1>6 DEF Shape
  <2>3. /\ n.enable = a.new.enable /\ n.clients \ Of(a.rest) \subseteq a.new.clients
        /\ Built(a.new).clients \ Of(a.rest) \subseteq n.clients
    BY <1>6 DEF Sending, Deletions, Updates
  <2>4. /\ xs \ Of(b.rest) \subseteq a.new.clients
        /\ Built(a.new).clients \ Of(b.rest) \subseteq xs
    BY <1>2, <1>3, <1>4, <2>1, <2>2, <2>3
  <2> HIDE DEF m, xs
  <2>5. Sending(b, m)
    BY <1>1, <1>6, <2>3, <2>4 DEF Sending, Deletions, Updates
  <2> QED BY <2>5 DEF m, xs
<1>7. CASE a.op = "add"
  <2>1. /\ n.enable = a.new.enable /\ n.clients \ Of(a.rest) \subseteq a.new.clients
        /\ Built(a.new).clients \ Of(a.rest) \subseteq n.clients
        /\ n.clients \cap Of(a.rest) = {}
    BY <1>7 DEF Sending, Updates
  <2>2. n.clients \cap Of({c}) = {}
    BY <1>2, <1>3, <2>1
  <2>3. xs = n.clients \cup (a.new.clients \cap Of({c}))
    BY <1>7, <2>2 DEF Changed, Deletions
  <2>4. /\ xs \ Of(b.rest) \subseteq a.new.clients
        /\ Built(a.new).clients \ Of(b.rest) \subseteq xs
        /\ xs \cap Of(b.rest) = {}
    BY <1>2, <1>3, <1>4, <2>1, <2>3
  <2> HIDE DEF m, xs
  <2>5. Sending(b, m)
    BY <1>1, <1>7, <2>1, <2>4 DEF Sending, Updates
  <2> QED BY <2>5 DEF m, xs
<1> QED BY <1>5, <1>6, <1>7 DEF ClientOps, Deletions, Updates

LEMMA RequestAlike ==
    ASSUME TypeInv, NEW a, a.i \in Inbounds, a.left \subseteq Inbounds, a.who \subseteq Clients,
           a.pc = "push", a.op \in ClientOps, a.new \in Config, Alike(a),
           NEW c \in a.rest, c \in Clients,
           a.op \in Deletions => \A j \in Inbounds :
              node'[j] = IF node[j] = None THEN None ELSE With(node[j], Changed(a, c, node[j])),
           a.op \notin Deletions => \A j \in Inbounds \ {a.i} : node'[j] = node[j],
           a.op \notin Deletions => node[a.i] \in Config,
           a.op \notin Deletions => node'[a.i] = With(node[a.i], Changed(a, c, node[a.i])),
           NEW b, b.pc = "push", b.op = a.op, b.i = a.i, b.old = a.old, b.new = a.new,
           b.push = a.push, b.who = a.who, b.left = a.left,
           b.rest \subseteq a.rest, ~b.failed => ~a.failed /\ b.rest = a.rest \ {c},
           UNCHANGED <<central, fp, tomb, dirty, adopted>>
    PROVE  Alike(b)'
<1>1. Shape(a) /\ a.pc \in Working /\ a.op \notin RowOps
  BY DEF Alike, Working, ClientOps, RowOps
<1>2. /\ a.op \in Deletions => c \in a.who
      /\ a.i \notin a.left
      /\ a.left # {} \/ a.who # {} => a.op \in Deletions
  BY <1>1 DEF Shape
<1>3. \A j \in Inbounds : node[j] # None => node[j] \in Config
  BY RowType
<1>4. a.op \in Deletions => \A j \in Inbounds : node[j] # None =>
         /\ node'[j] \in Config /\ node'[j].enable = node[j].enable
         /\ node'[j].clients = node[j].clients \ Of({c})
         /\ \A r \in Config : Serves(node[j], r) /\ r.clients \cap Of({c}) = {} => Serves(node'[j], r)
  <2> SUFFICES ASSUME a.op \in Deletions, NEW j \in Inbounds, node[j] # None
               PROVE  /\ node'[j] \in Config /\ node'[j].enable = node[j].enable
                      /\ node'[j].clients = node[j].clients \ Of({c})
                      /\ \A r \in Config : Serves(node[j], r) /\ r.clients \cap Of({c}) = {}
                                              => Serves(node'[j], r)
    OBVIOUS
  <2>1. PICK n \in Config : n = node[j]
    BY <1>3
  <2>2. node'[j] = With(n, Changed(a, c, n))
    BY <2>1
  <2>3. Changed(a, c, n) = n.clients \ Of({c})
    BY DEF Changed, Deletions
  <2>4. \A r \in Config : Serves(n, r) /\ r.clients \cap Of({c}) = {}
                             => Serves(With(n, Changed(a, c, n)), r)
    BY <1>1, ChangedServes
  <2>5. PICK xs \in SUBSET Entries : xs = Changed(a, c, n)
    BY ChangedType
  <2>6. PICK m : m = With(n, xs)
    OBVIOUS
  <2>7. m \in Config /\ m.enable = n.enable /\ m.clients = xs
    BY <2>6, SetClients
  <2>8. node'[j] = m
    BY <2>2, <2>5, <2>6
  <2>9. \A r \in Config : Serves(n, r) /\ r.clients \cap Of({c}) = {} => Serves(m, r)
    BY <2>4, <2>5, <2>6
  <2> QED BY <2>1, <2>3, <2>5, <2>7, <2>8, <2>9
<1>5. Of({c}) \subseteq Of(a.rest) /\ Of(b.rest) \subseteq Of(a.rest)
      /\ (a.op \in Deletions => Of({c}) \subseteq Of(a.who))
  BY <1>2, OfParts
<1>6. Target(b, central'[a.i], node'[a.i], fp'[a.i])
  <2>0. PICK n, m : n = node[a.i] /\ m = node'[a.i]
    OBVIOUS
  <2>1. Target(a, central[a.i], n, fp[a.i])
    BY <2>0 DEF Alike, Prints
  <2>2. n # None => n \in Config /\ m = With(n, Changed(a, c, n))
    BY <1>3, <2>0
  <2>3. Agrees(a.new, m, fp[a.i])
    <3>1. Serves(n, a.new) => n # None
      BY DEF Serves
    <3>2. Serves(n, a.new) => Serves(m, a.new)
      <4> SUFFICES ASSUME Serves(n, a.new) PROVE Serves(m, a.new)
        OBVIOUS
      <4>1. n \in Config /\ m = With(n, Changed(a, c, n))
        BY <2>2, <3>1
      <4>2. Serves(With(n, Changed(a, c, n)), a.new)
        BY <1>1, <4>1, ChangedServes
      <4> QED BY <4>1, <4>2
    <3> QED BY <2>1, <3>2 DEF Target, Agrees
  <2>4. ASSUME ~b.failed, Sending(a, n)
        PROVE  Sending(b, m)
    <3>1. n # None
      BY <2>4, NoneAssumption DEF Sending, Serves
    <3> QED BY <1>1, <2>2, <2>4, <3>1, ChangedSending
  <2>5. Target(b, central[a.i], m, fp[a.i])
    BY <1>1, <2>1, <2>3, <2>4 DEF Target
  <2> QED BY <2>0, <2>5
<1>7. Prints(b)'
  <2>1. ASSUME NEW j \in a.left
        PROVE  Awaiting(b, central'[j], node'[j], fp'[j])
    <3>1. Awaiting(a, central[j], node[j], fp[j]) /\ j \in Inbounds /\ a.op \in Deletions
      BY <1>2 DEF Alike, Prints
    <3>2. central[j] \in Config
      BY <3>1, RowType DEF Alike, Stands
    <3>3. IsPayload(fp[j], central[j]) =>
             /\ node'[j] \in Config /\ node'[j].enable = central[j].enable
             /\ node'[j].clients \subseteq central[j].clients
             /\ Built(central[j]).clients \ Of(a.who) \subseteq node'[j].clients
      <4>1. IsPayload(fp[j], central[j]) =>
               /\ node[j] \in Config /\ node[j].enable = central[j].enable
               /\ node[j].clients \subseteq central[j].clients
               /\ Built(central[j]).clients \ Of(a.who) \subseteq node[j].clients
        BY <3>1 DEF Awaiting
      <4> QED BY <1>4, <1>5, <3>1, <4>1, NoneAssumption
    <3>4. PICK cut \in Config : /\ cut = [central[j] EXCEPT !.clients = @ \ Of(a.who)]
                                /\ cut.clients = central[j].clients \ Of(a.who)
      <4>1. central[j].clients \ Of(a.who) \subseteq Entries
        BY <3>2, ConfigParts
      <4> QED BY <3>2, <4>1, WithClients
    <3>5. Agrees(cut, node'[j], fp[j])
      <4>1. Agrees(cut, node[j], fp[j])
        BY <3>1, <3>4 DEF Awaiting
      <4>2. Serves(node[j], cut) => Serves(node'[j], cut)
        <5>1. cut.clients \cap Of({c}) = {}
          BY <1>5, <3>1, <3>4
        <5>2. Serves(node[j], cut) => node[j] # None
          BY DEF Serves
        <5> QED BY <1>4, <3>1, <5>1, <5>2
      <4> QED BY <4>1, <4>2 DEF Agrees
    <3> QED BY <3>3, <3>4, <3>5 DEF Awaiting
  <2>2. ASSUME NEW j \in Inbounds, j \notin a.left, j # a.i
        PROVE  Agrees(central'[j], node'[j], fp'[j])
    <3>1. Agrees(central[j], node[j], fp[j])
      BY <2>2 DEF Alike, Prints
    <3>2. CASE a.op \notin Deletions
      BY <2>2, <3>1, <3>2
    <3>3. CASE a.op \in Deletions /\ central[j] # None
      <4>1. central[j].clients \cap Of({c}) = {}
        BY <1>5, <2>2, <3>3 DEF Alike, Stands
      <4>2. central[j] \in Config
        BY <3>3, RowType
      <4>3. Serves(node[j], central[j]) => Serves(node'[j], central[j])
        <5>1. Serves(node[j], central[j]) => node[j] # None
          BY DEF Serves
        <5> QED BY <1>4, <3>3, <4>1, <4>2, <5>1
      <4> QED BY <3>1, <4>3 DEF Agrees
    <3> QED BY <3>2, <3>3 DEF Agrees
  <2> QED BY <1>6, <2>1, <2>2 DEF Prints
<1>8. Shape(b)'
  BY <1>1, <1>5 DEF Shape
<1>9. Stands(b)' /\ Buried(b)'
  BY <1>1 DEF Alike, Stands, Before, Buried, Working
<1>10. Clean(b)'
  BY DEF Alike, Stands, Clean, Working
<1> QED BY <1>7, <1>8, <1>9, <1>10 DEF Alike

(* A request that changes nothing on the node.                               *)
LEMMA FailedAlike ==
    ASSUME NEW a, a.pc = "push", Alike(a), NEW b, b.pc = "push", b.op = a.op, b.i = a.i,
           b.old = a.old, b.new = a.new, b.push = a.push, b.who = a.who, b.left = a.left,
           b.rest \subseteq a.rest, b.failed
    PROVE  Alike(b)
<1>1. Shape(b)
  <2>1. Of(b.rest) \subseteq Of(a.rest)
    BY OfParts
  <2> QED BY <2>1 DEF Alike, Shape, Working
<1>2. Prints(b)
  <2>1. \A c, n, f : Target(a, c, n, f) => Target(b, c, n, f)
    BY DEF Target
  <2>2. \A c, n, f : Awaiting(a, c, n, f) => Awaiting(b, c, n, f)
    BY DEF Awaiting
  <2> QED BY <2>1, <2>2 DEF Alike, Prints
<1>3. Stands(b) /\ Buried(b) /\ Clean(b)
  BY DEF Alike, Stands, Before, Buried, Clean, Working
<1> QED BY <1>1, <1>2, <1>3 DEF Alike

LEMMA SentParts ==
    ASSUME NEW a \in CallType, NEW c, NEW ok \in BOOLEAN
    PROVE  /\ Sent(a, c, ok).pc = a.pc /\ Sent(a, c, ok).op = a.op /\ Sent(a, c, ok).i = a.i
           /\ Sent(a, c, ok).old = a.old /\ Sent(a, c, ok).new = a.new
           /\ Sent(a, c, ok).push = a.push /\ Sent(a, c, ok).who = a.who
           /\ Sent(a, c, ok).left = a.left /\ Sent(a, c, ok).rest \subseteq a.rest
           /\ ~ok => Sent(a, c, ok).failed
           /\ ok => Sent(a, c, ok).failed = a.failed /\ Sent(a, c, ok).rest = a.rest \ {c}
<1>1. a.failed \in BOOLEAN
  BY DEF CallType
<1> QED BY <1>1 DEF Sent, CallType

LEMMA PushClientStep ==
    ASSUME TypeInv, AlikeInv, NEW e \in Editors, NEW c \in Clients, PushClient(e, c)
    PROVE  AlikeInv'
<1>0. PICK a : a = ed[e]
  OBVIOUS
<1>1. /\ a.pc = "push" /\ a.pc # "idle" /\ a.op \in ClientOps /\ c \in a.rest /\ a.pc \in Working
      /\ UNCHANGED <<central, dirty, adopted, fp, tomb, job, locals>>
  BY <1>0 DEF PushClient, db, Working
<1>2. /\ a \in CallType /\ GoodCall(a) /\ a.left \subseteq Inbounds /\ a.who \subseteq Clients
      /\ a.i \in Inbounds /\ a.new \in Config
  BY <1>0, <1>1, CallParts
<1>3. /\ job.pc = "idle" /\ \A f \in Editors \ {e} : ed[f].pc = "idle"
      /\ locals = 0 => Alike(a)
  BY <1>0, <1>1, OnlyCaller
<1>4. PICK ok \in BOOLEAN :
         /\ ed' = [ed EXCEPT ![e] = Sent(a, c, ok)]
         /\ \/ Possible(a, c) /\ node' = Requested(a, c)
            \/ ~ok /\ node' = node
  BY <1>0 DEF PushClient, Effect, Lost, Fails
<1>5. PICK b : b = Sent(a, c, ok)
  OBVIOUS
<1>6. /\ b.pc = "push" /\ b.op = a.op /\ b.i = a.i /\ b.old = a.old /\ b.new = a.new
      /\ b.push = a.push /\ b.who = a.who /\ b.left = a.left /\ b.rest \subseteq a.rest
      /\ ~ok => b.failed
      /\ ok => b.failed = a.failed /\ b.rest = a.rest \ {c}
  BY <1>1, <1>2, <1>5, SentParts
<1>7. ASSUME locals' = 0
      PROVE  Alike(b)'
  <2>1. Alike(a)
    BY <1>1, <1>3, <1>7
  <2>2. CASE ~ok /\ node' = node
    <3>1. Alike(b)
      BY <1>1, <1>6, <2>1, <2>2, FailedAlike
    <3> QED BY <1>1, <2>2, <3>1, SameRows
  <2>3. CASE Possible(a, c) /\ node' = Requested(a, c)
    <3>1. /\ a.op \in Deletions => \A j \in Inbounds :
                node'[j] = IF node[j] = None THEN None
                           ELSE With(node[j], Changed(a, c, node[j]))
          /\ a.op \notin Deletions => \A j \in Inbounds \ {a.i} : node'[j] = node[j]
          /\ a.op \notin Deletions => node[a.i] \in Config
          /\ a.op \notin Deletions => node'[a.i] = With(node[a.i], Changed(a, c, node[a.i]))
      BY <1>1, <1>2, <2>3, RequestedParts
    <3>2. ~b.failed => ~a.failed /\ b.rest = a.rest \ {c}
      BY <1>6
    <3> QED BY <1>1, <1>2, <1>6, <2>1, <3>1, <3>2, RequestAlike
  <2> QED BY <1>4, <2>2, <2>3
<1>8. b.pc # "idle" /\ ed' = [ed EXCEPT ![e] = b]
  BY <1>4, <1>5, <1>6
<1> QED BY <1>1, <1>3, <1>7, <1>8, CallerMoves

LEMMA PushRowStep ==
    ASSUME TypeInv, AlikeInv, NEW e \in Editors, PushRow(e)
    PROVE  AlikeInv'
<1>0. PICK a : a = ed[e]
  OBVIOUS
<1>1. /\ a.pc = "push" /\ a.pc # "idle" /\ a.op \in RowOps /\ a.pc \in Working
      /\ UNCHANGED <<central, dirty, adopted, fp, tomb, job, locals>>
  BY <1>0 DEF PushRow, db, Working
<1>2. a \in CallType /\ a.i \in Inbounds
  BY <1>0, <1>1, CallParts
<1>3. /\ job.pc = "idle" /\ \A f \in Editors \ {e} : ed[f].pc = "idle"
      /\ locals = 0 => Alike(a)
  BY <1>0, <1>1, OnlyCaller
<1>4. PICK ok \in BOOLEAN :
         /\ ed' = [ed EXCEPT ![e] = Sent(a, None, ok)]
         /\ \/ node' = [node EXCEPT ![a.i] = a.new]
            \/ ~ok /\ node' = node
  BY <1>0 DEF PushRow, Effect, Lost, Fails
<1>5. PICK b : b = Sent(a, None, ok)
  OBVIOUS
<1>6. /\ b.pc = "push" /\ b.op = a.op /\ b.i = a.i /\ b.old = a.old /\ b.new = a.new
      /\ b.push = a.push /\ b.who = a.who /\ b.left = a.left /\ b.rest \subseteq a.rest
      /\ ~ok => b.failed
  BY <1>1, <1>2, <1>5, SentParts
<1>7. ASSUME locals' = 0
      PROVE  Alike(b)'
  <2>1. Alike(a)
    BY <1>1, <1>3, <1>7
  <2>2. CASE ~ok /\ node' = node
    <3>1. Alike(b)
      BY <1>1, <1>6, <2>1, <2>2, FailedAlike
    <3> QED BY <1>1, <2>2, <3>1, SameRows
  <2>3. CASE node' = [node EXCEPT ![a.i] = a.new]
    <3>1. node'[a.i] = a.new /\ \A j \in Inbounds \ {a.i} : node'[j] = node[j]
      BY <1>2, <2>3 DEF TypeInv, RowInv
    <3>2. /\ a.op \notin Deletions /\ a.op \notin ClientOps /\ a.op \notin PushFirst
          /\ a.op \notin Updates /\ a.op \notin {"add", "remove", "detach"}
      BY <1>1 DEF Deletions, ClientOps, RowOps, PushFirst, Updates
    <3>3. a.left = {} /\ a.who = {} /\ Shape(b)
      BY <1>1, <1>6, <2>1, <3>2 DEF Alike, Shape
    <3>4. Target(b, central'[a.i], node'[a.i], fp'[a.i])
      <4>1. a.new # None => Serves(a.new, a.new)
        BY <1>2, RowCases, ServesItself DEF CallType
      <4> QED BY <1>1, <1>6, <3>1, <3>2, <4>1 DEF Target, Agrees
    <3>5. Prints(b)'
      BY <1>1, <1>6, <2>1, <3>1, <3>3, <3>4 DEF Alike, Prints
    <3>6. Stands(b)' /\ Buried(b)' /\ Clean(b)' /\ Shape(b)'
      BY <1>1, <1>6, <2>1, <3>2, <3>3 DEF Alike, Stands, Before, Buried, Clean, Shape
    <3> QED BY <3>5, <3>6 DEF Alike
  <2> QED BY <1>4, <2>2, <2>3
<1>8. b.pc # "idle" /\ ed' = [ed EXCEPT ![e] = b]
  BY <1>4, <1>5, <1>6
<1> QED BY <1>1, <1>3, <1>7, <1>8, CallerMoves

(* What is recorded at the end of the pushes is on the node.                 *)
LEMMA EndPushed ==
    ASSUME TypeInv, NEW a, Alike(a), a.pc = "push", a.rest = {}, a.i \in Inbounds,
           a.op \in ClientOps \cup RowOps, a.new \in Row,
           fp' = IF a.push /\ ~a.failed THEN Pushed(a) ELSE fp
    PROVE  /\ Agrees(a.new, node[a.i], fp'[a.i])
           /\ a.op \in ClientOps /\ a.push /\ ~a.failed => fp'[a.i] # a.old
           /\ \A j \in Inbounds \ {a.i} : fp'[j] = fp[j]
<1>1. Target(a, central[a.i], node[a.i], fp[a.i]) /\ a.pc \in Working /\ Shape(a)
  BY DEF Alike, Prints, Working
<1>2. CASE ~(a.push /\ ~a.failed)
  BY <1>1, <1>2 DEF Target
<1>3. CASE a.push /\ ~a.failed /\ a.op \in ClientOps /\ fp[a.i] # a.old
  BY <1>1, <1>3 DEF Target, Pushed
<1>4. CASE a.push /\ ~a.failed /\ a.op \in ClientOps /\ fp[a.i] = a.old
  <2>1. fp' = [fp EXCEPT ![a.i] = a.new]
    BY <1>4 DEF Pushed
  <2>2. a.new # a.old
    BY <1>1, <1>4 DEF Shape
  <2>3. Sending(a, node[a.i])
    BY <1>1, <1>4 DEF Target
  <2>4. Agrees(a.new, node[a.i], a.new)
    <3>1. Of(a.rest) = {}
      BY OfParts
    <3> QED BY <2>3, <3>1, NoneAssumption DEF Sending, Agrees, Serves
  <2> QED BY <2>1, <2>2, <2>4 DEF TypeInv, RowInv
<1>5. CASE a.push /\ ~a.failed /\ a.op \in RowOps /\ a.op \notin ClientOps
  <2>1. fp' = [fp EXCEPT ![a.i] = a.new]
    BY <1>5 DEF Pushed
  <2>2. node[a.i] = a.new
    BY <1>1, <1>5 DEF Target
  <2>3. a.new # None => Serves(a.new, a.new)
    BY RowCases, ServesItself
  <2> QED BY <1>5, <2>1, <2>2, <2>3 DEF TypeInv, RowInv, Agrees
<1> QED BY <1>2, <1>3, <1>4, <1>5

LEMMA EndPushStep ==
    ASSUME TypeInv, AlikeInv, NEW e \in Editors, EndPush(e)
    PROVE  AlikeInv'
<1>0. PICK a : a = ed[e]
  OBVIOUS
<1>1. /\ a.pc = "push" /\ a.rest = {} /\ a.pc # "idle" /\ a.pc \in Working
      /\ fp' = IF a.push /\ ~a.failed THEN Pushed(a) ELSE fp
      /\ UNCHANGED <<central, dirty, adopted, node, tomb, job, locals>>
  BY <1>0 DEF EndPush, db, counts, Working
<1>2. /\ a \in CallType /\ a.i \in Inbounds /\ a.op \in ClientOps \cup RowOps
      /\ a.new \in Row
  BY <1>0, <1>1, CallParts DEF GoodCall, CallType
<1>3. /\ job.pc = "idle" /\ \A f \in Editors \ {e} : ed[f].pc = "idle"
      /\ locals = 0 => Alike(a)
  BY <1>0, <1>1, OnlyCaller
<1>4. ASSUME Alike(a)
      PROVE  /\ Agrees(a.new, node[a.i], fp'[a.i])
             /\ a.op \in ClientOps /\ a.push /\ ~a.failed => fp'[a.i] # a.old
             /\ \A j \in Inbounds \ {a.i} : fp'[j] = fp[j]
             /\ Shape(a) /\ a.i \notin a.left
  BY <1>1, <1>2, <1>4, EndPushed DEF Alike, Shape
<1>5. CASE a.op \in PushFirst
  <2>1. PICK b : b = [a EXCEPT !.pc = "commit"]
    OBVIOUS
  <2>2. ed' = [ed EXCEPT ![e] = b]
    BY <1>0, <1>5, <2>1 DEF EndPush
  <2>3. /\ b.pc = "commit" /\ b.op = a.op /\ b.i = a.i /\ b.old = a.old /\ b.new = a.new
        /\ b.push = a.push /\ b.who = a.who /\ b.left = a.left /\ b.rest = a.rest
        /\ b.failed = a.failed /\ b.pc # "idle"
    BY <1>2, <2>1 DEF CallType
  <2>4. a.op \in ClientOps /\ a.op \notin RowOps
    BY <1>5 DEF PushFirst, ClientOps, RowOps
  <2>5. ASSUME Alike(a)
        PROVE  Alike(b)'
    <3>1. Shape(b)
      BY <1>1, <2>3, <2>4, <2>5 DEF Alike, Shape
    <3>2. Target(b, central'[a.i], node'[a.i], fp'[a.i])
      BY <1>1, <1>4, <1>5, <2>3, <2>4, <2>5 DEF Target
    <3>3. Prints(b)'
      <4>1. \A j \in a.left : Awaiting(b, central'[j], node'[j], fp'[j])
        <5>1. \A j \in a.left : j \in Inbounds \ {a.i} /\ Awaiting(a, central[j], node[j], fp[j])
          BY <1>0, <1>4, <2>5, CallParts DEF Alike, Prints
        <5> QED BY <1>1, <1>4, <2>3, <2>5, <5>1 DEF Awaiting
      <4> QED BY <1>1, <1>4, <2>3, <2>5, <3>2, <4>1 DEF Alike, Prints
    <3>4. Stands(b)'
      BY <1>1, <1>5, <2>3, <2>5 DEF Alike, Stands, Before
    <3>5. Buried(b)' /\ Clean(b)' /\ Shape(b)'
      BY <1>1, <1>5, <2>3, <2>5, <3>1 DEF Alike, Buried, Clean, Working, Shape
    <3> QED BY <3>3, <3>4, <3>5 DEF Alike
  <2> QED BY <1>1, <1>3, <2>2, <2>3, <2>5, CallerMoves
<1>6. CASE a.op \notin PushFirst
  <2>1. ed' = [ed EXCEPT ![e] = Remainder(a)]
    BY <1>0, <1>6, Leaves DEF EndPush
  <2>2. ASSUME Alike(a)
        PROVE  Alike(Remainder(a))'
    <3>1. central[a.i] = a.new /\ dirty /\ ~Before(a)
      BY <1>1, <1>6, <2>2 DEF Alike, Stands, Before
    <3>2. Agrees(central'[a.i], node'[a.i], fp'[a.i])
      BY <1>1, <1>4, <2>2, <3>1 DEF Agrees
    <3>3. \A j \in Inbounds :
             /\ j \in a.left => Awaiting(a, central'[j], node'[j], fp'[j])
             /\ j \notin a.left => Agrees(central'[j], node'[j], fp'[j])
      BY <1>1, <1>4, <2>2, <3>2 DEF Alike, Prints
    <3>4. /\ \A j \in a.left : central'[j] # None /\ central'[j].clients \cap Of(a.who) # {}
          /\ \A j \in Inbounds : central'[j] # None /\ j \notin a.left =>
                central'[j].clients \cap Of(a.who) = {}
          /\ \A j \in Inbounds : central'[j] # None =>
                central'[j].clients \cap Of(tomb') \subseteq Of(a.who)
          /\ (adopted' \/ tomb' = {}) /\ (dirty' \/ Same')
      BY <1>1, <2>2, <3>1, OfParts DEF Alike, Stands, Buried
    <3> QED BY <1>4, <2>2, <3>3, <3>4, LeftAlike
  <2>3. Remainder(a).pc = "idle" => Remainder(a) = IdleCall
    BY RemainderParts
  <2> QED BY <1>1, <1>3, <2>1, <2>2, <2>3, CallerMoves
<1> QED BY <1>5, <1>6

-----------------------------------------------------------------------------
(* Steps between calls.                                                      *)

LEMMA NoCall ==
    ASSUME AlikeInv, ~Calling, ed' = ed, locals' = locals,
           locals = 0 /\ TickOK /\ Quiet => TickOK' /\ Quiet'
    PROVE  AlikeInv'
<1>1. ~Calling'
  BY DEF Calling
<1>2. OneActor'
  BY <1>1 DEF OneActor, Calling
<1> QED BY <1>1, <1>2 DEF AlikeInv, Calling

LEMMA AddStep ==
    ASSUME TypeInv, AlikeInv, Alone, NoRevival, NoReturn, EnabledAdds,
           NEW i \in Inbounds, NEW row \in Config, AddInbound(i, row)
    PROVE  AlikeInv'
<1>1. /\ central[i] = None /\ central' = [central EXCEPT ![i] = row] /\ edits' = edits + 1
      /\ UNCHANGED <<adopted, tomb, fp, node, ed, job, locals>>
  BY DEF AddInbound
<1>2. edits' # edits
  BY <1>1 DEF TypeInv, CountInv
<1>3. job.pc = "idle" /\ ~Calling
  BY <1>2, Alone_Idle DEF Calling
<1>4. central'[i] = row /\ row # None /\ \A j \in Inbounds \ {i} : central'[j] = central[j]
  BY <1>1, ConfigParts DEF TypeInv, RowInv
<1>5. dirty' = TRUE
  <2>1. row.enable
    BY <1>1, <1>2, <1>4 DEF EnabledAdds
  <2> QED BY <2>1 DEF AddInbound, MarkNodeDirty
<1>6. row.clients \cap Of(tomb') = {} /\ ~Lapsed(i, row)
  BY <1>1, <1>2, <1>4 DEF NoRevival, NoReturn
<1>7. ASSUME Quiet
      PROVE  Quiet'
  BY <1>1, <1>4, <1>5, <1>6, <1>7 DEF Quiet, Agrees, Lapsed, IsPayload
<1>8. TickOK'
  BY <1>1, <1>3 DEF TickOK
<1> QED BY <1>1, <1>3, <1>7, <1>8, NoCall

LEMMA UpdateNodeStep ==
    ASSUME TypeInv, AlikeInv, SureFlag, NEW fresh \in BOOLEAN, UpdateNode(fresh)
    PROVE  AlikeInv'
<1>1. /\ \A i \in Inbounds : fp'[i] = None
      /\ dirty' = TRUE \/ dirty' = dirty
      /\ edits' = edits + 1 /\ ~Calling /\ job.pc = "idle"
      /\ UNCHANGED <<central, adopted, tomb, ed, job, locals>>
  BY DEF UpdateNode, MarkNodeDirty, Calling
<1>2. dirty' = TRUE \/ (dirty' = dirty /\ node' = node)
  <2>1. edits' # edits
    BY <1>1 DEF TypeInv, CountInv
  <2>2. dirty \in BOOLEAN
    BY DEF TypeInv, FlagInv
  <2> QED BY <1>1, <2>1, <2>2 DEF SureFlag
<1>3. ASSUME Quiet
      PROVE  Quiet'
  <2>1. \A i \in Inbounds : Agrees(central'[i], node'[i], fp'[i])
    <3>1. \A i \in Inbounds : central[i] # None => ~IsPayload(None, central[i])
      BY RowType, BuiltParts DEF IsPayload
    <3> QED BY <1>1, <3>1 DEF Agrees
  <2> QED BY <1>1, <1>2, <1>3, <2>1 DEF Quiet, Same
<1>4. TickOK'
  BY <1>1 DEF TickOK
<1> QED BY <1>1, <1>3, <1>4, NoCall

(* A step of the tick that changes nothing but its own variables.            *)
LEMMA QuietStays ==
    ASSUME Quiet, UNCHANGED <<central, node, fp, tomb, dirty, adopted>>
    PROVE  Quiet'
BY DEF Quiet, Same

LEMMA JobParts ==
    ASSUME TypeInv
    PROVE  /\ job \in JobType
           /\ job.want \in [Inbounds -> Row] /\ job.snap \in [Inbounds -> Row]
           /\ job.stamp \in [Inbounds -> Row] /\ job.tags \subseteq Inbounds
           /\ job.todo \subseteq Inbounds /\ job.failed \in BOOLEAN /\ job.stale \in BOOLEAN
           /\ job.pc = "record" => job.cur \in Inbounds
           /\ job.pc \in {"push", "record"} => \A i \in job.todo : job.want[i] \in Config
BY RowCases DEF TypeInv, JobInv, JobType, Pushing

LEMMA TickStep ==
    ASSUME TypeInv, TickOK, Quiet, SureFlag, Tick \/ ReadCentral \/ ListTags \/ CheckDirty
    PROVE  TickOK' /\ Quiet'
<1>1. UNCHANGED <<central, node, fp, tomb, dirty, adopted>>
  BY DEF Tick, ReadCentral, ListTags, Fails, CheckDirty, db
<1>2. job \in JobType
  BY JobParts
<1>3. CASE Tick
  <2>1. /\ job'.pc = IF dirty THEN "read" ELSE "fetch"
        /\ job'.adopted = adopted
    BY <1>3 DEF Tick, IdleJob
  <2> QED BY <1>1, <2>1, QuietStays DEF TickOK
<1>4. CASE ReadCentral
  <2>1. /\ job.pc = "read" /\ job'.pc = "list" /\ job'.want = central
        /\ job'.adopted = job.adopted
    BY <1>2, <1>4 DEF ReadCentral, JobAt, JobType
  <2> QED BY <1>1, <2>1, QuietStays DEF TickOK
<1>5. CASE ListTags
  <2>1. /\ job.pc = "list" /\ job'.want = job.want /\ job'.adopted = job.adopted
        /\ \/ job'.pc = "push" /\ job'.tags = Rows(node) /\ job'.todo = Rows(job.want)
           \/ job'.pc = "fetch"
    BY <1>2, <1>5 DEF ListTags, JobAt, JobType
  <2>2. TickOK'
    BY <1>1, <2>1 DEF TickOK, Rows
  <2> QED BY <1>1, <2>2, QuietStays
<1>6. CASE CheckDirty
  <2>1. /\ job.pc = "check" /\ job'.pc = "merge"
        /\ job'.snap = job.snap /\ job'.adopted = job.adopted
    BY <1>2, <1>6 DEF CheckDirty, JobAt, JobType
  <2>3. job'.stale = dirty
    BY <2>1 DEF SureFlag, JobAt
  <2>2. TickOK'
    BY <1>1, <2>1, <2>3 DEF TickOK, Rows
  <2> QED BY <1>1, <2>2, QuietStays
<1> QED BY <1>3, <1>4, <1>5, <1>6

(* A request of the reconcile: row is a payload of the panel's row, or None  *)
(* when the panel has none; what is recorded was taken by the node.          *)
LEMMA QuietSends ==
    ASSUME TypeInv, Quiet, dirty, NEW i \in Inbounds, NEW row,
           IF central[i] = None THEN row = None ELSE IsPayload(row, central[i]),
           node' = [node EXCEPT ![i] = row] \/ node' = node,
           fp' = fp \/ (fp' = [fp EXCEPT ![i] = row] /\ node'[i] = row),
           UNCHANGED <<central, tomb, dirty, adopted>>
    PROVE  Quiet'
<1>1. \A j \in Inbounds \ {i} : node'[j] = node[j] /\ fp'[j] = fp[j]
  BY DEF TypeInv, RowInv
<1>2. (node'[i] = node[i] /\ fp'[i] = fp[i]) \/ node'[i] = row
  BY DEF TypeInv, RowInv
<1>3. central[i] # None => Serves(row, central[i])
  BY RowType, PayloadServes
<1>4. \A j \in Inbounds : Agrees(central'[j], node'[j], fp'[j])
  BY <1>1, <1>2, <1>3 DEF Quiet, Agrees
<1> QED BY <1>4 DEF Quiet

LEMMA SkipStep ==
    ASSUME TypeInv, TickOK, Quiet, NEW i \in Inbounds, SkipInbound(i)
    PROVE  TickOK' /\ Quiet'
<1>1. /\ job.pc = "push" /\ job'.pc = "push" /\ job'.want = job.want /\ job'.tags = job.tags
      /\ job'.todo = job.todo \ {i} /\ job'.failed = job.failed /\ job'.adopted = job.adopted
      /\ IsPayload(fp[i], job.want[i])
      /\ UNCHANGED <<central, node, fp, tomb, dirty, adopted>>
  BY JobParts DEF SkipInbound, JobAt, JobType, Held, Payloads, IsPayload, db
<1>2. job.want[i] # None => Serves(node[i], job.want[i])
  BY <1>1 DEF TickOK, Quiet, Agrees
<1>3. TickOK'
  BY <1>1, <1>2 DEF TickOK, Rows
<1> QED BY <1>1, <1>3, QuietStays

LEMMA SendStep ==
    ASSUME TypeInv, TickOK, Quiet, NEW i \in Inbounds, SendInbound(i)
    PROVE  TickOK' /\ Quiet'
<1>1. PICK row \in Payloads(i) :
      /\ job.pc = "push" /\ job'.want = job.want /\ job'.tags = job.tags
      /\ job'.todo = job.todo \ {i} /\ job'.adopted = job.adopted
      /\ UNCHANGED <<central, fp, tomb, dirty, adopted>>
      /\ \/ /\ job'.pc = "record" /\ job'.cur = i /\ job'.failed = job.failed
            /\ job'.sent = row
            /\ node' = [node EXCEPT ![i] = row]
         \/ /\ job'.pc = "push" /\ job'.failed
            /\ node' = [node EXCEPT ![i] = row] \/ node' = node
  BY JobParts, ZenonT(60), SMTT(60)
     DEF SendInbound, JobAt, JobType, Effect, Lost, Fails, db
<1>2. job.want = central /\ dirty /\ central[i] \in Config /\ IsPayload(row, central[i])
  <2>1. i \in job.todo
    BY DEF SendInbound
  <2> QED BY <1>1, <2>1, JobParts DEF TickOK, Payloads, IsPayload
<1>3. Quiet'
  BY <1>1, <1>2, QuietSends, ConfigParts
<1>4. TickOK'
  <2>1. \A j \in Inbounds \ {i} : node'[j] = node[j]
    BY <1>1 DEF TypeInv, RowInv
  <2>2. CASE /\ job'.pc = "record" /\ job'.cur = i /\ job'.failed = job.failed
             /\ job'.sent = row /\ node'[i] = row
    <3>1. Serves(node'[i], job.want[i]) /\ central[i] # None
      BY <1>2, <2>2, PayloadServes, ConfigParts
    <3>2. ~job'.failed =>
             /\ \A j \in Rows(job'.want) \ job'.todo : Serves(node'[j], job'.want[j])
             /\ Rows(node') \subseteq job'.tags \cup Rows(job'.want)
      BY <1>1, <1>2, <2>1, <2>2, <3>1 DEF TickOK, Rows
    <3> QED BY <1>1, <1>2, <2>2, <3>1, <3>2 DEF TickOK
  <2>3. CASE job'.pc = "push" /\ job'.failed
    BY <1>1, <1>2, <2>3 DEF TickOK
  <2> QED BY <1>1, <2>2, <2>3 DEF TypeInv, RowInv
<1> QED BY <1>3, <1>4

LEMMA RecordStep ==
    ASSUME TypeInv, TickOK, Quiet, RecordInbound
    PROVE  TickOK' /\ Quiet'
<1> DEFINE i == job.cur
           row == job.sent
<1>1. /\ job.pc = "record" /\ job'.pc = "push" /\ job'.want = job.want /\ job'.tags = job.tags
      /\ job'.todo = job.todo /\ job'.failed = job.failed /\ job'.adopted = job.adopted
      /\ fp' = [fp EXCEPT ![i] = row] /\ i \in Inbounds
      /\ UNCHANGED <<central, node, tomb, dirty, adopted>>
  BY JobParts DEF RecordInbound, JobAt, JobType, db
<1>2. /\ job.want = central /\ dirty /\ node[i] = row
      /\ central[i] # None /\ IsPayload(row, central[i])
  BY <1>1 DEF TickOK
<1>3. TickOK'
  BY <1>1, <1>2 DEF TickOK, Rows
<1> HIDE DEF i, row
<1>4. Quiet'
  BY <1>1, <1>2, QuietSends
<1> QED BY <1>3, <1>4

LEMMA SweepStep ==
    ASSUME TypeInv, TickOK, Quiet, NEW i \in Inbounds, Sweep(i)
    PROVE  TickOK' /\ Quiet'
<1>1. /\ job.pc = "push" /\ job'.pc = "push" /\ job'.want = job.want /\ job'.todo = job.todo
      /\ job'.tags = job.tags \ {i} /\ job'.adopted = job.adopted
      /\ job.todo = {} /\ i \notin Rows(job.want)
      /\ UNCHANGED <<central, tomb, dirty, adopted>>
      /\ \/ /\ job'.failed = job.failed /\ node' = [node EXCEPT ![i] = None]
            /\ fp' = [fp EXCEPT ![i] = None]
         \/ /\ job'.failed /\ fp' = fp
            /\ node' = [node EXCEPT ![i] = None] \/ node' = node
  BY JobParts, ZenonT(60), SMTT(60)
     DEF Sweep, Swept, JobAt, JobType, Effect, Lost, Fails, db
<1>2. job.want = central /\ dirty /\ central[i] = None
  BY <1>1 DEF TickOK, Rows
<1>3. Quiet'
  <2>1. node' = [node EXCEPT ![i] = None] => node'[i] = None
    BY DEF TypeInv, RowInv
  <2> QED BY <1>1, <1>2, <2>1, QuietSends
<1>4. TickOK'
  <2>1. \A j \in Inbounds \ {i} : node'[j] = node[j]
    BY <1>1 DEF TypeInv, RowInv
  <2>2. CASE job'.failed = job.failed /\ node'[i] = None
    BY <1>1, <1>2, <2>1, <2>2 DEF TickOK, Rows
  <2>3. CASE job'.failed
    BY <1>1, <1>2, <2>3 DEF TickOK
  <2> QED BY <1>1, <2>2, <2>3 DEF TypeInv, RowInv
<1> QED BY <1>3, <1>4

(* After a reconcile without a failure the node serves the panel's rows,     *)
(* and, once it is adopted, it has no others.                                *)
LEMMA ReconciledSame ==
    ASSUME TypeInv, TickOK, Reconciled, ~job.failed
    PROVE  /\ \A i \in Inbounds : job.want[i] # None => Serves(node[i], job.want[i])
           /\ Same
<1>1. /\ job.pc = "push" /\ job.todo = {} /\ job.adopted = adopted /\ job.want = central
      /\ \A i \in Rows(job.want) : Serves(node[i], job.want[i])
      /\ Rows(node) \subseteq job.tags \cup Rows(job.want)
  BY DEF Reconciled, JobAt, TickOK
<1>2. adopted => Rows(node) \subseteq Rows(central)
  BY <1>1 DEF Reconciled, Swept
<1>3. \A i \in Inbounds : central[i] # None => Serves(node[i], central[i])
  BY <1>1 DEF Rows
<1> QED BY <1>1, <1>2, <1>3 DEF Same

LEMMA ClearStep ==
    ASSUME TypeInv, TickOK, Quiet, ClearDirty
    PROVE  TickOK' /\ Quiet'
<1>1. /\ Reconciled /\ job'.pc = "fetch" /\ job'.adopted = job.adopted /\ job.pc = "push"
      /\ dirty' = IF job.failed \/ dirtyAt # job.at THEN dirty ELSE FALSE
      /\ UNCHANGED <<central, node, fp, tomb, adopted>>
  BY JobParts DEF ClearDirty, Reconciled, JobAt, JobType
<1>2. TickOK'
  BY <1>1 DEF TickOK
<1>3. dirty' \/ Same
  BY <1>1, ReconciledSame DEF Quiet
<1> QED BY <1>1, <1>2, <1>3 DEF Quiet, Same

LEMMA FetchStep ==
    ASSUME TypeInv, TickOK, Quiet, LateBlips, Fetch
    PROVE  TickOK' /\ Quiet'
<1>1. UNCHANGED <<central, node, fp, tomb, dirty, adopted>> /\ job.pc = "fetch"
  BY DEF Fetch, Fails, db, JobAt
<1>2. CASE job' = IdleJob
  <2>1. TickOK'
    BY <1>2 DEF TickOK, IdleJob
  <2> QED BY <1>1, <2>1, QuietStays
<1>3. CASE job' # IdleJob
  <2>1. /\ job'.pc = "check" /\ job'.adopted = job.adopted
        /\ job'.snap = node \/ job'.snap = [i \in Inbounds |-> None]
    BY <1>3, JobParts DEF Fetch, JobType
  <2>2. job'.snap = [i \in Inbounds |-> None] => Rows(job'.snap) = {}
    BY DEF Rows
  <2>3. job'.snap = node \/ (Rows(job'.snap) = {} /\ (adopted \/ Rows(node) = {}))
    BY <1>1, <2>1, <2>2 DEF LateBlips, JobAt
  <2>4. TickOK'
    BY <1>1, <2>1, <2>3 DEF TickOK, Rows
  <2> QED BY <1>1, <2>4, QuietStays
<1> QED BY <1>2, <1>3

(* What a merge makes of the rows of a clean node.                           *)
LEMMA MergedSame ==
    ASSUME TypeInv, TickOK, Quiet, job.pc = "merge", ~job.stale, NEW i \in Inbounds
    PROVE  /\ central[i] # None => Serves(Merged(i), central[i])
           /\ Merged(i) # None => /\ Serves(node[i], Merged(i))
                                  /\ Merged(i).clients \cap Of(tomb) = {}
           /\ node[i] # None => Merged(i) # None
           /\ Stamped(i) # None => Stamped(i) = Merged(i) /\ node[i] = Merged(i)
<1>1. ~dirty /\ Same
  BY DEF TickOK, Quiet
<1>2. node[i] # None => node[i] \in Config /\ Serves(node[i], node[i])
  BY RowType, ServesItself
<1>3. CASE job.snap = node
  <2>1. CASE central[i] # None
    <3>1. Serves(node[i], central[i]) /\ node[i] # None
      BY <1>1, <2>1 DEF Same, Serves
    <3>2. node[i].clients \cap Of(tomb) = {}
      BY <2>1, <3>1 DEF Serves, Quiet
    <3>3. node[i].clients \ Of(tomb) = node[i].clients
      BY <3>2
    <3>4. Strip(node[i]) = node[i]
      BY <1>2, <3>1, <3>3 DEF Strip, Config
    <3>5. Merged(i) = node[i]
      BY <1>3, <2>1, <3>1, <3>4 DEF Merged
    <3> QED BY <1>2, <1>3, <3>1, <3>2, <3>4, <3>5 DEF Stamped
  <2>2. CASE central[i] = None
    <3>1. Merged(i) = node[i] /\ Stamped(i) = None
      BY <1>3, <2>2 DEF Merged, Stamped
    <3>2. node[i] # None => tomb = {}
      BY <1>1, <2>2 DEF Quiet, Same, Rows
    <3> QED BY <1>2, <2>2, <3>1, <3>2, OfParts
  <2> QED BY <2>1, <2>2
<1>4. CASE Rows(job.snap) = {} /\ (adopted \/ Rows(node) = {})
  <2>1. job.snap[i] = None
    BY <1>4 DEF Rows
  <2>2. Merged(i) = central[i] /\ Stamped(i) = None
    BY <1>4, <2>1 DEF Merged, Stamped
  <2>3. node[i] # None => central[i] # None
    BY <1>1, <1>4 DEF Same, Rows
  <2>4. central[i] # None => Serves(central[i], central[i])
    BY RowType, ServesItself
  <2> QED BY <1>1, <2>2, <2>3, <2>4 DEF Same, Quiet
<1> QED BY <1>3, <1>4 DEF TickOK

LEMMA MergeStep ==
    ASSUME TypeInv, TickOK, Quiet, Merge
    PROVE  TickOK' /\ Quiet'
<1>1. UNCHANGED <<node, fp, tomb, dirty, adopted>> /\ job.pc = "merge"
  BY DEF Merge, Fails, JobAt
<1>2. CASE job' = IdleJob /\ central' = central
  <2>1. TickOK'
    BY <1>2 DEF TickOK, IdleJob
  <2> QED BY <1>1, <1>2, <2>1, QuietStays
<1>3. CASE /\ central' = IF job.stale THEN central ELSE [i \in Inbounds |-> Merged(i)]
           /\ job' = [job EXCEPT !.pc = "adopt",
                  !.stamp = [i \in Inbounds |-> IF job.stale THEN None ELSE Stamped(i)]]
  <2>1. /\ job'.pc = "adopt" /\ job'.adopted = job.adopted /\ job'.stale = job.stale
        /\ \A i \in Inbounds : job'.stamp[i] = IF job.stale THEN None ELSE Stamped(i)
    BY <1>3, JobParts DEF JobType
  <2>3. CASE job.stale
    <3>1. TickOK'
      BY <1>1, <1>3, <2>1, <2>3 DEF TickOK
    <3> QED BY <1>1, <1>3, <2>3, <3>1, QuietStays
  <2>4. CASE ~job.stale
    <3>1. \A i \in Inbounds :
             /\ central'[i] # None => /\ Serves(node[i], central'[i])
                                      /\ central'[i].clients \cap Of(tomb) = {}
             /\ node[i] # None => central'[i] # None
             /\ job'.stamp[i] # None => job'.stamp[i] = central'[i] /\ node[i] = central'[i]
      BY <1>1, <1>3, <2>1, <2>4, MergedSame
    <3>2. Rows(node) \subseteq Rows(central') /\ ~dirty
      BY <1>1, <2>4, <3>1 DEF Rows, TickOK
    <3>3. TickOK'
      BY <1>1, <2>1, <3>1, <3>2 DEF TickOK, Rows
    <3>4. \A i \in Inbounds : Agrees(central'[i], node'[i], fp'[i])
      BY <1>1, <3>1 DEF Agrees
    <3>5. Same'
      BY <1>1, <3>1, <3>2 DEF Same, Rows
    <3> QED BY <1>1, <3>1, <3>3, <3>4, <3>5 DEF Quiet
  <2> QED BY <2>3, <2>4
<1> QED BY <1>2, <1>3 DEF Merge

LEMMA AdoptStep ==
    ASSUME TypeInv, TickOK, Quiet, RecordAdopted \/ MarkAdopted
    PROVE  TickOK' /\ Quiet'
<1>1. CASE RecordAdopted
  <2>1. /\ job.pc = "adopt" /\ job'.pc = "mark" /\ job'.adopted = job.adopted
        /\ job'.stale = job.stale /\ job'.stamp = job.stamp
        /\ UNCHANGED <<central, node, tomb, dirty, adopted>>
        /\ fp' = [i \in Inbounds |-> IF job.stamp[i] # None THEN job.stamp[i] ELSE fp[i]]
    BY <1>1, JobParts DEF RecordAdopted, JobAt, JobType, db
  <2>2. \A i \in Inbounds : job.stamp[i] # None => node[i] = central[i]
    BY <2>1 DEF TickOK
  <2>3. \A i \in Inbounds : Agrees(central'[i], node'[i], fp'[i])
    <3>1. \A i \in Inbounds : central[i] # None => Serves(central[i], central[i])
      BY RowType, ServesItself
    <3> QED BY <2>1, <2>2, <3>1 DEF Quiet, Agrees
  <2>4. TickOK'
    BY <2>1 DEF TickOK, Rows
  <2> QED BY <2>1, <2>3, <2>4 DEF Quiet, Same
<1>2. CASE MarkAdopted
  <2>1. /\ job.pc = "mark" /\ adopted' = (adopted \/ ~job.stale) /\ job' = IdleJob
        /\ UNCHANGED <<central, node, fp, tomb, dirty>>
    BY <1>2 DEF MarkAdopted, JobAt
  <2>2. TickOK'
    BY <2>1 DEF TickOK, IdleJob
  <2>3. ~job.stale => ~dirty /\ Rows(node) \subseteq Rows(central)
    BY <2>1 DEF TickOK
  <2>4. dirty' \/ Same'
    BY <2>1, <2>3 DEF Quiet, Same, Rows
  <2> QED BY <2>1, <2>2, <2>4 DEF Quiet
<1> QED BY <1>1, <1>2

-----------------------------------------------------------------------------
(* Every step.                                                               *)

(* What the tick leaves alone, and where it starts.                          *)
LEMMA SyncCalls ==
    ASSUME Sync
    PROVE  ed' = ed /\ locals' = locals /\ (~Merge => central' = central)
<1>1. ASSUME NEW i \in Inbounds, SkipInbound(i) \/ SendInbound(i) \/ Sweep(i)
      PROVE  ed' = ed /\ locals' = locals /\ central' = central
  <2>1. CASE SkipInbound(i)
    BY <2>1 DEF SkipInbound, counts, db
  <2>2. CASE SendInbound(i)
    BY <2>2 DEF SendInbound, db
  <2>3. CASE Sweep(i)
    BY <2>3 DEF Sweep, db
  <2> QED BY <1>1, <2>1, <2>2, <2>3
<1>2. CASE Tick \/ ReadCentral \/ ListTags \/ RecordInbound
  BY <1>2 DEF Tick, ReadCentral, ListTags, RecordInbound, counts, db
<1>3. CASE ClearDirty \/ Fetch \/ CheckDirty
  BY <1>3 DEF ClearDirty, Fetch, CheckDirty, counts, db
<1>4. CASE Merge
  BY <1>4 DEF Merge
<1>5. CASE RecordAdopted \/ MarkAdopted
  BY <1>5 DEF RecordAdopted, MarkAdopted, counts, db
<1> QED BY <1>1, <1>2, <1>3, <1>4, <1>5 DEF Sync

LEMMA SyncAt ==
    ASSUME Sync, ~Tick
    PROVE  job.pc # "idle"
<1>1. ASSUME NEW i \in Inbounds, SkipInbound(i) \/ SendInbound(i) \/ Sweep(i)
      PROVE  job.pc = "push"
  <2>1. CASE SkipInbound(i)
    BY <2>1 DEF SkipInbound, JobAt
  <2>2. CASE SendInbound(i)
    BY <2>2 DEF SendInbound, JobAt
  <2>3. CASE Sweep(i)
    BY <2>3 DEF Sweep, JobAt
  <2> QED BY <1>1, <2>1, <2>2, <2>3
<1>2. CASE ReadCentral \/ ListTags \/ RecordInbound \/ ClearDirty
  BY <1>2 DEF ReadCentral, ListTags, RecordInbound, ClearDirty, Reconciled, JobAt
<1>3. CASE Fetch \/ CheckDirty \/ Merge \/ RecordAdopted \/ MarkAdopted
  BY <1>3 DEF Fetch, CheckDirty, Merge, RecordAdopted, MarkAdopted, JobAt
<1> QED BY <1>1, <1>2, <1>3 DEF Sync

LEMMA SyncStep ==
    ASSUME TypeInv, AlikeInv, Alone, LateBlips, SureFlag, Sync
    PROVE  AlikeInv'
<1>1. ed' = ed /\ locals' = locals
  BY SyncCalls
<1>2. CASE Tick
  <2>1. job'.pc # "idle"
    BY <1>2 DEF Tick, IdleJob
  <2>2. ~Calling
    BY <1>1, <2>1 DEF Alone, Calling
  <2> QED BY <1>1, <1>2, <2>2, TickStep, NoCall
<1>3. CASE ~Tick
  <2>1. job.pc # "idle"
    BY <1>3, SyncAt
  <2>2. ~Calling
    BY <2>1 DEF AlikeInv, OneActor
  <2>3. ASSUME TickOK, Quiet
        PROVE  TickOK' /\ Quiet'
    BY <1>3, <2>3, TickStep, SkipStep, SendStep, RecordStep, SweepStep, ClearStep, FetchStep,
       MergeStep, AdoptStep DEF Sync
  <2> QED BY <1>1, <2>2, <2>3, NoCall
<1> QED BY <1>2, <1>3

(* A step that touches neither the rows nor a call nor the tick.             *)
LEMMA AsideStep ==
    ASSUME AlikeInv, UNCHANGED <<central, node, fp, dirty, adopted, ed, job>>,
           tomb' \subseteq tomb, locals' = 0 => locals = 0
    PROVE  AlikeInv'
<1>1. OneActor' /\ (Calling' <=> Calling)
  BY DEF AlikeInv, OneActor, Calling
<1>2. ASSUME TickOK
      PROVE  TickOK'
  BY <1>2 DEF TickOK
<1>3. Same' <=> Same
  BY DEF Same
<1>4. ASSUME Quiet
      PROVE  Quiet'
  <2>1. Of(tomb') \subseteq Of(tomb)
    BY OfParts
  <2> QED BY <1>3, <1>4, <2>1 DEF Quiet
<1>5. ASSUME NEW a, Alike(a)
      PROVE  Alike(a)'
  <2>1. Shape(a)' /\ Prints(a)' /\ Stands(a)'
    BY <1>5 DEF Alike, Shape, Prints, Stands
  <2>2. Buried(a)'
    <3>1. Of(tomb') \subseteq Of(tomb)
      BY OfParts
    <3> QED BY <1>5, <3>1 DEF Alike, Buried
  <2>3. Clean(a)'
    BY <1>3, <1>5 DEF Alike, Clean
  <2> QED BY <2>1, <2>2, <2>3 DEF Alike
<1>6. ASSUME locals' = 0, NEW e \in Editors, ed'[e].pc # "idle"
      PROVE  Alike(ed[e])'
  <2>1. Alike(ed[e])
    BY <1>6 DEF AlikeInv
  <2>2. PICK a : a = ed[e]
    OBVIOUS
  <2>3. Alike(a)'
    BY <1>5, <2>1, <2>2
  <2>4. a = ed'[e]
    BY <2>2
  <2> QED BY <2>3, <2>4
<1> QED BY <1>1, <1>2, <1>4, <1>6 DEF AlikeInv

LEMMA EnvironmentStep ==
    ASSUME TypeInv, AlikeInv, Environment
    PROVE  AlikeInv'
<1>1. CASE \E i \in Inbounds, row \in Row : EditOnNode(i, row)
  <2>1. locals' # 0 /\ ed' = ed /\ job' = job
    BY <1>1 DEF EditOnNode, TypeInv, CountInv
  <2> QED BY <2>1 DEF AlikeInv, OneActor, Calling
<1>2. CASE Heartbeat
  BY <1>2, AsideStep DEF Heartbeat, db
<1>3. CASE \E c \in Clients : ExpireTomb(c)
  BY <1>3, AsideStep DEF ExpireTomb, db, counts
<1> QED BY <1>1, <1>2, <1>3 DEF Environment

LEMMA WorkStep ==
    ASSUME TypeInv, AlikeInv, SureCommit, NEW e \in Editors, Work(e)
    PROVE  AlikeInv'
BY NextStep, CommitStep, PushClientStep, PushRowStep, EndPushStep DEF Work

LEMMA CallStep ==
    ASSUME TypeInv, AlikeInv, Plain, NEW e \in Editors, ClientEdit(e) \/ RowEdit(e)
    PROVE  AlikeInv'
<1>1. Alone /\ NoRevival /\ NoReturn /\ NoLoss /\ KnownDeletion
  BY DEF Plain
<1>2. CASE RowEdit(e)
  BY <1>1, <1>2, ChangeStep DEF RowEdit
<1>3. ASSUME NEW cs \in SUBSET Clients, Delete(e, "delete", cs) \/ Delete(e, "bulkDelete", cs)
      PROVE  AlikeInv'
  BY <1>1, <1>3, DeleteStep DEF Deletions
<1> QED BY <1>1, <1>2, <1>3, EditStep DEF ClientEdit

LEMMA InitAlike == Init => AlikeInv
<1> SUFFICES ASSUME Init
             PROVE  AlikeInv
  OBVIOUS
<1>1. ~Calling /\ job.pc = "idle" /\ OneActor
  BY DEF Init, Calling, OneActor, IdleCall, IdleJob
<1>2. /\ \A i \in Inbounds : central[i] = None /\ fp[i] = None
      /\ tomb = {} /\ ~adopted
  BY DEF Init
<1>3. Quiet
  BY <1>2 DEF Quiet, Agrees, Same, Rows
<1>4. TickOK
  BY <1>1 DEF TickOK
<1> QED BY <1>1, <1>3, <1>4 DEF AlikeInv, Calling

LEMMA NextAlikeInv == TypeInv /\ AlikeInv /\ [Plain]_vars => AlikeInv'
<1> SUFFICES ASSUME TypeInv, AlikeInv, [Plain]_vars
             PROVE  AlikeInv'
  OBVIOUS
<1>1. CASE UNCHANGED vars
  BY <1>1, AsideStep DEF vars, db, counts
<1>2. CASE Plain
  <2>1. /\ Next /\ Alone /\ NoRevival /\ NoReturn /\ NoLoss /\ EnabledAdds /\ LateBlips
        /\ SureCommit /\ SureFlag
    BY <1>2, PlainIsNext DEF Plain, Onward, Next
  <2>2. ASSUME NEW e \in Editors, ClientEdit(e) \/ RowEdit(e) \/ Work(e)
        PROVE  AlikeInv'
    BY <1>2, <2>1, <2>2, CallStep, WorkStep
  <2>3. ASSUME NEW i \in Inbounds, NEW row \in Config, AddInbound(i, row)
        PROVE  AlikeInv'
    BY <2>1, <2>3, AddStep
  <2>4. ASSUME NEW fresh \in BOOLEAN, UpdateNode(fresh)
        PROVE  AlikeInv'
    BY <2>1, <2>4, UpdateNodeStep
  <2>5. CASE Sync
    BY <2>1, <2>5, SyncStep
  <2>6. CASE Environment
    BY <2>6, EnvironmentStep
  <2> QED BY <2>1, <2>2, <2>3, <2>4, <2>5, <2>6 DEF Next
<1> QED BY <1>1, <1>2

THEOREM PlainAlike == PlainSpec => [](TypeInv /\ AlikeInv)
BY InitTypeInv, InitAlike, PlainIsNext, NextTypeInv, NextAlikeInv, PTL DEF PlainSpec

-----------------------------------------------------------------------------
(* Only a merge changes a row between CheckDirty and the end of a tick.      *)
LEMMA MergeTime ==
    ASSUME AlikeInv, [Plain]_vars, JobAt("merge"), ~Merge,
           NEW i \in Inbounds, central[i] # None
    PROVE  central'[i] = central[i]
<1>1. \A e \in Editors : ed[e].pc = "idle"
  BY DEF AlikeInv, OneActor, JobAt, Calling
<1>2. ASSUME NEW e \in Editors, Work(e)
      PROVE  FALSE
  <2>1. ed[e].pc = "idle"
    BY <1>1
  <2>2. ~Commit(e) /\ ~PushRow(e) /\ ~EndPush(e)
    BY <2>1 DEF Commit, PushRow, EndPush
  <2>3. \A j \in Inbounds : ~NextInbound(e, j)
    BY <2>1 DEF NextInbound
  <2>4. \A c \in Clients : ~PushClient(e, c)
    BY <2>1 DEF PushClient
  <2> QED BY <1>2, <2>2, <2>3, <2>4 DEF Work
<1>3. ASSUME NEW e \in Editors, ClientEdit(e) \/ RowEdit(e)
      PROVE  central' = central
  <2>1. CASE RowEdit(e)
    BY <2>1 DEF RowEdit, ChangeInbound, CallUnchanged, db
  <2>2. ASSUME NEW j \in Inbounds, NEW cs \in SUBSET Clients,
               Detach(e, "remove", j, cs) \/ Detach(e, "detach", j, cs)
        PROVE  central' = central
    BY <2>2 DEF Detach, CallUnchanged, db
  <2>3. ASSUME NEW j \in Inbounds, NEW x \in Entries, NEW y \in Entries,
               UpdateClient(e, "update", j, x, y) \/ UpdateClient(e, "bulkAdjust", j, x, y)
        PROVE  central' = central
    BY <2>3 DEF UpdateClient, CallUnchanged, db
  <2>5. ASSUME NEW j \in Inbounds, NEW xs \in SUBSET Entries, AddClients(e, j, xs)
        PROVE  central' = central
    BY <2>5 DEF AddClients, CallUnchanged, db
  <2>4. ASSUME NEW cs \in SUBSET Clients, Delete(e, "delete", cs) \/ Delete(e, "bulkDelete", cs)
        PROVE  central' = central
    BY <2>4 DEF Delete, CallUnchanged, db
  <2> QED BY <1>3, <2>1, <2>2, <2>3, <2>4, <2>5 DEF ClientEdit
<1>4. ASSUME NEW j \in Inbounds, NEW row \in Config, AddInbound(j, row)
      PROVE  central'[i] = central[i]
  <2>1. i # j /\ central' = [central EXCEPT ![j] = row]
    BY <1>4 DEF AddInbound
  <2> QED BY <2>1
<1>5. CASE \E fresh \in BOOLEAN : UpdateNode(fresh)
  BY <1>5 DEF UpdateNode
<1>6. CASE Sync
  BY <1>6, SyncCalls
<1>7. CASE Environment
  BY <1>7 DEF Environment, EditOnNode, Heartbeat, ExpireTomb, db
<1>8. CASE UNCHANGED vars
  BY <1>8 DEF vars, db
<1> QED BY <1>2, <1>3, <1>4, <1>5, <1>6, <1>7, <1>8 DEF Plain, Onward, Next

(* setRemoteTrafficLocked: with one actor at a time, and as long as nobody   *)
(* edits the node itself, a merge takes from a row only clients that are     *)
(* off, and adds none, however the requests to the node and the ticks went.  *)
THEOREM EditsSurvive == PlainSpec => EditSurvives
<1>1. TypeInv /\ AlikeInv /\ [Plain]_vars =>
         (JobAt("merge") /\ locals = 0 =>
            \A i \in Inbounds : central[i] # None => Serves(central'[i], central[i]))
  <2> SUFFICES ASSUME TypeInv, AlikeInv, [Plain]_vars, JobAt("merge"), locals = 0,
                      NEW i \in Inbounds, central[i] # None
               PROVE  Serves(central'[i], central[i])
    OBVIOUS
  <2>1. Serves(central[i], central[i])
    BY RowType, ServesItself
  <2>2. CASE ~Merge
    BY <2>1, <2>2, MergeTime
  <2>3. CASE Merge
    <3>1. TickOK /\ Quiet /\ job.pc = "merge"
      BY DEF AlikeInv, OneActor, JobAt
    <3>2. \/ central' = central
          \/ ~job.stale /\ central' = [j \in Inbounds |-> Merged(j)]
      BY <2>3 DEF Merge
    <3> QED BY <2>1, <3>1, <3>2, MergedSame
  <2> QED BY <2>2, <2>3
<1> QED BY <1>1, PlainAlike, PTL DEF PlainSpec, EditSurvives

(* ReconcileNode: with one actor at a time, the node serves every row that   *)
(* the reconcile which clears the flag has read, those that it did not send  *)
(* for their recorded fingerprint included.                                  *)
THEOREM ClearHeld == PlainSpec => ClearMeansHeld
<1>1. TypeInv /\ AlikeInv /\ [Plain]_vars =>
         (dirty /\ ~dirty' /\ locals = 0 /\ (\A e \in Editors : ed[e].pc = "idle") =>
            \A i \in Inbounds : job.want[i] # None => Serves(node[i], job.want[i]))
  <2> SUFFICES ASSUME TypeInv, AlikeInv, [Plain]_vars, dirty, ~dirty', locals = 0
               PROVE  \A i \in Inbounds : job.want[i] # None => Serves(node[i], job.want[i])
    OBVIOUS
  <2>1. ClearDirty
    BY PlainIsNext, OnlyClearDirty
  <2>2. Reconciled /\ ~job.failed
    BY <2>1 DEF ClearDirty
  <2>3. TickOK
    BY DEF AlikeInv
  <2> QED BY <2>2, <2>3, ReconciledSame
<1> QED BY <1>1, PlainAlike, PTL DEF PlainSpec, ClearMeansHeld

(* With one actor at a time, a node that is clean and adopted serves the     *)
(* panel's rows, and has no others, when no call and no tick is under way.   *)
THEOREM CleanSame == PlainSpec => []CleanMeansSame
<1>1. TypeInv /\ AlikeInv => CleanMeansSame
  <2> SUFFICES ASSUME TypeInv, AlikeInv, \A e \in Editors : ed[e].pc = "idle",
                      ~dirty, adopted, locals = 0, NEW i \in imported
               PROVE  IF central[i] = None THEN node[i] = None ELSE Serves(node[i], central[i])
    BY DEF CleanMeansSame
  <2>1. Quiet /\ i \in Inbounds
    BY DEF AlikeInv, Calling, TypeInv, SetInv
  <2> QED BY <2>1 DEF Quiet, Same, Rows
<1> QED BY <1>1, PlainAlike, PTL
=============================================================================
