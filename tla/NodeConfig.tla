------------------------------ MODULE NodeConfig -----------------------------
(***************************************************************************)
(* How a panel keeps one node's inbounds the same as its own:              *)
(* the edits of the panel (inbound.go, client_inbound_apply.go), each of   *)
(* which commits a row, marks the node dirty and may push the change, and  *)
(* the tick of NodeTrafficSyncJob.syncOne (node_traffic_sync_job.go),      *)
(* which reconciles a dirty node, pulls its snapshot and adopts what the   *)
(* snapshot says (inbound_node.go).  The tick and the edits run in         *)
(* goroutines of their own.                                                *)
(*                                                                         *)
(* An inbound's row is the pair of its enable flag and its client set: the *)
(* two parts that different operations write.  A client of a row is the    *)
(* pair of its email and its other fields, of which Off are those with the *)
(* client's own enable flag off: a reconcile does not send such a client.  *)
(* A request to the node is answered, fails, or takes effect without an    *)
(* answer (Remote.do's timeout).  The traffic counters of the snapshot are *)
(* not modelled here.                                                      *)
(***************************************************************************)
EXTENDS Naturals, FiniteSets

CONSTANTS
    Inbounds,      \* inbounds of the node, by tag
    Clients,       \* client emails
    Fields,        \* what a client of a row has besides its email
    Off,           \* the fields of a disabled client
    Editors,       \* goroutines of the panel's request handlers
    None,          \* no row, no fingerprint, no editor
    Blips,         \* the node may answer with an empty list of inbounds
    LostReplies,   \* a request may take effect without an answer
    NodeBulkPushThreshold,     \* nodeBulkPushThreshold: 32 in the code
    MaxEdits,      \* bound: edits, hence values of config_dirty_at
    MaxLocal,      \* bound: edits made on the node itself
    MaxFaults      \* bound: failed requests, outages and blips

ASSUME FiniteAssumption == IsFiniteSet(Inbounds)
ASSUME FlagAssumption  == Blips \in BOOLEAN /\ LostReplies \in BOOLEAN
ASSUME BoundAssumption ==
    {NodeBulkPushThreshold, MaxEdits, MaxLocal, MaxFaults} \subseteq Nat

ASSUME OffAssumption == Off \subseteq Fields

Entries == Clients \X Fields
Config == [enable : BOOLEAN, clients : SUBSET Entries]
ASSUME NoneAssumption == None \notin Config \cup Editors \cup Clients \cup Inbounds
Row == Config \cup {None}

VARIABLES
    central,       \* the panel's inbound rows of this node
    dirty,         \* nodes.config_dirty
    dirtyAt,       \* nodes.config_dirty_at; assumed: no two edits share a
                   \* millisecond, so it is the number of the last one
    adopted,       \* nodes.inbounds_adopted_at # 0
    tomb,          \* recentlyDeleted: emails whose tombstone is alive
    fp,            \* Remote.pushedFP: the payload whose hash is recorded
    node,          \* the node's own inbound rows
    online,        \* nodes.status is "online"
    lock,          \* inboundMutationLocks: which editor holds an inbound's
    ed,            \* ed[e]: the call that editor e is in
    job,           \* syncOne's local variables
    edits, locals, faults,     \* what the bounds count
    imported       \* history: inbounds that had a row here

db == <<central, dirty, dirtyAt, adopted>>
counts == <<edits, locals, faults>>
vars == <<central, dirty, dirtyAt, adopted, tomb, fp, node, online, lock, ed,
          job, edits, locals, faults, imported>>

IdleCall == [pc |-> "idle", op |-> "none", i |-> None, old |-> None,
             new |-> None, push |-> FALSE, rest |-> {}, failed |-> FALSE,
             who |-> {}, left |-> {}]
IdleJob == [pc |-> "idle", dirty |-> FALSE, at |-> 0, adopted |-> FALSE,
            want |-> [i \in Inbounds |-> None], tags |-> {}, todo |-> {},
            cur |-> None, sent |-> None, failed |-> FALSE,
            snap |-> [i \in Inbounds |-> None], stale |-> FALSE,
            stamp |-> [i \in Inbounds |-> None]]

(* A node that was added a moment ago: it has inbounds of its own, and the *)
(* panel has none of them.                                                 *)
Init ==
    /\ central = [i \in Inbounds |-> None]
    /\ dirty = FALSE /\ dirtyAt = 0 /\ adopted = FALSE
    /\ tomb = {}
    /\ fp = [i \in Inbounds |-> None]
    /\ node \in [Inbounds -> {None} \cup
                  {[enable |-> TRUE, clients |-> Clients \X {f}] : f \in Fields}]
    /\ online = TRUE
    /\ lock = [i \in Inbounds |-> None]
    /\ ed = [e \in Editors |-> IdleCall]
    /\ job = IdleJob
    /\ edits = 0 /\ locals = 0 /\ faults = 0
    /\ imported = {}

Rows(f) == {i \in Inbounds : f[i] # None}

(* The clients of a set by email, and all that emails can stand for in a row.*)
Emails(xs) == {x[1] : x \in xs}
Of(cs) == cs \X Fields

(* No email twice in a row. *)
Sane(xs) == \A x, y \in xs : x[1] = y[1] => x = y

(* buildRuntimeInboundForAPI: the row without its disabled clients.          *)
Built(row) == [row EXCEPT !.clients = {x \in @ : x[2] \notin Off}]

(* What a request does to the node: it fails (1), takes effect (2), or      *)
(* takes effect and is not answered (3).                                     *)
Fails   == /\ faults < MaxFaults
           /\ faults' = faults + 1
           /\ UNCHANGED node
Effect(rows) == node' = rows
Lost(rows) == /\ LostReplies
              /\ faults < MaxFaults
              /\ faults' = faults + 1
              /\ Effect(rows)

-----------------------------------------------------------------------------
(* The panel's edits.  A call commits the row that it made out of the one   *)
(* it read before its transaction, and may push requests to the node: after *)
(* the commit, or before it (bulkDelInboundClients,                         *)
(* bulkAdjustInboundClients).                                               *)

ClientOps == {"add", "remove", "detach", "delete", "update", "bulkDelete", "bulkAdjust"}
RowOps    == {"enable", "save", "drop"}
PushFirst == {"bulkDelete", "bulkAdjust"}

(* The call on inbound i: what it writes, and the requests it will send, one *)
(* for each client of rest, or one for the whole row (None).                 *)
CallOn(op, i, new, push, rest) ==
    [pc |-> IF op \in PushFirst THEN "push" ELSE "commit", op |-> op, i |-> i,
     old |-> central[i], new |-> new, push |-> push,
     rest |-> IF push THEN rest ELSE {}, failed |-> FALSE, who |-> {}, left |-> {}]

(* A new call that will commit n times: edits counts it before it has its    *)
(* stamps.                                                                   *)
Begin(e, n, call) ==
    /\ ed[e].pc = "idle"
    /\ edits + n <= MaxEdits
    /\ edits' = edits + n
    /\ ed' = [ed EXCEPT ![e] = call]

(* Mutant: a call that does not wait for the lock. *)
Lock_Shared(e, i) == /\ central[i] # None
                     /\ lock' = [lock EXCEPT ![i] = e]

(* lockInbound, which the call keeps over its pushes. *)
Lock(e, i) == /\ lock[i] = None
              /\ central[i] # None
              /\ lock' = [lock EXCEPT ![i] = e]

(* A batch that is larger than nodeBulkPushThreshold is left to the reconcile.*)
Small(cs) == Cardinality(cs) <= NodeBulkPushThreshold
Plan(cs)  == online /\ Small(cs)

CallUnchanged == UNCHANGED <<db, fp, node, online, job, locals, faults,
                             imported>>

(* addInboundClient, for clients that the inbound does not have. *)
AddClients(e, i, xs) ==
    /\ Lock(e, i)
    /\ xs # {} /\ Sane(xs) /\ Emails(xs) \cap Emails(central[i].clients) = {}
    /\ Begin(e, 1, CallOn("add", i, [central[i] EXCEPT !.clients = @ \cup xs],
                          Plan(Emails(xs)), Emails(xs)))
    /\ CallUnchanged /\ UNCHANGED tomb

(* delInboundClients (BulkDetach), which looks at the node's state after its *)
(* commit; and Detach, which does before.                                     *)
Detach(e, op, i, cs) ==
    /\ Lock(e, i)
    /\ cs # {} /\ cs \subseteq Emails(central[i].clients)
    /\ op = "detach" => Cardinality(cs) = 1
    /\ Begin(e, 1, CallOn(op, i, [central[i] EXCEPT !.clients = @ \ Of(cs)],
                          Small(cs) /\ (online \/ op = "remove"), cs))
    /\ CallUnchanged /\ UNCHANGED tomb

(* The inbounds that have one of the emails. *)
Homes(cs) == {i \in Rows(central) : central[i].clients \cap Of(cs) # {}}

(* UpdateInboundClient, which may rename a client to an email that no inbound *)
(* has, and bulkAdjustInboundClients, which writes neither the email nor the *)
(* enable flag: client x becomes y.                                          *)
UpdateClient(e, op, i, x, y) ==
    /\ Lock(e, i)
    /\ x \in central[i].clients /\ y \notin central[i].clients
    /\ y[1] = x[1] \/ Homes({y[1]}) = {}
    /\ op = "bulkAdjust" => y[1] = x[1] /\ (x[2] \in Off <=> y[2] \in Off)
    /\ Begin(e, 1, CallOn(op, i, [central[i] EXCEPT !.clients = (@ \ Of({x[1]})) \cup {y}],
                          Plan({x[1]}), {x[1]}))
    /\ CallUnchanged /\ UNCHANGED tomb

(* Delete and BulkDelete: the tombstones come first, and then the client's   *)
(* inbounds, one by one.                                                     *)

Delete(e, op, cs) ==
    /\ cs # {} /\ Homes(cs) # {}
    /\ op = "delete" => Cardinality(cs) = 1
    /\ tomb' = tomb \cup cs
    /\ Begin(e, Cardinality(Homes(cs)),
             [IdleCall EXCEPT !.pc = "loop", !.op = op, !.who = cs, !.left = Homes(cs)])
    /\ CallUnchanged /\ UNCHANGED lock

(* The next inbound of a deletion; it is skipped when the clients are gone.  *)
NextInbound(e, i) ==
    LET a == ed[e]
        cs == a.who \cap Emails(central[i].clients)
        row == [central[i] EXCEPT !.clients = @ \ Of(cs)]
        left == a.left \ {i}
    IN /\ a.pc = "loop" /\ i \in a.left
       /\ IF i \in Homes(a.who)
          THEN /\ Lock(e, i)
               /\ ed' = [ed EXCEPT ![e] = [CallOn(a.op, i, row, Plan(cs), cs)
                             EXCEPT !.who = a.who, !.left = left]]
          ELSE /\ lock[i] = None /\ UNCHANGED lock
               /\ ed' = [ed EXCEPT ![e] = IF left = {} THEN IdleCall
                                          ELSE [a EXCEPT !.left = left]]
       /\ CallUnchanged /\ UNCHANGED <<tomb, edits>>

(* SetInboundEnable, UpdateInbound (its row is the submitted form, and a      *)
(* node's inbound is not pushed) and DelInbound take no lock; only the last  *)
(* looks at the node's state before it commits.                              *)
ChangeInbound(e, op, i, new) ==
    /\ central[i] # None
    /\ \/ op = "enable" /\ new = [central[i] EXCEPT !.enable = ~@]
       \/ op = "save" /\ new \in Config /\ Sane(new.clients)
       \/ op = "drop" /\ new = None
    /\ Begin(e, 1, CallOn(op, i, new, op = "enable" \/ (op = "drop" /\ online), {None}))
    /\ CallUnchanged /\ UNCHANGED <<tomb, lock>>

(* Mutant: a path that returns without releasing the inbound's lock. *)
Leave_Locked(e) == /\ ed' = [ed EXCEPT ![e] = IdleCall]
                   /\ UNCHANGED lock

(* The call's work on the inbound is over. *)
Leave(e) ==
    LET a == ed[e]
        more == [IdleCall EXCEPT !.pc = "loop", !.op = a.op, !.who = a.who, !.left = a.left]
    IN /\ ed' = [ed EXCEPT ![e] = IF a.left = {} THEN IdleCall ELSE more]
       /\ lock' = IF a.op \in ClientOps THEN [lock EXCEPT ![a.i] = None] ELSE lock

(* MarkNodeDirtyTx, in the transaction of the edit. *)
MarkNodeDirty ==
    /\ dirty' = TRUE
    /\ dirtyAt' = dirtyAt + 1

(* The transaction.  Save writes every column, and inserts the row when it   *)
(* is gone; SetInboundEnable updates one column.                             *)
Committed(a) == IF a.op # "enable" THEN a.new
                ELSE IF central[a.i] = None THEN None
                ELSE [central[a.i] EXCEPT !.enable = a.new.enable]

Commit(e) ==
    LET a == ed[e]
        drop == a.op \in {"remove", "enable"} /\ ~online
    IN /\ a.pc = "commit"
       /\ \/ /\ central' = [central EXCEPT ![a.i] = Committed(a)]
             /\ MarkNodeDirty
             /\ IF a.op \in PushFirst THEN Leave(e)
                ELSE /\ ed' = [ed EXCEPT ![e].pc = "push", ![e].push = @ /\ ~drop,
                                         ![e].rest = IF drop THEN {} ELSE @]
                     /\ UNCHANGED lock
             /\ UNCHANGED <<node, faults>>
          \/ /\ Fails /\ Leave(e)
             /\ UNCHANGED <<central, dirty, dirtyAt>>
    /\ UNCHANGED <<adopted, tomb, fp, online, job, edits, locals, imported>>

(* The node's rows once it has done the request for client c: AddClient,     *)
(* DeleteUser, UpdateUser; DeleteClient takes the client from every inbound. *)
(* An email that the inbound has is not added, and one that it does not have *)
(* is not updated.                                                           *)
Requested(a, c) ==
    CASE a.op \in {"delete", "bulkDelete"} ->
            [j \in Inbounds |-> IF node[j] = None THEN None
                                ELSE [node[j] EXCEPT !.clients = @ \ Of({c})]]
      [] a.op \in {"remove", "detach"} -> [node EXCEPT ![a.i].clients = @ \ Of({c})]
      [] a.op = "add" ->
            IF node[a.i].clients \cap Of({c}) # {} THEN node
            ELSE [node EXCEPT ![a.i].clients = @ \cup (a.new.clients \cap Of({c}))]
      [] OTHER ->
            IF node[a.i].clients \cap Of({c}) = {} THEN node
            ELSE [node EXCEPT ![a.i].clients = (@ \ Of({c})) \cup
                                  (a.new.clients \ a.old.clients)]

(* A tag that the node does not have is an error, and so is the update of a  *)
(* client that it does not have, or to an email that it has.                 *)
OnNode(c) == \E j \in Rows(node) : node[j].clients \cap Of({c}) # {}
Possible(a, c) ==
    \/ a.op \in {"delete", "bulkDelete"}
    \/ /\ node[a.i] # None
       /\ a.op \in {"update", "bulkAdjust"} =>
             /\ OnNode(c)
             /\ \A y \in a.new.clients \ a.old.clients : y[1] = c \/ ~OnNode(y[1])

(* addInboundClient stops at the first failure; the others go on.            *)
Sent(a, c, ok) == [a EXCEPT !.rest = IF ~ok /\ a.op = "add" THEN {} ELSE @ \ {c},
                            !.failed = @ \/ ~ok]

PushClient(e, c) ==
    LET a == ed[e]
        answer(ok) == ed' = [ed EXCEPT ![e] = Sent(a, c, ok)]
    IN /\ a.pc = "push" /\ a.op \in ClientOps /\ c \in a.rest
       /\ \/ /\ Possible(a, c) /\ Effect(Requested(a, c))
             /\ answer(TRUE) /\ UNCHANGED faults
          \/ /\ ~Possible(a, c)
             /\ answer(FALSE) /\ UNCHANGED <<node, faults>>
          \/ Fails /\ answer(FALSE)
          \/ Possible(a, c) /\ Lost(Requested(a, c)) /\ answer(FALSE)
    /\ UNCHANGED <<db, tomb, fp, online, lock, job, edits, locals, imported>>

(* Remote.UpdateInbound, which adds the inbound when it knows no id for the   *)
(* tag, and Remote.DelInbound, which has nothing to do then.  Without the    *)
(* inbound on the node, the id it knows leads to an error.                   *)
PushRow(e) ==
    LET a == ed[e]
        rows == [node EXCEPT ![a.i] = a.new]
        answer(ok) == ed' = [ed EXCEPT ![e] = Sent(a, None, ok)]
    IN /\ a.pc = "push" /\ a.op \in RowOps /\ a.rest # {}
       /\ \/ Effect(rows) /\ answer(TRUE) /\ UNCHANGED faults
          \/ /\ node[a.i] = None
             /\ answer(FALSE) /\ UNCHANGED <<node, faults>>
          \/ Fails /\ answer(FALSE)
          \/ Lost(rows) /\ answer(FALSE)
    /\ UNCHANGED <<db, tomb, fp, online, lock, job, edits, locals, imported>>

(* Mutant: the recorded payload is not compared. *)
Pushed_Unchecked(a) == [fp EXCEPT ![a.i] = a.new]

(* AdvancePushedInbound after the clients' requests, when the fingerprint is *)
(* that of the row before the edit; recordPushedInbound after a whole row;    *)
(* cacheDel after a deletion.                                                *)
Pushed(a) ==
    IF a.op \in ClientOps /\ fp[a.i] # a.old THEN fp ELSE [fp EXCEPT ![a.i] = a.new]

EndPush(e) ==
    LET a == ed[e] IN
    /\ a.pc = "push" /\ a.rest = {}
    /\ fp' = IF a.push /\ ~a.failed THEN Pushed(a) ELSE fp
    /\ IF a.op \in PushFirst
       THEN ed' = [ed EXCEPT ![e].pc = "commit"] /\ UNCHANGED lock
       ELSE Leave(e)
    /\ UNCHANGED <<db, tomb, node, online, job, counts, imported>>

(* AddInbound makes a row, and marks the node dirty when it is enabled; it   *)
(* does not push.                                                            *)
AddInbound(i, row) ==
    /\ central[i] = None /\ Sane(row.clients)
    /\ edits < MaxEdits
    /\ edits' = edits + 1
    /\ central' = [central EXCEPT ![i] = row]
    /\ imported' = imported \cup {i}
    /\ IF row.enable THEN MarkNodeDirty ELSE UNCHANGED <<dirty, dirtyAt>>
    /\ UNCHANGED <<adopted, tomb, fp, node, online, lock, ed, job, locals,
                   faults>>

(* NodeService.Update and UpdateFromRequest: the node's row may now lead to a *)
(* fresh server.  The panel drops the Remote with its fingerprints, and      *)
(* marks the node dirty; for UpdateFromRequest a failure to mark it is no    *)
(* more than a warning.  Assumed: no call and no tick is under way.          *)
UpdateNode(fresh) ==
    /\ job.pc = "idle" /\ \A e \in Editors : ed[e].pc = "idle"
    /\ edits < MaxEdits
    /\ edits' = edits + 1
    /\ node' = IF fresh THEN [i \in Inbounds |-> None] ELSE node
    /\ fp' = [i \in Inbounds |-> None]
    /\ \/ MarkNodeDirty /\ UNCHANGED faults
       \/ faults < MaxFaults /\ faults' = faults + 1 /\ UNCHANGED <<dirty, dirtyAt>>
    /\ UNCHANGED <<central, adopted, tomb, online, lock, ed, job, locals,
                   imported>>

-----------------------------------------------------------------------------
(* The tick: NodeTrafficSyncJob.syncOne.  Its goroutine is the only one of   *)
(* the node (running.TryLock and wg.Wait in Run).                            *)

JobAt(pc) == job.pc = pc

(* Run loads the node's row, and syncs a node that is online. *)
Tick ==
    /\ JobAt("idle") /\ online
    /\ job' = [IdleJob EXCEPT !.pc = IF dirty THEN "read" ELSE "fetch",
                              !.dirty = dirty, !.at = dirtyAt, !.adopted = adopted]
    /\ UNCHANGED <<db, tomb, fp, node, online, lock, ed, counts, imported>>

(* ReconcileNode reads the rows, and then lists the node's tags. *)
ReadCentral ==
    /\ JobAt("read")
    /\ job' = [job EXCEPT !.pc = "list", !.want = central]
    /\ UNCHANGED <<db, tomb, fp, node, online, lock, ed, counts, imported>>

ListTags ==
    /\ JobAt("list")
    /\ \/ /\ job' = [job EXCEPT !.pc = "push", !.tags = Rows(node), !.todo = Rows(job.want)]
          /\ UNCHANGED <<node, faults>>
       \/ /\ Fails
          /\ job' = [job EXCEPT !.pc = "fetch"]
    /\ UNCHANGED <<db, tomb, fp, online, lock, ed, edits, locals, imported>>

(* What ReconcileNode sends for a row: buildRuntimeInboundForAPI's answer, or *)
(* the row itself when the database does not answer that.                    *)
Payloads(i) == {Built(job.want[i]), job.want[i]}

(* ReconcileInbound does not send a payload whose fingerprint is recorded    *)
(* when the node has the tag.                                                *)
Held(i, row) == i \in job.tags /\ fp[i] = row

SkipInbound(i) ==
    /\ JobAt("push") /\ i \in job.todo
    /\ \E row \in Payloads(i) : Held(i, row)
    /\ job' = [job EXCEPT !.todo = @ \ {i}]
    /\ UNCHANGED <<db, tomb, fp, node, online, lock, ed, counts, imported>>

(* UpdateInbound, or AddInbound when the tag is not found; an inbound that    *)
(* was deleted on the node after ListTags is an error.  A failure is kept    *)
(* for the end, and the other inbounds are still sent.                       *)
SendInbound(i) ==
    /\ JobAt("push") /\ i \in job.todo
    /\ \E row \in Payloads(i) :
         LET rows == [node EXCEPT ![i] = row]
             fail == [job EXCEPT !.todo = @ \ {i}, !.failed = TRUE]
         IN /\ ~Held(i, row)
            /\ \/ /\ Effect(rows)
                  /\ job' = [job EXCEPT !.pc = "record", !.cur = i, !.sent = row,
                                        !.todo = @ \ {i}]
                  /\ UNCHANGED faults
               \/ /\ i \in job.tags /\ node[i] = None
                  /\ job' = fail
                  /\ UNCHANGED <<node, faults>>
               \/ Fails /\ job' = fail
               \/ Lost(rows) /\ job' = fail
    /\ UNCHANGED <<db, tomb, fp, online, lock, ed, edits, locals, imported>>

(* recordPushedInbound, of what was sent *)
RecordInbound ==
    /\ JobAt("record")
    /\ fp' = [fp EXCEPT ![job.cur] = job.sent]
    /\ job' = [job EXCEPT !.pc = "push", !.cur = None, !.sent = None]
    /\ UNCHANGED <<db, tomb, node, online, lock, ed, counts, imported>>

Swept == job.tags \ Rows(job.want)

(* Mutant: the sweep does not wait for the first adoption. *)
Sweep_AtOnce(i) ==
    /\ JobAt("push") /\ job.todo = {}
    /\ i \in Swept
    /\ Effect([node EXCEPT ![i] = None])
    /\ fp' = [fp EXCEPT ![i] = None]
    /\ job' = [job EXCEPT !.tags = @ \ {i}]
    /\ UNCHANGED <<db, tomb, online, lock, ed, counts, imported>>

(* The tags that have no row here are deleted on the node, but not before    *)
(* its own inbounds were adopted.                                            *)
Sweep(i) ==
    /\ JobAt("push") /\ job.todo = {}
    /\ job.adopted /\ i \in Swept
    /\ \/ /\ Effect([node EXCEPT ![i] = None])
          /\ fp' = [fp EXCEPT ![i] = None]
          /\ job' = [job EXCEPT !.tags = @ \ {i}]
          /\ UNCHANGED faults
       \/ /\ Fails \/ Lost([node EXCEPT ![i] = None])
          /\ job' = [job EXCEPT !.tags = @ \ {i}, !.failed = TRUE]
          /\ UNCHANGED fp
    /\ UNCHANGED <<db, tomb, online, lock, ed, edits, locals, imported>>

Reconciled == /\ JobAt("push") /\ job.todo = {}
              /\ job.adopted => Swept = {}

(* Mutant: the flag is cleared whatever its stamp is. *)
ClearDirty_NoStamp ==
    /\ Reconciled
    /\ dirty' = IF job.failed THEN dirty ELSE FALSE
    /\ job' = [job EXCEPT !.pc = "fetch"]
    /\ UNCHANGED <<central, dirtyAt, adopted, tomb, fp, node, online, lock, ed,
                   counts, imported>>

(* Mutant: a failed push does not keep the flag. *)
ClearDirty_AfterFailure ==
    /\ Reconciled
    /\ dirty' = IF dirtyAt # job.at THEN dirty ELSE FALSE
    /\ job' = [job EXCEPT !.pc = "fetch"]
    /\ UNCHANGED <<central, dirtyAt, adopted, tomb, fp, node, online, lock, ed,
                   counts, imported>>

(* ClearNodeDirty, when nothing failed: it compares the stamp. *)
ClearDirty ==
    /\ Reconciled
    /\ dirty' = IF job.failed \/ dirtyAt # job.at THEN dirty ELSE FALSE
    /\ job' = [job EXCEPT !.pc = "fetch"]
    /\ UNCHANGED <<central, dirtyAt, adopted, tomb, fp, node, online, lock, ed,
                   counts, imported>>

(* FetchTrafficSnapshot; a failure ends the tick. *)
Fetch ==
    /\ JobAt("fetch")
    /\ \/ /\ job' = [job EXCEPT !.pc = "check", !.snap = node]
          /\ UNCHANGED <<node, faults>>
       \/ /\ Fails
          /\ job' = IdleJob
       \/ /\ Blips /\ Fails
          /\ job' = [job EXCEPT !.pc = "check", !.snap = [i \in Inbounds |-> None]]
    /\ UNCHANGED <<db, tomb, fp, online, lock, ed, edits, locals, imported>>

(* NodeSyncState, read before SetRemoteTraffic is submitted to the writer;   *)
(* its error is ignored, and the node then counts as clean.                  *)
CheckDirty ==
    /\ JobAt("check")
    /\ \/ /\ job' = [job EXCEPT !.pc = "merge", !.stale = dirty]
          /\ UNCHANGED <<node, faults>>
       \/ /\ Fails
          /\ job' = [job EXCEPT !.pc = "merge", !.stale = FALSE]
    /\ UNCHANGED <<db, tomb, fp, online, lock, ed, edits, locals, imported>>

(* stripTombstonedClients *)
Strip(row) == [row EXCEPT !.clients = @ \ Of(tomb)]

(* Mutant: an empty snapshot is taken at its word. *)
Merged_Empty(i) ==
    IF job.snap[i] = None THEN None
    ELSE IF central[i] = None THEN job.snap[i] ELSE Strip(job.snap[i])

(* Mutant: the rows that the node no longer reports are kept. *)
Merged_Kept(i) ==
    IF job.snap[i] = None \/ central[i] = None
    THEN IF job.snap[i] = None THEN central[i] ELSE job.snap[i]
    ELSE Strip(job.snap[i])

(* setRemoteTrafficLocked: a known inbound takes the node's settings, an     *)
(* unknown one gets a row, and one that the node no longer reports loses     *)
(* its row, unless the node reports none at all.                             *)
Merged(i) ==
    IF job.snap[i] = None
    THEN IF Rows(job.snap) = {} THEN central[i] ELSE None
    ELSE IF central[i] = None THEN job.snap[i] ELSE Strip(job.snap[i])

(* adoptedWireChanged: the payloads whose fingerprints are recorded. *)
Stamped(i) ==
    IF job.snap[i] # None /\ central[i] # None /\ central[i] # Strip(job.snap[i])
    THEN Strip(job.snap[i]) ELSE None

(* SetRemoteTraffic: the writer applies the snapshot, or refuses it, and the *)
(* tick is over.                                                             *)
Merge ==
    /\ JobAt("merge")
    /\ \/ /\ central' = IF job.stale THEN central ELSE [i \in Inbounds |-> Merged(i)]
          /\ imported' = imported \cup Rows(central')
          /\ job' = [job EXCEPT !.pc = "adopt",
                  !.stamp = [i \in Inbounds |-> IF job.stale THEN None ELSE Stamped(i)]]
          /\ UNCHANGED <<node, faults>>
       \/ /\ Fails
          /\ job' = IdleJob
          /\ UNCHANGED <<central, imported>>
    /\ UNCHANGED <<dirty, dirtyAt, adopted, tomb, fp, online, lock, ed,
                   edits, locals>>

(* RecordAdoptedInbound, after the commit. *)
RecordAdopted ==
    /\ JobAt("adopt")
    /\ fp' = [i \in Inbounds |-> IF job.stamp[i] # None THEN job.stamp[i] ELSE fp[i]]
    /\ job' = [job EXCEPT !.pc = "mark"]
    /\ UNCHANGED <<db, tomb, node, online, lock, ed, counts, imported>>

(* MarkNodeInboundsAdopted, once a snapshot was merged with a clean node. *)
MarkAdopted ==
    /\ JobAt("mark")
    /\ adopted' = (adopted \/ ~job.stale)
    /\ job' = IdleJob
    /\ UNCHANGED <<central, dirty, dirtyAt, tomb, fp, node, online, lock, ed,
                   counts, imported>>

-----------------------------------------------------------------------------
(* The environment: the node's own administrator, the heartbeat, the clock. *)

EditOnNode(i, row) ==
    /\ locals < MaxLocal /\ (row # None => Sane(row.clients))
    /\ locals' = locals + 1
    /\ Effect([node EXCEPT ![i] = row])
    /\ UNCHANGED <<db, tomb, fp, online, lock, ed, job, edits, faults, imported>>

Heartbeat ==
    /\ IF online THEN faults < MaxFaults /\ faults' = faults + 1 ELSE UNCHANGED faults
    /\ online' = ~online
    /\ UNCHANGED <<db, tomb, fp, node, lock, ed, job, edits, locals, imported>>

(* 90 s have passed: more than from a snapshot's fetch to its merge. *)
ExpireTomb(c) ==
    /\ c \in tomb
    /\ job.pc \notin {"check", "merge"}
    /\ tomb' = tomb \ {c}
    /\ UNCHANGED <<db, fp, node, online, lock, ed, job, counts, imported>>

ClientEdit(e) ==
    \/ \E i \in Inbounds, xs \in SUBSET Entries : AddClients(e, i, xs)
    \/ \E i \in Inbounds, cs \in SUBSET Clients :
           \/ Detach(e, "remove", i, cs)
           \/ Detach(e, "detach", i, cs)
    \/ \E i \in Inbounds, x, y \in Entries :
           \/ UpdateClient(e, "update", i, x, y)
           \/ UpdateClient(e, "bulkAdjust", i, x, y)
    \/ \E cs \in SUBSET Clients : Delete(e, "delete", cs) \/ Delete(e, "bulkDelete", cs)
RowEdit(e) == \E i \in Inbounds, new \in Row, op \in RowOps : ChangeInbound(e, op, i, new)
Work(e) ==
    \/ \E i \in Inbounds : NextInbound(e, i)
    \/ Commit(e)
    \/ \E c \in Clients : PushClient(e, c)
    \/ PushRow(e) \/ EndPush(e)
Sync ==
    \/ Tick \/ ReadCentral \/ ListTags
    \/ \E i \in Inbounds : SkipInbound(i) \/ SendInbound(i) \/ Sweep(i)
    \/ RecordInbound \/ ClearDirty \/ Fetch \/ CheckDirty \/ Merge
    \/ RecordAdopted \/ MarkAdopted
Environment ==
    \/ \E i \in Inbounds, row \in Row : EditOnNode(i, row)
    \/ Heartbeat
    \/ \E c \in Clients : ExpireTomb(c)

Next ==
    \/ \E e \in Editors : ClientEdit(e) \/ RowEdit(e) \/ Work(e)
    \/ \E i \in Inbounds, row \in Config : AddInbound(i, row)
    \/ \E fresh \in BOOLEAN : UpdateNode(fresh)
    \/ Sync
    \/ Environment

Spec == Init /\ [][Next]_vars

(* Calls run to their end, the cron calls the job (web.go), the heartbeat    *)
(* finds a node that is up, and tombstones expire.                           *)
Fairness ==
    /\ \A e \in Editors : WF_vars(Work(e))
    /\ WF_vars(Sync)
    /\ WF_vars(Heartbeat /\ ~online)
    /\ \A c \in Clients : SF_vars(ExpireTomb(c))

-----------------------------------------------------------------------------
(* The states of a call, a tick and the records; an inbound is locked by the *)
(* client call that works on it (lockInbound), and by no other.              *)
CallType == [pc : {"idle", "loop", "commit", "push"},
             op : {"none"} \cup ClientOps \cup RowOps,
             i : Inbounds \cup {None}, old : Row, new : Row, push : BOOLEAN,
             rest : SUBSET (Clients \cup {None}), failed : BOOLEAN,
             who : SUBSET Clients, left : SUBSET Inbounds]
JobType == [pc : {"idle", "read", "list", "push", "record", "fetch", "check",
                  "merge", "adopt", "mark"},
            dirty : BOOLEAN, at : Nat, adopted : BOOLEAN,
            want : [Inbounds -> Row], tags : SUBSET Inbounds,
            todo : SUBSET Inbounds, cur : Inbounds \cup {None}, sent : Row,
            failed : BOOLEAN, snap : [Inbounds -> Row], stale : BOOLEAN,
            stamp : [Inbounds -> Row]]
TypeOK ==
    /\ central \in [Inbounds -> Row] /\ node \in [Inbounds -> Row]
    /\ fp \in [Inbounds -> Row]
    /\ dirty \in BOOLEAN /\ adopted \in BOOLEAN /\ online \in BOOLEAN
    /\ tomb \subseteq Clients
    /\ ed \in [Editors -> CallType]
    /\ lock \in [Inbounds -> Editors \cup {None}]
    /\ \A i \in Inbounds, e \in Editors :
          lock[i] = e <=> ed[e].op \in ClientOps /\ ed[e].i = i
    /\ job \in JobType
    /\ dirtyAt \in Nat
    /\ edits \in 0..MaxEdits /\ locals \in 0..MaxLocal /\ faults \in 0..MaxFaults
    /\ imported \subseteq Inbounds

(* The dirty flag goes only when the rows of every marked edit were read by  *)
(* the reconcile that clears it: ClearNodeDirty's compare-and-swap.  (A row  *)
(* that was added disabled is not marked.)                                   *)
ClearCovers ==
    [][dirty /\ ~dirty' =>
         \A i \in Inbounds : \/ job.want[i] = central[i]
                             \/ job.want[i] = None /\ ~central[i].enable]_vars

(* The sweep deletes an inbound of the node only if it once had a row here:  *)
(* a node that was just added keeps what it has.                             *)
OnboardingSafe ==
    [][\A i \in Inbounds :
          /\ JobAt("push") /\ job'.tags = job.tags \ {i} /\ job.tags # job'.tags
          /\ node[i] # None /\ node'[i] = None
          => i \in imported]_vars

(* The node's row x serves the panel's row: it has the row's enable flag,    *)
(* every client that is on, and no client that the row does not have.        *)
Serves(x, row) ==
    /\ x # None
    /\ x.enable = row.enable
    /\ Built(row).clients \subseteq x.clients
    /\ x.clients \subseteq row.clients

(* As long as nobody edits the node itself, a merge takes nothing from a row *)
(* that the panel has but disabled clients, and adds nothing to it: what its *)
(* users committed of the others is never taken back by a snapshot.          *)
EditSurvives ==
    [][JobAt("merge") /\ locals = 0 =>
         \A i \in Inbounds : central[i] # None => Serves(central'[i], central[i])]_vars

(* When the reconcile clears the flag, and no call is under way, the node    *)
(* serves every row that the reconcile read: those that it did not send,     *)
(* because pushedFP says that the node has them, included.                   *)
ClearMeansHeld ==
    [][dirty /\ ~dirty' /\ locals = 0 /\ (\A e \in Editors : ed[e].pc = "idle") =>
         \A i \in Inbounds : job.want[i] # None => Serves(node[i], job.want[i])]_vars

(* A client call commits the row that it read, with its own change: what     *)
(* another client call of the inbound did in between is never undone.        *)
(* (lockInbound; calls that edit the whole row, and merges, take no lock.)   *)
ClientEditsKept ==
    [][\A e \in Editors :
          /\ ed[e].pc = "commit" /\ ed'[e].pc # "commit" /\ dirtyAt' # dirtyAt
          /\ ed[e].op \in ClientOps
          => central[ed[e].i] = ed[e].old]_vars

(* Between calls and ticks, a clean node has an inbound for each of the      *)
(* panel's rows, which serves it, and none of the others that were imported. *)
CleanMeansSame ==
    /\ JobAt("idle") /\ \A e \in Editors : ed[e].pc = "idle"
    /\ ~dirty /\ adopted /\ locals = 0
    => \A i \in imported : IF central[i] = None THEN node[i] = None
                           ELSE Serves(node[i], central[i])

(* Once the edits and the faults are over, the panel and the node agree for  *)
(* ever, unless the node reports no inbound at all.                          *)
Convergence == <>[](Rows(node) # {} => central = node)
=============================================================================
