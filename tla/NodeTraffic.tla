----------------------------- MODULE NodeTraffic -----------------------------
(***************************************************************************)
(* How the panel adds up what one client used on several nodes             *)
(* (setRemoteTrafficLocked in inbound_node.go, with the client calls of     *)
(* client_crud.go and the resets of inbound_traffic.go).  Every node has    *)
(* one counter per client and reports it under each inbound the client is   *)
(* on.  The panel has one row per client, shared by all nodes, and one      *)
(* baseline per node: what that node had counted when it was last merged.   *)
(*                                                                         *)
(* One client, one direction of traffic.  What an edit does to the          *)
(* configuration of one node, step by step, is in NodeConfig: here a call   *)
(* is one step and its pushes succeed on some of the nodes.                 *)
(***************************************************************************)
EXTENDS Integers, FiniteSets, FiniteSetsExt

CONSTANTS
    Nodes,
    Inbounds,      \* inbounds of all nodes, by tag
    Home,          \* the node of an inbound
    None,          \* no row, no baseline, no copy, no snapshot
    Concurrency,   \* nodeTrafficSyncConcurrency: nodes that are synced at once
    MaxBytes,      \* bound: bytes the client sends
    MaxExp,        \* bound: the latest deadline
    MaxActs        \* bound: calls of the panel, edits and resets on the nodes

ASSUME HomeAssumption == Home \in [Inbounds -> Nodes]
ASSUME BoundAssumption == {Concurrency, MaxBytes, MaxExp, MaxActs} \subseteq Nat
Place == {"absent", "bare", "client"}   \* an inbound: none, without, with the client
RowType == [used : Nat, exp : Nat, at : Inbounds]
SnapType == [list : [Inbounds -> Place], copy : [Inbounds -> Nat \cup {None}],
             exp : Nat, dirty : BOOLEAN]

ASSUME NoneAssumption == None \notin Nat \cup Inbounds \cup RowType \cup SnapType
ASSUME FiniteAssumption == IsFiniteSet(Nodes)
Delayed == 0     \* a negative expiry_time: it starts at the first connection

VARIABLES
    node,          \* the nodes' own inbounds
    cnt,           \* the counter that a node has for the client
    nodeExp,       \* the client's deadline on a node
    central,       \* the panel's inbounds: their settings and client_inbounds
    row,           \* client_traffics: what is used, the deadline, inbound_id
    base,          \* node_client_traffics: the baselines
    tomb,          \* recentlyDeleted has the client
    dirty,         \* nodes.config_dirty
    snap,          \* the snapshot that syncOne has fetched from a node
    bytes, acts,   \* what the bounds count
    bill           \* history: the most that the row may hold

nodeVars == <<node, cnt, nodeExp>>
vars == <<node, cnt, nodeExp, central, row, base, tomb, dirty, snap, bytes,
          acts, bill>>

On(n) == {i \in Inbounds : Home[i] = n}
Holders(conf) == {i \in Inbounds : conf[i] = "client"}
Serves(n) == Holders(node) \cap On(n) # {}
NoBase == [n \in Nodes |-> None]
SumOver(f) == MapThenSumSet(LAMBDA n : f[n], Nodes)
(* Mutant: a counter that fell gives a negative difference. *)
Above_Unclamped(a, b) == a - b
Above(a, b) == IF a > b THEN a - b ELSE 0

(* What a node has counted and the row has not: between its baseline, the   *)
(* snapshot that is under way and its counter now.                          *)
Copies(s) == IF s = None THEN {} ELSE {s.copy[i] : i \in Inbounds} \ {None}
Due(c, b, s) ==
    LET since(x) == IF b = None THEN 0 ELSE Above(x, b)
    IN IF Copies(s) = {} THEN since(c)
       ELSE since(Max(Copies(s))) + Above(c, Max(Copies(s)))
Restart(used) == bill' = used + SumOver([n \in Nodes |-> Due(cnt'[n], base'[n], snap'[n])])

Start ==
    /\ cnt = [n \in Nodes |-> 0]
    /\ nodeExp = [n \in Nodes |-> Delayed]
    /\ central = [i \in Inbounds |-> "absent"]
    /\ row = None
    /\ base = NoBase
    /\ tomb = FALSE
    /\ dirty = [n \in Nodes |-> FALSE]
    /\ snap = [n \in Nodes |-> None]
    /\ bytes = 0 /\ acts = 0 /\ bill = 0
Init == node \in [Inbounds -> Place] /\ Start
-----------------------------------------------------------------------------
(* The nodes: each is a panel of its own. *)

(* The client connects, which starts a delayed deadline, and sends a byte. *)
Traffic(n) ==
    /\ Serves(n) /\ bytes < MaxBytes
    /\ bytes' = bytes + 1 /\ bill' = bill + 1
    /\ cnt' = [cnt EXCEPT ![n] = @ + 1]
    /\ nodeExp' = [nodeExp EXCEPT ![n] = IF @ = Delayed THEN 1 ELSE @]
    /\ UNCHANGED <<node, central, row, base, tomb, dirty, snap, acts>>

(* A node that has the client on no inbound may forget its counter. *)
Forgets(kept) ==
    \E lost \in SUBSET {n \in Nodes : Holders(kept) \cap On(n) = {}} :
        /\ cnt' = [n \in Nodes |-> IF n \in lost THEN 0 ELSE cnt[n]]
        /\ nodeExp' = [n \in Nodes |-> IF n \in lost THEN Delayed ELSE nodeExp[n]]

Local ==
    /\ acts < MaxActs /\ acts' = acts + 1
    /\ UNCHANGED <<central, row, base, tomb, dirty, snap, bytes, bill>>

EditOnNode(i) ==
    /\ Local
    /\ \E p \in Place \ {node[i]} : node' = [node EXCEPT ![i] = p]
    /\ Forgets(node')

ResetOnNode(n) ==
    /\ Local /\ Serves(n)
    /\ cnt' = [cnt EXCEPT ![n] = 0]
    /\ UNCHANGED <<node, nodeExp>>

(* autoRenewClients on the node: the deadline moves and the counter starts  *)
(* again.                                                                   *)
RenewOnNode(n) ==
    /\ Local /\ Serves(n)
    /\ nodeExp[n] \in 1..(MaxExp - 1)
    /\ nodeExp' = [nodeExp EXCEPT ![n] = @ + 1]
    /\ cnt' = [cnt EXCEPT ![n] = 0]
    /\ UNCHANGED node
-----------------------------------------------------------------------------
(* Calls of the panel. *)

Call == /\ acts < MaxActs /\ acts' = acts + 1
        /\ UNCHANGED bytes

(* MarkNodeDirtyTx.  syncOne reads the flag after its fetch (NodeSyncState), *)
(* before the merge waits for the writer: of the nodes whose snapshot is      *)
(* under way, some have not read it yet.                                      *)
Mark(S) ==
    /\ dirty' = [n \in Nodes |-> dirty[n] \/ n \in S]
    /\ \E unread \in SUBSET {n \in S : snap[n] # None /\ ~dirty[n]} :
          snap' = [n \in Nodes |-> IF n \in unread THEN [snap[n] EXCEPT !.dirty = TRUE]
                                  ELSE snap[n]]

(* Delete: from the settings of every inbound, with the row and the         *)
(* baselines of all nodes.  The deletion reaches some of the nodes.         *)
DeleteClient ==
    /\ Call /\ Holders(central) # {}
    /\ central' = [i \in Inbounds |-> IF central[i] = "client" THEN "bare" ELSE central[i]]
    /\ row' = None /\ base' = NoBase /\ tomb' = TRUE
    /\ LET homes == {Home[i] : i \in Holders(central)} IN
       /\ Mark(homes)
       /\ \E reached \in SUBSET homes :
             node' = [i \in Inbounds |->
                        IF Home[i] \in reached /\ node[i] = "client" THEN "bare" ELSE node[i]]
    /\ Forgets(node')
    /\ bill' = 0

(* AddInboundClient and AddClientStat: an existing row keeps its counters   *)
(* and moves to the inbound.                                                *)
Attach(i) ==
    /\ Call /\ central[i] = "bare"
    /\ central' = [central EXCEPT ![i] = "client"]
    /\ Mark({Home[i]})
    /\ \/ UNCHANGED nodeVars
       \/ /\ node[i] = "bare"
          /\ node' = [node EXCEPT ![i] = "client"]
          /\ nodeExp' = [nodeExp EXCEPT ![Home[i]] = IF row = None THEN Delayed ELSE row.exp]
          /\ UNCHANGED cnt
    /\ UNCHANGED <<base, tomb>>
    /\ IF row = None
       THEN row' = [used |-> 0, exp |-> Delayed, at |-> i] /\ Restart(0)
       ELSE row' = [row EXCEPT !.at = i] /\ UNCHANGED bill

(* Detach: the row stays. *)
Detach(i) ==
    /\ Call /\ central[i] = "client"
    /\ central' = [central EXCEPT ![i] = "bare"]
    /\ Mark({Home[i]})
    /\ \/ UNCHANGED nodeVars
       \/ /\ node[i] = "client"
          /\ node' = [node EXCEPT ![i] = "bare"]
          /\ Forgets(node')
    /\ UNCHANGED <<row, base, tomb, bill>>

(* resetClientTrafficLocked for one inbound, which also resets that node's  *)
(* own counter when the request reaches it.                                 *)
ResetClient(i) ==
    /\ Call /\ central[i] = "client" /\ row # None
    /\ row' = [row EXCEPT !.used = 0] /\ base' = NoBase
    /\ Mark({Home[i]})
    /\ \/ cnt' = cnt
       \/ Serves(Home[i]) /\ cnt' = [cnt EXCEPT ![Home[i]] = 0]
    /\ UNCHANGED <<node, nodeExp, central, tomb>>
    /\ Restart(0)

(* BulkResetTraffic and ResetAllClientTraffics: no node hears of it. *)
BulkReset ==
    /\ Call /\ row # None
    /\ row' = [row EXCEPT !.used = 0] /\ base' = NoBase
    /\ UNCHANGED <<node, cnt, nodeExp, central, tomb, dirty, snap>>
    /\ Restart(0)

ExpireTomb ==
    /\ tomb /\ tomb' = FALSE
    /\ UNCHANGED <<node, cnt, nodeExp, central, row, base, dirty, snap, bytes,
                   acts, bill>>
-----------------------------------------------------------------------------
(* The tick of a node: syncOne. *)

(* ReconcileNode gives a dirty node the panel's inbounds, and sweeps those  *)
(* the panel does not have once the node is adopted.                        *)
Reconcile(n) ==
    /\ dirty[n] /\ snap[n] = None
    /\ dirty' = [dirty EXCEPT ![n] = FALSE]
    /\ \E swept \in BOOLEAN :
          node' = [i \in Inbounds |->
                     IF Home[i] = n /\ (central[i] # "absent" \/ swept)
                     THEN central[i] ELSE node[i]]
    /\ Forgets(node')
    /\ UNCHANGED <<central, row, base, tomb, snap, bytes, acts, bill>>

(* FetchTrafficSnapshot: the inbounds, and under some inbounds of the       *)
(* client a copy of its counter.  A copy may be out of date, one is not.    *)
List(n) == [i \in Inbounds |-> IF Home[i] = n THEN node[i] ELSE "absent"]
Reports(n) ==
    IF Holders(List(n)) = {} THEN {[i \in Inbounds |-> None]}
    ELSE UNION {{[i \in Inbounds |-> IF i = lead THEN cnt[n]
                                     ELSE IF i \in stale THEN 0 ELSE None] :
                   stale \in SUBSET Holders(List(n))} : lead \in Holders(List(n))}
Snapshot(n) == [list : {List(n)}, copy : Reports(n), exp : {nodeExp[n]}, dirty : {dirty[n]}]

Fetch(n) ==
    /\ snap[n] = None
    /\ Cardinality({m \in Nodes : snap[m] # None}) < Concurrency
    /\ \E s \in Snapshot(n) : snap' = [snap EXCEPT ![n] = s]
    /\ UNCHANGED <<node, cnt, nodeExp, central, row, base, tomb, dirty, bytes,
                   acts, bill>>

(* Mutant: one copy of the counter, not the greatest. *)
Canon_LastCopy(s) == Min(Copies(s))
(* nodeEmailTotals: the greatest of the copies of the client's counter. *)
Canon(s) == Max(Copies(s))

(* mergeActivationExpiry: a deadline that runs is not taken back. *)
MergeExpiry(mine, theirs) == IF mine > 0 /\ theirs = Delayed THEN mine ELSE theirs

(* nodeClientRenewed: a later deadline and a counter below its baseline.     *)
(* The client of this model is one that renews itself, so the code's check   *)
(* of its Reset, which must be positive, is left out.                        *)
Renewed(r, s, b) == /\ r.exp > 0 /\ s.exp > r.exp
                    /\ Canon(s) < b

(* The row after the snapshot's statistics.  here: the row is one of this   *)
(* node's inbounds, whose statistics the merge has loaded.                  *)
Counted(r, s, b, here) ==
    IF b # None /\ here /\ Renewed(r, s, b)
    THEN [r EXCEPT !.used = Canon(s), !.exp = s.exp]
    ELSE [r EXCEPT !.used = @ + (IF b = None THEN 0 ELSE Above(Canon(s), b)),
                   !.exp = MergeExpiry(@, s.exp)]

(* Mutant: the baseline goes with the inbound. *)
BaseGone_Always(reported) == TRUE
(* The baseline of a client that its node no longer reports goes; that of a *)
(* client reported under another inbound stays.                             *)
BaseGone(reported) == reported = {}

(* Mutant: the other inbounds are not asked. *)
Alone_Assumed(i) == TRUE
(* emailUsedByOtherInbounds reads the settings as they were before the      *)
(* merge.                                                                   *)
Alone(i) == Holders(central) \ {i} = {}

(* The snapshot's inbounds, by what the panel knew of them: tagToCentral.   *)
Listed(n)   == {i \in On(n) : snap[n].list[i] # "absent"}
Reported(n) == {i \in Listed(n) : snap[n].copy[i] # None}
Known(n)    == {i \in Listed(n) : central[i] # "absent"}

(* An inbound that the panel does not have is adopted, unless an edit waits. *)
Fresh(n) == IF snap[n].dirty THEN {} ELSE Listed(n) \ Known(n)

(* One that the node does not list any more is deleted, with the row whose  *)
(* inbound_id it is; a node that lists nothing says nothing.                *)
Gone(n) == IF snap[n].dirty \/ Listed(n) = {} THEN {}
           ELSE {i \in On(n) \ Listed(n) : central[i] # "absent"}
Swept(n) == row # None /\ row.at \in Gone(n)

(* The row's inbound is listed, and no inbound reports the client.          *)
Unseen(n) == /\ row # None /\ row.at \in Known(n) /\ ~snap[n].dirty
             /\ BaseGone(Reported(n))

(* The statistics that the merge goes through.                              *)
Stats(n) == Reported(n) \cap (Known(n) \cup Fresh(n))

(* The panel's inbounds afterwards: a clean node's settings are adopted,    *)
(* without a client whose tombstone is alive, and SyncInbound links them.   *)
After(n) ==
    [i \in Inbounds |->
        IF i \in Gone(n) THEN "absent"
        ELSE IF snap[n].dirty \/ i \notin Listed(n) THEN central[i]
        ELSE IF snap[n].list[i] = "client" /\ ~tomb THEN "client" ELSE "bare"]

(* A client that this merge takes from its last inbound loses everything.   *)
Orphaned(n) == /\ ~snap[n].dirty
               /\ \E i \in Known(n) : central[i] = "client" /\ After(n)[i] = "bare"
               /\ Holders(After(n)) = {}

(* The client has a row, or its statistics are passed over.                 *)
Account(n) ==
    LET s    == snap[n]
        here == Home[row.at] = n /\ central[row.at] # "absent"
        drop == (Swept(n) \/ Unseen(n)) /\ Alone(row.at)
    IN
    /\ row # None \/ Stats(n) = {} \/ s.dirty \/ (tomb /\ Stats(n) \cap Fresh(n) = {})
    /\ row' = IF row = None \/ Orphaned(n) \/ drop THEN None
              ELSE IF Stats(n) = {} THEN row
              ELSE Counted(row, s, base[n], here)
    /\ base' = IF Orphaned(n) THEN NoBase
               ELSE IF Unseen(n) \/ (Swept(n) /\ BaseGone(Reported(n)))
               THEN [base EXCEPT ![n] = None]
               ELSE IF Stats(n) # {} /\ row # None
               THEN [base EXCEPT ![n] = Canon(s)]
               ELSE base
    /\ UNCHANGED cnt
    /\ IF row' # None /\ Stats(n) # {} /\ here /\ base[n] # None /\ Renewed(row, s, base[n])
       THEN Restart(row'.used) ELSE UNCHANGED bill

(* It has none: a row is created under the first inbound that reports it,   *)
(* with the node's counter if that inbound is new here.  After a deletion   *)
(* only a new inbound creates it.                                           *)
Create(n) ==
    /\ row = None /\ ~snap[n].dirty
    /\ \E i \in Stats(n) :
          /\ tomb => i \in Fresh(n)
          /\ row' = IF Orphaned(n) THEN None
                    ELSE [used |-> IF i \in Fresh(n) /\ ~tomb THEN Canon(snap[n]) ELSE 0,
                          exp |-> snap[n].exp, at |-> i]
    /\ base' = IF Orphaned(n) THEN NoBase ELSE [base EXCEPT ![n] = Canon(snap[n])]
    /\ UNCHANGED cnt
    /\ IF row' = None THEN UNCHANGED bill ELSE Restart(row'.used)

(* setRemoteTrafficLocked, in the writer.                                   *)
Merge(n) ==
    /\ snap[n] # None
    /\ snap' = [snap EXCEPT ![n] = None]
    /\ central' = After(n)
    /\ Account(n) \/ Create(n)
    /\ UNCHANGED <<node, cnt, nodeExp, tomb, dirty, bytes, acts>>

Next ==
    \/ \E n \in Nodes : \/ Traffic(n) \/ ResetOnNode(n) \/ RenewOnNode(n)
                        \/ Reconcile(n) \/ Fetch(n) \/ Merge(n)
    \/ \E i \in Inbounds : EditOnNode(i) \/ Attach(i) \/ Detach(i) \/ ResetClient(i)
    \/ DeleteClient \/ BulkReset \/ ExpireTomb

Spec == Init /\ [][Next]_vars
-----------------------------------------------------------------------------
(* Every variable keeps its type, and only a client that was merged from a  *)
(* node has a baseline for it.                                              *)
TypeOK ==
    /\ node \in [Inbounds -> Place] /\ central \in [Inbounds -> Place]
    /\ cnt \in [Nodes -> Nat] /\ nodeExp \in [Nodes -> Nat]
    /\ row \in RowType \cup {None}
    /\ base \in [Nodes -> Nat \cup {None}]
    /\ tomb \in BOOLEAN /\ dirty \in [Nodes -> BOOLEAN]
    /\ snap \in [Nodes -> SnapType \cup {None}]
    /\ {bytes, acts, bill} \subseteq Nat

(* No byte is added to the client's row twice, and none that was merged      *)
(* before a reset is added after it, whatever resets, renewals, moves,       *)
(* deletions, lost pushes and stale copies do: what is used is at most what  *)
(* was due at the last restart of the row's period and what was sent since.  *)
(* (setRemoteTrafficLocked: nodeEmailTotals and the baselines.)              *)
NoDoubleCount == row # None => row.used <= bill

(* Nothing that a node owes the row is dropped while the node reports the    *)
(* client: a step which neither resets the row nor a node's counter keeps    *)
(* the sum of what is used and what is owed, but for a renewal.  (#5202: the *)
(* baseline must survive for the inbound's sibling.)                         *)
Owed(c, b) == SumOver([n \in Nodes |-> IF b[n] = None THEN 0 ELSE Above(c[n], b[n])])
Lossless ==
    /\ row # None /\ row' # None
    /\ \A n \in Nodes : /\ cnt'[n] >= cnt[n]
                        /\ snap'[n] = None /\ snap[n] # None => Copies(snap[n]) # {}
    => \/ row'.used + Owed(cnt', base') >= row.used + Owed(cnt, base)
       \/ row'.used = 0 /\ base' = NoBase
       \/ row'.exp > row.exp
Conserved == [][Lossless]_vars

(* A merge does not delete the row, which sums up all nodes, of a client     *)
(* that some inbound of the panel has before and after.                      *)
Shared == Holders(central) \cap Holders(central') # {}
SharedKept == [][row # None /\ Shared => row' # None]_vars
=============================================================================
