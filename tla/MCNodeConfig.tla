---------------------------- MODULE MCNodeConfig -----------------------------
(***************************************************************************)
(* Instances of NodeConfig for TLC.  Spec lets calls and ticks overlap.     *)
(* The specifications below bar the behaviours in which the panel and the  *)
(* node are known to disagree (the README lists them), so that the         *)
(* properties can be checked in all others.                                *)
(***************************************************************************)
EXTENDS NodeConfig

Calling == \E e \in Editors : ed[e].pc # "idle"

(* No call overlaps a tick or another call. *)
Alone == /\ Calling' => job'.pc = "idle"
         /\ edits' # edits => JobAt("idle") /\ ~Calling

(* No call writes a client whose tombstone is alive. *)
NoRevival == edits' # edits =>
    /\ \A e \in Editors :
          ed'[e].new # None => ed'[e].new.clients \cap Of(tomb') = {}
    /\ \A i \in Inbounds :
          central'[i] # central[i] => central'[i].clients \cap Of(tomb') = {}

(* No client of a node that is not yet adopted is deleted. *)
KnownDeletion == adopted \/ tomb' \subseteq tomb

(* No inbound is added disabled. *)
EnabledAdds == edits' # edits =>
    \A i \in Inbounds : central[i] = None /\ central'[i] # None => central'[i].enable

(* A node that was just added does not answer with an empty list. *)
LateBlips == JobAt("fetch") /\ Rows(node) # {} /\ job'.pc = "check" =>
    adopted \/ Rows(job'.snap) # {}

(* The rows that a new call is going to write, if no transaction fails. *)
Targets(a) == a.left \cup ({a.i} \ {None})
Result(a, i) == IF i \in a.left THEN [central[i] EXCEPT !.clients = @ \ Of(a.who)] ELSE a.new

(* No call takes a row back to a payload whose fingerprint is recorded, but  *)
(* which the node no longer serves.                                          *)
Lapsed(i, row) == row # None /\ fp[i] \in {row, Built(row)} /\ ~Serves(node[i], row)
NoReturn == edits' # edits =>
    /\ \A e \in Editors : \A i \in Targets(ed'[e]) : ~Lapsed(i, Result(ed'[e], i))
    /\ \A i \in Inbounds : central'[i] # central[i] => ~Lapsed(i, central'[i])

(* No call updates a client on a node that has lost it to a reconcile, while *)
(* the recorded fingerprint is that of the row that still has the client.    *)
NoLoss == edits' # edits => \A e \in Editors :
    LET a == ed'[e]
    IN a.op \in {"update", "bulkAdjust"} /\ fp[a.i] = a.old =>
          \A c \in a.rest : node[a.i].clients \cap Of({c}) # {}

(* A transaction that follows its tombstones or its pushes does not fail. *)
SureCommit == faults' # faults =>
    \A e \in Editors : ed[e].op \in PushFirst \cup {"delete"} => ed[e].pc # "commit"

(* The dirty flag is read without an error, and a node is marked dirty with  *)
(* the change that leads to a fresh server.                                  *)
SureFlag ==
    /\ JobAt("check") /\ job'.pc = "merge" => job'.stale = dirty
    /\ edits' # edits /\ node' # node => dirty'

(* While a call or a tick is under way, no other begins (Alone), so that TLC  *)
(* need not look for one.                                                    *)
Onward == IF JobAt("idle") /\ ~Calling THEN Next
          ELSE (\E e \in Editors : Work(e)) \/ Sync \/ Environment

Plain == Onward /\ Alone /\ NoRevival /\ KnownDeletion /\ EnabledAdds /\ LateBlips
              /\ NoReturn /\ NoLoss /\ SureCommit /\ SureFlag
PlainSpec == Init /\ [][Plain]_vars

(* Only edits of clients, by several editors, and no tick.  It may stop when *)
(* no call is under way.  What they do is the same for a disabled inbound.   *)
Done == ~Calling /\ UNCHANGED vars
Calls == \/ \E e \in Editors : ClientEdit(e) \/ Work(e)
         \/ \E i \in Inbounds, row \in Config : row.enable /\ AddInbound(i, row)
         \/ Heartbeat
         \/ Done
CallsSpec == Init /\ [][Calls]_vars

(* All of the behaviours, but the node's own administrator only deletes an  *)
(* inbound, or writes one that is enabled and has clients that are on.       *)
FewRows == {None} \cup {row \in Config :
    row.enable /\ row.clients # {} /\ Built(row) = row}
FairNext ==
    \/ \E e \in Editors : ClientEdit(e) \/ RowEdit(e) \/ Work(e)
    \/ \E i \in Inbounds, row \in Config : AddInbound(i, row)
    \/ \E fresh \in BOOLEAN : UpdateNode(fresh)
    \/ Sync
    \/ \E i \in Inbounds, row \in FewRows : EditOnNode(i, row)
    \/ Heartbeat
    \/ \E c \in Clients : ExpireTomb(c)
FairSpec == Init /\ [][FairNext]_vars /\ Fairness
=============================================================================
