---------------------------- MODULE ClientLimits -----------------------------
(***************************************************************************)
(* Whether one client of local inbounds may connect: the three places that *)
(* say so (the settings of every inbound the client is attached to, its    *)
(* record in clients, its row in client_traffics), the users that Xray     *)
(* really has, the traffic poll that disables the client at its limits or  *)
(* renews it, and the calls that edit, enable, adjust and reset it         *)
(* (internal/web/service: client_traffic.go, client_crud.go,               *)
(* client_bulk.go, inbound_traffic.go, inbound_disable.go).                *)
(*                                                                         *)
(* A function that runs on the traffic writer is one action.  A call reads *)
(* an inbound before it queues its transaction and pushes to Xray after    *)
(* it, so the poll may run between the three.  One call is under way at a  *)
(* time.  Xray runs throughout (XrayRuntime is about its process), and of  *)
(* the limits the model keeps only whether the row is beyond them.         *)
(***************************************************************************)
EXTENDS Naturals, FiniteSets

CONSTANTS
    Inbounds,         \* inbounds the client may be attached to
    NoInbound,        \* no inbound is in hand
    MaxCalls,         \* bound: calls made
    MaxOver,          \* bound: how often a limit is reached
    MaxFaults         \* bound: failed transactions and failed requests to Xray

ASSUME NoInboundAssumption == NoInbound \notin Inbounds
ASSUME FiniteAssumption == IsFiniteSet(Inbounds)
ASSUME BoundsAssumption == {MaxCalls, MaxOver, MaxFaults} \subseteq Nat

VARIABLES
    homes,            \* the client's rows in client_inbounds
    renews,           \* the client has a reset period (reset > 0)
    on,               \* on[i]: the client's enable in the settings of inbound i
    rec,              \* clients.enable
    row,              \* client_traffics.enable
    quota,            \* the row's up + down has reached its total
    expired,          \* the row's expiry_time has passed
    live,             \* live[i]: Xray accepts the client on inbound i
    conf,             \* conf[i]: the configuration that the Process has stored
                      \* (GetConfig) has the client on inbound i
    need,             \* isNeedXrayRestart
    call,             \* the call under way
    calls, overs, faults,
    lost,             \* history: inbounds on which a request failed, and no
                      \* restart will make up for it: conf says already what
                      \* it asked for, or nobody heard of the failure
    upset             \* history: the poll changed the client during a call, a
                      \* restart met a BulkSetEnable, or a transaction failed

limitVars == <<quota, expired>>
bounds == <<calls, overs, faults>>
fixed == <<homes, renews>>
xray == <<live, conf, lost>>
vars == <<homes, renews, on, rec, row, quota, expired, live, conf, need, call,
          calls, overs, faults, lost, upset>>

Ops == {"none", "update", "reset", "bulkReset", "enable", "adjust", "other"}
Steps == {"inbound", "commit", "push", "zero", "raise"}

NoCall == [op |-> "none", pc |-> "inbound", todo |-> {}, i |-> NoInbound,
           seen |-> FALSE, v |-> FALSE, edit |-> FALSE, raise |-> FALSE,
           skip |-> FALSE, was |-> FALSE, need |-> FALSE]
Quiet == call.op = "none"
Over == quota \/ expired

(* What GetXrayConfig puts into the configuration of a home of the client. *)
Built == rec /\ row

(* A client that is enabled everywhere, or nowhere. *)
Init == /\ homes \in (SUBSET Inbounds) \ {{}}
        /\ renews \in BOOLEAN
        /\ rec \in BOOLEAN
        /\ row = rec
        /\ on = [i \in Inbounds |-> i \in homes /\ rec]
        /\ live = on /\ conf = on /\ lost = {}
        /\ quota = FALSE /\ expired = FALSE /\ need = FALSE
        /\ call = NoCall
        /\ calls = 0 /\ overs = 0 /\ faults = 0
        /\ upset = FALSE

(***************************************************************************)
(* The limits and the poll.                                                *)
(***************************************************************************)
(* A user that can connect uses up its quota; a deadline passes.           *)
ReachLimit == /\ overs < MaxOver
              /\ overs' = overs + 1
              /\ \/ (\E i \in homes : live[i]) /\ quota' = TRUE /\ UNCHANGED expired
                 \/ expired' = TRUE /\ UNCHANGED quota
              /\ UNCHANGED <<fixed, on, rec, row, xray, need, call, calls, faults, upset>>

(* One request to Xray, or several of one action, may fail. *)
Failing(bad) == /\ bad # {} => faults < MaxFaults
                /\ faults' = IF bad = {} THEN faults ELSE faults + 1

(* Requests on the inbounds of asked, for a user that is there (v) or not;  *)
(* those of failed were not done, which is heard or not.                    *)
Asked(asked, failed, v, heard) ==
    lost' = (lost \ asked) \cup
            {i \in failed : live'[i] # v /\ (conf[i] = v \/ ~heard)}

(* The traffic job asks for a restart when its poll wants one; the node job *)
(* and GetXrayConfig, which make the same writes, drop the answer.  A poll  *)
(* is not serialised with the rest of a call.                               *)
PollEnds(heard, wants) ==
    /\ need' = (need \/ (heard /\ wants))
    /\ upset' = (upset \/ ~Quiet)

(* autoRenewClients.  traffic.Enable is set when the first inbound is done, *)
(* so only that inbound's settings get enable and only it gets the user;    *)
(* SyncInbound of the last one decides the record.  AddUser fails for a     *)
(* user that is there.                                                      *)
AutoRenew(heard) ==
    /\ renews /\ expired
    /\ \E first, last \in homes, bad \in SUBSET {"add"} :
          /\ first = last <=> Cardinality(homes) = 1
          /\ Failing(bad)
          /\ on' = IF row THEN on ELSE [on EXCEPT ![first] = TRUE]
          /\ rec' = on'[last]
          /\ live' = IF row \/ bad # {} THEN live ELSE [live EXCEPT ![first] = TRUE]
          /\ IF row THEN UNCHANGED lost
             ELSE Asked({first}, IF bad = {} THEN {} ELSE {first}, TRUE, heard)
          /\ PollEnds(heard, ~row /\ (live[first] \/ bad # {}))
    /\ row' = TRUE
    /\ quota' = FALSE /\ expired' = FALSE
    /\ UNCHANGED <<fixed, conf, call, calls, overs>>

(* Mutant: the settings are not marked. *)
DisableInvalidClients_RecordOnly(heard) ==
    /\ row /\ Over /\ ~(renews /\ expired)
    /\ \E bad \in SUBSET {i \in homes : live[i]} :
          /\ Failing(bad)
          /\ live' = [i \in Inbounds |-> i \in bad]
          /\ Asked(homes, bad, FALSE, heard)
          /\ PollEnds(heard, bad # {})
    /\ rec' = FALSE
    /\ row' = FALSE
    /\ UNCHANGED <<fixed, conf, on, limitVars, call, calls, overs>>

(* disableInvalidClients: every home in Xray, the settings, the row and the *)
(* record.                                                                  *)
DisableInvalidClients(heard) ==
    /\ row /\ Over /\ ~(renews /\ expired)
    /\ \E bad \in SUBSET {i \in homes : live[i]} :
          /\ Failing(bad)
          /\ live' = [i \in Inbounds |-> i \in bad]
          /\ Asked(homes, bad, FALSE, heard)
          /\ PollEnds(heard, bad # {})
    /\ on' = [i \in Inbounds |-> FALSE]
    /\ rec' = FALSE
    /\ row' = FALSE
    /\ UNCHANGED <<fixed, conf, limitVars, call, calls, overs>>

Due == (renews /\ expired) \/ (row /\ Over)
Poll == \E heard \in BOOLEAN : AutoRenew(heard) \/ DisableInvalidClients(heard)

(* Between calls the panel may have nothing left to do. *)
Idle == Quiet /\ UNCHANGED vars

(* Mutant: the stored configuration is replaced, and nothing else. *)
RestartXray_StoreOnly ==
    /\ ~Due
    /\ conf' = [i \in Inbounds |-> i \in homes /\ Built]
    /\ UNCHANGED <<live, lost>>
    /\ upset' = (upset \/ call.op = "enable")
    /\ UNCHANGED <<fixed, on, rec, row, limitVars, call, bounds>>

(* RestartXray.  GetXrayConfig first runs what the poll would do: a Poll    *)
(* that nobody hears, after which nothing is Due.  Where the stored         *)
(* configuration differs from the new one, the user, the inbound or all of  *)
(* Xray is replaced; where it does not, only because of another client or   *)
(* because it was forced.  BulkSetEnable writes the row last, so a restart  *)
(* inside it may undo what it pushed.                                       *)
RestartXray ==
    /\ ~Due
    /\ conf' = [i \in Inbounds |-> i \in homes /\ Built]
    /\ \E done \in SUBSET homes :
          /\ {i \in homes : conf[i] # Built} \subseteq done
          /\ live' = [i \in Inbounds |-> IF i \in done THEN Built ELSE live[i]]
          /\ lost' = lost \ done
    /\ upset' = (upset \/ call.op = "enable")
    /\ UNCHANGED <<fixed, on, rec, row, limitVars, call, bounds>>

(* ApplyPendingRestart *)
Restart == need /\ need' = FALSE /\ RestartXray

(* The other callers: the node job, the traffic job when the settings ask   *)
(* for it, saved settings.                                                  *)
OtherRestart == RestartXray /\ UNCHANGED need

(* resetAllClientTrafficsLocked, which the periodic reset job calls: only  *)
(* the row.                                                                *)
ResetAllClientTraffics ==
    /\ calls < MaxCalls
    /\ calls' = calls + 1
    /\ row' = TRUE
    /\ quota' = FALSE
    /\ UNCHANGED <<fixed, on, rec, expired, xray, need, call, overs, faults, upset>>

(***************************************************************************)
(* The start of each call.                                                 *)
(***************************************************************************)
Begin(c) == /\ Quiet /\ calls < MaxCalls
            /\ calls' = calls + 1
            /\ call' = c
            /\ UNCHANGED <<fixed, on, rec, row, limitVars, xray, need, overs, faults, upset>>

(* Update: every home gets enable = v, and perhaps other fields, higher     *)
(* limits among them.                                                       *)
Update(v, edit, raise) ==
    /\ raise => edit
    /\ Begin([NoCall EXCEPT !.op = "update", !.todo = homes, !.v = v,
                            !.edit = edit, !.raise = raise])

(* Mutant: the record is not looked at. *)
Reset_RowOnly(op) ==
    Begin([NoCall EXCEPT !.op = op, !.pc = "zero",
                         !.todo = homes, !.v = TRUE])

(* ResetTrafficByEmail and BulkResetTraffic: a client whose record is      *)
(* disabled is first updated, with enable set and its limits as they are.  *)
Reset(op) ==
    Begin([NoCall EXCEPT !.op = op, !.pc = IF rec THEN "zero" ELSE "inbound",
                         !.todo = homes, !.v = TRUE])

BulkSetEnable(v) ==
    Begin([NoCall EXCEPT !.op = "enable", !.todo = homes, !.v = v])

(* BulkAdjust: the limits grow, perhaps not enough. *)
BulkAdjust(enough) ==
    Begin([NoCall EXCEPT !.op = "adjust", !.todo = homes, !.raise = enough])

(* A call for another client of inbound i: it saves all of its settings. *)
EditOther(i) == Begin([NoCall EXCEPT !.op = "other", !.todo = {i}])

Start == \/ \E v, edit, raise \in BOOLEAN : Update(v, edit, raise)
         \/ \E op \in {"reset", "bulkReset"} : Reset(op)
         \/ \E v \in BOOLEAN : BulkSetEnable(v)
         \/ \E enough \in BOOLEAN : BulkAdjust(enough)
         \/ \E i \in homes : EditOther(i)

(***************************************************************************)
(* The steps of a call.                                                    *)
(***************************************************************************)
Updates == call.op \in {"update", "reset", "bulkReset"}
Pushes == Updates \/ call.op = "enable"

(* The inbound's settings would not change: nothing is saved or pushed. *)
Unchanged(i) == Pushes /\ ~call.edit /\ on[i] = call.v

(* Mutant: the inbound stays on the list. *)
ReadInbound_Again(i) ==
    /\ call.pc = "inbound" /\ i \in call.todo
    /\ call' = IF Unchanged(i)
               THEN [call EXCEPT !.todo = @ \ {i}]
               ELSE [call EXCEPT !.pc = "commit", !.i = i,
                                 !.seen = on[i]]
    /\ UNCHANGED <<fixed, on, rec, row, limitVars, xray, need, bounds, upset>>

(* GetInbound, before the transaction. *)
ReadInbound(i) ==
    /\ call.pc = "inbound" /\ i \in call.todo
    /\ call' = IF Unchanged(i)
               THEN [call EXCEPT !.todo = @ \ {i}]
               ELSE [call EXCEPT !.todo = @ \ {i}, !.pc = "commit", !.i = i,
                                 !.seen = on[i]]
    /\ UNCHANGED <<fixed, on, rec, row, limitVars, xray, need, bounds, upset>>

(* The transaction: Save of the settings as read and changed, SyncInbound,  *)
(* which sets the record from them, and UpdateClientStat when it is an      *)
(* update.                                                                  *)
Commit ==
    /\ call.pc = "commit"
    /\ on' = [on EXCEPT ![call.i] = IF Pushes THEN call.v ELSE call.seen]
    /\ rec' = on'[call.i]
    /\ row' = IF Updates THEN call.v ELSE row
    /\ quota' = (quota /\ ~(Updates /\ call.raise))
    /\ expired' = (expired /\ ~(Updates /\ call.raise))
    /\ call' = IF Pushes THEN [call EXCEPT !.pc = "push"]
               ELSE [call EXCEPT !.pc = "inbound", !.i = NoInbound]
    /\ UNCHANGED <<fixed, xray, need, bounds, upset>>

(* RemoveUser when asked to, then AddUser when asked to, on inbound i;      *)
(* AddUser fails for a user that is there.  Refused: a restart is needed.   *)
Left(i, removing, bad) == live[i] /\ (removing => "remove" \in bad)
Added(i, removing, adding, bad) == adding /\ ~Left(i, removing, bad) /\ "add" \notin bad
Apply(i, removing, adding, bad) ==
    /\ Failing(bad)
    /\ bad \subseteq (IF removing THEN {"remove"} ELSE {}) \cup (IF adding THEN {"add"} ELSE {})
    /\ live' = [live EXCEPT ![i] = Left(i, removing, bad) \/ Added(i, removing, adding, bad)]
    /\ IF removing \/ adding THEN Asked({i}, IF bad = {} THEN {} ELSE {i}, adding, TRUE)
       ELSE UNCHANGED lost
Refused(i, removing, adding, bad) ==
    "remove" \in bad \/ (adding /\ ~Added(i, removing, adding, bad))

(* Mutant: a client that is disabled is not removed. *)
Push_AddOnly ==
    /\ call.pc = "push"
    /\ \E bad \in SUBSET {"remove", "add"} :
          LET removing == call.seen /\ Updates /\ call.v IN
          /\ Apply(call.i, removing, call.v, bad)
          /\ call' = [call EXCEPT !.pc = "inbound", !.i = NoInbound,
                        !.need = @ \/ Refused(call.i, removing, call.v, bad)]
    /\ UNCHANGED <<fixed, conf, on, rec, row, limitVars, need, calls, overs, upset>>

(* After the commit.  An update removes the user that the settings had and  *)
(* adds the new one; BulkSetEnable does one of the two.                     *)
Push ==
    /\ call.pc = "push"
    /\ \E bad \in SUBSET {"remove", "add"} :
          LET removing == call.seen /\ (Updates \/ ~call.v) IN
          /\ Apply(call.i, removing, call.v, bad)
          /\ call' = [call EXCEPT !.pc = "inbound", !.i = NoInbound,
                        !.need = @ \/ Refused(call.i, removing, call.v, bad)]
    /\ UNCHANGED <<fixed, conf, on, rec, row, limitVars, need, calls, overs, upset>>

(* The handler calls SetToNeedRestart when the call asks for it. *)
Return == /\ call' = NoCall
          /\ need' = (need \/ call.need)

AllDone == call.op # "none" /\ call.pc = "inbound" /\ call.todo = {}

(* Update ends by writing the record. *)
FinishUpdate ==
    /\ AllDone /\ Updates
    /\ rec' = call.v
    /\ IF call.op = "update" THEN Return
       ELSE call' = [call EXCEPT !.pc = "zero", !.todo = homes] /\ UNCHANGED need
    /\ UNCHANGED <<fixed, on, row, limitVars, xray, bounds, upset>>

(* BulkSetEnable ends by writing the row and the record of a client that    *)
(* was skipped nowhere.                                                     *)
FinishEnable ==
    /\ AllDone /\ call.op = "enable"
    /\ row' = IF call.skip THEN row ELSE call.v
    /\ rec' = IF call.skip THEN rec ELSE call.v
    /\ Return
    /\ UNCHANGED <<fixed, on, limitVars, xray, bounds, upset>>

FinishOther == /\ AllDone /\ call.op = "other"
               /\ Return
               /\ UNCHANGED <<fixed, on, rec, row, limitVars, xray, bounds, upset>>

(* wasDisabledDepleted is read before the row's limits are written. *)
Judge == /\ AllDone /\ call.op = "adjust"
         /\ call' = [call EXCEPT !.pc = "raise", !.was = ~row /\ Over]
         /\ UNCHANGED <<fixed, on, rec, row, limitVars, xray, need, bounds, upset>>

(* The row gets its limits; a client that was disabled by them and is       *)
(* within them now is enabled by BulkSetEnable.                             *)
Raise ==
    /\ call.pc = "raise"
    /\ LET grown == call.raise /\ ~call.skip IN
       /\ quota' = (quota /\ ~grown)
       /\ expired' = (expired /\ ~grown)
       /\ IF call.was /\ ~quota' /\ ~expired'
          THEN /\ call' = [call EXCEPT !.op = "enable", !.pc = "inbound", !.todo = homes,
                             !.v = TRUE, !.raise = FALSE, !.skip = FALSE]
               /\ UNCHANGED need
          ELSE Return
    /\ UNCHANGED <<fixed, on, rec, row, xray, bounds, upset>>

(* resetClientTrafficLocked, for one home: a client that the settings       *)
(* enable and the row does not is added, then the row is cleared.           *)
ResetClientTraffic(i) ==
    /\ call.pc = "zero" /\ call.op = "reset" /\ i \in call.todo
    /\ \E bad \in SUBSET {"add"} :
          LET adding == ~row /\ on[i] IN
          /\ Apply(i, FALSE, adding, bad)
          /\ call' = [call EXCEPT !.todo = @ \ {i},
                        !.need = @ \/ Refused(i, FALSE, adding, bad)]
    /\ row' = TRUE
    /\ quota' = FALSE
    /\ UNCHANGED <<fixed, conf, on, rec, expired, need, calls, overs, upset>>

FinishReset == /\ call.pc = "zero" /\ call.op = "reset" /\ call.todo = {}
               /\ Return
               /\ UNCHANGED <<fixed, on, rec, row, limitVars, xray, bounds, upset>>

(* BulkResetTraffic: the row only; its handler always asks for a restart. *)
FinishBulkReset ==
    /\ call.pc = "zero" /\ call.op = "bulkReset"
    /\ row' = TRUE
    /\ quota' = FALSE
    /\ call' = NoCall
    /\ need' = TRUE
    /\ UNCHANGED <<fixed, on, rec, expired, xray, bounds, upset>>

(* A transaction fails.  An update, or an edit of another client, is over,  *)
(* and its handler forgets needRestart; a reset goes on after a failed      *)
(* update; the bulk calls skip the client.                                  *)
CommitFails ==
    /\ call.pc = "commit" /\ faults < MaxFaults
    /\ faults' = faults + 1
    /\ upset' = TRUE
    /\ call' = CASE call.op \in {"update", "other"} -> NoCall
                 [] call.op \in {"reset", "bulkReset"} ->
                      [call EXCEPT !.pc = "zero", !.i = NoInbound, !.todo = homes]
                 [] OTHER -> [call EXCEPT !.pc = "inbound", !.i = NoInbound, !.skip = TRUE]
    /\ UNCHANGED <<fixed, on, rec, row, limitVars, xray, need, calls, overs>>

CallStep == \/ \E i \in homes : ReadInbound(i) \/ ResetClientTraffic(i)
            \/ Commit \/ CommitFails \/ Push
            \/ FinishUpdate \/ FinishEnable \/ FinishOther
            \/ Judge \/ Raise \/ FinishReset \/ FinishBulkReset

Next == ReachLimit \/ Poll \/ Restart \/ OtherRestart \/ ResetAllClientTraffics \/ Start
        \/ CallStep \/ Idle

Spec == Init /\ [][Next]_vars

(* The poll runs every five seconds, a pending restart is applied every     *)
(* thirty, and a call that began goes on.                                   *)
Fairness == WF_vars(Poll) /\ WF_vars(Restart) /\ WF_vars(CallStep)

(***************************************************************************)
(* Properties.                                                             *)
(***************************************************************************)
(* Types.  An inbound is in hand exactly between its read and its push.    *)
TypeOK ==
    /\ homes \in (SUBSET Inbounds) \ {{}}
    /\ {on, live, conf} \subseteq [Inbounds -> BOOLEAN]
    /\ lost \subseteq homes
    /\ {renews, rec, row, quota, expired, need, upset} \subseteq BOOLEAN
    /\ call \in [op : Ops, pc : Steps, todo : SUBSET homes, i : homes \cup {NoInbound},
                 seen : BOOLEAN, v : BOOLEAN, edit : BOOLEAN, raise : BOOLEAN,
                 skip : BOOLEAN, was : BOOLEAN, need : BOOLEAN]
    /\ call.i \notin call.todo
    /\ call.i # NoInbound <=> call.pc \in {"commit", "push"}
    /\ calls \in 0..MaxCalls /\ overs \in 0..MaxOver /\ faults \in 0..MaxFaults

(* Between calls, with no restart pending, Xray accepts the client on each  *)
(* of its inbounds exactly if a restart would give it the client: all the   *)
(* pushes of updates, resets, bulk calls and polls, and the restarts that   *)
(* repair failed ones, together follow the database.  Lost inbounds are     *)
(* those where a request failed of which nobody hears, or which asked for   *)
(* what the stored configuration says: there RestartXray sees nothing to do *)
(* (XrayRuntime's finding).                                                 *)
LiveAsBuilt ==
    Quiet /\ ~upset /\ ~need => \A i \in homes \ lost : live[i] = Built

(* Between calls the inbounds' settings and the record say the same: what   *)
(* the panel shows, a subscription hands out and a node would be sent.      *)
OneAnswer == Quiet /\ ~upset => \A i \in homes : on[i] = rec

(* "Re-enables the client across every attached inbound and pushes the      *)
(* change to Xray": a reset that no poll crossed leaves the client enabled  *)
(* in all three places, and in Xray on every inbound or with a restart      *)
(* pending.                                                                 *)
ResetEnables ==
    [][ call.op \in {"reset", "bulkReset"} /\ call'.op = "none" /\ ~upset' =>
          /\ row' /\ rec' /\ \A i \in homes : on'[i]
          /\ need' \/ \A i \in homes \ lost' : live'[i] ]_vars

(* "Reaching the traffic or expiry limit disables the client": a user that  *)
(* is beyond a limit and can connect is cut, renewed or given more, also    *)
(* when RemoveUser failed, unless the inbound is lost (see LiveAsBuilt).    *)
Cut == \A i \in Inbounds :
          (Over /\ live[i]) ~> (~Over \/ ~live[i] \/ i \in lost \/ upset)

(* A client that the poll renews is enabled again in all of its inbounds    *)
(* and in its record (autoRenewClients).                                    *)
Renewed == [][ Quiet /\ ~row /\ expired /\ ~expired' /\ ~upset =>
                  rec' /\ \A i \in homes : on'[i] ]_vars
=============================================================================
