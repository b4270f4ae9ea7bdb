------------------------- MODULE ClientLimitsProofs --------------------------
(***************************************************************************)
(* Theorems about ClientLimits, for any inbounds and bounds.               *)
(*                                                                         *)
(* TypeInv is TypeOK with the bond between a call and its step.  AgreeInv  *)
(* says what holds while no poll has crossed a call and no transaction has *)
(* failed: between calls the three places agree, and inside a call that    *)
(* pushes, Walk says which inbounds it has done and which it has before it.*)
(***************************************************************************)
EXTENDS MCClientLimits, FiniteSetTheorems, TLAPS

(* Types. *)
CallType == [op : Ops, pc : Steps, todo : SUBSET homes, i : homes \cup {NoInbound},
             seen : BOOLEAN, v : BOOLEAN, edit : BOOLEAN, raise : BOOLEAN,
             skip : BOOLEAN, was : BOOLEAN, need : BOOLEAN]
FixedInv == homes \in SUBSET Inbounds /\ homes # {} /\ renews \in BOOLEAN
FlagInv == /\ rec \in BOOLEAN /\ row \in BOOLEAN /\ quota \in BOOLEAN
           /\ expired \in BOOLEAN /\ need \in BOOLEAN /\ upset \in BOOLEAN
SetInv == /\ on \in [Inbounds -> BOOLEAN] /\ live \in [Inbounds -> BOOLEAN]
          /\ conf \in [Inbounds -> BOOLEAN] /\ lost \in SUBSET homes
CallInv == /\ call \in CallType
           /\ call.i \notin call.todo
           /\ call.i # NoInbound <=> call.pc \in {"commit", "push"}
           /\ call.op = "none" => call.pc = "inbound" /\ call.todo = {}
           /\ call.pc = "push" => Pushes
           /\ call.pc = "zero" => call.op \in {"reset", "bulkReset"}
           /\ call.pc = "raise" => call.op = "adjust"
CountInv == calls \in 0..MaxCalls /\ overs \in 0..MaxOver /\ faults \in 0..MaxFaults
TypeInv == FixedInv /\ FlagInv /\ SetInv /\ CallInv /\ CountInv

(* The inbounds that the call has not changed, and those that it has left. *)
Early == call.todo \cup (IF call.pc = "commit" THEN {call.i} ELSE {})
Late == homes \ (Early \cup {call.i})

(* Xray has the user or not (v), or the next restart will see to it.  *)
Follows(i, v) ==
    live[i] = v \/ i \in lost \/ ((need \/ call.need) /\ conf[i] # v)

(* The settings and the record agree, and Xray or a restart follows them. *)
Agreed == /\ \A i \in homes : on[i] = rec
          /\ rec => row
          /\ \A i \in homes : Follows(i, rec)

(* No inbound is changed yet: one that had the value was passed over. *)
Untouched == /\ Agreed
             /\ call.pc # "push"
             /\ call.edit => Early = homes
             /\ call.pc = "commit" => call.edit \/ on[call.i] # call.v

(* One is: the record is new, and so is the user in Xray of those left. *)
Touched == /\ rec = call.v
           /\ Updates /\ call.v => row
           /\ \A i \in Late : Follows(i, call.v)
           /\ \A i \in Early : call.edit \/ on[i] # call.v
           /\ \A i \in Early : ~on[i] /\ ~call.v => Follows(i, FALSE)
           /\ call.pc = "push" => call.edit \/ call.seen # call.v
           /\ call.pc = "push" /\ ~call.seen /\ ~call.v => Follows(call.i, FALSE)
           /\ call.op = "enable" => ~call.edit

(* The walk of a call over the inbounds. *)
Walk == /\ \A i \in homes \ Early : on[i] = call.v
        /\ \A i, j \in Early : on[i] = on[j]
        /\ call.pc = "commit" => call.seen = on[call.i]
        /\ Untouched \/ Touched

AgreeInv ==
  /\ ~call.skip
  /\ call.op \in {"enable", "none", "adjust"} => ~call.edit
  /\ call.op \in {"reset", "bulkReset"} => call.v
  /\ call.op \in {"none", "adjust", "other"} \/ call.pc = "zero" => Agreed
  /\ call.op = "none" => ~call.need
  /\ call.op \in {"adjust", "other"} /\ call.pc = "commit" => call.seen = on[call.i]
  /\ call.pc = "zero" => rec
  /\ call.pc \in {"inbound", "commit", "push"} /\ Pushes => Walk

(* Inductive together with TypeInv and OneHomeInv. *)
Inv == ~upset => AgreeInv
OneHomeInv == renews => \E i \in homes : homes = {i}

-----------------------------------------------------------------------------
(* Types, one step per action.                                               *)

LEMMA SetNext ==
  ASSUME TypeInv, [Next]_vars
  PROVE FixedInv' /\ SetInv'
<1>1. ASSUME ReachLimit  PROVE  FixedInv' /\ SetInv'
  BY <1>1 DEF TypeInv, FixedInv, SetInv, fixed, xray, ReachLimit
<1>2. ASSUME NEW heard \in BOOLEAN, AutoRenew(heard)  PROVE  FixedInv' /\ SetInv'
  BY <1>2 DEF TypeInv, FixedInv, SetInv, fixed, AutoRenew, Asked
<1>3. ASSUME NEW heard \in BOOLEAN, DisableInvalidClients(heard)  PROVE  FixedInv' /\ SetInv'
  <2>1. live' \in [Inbounds -> BOOLEAN] /\ on' \in [Inbounds -> BOOLEAN]
    BY <1>3 DEF DisableInvalidClients
  <2>2. lost' \in SUBSET homes
    BY <1>3 DEF DisableInvalidClients, Asked, TypeInv, SetInv
  <2> QED BY <1>3, <2>1, <2>2 DEF TypeInv, FixedInv, SetInv, fixed, DisableInvalidClients
<1>4. ASSUME Restart \/ OtherRestart  PROVE  FixedInv' /\ SetInv'
  <2>1. RestartXray /\ Built \in BOOLEAN
    BY <1>4 DEF Restart, OtherRestart, Built, TypeInv, FlagInv
  <2> QED BY <2>1 DEF TypeInv, FixedInv, SetInv, fixed, RestartXray
<1>5. ASSUME ResetAllClientTraffics  PROVE  FixedInv' /\ SetInv'
  BY <1>5 DEF TypeInv, FixedInv, SetInv, fixed, xray, ResetAllClientTraffics
<1>6. ASSUME NEW v \in BOOLEAN, NEW edit \in BOOLEAN, NEW raise \in BOOLEAN,
             Update(v, edit, raise)
      PROVE  FixedInv' /\ SetInv'
  BY <1>6 DEF TypeInv, FixedInv, SetInv, fixed, xray, Update, Begin
<1>7. ASSUME NEW op \in {"reset", "bulkReset"}, Reset(op)  PROVE  FixedInv' /\ SetInv'
  BY <1>7 DEF TypeInv, FixedInv, SetInv, fixed, xray, Reset, Begin
<1>8. ASSUME NEW v \in BOOLEAN, BulkSetEnable(v)  PROVE  FixedInv' /\ SetInv'
  BY <1>8 DEF TypeInv, FixedInv, SetInv, fixed, xray, BulkSetEnable, Begin
<1>9. ASSUME NEW enough \in BOOLEAN, BulkAdjust(enough)  PROVE  FixedInv' /\ SetInv'
  BY <1>9 DEF TypeInv, FixedInv, SetInv, fixed, xray, BulkAdjust, Begin
<1>10. ASSUME NEW i \in homes, EditOther(i)  PROVE  FixedInv' /\ SetInv'
  BY <1>10 DEF TypeInv, FixedInv, SetInv, fixed, xray, EditOther, Begin
<1>11. ASSUME NEW i \in homes, ReadInbound(i)  PROVE  FixedInv' /\ SetInv'
  BY <1>11 DEF TypeInv, FixedInv, SetInv, fixed, xray, ReadInbound
<1>12. ASSUME NEW i \in homes, ResetClientTraffic(i)  PROVE  FixedInv' /\ SetInv'
  BY <1>12 DEF TypeInv, FixedInv, SetInv, fixed, xray, ResetClientTraffic, Apply, Asked
<1>13. ASSUME Commit  PROVE  FixedInv' /\ SetInv'
  BY <1>13 DEF TypeInv, FixedInv, SetInv, CallInv, CallType, fixed, xray, Commit
<1>14. ASSUME CommitFails  PROVE  FixedInv' /\ SetInv'
  BY <1>14 DEF TypeInv, FixedInv, SetInv, fixed, xray, CommitFails
<1>15. ASSUME Push  PROVE  FixedInv' /\ SetInv'
  <2>1. call.i \in homes
    BY <1>15 DEF Push, TypeInv, CallInv, CallType
  <2>2. PICK b \in BOOLEAN : live' = [live EXCEPT ![call.i] = b]
    <3>1. PICK bad \in SUBSET {"remove", "add"} : Push!2!(bad)
      BY <1>15 DEF Push
    <3>2. PICK r \in BOOLEAN :
            r <=> \/ Left(call.i, call.seen /\ (Updates \/ ~call.v), bad)
                  \/ Added(call.i, call.seen /\ (Updates \/ ~call.v), call.v, bad)
      OBVIOUS
    <3>3. live' = [live EXCEPT ![call.i] = r]
      BY <3>1, <3>2 DEF Apply
    <3> QED BY <3>3
  <2>3. lost' \in SUBSET homes
    BY <1>15, <2>1 DEF Push, Apply, Asked, TypeInv, SetInv
  <2> QED BY <1>15, <2>1, <2>2, <2>3 DEF Push, TypeInv, FixedInv, SetInv, fixed
<1>16. ASSUME FinishUpdate  PROVE  FixedInv' /\ SetInv'
  BY <1>16 DEF TypeInv, FixedInv, SetInv, fixed, xray, FinishUpdate
<1>17. ASSUME FinishEnable  PROVE  FixedInv' /\ SetInv'
  BY <1>17 DEF TypeInv, FixedInv, SetInv, fixed, xray, FinishEnable
<1>18. ASSUME FinishOther  PROVE  FixedInv' /\ SetInv'
  BY <1>18 DEF TypeInv, FixedInv, SetInv, fixed, xray, FinishOther
<1>19. ASSUME Judge  PROVE  FixedInv' /\ SetInv'
  BY <1>19 DEF TypeInv, FixedInv, SetInv, fixed, xray, Judge
<1>20. ASSUME Raise  PROVE  FixedInv' /\ SetInv'
  BY <1>20 DEF TypeInv, FixedInv, SetInv, fixed, xray, Raise
<1>21. ASSUME FinishReset  PROVE  FixedInv' /\ SetInv'
  BY <1>21 DEF TypeInv, FixedInv, SetInv, fixed, xray, FinishReset
<1>22. ASSUME FinishBulkReset  PROVE  FixedInv' /\ SetInv'
  BY <1>22 DEF TypeInv, FixedInv, SetInv, fixed, xray, FinishBulkReset
<1>23. ASSUME UNCHANGED vars  PROVE  FixedInv' /\ SetInv'
  BY <1>23 DEF TypeInv, FixedInv, SetInv, vars
<1> QED
  BY <1>1, <1>2, <1>3, <1>4, <1>5, <1>6, <1>7, <1>8, <1>9, <1>10, <1>11, <1>12,
     <1>13, <1>14, <1>15, <1>16, <1>17, <1>18, <1>19, <1>20, <1>21, <1>22, <1>23 DEF
     Next, Poll, Start, CallStep, Idle

LEMMA FlagNext ==
  ASSUME TypeInv, [Next]_vars
  PROVE FlagInv'
<1>1. ASSUME ReachLimit  PROVE  FlagInv'
  BY <1>1 DEF TypeInv, FlagInv, ReachLimit
<1>2. ASSUME NEW heard \in BOOLEAN, AutoRenew(heard)  PROVE  FlagInv'
  <2>1. rec' \in BOOLEAN
    <3>1. on' \in [Inbounds -> BOOLEAN]
      BY SetNext DEF SetInv
    <3>2. PICK last \in homes : rec' = on'[last]
      BY <1>2 DEF AutoRenew
    <3> QED BY <3>1, <3>2 DEF TypeInv, FixedInv
  <2>2. row' \in BOOLEAN /\ quota' \in BOOLEAN /\ expired' \in BOOLEAN
    BY <1>2 DEF AutoRenew
  <2>3. need' \in BOOLEAN
    BY <1>2 DEF AutoRenew, PollEnds
  <2>4. upset' \in BOOLEAN
    BY <1>2 DEF AutoRenew, PollEnds, Asked
  <2> QED BY <2>1, <2>2, <2>3, <2>4 DEF FlagInv
<1>3. ASSUME NEW heard \in BOOLEAN, DisableInvalidClients(heard)  PROVE  FlagInv'
  BY <1>3 DEF TypeInv, FlagInv, limitVars, DisableInvalidClients, PollEnds, Asked
<1>4. ASSUME Restart \/ OtherRestart  PROVE  FlagInv'
  BY <1>4 DEF TypeInv, FlagInv, limitVars, Restart, OtherRestart, RestartXray
<1>5. ASSUME ResetAllClientTraffics  PROVE  FlagInv'
  BY <1>5 DEF TypeInv, FlagInv, ResetAllClientTraffics
<1>6. ASSUME NEW v \in BOOLEAN, NEW edit \in BOOLEAN, NEW raise \in BOOLEAN,
             Update(v, edit, raise)
      PROVE  FlagInv'
  BY <1>6 DEF TypeInv, FlagInv, limitVars, Update, Begin
<1>7. ASSUME NEW op \in {"reset", "bulkReset"}, Reset(op)  PROVE  FlagInv'
  BY <1>7 DEF TypeInv, FlagInv, limitVars, Reset, Begin
<1>8. ASSUME NEW v \in BOOLEAN, BulkSetEnable(v)  PROVE  FlagInv'
  BY <1>8 DEF TypeInv, FlagInv, limitVars, BulkSetEnable, Begin
<1>9. ASSUME NEW enough \in BOOLEAN, BulkAdjust(enough)  PROVE  FlagInv'
  BY <1>9 DEF TypeInv, FlagInv, limitVars, BulkAdjust, Begin
<1>10. ASSUME NEW i \in homes, EditOther(i)  PROVE  FlagInv'
  BY <1>10 DEF TypeInv, FlagInv, limitVars, EditOther, Begin
<1>11. ASSUME NEW i \in homes, ReadInbound(i)  PROVE  FlagInv'
  BY <1>11 DEF TypeInv, FlagInv, limitVars, ReadInbound
<1>12. ASSUME NEW i \in homes, ResetClientTraffic(i)  PROVE  FlagInv'
  BY <1>12 DEF TypeInv, FlagInv, ResetClientTraffic
<1>13. ASSUME Commit  PROVE  FlagInv'
  BY <1>13 DEF TypeInv, FixedInv, FlagInv, SetInv, CallInv, CallType, Commit
<1>14. ASSUME CommitFails  PROVE  FlagInv'
  BY <1>14 DEF TypeInv, FlagInv, limitVars, CommitFails
<1>15. ASSUME Push  PROVE  FlagInv'
  BY <1>15 DEF TypeInv, FlagInv, limitVars, Push
<1>16. ASSUME FinishUpdate  PROVE  FlagInv'
  BY <1>16 DEF TypeInv, FlagInv, CallInv, CallType, limitVars, FinishUpdate, Return
<1>17. ASSUME FinishEnable  PROVE  FlagInv'
  BY <1>17 DEF TypeInv, FlagInv, CallInv, CallType, limitVars, FinishEnable, Return
<1>18. ASSUME FinishOther  PROVE  FlagInv'
  BY <1>18 DEF TypeInv, FlagInv, limitVars, FinishOther, Return
<1>19. ASSUME Judge  PROVE  FlagInv'
  BY <1>19 DEF TypeInv, FlagInv, limitVars, Judge
<1>20. ASSUME Raise  PROVE  FlagInv'
  BY <1>20 DEF TypeInv, FlagInv, Raise, Return
<1>21. ASSUME FinishReset  PROVE  FlagInv'
  BY <1>21 DEF TypeInv, FlagInv, limitVars, FinishReset, Return
<1>22. ASSUME FinishBulkReset  PROVE  FlagInv'
  BY <1>22 DEF TypeInv, FlagInv, FinishBulkReset
<1>23. ASSUME UNCHANGED vars  PROVE  FlagInv'
  BY <1>23 DEF TypeInv, FlagInv, vars
<1> QED
  BY <1>1, <1>2, <1>3, <1>4, <1>5, <1>6, <1>7, <1>8, <1>9, <1>10, <1>11, <1>12,
     <1>13, <1>14, <1>15, <1>16, <1>17, <1>18, <1>19, <1>20, <1>21, <1>22, <1>23 DEF
     Next, Poll, Start, CallStep, Idle

LEMMA CountNext ==
  ASSUME TypeInv, [Next]_vars
  PROVE CountInv'
<1>1. ASSUME ReachLimit  PROVE  CountInv'
  BY <1>1, BoundsAssumption DEF TypeInv, CountInv, ReachLimit
<1>2. ASSUME NEW heard \in BOOLEAN, AutoRenew(heard)  PROVE  CountInv'
  BY <1>2, BoundsAssumption DEF TypeInv, CountInv, AutoRenew, Failing
<1>3. ASSUME NEW heard \in BOOLEAN, DisableInvalidClients(heard)  PROVE  CountInv'
  BY <1>3, BoundsAssumption DEF TypeInv, CountInv, DisableInvalidClients, Failing
<1>4. ASSUME Restart \/ OtherRestart  PROVE  CountInv'
  BY <1>4 DEF TypeInv, CountInv, bounds, Restart, OtherRestart, RestartXray
<1>5. ASSUME ResetAllClientTraffics  PROVE  CountInv'
  BY <1>5, BoundsAssumption DEF TypeInv, CountInv, ResetAllClientTraffics
<1>6. ASSUME NEW v \in BOOLEAN, NEW edit \in BOOLEAN, NEW raise \in BOOLEAN,
             Update(v, edit, raise)
      PROVE  CountInv'
  BY <1>6, BoundsAssumption DEF TypeInv, CountInv, Update, Begin
<1>7. ASSUME NEW op \in {"reset", "bulkReset"}, Reset(op)  PROVE  CountInv'
  BY <1>7, BoundsAssumption DEF TypeInv, CountInv, Reset, Begin
<1>8. ASSUME NEW v \in BOOLEAN, BulkSetEnable(v)  PROVE  CountInv'
  BY <1>8, BoundsAssumption DEF TypeInv, CountInv, BulkSetEnable, Begin
<1>9. ASSUME NEW enough \in BOOLEAN, BulkAdjust(enough)  PROVE  CountInv'
  BY <1>9, BoundsAssumption DEF TypeInv, CountInv, BulkAdjust, Begin
<1>10. ASSUME NEW i \in homes, EditOther(i)  PROVE  CountInv'
  BY <1>10, BoundsAssumption DEF TypeInv, CountInv, EditOther, Begin
<1>11. ASSUME NEW i \in homes, ReadInbound(i)  PROVE  CountInv'
  BY <1>11 DEF TypeInv, CountInv, bounds, ReadInbound
<1>12. ASSUME NEW i \in homes, ResetClientTraffic(i)  PROVE  CountInv'
  BY <1>12, BoundsAssumption DEF TypeInv, CountInv, ResetClientTraffic, Apply, Asked,
     Failing
<1>13. ASSUME Commit  PROVE  CountInv'
  BY <1>13 DEF TypeInv, CountInv, bounds, Commit
<1>14. ASSUME CommitFails  PROVE  CountInv'
  BY <1>14, BoundsAssumption DEF TypeInv, CountInv, CommitFails
<1>15. ASSUME Push  PROVE  CountInv'
  BY <1>15, BoundsAssumption DEF TypeInv, CountInv, Push, Apply, Asked, Failing
<1>16. ASSUME FinishUpdate  PROVE  CountInv'
  BY <1>16 DEF TypeInv, CountInv, bounds, FinishUpdate
<1>17. ASSUME FinishEnable  PROVE  CountInv'
  BY <1>17 DEF TypeInv, CountInv, bounds, FinishEnable
<1>18. ASSUME FinishOther  PROVE  CountInv'
  BY <1>18 DEF TypeInv, CountInv, bounds, FinishOther
<1>19. ASSUME Judge  PROVE  CountInv'
  BY <1>19 DEF TypeInv, CountInv, bounds, Judge
<1>20. ASSUME Raise  PROVE  CountInv'
  BY <1>20 DEF TypeInv, CountInv, bounds, Raise
<1>21. ASSUME FinishReset  PROVE  CountInv'
  BY <1>21 DEF TypeInv, CountInv, bounds, FinishReset
<1>22. ASSUME FinishBulkReset  PROVE  CountInv'
  BY <1>22 DEF TypeInv, CountInv, bounds, FinishBulkReset
<1>23. ASSUME UNCHANGED vars  PROVE  CountInv'
  BY <1>23 DEF TypeInv, CountInv, vars
<1> QED
  BY <1>1, <1>2, <1>3, <1>4, <1>5, <1>6, <1>7, <1>8, <1>9, <1>10, <1>11, <1>12,
     <1>13, <1>14, <1>15, <1>16, <1>17, <1>18, <1>19, <1>20, <1>21, <1>22, <1>23 DEF
     Next, Poll, Start, CallStep, Idle

LEMMA CallNext ==
  ASSUME TypeInv, [Next]_vars
  PROVE CallInv'
<1>1. ASSUME ReachLimit  PROVE  CallInv'
  BY <1>1 DEF TypeInv, CallInv, CallType, Updates, Pushes, fixed, xray, ReachLimit
<1>2. ASSUME NEW heard \in BOOLEAN, AutoRenew(heard)  PROVE  CallInv'
  BY <1>2 DEF TypeInv, CallInv, CallType, Updates, Pushes, fixed, xray, AutoRenew
<1>3. ASSUME NEW heard \in BOOLEAN, DisableInvalidClients(heard)  PROVE  CallInv'
  BY <1>3 DEF TypeInv, CallInv, CallType, Updates, Pushes, fixed, xray,
     DisableInvalidClients
<1>4. ASSUME Restart \/ OtherRestart  PROVE  CallInv'
  BY <1>4 DEF TypeInv, CallInv, CallType, Updates, Pushes, fixed, xray, Restart,
     OtherRestart, RestartXray
<1>5. ASSUME ResetAllClientTraffics  PROVE  CallInv'
  BY <1>5 DEF TypeInv, CallInv, CallType, Updates, Pushes, fixed, xray,
     ResetAllClientTraffics
<1>6. ASSUME NEW v \in BOOLEAN, NEW edit \in BOOLEAN, NEW raise \in BOOLEAN,
             Update(v, edit, raise)
      PROVE  CallInv'
  BY ZenonT(60), <1>6, NoInboundAssumption DEF TypeInv, FixedInv, FlagInv, SetInv, CallInv,
     CallType, CountInv, Ops, Steps, AllDone, Updates, Pushes, Quiet, vars, fixed, xray,
     limitVars, bounds, Update, Begin, NoCall
<1>7. ASSUME NEW op \in {"reset", "bulkReset"}, Reset(op)  PROVE  CallInv'
  BY ZenonT(60), <1>7, NoInboundAssumption DEF TypeInv, FixedInv, FlagInv, SetInv, CallInv,
     CallType, CountInv, Ops, Steps, AllDone, Updates, Pushes, Quiet, vars, fixed, xray,
     limitVars, bounds, Reset, Begin, NoCall
<1>8. ASSUME NEW v \in BOOLEAN, BulkSetEnable(v)  PROVE  CallInv'
  BY ZenonT(60), <1>8, NoInboundAssumption DEF TypeInv, FixedInv, FlagInv, SetInv, CallInv,
     CallType, CountInv, Ops, Steps, AllDone, Updates, Pushes, Quiet, vars, fixed, xray,
     limitVars, bounds, BulkSetEnable, Begin, NoCall
<1>9. ASSUME NEW enough \in BOOLEAN, BulkAdjust(enough)  PROVE  CallInv'
  BY <1>9, NoInboundAssumption DEF TypeInv, FixedInv, FlagInv, SetInv, CallInv,
     CallType, CountInv, Ops, Steps, AllDone, Updates, Pushes, Quiet, vars, fixed, xray,
     limitVars, bounds, BulkAdjust, Begin, NoCall
<1>10. ASSUME NEW i \in homes, EditOther(i)  PROVE  CallInv'
  BY <1>10, NoInboundAssumption DEF TypeInv, FixedInv, CallInv, CallType, Ops,
     Steps, fixed, xray, EditOther, Begin, NoCall
<1>11. ASSUME NEW i \in homes, ReadInbound(i)  PROVE  CallInv'
  BY <1>11 DEF TypeInv, FixedInv, SetInv, CallInv, CallType, Steps, fixed, xray,
     ReadInbound
<1>12. ASSUME NEW i \in homes, ResetClientTraffic(i)  PROVE  CallInv'
  <2>1. PICK b \in BOOLEAN : call' = [call EXCEPT !.todo = @ \ {i}, !.need = b]
    BY <1>12 DEF ResetClientTraffic
  <2> QED BY <1>12, <2>1 DEF ResetClientTraffic, TypeInv, CallInv, CallType, fixed, xray
<1>13. ASSUME Commit  PROVE  CallInv'
  BY <1>13, NoInboundAssumption DEF TypeInv, FixedInv, CallInv, CallType, Steps,
     Updates, Pushes, fixed, xray, Commit
<1>14. ASSUME CommitFails  PROVE  CallInv'
  BY <1>14, NoInboundAssumption DEF TypeInv, FixedInv, CallInv, CallType, Ops,
     Steps, fixed, xray, CommitFails, NoCall
<1>15. ASSUME Push  PROVE  CallInv'
  <2>1. PICK b \in BOOLEAN : call' = [call EXCEPT !.pc = "inbound", !.i = NoInbound, !.need = b]
    <3>1. PICK bad \in SUBSET {"remove", "add"} : Push!2!(bad)
      BY <1>15 DEF Push
    <3>2. PICK r \in BOOLEAN : r <=> Refused(call.i, call.seen /\ (Updates \/ ~call.v), call.v, bad)
      OBVIOUS
    <3>3. call' = [call EXCEPT !.pc = "inbound", !.i = NoInbound, !.need = @ \/ r]
      BY <3>1, <3>2
    <3>4. (call.need \/ r) \in BOOLEAN
      OBVIOUS
    <3> QED BY <3>3, <3>4
  <2> QED BY <1>15, <2>1, NoInboundAssumption DEF Push, TypeInv, FixedInv, CallInv,
     CallType, Steps, fixed, xray
<1>16. ASSUME FinishUpdate  PROVE  CallInv'
  <2>1. CASE call.op = "update"
    <3>1. call' = NoCall /\ homes' = homes
      BY <1>16, <2>1 DEF FinishUpdate, Return, fixed, xray
    <3> QED BY <3>1 DEF NoCall, CallInv, CallType, Ops, Steps
  <2>2. CASE call.op # "update"
    <3>1. call' = [call EXCEPT !.pc = "zero", !.todo = homes] /\ homes' = homes
      BY <1>16, <2>2 DEF FinishUpdate, fixed, xray
    <3>2. call.op \in {"reset", "bulkReset"} /\ call.pc = "inbound"
      BY <1>16, <2>2 DEF FinishUpdate, AllDone, Updates
    <3>3. call.i = NoInbound /\ NoInbound \notin homes
      BY <3>2, NoInboundAssumption DEF TypeInv, CallInv, FixedInv
    <3> QED BY <3>1, <3>2, <3>3 DEF TypeInv, CallInv, CallType, Steps
  <2> QED BY <2>1, <2>2
<1>17. ASSUME FinishEnable  PROVE  CallInv'
  BY <1>17 DEF CallInv, CallType, Ops, Steps, FinishEnable, Return, NoCall
<1>18. ASSUME FinishOther  PROVE  CallInv'
  BY <1>18 DEF CallInv, CallType, Ops, Steps, FinishOther, Return, NoCall
<1>19. ASSUME Judge  PROVE  CallInv'
  BY <1>19 DEF TypeInv, CallInv, CallType, Steps, AllDone, Judge
<1>20. ASSUME Raise  PROVE  CallInv'
  <2>1. CASE call' = NoCall
    BY <2>1 DEF NoCall, CallInv, CallType, Ops, Steps
  <2>2. CASE call' = [call EXCEPT !.op = "enable", !.pc = "inbound", !.todo = homes,
                             !.v = TRUE, !.raise = FALSE, !.skip = FALSE]
    BY <1>20, <2>2, NoInboundAssumption DEF FixedInv, Raise, TypeInv, CallInv,
       CallType, Ops, Steps, fixed, xray
  <2> QED BY <1>20, <2>1, <2>2 DEF Raise, Return
<1>21. ASSUME FinishReset  PROVE  CallInv'
  BY <1>21 DEF CallInv, CallType, Ops, Steps, FinishReset, Return, NoCall
<1>22. ASSUME FinishBulkReset  PROVE  CallInv'
  BY <1>22 DEF CallInv, CallType, Ops, Steps, FinishBulkReset, NoCall
<1>23. ASSUME UNCHANGED vars  PROVE  CallInv'
  BY <1>23 DEF TypeInv, CallInv, CallType, Updates, Pushes, vars
<1> QED
  BY <1>1, <1>2, <1>3, <1>4, <1>5, <1>6, <1>7, <1>8, <1>9, <1>10, <1>11, <1>12,
     <1>13, <1>14, <1>15, <1>16, <1>17, <1>18, <1>19, <1>20, <1>21, <1>22, <1>23 DEF
     Next, Poll, Start, CallStep, Idle

-----------------------------------------------------------------------------
(* The settings, the record and Xray, one step per action.                   *)

LEMMA Unmoved ==
  ASSUME Inv, UNCHANGED <<homes, on, rec, live, conf, lost, need, call, upset>>, row => row'
  PROVE Inv'
<1>1. Early' = Early /\ Late' = Late
  BY DEF Early, Late
<1>2. Agreed => Agreed'
  BY DEF Agreed, Follows
<1>3. Touched => Touched'
  BY <1>1 DEF Touched, Follows, Updates
<1>4. Walk => Walk'
  BY <1>1, <1>2, <1>3 DEF Walk, Untouched
<1> QED BY <1>2, <1>4 DEF Inv, AgreeInv, Pushes, Updates

LEMMA AgreeNext ==
  ASSUME TypeInv, OneHomeInv, Inv, [Next]_vars
  PROVE Inv'
<1>1. ASSUME ReachLimit  PROVE  Inv'
  <2>1. UNCHANGED <<homes, on, rec, row, live, conf, lost, need, call, upset>>
    BY <1>1 DEF ReachLimit, fixed, xray
  <2> QED BY <2>1, Unmoved
<1>2. ASSUME NEW heard \in BOOLEAN, AutoRenew(heard)  PROVE  Inv'
  <2> SUFFICES ASSUME ~upset'
               PROVE  AgreeInv'
    BY DEF Inv
  <2>1. ~upset /\ call.op = "none" /\ call' = call /\ homes' = homes /\ conf' = conf
    BY <1>2 DEF AutoRenew, PollEnds, Quiet, fixed
  <2>2. PICK h \in homes : homes = {h}
    BY <1>2 DEF AutoRenew, OneHomeInv
  <2>3. on[h] = rec /\ (rec => row) /\ Follows(h, rec) /\ ~call.need
    BY <2>1, <2>2 DEF Inv, AgreeInv, Agreed
  <2>4. PICK bad \in SUBSET {"add"} :
          /\ on' = IF row THEN on ELSE [on EXCEPT ![h] = TRUE]
          /\ rec' = on'[h]
          /\ live' = IF row \/ bad # {} THEN live ELSE [live EXCEPT ![h] = TRUE]
          /\ IF row THEN UNCHANGED lost
             ELSE Asked({h}, IF bad = {} THEN {} ELSE {h}, TRUE, heard)
          /\ PollEnds(heard, ~row /\ (live[h] \/ bad # {}))
    BY <1>2, <2>2 DEF AutoRenew
  <2>5. row' = TRUE
    BY <1>2 DEF AutoRenew
  <2>6. h \in Inbounds
    BY <2>2 DEF TypeInv, FixedInv
  <2>7. on'[h] = rec' /\ Follows(h, rec)'
    <3>1. CASE row
      BY <2>1, <2>3, <2>4, <3>1 DEF Follows, PollEnds
    <3>2. CASE ~row
      <4>1. on'[h] = TRUE /\ rec' = TRUE
        BY <2>4, <2>6, <3>2 DEF TypeInv, SetInv
      <4>2. CASE bad = {}
        BY <2>4, <2>6, <3>2, <4>1, <4>2 DEF Follows, TypeInv, SetInv
      <4>3. CASE bad # {}
        <5>1. heard => need'
          BY <2>4, <3>2, <4>3 DEF PollEnds
        <5>2. live'[h] # TRUE /\ (conf[h] = TRUE \/ ~heard) => h \in lost'
          BY <2>4, <3>2, <4>3 DEF Asked
        <5> QED BY <2>1, <4>1, <5>1, <5>2 DEF Follows
      <4> QED BY <4>1, <4>2, <4>3
    <3> QED BY <3>1, <3>2
  <2>8. Agreed'
    BY <2>1, <2>2, <2>5, <2>7 DEF Agreed, Follows
  <2> QED BY <2>1, <2>8 DEF Inv, AgreeInv, TypeInv, CallInv, Pushes, Updates
<1>3. ASSUME NEW heard \in BOOLEAN, DisableInvalidClients(heard)  PROVE  Inv'
  <2> SUFFICES ASSUME ~upset'
               PROVE  AgreeInv'
    BY DEF Inv
  <2>1. ~upset /\ call.op = "none" /\ call' = call /\ homes' = homes /\ conf' = conf
    BY <1>3 DEF DisableInvalidClients, PollEnds, Quiet, fixed
  <2>2. PICK bad \in SUBSET {i \in homes : live[i]} :
          /\ live' = [i \in Inbounds |-> i \in bad]
          /\ Asked(homes, bad, FALSE, heard)
          /\ PollEnds(heard, bad # {})
    BY <1>3 DEF DisableInvalidClients
  <2>3. on' = [i \in Inbounds |-> FALSE] /\ rec' = FALSE
    BY <1>3 DEF DisableInvalidClients
  <2>4. ASSUME NEW i \in homes  PROVE  on'[i] = FALSE /\ Follows(i, FALSE)'
    <3>1. i \in Inbounds
      BY DEF TypeInv, FixedInv
    <3>2. on'[i] = FALSE
      BY <2>3, <3>1
    <3>3. CASE i \notin bad
      <4>1. live'[i] = (i \in bad)
        BY <2>2, <3>1
      <4>2. live'[i] = FALSE
        <5>1. (i \in bad) = FALSE
          BY <3>3
        <5> QED BY <4>1, <5>1, Zenon
      <4> QED BY <3>2, <4>2 DEF Follows
    <3>4. CASE i \in bad
      <4>1. heard => need'
        BY <2>2, <3>4 DEF PollEnds
      <4>2. conf[i] = FALSE \/ ~heard => i \in lost'
        BY <2>2, <3>1, <3>4 DEF Asked
      <4> QED BY <2>1, <3>2, <4>1, <4>2 DEF Follows
    <3> QED BY <3>2, <3>3, <3>4
  <2>5. Agreed'
    BY <2>1, <2>3, <2>4 DEF Agreed, Follows
  <2> QED BY <2>1, <2>5 DEF Inv, AgreeInv, TypeInv, CallInv, Pushes, Updates
<1>4. ASSUME Restart \/ OtherRestart  PROVE  Inv'
  <2> SUFFICES ASSUME ~upset'
               PROVE  AgreeInv'
    BY DEF Inv
  <2>1. /\ ~upset /\ AgreeInv /\ call.op # "enable"
        /\ UNCHANGED <<homes, on, rec, row, call>>
    BY <1>4 DEF Restart, OtherRestart, RestartXray, Inv, fixed
  <2>2. PICK done \in SUBSET homes :
          /\ {i \in homes : conf[i] # Built} \subseteq done
          /\ live' = [i \in Inbounds |-> IF i \in done THEN Built ELSE live[i]]
          /\ lost' = lost \ done
          /\ conf' = [i \in Inbounds |-> i \in homes /\ Built]
    BY <1>4 DEF Restart, OtherRestart, RestartXray
  <2>3. Built \in BOOLEAN /\ homes \subseteq Inbounds
    BY DEF Built, TypeInv, FlagInv, FixedInv
  <2>4. ASSUME NEW i \in homes, Follows(i, Built)  PROVE  Follows(i, Built)'
    <3>1. CASE i \in done
      <4>1. live'[i] = Built
        BY <2>2, <2>3, <3>1
      <4> QED BY <2>1, <4>1 DEF Follows, Built
    <3>2. CASE i \notin done
      <4>1. live'[i] = live[i] /\ conf[i] = Built /\ (i \in lost => i \in lost')
        BY <2>2, <2>3, <3>2
      <4> QED BY <2>1, <2>4, <4>1 DEF Follows, Built
    <3> QED BY <3>1, <3>2
  <2>5. ASSUME NEW v \in BOOLEAN, Built = v  PROVE  \A i \in homes : Follows(i, v) => Follows(i, v)'
    BY <2>1, <2>4, <2>5 DEF Follows, Built
  <2>6. Agreed => Agreed'
    <3>1. SUFFICES ASSUME Agreed  PROVE  Agreed'
      OBVIOUS
    <3>2. Built = rec /\ rec \in BOOLEAN
      BY <3>1 DEF Agreed, Built, TypeInv, FlagInv
    <3> QED BY <2>1, <2>5, <3>1, <3>2 DEF Agreed, Follows
  <2>7. Pushes /\ Touched => Touched'
    <3>1. SUFFICES ASSUME Pushes, Touched  PROVE  Touched'
      OBVIOUS
    <3>2. Built = call.v /\ call.v \in BOOLEAN
      BY <2>1, <3>1 DEF Touched, Built, Pushes, TypeInv, FlagInv, CallInv, CallType
    <3>3. Early \subseteq homes /\ Late \subseteq homes
      BY DEF Early, Late, TypeInv, CallInv, CallType
    <3>4. Early' = Early /\ Late' = Late
      BY <2>1 DEF Early, Late
    <3>5. \A i \in Late : Follows(i, call.v)'
      <4>1. SUFFICES ASSUME NEW i \in Late  PROVE  Follows(i, call.v)'
        BY DEF Follows
      <4>2. PICK v \in BOOLEAN : v = call.v
        BY <3>2
      <4>3. i \in homes /\ Follows(i, v) /\ call'.v = v
        BY <2>1, <3>1, <3>3, <4>1, <4>2 DEF Touched
      <4>4. Follows(i, v)'
        BY <2>5, <3>2, <4>2, <4>3
      <4> QED BY <4>3, <4>4 DEF Follows
    <3>6. ~call.v => \A i \in Early : ~on[i] => Follows(i, FALSE)'
      <4>1. SUFFICES ASSUME ~call.v, NEW i \in Early, ~on[i]  PROVE  Follows(i, FALSE)'
        BY DEF Follows
      <4>2. Built = FALSE /\ i \in homes /\ Follows(i, FALSE)
        BY <3>1, <3>2, <3>3, <4>1 DEF Touched
      <4> QED BY <2>5, <4>2 DEF Follows
    <3>7. call.pc = "push" /\ ~call.seen /\ ~call.v => Follows(call.i, FALSE)'
      <4>1. SUFFICES ASSUME call.pc = "push", ~call.seen, ~call.v  PROVE Follows(call.i, FALSE)'
        OBVIOUS
      <4>2. Built = FALSE /\ call.i \in homes
        BY <3>2, <4>1 DEF TypeInv, CallInv, CallType
      <4>3. Follows(call.i, FALSE)
        BY <3>1, <4>1 DEF Touched
      <4>4. call.i' = call.i
        BY <2>1
      <4> QED BY <2>5, <4>2, <4>3, <4>4 DEF Follows
    <3> QED BY <2>1, <3>1, <3>4, <3>5, <3>6, <3>7 DEF Touched, Follows, Updates
  <2>8. Early' = Early
    BY <2>1 DEF Early
  <2>9. Pushes /\ Walk => Walk'
    BY <2>1, <2>6, <2>7, <2>8 DEF Walk, Untouched
  <2> QED BY <2>1, <2>6, <2>9 DEF AgreeInv, Pushes, Updates
<1>5. ASSUME ResetAllClientTraffics  PROVE  Inv'
  <2>1. /\ UNCHANGED <<homes, on, rec, live, conf, lost, need, call, upset>>
        /\ row' = TRUE
    BY <1>5 DEF ResetAllClientTraffics, fixed, xray
  <2> QED BY <2>1, Unmoved
<1>6. ASSUME NEW v \in BOOLEAN, NEW edit \in BOOLEAN, NEW raise \in BOOLEAN,
             Update(v, edit, raise)
      PROVE  Inv'
  <2> SUFFICES ASSUME ~upset'
               PROVE  AgreeInv'
    BY DEF Inv
  <2>1. /\ ~upset /\ call.op = "none" /\ Agreed /\ ~call.need
        /\ UNCHANGED <<homes, on, rec, row, live, conf, lost, need>>
        /\ call' = [NoCall EXCEPT !.op = "update", !.todo = homes, !.v = v,
                                  !.edit = edit, !.raise = raise]
    BY <1>6 DEF Update, Begin, Quiet, fixed, xray, Inv, AgreeInv
  <2>2. /\ call'.op = "update" /\ call'.pc = "inbound" /\ call'.todo = homes
        /\ call'.edit = edit /\ ~call'.skip /\ call'.need = FALSE
    BY <2>1 DEF NoCall
  <2>3. Agreed' /\ Early' = homes
    BY <2>1, <2>2 DEF Agreed, Follows, Early
  <2> QED BY <2>1, <2>2, <2>3 DEF AgreeInv, Walk, Untouched, Agreed, Updates, Pushes
<1>7. ASSUME NEW op \in {"reset", "bulkReset"}, Reset(op)  PROVE  Inv'
  <2> SUFFICES ASSUME ~upset'
               PROVE  AgreeInv'
    BY DEF Inv
  <2>1. /\ ~upset /\ call.op = "none" /\ homes' = homes /\ on' = on /\ rec' = rec
        /\ row' = row /\ UNCHANGED <<live, conf, lost>> /\ need' = need
    BY <1>7 DEF Reset, Begin, Quiet, fixed, xray
  <2>2. call' = [NoCall EXCEPT !.op = op, !.pc = IF rec THEN "zero" ELSE "inbound",
                               !.todo = homes, !.v = TRUE]
    BY <1>7 DEF Reset, Begin
  <2>3. Agreed /\ ~call.need
    BY <2>1 DEF Inv, AgreeInv
  <2>4. Agreed'
    BY <2>1, <2>3 DEF Agreed, Follows
  <2>5. CASE rec
    BY <2>1, <2>2, <2>4, <2>5 DEF AgreeInv, NoCall
  <2>6. CASE ~rec
    <3>1. /\ call'.op = op /\ call'.pc = "inbound" /\ call'.todo = homes /\ call'.v = TRUE
          /\ call'.edit = FALSE /\ call'.skip = FALSE
      BY <2>2, <2>6 DEF NoCall
    <3>2. Early' = homes
      BY <3>1 DEF Early
    <3>3. Walk'
      BY <2>1, <2>3, <3>1, <3>2 DEF Walk, Untouched, Agreed, Follows
    <3> QED BY <3>1, <3>3 DEF AgreeInv
  <2> QED BY <2>5, <2>6
<1>8. ASSUME NEW v \in BOOLEAN, BulkSetEnable(v)  PROVE  Inv'
  BY <1>8 DEF AgreeInv, Agreed, Follows, Walk, Untouched, Early, Inv, Quiet, fixed, xray,
     BulkSetEnable, Begin, NoCall
<1>9. ASSUME NEW enough \in BOOLEAN, BulkAdjust(enough)  PROVE  Inv'
  BY <1>9 DEF AgreeInv, Agreed, Follows, Inv, Updates, Pushes, Quiet, fixed, xray, BulkAdjust,
     Begin, NoCall
<1>10. ASSUME NEW i \in homes, EditOther(i)  PROVE  Inv'
  BY <1>10 DEF AgreeInv, Agreed, Follows, Inv, Updates, Pushes, Quiet, fixed, xray, EditOther,
     Begin, NoCall
<1>11. ASSUME NEW i \in homes, ReadInbound(i)  PROVE  Inv'
  <2> SUFFICES ASSUME ~upset'
               PROVE  AgreeInv'
    BY DEF Inv
  <2>1. /\ ~upset /\ AgreeInv /\ call.pc = "inbound" /\ i \in call.todo
        /\ UNCHANGED <<homes, on, rec, row, live, conf, lost, need>>
    BY <1>11 DEF ReadInbound, Inv, fixed, xray
  <2>2. /\ call.op \in Ops /\ call.op # "none" /\ call.i = NoInbound
        /\ call.todo \subseteq homes /\ NoInbound \notin homes /\ call \in CallType
    BY <2>1, NoInboundAssumption DEF TypeInv, CallInv, CallType, FixedInv
  <2>3. CASE Unchanged(i)
    <3>1. call' = [call EXCEPT !.todo = @ \ {i}]
      BY <1>11, <2>3 DEF ReadInbound
    <3>2. /\ call'.pc = call.pc /\ call'.op = call.op /\ call'.todo = call.todo \ {i}
          /\ call'.i = call.i /\ call'.v = call.v /\ call'.edit = call.edit
          /\ call'.seen = call.seen /\ call'.skip = call.skip /\ call'.need = call.need
      BY <2>2, <3>1 DEF CallType
    <3>3. Pushes /\ ~call.edit /\ on[i] = call.v /\ Walk
      BY <2>1, <2>3 DEF Unchanged, AgreeInv
    <3>4. /\ Early = call.todo /\ Late = homes \ call.todo
          /\ Early' = call.todo \ {i} /\ Late' = homes \ (call.todo \ {i})
      BY <2>1, <2>2, <3>2 DEF Early, Late
    <3>5. Untouched => Untouched'
      BY <2>1, <3>2, <3>3 DEF Untouched, Agreed, Follows
    <3>6. ~Touched
      BY <2>1, <3>3, <3>4 DEF Touched
    <3>7. Walk'
      BY <2>1, <3>2, <3>3, <3>4, <3>5, <3>6 DEF Walk
    <3> QED BY <2>1, <3>2, <3>3, <3>7 DEF AgreeInv, Pushes, Updates
  <2>4. CASE ~Unchanged(i)
    <3>1. call' = [call EXCEPT !.todo = @ \ {i}, !.pc = "commit", !.i = i, !.seen = on[i]]
      BY <1>11, <2>4 DEF ReadInbound
    <3>2. /\ call'.pc = "commit" /\ call'.op = call.op /\ call'.todo = call.todo \ {i}
          /\ call'.i = i /\ call'.v = call.v /\ call'.edit = call.edit
          /\ call'.seen = on[i] /\ call'.skip = call.skip /\ call'.need = call.need
      BY <2>2, <3>1 DEF CallType
    <3>3. CASE ~Pushes
      <4>1. Agreed'
        BY <2>1, <2>2, <3>2, <3>3 DEF AgreeInv, Agreed, Follows, Ops, Pushes, Updates
      <4> QED BY <2>1, <3>2, <3>3, <4>1 DEF AgreeInv, Pushes, Updates
    <3>4. CASE Pushes
      <4>1. Walk /\ (call.edit \/ on[i] # call.v)
        BY <2>1, <2>4, <3>4 DEF Unchanged, AgreeInv
      <4>2. Early = call.todo /\ Early' = Early /\ Late' \subseteq Late
        BY <2>1, <2>2, <3>2 DEF Early, Late
      <4>3. Untouched => Untouched'
        BY <2>1, <3>2, <4>1, <4>2 DEF Untouched, Agreed, Follows
      <4>4. Touched => Touched'
        BY <2>1, <3>2, <4>1, <4>2 DEF Touched, Follows, Updates
      <4>5. Walk'
        BY <2>1, <3>2, <4>1, <4>2, <4>3, <4>4 DEF Walk
      <4> QED BY <2>1, <3>2, <3>4, <4>5 DEF AgreeInv, Pushes, Updates
    <3> QED BY <3>3, <3>4
  <2> QED BY <2>3, <2>4
<1>12. ASSUME NEW i \in homes, ResetClientTraffic(i)  PROVE  Inv'
  <2> SUFFICES ASSUME ~upset'
               PROVE  AgreeInv'
    BY DEF Inv
  <2>1. /\ ~upset /\ AgreeInv /\ call.pc = "zero" /\ call.op = "reset" /\ row' = TRUE
        /\ UNCHANGED <<homes, on, rec, conf, need>>
    BY <1>12 DEF ResetClientTraffic, Inv, fixed
  <2>2. PICK bad \in SUBSET {"add"} :
          /\ Apply(i, FALSE, ~row /\ on[i], bad)
          /\ call' = [call EXCEPT !.todo = @ \ {i},
                        !.need = @ \/ Refused(i, FALSE, ~row /\ on[i], bad)]
    BY <1>12 DEF ResetClientTraffic
  <2>3. Agreed /\ rec = TRUE
    BY <2>1 DEF AgreeInv, TypeInv, FlagInv
  <2>4. ~(~row /\ on[i])
    BY <2>3 DEF Agreed
  <2>5. live' = live /\ lost' = lost /\ (call.need => call'.need)
        /\ call'.op = call.op /\ call'.pc = call.pc /\ call'.v = call.v /\ call'.skip = call.skip
        /\ call'.edit = call.edit
    <3>1. live' = [live EXCEPT ![i] = Left(i, FALSE, bad) \/ Added(i, FALSE, ~row /\ on[i], bad)]
          /\ lost' = lost
      BY <2>2, <2>4 DEF Apply
    <3>2. Left(i, FALSE, bad) = live[i] /\ Added(i, FALSE, ~row /\ on[i], bad) = FALSE
      BY <2>4 DEF Left, Added, TypeInv, SetInv, FixedInv
    <3>3. live' = live
      BY <3>1, <3>2 DEF TypeInv, SetInv, FixedInv
    <3> QED BY <2>2, <3>1, <3>3 DEF TypeInv, CallInv, CallType
  <2>6. Agreed'
    BY <2>1, <2>3, <2>5 DEF Agreed, Follows
  <2> QED BY <2>1, <2>3, <2>5, <2>6 DEF AgreeInv, Pushes, Updates
<1>13. ASSUME Commit  PROVE  Inv'
  <2> SUFFICES ASSUME ~upset'
               PROVE  AgreeInv'
    BY DEF Inv
  <2>1. /\ ~upset /\ AgreeInv /\ call.pc = "commit" /\ UNCHANGED <<homes, live, conf, lost>>
        /\ need' = need /\ call.i \in homes /\ call.i \notin call.todo
    BY <1>13 DEF Commit, Inv, fixed, xray, TypeInv, CallInv, CallType
  <2>2. CASE Pushes
    <3>1. call' = [call EXCEPT !.pc = "push"] /\ on' = [on EXCEPT ![call.i] = call.v]
          /\ rec' = call.v /\ row' = (IF Updates THEN call.v ELSE row)
      BY <1>13, <2>1, <2>2 DEF Commit, TypeInv, SetInv, FixedInv
    <3>2. /\ call'.pc = "push" /\ call'.op = call.op /\ call'.todo = call.todo /\ call'.i = call.i
          /\ call'.v = call.v /\ call'.edit = call.edit /\ call'.seen = call.seen
          /\ call'.skip = call.skip /\ call'.need = call.need
      BY <3>1
    <3>3. Early' = call.todo /\ Early = call.todo \cup {call.i} /\ Late' = Late
      BY <2>1, <3>2 DEF Early, Late
    <3>4. /\ on' \in [Inbounds -> BOOLEAN] /\ on'[call.i] = call.v
          /\ \A j \in homes : j # call.i => on'[j] = on[j]
      BY <2>1, <3>1 DEF TypeInv, SetInv, FixedInv, CallInv, CallType
    <3>5. Walk /\ call.todo \subseteq homes
      BY <2>1, <2>2 DEF AgreeInv, TypeInv, CallInv, CallType
    <3>6. \A j \in homes, w \in BOOLEAN : Follows(j, w)' <=> Follows(j, w)
      BY <2>1, <3>2 DEF Follows
    <3>7. /\ call.seen = on[call.i] /\ call.seen \in BOOLEAN /\ call.v \in BOOLEAN
          /\ Late \subseteq homes
      BY <2>1, <3>5 DEF Walk, TypeInv, CallInv, CallType, Late
    <3>8. ASSUME Touched  PROVE  Touched'
      <4>1. call.edit \/ call.seen # call.v
        BY <3>3, <3>7, <3>8 DEF Touched
      <4>2. ~call.seen /\ ~call.v => Follows(call.i, FALSE)
        BY <3>3, <3>7, <3>8 DEF Touched
      <4>3. \A j \in call.todo : on'[j] = on[j] /\ j \in homes
        BY <2>1, <3>4, <3>5
      <4>4. \A j \in Late : Follows(j, call.v)'
        <5>1. SUFFICES ASSUME NEW j \in Late  PROVE  Follows(j, call.v)'
          BY DEF Follows
        <5>2. PICK v \in BOOLEAN : v = call.v
          BY <3>7
        <5>3. Follows(j, v) /\ call'.v = v /\ j \in homes
          BY <3>2, <3>7, <3>8, <5>1, <5>2 DEF Touched
        <5>4. Follows(j, v)'
          BY <3>6, <5>3
        <5> QED BY <5>3, <5>4 DEF Follows
      <4>5. \A j \in call.todo : ~on[j] /\ ~call.v => Follows(j, FALSE)'
        BY <3>3, <3>5, <3>6, <3>8 DEF Touched, Follows
      <4>6. ~call.seen /\ ~call.v => Follows(call.i, FALSE)'
        <5>1. SUFFICES ASSUME ~call.seen, ~call.v  PROVE  Follows(call.i, FALSE)'
          OBVIOUS
        <5>2. PICK k \in homes : k = call.i
          BY <2>1
        <5>3. Follows(k, FALSE) /\ call'.i = k
          BY <3>2, <4>2, <5>1, <5>2
        <5>4. Follows(k, FALSE)'
          BY <3>6, <5>3
        <5> QED BY <5>3, <5>4 DEF Follows
      <4>7. \A j \in call.todo : call.edit \/ on[j] # call.v
        BY <3>3, <3>8 DEF Touched
      <4>8. call.op = "enable" => ~call.edit
        BY <3>8 DEF Touched
      <4>9. Updates /\ call.v => row'
        BY <3>1
      <4> QED BY <3>1, <3>2, <3>3, <4>1, <4>3, <4>4, <4>5, <4>6, <4>7, <4>8, <4>9
              DEF Touched, Updates
    <3>9. ASSUME Untouched  PROVE  Touched'
      <4>1. Agreed /\ rec \in BOOLEAN
        BY <3>9 DEF Untouched, TypeInv, FlagInv
      <4>2. /\ call.edit \/ on[call.i] # call.v
            /\ call.edit => Early = homes
        BY <2>1, <3>9 DEF Untouched
      <4>3. Late = {}
        BY <2>1, <3>5, <4>1, <4>2 DEF Walk, Agreed, Late
      <4>4. \A j \in homes : on[j] = rec /\ Follows(j, rec)
        BY <4>1 DEF Agreed
      <4>5. \A j \in homes : ~on[j] => Follows(j, FALSE)'
        <5>1. SUFFICES ASSUME NEW j \in homes, ~on[j]  PROVE  Follows(j, FALSE)'
          BY DEF Follows
        <5>2. rec = FALSE /\ Follows(j, rec)
          BY <4>1, <4>4, <5>1
        <5> QED BY <3>6, <5>2 DEF Follows
      <4>6. ~call.seen => Follows(call.i, FALSE)'
        <5>1. SUFFICES ASSUME ~call.seen  PROVE  Follows(call.i, FALSE)'
          OBVIOUS
        <5>2. PICK k \in homes : k = call.i
          BY <2>1
        <5>3. ~on[k] /\ call'.i = k
          BY <3>2, <3>7, <5>1, <5>2
        <5>4. Follows(k, FALSE)'
          BY <4>5, <5>3
        <5> QED BY <5>3, <5>4 DEF Follows
      <4>7. \A j \in call.todo : on'[j] = on[j] /\ j \in homes
        BY <2>1, <3>4, <3>5
      <4>8. \A j \in call.todo : call.edit \/ on[j] # call.v
        BY <2>1, <4>2, <4>4, <4>7
      <4>9. call.op = "enable" => ~call.edit
        BY <2>1 DEF AgreeInv
      <4>10. Updates /\ call.v => row'
        BY <3>1
      <4>11. \A j \in call.todo : ~on'[j] /\ ~call.v => Follows(j, FALSE)'
        BY <4>5, <4>7 DEF Follows
      <4> QED BY <3>1, <3>2, <3>3, <3>7, <4>2, <4>3, <4>6, <4>7, <4>8, <4>9, <4>10, <4>11
              DEF Touched, Updates
    <3>10. Touched'
      BY <3>5, <3>8, <3>9 DEF Walk
    <3>11. Walk'
      BY <2>1, <3>2, <3>3, <3>4, <3>5, <3>10 DEF Walk
    <3> QED BY <2>1, <2>2, <3>2, <3>11 DEF AgreeInv, Pushes, Updates
  <2>3. CASE ~Pushes
    <3>1. /\ call' = [call EXCEPT !.pc = "inbound", !.i = NoInbound]
          /\ on' = [on EXCEPT ![call.i] = call.seen]
          /\ rec' = on'[call.i] /\ row' = row
      BY <1>13, <2>3 DEF Commit, Pushes
    <3>2. call.op \in {"adjust", "other"}
      BY <2>1, <2>3 DEF TypeInv, CallInv, CallType, Ops, Pushes, Updates
    <3>3. Agreed /\ on' = on /\ rec' = rec
      BY <2>1, <3>1, <3>2 DEF AgreeInv, Agreed, Follows, TypeInv, SetInv
    <3>4. /\ call'.pc = "inbound" /\ call'.op = call.op /\ call'.skip = call.skip
          /\ call'.need = call.need /\ call'.edit = call.edit
      BY <3>1
    <3>5. Agreed'
      BY <2>1, <3>1, <3>3, <3>4 DEF Agreed, Follows
    <3> QED BY <2>1, <3>2, <3>4, <3>5 DEF AgreeInv, Pushes, Updates
  <2> QED BY <2>2, <2>3
<1>14. ASSUME CommitFails  PROVE  Inv'
  BY <1>14 DEF Inv, CommitFails
<1>15. ASSUME Push  PROVE  Inv'
  <2> SUFFICES ASSUME ~upset'
               PROVE  AgreeInv'
    BY DEF Inv
  <2>1. /\ ~upset /\ AgreeInv /\ call.pc = "push" /\ Pushes
        /\ UNCHANGED <<homes, on, rec, row, conf, need>>
    BY <1>15 DEF Push, Inv, fixed, TypeInv, CallInv
  <2>2. /\ call \in CallType /\ call.i \in homes /\ call.i \notin call.todo
        /\ call.todo \subseteq homes /\ NoInbound \notin homes /\ homes \subseteq Inbounds
        /\ call.v \in BOOLEAN /\ call.seen \in BOOLEAN /\ call.need \in BOOLEAN
    BY <2>1, NoInboundAssumption DEF TypeInv, CallInv, CallType, FixedInv
  <2>3. PICK bad \in SUBSET {"remove", "add"} : Push!2!(bad)
    BY <1>15 DEF Push
  <2>4. PICK r \in BOOLEAN : r <=> call.seen /\ (Updates \/ ~call.v)
    OBVIOUS
  <2>5. PICK b \in BOOLEAN : b <=> \/ live[call.i] /\ (r => "remove" \in bad)
                                  \/ /\ call.v /\ "add" \notin bad
                                     /\ ~(live[call.i] /\ (r => "remove" \in bad))
    OBVIOUS
  <2>6. live' = [live EXCEPT ![call.i] = b]
    BY <2>3, <2>4, <2>5 DEF Apply, Left, Added
  <2>7. /\ live'[call.i] = b
        /\ \A j \in homes : j # call.i => live'[j] = live[j]
    BY <2>2, <2>6 DEF TypeInv, SetInv
  <2>8. PICK n \in BOOLEAN :
          /\ n <=> \/ call.need \/ "remove" \in bad
                   \/ /\ call.v
                      /\ ~(/\ call.v /\ "add" \notin bad
                           /\ ~(live[call.i] /\ (r => "remove" \in bad)))
          /\ call' = [call EXCEPT !.pc = "inbound", !.i = NoInbound, !.need = n]
    BY <2>3, <2>4 DEF Refused, Left, Added
  <2>9. /\ call'.pc = "inbound" /\ call'.op = call.op /\ call'.todo = call.todo
        /\ call'.i = NoInbound /\ call'.v = call.v /\ call'.edit = call.edit
        /\ call'.skip = call.skip /\ call'.need = n /\ call'.seen = call.seen
    BY <2>2, <2>8 DEF CallType
  <2>10. IF r \/ call.v THEN Asked({call.i}, IF bad = {} THEN {} ELSE {call.i}, call.v, TRUE)
         ELSE UNCHANGED lost
    BY <2>3, <2>4 DEF Apply
  <2>11. bad \subseteq (IF r THEN {"remove"} ELSE {}) \cup (IF call.v THEN {"add"} ELSE {})
    BY <2>3, <2>4 DEF Apply
  <2>12. ASSUME NEW j \in homes, j # call.i, NEW w \in BOOLEAN, Follows(j, w)
         PROVE  Follows(j, w)'
    <3>1. j \in lost => j \in lost'
      BY <2>10, <2>12 DEF Asked
    <3> QED BY <2>1, <2>7, <2>8, <2>9, <2>12, <3>1 DEF Follows
  <2>13. Walk /\ Touched
    BY <2>1 DEF AgreeInv, Walk, Untouched
  <2>14. PICK k \in homes, v \in BOOLEAN : k = call.i /\ v = call.v
    BY <2>2
  <2>15. Follows(k, v)'
    <3>1. ASSUME live'[k] = v \/ k \in lost' \/ (n /\ conf[k] # v)
          PROVE  Follows(k, v)'
      BY <2>1, <2>9, <3>1 DEF Follows
    <3>2. CASE ~r /\ ~v
      <4>1. bad = {} /\ b = live[k] /\ lost' = lost
        BY <2>2, <2>5, <2>10, <2>11, <2>14, <3>2 DEF TypeInv, SetInv
      <4>2. ~call.seen /\ v = FALSE
        BY <2>2, <2>4, <2>14, <3>2
      <4>3. Follows(k, FALSE)
        BY <2>1, <2>13, <2>14, <4>2 DEF Touched
      <4>4. call.need => n
        BY <2>8
      <4> QED BY <2>1, <2>7, <2>9, <2>14, <4>1, <4>2, <4>3, <4>4 DEF Follows
    <3>3. CASE (r \/ v) /\ bad = {}
      <4>1. b = v
        BY <2>2, <2>5, <2>14, <3>3
      <4> QED BY <2>7, <2>14, <3>1, <4>1
    <3>4. CASE (r \/ v) /\ bad # {}
      <4>1. b # v => n
        BY <2>2, <2>5, <2>8, <2>11, <2>14, <3>4
      <4>2. live'[k] # v /\ conf[k] = v => k \in lost'
        BY <2>10, <2>14, <3>4 DEF Asked
      <4> QED BY <2>7, <2>14, <3>1, <4>1, <4>2
    <3> QED BY <3>2, <3>3, <3>4
  <2>16. /\ Early = call.todo /\ Late = homes \ (call.todo \cup {k})
         /\ Early' = call.todo /\ Late' = homes \ call.todo
    BY <2>1, <2>2, <2>9, <2>14 DEF Early, Late
  <2>17. Touched'
    <3>1. \A j \in Late' : Follows(j, call.v)'
      <4>1. SUFFICES ASSUME NEW j \in homes \ call.todo  PROVE  Follows(j, call.v)'
        BY <2>16 DEF Follows
      <4>2. j # k => Follows(j, v)
        BY <2>13, <2>14, <2>16 DEF Touched
      <4>3. Follows(j, v)'
        BY <2>12, <2>14, <2>15, <4>2
      <4> QED BY <2>9, <2>14, <4>3 DEF Follows
    <3>2. \A j \in call.todo : ~on[j] /\ ~call.v => Follows(j, FALSE)'
      <4>1. SUFFICES ASSUME NEW j \in call.todo, ~on[j], ~call.v  PROVE  Follows(j, FALSE)'
        BY DEF Follows
      <4>2. Follows(j, FALSE) /\ j \in homes /\ j # call.i
        BY <2>2, <2>13, <2>16, <4>1 DEF Touched
      <4> QED BY <2>12, <4>2 DEF Follows
    <3> QED BY <2>1, <2>9, <2>13, <2>16, <3>1, <3>2 DEF Touched, Updates, Follows
  <2>18. Walk'
    BY <2>1, <2>2, <2>9, <2>13, <2>14, <2>16, <2>17 DEF Walk
  <2> QED BY <2>1, <2>9, <2>18 DEF AgreeInv, Pushes, Updates
<1>16. ASSUME FinishUpdate  PROVE  Inv'
  <2> SUFFICES ASSUME ~upset'
               PROVE  AgreeInv'
    BY DEF Inv
  <2>1. /\ ~upset /\ AgreeInv /\ call.pc = "inbound" /\ call.todo = {} /\ homes' = homes
        /\ UNCHANGED <<live, conf, lost, on, row>> /\ rec' = call.v /\ Pushes /\ Updates
    BY <1>16 DEF FinishUpdate, AllDone, Inv, fixed, xray, Pushes
  <2>2. Early = {} /\ Late = homes
    BY <2>1, NoInboundAssumption DEF Early, Late, TypeInv, CallInv, FixedInv
  <2>3. Walk
    BY <2>1 DEF AgreeInv
  <2>4. /\ \A i \in homes : on[i] = call.v /\ Follows(i, call.v)
        /\ call.v => row
    BY <2>1, <2>2, <2>3 DEF Walk, Untouched, Touched, Agreed, TypeInv, FixedInv
  <2>5. CASE call.op = "update"
    <3>1. call' = NoCall /\ need' = (need \/ call.need)
      BY <1>16, <2>5 DEF FinishUpdate, Return
    <3>2. /\ call'.op = "none" /\ call'.pc = "inbound" /\ call'.edit = FALSE
          /\ call'.skip = FALSE /\ call'.need = FALSE
      BY <3>1 DEF NoCall
    <3>3. Agreed'
      BY <2>1, <2>4, <3>1, <3>2 DEF Agreed, Follows
    <3> QED BY <3>2, <3>3 DEF AgreeInv, Pushes, Updates
  <2>6. CASE call.op # "update"
    <3>1. call' = [call EXCEPT !.pc = "zero", !.todo = homes] /\ need' = need
      BY <1>16, <2>6 DEF FinishUpdate
    <3>2. call'.pc = "zero" /\ call'.op = call.op /\ call'.v = call.v /\ call'.need = call.need
          /\ call'.skip = call.skip /\ call.op \in {"reset", "bulkReset"}
      BY <2>1, <2>6, <3>1 DEF Updates
    <3>3. Agreed'
      BY <2>1, <2>4, <3>1, <3>2 DEF Agreed, Follows
    <3>4. rec' = TRUE
      BY <2>1, <3>2 DEF AgreeInv, TypeInv, CallInv, CallType
    <3> QED BY <2>1, <3>2, <3>3, <3>4 DEF AgreeInv
  <2> QED BY <2>5, <2>6
<1>17. ASSUME FinishEnable  PROVE  Inv'
  BY ZenonT(60), <1>17, NoInboundAssumption DEF TypeInv, FixedInv, CallInv, AgreeInv, Agreed, Follows,
     Walk, Untouched, Touched, Early, Late, Inv, AllDone, Updates, Pushes, fixed, xray,
     FinishEnable, Return, NoCall
<1>18. ASSUME FinishOther  PROVE  Inv'
  BY <1>18 DEF AgreeInv, Agreed, Follows, Inv, Updates, Pushes, fixed, xray, FinishOther, Return,
     NoCall
<1>19. ASSUME Judge  PROVE  Inv'
  BY <1>19 DEF AgreeInv, Agreed, Follows, Inv, fixed, xray, Judge
<1>20. ASSUME Raise  PROVE  Inv'
  <2> SUFFICES ASSUME ~upset'
               PROVE  AgreeInv'
    BY DEF Inv
  <2>1. /\ ~upset /\ AgreeInv /\ call.op = "adjust" /\ homes' = homes
        /\ UNCHANGED <<live, conf, lost, on, row, rec>> /\ call \in CallType
    BY <1>20 DEF Raise, Inv, fixed, xray, TypeInv, CallInv
  <2>2. Agreed
    BY <2>1 DEF AgreeInv
  <2>3. CASE call' = NoCall /\ need' = (need \/ call.need)
    <3>1. /\ call'.op = "none" /\ call'.pc = "inbound" /\ call'.edit = FALSE
          /\ call'.skip = FALSE /\ call'.need = FALSE
      BY <2>3 DEF NoCall
    <3>2. Agreed'
      BY <2>1, <2>2, <2>3, <3>1 DEF Agreed, Follows
    <3> QED BY <3>1, <3>2 DEF AgreeInv, Pushes, Updates
  <2>4. CASE /\ call' = [call EXCEPT !.op = "enable", !.pc = "inbound", !.todo = homes,
                             !.v = TRUE, !.raise = FALSE, !.skip = FALSE]
             /\ need' = need
    <3>1. /\ call'.op = "enable" /\ call'.pc = "inbound" /\ call'.todo = homes /\ call'.v = TRUE
          /\ ~call'.edit /\ call'.skip = FALSE /\ call'.need = call.need
      BY <2>1, <2>4 DEF CallType, AgreeInv
    <3>2. Early' = homes /\ Agreed'
      BY <2>1, <2>2, <2>4, <3>1 DEF Early, Agreed, Follows
    <3>3. Walk'
      BY <2>1, <3>1, <3>2 DEF Walk, Untouched, Agreed
    <3> QED BY <3>1, <3>3 DEF AgreeInv
  <2> QED BY <1>20, <2>3, <2>4 DEF Raise, Return
<1>21. ASSUME FinishReset  PROVE  Inv'
  BY <1>21 DEF AgreeInv, Agreed, Follows, Inv, Updates, Pushes, fixed, xray, FinishReset, Return,
     NoCall
<1>22. ASSUME FinishBulkReset  PROVE  Inv'
  BY <1>22 DEF AgreeInv, Agreed, Follows, Inv, Updates, Pushes, fixed, xray, FinishBulkReset,
     NoCall
<1>23. ASSUME UNCHANGED vars  PROVE  Inv'
  BY <1>23, Unmoved DEF vars
<1> QED
  BY <1>1, <1>2, <1>3, <1>4, <1>5, <1>6, <1>7, <1>8, <1>9, <1>10, <1>11, <1>12,
     <1>13, <1>14, <1>15, <1>16, <1>17, <1>18, <1>19, <1>20, <1>21, <1>22, <1>23 DEF
     Next, Poll, Start, CallStep, Idle

-----------------------------------------------------------------------------
(* The initial states, and what a step never changes.                        *)

LEMMA TypeInit == Init => TypeInv
  <1> SUFFICES ASSUME Init  PROVE  TypeInv
    OBVIOUS
  <1>1. FixedInv
    BY DEF Init, FixedInv
  <1>2. FlagInv
    BY DEF Init, FlagInv
  <1>3. SetInv
    <2>1. on \in [Inbounds -> BOOLEAN]
      BY DEF Init
    <2> QED BY DEF Init, SetInv
  <1>4. CallInv
    BY DEF Init, CallInv, CallType, Ops, Steps, NoCall
  <1>5. CountInv
    BY BoundsAssumption DEF Init, CountInv
  <1> QED BY <1>1, <1>2, <1>3, <1>4, <1>5 DEF TypeInv

LEMMA AgreeInit == Init => Inv
  <1> SUFFICES ASSUME Init  PROVE  AgreeInv
    BY DEF Inv
  <1>1. /\ call.op = "none" /\ call.pc = "inbound" /\ call.need = FALSE /\ call.skip = FALSE
        /\ call.edit = FALSE
    BY DEF Init, NoCall
  <1>2. Agreed
    BY DEF Init, Agreed, Follows
  <1> QED BY <1>1, <1>2 DEF AgreeInv, Pushes, Updates

LEMMA TypeNext == TypeInv /\ [Next]_vars => TypeInv'
  BY SetNext, FlagNext, CallNext, CountNext DEF TypeInv

LEMMA TypeImplied == TypeInv => TypeOK
  <1> SUFFICES ASSUME TypeInv  PROVE  TypeOK
    OBVIOUS
  <1>1. homes \in (SUBSET Inbounds) \ {{}}
    BY DEF TypeInv, FixedInv
  <1>2. {on, live, conf} \subseteq [Inbounds -> BOOLEAN] /\ lost \subseteq homes
    BY DEF TypeInv, SetInv
  <1>3. {renews, rec, row, quota, expired, need, upset} \subseteq BOOLEAN
    BY DEF TypeInv, FixedInv, FlagInv
  <1>4. CallInv /\ CountInv
    BY DEF TypeInv
  <1> QED BY <1>1, <1>2, <1>3, <1>4 DEF TypeOK, CallInv, CallType, CountInv

(* The homes and the reset period are as they were. *)
LEMMA FixedStays == [Next]_vars => UNCHANGED fixed
  <1> USE DEF fixed, xray
  <1>1. ASSUME Poll \/ Restart \/ OtherRestart \/ ResetAllClientTraffics \/ ReachLimit
        PROVE  UNCHANGED fixed
    BY <1>1 DEF Poll, AutoRenew, DisableInvalidClients, Restart, OtherRestart, RestartXray,
       ResetAllClientTraffics, ReachLimit
  <1>2. ASSUME Start  PROVE  UNCHANGED fixed
    BY <1>2 DEF Start, Update, Reset, BulkSetEnable, BulkAdjust, EditOther, Begin
  <1>3. ASSUME CallStep  PROVE  UNCHANGED fixed
    BY <1>3 DEF CallStep, ReadInbound, ResetClientTraffic, Commit, CommitFails,
       Push, FinishUpdate, FinishEnable, FinishOther, Judge, Raise,
       FinishReset, FinishBulkReset
  <1>4. ASSUME UNCHANGED vars  PROVE  UNCHANGED fixed
    BY <1>4 DEF vars
  <1> QED BY <1>1, <1>2, <1>3, <1>4 DEF Next, Idle

LEMMA OneHome == OneHomeInit => OneHomeInv
  <1> SUFFICES ASSUME OneHomeInit, renews  PROVE  \E i \in homes : homes = {i}
    BY DEF OneHomeInv
  <1>1. homes \subseteq Inbounds /\ Cardinality(homes) = 1
    BY DEF OneHomeInit, Init
  <1>2. IsFiniteSet(homes)
    BY <1>1, FiniteAssumption, FS_Subset
  <1>3. \E x : homes = {x}
    BY <1>1, <1>2, FS_Singleton
  <1> QED BY <1>3

-----------------------------------------------------------------------------
(* Theorems.                                                                 *)

(* Types (TypeOK of ClientLimits), in every instance. *)
THEOREM TypeCorrect == Spec => []TypeOK
  <1>1. Spec => []TypeInv
    BY TypeInit, TypeNext, PTL DEF Spec
  <1> QED BY <1>1, TypeImplied, PTL

(* The invariants hold while a client that is renewed has one inbound. *)
LEMMA Agreeing == OneHomeSpec => [](TypeInv /\ OneHomeInv /\ Inv)
  <1>1. OneHomeInit => TypeInv /\ OneHomeInv /\ Inv
    BY TypeInit, AgreeInit, OneHome DEF OneHomeInit
  <1>2. (TypeInv /\ OneHomeInv /\ Inv) /\ [Next]_vars => (TypeInv /\ OneHomeInv /\ Inv)'
    BY TypeNext, AgreeNext, FixedStays DEF OneHomeInv, fixed, xray
  <1> QED BY <1>1, <1>2, PTL DEF OneHomeSpec

(* Between calls that no poll crossed, the settings of every inbound of the *)
(* client and its record say the same, after any updates, resets, bulk      *)
(* calls, polls and renewals (client_crud.go, client_bulk.go).              *)
THEOREM OneAnswerHolds == OneHomeSpec => []OneAnswer
  <1>1. Inv => OneAnswer
    BY DEF Inv, AgreeInv, Agreed, Follows, OneAnswer, Quiet
  <1> QED BY <1>1, Agreeing, PTL

(* Between such calls, with no restart pending, Xray accepts the client on *)
(* exactly the inbounds where a restart would put it (GetXrayConfig).      *)
THEOREM LiveAsBuiltHolds == OneHomeSpec => []LiveAsBuilt
  <1>1. TypeInv /\ Inv => LiveAsBuilt
    <2> SUFFICES ASSUME TypeInv, Inv, Quiet, ~upset, ~need, NEW i \in homes \ lost
                 PROVE  live[i] = Built
      BY DEF LiveAsBuilt
    <2>1. Agreed /\ ~call.need
      BY DEF Inv, AgreeInv, Quiet
    <2>2. live[i] = rec /\ (rec => row)
      BY <2>1 DEF Agreed, Follows
    <2>3. Built = rec
      BY <2>2 DEF Built, TypeInv, FlagInv
    <2> QED BY <2>2, <2>3
  <1> QED BY <1>1, Agreeing, PTL

(* ResetTrafficByEmail and BulkResetTraffic leave a client enabled in all   *)
(* three places, and in Xray or with a restart pending.                     *)
THEOREM ResetEnablesHolds == OneHomeSpec => ResetEnables
  <1> DEFINE A == (call.op \in {"reset", "bulkReset"} /\ call'.op = "none" /\ ~upset') =>
                     /\ row' /\ rec' /\ \A i \in homes : on'[i]
                     /\ need' \/ \A i \in homes \ lost' : live'[i]
  <1>1. TypeInv /\ Inv /\ [Next]_vars => [A]_vars
    <2> SUFFICES ASSUME TypeInv, Inv, [Next]_vars, vars' # vars, ~upset',
                        call.op \in {"reset", "bulkReset"}, call'.op = "none"
                 PROVE  /\ row' /\ rec' /\ \A i \in homes : on'[i]
                        /\ need' \/ \A i \in homes \ lost' : live'[i]
      OBVIOUS
    <2> DEFINE G == /\ row' /\ rec' /\ \A i \in homes : on'[i]
                    /\ need' \/ \A i \in homes \ lost' : live'[i]
    <2>1. ASSUME call' = call \/ call'.op = call.op  PROVE  FALSE
      BY <2>1
    <2>2. ASSUME FinishReset \/ FinishBulkReset  PROVE  G
      <3>1. /\ call.pc = "zero" /\ ~upset
            /\ UNCHANGED <<homes, on, rec, live, conf, lost>>
        BY <2>2 DEF FinishReset, FinishBulkReset, xray, fixed
      <3>2. Agreed /\ rec
        BY <3>1 DEF Inv, AgreeInv
      <3>3. row' /\ (need' \/ (need' = (need \/ call.need)))
        BY <2>2, <3>2 DEF FinishReset, FinishBulkReset, Return, Agreed, Follows
      <3>4. rec = TRUE
        BY <3>2
      <3> QED BY <3>1, <3>2, <3>3 DEF Agreed, Follows
    <2>3. CASE Poll \/ Restart \/ OtherRestart \/ ResetAllClientTraffics \/ ReachLimit
      BY <2>3 DEF Poll, AutoRenew, DisableInvalidClients, Restart, OtherRestart, RestartXray,
         ResetAllClientTraffics, ReachLimit
    <2>4. CASE Start
      BY <2>4 DEF Start, Update, Reset, BulkSetEnable, BulkAdjust, EditOther, Begin,
         Quiet
    <2>5. CASE CallStep
      <3>1. CASE \E i \in homes : ReadInbound(i)
        BY <3>1 DEF ReadInbound
      <3>2. CASE \E i \in homes : ResetClientTraffic(i)
        BY <3>2 DEF ResetClientTraffic
      <3>3. CASE Commit \/ Push
        BY <2>1, <3>3 DEF Commit, Push, TypeInv, CallInv, CallType
      <3>4. CASE CommitFails
        BY <3>4 DEF CommitFails
      <3>5. CASE FinishUpdate
        <4>1. call' = [call EXCEPT !.pc = "zero", !.todo = homes]
          BY <3>5 DEF FinishUpdate
        <4> QED BY <4>1
      <3>6. CASE FinishEnable \/ FinishOther \/ Judge \/ Raise
        BY <3>6 DEF FinishEnable, FinishOther, Judge, Raise, TypeInv, CallInv
      <3> QED BY <2>2, <2>5, <3>1, <3>2, <3>3, <3>4, <3>5, <3>6 DEF CallStep
    <2> QED BY <2>3, <2>4, <2>5 DEF Next, Idle
  <1>2. OneHomeSpec => [][A]_vars
    BY <1>1, Agreeing, PTL DEF OneHomeSpec
  <1> QED BY <1>2 DEF ResetEnables
==============================================================================
