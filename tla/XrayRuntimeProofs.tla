------------------------- MODULE XrayRuntimeProofs --------------------------
(***************************************************************************)
(* Theorems about XrayRuntime, for any users, credentials and bounds.      *)
(*                                                                         *)
(* TypeInv is TypeOK with the bond between a job and the caller it is for. *)
(* ProcInv ties the process to the job, and is enough for a manual stop.   *)
(* CoreInv says who still has to apply a part without reload API that the  *)
(* process does not have; UserInv says the same of each user, through the  *)
(* calls that push it and the restart that reads, compares and applies it. *)
(***************************************************************************)
EXTENDS XrayRuntime, TLAPS

ConfigInv == /\ wanted \in Config /\ conf \in Config /\ live \in Config
             /\ wanted.core =< edits
FlagInv == /\ proc \in {"down", "starting", "up"}
           /\ stopped \in BOOLEAN /\ need \in BOOLEAN /\ owed \in BOOLEAN /\ missed \in BOOLEAN
           /\ saving \in {"no", "flag", "template"}
           /\ checks \in 0 .. 1
JobType == [who : Callers \cup {"none"}, cfg : Config, remove : SUBSET Users, add : SUBSET Users,
            step : {"free", "config", "decide", "apply", "stop", "start", "refresh"}]
JobInv == /\ at \in [Callers -> {"idle", "wait", "hold"}]
          /\ job \in JobType
          /\ job.step # "free" => job.who \in Callers /\ at[job.who] = "hold"
          /\ owed => at["traffic"] # "idle"
CallType == [step : {"idle", "remove", "add", "done"}, new : 0 .. Creds, failed : BOOLEAN]
CallInv == /\ call \in [Users -> CallType]
           /\ \A u \in Users : call[u].step = "idle" => ~call[u].failed
LogInv == touched \in SUBSET Users /\ raced \in SUBSET Users /\ flaked \in SUBSET Users
CountInv == edits \in 0 .. MaxEdits /\ faults \in 0 .. MaxFaults /\ orders \in 0 .. MaxOrders
TypeInv == ConfigInv /\ FlagInv /\ JobInv /\ CallInv /\ LogInv /\ CountInv

-----------------------------------------------------------------------------
(* Configurations.                                                           *)

LEMMA NothingIsConfig == Nothing \in Config /\ Nothing.core = 0 /\ \A u \in Users : Nothing.users[u] = 0
BY BoundsAssumption DEF Nothing, Config

LEMMA UserUpdate ==
    ASSUME NEW c \in Config, NEW u \in Users, NEW v \in 0 .. Creds
    PROVE  LET d == [c EXCEPT !.users[u] = v]
           IN  /\ d \in Config /\ d.core = c.core
               /\ d.users[u] = v
               /\ \A w \in Users : w # u => d.users[w] = c.users[w]
BY DEF Config

LEMMA CoreUpdate ==
    ASSUME NEW c \in Config, NEW n \in 0 .. MaxEdits
    PROVE  LET d == [c EXCEPT !.core = n]
           IN  d \in Config /\ d.core = n /\ d.users = c.users
BY DEF Config

LEMMA FreeIsJob == Free \in JobType /\ Free.step = "free"
BY NothingIsConfig DEF Free, JobType

LEMMA CredFacts == 0 \in 0 .. Creds /\ \A c \in Config, u \in Users : c.users[u] \in 0 .. Creds
BY BoundsAssumption DEF Config

-----------------------------------------------------------------------------
(* Types: one lemma per action.                                              *)

LEMMA TypeInvTypeOK == TypeInv => TypeOK
BY DEF TypeInv, ConfigInv, FlagInv, JobInv, CallInv, LogInv, CountInv, TypeOK,
   JobType, CallType

LEMMA CoreBound == TypeInv => wanted.core =< edits + 1
<1> SUFFICES ASSUME TypeInv
             PROVE  wanted.core =< edits + 1
  OBVIOUS
<1>1. wanted.core \in 0 .. MaxEdits /\ wanted.core =< edits /\ edits \in 0 .. MaxEdits
  BY DEF TypeInv, ConfigInv, CountInv, Config
<1> QED BY <1>1

LEMMA AnswerType ==
    ASSUME TypeInv, NEW u \in Users, NEW ok \in BOOLEAN, Answer(u, ok)
    PROVE  faults' \in 0 .. MaxFaults /\ flaked' \in SUBSET Users
BY BoundsAssumption DEF TypeInv, LogInv, CountInv, Answer

LEMMA ReturnType ==
    ASSUME TypeInv, NEW ok \in BOOLEAN, Return(ok)
    PROVE  JobInv' /\ need' \in BOOLEAN /\ owed' \in BOOLEAN
<1>1. job' \in JobType /\ job'.step = "free"
  BY FreeIsJob DEF Return
<1>2. at' \in [Callers -> {"idle", "wait", "hold"}]
  BY DEF TypeInv, JobInv, Return
<1>3. need' \in BOOLEAN /\ owed' \in BOOLEAN
  BY DEF Return, Flag
<1>4. owed' => at'["traffic"] # "idle"
  BY DEF TypeInv, JobInv, Return, Flag, Callers
<1> QED BY <1>1, <1>2, <1>3, <1>4 DEF JobInv

LEMMA DisableType ==
    ASSUME TypeInv, NEW u \in Users, NEW ok \in BOOLEAN, NEW heard \in BOOLEAN,
           Disable(u, ok, heard)
    PROVE  /\ wanted' \in Config /\ wanted'.core = wanted.core
           /\ live' \in Config /\ live'.core = live.core
           /\ edits' = edits + 1 /\ edits' \in 0 .. MaxEdits
           /\ faults' \in 0 .. MaxFaults
           /\ raced' \in SUBSET Users /\ flaked' \in SUBSET Users
<1>1. wanted' \in Config /\ wanted'.core = wanted.core
  BY UserUpdate, CredFacts DEF TypeInv, ConfigInv, Disable
<1>2. live' \in Config /\ live'.core = live.core
  BY UserUpdate, CredFacts DEF TypeInv, ConfigInv, Disable
<1>3. edits' = edits + 1 /\ edits' \in 0 .. MaxEdits
  BY BoundsAssumption DEF TypeInv, CountInv, Disable
<1>4. faults' \in 0 .. MaxFaults /\ flaked' \in SUBSET Users
  BY AnswerType DEF Disable
<1>5. raced' \in SUBSET Users
  BY DEF TypeInv, LogInv, Disable
<1> QED BY <1>1, <1>2, <1>3, <1>4, <1>5

LEMMA TypeEdit ==
    ASSUME TypeInv, NEW u \in Users, NEW v \in 0 .. Creds, Edit(u, v)
    PROVE  TypeInv'
<1>1. ConfigInv' /\ CountInv'
  <2>1. wanted' \in Config /\ wanted'.core = wanted.core
    BY UserUpdate DEF TypeInv, ConfigInv, Edit
  <2>2. edits' \in 0 .. MaxEdits
    BY BoundsAssumption DEF TypeInv, CountInv, Edit
  <2> QED BY <2>1, <2>2, CoreBound DEF TypeInv, ConfigInv, CountInv, Edit, runVars
<1>2. FlagInv' /\ JobInv'
  BY DEF TypeInv, FlagInv, JobInv, Edit, runVars, jobVars
<1>3. CallInv' /\ LogInv'
  BY DEF TypeInv, CallInv, CallType, LogInv, Edit, Touch
<1> QED BY <1>1, <1>2, <1>3 DEF TypeInv

LEMMA TypePushRemove ==
    ASSUME TypeInv, NEW u \in Users, PushRemove(u)
    PROVE  TypeInv'
<1> PICK ok \in BOOLEAN : PushRemove(u)!2!(ok)
  BY DEF PushRemove
<1>1. call[u].new \in 0 .. Creds /\ call \in [Users -> CallType]
  BY DEF TypeInv, CallInv, CallType
<1>2. ConfigInv'
  BY UserUpdate, CredFacts DEF TypeInv, ConfigInv, PushRemove
<1>3. CountInv' /\ LogInv'
  BY AnswerType DEF TypeInv, CountInv, LogInv, PushRemove
<1>4. FlagInv' /\ JobInv'
  BY DEF TypeInv, FlagInv, JobInv, PushRemove, jobVars
<1>5. PICK step \in {"add", "done"}, failed \in BOOLEAN :
          call' = [call EXCEPT ![u] = [@ EXCEPT !.step = step, !.failed = failed]]
  <2>1. PICK failed \in BOOLEAN : failed <=> call[u].failed \/ ~ok
    OBVIOUS
  <2>2. PICK step \in {"add", "done"} : step = IF call[u].new # 0 THEN "add" ELSE "done"
    OBVIOUS
  <2>3. (call[u].failed \/ ~ok) = failed
    BY <2>1, <1>1 DEF CallType
  <2>4. call' = [call EXCEPT ![u] = [@ EXCEPT !.step = step, !.failed = failed]]
    BY <1>1, <2>2, <2>3
  <2> QED BY <2>4
<1>6. [call[u] EXCEPT !.step = step, !.failed = failed] \in CallType /\ step # "idle"
  BY <1>1 DEF CallType
<1>7. CallInv'
  <2>1. call' \in [Users -> CallType]
    BY <1>1, <1>5, <1>6
  <2>2. \A v \in Users : call'[v].step = "idle" => ~call'[v].failed
    <3> SUFFICES ASSUME NEW v \in Users, call'[v].step = "idle"  PROVE  ~call'[v].failed
      OBVIOUS
    <3>1. CASE v = u
      BY <1>1, <1>5, <1>6, <3>1 DEF CallType
    <3>2. CASE v # u
      BY <1>1, <1>5, <3>2 DEF TypeInv, CallInv
    <3> QED BY <3>1, <3>2
  <2> QED BY <2>1, <2>2 DEF CallInv
<1> QED BY <1>2, <1>3, <1>4, <1>7 DEF TypeInv

LEMMA TypePushAdd ==
    ASSUME TypeInv, NEW u \in Users, PushAdd(u)
    PROVE  TypeInv'
<1> PICK ok \in BOOLEAN : PushAdd(u)!2!(ok)
  BY DEF PushAdd
<1>1. call[u].new \in 0 .. Creds /\ call \in [Users -> CallType]
  BY DEF TypeInv, CallInv, CallType
<1>2. ConfigInv'
  BY <1>1, UserUpdate DEF TypeInv, ConfigInv, PushAdd
<1>3. CountInv' /\ LogInv'
  BY AnswerType DEF TypeInv, CountInv, LogInv, PushAdd
<1>4. FlagInv' /\ JobInv'
  BY DEF TypeInv, FlagInv, JobInv, PushAdd, jobVars
<1>5. CallInv'
  BY ZenonT(60), <1>1 DEF TypeInv, CallInv, CallType, PushAdd
<1> QED BY <1>2, <1>3, <1>4, <1>5 DEF TypeInv

LEMMA TypeFinish ==
    ASSUME TypeInv, NEW u \in Users, Finish(u)
    PROVE  TypeInv'
BY BoundsAssumption DEF TypeInv, ConfigInv, FlagInv, JobInv, CallInv, LogInv,
   CountInv, CallType, runVars, jobVars, logVars, Finish, NoCall

LEMMA TypeSave ==
    ASSUME TypeInv, NEW next \in {"flag", "template"}, Save(next)
    PROVE  TypeInv'
<1>1. ConfigInv' /\ CountInv'
  <2>1. wanted.core + 1 \in 0 .. MaxEdits
    BY BoundsAssumption DEF TypeInv, ConfigInv, CountInv, Config, Save
  <2>2. wanted' \in Config /\ wanted'.core = wanted.core + 1
    BY <2>1, CoreUpdate DEF TypeInv, ConfigInv, Save
  <2> QED BY BoundsAssumption DEF TypeInv, ConfigInv, CountInv, Config, Save,
     runVars
<1>2. FlagInv' /\ JobInv' /\ CallInv' /\ LogInv'
  BY DEF TypeInv, FlagInv, JobInv, CallInv, LogInv, Save, runVars, jobVars, logVars
<1> QED BY <1>1, <1>2 DEF TypeInv

LEMMA TypeSetToNeedRestart ==
    ASSUME TypeInv, SetToNeedRestart
    PROVE  TypeInv'
BY DEF TypeInv, ConfigInv, FlagInv, JobInv, CallInv, LogInv, CountInv, runVars,
   jobVars, logVars, SetToNeedRestart

LEMMA TypeApplyTemplate ==
    ASSUME TypeInv, ApplyTemplate
    PROVE  TypeInv'
<1>1. at' \in [Callers -> {"idle", "wait", "hold"}]
  BY DEF TypeInv, JobInv, ApplyTemplate, Ask
<1>2. JobInv'
  BY DEF TypeInv, JobInv, ApplyTemplate, Ask, Callers
<1>3. FlagInv' /\ CountInv'
  BY DEF TypeInv, FlagInv, CountInv, ApplyTemplate, runVars
<1>4. ConfigInv' /\ CallInv' /\ LogInv'
  BY DEF TypeInv, ConfigInv, CallInv, LogInv, ApplyTemplate, runVars
<1> QED BY <1>2, <1>3, <1>4 DEF TypeInv

LEMMA TypePoll ==
    ASSUME TypeInv, NEW c \in {"traffic", "nodes"}, NEW u \in Users, Poll(c, u)
    PROVE  TypeInv'
<1> PICK ok \in BOOLEAN, restart \in BOOLEAN : Poll(c, u)!3!(ok, restart)
  BY DEF Poll
<1>1. Disable(u, ok, c = "traffic")
  OBVIOUS
<1>2. ConfigInv' /\ CountInv'
  BY DisableType, CoreBound DEF TypeInv, ConfigInv, CountInv, Poll
<1>3. LogInv'
  BY DisableType DEF TypeInv, LogInv, Poll, Touch
<1>4. FlagInv' /\ CallInv'
  BY DEF TypeInv, FlagInv, CallInv, Poll
<1>5. JobInv'
  BY DEF TypeInv, JobInv, Poll, Callers
<1> QED BY <1>2, <1>3, <1>4, <1>5 DEF TypeInv

LEMMA TypeApplyPendingRestart ==
    ASSUME TypeInv, ApplyPendingRestart
    PROVE  TypeInv'
<1>1. at' \in [Callers -> {"idle", "wait", "hold"}]
  BY DEF TypeInv, JobInv, ApplyPendingRestart, Ask
<1>2. JobInv'
  BY <1>1 DEF TypeInv, JobInv, ApplyPendingRestart, Ask
<1>3. FlagInv' /\ CountInv'
  BY DEF TypeInv, FlagInv, CountInv, ApplyPendingRestart, dbVars, runVars, logVars
<1>4. ConfigInv' /\ CallInv' /\ LogInv'
  BY DEF TypeInv, ConfigInv, CallInv, LogInv, ApplyPendingRestart, dbVars, runVars,
     logVars
<1> QED BY <1>2, <1>3, <1>4 DEF TypeInv

LEMMA TypeCheckXrayRunning ==
    ASSUME TypeInv, CheckXrayRunning
    PROVE  TypeInv'
<1>1. at' \in [Callers -> {"idle", "wait", "hold"}]
  BY DEF TypeInv, JobInv, CheckXrayRunning, Ask
<1>2. JobInv'
  BY DEF TypeInv, JobInv, CheckXrayRunning, Ask, Callers
<1>3. FlagInv' /\ CountInv'
  BY DEF TypeInv, FlagInv, CountInv, CheckXrayRunning, dbVars, runVars, logVars
<1>4. ConfigInv' /\ CallInv' /\ LogInv'
  BY DEF TypeInv, ConfigInv, CallInv, LogInv, CheckXrayRunning, dbVars, runVars,
     logVars
<1> QED BY <1>2, <1>3, <1>4 DEF TypeInv

LEMMA TypeOrderRestart ==
    ASSUME TypeInv, NEW c \in Callers, OrderRestart(c)
    PROVE  TypeInv'
<1>1. at' \in [Callers -> {"idle", "wait", "hold"}]
  BY DEF TypeInv, JobInv, OrderRestart, Ask
<1>2. JobInv'
  BY DEF TypeInv, JobInv, OrderRestart, Ask
<1>3. FlagInv' /\ CountInv'
  BY BoundsAssumption DEF TypeInv, FlagInv, CountInv, OrderRestart, dbVars, runVars,
     logVars
<1>4. ConfigInv' /\ CallInv' /\ LogInv'
  BY DEF TypeInv, ConfigInv, CallInv, LogInv, OrderRestart, dbVars, runVars, logVars
<1> QED BY <1>2, <1>3, <1>4 DEF TypeInv

LEMMA TypeStopXray ==
    ASSUME TypeInv, StopXray
    PROVE  TypeInv'
BY BoundsAssumption DEF TypeInv, ConfigInv, FlagInv, JobInv, CallInv, LogInv,
   CountInv, dbVars, jobVars, logVars, Config, StopXray, Nothing

LEMMA TypeLock ==
    ASSUME TypeInv, NEW c \in Callers, Lock(c)
    PROVE  TypeInv'
<1>1. job' \in JobType
  BY FreeIsJob DEF JobType, Lock
<1>2. JobInv'
  <2>1. CASE stopped /\ c \notin Forced
    BY ZenonT(60), <2>1, <1>1, FreeIsJob DEF TypeInv, JobInv, Lock, Flag, Callers
  <2>2. CASE ~(stopped /\ c \notin Forced)
    <3>1. at' = [at EXCEPT ![c] = "hold"] /\ job'.who = c /\ owed' = owed
      BY <2>2 DEF Lock, Free
    <3> QED BY <3>1, <1>1 DEF TypeInv, JobInv
  <2> QED BY <2>1, <2>2
<1>3. FlagInv'
  BY DEF TypeInv, FlagInv, Lock, Flag, dbVars, runVars, logVars
<1>4. ConfigInv' /\ CallInv' /\ LogInv' /\ CountInv'
  BY DEF TypeInv, ConfigInv, CallInv, LogInv, CountInv, Lock, dbVars, runVars,
     logVars
<1> QED BY <1>2, <1>3, <1>4 DEF TypeInv

LEMMA TypeGetXrayConfig ==
    ASSUME TypeInv, GetXrayConfig
    PROVE  TypeInv'
<1>1. wanted' \in Config /\ wanted'.core =< edits' /\ live' \in Config /\ edits' \in 0 .. MaxEdits
      /\ faults' \in 0 .. MaxFaults /\ raced' \in SUBSET Users /\ flaked' \in SUBSET Users
  <2>1. CASE UNCHANGED <<wanted, edits, live, raced, faults, flaked>>
    BY <2>1 DEF TypeInv, ConfigInv, CountInv, LogInv
  <2>2. ASSUME NEW u \in Users, NEW ok \in BOOLEAN, Disable(u, ok, FALSE)
        PROVE  <1>1!:
    BY <2>2, DisableType, CoreBound
  <2> QED BY <2>1, <2>2 DEF GetXrayConfig
<1>2. job' \in JobType
  BY <1>1 DEF TypeInv, JobInv, JobType, GetXrayConfig
<1>3. JobInv'
  BY <1>2 DEF TypeInv, JobInv, GetXrayConfig
<1>4. ConfigInv' /\ LogInv' /\ CountInv'
  BY <1>1 DEF TypeInv, ConfigInv, LogInv, CountInv, GetXrayConfig
<1>5. FlagInv' /\ CallInv'
  BY DEF TypeInv, FlagInv, CallInv, GetXrayConfig
<1> QED BY <1>3, <1>4, <1>5 DEF TypeInv

LEMMA TypeConfigFails ==
    ASSUME TypeInv, ConfigFails
    PROVE  TypeInv'
<1>1. JobInv' /\ need' \in BOOLEAN /\ owed' \in BOOLEAN
  BY ReturnType DEF ConfigFails
<1>2. ConfigInv' /\ CallInv' /\ CountInv'
  BY BoundsAssumption DEF TypeInv, ConfigInv, CallInv, CountInv, ConfigFails,
     dbVars, runVars
<1>3. LogInv'
  BY DEF TypeInv, LogInv, ConfigFails
<1>4. FlagInv'
  BY <1>1 DEF TypeInv, FlagInv, ConfigFails, dbVars, runVars
<1> QED BY <1>1, <1>2, <1>3, <1>4 DEF TypeInv

LEMMA TypeNothingToDo ==
    ASSUME TypeInv, NothingToDo
    PROVE  TypeInv'
<1>1. JobInv' /\ need' \in BOOLEAN /\ owed' \in BOOLEAN
  BY ReturnType DEF NothingToDo
<1>2. ConfigInv' /\ CallInv' /\ CountInv'
  BY DEF TypeInv, ConfigInv, CallInv, CountInv, NothingToDo, dbVars, runVars
<1>3. LogInv'
  BY DEF TypeInv, LogInv, NothingToDo, logVars
<1>4. FlagInv'
  BY <1>1 DEF TypeInv, FlagInv, NothingToDo, dbVars, runVars, logVars
<1> QED BY <1>1, <1>2, <1>3, <1>4 DEF TypeInv

LEMMA TypeTryHotApply ==
    ASSUME TypeInv, TryHotApply
    PROVE  TypeInv'
BY BoundsAssumption DEF TypeInv, ConfigInv, FlagInv, JobInv, CallInv, LogInv,
   CountInv, JobType, CallType, dbVars, runVars, jobVars, logVars, Callers, Config,
   TryHotApply, RemovedUsers, AddedUsers

LEMMA TypeFullRestart ==
    ASSUME TypeInv, FullRestart
    PROVE  TypeInv'
BY DEF TypeInv, ConfigInv, FlagInv, JobInv, CallInv, LogInv, CountInv, JobType,
   dbVars, runVars, logVars, FullRestart

LEMMA TypeHotRemove ==
    ASSUME TypeInv, NEW u \in Users, HotRemove(u)
    PROVE  TypeInv'
<1>1. ConfigInv'
  BY UserUpdate, CredFacts DEF TypeInv, ConfigInv, HotRemove, dbVars
<1>2. job' \in JobType
  BY DEF TypeInv, JobInv, JobType, HotRemove
<1>3. JobInv'
  BY <1>2 DEF TypeInv, JobInv, HotRemove
<1>4. FlagInv' /\ CallInv' /\ LogInv' /\ CountInv'
  BY DEF TypeInv, FlagInv, CallInv, LogInv, CountInv, HotRemove, dbVars, logVars
<1> QED BY <1>1, <1>3, <1>4 DEF TypeInv

LEMMA TypeHotAdd ==
    ASSUME TypeInv, NEW u \in Users, HotAdd(u)
    PROVE  TypeInv'
<1>1. ConfigInv'
  BY UserUpdate, CredFacts DEF TypeInv, ConfigInv, JobInv, JobType, HotAdd, dbVars
<1>2. job' \in JobType
  BY DEF TypeInv, JobInv, JobType, HotAdd
<1>3. JobInv'
  BY <1>2 DEF TypeInv, JobInv, HotAdd
<1>4. FlagInv' /\ CallInv' /\ LogInv' /\ CountInv'
  BY DEF TypeInv, FlagInv, CallInv, LogInv, CountInv, HotAdd, dbVars, logVars
<1> QED BY <1>1, <1>3, <1>4 DEF TypeInv

LEMMA TypeHotFails ==
    ASSUME TypeInv, HotFails
    PROVE  TypeInv'
BY BoundsAssumption DEF TypeInv, ConfigInv, FlagInv, JobInv, CallInv, LogInv,
   CountInv, JobType, dbVars, runVars, logVars, HotFails

LEMMA TypeHotDone ==
    ASSUME TypeInv, HotDone
    PROVE  TypeInv'
<1>1. JobInv' /\ need' \in BOOLEAN /\ owed' \in BOOLEAN
  BY ReturnType DEF HotDone
<1>2. ConfigInv' /\ CallInv' /\ CountInv'
  BY DEF TypeInv, ConfigInv, CallInv, CountInv, JobInv, JobType, HotDone, dbVars
<1>3. LogInv'
  BY DEF TypeInv, LogInv, HotDone, Applied
<1>4. FlagInv'
  BY <1>1 DEF TypeInv, FlagInv, HotDone, dbVars
<1> QED BY <1>1, <1>2, <1>3, <1>4 DEF TypeInv

LEMMA TypeStop ==
    ASSUME TypeInv, Stop
    PROVE  TypeInv'
<1>1. job' \in JobType
  BY DEF TypeInv, JobInv, JobType, Stop
<1>2. JobInv'
  BY <1>1 DEF TypeInv, JobInv, Stop
<1>3. ConfigInv'
  BY NothingIsConfig DEF TypeInv, ConfigInv, Stop, dbVars
<1>4. FlagInv' /\ CallInv' /\ CountInv'
  BY DEF TypeInv, FlagInv, CallInv, CountInv, Stop, dbVars, logVars
<1>5. LogInv'
  BY DEF TypeInv, LogInv, Stop, logVars
<1> QED BY <1>2, <1>3, <1>4, <1>5 DEF TypeInv

LEMMA TypeStart ==
    ASSUME TypeInv, Start
    PROVE  TypeInv'
<1>1. job' \in JobType
  BY DEF TypeInv, JobInv, JobType, Start
<1>2. JobInv'
  BY <1>1 DEF TypeInv, JobInv, Start
<1>3. ConfigInv'
  BY DEF TypeInv, ConfigInv, JobInv, JobType, Start, dbVars
<1>4. FlagInv' /\ CallInv' /\ CountInv'
  BY DEF TypeInv, FlagInv, CallInv, CountInv, Start, dbVars
<1>5. LogInv'
  BY DEF TypeInv, LogInv, Start, Applied
<1> QED BY <1>2, <1>3, <1>4, <1>5 DEF TypeInv

LEMMA TypeStartFails ==
    ASSUME TypeInv, StartFails
    PROVE  TypeInv'
<1>1. JobInv' /\ need' \in BOOLEAN /\ owed' \in BOOLEAN
  BY ReturnType DEF StartFails
<1>2. ConfigInv' /\ CallInv' /\ CountInv'
  BY BoundsAssumption DEF TypeInv, ConfigInv, CallInv, CountInv, JobInv, JobType,
     StartFails, dbVars
<1>3. LogInv'
  BY DEF TypeInv, LogInv, StartFails, logVars
<1>4. FlagInv'
  BY <1>1 DEF TypeInv, FlagInv, StartFails, dbVars, logVars
<1> QED BY <1>1, <1>2, <1>3, <1>4 DEF TypeInv

LEMMA TypeRefreshAPIPort ==
    ASSUME TypeInv, RefreshAPIPort
    PROVE  TypeInv'
<1>1. JobInv' /\ need' \in BOOLEAN /\ owed' \in BOOLEAN
  BY ReturnType DEF RefreshAPIPort
<1>2. ConfigInv' /\ CallInv' /\ CountInv'
  BY DEF TypeInv, ConfigInv, CallInv, CountInv, RefreshAPIPort, dbVars
<1>3. LogInv'
  BY DEF TypeInv, LogInv, RefreshAPIPort, logVars
<1>4. FlagInv'
  BY <1>1 DEF TypeInv, FlagInv, RefreshAPIPort, dbVars, logVars
<1> QED BY <1>1, <1>2, <1>3, <1>4 DEF TypeInv

LEMMA TypeCrash ==
    ASSUME TypeInv, Crash
    PROVE  TypeInv'
BY BoundsAssumption DEF TypeInv, ConfigInv, FlagInv, JobInv, CallInv, LogInv,
   CountInv, dbVars, jobVars, logVars, Config, Crash, Nothing

LEMMA TypeInit == Init => TypeInv
<1> SUFFICES ASSUME Init
             PROVE  TypeInv
  OBVIOUS
<1>1. wanted \in Config /\ wanted.core = 0
  <2>1. {0, 1} \subseteq 0 .. Creds /\ {0} \subseteq 0 .. MaxEdits
    BY BoundsAssumption
  <2> QED BY <2>1 DEF Init, Config
<1>2. ConfigInv
  BY <1>1 DEF Init, ConfigInv
<1>3. FlagInv /\ LogInv /\ CountInv
  <2>1. FlagInv
    <3>1. proc \in {"down", "starting", "up"} /\ saving \in {"no", "flag", "template"} /\ checks \in 0 .. 1
      BY DEF Init
    <3>2. stopped \in BOOLEAN /\ need \in BOOLEAN /\ owed \in BOOLEAN /\ missed \in BOOLEAN
      BY DEF Init
    <3> QED BY <3>1, <3>2 DEF FlagInv
  <2>2. LogInv /\ CountInv
    BY BoundsAssumption DEF Init, LogInv, CountInv
  <2> QED BY <2>1, <2>2
<1>4. JobInv
  BY FreeIsJob DEF Init, JobInv
<1>5. CallInv
  BY BoundsAssumption DEF Init, CallInv, CallType, NoCall
<1> QED BY <1>2, <1>3, <1>4, <1>5 DEF TypeInv

LEMMA TypeNext ==
    ASSUME TypeInv, [Next]_vars
    PROVE  TypeInv'
<1>1. ASSUME NEW u \in Users, NEW v \in 0 .. Creds, Edit(u, v)  PROVE  TypeInv'
  BY <1>1, TypeEdit
<1>2. ASSUME NEW u \in Users, PushRemove(u)  PROVE  TypeInv'
  BY <1>2, TypePushRemove
<1>3. ASSUME NEW u \in Users, PushAdd(u)  PROVE  TypeInv'
  BY <1>3, TypePushAdd
<1>4. ASSUME NEW u \in Users, Finish(u)  PROVE  TypeInv'
  BY <1>4, TypeFinish
<1>5. ASSUME NEW c \in {"traffic", "nodes"}, NEW u \in Users, Poll(c, u)  PROVE  TypeInv'
  BY <1>5, TypePoll
<1>6. ASSUME NEW next \in {"flag", "template"}, Save(next)  PROVE  TypeInv'
  BY <1>6, TypeSave
<1>7. ASSUME SetToNeedRestart  PROVE  TypeInv'
  BY <1>7, TypeSetToNeedRestart
<1>8. ASSUME ApplyTemplate  PROVE  TypeInv'
  BY <1>8, TypeApplyTemplate
<1>9. ASSUME ApplyPendingRestart  PROVE  TypeInv'
  BY <1>9, TypeApplyPendingRestart
<1>10. ASSUME CheckXrayRunning  PROVE  TypeInv'
  BY <1>10, TypeCheckXrayRunning
<1>11. ASSUME StopXray  PROVE  TypeInv'
  BY <1>11, TypeStopXray
<1>12. ASSUME NEW c \in Callers, OrderRestart(c)  PROVE  TypeInv'
  BY <1>12, TypeOrderRestart
<1>13. ASSUME NEW c \in Callers, Lock(c)  PROVE  TypeInv'
  BY <1>13, TypeLock
<1>14. ASSUME GetXrayConfig  PROVE  TypeInv'
  BY <1>14, TypeGetXrayConfig
<1>15. ASSUME ConfigFails  PROVE  TypeInv'
  BY <1>15, TypeConfigFails
<1>16. ASSUME NothingToDo  PROVE  TypeInv'
  BY <1>16, TypeNothingToDo
<1>17. ASSUME TryHotApply  PROVE  TypeInv'
  BY <1>17, TypeTryHotApply
<1>18. ASSUME FullRestart  PROVE  TypeInv'
  BY <1>18, TypeFullRestart
<1>19. ASSUME NEW u \in Users, HotRemove(u)  PROVE  TypeInv'
  BY <1>19, TypeHotRemove
<1>20. ASSUME NEW u \in Users, HotAdd(u)  PROVE  TypeInv'
  BY <1>20, TypeHotAdd
<1>21. ASSUME HotFails  PROVE  TypeInv'
  BY <1>21, TypeHotFails
<1>22. ASSUME HotDone  PROVE  TypeInv'
  BY <1>22, TypeHotDone
<1>23. ASSUME Stop  PROVE  TypeInv'
  BY <1>23, TypeStop
<1>24. ASSUME Start  PROVE  TypeInv'
  BY <1>24, TypeStart
<1>25. ASSUME StartFails  PROVE  TypeInv'
  BY <1>25, TypeStartFails
<1>26. ASSUME RefreshAPIPort  PROVE  TypeInv'
  BY <1>26, TypeRefreshAPIPort
<1>27. ASSUME Crash  PROVE  TypeInv'
  BY <1>27, TypeCrash
<1>28. ASSUME UNCHANGED vars  PROVE  TypeInv'
  BY <1>28 DEF TypeInv, ConfigInv, FlagInv, JobInv, CallInv, LogInv, CountInv, vars,
     dbVars, runVars, jobVars, logVars
<1> QED
  BY <1>1, <1>2, <1>3, <1>4, <1>5, <1>6, <1>7, <1>8, <1>9, <1>10, <1>11, <1>12,
     <1>13, <1>14, <1>15, <1>16, <1>17, <1>18, <1>19, <1>20, <1>21, <1>22, <1>23,
     <1>24, <1>25, <1>26, <1>27, <1>28 DEF Next, CallStep, RestartStep

(* Every variable keeps its type, and the lock is held by the caller whose   *)
(* job it is.                                                                *)
THEOREM TypeCorrect == Spec => []TypeOK
<1>1. Init => TypeInv
  BY TypeInit
<1>2. TypeInv /\ [Next]_vars => TypeInv'
  BY TypeNext
<1> QED BY <1>1, <1>2, TypeInvTypeOK, PTL DEF Spec

-----------------------------------------------------------------------------
(* A manual stop.                                                            *)

(* A stopped Xray has no process and no job; a process that starts runs what *)
(* it was given; the old one is down before the new one is started.          *)
ProcInv == /\ stopped => proc = "down" /\ job.step = "free"
           /\ proc = "starting" => job.step = "refresh" /\ live = conf
           /\ job.step = "start" => proc = "down"

LEMMA ProcNext ==
    ASSUME TypeInv, ProcInv, [Next]_vars
    PROVE  ProcInv'
<1>1. ASSUME NEW u \in Users, NEW v \in 0 .. Creds, Edit(u, v)  PROVE  ProcInv'
  BY <1>1 DEF ProcInv, runVars, jobVars, Edit
<1>2. ASSUME NEW u \in Users, PushRemove(u)  PROVE  ProcInv'
  BY <1>2 DEF ProcInv, jobVars, PushRemove, Answer, HasPort
<1>3. ASSUME NEW u \in Users, PushAdd(u)  PROVE  ProcInv'
  BY <1>3 DEF ProcInv, jobVars, PushAdd, Answer, HasPort
<1>4. ASSUME NEW u \in Users, Finish(u)  PROVE  ProcInv'
  BY <1>4 DEF ProcInv, runVars, jobVars, Finish
<1>5. ASSUME NEW c \in {"traffic", "nodes"}, NEW u \in Users, Poll(c, u)  PROVE  ProcInv'
  BY <1>5 DEF ProcInv, Poll, Disable, Answer, HasPort
<1>6. ASSUME NEW next \in {"flag", "template"}, Save(next)  PROVE  ProcInv'
  BY <1>6 DEF ProcInv, runVars, jobVars, Save
<1>7. ASSUME SetToNeedRestart  PROVE  ProcInv'
  BY <1>7 DEF ProcInv, runVars, jobVars, SetToNeedRestart
<1>8. ASSUME ApplyTemplate  PROVE  ProcInv'
  BY <1>8 DEF ProcInv, runVars, ApplyTemplate
<1>9. ASSUME ApplyPendingRestart  PROVE  ProcInv'
  BY <1>9 DEF ProcInv, runVars, ApplyPendingRestart
<1>10. ASSUME CheckXrayRunning  PROVE  ProcInv'
  BY <1>10 DEF ProcInv, runVars, CheckXrayRunning
<1>11. ASSUME StopXray  PROVE  ProcInv'
  BY <1>11 DEF ProcInv, jobVars, StopXray, Free
<1>12. ASSUME NEW c \in Callers, OrderRestart(c)  PROVE  ProcInv'
  BY <1>12 DEF ProcInv, runVars, OrderRestart
<1>13. ASSUME NEW c \in Callers, Lock(c)  PROVE  ProcInv'
  BY <1>13 DEF ProcInv, runVars, Lock, Free
<1>14. ASSUME GetXrayConfig  PROVE  ProcInv'
  BY <1>14 DEF ProcInv, GetXrayConfig
<1>15. ASSUME ConfigFails  PROVE  ProcInv'
  BY <1>15 DEF ProcInv, runVars, ConfigFails, Return, Free
<1>16. ASSUME NothingToDo  PROVE  ProcInv'
  BY <1>16 DEF ProcInv, runVars, NothingToDo, Return, Free
<1>17. ASSUME TryHotApply  PROVE  ProcInv'
  BY <1>17 DEF ProcInv, runVars, TryHotApply
<1>18. ASSUME FullRestart  PROVE  ProcInv'
  BY <1>18 DEF TypeInv, JobInv, JobType, ProcInv, Running, runVars, FullRestart
<1>19. ASSUME NEW u \in Users, HotRemove(u)  PROVE  ProcInv'
  BY <1>19 DEF ProcInv, HotRemove
<1>20. ASSUME NEW u \in Users, HotAdd(u)  PROVE  ProcInv'
  BY <1>20 DEF ProcInv, HotAdd
<1>21. ASSUME HotFails  PROVE  ProcInv'
  BY <1>21 DEF ProcInv, runVars, HotFails
<1>22. ASSUME HotDone  PROVE  ProcInv'
  BY <1>22 DEF ProcInv, HotDone, Return, Free
<1>23. ASSUME Stop  PROVE  ProcInv'
  BY <1>23 DEF ProcInv, Stop
<1>24. ASSUME Start  PROVE  ProcInv'
  BY <1>24 DEF ProcInv, Start
<1>25. ASSUME StartFails  PROVE  ProcInv'
  BY <1>25 DEF ProcInv, StartFails
<1>26. ASSUME RefreshAPIPort  PROVE  ProcInv'
  BY <1>26 DEF ProcInv, RefreshAPIPort, Return, Free
<1>27. ASSUME Crash  PROVE  ProcInv'
  BY <1>27 DEF ProcInv, Running, Crash
<1>28. ASSUME UNCHANGED vars  PROVE  ProcInv'
  BY <1>28 DEF ProcInv, vars, runVars, jobVars
<1> QED
  BY <1>1, <1>2, <1>3, <1>4, <1>5, <1>6, <1>7, <1>8, <1>9, <1>10, <1>11, <1>12,
     <1>13, <1>14, <1>15, <1>16, <1>17, <1>18, <1>19, <1>20, <1>21, <1>22, <1>23,
     <1>24, <1>25, <1>26, <1>27, <1>28 DEF Next, CallStep, RestartStep

(* A stopped Xray stays down, whichever of the pending restart, the crash    *)
(* check, the traffic job and saved settings waits for the lock, until a     *)
(* forced restart is given it: the operator's, or the node job's.            *)
THEOREM StopHoldsAlways == Spec => StopHolds
<1>1. Init => TypeInv /\ ProcInv
  BY TypeInit DEF Init, ProcInv, Free
<1>2. TypeInv /\ ProcInv /\ [Next]_vars => TypeInv' /\ ProcInv'
  BY TypeNext, ProcNext
<1>3. ProcInv => Down
  BY DEF ProcInv, Down, Running
<1>4. [Next]_vars => [stopped /\ ~stopped' => job'.who \in Forced]_vars
  <2> SUFFICES ASSUME Next, stopped, ~stopped'
               PROVE  job'.who \in Forced
    OBVIOUS
  <2>1. \E c \in Callers : Lock(c)
    BY DEF Next, CallStep, RestartStep, ApplyPendingRestart, ApplyTemplate,
       CheckXrayRunning, ConfigFails, Crash, Edit, Finish, FullRestart, GetXrayConfig,
       HotAdd, HotDone, HotFails, HotRemove, NothingToDo, OrderRestart, Poll, PushAdd,
       PushRemove, RefreshAPIPort, Save, SetToNeedRestart, Start, StartFails, Stop,
       StopXray, TryHotApply
  <2> QED BY <2>1 DEF Lock, Free
<1> QED BY <1>1, <1>2, <1>3, <1>4, PTL DEF Spec, StopHolds

-----------------------------------------------------------------------------
(* The part without reload API.                                              *)

(* Somebody still has to apply it, or it was missed.                         *)
AsksCore == \/ need \/ saving # "no" \/ missed
            \/ at["pending"] = "wait" \/ at["settings"] = "wait"
            \/ job.step = "config" /\ job.who \in {"pending", "settings"}
CoreInv ==
  /\ Running => conf.core = live.core
  /\ job.step \in {"decide", "apply", "stop", "start"} => job.cfg.core = wanted.core \/ AsksCore
  /\ job.step = "apply" => conf.core = job.cfg.core
  /\ Running /\ job.step \in {"free", "config", "refresh"} => live.core = wanted.core \/ AsksCore

LEMMA CoreNext ==
    ASSUME TypeInv, ProcInv, CoreInv, [Next]_vars
    PROVE  CoreInv'
<1>1. ASSUME NEW u \in Users, NEW v \in 0 .. Creds, Edit(u, v)  PROVE  CoreInv'
  BY <1>1 DEF CoreInv, AsksCore, Running, runVars, jobVars, Edit
<1>2. ASSUME NEW u \in Users, PushRemove(u)  PROVE  CoreInv'
  BY <1>2 DEF CoreInv, AsksCore, Running, jobVars, PushRemove
<1>3. ASSUME NEW u \in Users, PushAdd(u)  PROVE  CoreInv'
  BY <1>3 DEF CoreInv, AsksCore, Running, jobVars, PushAdd
<1>4. ASSUME NEW u \in Users, Finish(u)  PROVE  CoreInv'
  BY <1>4 DEF CoreInv, AsksCore, Running, runVars, jobVars, logVars, Finish
<1>5. ASSUME NEW c \in {"traffic", "nodes"}, NEW u \in Users, Poll(c, u)  PROVE  CoreInv'
  BY <1>5 DEF TypeInv, FlagInv, JobInv, CoreInv, AsksCore, Running, Callers, Poll,
     Disable
<1>6. ASSUME NEW next \in {"flag", "template"}, Save(next)  PROVE  CoreInv'
  BY <1>6 DEF CoreInv, AsksCore, Running, runVars, jobVars, Save
<1>7. ASSUME SetToNeedRestart  PROVE  CoreInv'
  BY <1>7 DEF CoreInv, AsksCore, Running, runVars, jobVars, SetToNeedRestart
<1>8. ASSUME ApplyTemplate  PROVE  CoreInv'
  BY <1>8 DEF TypeInv, JobInv, CoreInv, AsksCore, Running, Callers, runVars,
     ApplyTemplate, Ask, HasRead
<1>9. ASSUME ApplyPendingRestart  PROVE  CoreInv'
  BY <1>9 DEF TypeInv, JobInv, CoreInv, AsksCore, Running, Callers, runVars,
     ApplyPendingRestart, Ask
<1>10. ASSUME CheckXrayRunning  PROVE  CoreInv'
  BY <1>10 DEF TypeInv, JobInv, CoreInv, AsksCore, Running, Callers, dbVars,
     runVars, logVars, CheckXrayRunning, Ask
<1>11. ASSUME StopXray  PROVE  CoreInv'
  BY <1>11 DEF CoreInv, AsksCore, Running, dbVars, jobVars, logVars, StopXray
<1>12. ASSUME NEW c \in Callers, OrderRestart(c)  PROVE  CoreInv'
  BY <1>12 DEF CoreInv, AsksCore, Running, dbVars, runVars, logVars, OrderRestart,
     Ask
<1>13. ASSUME NEW c \in Callers, Lock(c)  PROVE  CoreInv'
  <2>1. CASE stopped /\ c \notin Forced
    BY <1>13, <2>1 DEF Lock, ProcInv, CoreInv, Running, runVars
  <2>2. CASE ~(stopped /\ c \notin Forced)
    <3>1. at' = [at EXCEPT ![c] = "hold"] /\ job'.who = c /\ job'.step = "config" /\ at[c] = "wait"
      BY <1>13, <2>2 DEF Lock, Free
    <3>2. AsksCore => AsksCore'
      BY <1>13, <3>1 DEF Lock, Free, AsksCore, TypeInv, JobInv, Callers, dbVars,
         logVars
    <3> QED BY <1>13, <3>2 DEF Lock, Free, CoreInv, Running, dbVars, runVars
  <2> QED BY <2>1, <2>2
<1>14. ASSUME GetXrayConfig  PROVE  CoreInv'
  BY <1>14 DEF TypeInv, ConfigInv, Config, CoreInv, Running, GetXrayConfig, Disable
<1>15. ASSUME ConfigFails  PROVE  CoreInv'
  <2>1. AsksCore => AsksCore'
    <3>1. at' = [at EXCEPT ![job.who] = "idle"] /\ at[job.who] = "hold"
      BY <1>15 DEF ConfigFails, Return, TypeInv, JobInv
    <3>2. need' = (need \/ job.who \in Rearming \/ (owed /\ job.who = "traffic"))
      BY <1>15 DEF ConfigFails, Return, Flag
    <3> QED BY <1>15, <3>1, <3>2 DEF ConfigFails, AsksCore, Rearming, TypeInv,
       JobInv, Callers, dbVars
  <2>2. job.step = "config" /\ job'.step = "free"
    BY <1>15 DEF ConfigFails, Return, Free
  <2> QED BY <1>15, <2>1, <2>2 DEF ConfigFails, CoreInv, Running, dbVars, runVars
<1>16. ASSUME NothingToDo  PROVE  CoreInv'
  BY <1>16 DEF TypeInv, JobInv, CoreInv, AsksCore, dbVars, runVars, logVars,
     NothingToDo, Return, Free
<1>17. ASSUME TryHotApply  PROVE  CoreInv'
  BY <1>17 DEF CoreInv, AsksCore, dbVars, runVars, logVars, TryHotApply,
     HotApplicable
<1>18. ASSUME FullRestart  PROVE  CoreInv'
  BY <1>18 DEF TypeInv, JobInv, JobType, CoreInv, AsksCore, Running, dbVars,
     runVars, logVars, FullRestart
<1>19. ASSUME NEW u \in Users, HotRemove(u)  PROVE  CoreInv'
  BY <1>19 DEF CoreInv, AsksCore, Running, dbVars, logVars, HotRemove
<1>20. ASSUME NEW u \in Users, HotAdd(u)  PROVE  CoreInv'
  BY <1>20 DEF CoreInv, AsksCore, Running, dbVars, logVars, HotAdd
<1>21. ASSUME HotFails  PROVE  CoreInv'
  BY <1>21 DEF CoreInv, AsksCore, Running, dbVars, runVars, logVars, HotFails
<1>22. ASSUME HotDone  PROVE  CoreInv'
  BY <1>22 DEF TypeInv, JobInv, CoreInv, AsksCore, Running, Callers, dbVars,
     HotDone, Return, Flag, Free
<1>23. ASSUME Stop  PROVE  CoreInv'
  BY <1>23 DEF CoreInv, AsksCore, Running, dbVars, logVars, Stop
<1>24. ASSUME Start  PROVE  CoreInv'
  BY <1>24 DEF TypeInv, FlagInv, CoreInv, AsksCore, dbVars, Start
<1>25. ASSUME StartFails  PROVE  CoreInv'
  BY <1>25 DEF ProcInv, CoreInv, Running, StartFails, Return, Free
<1>26. ASSUME RefreshAPIPort  PROVE  CoreInv'
  BY <1>26 DEF TypeInv, JobInv, CoreInv, AsksCore, Running, Callers, dbVars,
     logVars, RefreshAPIPort, Return, Flag, Free
<1>27. ASSUME Crash  PROVE  CoreInv'
  BY <1>27 DEF CoreInv, AsksCore, Running, dbVars, jobVars, logVars, Crash
<1>28. ASSUME UNCHANGED vars  PROVE  CoreInv'
  BY <1>28 DEF CoreInv, AsksCore, Running, vars, dbVars, runVars, jobVars, logVars
<1> QED
  BY <1>1, <1>2, <1>3, <1>4, <1>5, <1>6, <1>7, <1>8, <1>9, <1>10, <1>11, <1>12,
     <1>13, <1>14, <1>15, <1>16, <1>17, <1>18, <1>19, <1>20, <1>21, <1>22, <1>23,
     <1>24, <1>25, <1>26, <1>27, <1>28 DEF Next, CallStep, RestartStep

(* What was saved is applied once nothing is in progress: whenever the       *)
(* process lacks it, a save's answer, the flag, the pending restart or the   *)
(* settings' own still has to come.                                          *)
THEOREM TemplateAppliedAlways == Spec => []TemplateApplied
<1>1. Init => TypeInv /\ ProcInv /\ CoreInv
  BY TypeInit DEF Init, ProcInv, CoreInv, Free
<1>2. TypeInv /\ ProcInv /\ CoreInv /\ [Next]_vars => TypeInv' /\ ProcInv' /\ CoreInv'
  BY TypeNext, ProcNext, CoreNext
<1>3. CoreInv => TemplateApplied
  BY DEF CoreInv, AsksCore, TemplateApplied, Settled, Free, Running, Callers
<1> QED BY <1>1, <1>2, <1>3, PTL DEF Spec

-----------------------------------------------------------------------------
(* Users.                                                                    *)

(* The flag is set, or a caller is on its way that will look.                *)
Asks == need \/ owed \/ at["pending"] = "wait" \/ (job.step = "config" /\ job.who = "pending")

(* A commit since the read is known, and so is a call that the read cut.     *)
Known(u) ==
  /\ HasRead /\ call[u].step # "idle" => u \in touched
  /\ HasRead /\ job.cfg.users[u] # wanted.users[u] => u \in touched /\ u \in raced

(* A hot apply brings in line each user that differs and is left alone.      *)
Diff(u) ==
  job.step = "apply" =>
    /\ u \in job.remove /\ job.cfg.users[u] # 0 => u \in job.add
    /\ Running /\ u \notin touched /\ conf.users[u] # job.cfg.users[u] =>
         live.users[u] = job.cfg.users[u] \/ u \in job.remove \/ u \in job.add

Right(u) == live.users[u] = wanted.users[u]
Old(u) == live.users[u] = conf.users[u]
Out(u) == live.users[u] = 0

(* What the process has of a user whom nothing overlapped.  Out of line, it  *)
(* has what the stored configuration says, so that the restart which is      *)
(* asked for sees the difference.                                            *)
Synced(u) ==
  /\ call[u].step # "idle" => call[u].new = wanted.users[u]
  /\ Running /\ call[u].step \in {"idle", "done"} =>
       /\ job.step \in {"free", "config", "refresh"} => Right(u) \/ (Old(u) /\ (Asks \/ call[u].failed))
       /\ job.step = "decide" => Right(u) \/ Old(u)
       /\ job.step = "apply" => Right(u) \/ u \in job.remove \/ u \in job.add
  /\ Running /\ call[u].step = "add" =>
       /\ job.step \in {"free", "config", "refresh", "decide"} => Right(u) \/ Old(u) \/ Out(u)
       /\ job.step = "apply" => Right(u) \/ Out(u) \/ u \in job.remove
UserInv(u) == Known(u) /\ Diff(u) /\ (u \notin raced /\ u \notin flaked => Synced(u))

LEMMA KnownNext ==
    ASSUME TypeInv, ProcInv, NEW w \in Users, UserInv(w), [Next]_vars
    PROVE  Known(w)'
<1>1. ASSUME NEW u \in Users, NEW v \in 0 .. Creds, Edit(u, v)  PROVE  Known(w)'
  BY <1>1 DEF UserInv, Known, HasRead, jobVars, Edit, Touch
<1>2. ASSUME NEW u \in Users, PushRemove(u)  PROVE  Known(w)'
  BY <1>2 DEF TypeInv, CallInv, UserInv, Known, HasRead, jobVars, PushRemove
<1>3. ASSUME NEW u \in Users, PushAdd(u)  PROVE  Known(w)'
  BY <1>3 DEF TypeInv, CallInv, UserInv, Known, HasRead, jobVars, PushAdd
<1>4. ASSUME NEW u \in Users, Finish(u)  PROVE  Known(w)'
  BY <1>4 DEF UserInv, Known, HasRead, jobVars, logVars, Finish
<1>5. ASSUME NEW c \in {"traffic", "nodes"}, NEW u \in Users, Poll(c, u)  PROVE  Known(w)'
  <2> PICK ok \in BOOLEAN, restart \in BOOLEAN : Poll(c, u)!3!(ok, restart)
    BY <1>5 DEF Poll
  <2>1. wanted'.users = [wanted.users EXCEPT ![u] = 0] /\ job' = job /\ call' = call
    BY <1>5 DEF Poll, Disable
  <2>2. w # u => wanted'.users[w] = wanted.users[w]
    BY <2>1
  <2>3. touched \subseteq touched' /\ raced \subseteq raced' /\ (HasRead => u \in touched' /\ u \in raced')
    BY <1>5 DEF Poll, Disable, Touch
  <2> QED BY <2>1, <2>3 DEF UserInv, Known, HasRead
<1>6. ASSUME NEW next \in {"flag", "template"}, Save(next)  PROVE  Known(w)'
  BY <1>6 DEF UserInv, Known, HasRead, jobVars, logVars, Save
<1>7. ASSUME SetToNeedRestart  PROVE  Known(w)'
  BY <1>7 DEF UserInv, Known, HasRead, jobVars, logVars, SetToNeedRestart
<1>8. ASSUME ApplyTemplate  PROVE  Known(w)'
  BY <1>8 DEF UserInv, Known, HasRead, ApplyTemplate
<1>9. ASSUME ApplyPendingRestart  PROVE  Known(w)'
  BY <1>9 DEF UserInv, Known, HasRead, dbVars, logVars, ApplyPendingRestart
<1>10. ASSUME CheckXrayRunning  PROVE  Known(w)'
  BY <1>10 DEF UserInv, Known, HasRead, dbVars, logVars, CheckXrayRunning
<1>11. ASSUME StopXray  PROVE  Known(w)'
  BY <1>11 DEF UserInv, Known, HasRead, dbVars, jobVars, logVars, StopXray
<1>12. ASSUME NEW c \in Callers, OrderRestart(c)  PROVE  Known(w)'
  BY <1>12 DEF UserInv, Known, HasRead, dbVars, logVars, OrderRestart
<1>13. ASSUME NEW c \in Callers, Lock(c)  PROVE  Known(w)'
  BY <1>13 DEF ProcInv, Known, HasRead, Lock, Free
<1>14. ASSUME GetXrayConfig  PROVE  Known(w)'
  BY <1>14 DEF Known, GetXrayConfig
<1>15. ASSUME ConfigFails  PROVE  Known(w)'
  BY <1>15 DEF Known, HasRead, ConfigFails, Return, Free
<1>16. ASSUME NothingToDo  PROVE  Known(w)'
  BY <1>16 DEF Known, HasRead, NothingToDo, Return, Free
<1>17. ASSUME TryHotApply  PROVE  Known(w)'
  BY <1>17 DEF UserInv, Known, HasRead, dbVars, logVars, TryHotApply
<1>18. ASSUME FullRestart  PROVE  Known(w)'
  BY <1>18 DEF TypeInv, JobInv, JobType, UserInv, Known, HasRead, dbVars, logVars,
     FullRestart
<1>19. ASSUME NEW u \in Users, HotRemove(u)  PROVE  Known(w)'
  BY <1>19 DEF UserInv, Known, HasRead, dbVars, logVars, HotRemove
<1>20. ASSUME NEW u \in Users, HotAdd(u)  PROVE  Known(w)'
  BY <1>20 DEF UserInv, Known, HasRead, dbVars, logVars, HotAdd
<1>21. ASSUME HotFails  PROVE  Known(w)'
  BY <1>21 DEF UserInv, Known, HasRead, dbVars, logVars, HotFails
<1>22. ASSUME HotDone  PROVE  Known(w)'
  BY <1>22 DEF Known, HasRead, HotDone, Return, Free
<1>23. ASSUME Stop  PROVE  Known(w)'
  BY <1>23 DEF UserInv, Known, HasRead, dbVars, logVars, Stop
<1>24. ASSUME Start  PROVE  Known(w)'
  BY <1>24 DEF UserInv, Known, HasRead, dbVars, Start, Applied
<1>25. ASSUME StartFails  PROVE  Known(w)'
  BY <1>25 DEF Known, HasRead, StartFails, Return, Free
<1>26. ASSUME RefreshAPIPort  PROVE  Known(w)'
  BY <1>26 DEF Known, HasRead, RefreshAPIPort, Return, Free
<1>27. ASSUME Crash  PROVE  Known(w)'
  BY <1>27 DEF UserInv, Known, HasRead, dbVars, jobVars, logVars, Crash
<1>28. ASSUME UNCHANGED vars  PROVE  Known(w)'
  BY <1>28 DEF UserInv, Known, HasRead, vars, dbVars, jobVars, logVars
<1> QED
  BY <1>1, <1>2, <1>3, <1>4, <1>5, <1>6, <1>7, <1>8, <1>9, <1>10, <1>11, <1>12,
     <1>13, <1>14, <1>15, <1>16, <1>17, <1>18, <1>19, <1>20, <1>21, <1>22, <1>23,
     <1>24, <1>25, <1>26, <1>27, <1>28 DEF Next, CallStep, RestartStep

LEMMA DiffNext ==
    ASSUME TypeInv, ProcInv, NEW w \in Users, UserInv(w), [Next]_vars
    PROVE  Diff(w)'
<1>1. ASSUME NEW u \in Users, NEW v \in 0 .. Creds, Edit(u, v)  PROVE  Diff(w)'
  BY <1>1 DEF UserInv, Diff, Running, runVars, jobVars, Edit, Touch
<1>2. ASSUME NEW u \in Users, PushRemove(u)  PROVE  Diff(w)'
  BY <1>2 DEF UserInv, Known, Diff, Running, HasRead, jobVars, PushRemove
<1>3. ASSUME NEW u \in Users, PushAdd(u)  PROVE  Diff(w)'
  BY <1>3 DEF UserInv, Known, Diff, Running, HasRead, jobVars, PushAdd
<1>4. ASSUME NEW u \in Users, Finish(u)  PROVE  Diff(w)'
  BY <1>4 DEF UserInv, Diff, Running, runVars, jobVars, logVars, Finish
<1>5. ASSUME NEW c \in {"traffic", "nodes"}, NEW u \in Users, Poll(c, u)  PROVE  Diff(w)'
  <2> PICK ok \in BOOLEAN, restart \in BOOLEAN : Poll(c, u)!3!(ok, restart)
    BY <1>5 DEF Poll
  <2>1. job' = job /\ conf' = conf /\ proc' = proc
    BY <1>5 DEF Poll
  <2>2. w # u => live'.users[w] = live.users[w]
    BY DEF Disable
  <2>3. touched \subseteq touched' /\ (HasRead => u \in touched')
    BY <1>5 DEF Poll, Touch
  <2> QED BY <2>1, <2>2, <2>3 DEF UserInv, Diff, HasRead, Running
<1>6. ASSUME NEW next \in {"flag", "template"}, Save(next)  PROVE  Diff(w)'
  BY <1>6 DEF UserInv, Diff, Running, runVars, jobVars, logVars, Save
<1>7. ASSUME SetToNeedRestart  PROVE  Diff(w)'
  BY <1>7 DEF UserInv, Diff, Running, runVars, jobVars, logVars, SetToNeedRestart
<1>8. ASSUME ApplyTemplate  PROVE  Diff(w)'
  BY <1>8 DEF UserInv, Diff, Running, runVars, ApplyTemplate
<1>9. ASSUME ApplyPendingRestart  PROVE  Diff(w)'
  BY <1>9 DEF UserInv, Diff, Running, runVars, logVars, ApplyPendingRestart
<1>10. ASSUME CheckXrayRunning  PROVE  Diff(w)'
  BY <1>10 DEF UserInv, Diff, Running, runVars, logVars, CheckXrayRunning
<1>11. ASSUME StopXray  PROVE  Diff(w)'
  BY <1>11 DEF UserInv, Diff, Running, jobVars, StopXray
<1>12. ASSUME NEW c \in Callers, OrderRestart(c)  PROVE  Diff(w)'
  BY <1>12 DEF UserInv, Diff, Running, runVars, logVars, OrderRestart
<1>13. ASSUME NEW c \in Callers, Lock(c)  PROVE  Diff(w)'
  BY <1>13 DEF TypeInv, JobInv, JobType, Diff, Lock, Free
<1>14. ASSUME GetXrayConfig  PROVE  Diff(w)'
  BY <1>14 DEF Diff, GetXrayConfig
<1>15. ASSUME ConfigFails  PROVE  Diff(w)'
  BY <1>15 DEF Diff, ConfigFails, Return, Free
<1>16. ASSUME NothingToDo  PROVE  Diff(w)'
  BY <1>16 DEF Diff, NothingToDo, Return, Free
<1>17. ASSUME TryHotApply  PROVE  Diff(w)'
  BY <1>17 DEF Diff, runVars, TryHotApply, RemovedUsers, AddedUsers
<1>18. ASSUME FullRestart  PROVE  Diff(w)'
  BY <1>18 DEF TypeInv, JobInv, JobType, Diff, FullRestart
<1>19. ASSUME NEW u \in Users, HotRemove(u)  PROVE  Diff(w)'
  BY <1>19 DEF TypeInv, ConfigInv, Config, UserInv, Diff, Running, logVars,
     HotRemove
<1>20. ASSUME NEW u \in Users, HotAdd(u)  PROVE  Diff(w)'
  BY <1>20 DEF TypeInv, ConfigInv, Config, UserInv, Diff, Running, logVars, HotAdd
<1>21. ASSUME HotFails  PROVE  Diff(w)'
  BY <1>21 DEF Diff, HotFails
<1>22. ASSUME HotDone  PROVE  Diff(w)'
  BY <1>22 DEF Diff, HotDone, Return, Free
<1>23. ASSUME Stop  PROVE  Diff(w)'
  BY <1>23 DEF Diff, Stop
<1>24. ASSUME Start  PROVE  Diff(w)'
  BY <1>24 DEF Diff, Start
<1>25. ASSUME StartFails  PROVE  Diff(w)'
  BY <1>25 DEF Diff, StartFails, Return, Free
<1>26. ASSUME RefreshAPIPort  PROVE  Diff(w)'
  BY <1>26 DEF Diff, RefreshAPIPort, Return, Free
<1>27. ASSUME Crash  PROVE  Diff(w)'
  BY <1>27 DEF UserInv, Diff, Running, jobVars, Crash
<1>28. ASSUME UNCHANGED vars  PROVE  Diff(w)'
  BY <1>28 DEF UserInv, Diff, Running, vars, runVars, jobVars, logVars
<1> QED
  BY <1>1, <1>2, <1>3, <1>4, <1>5, <1>6, <1>7, <1>8, <1>9, <1>10, <1>11, <1>12,
     <1>13, <1>14, <1>15, <1>16, <1>17, <1>18, <1>19, <1>20, <1>21, <1>22, <1>23,
     <1>24, <1>25, <1>26, <1>27, <1>28 DEF Next, CallStep, RestartStep

LEMMA SyncedNext ==
    ASSUME TypeInv, ProcInv, NEW w \in Users, UserInv(w), [Next]_vars
    PROVE  (w \notin raced /\ w \notin flaked => Synced(w))'
<1>1. ASSUME NEW u \in Users, NEW v \in 0 .. Creds, Edit(u, v)
      PROVE  (w \notin raced /\ w \notin flaked => Synced(w))'
  BY <1>1 DEF TypeInv, ConfigInv, CallInv, Config, UserInv, Synced, Right, Old, Out,
     Asks, Running, HasRead, runVars, jobVars, Edit
<1>2. ASSUME NEW u \in Users, PushRemove(u)
      PROVE  (w \notin raced /\ w \notin flaked => Synced(w))'
  BY <1>2 DEF TypeInv, ConfigInv, FlagInv, CallInv, CallType, Config, ProcInv,
     UserInv, Synced, Right, Old, Out, Asks, Running, jobVars, PushRemove, Answer,
     HasPort
<1>3. ASSUME NEW u \in Users, PushAdd(u)
      PROVE  (w \notin raced /\ w \notin flaked => Synced(w))'
  BY <1>3 DEF TypeInv, ConfigInv, FlagInv, CallInv, CallType, Config, ProcInv,
     UserInv, Synced, Right, Old, Out, Asks, Running, jobVars, PushAdd, Answer, HasPort
<1>4. ASSUME NEW u \in Users, Finish(u)
      PROVE  (w \notin raced /\ w \notin flaked => Synced(w))'
  BY <1>4 DEF TypeInv, CallInv, UserInv, Synced, Right, Old, Out, Asks, Running,
     runVars, jobVars, logVars, Finish, NoCall
<1>5. ASSUME NEW c \in {"traffic", "nodes"}, NEW u \in Users, Poll(c, u)
      PROVE  (w \notin raced /\ w \notin flaked => Synced(w))'
  BY <1>5 DEF TypeInv, ConfigInv, FlagInv, JobInv, Config, ProcInv, UserInv, Synced,
     Right, Old, Out, Asks, Running, HasRead, Callers, Poll, Disable, Answer, HasPort
<1>6. ASSUME NEW next \in {"flag", "template"}, Save(next)
      PROVE  (w \notin raced /\ w \notin flaked => Synced(w))'
  BY <1>6 DEF UserInv, Synced, Right, Old, Out, Asks, Running, runVars, jobVars,
     logVars, Save
<1>7. ASSUME SetToNeedRestart  PROVE  (w \notin raced /\ w \notin flaked => Synced(w))'
  BY <1>7 DEF UserInv, Synced, Right, Old, Out, Asks, Running, runVars, jobVars,
     logVars, SetToNeedRestart
<1>8. ASSUME ApplyTemplate  PROVE  (w \notin raced /\ w \notin flaked => Synced(w))'
  BY <1>8 DEF TypeInv, JobInv, UserInv, Synced, Right, Old, Out, Asks, Running,
     Callers, runVars, ApplyTemplate, Ask
<1>9. ASSUME ApplyPendingRestart  PROVE  (w \notin raced /\ w \notin flaked => Synced(w))'
  BY <1>9 DEF TypeInv, JobInv, UserInv, Synced, Right, Old, Out, Asks, Running,
     Callers, dbVars, runVars, logVars, ApplyPendingRestart, Ask
<1>10. ASSUME CheckXrayRunning  PROVE  (w \notin raced /\ w \notin flaked => Synced(w))'
  BY <1>10 DEF TypeInv, JobInv, UserInv, Synced, Right, Old, Out, Asks, Running,
     Callers, dbVars, runVars, logVars, CheckXrayRunning, Ask
<1>11. ASSUME StopXray  PROVE  (w \notin raced /\ w \notin flaked => Synced(w))'
  BY <1>11 DEF UserInv, Synced, Running, dbVars, logVars, StopXray
<1>12. ASSUME NEW c \in Callers, OrderRestart(c)
      PROVE  (w \notin raced /\ w \notin flaked => Synced(w))'
  BY <1>12 DEF UserInv, Synced, Right, Old, Out, Asks, Running, dbVars, runVars,
     logVars, OrderRestart, Ask
<1>13. ASSUME NEW c \in Callers, Lock(c)
      PROVE  (w \notin raced /\ w \notin flaked => Synced(w))'
  <2>1. CASE stopped /\ c \notin Forced
    BY <1>13, <2>1 DEF Lock, ProcInv, UserInv, Synced, Running, dbVars, runVars,
       logVars
  <2>2. CASE ~(stopped /\ c \notin Forced)
    <3>1. at' = [at EXCEPT ![c] = "hold"] /\ job'.who = c /\ job'.step = "config" /\ job.step = "free"
      BY <1>13, <2>2 DEF Lock, Free
    <3>2. Asks => Asks'
      BY <1>13, <3>1 DEF Lock, Asks, TypeInv, JobInv, Callers
    <3> QED BY <1>13, <3>1, <3>2 DEF Lock, UserInv, Synced, Right, Old, Out,
       Running, dbVars, runVars, logVars
  <2> QED BY <2>1, <2>2
<1>14. ASSUME GetXrayConfig  PROVE  (w \notin raced /\ w \notin flaked => Synced(w))'
  BY <1>14 DEF TypeInv, ConfigInv, Config, UserInv, Synced, Right, Old, Out,
     Running, GetXrayConfig, Disable, Answer
<1>15. ASSUME ConfigFails  PROVE  (w \notin raced /\ w \notin flaked => Synced(w))'
  <2>1. Asks => Asks'
    <3>1. at' = [at EXCEPT ![job.who] = "idle"] /\ at[job.who] = "hold"
      BY <1>15 DEF ConfigFails, Return, TypeInv, JobInv
    <3>2. need' = (need \/ job.who \in Rearming \/ (owed /\ job.who = "traffic"))
      BY <1>15 DEF ConfigFails, Return, Flag
    <3>3. owed' = (owed /\ job.who # "traffic")
      BY <1>15 DEF ConfigFails, Return, Flag
    <3> QED BY <3>1, <3>2, <3>3 DEF Asks, Rearming, TypeInv, JobInv, Callers
  <2>2. job.step = "config" /\ job'.step = "free"
    BY <1>15 DEF ConfigFails, Return, Free
  <2> QED BY <1>15, <2>1, <2>2 DEF ConfigFails, UserInv, Synced, Right, Old, Out,
     Running, dbVars, runVars
<1>16. ASSUME NothingToDo  PROVE  (w \notin raced /\ w \notin flaked => Synced(w))'
  BY <1>16 DEF UserInv, Known, Synced, Right, Old, Out, HasRead, dbVars, runVars,
     logVars, NothingToDo
<1>17. ASSUME TryHotApply  PROVE  (w \notin raced /\ w \notin flaked => Synced(w))'
  BY <1>17 DEF UserInv, Known, Synced, Right, Old, Out, HasRead, dbVars, runVars,
     logVars, TryHotApply, RemovedUsers, AddedUsers
<1>18. ASSUME FullRestart  PROVE  (w \notin raced /\ w \notin flaked => Synced(w))'
  BY <1>18 DEF TypeInv, JobInv, JobType, UserInv, Synced, dbVars, logVars,
     FullRestart
<1>19. ASSUME NEW u \in Users, HotRemove(u)
      PROVE  (w \notin raced /\ w \notin flaked => Synced(w))'
  BY <1>19 DEF TypeInv, ConfigInv, Config, UserInv, Known, Diff, Synced, Right, Out,
     Running, HasRead, dbVars, logVars, HotRemove
<1>20. ASSUME NEW u \in Users, HotAdd(u)
      PROVE  (w \notin raced /\ w \notin flaked => Synced(w))'
  BY <1>20 DEF TypeInv, ConfigInv, Config, UserInv, Known, Synced, Right, Out,
     Running, HasRead, dbVars, logVars, HotAdd
<1>21. ASSUME HotFails  PROVE  (w \notin raced /\ w \notin flaked => Synced(w))'
  BY <1>21 DEF UserInv, Synced, dbVars, logVars, HotFails
<1>22. ASSUME HotDone  PROVE  (w \notin raced /\ w \notin flaked => Synced(w))'
  <2>1. job.step = "apply" /\ job'.step = "free" /\ job.remove = {} /\ job.add = {} /\ conf' = job.cfg
    BY <1>22 DEF HotDone, Return, Free
  <2>2. wanted' = wanted /\ live' = live /\ call' = call /\ proc' = proc
    BY <1>22 DEF HotDone, dbVars
  <2>3. CASE w \notin raced /\ w \notin flaked
    BY <2>1, <2>2, <2>3 DEF UserInv, Synced, Right, Out, Running
  <2>4. CASE ~(w \notin raced /\ w \notin flaked)
    <3> SUFFICES ASSUME w \notin raced', w \notin flaked'
                 PROVE  Synced(w)'
      OBVIOUS
    <3>1. w \notin touched /\ conf.users[w] # job.cfg.users[w]
      BY <1>22, <2>4 DEF HotDone, Applied, RemovedUsers, AddedUsers
    <3>2. call[w].step = "idle" /\ job.cfg.users[w] = wanted.users[w]
      BY <2>1, <3>1 DEF UserInv, Known, HasRead
    <3>3. Running => Right(w)
      BY <2>1, <3>1, <3>2 DEF UserInv, Diff, Right
    <3> QED BY <2>2, <3>2, <3>3 DEF Synced, Right, Running
  <2> QED BY <2>3, <2>4
<1>23. ASSUME Stop  PROVE  (w \notin raced /\ w \notin flaked => Synced(w))'
  BY <1>23 DEF UserInv, Synced, dbVars, logVars, Stop
<1>24. ASSUME Start  PROVE  (w \notin raced /\ w \notin flaked => Synced(w))'
  BY <1>24 DEF UserInv, Known, Synced, Right, HasRead, dbVars, Start, Applied
<1>25. ASSUME StartFails  PROVE  (w \notin raced /\ w \notin flaked => Synced(w))'
  BY <1>25 DEF ProcInv, UserInv, Synced, Running, dbVars, logVars, StartFails
<1>26. ASSUME RefreshAPIPort  PROVE  (w \notin raced /\ w \notin flaked => Synced(w))'
  BY <1>26 DEF TypeInv, FlagInv, JobInv, UserInv, Synced, Right, Old, Out, Asks,
     Running, dbVars, logVars, RefreshAPIPort, Return, Flag, Free
<1>27. ASSUME Crash  PROVE  (w \notin raced /\ w \notin flaked => Synced(w))'
  BY <1>27 DEF UserInv, Synced, Running, dbVars, logVars, Crash
<1>28. ASSUME UNCHANGED vars  PROVE  (w \notin raced /\ w \notin flaked => Synced(w))'
  BY <1>28 DEF UserInv, Synced, Right, Old, Out, Asks, Running, vars, dbVars,
     runVars, jobVars, logVars
<1> QED
  BY <1>1, <1>2, <1>3, <1>4, <1>5, <1>6, <1>7, <1>8, <1>9, <1>10, <1>11, <1>12,
     <1>13, <1>14, <1>15, <1>16, <1>17, <1>18, <1>19, <1>20, <1>21, <1>22, <1>23,
     <1>24, <1>25, <1>26, <1>27, <1>28 DEF Next, CallStep, RestartStep

UsersInv == \A u \in Users : UserInv(u)

LEMMA UsersInit == Init => UsersInv
<1> SUFFICES ASSUME Init, NEW u \in Users
             PROVE  UserInv(u)
  BY DEF UsersInv
<1>1. job.step = "free" /\ call[u].step = "idle" /\ Right(u)
  BY DEF Init, Free, NoCall, Right
<1> QED BY <1>1 DEF UserInv, Known, Diff, Synced, HasRead

LEMMA UsersNext ==
    ASSUME TypeInv, ProcInv, UsersInv, [Next]_vars
    PROVE  UsersInv'
<1> SUFFICES ASSUME NEW w \in Users
             PROVE  UserInv(w)'
  BY DEF UsersInv
<1>1. UserInv(w)
  BY DEF UsersInv
<1> QED BY <1>1, KnownNext, DiffNext, SyncedNext DEF UserInv

(* Once nothing is in progress and no restart is due, the running Xray has   *)
(* of every user what the database asks for, but for those that the          *)
(* histories name, whatever edits, polls, pushes, restarts, stops, failures  *)
(* and crashes have come between.                                            *)
THEOREM ReconciledAlways == Spec => []Reconciled
<1>1. Init => TypeInv /\ ProcInv /\ UsersInv
  BY TypeInit, UsersInit DEF Init, ProcInv, Free
<1>2. TypeInv /\ ProcInv /\ UsersInv /\ [Next]_vars => TypeInv' /\ ProcInv' /\ UsersInv'
  BY TypeNext, ProcNext, UsersNext
<1>3. TypeInv /\ UsersInv => Reconciled
  <2> SUFFICES ASSUME TypeInv, UsersInv, Settled, NEW u \in Users \ (raced \cup flaked)
               PROVE  live.users[u] = wanted.users[u]
    BY DEF Reconciled
  <2>1. Synced(u) /\ call[u].step = "idle" /\ ~call[u].failed /\ job.step = "free" /\ Running
    BY DEF UsersInv, UserInv, Settled, Free, Running, TypeInv, CallInv
  <2>2. ~Asks
    BY DEF Settled, Asks, TypeInv, JobInv, Callers
  <2> QED BY <2>1, <2>2 DEF Synced, Right
<1> QED BY <1>1, <1>2, <1>3, PTL DEF Spec
=============================================================================
