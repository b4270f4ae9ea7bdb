----------------------------- MODULE XrayRuntime -----------------------------
(***************************************************************************)
(* The panel's own Xray: the configuration the database asks for, the one  *)
(* the running process was started with (or brought to), the users that    *)
(* are really in it, and everything that may stop, start or change it.     *)
(*                                                                         *)
(* A call that edits a client commits, then pushes RemoveUser and AddUser  *)
(* to the process, which changes the users and not the stored              *)
(* configuration.  RestartXray, under a lock, compares the stored          *)
(* configuration with the one asked for, and applies the difference        *)
(* through the API, starts the process afresh, or does nothing.            *)
(***************************************************************************)
EXTENDS Naturals, FiniteSets

CONSTANTS Users,        \* the clients of local inbounds, one inbound each
          Creds,        \* the credentials a client can have, from 1
          MaxEdits,     \* bound: changes of the configuration asked for
          MaxFaults,    \* bound: crashes and failures
          MaxOrders     \* bound: restarts and stops ordered

ASSUME BoundsAssumption ==
  /\ Creds \in Nat \ {0}
  /\ {MaxEdits, MaxFaults, MaxOrders} \subseteq Nat

VARIABLES wanted,    \* what the database asks for
          proc,      \* the process: "down", "starting" or "up"
          conf,      \* process.GetConfig()
          live,      \* what the process runs with, each user's credential or 0
          stopped,   \* isManuallyStopped
          need,      \* isNeedXrayRestart
          owed,      \* the traffic job's poll asks for a restart: the flag follows
          at,        \* what each caller of RestartXray does
          job,       \* the call that holds the lock
          call,      \* the edit in progress on each user
          saving,    \* what was saved, and what is to follow: "flag", "template" or "no"
          checks,    \* checkTime of the check job
          touched,   \* users committed, or in a call, since the holder's read
          raced,     \* users whose commit a restart or a poll overlapped, or
                     \* whose failed push nobody hears of
          flaked,    \* users one of whose pushes failed on a running process
          missed,    \* a saved template that updateSetting did not get applied
          edits, faults, orders

dbVars  == <<wanted, call, saving, edits>>
runVars == <<proc, conf, live>>
jobVars == <<at, job, owed>>
logVars == <<touched, raced, flaked, missed>>
vars == <<dbVars, runVars, stopped, need, jobVars, checks, logVars, faults, orders>>

\* Who calls RestartXray; the operator's restart button, SIGUSR1, the tunnel
\* monitor and the node job force it.
Callers == {"pending", "check", "traffic", "settings", "nodes", "operator"}
Forced  == {"nodes", "operator"}

\* The callers that set the flag again when RestartXray fails.
Rearming == {"pending", "traffic", "nodes"}

Config == [users : [Users -> 0 .. Creds], core : 0 .. MaxEdits]
Nothing == [users |-> [u \in Users |-> 0], core |-> 0]
Free == [who |-> "none", step |-> "free", cfg |-> Nothing, remove |-> {}, add |-> {}]
NoCall == [step |-> "idle", new |-> 0, failed |-> FALSE]

TypeOK ==
  /\ {wanted, conf, live} \subseteq Config
  /\ proc \in {"down", "starting", "up"}
  /\ {stopped, need, owed, missed} \subseteq BOOLEAN
  /\ saving \in {"no", "flag", "template"}
  /\ at \in [Callers -> {"idle", "wait", "hold"}]
  /\ job \in [who : Callers \cup {"none"}, cfg : Config, remove : SUBSET Users, add : SUBSET Users,
              step : {"free", "config", "decide", "apply", "stop", "start", "refresh"}]
  /\ call \in [Users -> [step : {"idle", "remove", "add", "done"}, new : 0 .. Creds, failed : BOOLEAN]]
  /\ checks \in 0 .. 1
  /\ {touched, raced, flaked} \subseteq SUBSET Users
  /\ edits \in 0 .. MaxEdits /\ faults \in 0 .. MaxFaults /\ orders \in 0 .. MaxOrders

Init ==
  /\ wanted \in [users : [Users -> {0, 1}], core : {0}]
  /\ proc = "up" /\ conf = wanted /\ live = wanted
  /\ stopped = FALSE /\ need = FALSE /\ saving = "no" /\ owed = FALSE
  /\ at = [c \in Callers |-> "idle"]
  /\ job = Free
  /\ call = [u \in Users |-> NoCall]
  /\ checks = 0
  /\ touched = {} /\ raced = {} /\ flaked = {} /\ missed = FALSE
  /\ edits = 0 /\ faults = 0 /\ orders = 0

Running == proc # "down"
HasPort == proc = "up"

\* A caller of RestartXray waits for its lock.
Ask(c) == at[c] = "idle" /\ at' = [at EXCEPT ![c] = "wait"]

----------------------------------------------------------------------------
(* Edits of clients.  The lock of the client's inbound is held from the    *)
(* first read to the last push.                                            *)

\* The holder of the lock has read the configuration it is going to apply.
HasRead == job.step \notin {"free", "config"}

Touch(u) == touched' = IF HasRead THEN touched \cup {u} ELSE touched

\* delInboundClients, addInboundClient, UpdateInboundClient: the commit.
Edit(u, v) ==
  /\ edits < MaxEdits /\ call[u].step = "idle" /\ v # wanted.users[u]
  /\ edits' = edits + 1
  /\ wanted' = [wanted EXCEPT !.users[u] = v]
  /\ call' = [call EXCEPT ![u] =
       [step |-> IF wanted.users[u] # 0 THEN "remove" ELSE "add", new |-> v, failed |-> FALSE]]
  /\ Touch(u)
  /\ raced' = IF HasRead THEN raced \cup {u} ELSE raced
  /\ UNCHANGED <<saving, runVars, stopped, need, jobVars, checks, flaked, missed, faults, orders>>

\* One call of the process's API: it fails without a port, may fail with one.
Answer(u, ok) ==
  \/ /\ ok /\ HasPort /\ UNCHANGED <<faults, flaked>>
  \/ /\ ~ok /\ ~HasPort /\ UNCHANGED <<faults, flaked>>
  \/ /\ ~ok /\ HasPort /\ faults < MaxFaults
     /\ faults' = faults + 1 /\ flaked' = flaked \cup {u}

PushRemove(u) ==
  /\ call[u].step = "remove"
  /\ \E ok \in BOOLEAN :
       /\ Answer(u, ok)
       /\ live' = IF ok THEN [live EXCEPT !.users[u] = 0] ELSE live
       /\ call' = [call EXCEPT ![u].step = IF call[u].new # 0 THEN "add" ELSE "done",
                               ![u].failed = @ \/ ~ok]
  /\ UNCHANGED <<wanted, saving, edits, proc, conf, stopped, need, jobVars, checks, touched, raced, missed, orders>>

\* The process refuses a user it has.
PushAdd(u) ==
  /\ call[u].step = "add"
  /\ \E ok \in BOOLEAN :
       /\ Answer(u, ok)
       /\ live' = IF ok /\ live.users[u] = 0 THEN [live EXCEPT !.users[u] = call[u].new] ELSE live
       /\ call' = [call EXCEPT ![u].step = "done", ![u].failed = @ \/ ~ok \/ live.users[u] # 0]
  /\ UNCHANGED <<wanted, saving, edits, proc, conf, stopped, need, jobVars, checks, touched, raced, missed, orders>>

\* The lock is released, the controller sets the flag.
Finish(u) ==
  /\ call[u].step = "done"
  /\ need' = (need \/ call[u].failed)
  /\ call' = [call EXCEPT ![u] = NoCall]
  /\ UNCHANGED <<wanted, saving, edits, runVars, stopped, jobVars, checks, logVars, faults, orders>>

\* A part of the configuration that has no reload API is saved: the order of
\* the subscribed outbounds, whose handler sets the flag, or the template.
Save(next) ==
  /\ edits < MaxEdits /\ saving = "no"
  /\ edits' = edits + 1
  /\ wanted' = [wanted EXCEPT !.core = @ + 1]
  /\ saving' = next
  /\ UNCHANGED <<call, runVars, stopped, need, jobVars, checks, logVars, faults, orders>>

SetToNeedRestart ==
  /\ saving = "flag"
  /\ saving' = "no" /\ need' = TRUE
  /\ UNCHANGED <<wanted, call, edits, runVars, stopped, jobVars, checks, logVars, faults, orders>>

\* updateSetting asks for a restart if Xray runs.  It misses one that has read
\* the configuration before the save and has stopped the process.
ApplyTemplate ==
  /\ saving = "template"
  /\ saving' = "no"
  /\ IF Running
     THEN Ask("settings") /\ UNCHANGED missed
     ELSE missed' = (missed \/ HasRead) /\ UNCHANGED at
  /\ UNCHANGED <<wanted, call, edits, runVars, stopped, need, job, owed, checks, touched, raced,
                 flaked, faults, orders>>

----------------------------------------------------------------------------
(* The poll that finds a client over its limit: RemoveUser and the commit, *)
(* within the single writer.                                               *)

Disable(u, ok, heard) ==
  /\ edits < MaxEdits /\ wanted.users[u] # 0
  /\ edits' = edits + 1
  /\ Answer(u, ok)
  /\ live' = IF ok THEN [live EXCEPT !.users[u] = 0] ELSE live
  /\ wanted' = [wanted EXCEPT !.users[u] = 0]
  /\ raced' = IF HasRead \/ call[u].step # "idle" \/ ~(ok \/ heard) THEN raced \cup {u} ELSE raced

\* XrayTrafficJob and NodeTrafficSyncJob, with the setting that restarts Xray
\* when a client is disabled or without.  The second forces the restart, and
\* drops what the poll answers.
Poll(c, u) ==
  /\ at[c] = "idle"
  /\ c = "traffic" => Running
  /\ \E ok, restart \in BOOLEAN :
       /\ Disable(u, ok, c = "traffic")
       /\ \/ /\ restart
             /\ at' = [at EXCEPT ![c] = "wait"]
             /\ owed' = IF c = "traffic" THEN ~ok ELSE owed
             /\ UNCHANGED need
          \/ /\ ~restart
             /\ need' = (need \/ (~ok /\ c = "traffic"))
             /\ UNCHANGED <<at, owed>>
  /\ Touch(u)
  /\ UNCHANGED <<call, saving, proc, conf, stopped, job, checks, missed, orders>>

----------------------------------------------------------------------------
(* The callers of RestartXray.                                             *)

\* MUTANT: the flag is left set.
ApplyPendingRestart_Keeps ==
  /\ need
  /\ Ask("pending")
  /\ UNCHANGED <<dbVars, runVars, stopped, need, job, owed, checks, logVars, faults, orders>>

\* ApplyPendingRestart consumes the flag before it asks.
ApplyPendingRestart ==
  /\ need
  /\ need' = FALSE
  /\ Ask("pending")
  /\ UNCHANGED <<dbVars, runVars, stopped, job, owed, checks, logVars, faults, orders>>

DidXrayCrash == ~Running /\ ~stopped

\* MUTANT: the counter is not reset when the job acts.
CheckXrayRunning_NoReset ==
  /\ at["check"] = "idle" /\ DidXrayCrash
  /\ checks' = checks + 1
  /\ IF checks > 0 THEN Ask("check") ELSE UNCHANGED at
  /\ UNCHANGED <<dbVars, runVars, stopped, need, job, owed, logVars, faults, orders>>

\* MUTANT: two checks in a row are never counted.
CheckXrayRunning_Forgets ==
  /\ at["check"] = "idle" /\ DidXrayCrash /\ checks = 1
  /\ checks' = 0 /\ Ask("check")
  /\ UNCHANGED <<dbVars, runVars, stopped, need, job, owed, logVars, faults, orders>>

CheckXrayRunning ==
  /\ at["check"] = "idle"
  /\ \/ /\ ~DidXrayCrash /\ checks = 1
        /\ checks' = 0 /\ UNCHANGED at
     \/ /\ DidXrayCrash /\ checks = 0
        /\ checks' = 1 /\ UNCHANGED at
     \/ /\ DidXrayCrash /\ checks = 1
        /\ checks' = 0 /\ Ask("check")
  /\ UNCHANGED <<dbVars, runVars, stopped, need, job, owed, logVars, faults, orders>>

\* A restart that is ordered, or a saved setting or node.
OrderRestart(c) ==
  /\ c \in {"operator", "settings"} /\ orders < MaxOrders
  /\ orders' = orders + 1
  /\ Ask(c)
  /\ UNCHANGED <<dbVars, runVars, stopped, need, job, owed, checks, logVars, faults>>

StopXray ==
  /\ orders < MaxOrders /\ job = Free
  /\ orders' = orders + 1
  /\ stopped' = TRUE
  /\ proc' = "down" /\ live' = Nothing
  /\ UNCHANGED <<dbVars, conf, need, jobVars, checks, logVars, faults>>

----------------------------------------------------------------------------
(* RestartXray.                                                            *)

\* MUTANT: a failed restart is not tried again.
Flag_NotRearmed(c, failed) ==
  /\ need' = (need \/ (owed /\ c = "traffic"))
  /\ owed' = (owed /\ c # "traffic")

\* What a caller does with the flag once its call is over.
Flag(c, failed) ==
  /\ need' = (need \/ (failed /\ c \in Rearming) \/ (owed /\ c = "traffic"))
  /\ owed' = (owed /\ c # "traffic")

\* MUTANT: the manual stop is not looked at again under the lock.
Lock_Blind(c) ==
  /\ at[c] = "wait" /\ job = Free
  /\ at' = [at EXCEPT ![c] = "hold"]
  /\ stopped' = FALSE
  /\ job' = [Free EXCEPT !.who = c, !.step = "config"]
  /\ UNCHANGED <<dbVars, runVars, need, owed, checks, logVars, faults, orders>>

\* The lock is free: a call that is not forced leaves a stopped Xray alone.
Lock(c) ==
  /\ at[c] = "wait" /\ job = Free
  /\ IF stopped /\ c \notin Forced
     THEN /\ at' = [at EXCEPT ![c] = "idle"]
          /\ Flag(c, FALSE)
          /\ UNCHANGED <<stopped, job>>
     ELSE /\ at' = [at EXCEPT ![c] = "hold"]
          /\ stopped' = FALSE
          /\ job' = [Free EXCEPT !.who = c, !.step = "config"]
          /\ UNCHANGED <<need, owed>>
  /\ UNCHANGED <<dbVars, runVars, checks, logVars, faults, orders>>

Return(ok) ==
  /\ job' = Free
  /\ at' = [at EXCEPT ![job.who] = "idle"]
  /\ Flag(job.who, ~ok)

\* GetXrayConfig runs the poll's writes first and drops what they answer.
GetXrayConfig ==
  /\ job.step = "config"
  /\ \/ UNCHANGED <<wanted, edits, live, raced, faults, flaked>>
     \/ \E u \in Users, ok \in BOOLEAN : Disable(u, ok, FALSE)
  /\ job' = [job EXCEPT !.step = "decide", !.cfg = wanted']
  /\ touched' = {u \in Users : call[u].step # "idle"}
  /\ UNCHANGED <<call, saving, proc, conf, stopped, need, at, owed, checks, missed, orders>>

\* A failed read leaves the process as it is; updateSetting reports it and is over.
ConfigFails ==
  /\ job.step = "config" /\ faults < MaxFaults
  /\ faults' = faults + 1
  /\ missed' = (missed \/ job.who = "settings")
  /\ Return(FALSE)
  /\ UNCHANGED <<dbVars, runVars, stopped, checks, touched, raced, flaked, orders>>

\* diffInboundUsers: whose entry is gone or changed.
RemovedUsers(old, new) == {u \in Users : old.users[u] # 0 /\ new.users[u] # old.users[u]}

\* MUTANT: a changed entry is removed and not added again.
AddedUsers_NewOnly(old, new) == {u \in Users : new.users[u] # 0 /\ old.users[u] = 0}

\* Whose entry is new or changed.
AddedUsers(old, new) == {u \in Users : new.users[u] # 0 /\ new.users[u] # old.users[u]}

HotApplicable(old, new) == old.core = new.core

NothingToDo ==
  /\ job.step = "decide" /\ Running /\ job.who \notin Forced
  /\ conf = job.cfg /\ ~need
  /\ Return(TRUE)
  /\ UNCHANGED <<dbVars, runVars, stopped, checks, logVars, faults, orders>>

TryHotApply ==
  /\ job.step = "decide" /\ Running /\ job.who \notin Forced
  /\ conf # job.cfg /\ HotApplicable(conf, job.cfg)
  /\ job' = [job EXCEPT !.step = "apply", !.remove = RemovedUsers(conf, job.cfg),
                        !.add = AddedUsers(conf, job.cfg)]
  /\ UNCHANGED <<dbVars, runVars, stopped, need, at, owed, checks, logVars, faults, orders>>

FullRestart ==
  /\ job.step = "decide"
  /\ IF Running
     THEN /\ job.who \in Forced \/ IF conf = job.cfg THEN need ELSE ~HotApplicable(conf, job.cfg)
          /\ job' = [job EXCEPT !.step = "stop"]
     ELSE job' = [job EXCEPT !.step = "start"]
  /\ UNCHANGED <<dbVars, runVars, stopped, need, at, owed, checks, logVars, faults, orders>>

\* tryHotApply: the removals, then the additions; a user that is there is replaced.
HotRemove(u) ==
  /\ job.step = "apply" /\ u \in job.remove
  /\ HasPort
  /\ live' = [live EXCEPT !.users[u] = 0]
  /\ job' = [job EXCEPT !.remove = @ \ {u}]
  /\ UNCHANGED <<dbVars, proc, conf, stopped, need, at, owed, checks, logVars, faults, orders>>

HotAdd(u) ==
  /\ job.step = "apply" /\ job.remove = {} /\ u \in job.add
  /\ HasPort
  /\ live' = [live EXCEPT !.users[u] = job.cfg.users[u]]
  /\ job' = [job EXCEPT !.add = @ \ {u}]
  /\ UNCHANGED <<dbVars, proc, conf, stopped, need, at, owed, checks, logVars, faults, orders>>

\* An operation fails: the process is restarted.
HotFails ==
  /\ job.step = "apply" /\ job.remove \cup job.add # {}
  /\ IF HasPort THEN faults < MaxFaults /\ faults' = faults + 1 ELSE UNCHANGED faults
  /\ job' = [job EXCEPT !.step = "stop"]
  /\ UNCHANGED <<dbVars, runVars, stopped, need, at, owed, checks, logVars, orders>>

\* The users of the set are as the configuration has them, but for those that
\* a commit, or a call in progress, may have changed since it was read.
Applied(s) ==
  /\ raced' = raced \ (s \ touched)
  /\ flaked' = flaked \ (s \ touched)
  /\ UNCHANGED touched

HotDone ==
  /\ job.step = "apply" /\ job.remove \cup job.add = {}
  /\ Applied(RemovedUsers(conf, job.cfg) \cup AddedUsers(conf, job.cfg))
  /\ conf' = job.cfg
  /\ Return(TRUE)
  /\ UNCHANGED <<dbVars, proc, live, stopped, checks, missed, faults, orders>>

Stop ==
  /\ job.step = "stop"
  /\ proc' = "down" /\ live' = Nothing
  /\ job' = [job EXCEPT !.step = "start"]
  /\ UNCHANGED <<dbVars, conf, stopped, need, at, owed, checks, logVars, faults, orders>>

\* The process runs before its API port is known.
Start ==
  /\ job.step = "start"
  /\ proc' = "starting" /\ conf' = job.cfg /\ live' = job.cfg
  /\ job' = [job EXCEPT !.step = "refresh"]
  /\ Applied(Users)
  /\ missed' = (missed /\ job.cfg.core # wanted.core)
  /\ UNCHANGED <<dbVars, stopped, need, at, owed, checks, faults, orders>>

StartFails ==
  /\ job.step = "start" /\ faults < MaxFaults
  /\ faults' = faults + 1
  /\ conf' = job.cfg
  /\ Return(FALSE)
  /\ UNCHANGED <<dbVars, proc, live, stopped, checks, logVars, orders>>

RefreshAPIPort ==
  /\ job.step = "refresh"
  /\ proc' = IF Running THEN "up" ELSE "down"
  /\ Return(TRUE)
  /\ UNCHANGED <<dbVars, conf, live, stopped, checks, logVars, faults, orders>>

\* The process exits of itself.
Crash ==
  /\ Running /\ faults < MaxFaults
  /\ faults' = faults + 1
  /\ proc' = "down" /\ live' = Nothing
  /\ UNCHANGED <<dbVars, conf, stopped, need, jobVars, checks, logVars, orders>>

RestartStep ==
  \/ GetXrayConfig \/ ConfigFails \/ NothingToDo \/ TryHotApply \/ FullRestart
  \/ (\E u \in Users : HotRemove(u) \/ HotAdd(u)) \/ HotFails \/ HotDone
  \/ Stop \/ Start \/ StartFails \/ RefreshAPIPort

CallStep(u) == PushRemove(u) \/ PushAdd(u) \/ Finish(u)

Next ==
  \/ \E u \in Users : CallStep(u) \/ (\E v \in 0 .. Creds : Edit(u, v))
  \/ \E c \in {"traffic", "nodes"}, u \in Users : Poll(c, u)
  \/ (\E next \in {"flag", "template"} : Save(next)) \/ SetToNeedRestart \/ ApplyTemplate
  \/ ApplyPendingRestart \/ CheckXrayRunning \/ StopXray
  \/ \E c \in Callers : OrderRestart(c) \/ Lock(c)
  \/ RestartStep \/ Crash

\* Some call goes on while there is one, the two cron jobs run again and again,
\* whoever holds the lock goes on and one of those that wait gets it next.
Fairness ==
  /\ WF_vars(\E u \in Users : CallStep(u)) /\ WF_vars(SetToNeedRestart \/ ApplyTemplate)
  /\ WF_vars(RestartStep) /\ WF_vars(\E c \in Callers : Lock(c))
  /\ WF_vars(ApplyPendingRestart) /\ WF_vars(CheckXrayRunning)

Spec == Init /\ [][Next]_vars /\ Fairness

----------------------------------------------------------------------------
Settled ==
  /\ job = Free /\ ~need /\ saving = "no" /\ proc = "up"
  /\ \A c \in Callers : at[c] = "idle"
  /\ \A u \in Users : call[u].step = "idle"

\* Once nothing is in progress and no restart is due, the running Xray has the
\* users the database asks for, but for those whose edit a restart, a poll or a
\* failed push of the process's own overlapped.
Reconciled == Settled => \A u \in Users \ (raced \cup flaked) : live.users[u] = wanted.users[u]

\* The same, for the users that nothing overlapped: a failed push sets the
\* flag, and the restart that consumes it is to bring the user in line.
PendingApplied == Settled => \A u \in Users \ raced : live.users[u] = wanted.users[u]

\* What was saved is running once nothing is in progress, whatever overlapped:
\* the flag is set after the commit and read before the database; a template
\* alone may miss a restart that stopped the process, or whose read failed.
TemplateApplied == Settled /\ ~missed => live.core = wanted.core

\* Xray stays down after a manual stop, whichever job that does not force its
\* restart waited for the lock when it was given.  Those who force it undo the
\* stop: the operator, but also the node job after its poll disabled a client.
Down == stopped /\ job = Free => ~Running
StopHolds == []Down /\ [][stopped /\ ~stopped' => job'.who \in Forced]_vars

\* A crashed or failed Xray runs again, unless it is stopped by hand.
Recovers == ~Running /\ ~stopped ~> Running \/ stopped

\* What has been asked for is applied some day, unless Xray is stopped.
Converges == <>[](stopped \/ Settled)
=============================================================================
