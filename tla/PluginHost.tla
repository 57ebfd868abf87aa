----------------------------- MODULE PluginHost -----------------------------
(***************************************************************************)
(* The plugin host of one tenant (internal/plugins/host.go) with its       *)
(* registry (registry.go), health monitor (health.go) and data proxy       *)
(* (data_proxy.go), over the runtime and the store.                        *)
(*                                                                         *)
(* The host runs one operation at a time, under h.mu; tool calls, health   *)
(* checks, registry reloads and the data proxy go on in between, so an     *)
(* operation is split where another component looks at what it changes.    *)
(***************************************************************************)
EXTENDS PluginStore

CONSTANTS
    MaxFailures, MaxRecoveries, \* HealthMonitorConfig
    MaxOps,          \* bound: operations of the host, boots included
    MaxFaults        \* bound: reloads, failures, deaths of a process and
                     \* writes through the data proxy, together

VARIABLES
    op,          \* the operation of the host: its kind, plugin and next step
    registry,    \* [Plugins -> "none", "full" or "bare"]: entry without tools
    tools,       \* plugins whose tools are in the tool registry
    jobs,        \* plugins whose cron jobs are enabled
    snapshot,    \* rows LoadFromDB has read and not yet put in the registry
    checked,     \* [Plugins -> Clients or NoClient]: the client that the check
                 \* loop of the plugin pings, captured when it started
    health,      \* [Plugins -> Health]: pluginHealthState
    putting,     \* plugins that a Put of the data proxy has found enabled
    broken,      \* history: plugins whose last stop, start or save failed
    marked,      \* history: plugins the health monitor or a failed save left
                 \* running under a row that is not enabled
    overtaken,   \* history: plugins uninstalled while a Put was under way
    used         \* commands spent

hostVars == <<op, registry, tools, jobs, snapshot>>
healthVars == <<checked, health>>
historyVars == <<broken, marked, overtaken>>
vars == <<runtimeVars, storeVars, hostVars, healthVars, historyVars, putting, used>>

Kinds == {"enable", "disable", "uninstall", "update"}
Steps == {"start", "wire", "enabled", "unwire", "stop", "stopped"}
NoOp == [kind |-> "none", plugin |-> "none", at |-> "none"]
Off == [kind |-> "off", plugin |-> "none", at |-> "none"]
Idle == op = NoOp

\* next is what the last verdict has still to do to the row.
Health == [fails : Nat, inError : BOOLEAN, recoveries : Nat,
           next : {"none", "mark", "disable"}]
Healthy == [fails |-> 0, inError |-> FALSE, recoveries |-> 0, next |-> "none"]

Commands == {"op", "fault"}
Bound == [op |-> MaxOps, fault |-> MaxFaults]
Spend(c) == used[c] < Bound[c] /\ used' = [used EXCEPT ![c] = @ + 1]

Init ==
    /\ RuntimeInit /\ StoreInit
    /\ op = Off
    /\ registry = [p \in Plugins |-> "none"]
    /\ tools = {} /\ jobs = {} /\ snapshot = {}
    /\ checked = [p \in Plugins |-> NoClient]
    /\ health = [p \in Plugins |-> Healthy]
    /\ putting = {} /\ broken = {} /\ marked = {} /\ overtaken = {}
    /\ used = [c \in Commands |-> 0]

At(kind, p, at) == op' = [kind |-> kind, plugin |-> p, at |-> at]
Goto(at) == op' = [op EXCEPT !.at = at]
On(at) == op.kind \in Kinds /\ op.at = at
Done == op' = NoOp
Fresh(p) == {g \in Clients \ started : Owner[g] = p}
-----------------------------------------------------------------------------
(* Operations of the host. *)

\* checkDependencies and the insert; no other operation can come in between.
Install(p) ==
    /\ Idle /\ Spend("op")
    /\ \A d \in DependsOn[p] : Installed(d)
    /\ InstallPlugin(p)
    /\ UNCHANGED <<runtimeVars, hostVars, healthVars, historyVars, putting>>

Enable(p) ==
    /\ Idle /\ Spend("op") /\ Fresh(p) # {}
    /\ ValidTransition(row[p], "enabled")
    /\ At("enable", p, "start")
    /\ UNCHANGED <<runtimeVars, storeVars, registry, tools, jobs, snapshot,
                   healthVars, historyVars, putting>>

Disable(p) ==
    /\ Idle /\ Spend("op")
    /\ ValidTransition(row[p], "disabled")
    /\ At("disable", p, "unwire")
    /\ UNCHANGED <<runtimeVars, storeVars, registry, tools, jobs, snapshot,
                   healthVars, historyVars, putting>>

\* Mutated: only enabled plugins count as dependents.
Dependents_Enabled(p) == {q \in EnabledRows \ {p} : p \in DependsOn[q]}

Dependents(p) == {q \in Plugins \ {p} : Installed(q) /\ p \in DependsOn[q]}

\* A plugin that is not enabled is removed as it is: the process that one in
\* state error still has stays, with its tools.
Uninstall(p) ==
    /\ Idle /\ Spend("op")
    /\ Installed(p) /\ Dependents(p) = {}
    /\ At("uninstall", p, IF row[p] = "enabled" THEN "unwire" ELSE "stopped")
    /\ UNCHANGED <<runtimeVars, storeVars, registry, tools, jobs, snapshot,
                   healthVars, historyVars, putting>>

\* The configuration is saved; an enabled plugin is then restarted.
UpdateConfig(p) ==
    /\ Idle /\ Spend("op")
    /\ row[p] = "enabled" /\ Fresh(p) # {}
    /\ At("update", p, "unwire")
    /\ UNCHANGED <<runtimeVars, storeVars, registry, tools, jobs, snapshot,
                   healthVars, historyVars, putting>>
-----------------------------------------------------------------------------
(* enablePluginInternal and the save that follows it in Enable. *)

StartProcess(g) ==
    /\ On("start")
    /\ StartPlugin(op.plugin, g)
    /\ broken' = broken \ {op.plugin}
    /\ Goto("wire")
    /\ UNCHANGED <<storeVars, registry, tools, jobs, snapshot, healthVars,
                   marked, overtaken, putting, used>>

\* Mutated: the failure is logged by both callers.
StartFails_Logged ==
    /\ On("start") /\ Spend("fault")
    /\ IF op.kind = "enable" THEN Goto("enabled") ELSE Done
    /\ broken' = broken \cup (IF op.kind = "update" THEN {op.plugin} ELSE {})
    /\ UNCHANGED <<runtimeVars, storeVars, registry, tools, jobs, snapshot,
                   healthVars, marked, overtaken, putting>>

\* The client cannot be created, initialised or asked for its tools.  Enable
\* gives up; UpdateConfig only logs it and leaves the row enabled.
StartFails ==
    /\ On("start") /\ Spend("fault")
    /\ broken' = broken \cup (IF op.kind = "update" THEN {op.plugin} ELSE {})
    /\ Done
    /\ UNCHANGED <<runtimeVars, storeVars, registry, tools, jobs, snapshot,
                   healthVars, marked, overtaken, putting>>

\* Tools, tool group, event subscriptions, cron jobs, pinger, registry entry.
Wire ==
    /\ On("wire")
    /\ tools' = tools \cup {op.plugin} /\ jobs' = jobs \cup {op.plugin}
    /\ registry' = [registry EXCEPT ![op.plugin] = "full"]
    /\ IF op.kind = "enable" THEN Goto("enabled") ELSE Done
    /\ UNCHANGED <<runtimeVars, storeVars, snapshot, healthVars, historyVars,
                   putting, used>>

SaveEnabled ==
    /\ On("enabled")
    /\ SetState(op.plugin, "enabled")
    /\ marked' = marked \ {op.plugin}
    /\ Done
    /\ UNCHANGED <<runtimeVars, registry, tools, jobs, snapshot, healthVars,
                   broken, overtaken, putting, used>>

\* The process runs, the row says that it does not.
SaveEnabledFails ==
    /\ On("enabled") /\ Spend("fault")
    /\ marked' = marked \cup {op.plugin}
    /\ Done
    /\ UNCHANGED <<runtimeVars, storeVars, registry, tools, jobs, snapshot,
                   healthVars, broken, overtaken, putting>>
-----------------------------------------------------------------------------
(* disablePluginInternal and what follows it. *)

\* WaitInFlight has returned: no call was counted, or five seconds are over; new
\* calls go on either way.  The tools and the jobs to remove are those that the
\* registry names.
Unwire ==
    /\ On("unwire")
    /\ tools' = IF registry[op.plugin] = "full" THEN tools \ {op.plugin} ELSE tools
    /\ jobs' = IF registry[op.plugin] # "none" THEN jobs \ {op.plugin} ELSE jobs
    /\ Goto("stop")
    /\ UNCHANGED <<runtimeVars, storeVars, registry, snapshot, healthVars,
                   historyVars, putting, used>>

\* Mutated: a restart leaves it to the start to replace the process.
Stop_Restart ==
    /\ On("stop")
    /\ IF op.kind = "update" THEN UNCHANGED runtimeVars ELSE StopPlugin(op.plugin)
    /\ registry' = [registry EXCEPT ![op.plugin] = "none"]
    /\ Goto(IF op.kind = "update" THEN "start" ELSE "stopped")
    /\ UNCHANGED <<storeVars, tools, jobs, snapshot, healthVars, historyVars,
                   putting, used>>

Stop ==
    /\ On("stop")
    /\ StopPlugin(op.plugin)
    /\ registry' = [registry EXCEPT ![op.plugin] = "none"]
    /\ Goto(IF op.kind = "update" THEN "start" ELSE "stopped")
    /\ UNCHANGED <<storeVars, tools, jobs, snapshot, healthVars, historyVars,
                   putting, used>>

SaveStopped ==
    /\ On("stopped")
    /\ \/ op.kind = "disable" /\ SetState(op.plugin, "disabled")
       \/ op.kind = "uninstall" /\ UninstallPlugin(op.plugin)
    /\ overtaken' = overtaken \cup
         (IF op.kind = "uninstall" THEN {op.plugin} \cap putting ELSE {})
    /\ Done
    /\ UNCHANGED <<runtimeVars, registry, tools, jobs, snapshot, healthVars,
                   broken, marked, putting, used>>

\* The row stays as it was, with the process gone.
SaveStoppedFails ==
    /\ On("stopped") /\ Spend("fault")
    /\ broken' = broken \cup {op.plugin}
    /\ Done
    /\ UNCHANGED <<runtimeVars, storeVars, registry, tools, jobs, snapshot,
                   healthVars, marked, overtaken, putting>>
-----------------------------------------------------------------------------
(* The gateway starts, stops and dies. *)

\* Init of the host: the enabled plugins that start are S, the others are
\* logged and skipped.  The health monitor checks those registered by now, and
\* no plugin that is enabled later.
Boot(S) ==
    /\ op = Off /\ S \subseteq EnabledRows
    /\ S # EnabledRows => Spend("fault")
    /\ S = EnabledRows => UNCHANGED used
    /\ \A p \in S : Fresh(p) # {}
    /\ LET new == [p \in S |-> CHOOSE g \in Fresh(p) : TRUE]
           ids == {new[p] : p \in S}
       IN /\ process' = [p \in Plugins |-> IF p \in S THEN new[p] ELSE NoClient]
          /\ alive' = ids /\ started' = started \cup ids
          /\ checked' = process'
    /\ registry' = [p \in Plugins |-> IF p \in S THEN "full" ELSE "none"]
    /\ tools' = S /\ jobs' = S
    /\ broken' = EnabledRows \ S
    /\ op' = NoOp
    /\ UNCHANGED <<storeVars, breaker, call, snapshot, health, marked, overtaken,
                   putting>>

\* Shutdown between two operations, or a crash in the middle of one: every
\* process and everything in memory is gone, the rows stay.
Down ==
    /\ op # Off /\ Spend("fault")
    /\ op' = Off
    /\ process' = [p \in Plugins |-> NoClient] /\ alive' = {}
    /\ breaker' = [g \in Clients |-> NewBreaker]
    /\ call' = [c \in Callers |-> NoCall]
    /\ registry' = [p \in Plugins |-> "none"]
    /\ tools' = {} /\ jobs' = {} /\ snapshot' = {}
    /\ checked' = [p \in Plugins |-> NoClient]
    /\ health' = [p \in Plugins |-> Healthy]
    /\ putting' = {} /\ marked' = {}
    /\ UNCHANGED <<storeVars, started, broken, overtaken>>
-----------------------------------------------------------------------------
(* Tool calls, by an agent through the tool registry or by a cron job. *)

CallTool(c, p) ==
    /\ p \in tools \cup jobs
    /\ PickProcess(c, p)
    /\ UNCHANGED <<storeVars, hostVars, healthVars, historyVars, putting, used>>

CallProceeds(c) ==
    /\ CallStep(c)
    /\ UNCHANGED <<storeVars, hostVars, healthVars, historyVars, putting, used>>

TimePasses ==
    /\ \E g \in started : ResetElapses(g)
    /\ UNCHANGED <<storeVars, hostVars, healthVars, historyVars, putting, used>>

Dies ==
    /\ Spend("fault") /\ \E g \in Clients : ClientDies(g)
    /\ UNCHANGED <<storeVars, hostVars, healthVars, historyVars, putting>>
-----------------------------------------------------------------------------
(* The registry reloads on a message of PublishChange, its own included, and   *)
(* by polling: the entries of enabled rows replace all others.                 *)

ReadRows ==
    /\ op # Off /\ snapshot = {} /\ Spend("fault")
    /\ snapshot' = {EnabledRows}
    /\ UNCHANGED <<runtimeVars, storeVars, op, registry, tools, jobs, healthVars,
                   historyVars, putting>>

Reload ==
    /\ snapshot # {}
    /\ registry' = [p \in Plugins |-> IF p \in UNION snapshot THEN "bare" ELSE "none"]
    /\ snapshot' = {}
    /\ UNCHANGED <<runtimeVars, storeVars, op, tools, jobs, healthVars, historyVars,
                   putting, used>>
-----------------------------------------------------------------------------
(* The health monitor: one check loop per plugin that it knew at the start.    *)

Recovered(h) ==
    [h EXCEPT !.fails = 0, !.inError = FALSE,
              !.recoveries = IF h.inError THEN 0 ELSE @]

\* After MaxFailures failures in a row the plugin is marked; while it is in
\* error each further failure counts as a recovery attempt, until there were
\* MaxRecoveries of them or the time is up.  fails stops counting at its limit.
Failed(h) ==
    LET n == IF h.fails < MaxFailures THEN h.fails + 1 ELSE h.fails
        g == [h EXCEPT !.fails = n]
    IN IF h.inError
       THEN {[g EXCEPT !.inError = FALSE, !.next = "disable"]} \cup
            (IF h.recoveries < MaxRecoveries
             THEN {[g EXCEPT !.recoveries = @ + 1]} ELSE {})
       ELSE IF n >= MaxFailures
            THEN {[g EXCEPT !.inError = TRUE, !.recoveries = 0, !.next = "mark"]}
            ELSE {g}

\* A ping answers or fails, a live client's, too; what follows from it for the
\* database is carried out later.  autoDisable takes the plugin out of the
\* registry and leaves its process and tools.
Check(p) ==
    /\ checked[p] # NoClient /\ health[p].next = "none"
    /\ \/ checked[p] \in alive /\ health' = [health EXCEPT ![p] = Recovered(@)]
       \/ \E h \in Failed(health[p]) : health' = [health EXCEPT ![p] = h]
    /\ registry' = IF health'[p].next = "disable"
                   THEN [registry EXCEPT ![p] = "none"] ELSE registry
    /\ UNCHANGED <<runtimeVars, storeVars, op, tools, jobs, snapshot, checked,
                   historyVars, putting, used>>

\* SetPluginError or DisablePlugin, whatever became of the plugin meanwhile.
Mark(p) ==
    /\ health[p].next # "none"
    /\ \/ /\ SetState(p, IF health[p].next = "mark" THEN "error" ELSE "disabled")
          /\ UNCHANGED used
       \/ Spend("fault") /\ UNCHANGED storeVars
    /\ marked' = marked \cup {p}
    /\ health' = [health EXCEPT ![p].next = "none"]
    /\ UNCHANGED <<runtimeVars, hostVars, checked, broken, overtaken, putting>>
-----------------------------------------------------------------------------
(* The data proxy: the check and the write are two statements. *)

CheckPut(p) ==
    /\ op # Off /\ p \notin putting /\ row[p] = "enabled" /\ Spend("fault")
    /\ putting' = putting \cup {p}
    /\ UNCHANGED <<runtimeVars, storeVars, hostVars, healthVars, historyVars>>

Put(p) ==
    /\ p \in putting
    /\ PutData(p)
    /\ putting' = putting \ {p}
    /\ UNCHANGED <<runtimeVars, hostVars, healthVars, historyVars, used>>
-----------------------------------------------------------------------------
HostStep ==
    \/ \E g \in Clients : StartProcess(g)
    \/ StartFails \/ Wire \/ SaveEnabled \/ SaveEnabledFails
    \/ Unwire \/ Stop \/ SaveStopped \/ SaveStoppedFails

HealthStep(p) == Check(p) \/ Mark(p)

Next ==
    \/ \E p \in Plugins : \/ Install(p) \/ Enable(p) \/ Disable(p) \/ Uninstall(p)
                          \/ UpdateConfig(p) \/ HealthStep(p) \/ CheckPut(p) \/ Put(p)
    \/ \E S \in SUBSET Plugins : Boot(S)
    \/ HostStep \/ Down \/ ReadRows \/ Reload \/ TimePasses \/ Dies
    \/ \E c \in Callers : CallProceeds(c) \/ \E p \in Plugins : CallTool(c, p)

Spec == Init /\ [][Next]_vars
-----------------------------------------------------------------------------
(* Properties. *)

TypeOK ==
    /\ RuntimeTypeOK /\ StoreTypeOK
    /\ op \in {NoOp, Off} \cup [kind : Kinds, plugin : Plugins, at : Steps]
    /\ registry \in [Plugins -> {"none", "full", "bare"}]
    /\ tools \subseteq Plugins /\ jobs \subseteq Plugins
    /\ snapshot \subseteq SUBSET Plugins
    /\ checked \in [Plugins -> Clients \cup {NoClient}]
    /\ health \in [Plugins -> Health]
    /\ \A S \in {putting, broken, marked, overtaken} : S \subseteq Plugins
    /\ used \in [Commands -> Nat]

\* A call that outlives its process counts against the breaker of that process
\* and never against the one of the process that replaced it.
OldResultsStayOld ==
    [][\A g \in Clients : breaker'[g] # breaker[g] /\ call' # call /\ op' # Off =>
         \E c \in Callers : call[c].client = g /\ call'[c] # call[c]]_vars

\* A plugin that the database calls enabled has a process when the host rests:
\* no verdict of the health monitor, reload or interleaved call takes it away.
\* The exceptions are the failures the host only logs: a restart after a change
\* of the configuration, a start at boot, the save after a stop.
EnabledRuns ==
    Idle => \A p \in EnabledRows : process[p] # NoClient \/ p \in broken

\* A process that runs is replaced, and so left running with nobody to stop it,
\* only if the health monitor or a failed save had left it behind a row that is
\* not enabled.
NoSilentReplacement ==
    [][\A p \in Plugins : process[p] # NoClient /\ process'[p] \in Clients =>
         process'[p] = process[p] \/ p \in marked]_vars

\* Install and uninstall of several plugins keep the dependencies: whatever is
\* installed has everything it requires.
DependenciesInstalled ==
    \A p \in Plugins : Installed(p) => \A d \in DependsOn[p] : Installed(d)

\* Uninstall leaves no data behind, except for a write whose check of the row
\* came before the uninstall.
DataHasOwner ==
    \A p \in data : Installed(p) \/ p \in overtaken
=============================================================================
