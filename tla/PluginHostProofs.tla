-------------------------- MODULE PluginHostProofs --------------------------
(***************************************************************************)
(* Proofs about PluginHost, for every set of plugins, processes and calls  *)
(* and all thresholds and bounds: every property that the run checks.      *)
(***************************************************************************)
EXTENDS PluginHost, TLAPS

-----------------------------------------------------------------------------
(* Runtime: processes, breakers and calls. *)

\* A call that has looked up its process knows it.
BusyCallHasClient ==
    \A c \in Callers : call[c].at # "idle" => call[c].client \in Clients

RuntimeInv == RuntimeTypeOK /\ BusyCallHasClient /\ HalfOpenHasCall

LEMMA BreakerTypes ==
    ASSUME NEW b \in Breaker
    PROVE  /\ AfterAllow(b) \in Breaker /\ AfterSuccess(b) \in Breaker
           /\ AfterFailure(b) \in Breaker
           /\ AfterSuccess(b).state # "half-open" /\ AfterFailure(b).state # "half-open"
<1>1. /\ b.state \in {"closed", "open", "half-open"} /\ b.failures \in Nat
      /\ b.expired \in BOOLEAN
      /\ b = [state |-> b.state, failures |-> b.failures, expired |-> b.expired]
  BY DEF Breaker
<1>2. AfterAllow(b) \in Breaker
  BY <1>1 DEF Breaker, AfterAllow
<1>3. AfterSuccess(b) \in Breaker /\ AfterSuccess(b).state # "half-open"
  BY <1>1 DEF Breaker, AfterSuccess
<1>4. AfterFailure(b) \in Breaker /\ AfterFailure(b).state # "half-open"
  BY <1>1 DEF Breaker, AfterFailure
<1> QED
  BY <1>2, <1>3, <1>4

LEMMA NewTypes == NewBreaker \in Breaker /\ NewBreaker.state # "half-open" /\ NoCall \in Call
                  /\ NoCall.at = "idle"
BY DEF NewBreaker, Breaker, NoCall, Call

LEMMA RuntimeInit_Inv == RuntimeInit => RuntimeInv
BY NewTypes DEF RuntimeInit, RuntimeInv, RuntimeTypeOK, BusyCallHasClient, HalfOpenHasCall

LEMMA StartPlugin_Inv ==
    ASSUME RuntimeInv, NEW p \in Plugins, NEW g \in Clients, StartPlugin(p, g)
    PROVE  RuntimeInv'
<1> USE DEF RuntimeInv
<1>1. RuntimeTypeOK' BY NewTypes DEF RuntimeTypeOK, StartPlugin
<1>2. BusyCallHasClient' BY DEF BusyCallHasClient, StartPlugin
<1>3. HalfOpenHasCall' BY NewTypes DEF RuntimeTypeOK, HalfOpenHasCall, StartPlugin
<1> QED BY <1>1, <1>2, <1>3

LEMMA StopPlugin_Inv ==
    ASSUME RuntimeInv, NEW p \in Plugins, StopPlugin(p) PROVE RuntimeInv'
BY DEF RuntimeInv, RuntimeTypeOK, BusyCallHasClient, HalfOpenHasCall, StopPlugin

LEMMA PickProcess_Inv ==
    ASSUME RuntimeInv, NEW c \in Callers, NEW p \in Plugins, PickProcess(c, p)
    PROVE  RuntimeInv'
<1> USE DEF RuntimeInv
<1> DEFINE new == [at |-> "picked", client |-> process[p]]
<1>1. new \in Call /\ new.client \in Clients
  BY DEF RuntimeTypeOK, PickProcess, Call
<1>2. call' = [call EXCEPT ![c] = new] /\ call[c].at = "idle" BY DEF PickProcess
<1> HIDE DEF new
<1>3. RuntimeTypeOK' BY <1>1, <1>2 DEF RuntimeTypeOK, PickProcess
<1>4. BusyCallHasClient' BY <1>1, <1>2 DEF RuntimeTypeOK, BusyCallHasClient
<1>5. HalfOpenHasCall'
  <2>1. \A x \in Callers : call[x].at = "running" => call'[x] = call[x]
    BY <1>2 DEF RuntimeTypeOK
  <2> QED BY <2>1 DEF HalfOpenHasCall, PickProcess
<1> QED BY <1>3, <1>4, <1>5

LEMMA PassBreaker_Inv ==
    ASSUME RuntimeInv, NEW c \in Callers, PassBreaker(c) PROVE RuntimeInv'
<1> USE DEF RuntimeInv
<1> DEFINE g == call[c].client
<1>0. g \in Clients /\ call[c].at = "picked" /\ breaker[g] \in Breaker /\ call[c] \in Call
  BY DEF PassBreaker, BusyCallHasClient, RuntimeTypeOK
<1>1. CASE Allows(breaker[g])
  <2>1. /\ breaker' = [breaker EXCEPT ![g] = AfterAllow(breaker[g])]
        /\ call' = [call EXCEPT ![c].at = "running"]
    BY <1>1 DEF PassBreaker
  <2>2. call'[c] \in Call /\ call'[c].client = g /\ call'[c].at = "running"
    BY <1>0, <2>1 DEF RuntimeTypeOK, Call
  <2>3. \A x \in Callers : x # c => call'[x] = call[x] BY <2>1 DEF RuntimeTypeOK
  <2>4. RuntimeTypeOK'
    <3>1. call' \in [Callers -> Call] BY <2>1, <2>2, <2>3 DEF RuntimeTypeOK
    <3> QED BY <1>0, <2>1, <3>1, BreakerTypes DEF RuntimeTypeOK, PassBreaker
  <2>5. BusyCallHasClient' BY <1>0, <2>2, <2>3 DEF BusyCallHasClient
  <2>6. HalfOpenHasCall'
    <3>1. \A h \in Clients : h # g => breaker'[h] = breaker[h] BY <2>1 DEF RuntimeTypeOK
    <3> QED BY <1>0, <2>2, <2>3, <3>1 DEF HalfOpenHasCall
  <2> QED BY <2>4, <2>5, <2>6
<1>2. CASE ~Allows(breaker[g])
  <2>1. breaker' = breaker /\ call' = [call EXCEPT ![c] = NoCall]
    BY <1>2 DEF PassBreaker
  <2>2. RuntimeTypeOK' BY <2>1, NewTypes DEF RuntimeTypeOK, PassBreaker
  <2>3. BusyCallHasClient' BY <2>1, NewTypes DEF RuntimeTypeOK, BusyCallHasClient
  <2>4. HalfOpenHasCall'
    <3>1. \A x \in Callers : call[x].at = "running" => call'[x] = call[x]
      BY <1>0, <2>1 DEF RuntimeTypeOK
    <3> QED BY <2>1, <3>1 DEF HalfOpenHasCall
  <2> QED BY <2>2, <2>3, <2>4
<1> QED BY <1>1, <1>2

\* A result takes its breaker out of the half-open state, whenever its call began.
LEMMA FinishCall_Inv ==
    ASSUME RuntimeInv, NEW c \in Callers, NEW ok \in BOOLEAN, FinishCall(c, ok)
    PROVE  RuntimeInv'
<1> USE DEF RuntimeInv
<1> DEFINE g == call[c].client
           b == IF ok THEN AfterSuccess(breaker[g]) ELSE AfterFailure(breaker[g])
<1>0. g \in Clients /\ breaker[g] \in Breaker
  BY DEF FinishCall, BusyCallHasClient, RuntimeTypeOK
<1>1. b \in Breaker /\ b.state # "half-open" BY <1>0, BreakerTypes
<1>2. breaker' = [breaker EXCEPT ![g] = b] /\ call' = [call EXCEPT ![c] = NoCall]
  BY <1>0 DEF FinishCall, RuntimeTypeOK
<1> HIDE DEF b
<1>3. RuntimeTypeOK' BY <1>0, <1>1, <1>2, NewTypes DEF RuntimeTypeOK, FinishCall
<1>4. BusyCallHasClient' BY <1>2, NewTypes DEF RuntimeTypeOK, BusyCallHasClient
<1>5. HalfOpenHasCall'
  <2> SUFFICES ASSUME NEW h \in Clients, breaker'[h].state = "half-open"
               PROVE  \E x \in Callers : call'[x].client = h /\ call'[x].at = "running"
    BY DEF HalfOpenHasCall
  <2>1. h # g /\ breaker'[h] = breaker[h] BY <1>0, <1>1, <1>2 DEF RuntimeTypeOK
  <2>2. PICK x \in Callers : call[x].client = h /\ call[x].at = "running"
    BY <2>1 DEF HalfOpenHasCall
  <2>3. x # c BY <2>1, <2>2
  <2> QED BY <1>2, <2>2, <2>3 DEF RuntimeTypeOK
<1> QED BY <1>3, <1>4, <1>5

LEMMA ResetElapses_Inv ==
    ASSUME RuntimeInv, NEW g \in Clients, ResetElapses(g) PROVE RuntimeInv'
<1> USE DEF RuntimeInv
<1> DEFINE b == [breaker[g] EXCEPT !.expired = TRUE]
<1>1. b \in Breaker /\ b.state = "open"
  BY DEF RuntimeTypeOK, ResetElapses, Breaker
<1>2. breaker' = [breaker EXCEPT ![g] = b] BY DEF ResetElapses, RuntimeTypeOK
<1> HIDE DEF b
<1>3. RuntimeTypeOK' BY <1>1, <1>2 DEF RuntimeTypeOK, ResetElapses
<1>4. BusyCallHasClient' BY DEF BusyCallHasClient, ResetElapses
<1>5. HalfOpenHasCall' BY <1>1, <1>2 DEF RuntimeTypeOK, HalfOpenHasCall, ResetElapses
<1> QED BY <1>3, <1>4, <1>5

LEMMA ClientDies_Inv ==
    ASSUME RuntimeInv, NEW g \in Clients, ClientDies(g) PROVE RuntimeInv'
BY DEF RuntimeInv, RuntimeTypeOK, BusyCallHasClient, HalfOpenHasCall, ClientDies

LEMMA Runtime_Unchanged ==
    ASSUME RuntimeInv, UNCHANGED runtimeVars PROVE RuntimeInv'
BY DEF RuntimeInv, RuntimeTypeOK, BusyCallHasClient, HalfOpenHasCall, runtimeVars

-----------------------------------------------------------------------------
(* The operation of the host names a plugin while it is under way. *)

OpOK == op \in {NoOp, Off} \cup [kind : Kinds, plugin : Plugins, at : Steps]

LEMMA OpUnderWay ==
    ASSUME OpOK, op.kind \in Kinds
    PROVE  op \in [kind : Kinds, plugin : Plugins, at : Steps]
BY DEF OpOK, NoOp, Off, Kinds

LEMMA OpGoto ==
    ASSUME OpOK, op.kind \in Kinds, NEW at \in Steps, Goto(at) PROVE OpOK'
<1>1. op \in [kind : Kinds, plugin : Plugins, at : Steps] BY OpUnderWay
<1>2. op' \in [kind : Kinds, plugin : Plugins, at : Steps] BY <1>1 DEF Goto
<1> QED BY <1>2 DEF OpOK

LEMMA OpAt ==
    ASSUME NEW kind \in Kinds, NEW p \in Plugins, NEW at \in Steps, At(kind, p, at)
    PROVE  OpOK'
BY DEF OpOK, At

LEMMA OpDone == ASSUME Done PROVE OpOK'
BY DEF OpOK, Done

LEMMA OpKept == ASSUME OpOK, UNCHANGED op PROVE OpOK'
BY DEF OpOK

LEMMA Host_Op == OpOK /\ HostStep => OpOK'
<1> SUFFICES ASSUME OpOK, HostStep PROVE OpOK' OBVIOUS
<1> USE DEF Steps
<1>1. ASSUME NEW g \in Clients, StartProcess(g) PROVE OpOK'
  BY <1>1, OpGoto DEF StartProcess, On
<1>2. CASE StartFails BY <1>2, OpDone DEF StartFails
<1>3. CASE Wire BY <1>3, OpDone, OpGoto DEF Wire, On
<1>4. CASE SaveEnabled BY <1>4, OpDone DEF SaveEnabled
<1>5. CASE SaveEnabledFails BY <1>5, OpDone DEF SaveEnabledFails
<1>6. CASE Unwire BY <1>6, OpGoto DEF Unwire, On
<1>7. CASE Stop
  <2>1. CASE op.kind = "update" BY <1>7, <2>1, OpGoto DEF Stop, On
  <2>2. CASE op.kind # "update" BY <1>7, <2>2, OpGoto DEF Stop, On
  <2> QED BY <2>1, <2>2
<1>8. CASE SaveStopped BY <1>8, OpDone DEF SaveStopped
<1>9. CASE SaveStoppedFails BY <1>9, OpDone DEF SaveStoppedFails
<1> QED BY <1>1, <1>2, <1>3, <1>4, <1>5, <1>6, <1>7, <1>8, <1>9 DEF HostStep

LEMMA Step_Op == OpOK /\ Next => OpOK'
<1> SUFFICES ASSUME OpOK, Next PROVE OpOK' OBVIOUS
<1>1. ASSUME NEW p \in Plugins,
             \/ Install(p) \/ Enable(p) \/ Disable(p) \/ Uninstall(p)
             \/ UpdateConfig(p) \/ HealthStep(p) \/ CheckPut(p) \/ Put(p)
      PROVE  OpOK'
  <2>1. CASE Install(p) BY <2>1, OpKept DEF Install, hostVars
  <2>2. CASE Enable(p) BY <2>2, OpAt DEF Enable, Kinds, Steps
  <2>3. CASE Disable(p) BY <2>3, OpAt DEF Disable, Kinds, Steps
  <2>4. CASE Uninstall(p)
    <3>1. CASE row[p] = "enabled" BY <2>4, <3>1, OpAt DEF Uninstall, Kinds, Steps
    <3>2. CASE row[p] # "enabled" BY <2>4, <3>2, OpAt DEF Uninstall, Kinds, Steps
    <3> QED BY <3>1, <3>2
  <2>5. CASE UpdateConfig(p) BY <2>5, OpAt DEF UpdateConfig, Kinds, Steps
  <2>6. CASE HealthStep(p) BY <2>6, OpKept DEF HealthStep, Check, Mark, hostVars
  <2>7. CASE CheckPut(p) BY <2>7, OpKept DEF CheckPut, hostVars
  <2>8. CASE Put(p) BY <2>8, OpKept DEF Put, hostVars
  <2> QED BY <1>1, <2>1, <2>2, <2>3, <2>4, <2>5, <2>6, <2>7, <2>8
<1>2. ASSUME NEW S \in SUBSET Plugins, Boot(S) PROVE OpOK'
  BY <1>2 DEF Boot, OpOK
<1>3. CASE HostStep BY <1>3, Host_Op
<1>4. CASE Down BY <1>4 DEF Down, OpOK
<1>5. CASE ReadRows \/ Reload \/ TimePasses \/ Dies
  BY <1>5, OpKept DEF ReadRows, Reload, TimePasses, Dies, hostVars
<1>6. ASSUME NEW c \in Callers, CallProceeds(c) \/ \E p \in Plugins : CallTool(c, p)
      PROVE  OpOK'
  BY <1>6, OpKept DEF CallProceeds, CallTool, hostVars
<1> QED BY <1>1, <1>2, <1>3, <1>4, <1>5, <1>6 DEF Next

-----------------------------------------------------------------------------
(* The steps of the host, the health monitor and the proxy, as the runtime     *)
(* sees them.                                                                  *)

LEMMA Boot_Runtime ==
    ASSUME RuntimeInv, NEW S \in SUBSET Plugins, Boot(S) PROVE RuntimeInv'
<1> USE DEF RuntimeInv
<1> DEFINE new == [p \in S |-> CHOOSE g \in Fresh(p) : TRUE]
           ids == {new[p] : p \in S}
<1>1. \A p \in S : new[p] \in Clients
  BY DEF Boot, Fresh
<1>2. /\ process' = [p \in Plugins |-> IF p \in S THEN new[p] ELSE NoClient]
      /\ alive' = ids /\ started' = started \cup ids
      /\ UNCHANGED <<breaker, call>>
  BY DEF Boot
<1> HIDE DEF new
<1>3. RuntimeTypeOK' BY <1>1, <1>2 DEF RuntimeTypeOK
<1>4. BusyCallHasClient' /\ HalfOpenHasCall'
  BY <1>2 DEF BusyCallHasClient, HalfOpenHasCall
<1> QED BY <1>3, <1>4

LEMMA Down_Runtime == ASSUME RuntimeInv, Down PROVE RuntimeInv'
<1>1. /\ process' = [p \in Plugins |-> NoClient] /\ alive' = {}
      /\ breaker' = [g \in Clients |-> NewBreaker]
      /\ call' = [c \in Callers |-> NoCall]
      /\ started' = started
  BY DEF Down
<1> QED
  BY <1>1, NewTypes DEF RuntimeInv, RuntimeTypeOK, BusyCallHasClient, HalfOpenHasCall

LEMMA Host_Runtime == RuntimeInv /\ OpOK /\ HostStep => RuntimeInv'
<1> SUFFICES ASSUME RuntimeInv, OpOK, HostStep PROVE RuntimeInv' OBVIOUS
<1>1. ASSUME op.kind \in Kinds PROVE op.plugin \in Plugins
  BY <1>1, OpUnderWay
<1>2. ASSUME NEW g \in Clients, StartProcess(g) PROVE RuntimeInv'
  BY <1>1, <1>2, StartPlugin_Inv DEF StartProcess, On
<1>3. CASE Stop BY <1>1, <1>3, StopPlugin_Inv DEF Stop, On
<1>4. CASE \/ StartFails \/ Wire \/ SaveEnabled \/ SaveEnabledFails
           \/ Unwire \/ SaveStopped \/ SaveStoppedFails
  BY <1>4, Runtime_Unchanged
  DEF StartFails, Wire, SaveEnabled, SaveEnabledFails, Unwire, SaveStopped, SaveStoppedFails
<1> QED BY <1>2, <1>3, <1>4 DEF HostStep

LEMMA Call_Runtime ==
    ASSUME RuntimeInv, NEW c \in Callers, CallStep(c) PROVE RuntimeInv'
BY PassBreaker_Inv, FinishCall_Inv DEF CallStep

LEMMA Step_Runtime == RuntimeInv /\ OpOK /\ Next => RuntimeInv'
<1> SUFFICES ASSUME RuntimeInv, OpOK, Next PROVE RuntimeInv' OBVIOUS
<1>1. ASSUME NEW p \in Plugins,
             \/ Install(p) \/ Enable(p) \/ Disable(p) \/ Uninstall(p)
             \/ UpdateConfig(p) \/ HealthStep(p) \/ CheckPut(p) \/ Put(p)
      PROVE  RuntimeInv'
  BY <1>1, Runtime_Unchanged
  DEF Install, Enable, Disable, Uninstall, UpdateConfig, HealthStep, Check, Mark, CheckPut, Put
<1>2. ASSUME NEW S \in SUBSET Plugins, Boot(S) PROVE RuntimeInv'
  BY <1>2, Boot_Runtime
<1>3. CASE HostStep BY <1>3, Host_Runtime
<1>4. CASE Down BY <1>4, Down_Runtime
<1>5. CASE ReadRows \/ Reload BY <1>5, Runtime_Unchanged DEF ReadRows, Reload
<1>6. CASE TimePasses
  <2>1. PICK g \in started : ResetElapses(g) BY <1>6 DEF TimePasses
  <2>2. g \in Clients BY DEF RuntimeInv, RuntimeTypeOK
  <2> QED BY <2>1, <2>2, ResetElapses_Inv
<1>7. CASE Dies BY <1>7, ClientDies_Inv DEF Dies
<1>8. ASSUME NEW c \in Callers, CallProceeds(c) \/ \E p \in Plugins : CallTool(c, p)
      PROVE  RuntimeInv'
  BY <1>8, Call_Runtime, PickProcess_Inv DEF CallProceeds, CallTool
<1> QED BY <1>1, <1>2, <1>3, <1>4, <1>5, <1>6, <1>7, <1>8 DEF Next
-----------------------------------------------------------------------------
(* Rows, data and the writes under way. *)

\* Nothing that is being uninstalled is required by anything installed: no
\* other operation comes in between, and the health monitor installs nothing.
UninstallUnneeded == op.kind = "uninstall" => Dependents(op.plugin) = {}

\* A write that has passed its check finds the row, or the uninstall that
\* removed it is remembered.
PutsOwned == \A p \in putting : Installed(p) \/ p \in overtaken

StoreInv ==
    /\ StoreTypeOK /\ putting \subseteq Plugins
    /\ UninstallUnneeded /\ DependenciesInstalled
    /\ PutsOwned /\ DataHasOwner

LEMMA Init_Store == Init => StoreInv
<1> SUFFICES ASSUME Init PROVE StoreInv OBVIOUS
<1>1. row \in InitialRows /\ data = {} /\ putting = {} /\ op = Off
  BY DEF Init, StoreInit
<1>2. StoreTypeOK BY <1>1, StoreAssumption DEF StoreTypeOK
<1>3. DependenciesInstalled BY <1>1, StoreAssumption DEF DependenciesInstalled, Installed
<1>4. UninstallUnneeded BY <1>1 DEF UninstallUnneeded, Off
<1> QED BY <1>1, <1>2, <1>3, <1>4 DEF StoreInv, PutsOwned, DataHasOwner

\* A step that changes no row but between two states of an installed plugin.
LEMMA SetState_Store ==
    ASSUME StoreInv, NEW p \in Plugins, NEW s \in State \ {"none"}, SetState(p, s),
           op'.kind # "uninstall" \/ UNCHANGED op, UNCHANGED <<putting, overtaken>>
    PROVE  StoreInv'
<1> USE DEF StoreInv
<1>1. \A q \in Plugins : Installed(q)' <=> Installed(q)
  BY DEF SetState, StoreTypeOK, Installed
<1>2. StoreTypeOK' BY DEF SetState, StoreTypeOK
<1>3. UninstallUnneeded'
  BY <1>1 DEF UninstallUnneeded, Dependents
<1>4. DependenciesInstalled'
  BY <1>1, StoreAssumption DEF DependenciesInstalled
<1>5. PutsOwned' BY <1>1 DEF PutsOwned
<1>6. DataHasOwner' BY <1>1 DEF DataHasOwner, SetState, StoreTypeOK
<1> QED BY <1>2, <1>3, <1>4, <1>5, <1>6

LEMMA Store_Unchanged ==
    ASSUME StoreInv, UNCHANGED <<storeVars, putting, overtaken>>,
           op'.kind = "uninstall" => op.kind = "uninstall" /\ op'.plugin = op.plugin
    PROVE  StoreInv'
BY DEF storeVars, StoreInv, StoreTypeOK, UninstallUnneeded, DependenciesInstalled,
       PutsOwned, DataHasOwner, Dependents, Installed

LEMMA Install_Store ==
    ASSUME StoreInv, NEW p \in Plugins, Install(p) PROVE StoreInv'
<1> USE DEF StoreInv
<1>1. /\ op.kind # "uninstall" /\ op' = op /\ putting' = putting /\ overtaken' = overtaken
      /\ \A d \in DependsOn[p] : Installed(d)
      /\ data' = data /\ row' = [row EXCEPT ![p] = "installed"]
  BY DEF Install, Idle, NoOp, hostVars, historyVars, InstallPlugin
<1>2. \A q \in Plugins : Installed(q)' <=> Installed(q) \/ q = p
  BY <1>1 DEF StoreTypeOK, Installed
<1>3. StoreTypeOK' BY <1>1 DEF StoreTypeOK, State
<1>4. UninstallUnneeded' BY <1>1 DEF UninstallUnneeded
<1>5. DependenciesInstalled' BY <1>1, <1>2, StoreAssumption DEF DependenciesInstalled
<1>6. PutsOwned' BY <1>1, <1>2 DEF PutsOwned
<1>7. DataHasOwner' BY <1>1, <1>2 DEF DataHasOwner, StoreTypeOK
<1> QED BY <1>1, <1>3, <1>4, <1>5, <1>6, <1>7

LEMMA Uninstall_Store ==
    ASSUME StoreInv, NEW p \in Plugins, Uninstall(p) PROVE StoreInv'
<1>1. /\ op'.plugin = p /\ Dependents(p) = {}
      /\ UNCHANGED <<storeVars, putting, overtaken>>
  BY DEF Uninstall, At, historyVars
<1>2. Dependents(p)' = Dependents(p)
  BY <1>1 DEF Dependents, Installed, storeVars
<1>3. UninstallUnneeded' BY <1>1, <1>2 DEF UninstallUnneeded
<1> QED
  BY <1>1, <1>3
  DEF storeVars, StoreInv, StoreTypeOK, DependenciesInstalled, PutsOwned, DataHasOwner, Installed

\* The row goes, and with it the data; a write whose check came first is
\* remembered.
LEMMA UninstallPlugin_Store ==
    ASSUME StoreInv, OpOK, SaveStopped, op.kind = "uninstall" PROVE StoreInv'
<1> USE DEF StoreInv
<1> DEFINE p == op.plugin
<1>1. /\ op'.kind # "uninstall" /\ putting' = putting
      /\ overtaken' = overtaken \cup ({p} \cap putting)
      /\ row' = [row EXCEPT ![p] = "none"] /\ data' = data \ {p}
      /\ p \in Plugins /\ Dependents(p) = {}
  BY OpUnderWay DEF SaveStopped, On, Done, NoOp, UninstallPlugin, UninstallUnneeded
<1> HIDE DEF p
<1>2. \A q \in Plugins : Installed(q)' <=> Installed(q) /\ q # p
  BY <1>1 DEF StoreTypeOK, Installed
<1>3. StoreTypeOK' BY <1>1 DEF StoreTypeOK, State
<1>4. UninstallUnneeded' BY <1>1 DEF UninstallUnneeded
<1>5. DependenciesInstalled'
  BY <1>1, <1>2, StoreAssumption DEF DependenciesInstalled, Dependents
<1>6. PutsOwned' BY <1>1, <1>2 DEF PutsOwned
<1>7. DataHasOwner' BY <1>1, <1>2 DEF DataHasOwner, StoreTypeOK
<1> QED BY <1>1, <1>3, <1>4, <1>5, <1>6, <1>7

LEMMA Host_Store == StoreInv /\ OpOK /\ HostStep => StoreInv'
<1> SUFFICES ASSUME StoreInv, OpOK, HostStep PROVE StoreInv' OBVIOUS
<1>1. ASSUME op.kind \in Kinds
      PROVE  op.plugin \in Plugins /\ op = [kind |-> op.kind, plugin |-> op.plugin, at |-> op.at]
  BY <1>1, OpUnderWay
<1>2. ASSUME NEW at, op.kind \in Kinds, Goto(at)
      PROVE  op'.plugin = op.plugin /\ op'.kind = op.kind
  BY <1>1, <1>2 DEF Goto
<1>3. ASSUME Done PROVE op'.kind # "uninstall"
  BY <1>3 DEF Done, NoOp
<1>4. ASSUME NEW g \in Clients, StartProcess(g) PROVE StoreInv'
  BY <1>2, <1>4, Store_Unchanged DEF StartProcess, On
<1>5. CASE StartFails
  <2>1. UNCHANGED <<storeVars, putting, overtaken>> /\ Done
    BY <1>5 DEF StartFails
  <2> QED BY <1>3, <2>1, Store_Unchanged
<1>6. CASE Wire
  <2>1. /\ UNCHANGED <<storeVars, putting, overtaken>> /\ op.kind \in Kinds
        /\ Goto("enabled") \/ Done
    BY <1>6 DEF Wire, On, historyVars
  <2> QED BY <1>2, <1>3, <2>1, Store_Unchanged
<1>7. CASE SaveEnabled
  BY <1>1, <1>3, <1>7, SetState_Store DEF SaveEnabled, On, State
<1>8. CASE SaveEnabledFails \/ SaveStoppedFails
  <2>1. UNCHANGED <<storeVars, putting, overtaken>> /\ Done
    BY <1>8 DEF SaveEnabledFails, SaveStoppedFails
  <2> QED BY <1>3, <2>1, Store_Unchanged
<1>9. CASE Unwire
  BY <1>2, <1>9, Store_Unchanged DEF Unwire, On, historyVars
<1>10. CASE Stop
  BY <1>2, <1>10, Store_Unchanged DEF Stop, On, historyVars
<1>11. CASE SaveStopped
  <2>1. CASE op.kind = "uninstall" BY <1>11, <2>1, UninstallPlugin_Store
  <2>2. CASE op.kind # "uninstall"
    <3>1. SetState(op.plugin, "disabled") /\ UNCHANGED <<putting, overtaken>> /\ Done
          /\ op.kind \in Kinds
      BY <1>11, <2>2 DEF SaveStopped, On
    <3> QED BY <1>1, <1>3, <3>1, SetState_Store DEF State
  <2> QED BY <2>1, <2>2
<1> QED
  BY <1>4, <1>5, <1>6, <1>7, <1>8, <1>9, <1>10, <1>11 DEF HostStep

LEMMA Step_Store == StoreInv /\ OpOK /\ Next => StoreInv'
<1> SUFFICES ASSUME StoreInv, OpOK, Next PROVE StoreInv' OBVIOUS
<1>1. ASSUME NEW p \in Plugins,
             \/ Install(p) \/ Enable(p) \/ Disable(p) \/ Uninstall(p)
             \/ UpdateConfig(p) \/ HealthStep(p) \/ CheckPut(p) \/ Put(p)
      PROVE  StoreInv'
  <2>1. CASE Install(p) BY <2>1, Install_Store
  <2>2. CASE Enable(p) \/ Disable(p) \/ UpdateConfig(p)
    <3>1. UNCHANGED <<storeVars, putting, overtaken>>
      BY <2>2 DEF Enable, Disable, UpdateConfig, historyVars
    <3>2. op'.kind \in {"enable", "disable", "update"}
      BY <2>2 DEF Enable, Disable, UpdateConfig, At
    <3> QED BY <3>1, <3>2, Store_Unchanged
  <2>3. CASE Uninstall(p) BY <2>3, Uninstall_Store
  <2>4. CASE Check(p)
    BY <2>4, Store_Unchanged DEF Check, historyVars
  <2>5. CASE Mark(p)
    <3>1. CASE UNCHANGED storeVars
      BY <2>5, <3>1, Store_Unchanged DEF Mark, hostVars
    <3>2. CASE SetState(p, IF health[p].next = "mark" THEN "error" ELSE "disabled")
      BY <2>5, <3>2, SetState_Store DEF Mark, hostVars, State
    <3> QED BY <2>5, <3>1, <3>2 DEF Mark
  <2>6. CASE CheckPut(p)
    <3>1. /\ UNCHANGED <<row, data, op, overtaken>>
          /\ putting' = putting \cup {p} /\ row[p] = "enabled"
      BY <2>6 DEF CheckPut, storeVars, hostVars, historyVars
    <3> QED
      BY <3>1 DEF StoreInv, StoreTypeOK, UninstallUnneeded, DependenciesInstalled,
                  PutsOwned, DataHasOwner, Dependents, Installed
  <2>7. CASE Put(p)
    <3>1. /\ UNCHANGED <<row, op, overtaken>> /\ data' = data \cup {p}
          /\ p \in putting /\ putting' = putting \ {p}
      BY <2>7 DEF Put, PutData, hostVars, historyVars
    <3> QED
      BY <3>1 DEF StoreInv, StoreTypeOK, UninstallUnneeded, DependenciesInstalled,
                  PutsOwned, DataHasOwner, Dependents, Installed
  <2> QED BY <1>1, <2>1, <2>2, <2>3, <2>4, <2>5, <2>6, <2>7 DEF HealthStep
<1>2. ASSUME NEW S \in SUBSET Plugins, Boot(S) PROVE StoreInv'
  <2>1. UNCHANGED <<storeVars, putting, overtaken>> /\ op' = NoOp
    BY <1>2 DEF Boot
  <2> QED BY <2>1, Store_Unchanged DEF NoOp
<1>3. CASE HostStep BY <1>3, Host_Store
<1>4. CASE Down
  <2>1. UNCHANGED storeVars /\ putting' = {} /\ op'.kind # "uninstall" /\ overtaken' = overtaken
    BY <1>4 DEF Down, Off
  <2> QED
    BY <2>1 DEF storeVars, StoreInv, StoreTypeOK, UninstallUnneeded, DependenciesInstalled,
                PutsOwned, DataHasOwner, Installed
<1>5. CASE ReadRows \/ Reload \/ TimePasses \/ Dies
  BY <1>5, Store_Unchanged DEF ReadRows, Reload, TimePasses, Dies, hostVars, historyVars
<1>6. ASSUME NEW c \in Callers, CallProceeds(c) \/ \E p \in Plugins : CallTool(c, p)
      PROVE  StoreInv'
  BY <1>6, Store_Unchanged DEF CallProceeds, CallTool, hostVars, historyVars
<1> QED BY <1>1, <1>2, <1>3, <1>4, <1>5, <1>6 DEF Next

-----------------------------------------------------------------------------
(* The rest of the types. *)

\* What the registry, the tools, the health monitor and the histories hold.
BooksOK ==
    /\ registry \in [Plugins -> {"none", "full", "bare"}]
    /\ tools \subseteq Plugins /\ jobs \subseteq Plugins
    /\ snapshot \subseteq SUBSET Plugins
    /\ checked \in [Plugins -> Clients \cup {NoClient}]
    /\ health \in [Plugins -> Health]
    /\ broken \subseteq Plugins /\ marked \subseteq Plugins /\ overtaken \subseteq Plugins
    /\ used \in [Commands -> Nat]

LEMMA HealthTypes ==
    ASSUME NEW h \in Health
    PROVE  /\ Recovered(h) \in Health /\ Failed(h) \subseteq Health
           /\ [h EXCEPT !.next = "none"] \in Health
<1>1. /\ h.fails \in Nat /\ h.inError \in BOOLEAN /\ h.recoveries \in Nat
      /\ h.next \in {"none", "mark", "disable"}
      /\ h = [fails |-> h.fails, inError |-> h.inError, recoveries |-> h.recoveries,
              next |-> h.next]
  BY DEF Health
<1>2. Recovered(h) \in Health
  BY <1>1 DEF Health, Recovered
<1>3. [h EXCEPT !.next = "none"] \in Health
  BY <1>1 DEF Health
<1>4. Failed(h) \subseteq Health
  <2> DEFINE n == IF h.fails < MaxFailures THEN h.fails + 1 ELSE h.fails
             g == [h EXCEPT !.fails = n]
  <2>1. n \in Nat
    BY <1>1
  <2>2. g = [fails |-> n, inError |-> h.inError, recoveries |-> h.recoveries,
             next |-> h.next]
    BY <1>1
  <2> HIDE DEF n, g
  <2>3. [g EXCEPT !.inError = FALSE, !.next = "disable"] \in Health
    BY <1>1, <2>1, <2>2 DEF Health
  <2>4. [g EXCEPT !.recoveries = @ + 1] \in Health
    <3>1. g \in Health /\ g.recoveries + 1 \in Nat
      BY <1>1, <2>1, <2>2 DEF Health
    <3> QED
      BY <3>1 DEF Health
  <2>5. [g EXCEPT !.inError = TRUE, !.recoveries = 0, !.next = "mark"] \in Health
    BY <1>1, <2>1, <2>2 DEF Health
  <2>6. g \in Health
    BY <1>1, <2>1, <2>2 DEF Health
  <2>7. Failed(h) \subseteq {[g EXCEPT !.inError = FALSE, !.next = "disable"],
                            [g EXCEPT !.recoveries = @ + 1],
                            [g EXCEPT !.inError = TRUE, !.recoveries = 0, !.next = "mark"], g}
    BY DEF Failed, n, g
  <2> QED
    BY <2>3, <2>4, <2>5, <2>6, <2>7
<1> QED
  BY <1>2, <1>3, <1>4

LEMMA SpendType ==
    ASSUME used \in [Commands -> Nat], NEW c \in Commands, Spend(c)
    PROVE  used' \in [Commands -> Nat]
BY DEF Spend, Commands

LEMMA Init_Books == Init => BooksOK
BY DEF Init, BooksOK, Healthy, Health, Commands

LEMMA Host_Books == BooksOK /\ OpOK /\ putting \subseteq Plugins /\ HostStep => BooksOK'
<1> SUFFICES ASSUME BooksOK, OpOK, putting \subseteq Plugins, HostStep PROVE BooksOK' OBVIOUS
<1> USE DEF Commands
<1>1. ASSUME op.kind \in Kinds PROVE op.plugin \in Plugins
  BY <1>1, OpUnderWay
<1>2. used' \in [Commands -> Nat]
  <2>1. UNCHANGED used \/ Spend("fault")
    BY DEF HostStep, StartProcess, StartFails, Wire, SaveEnabled, SaveEnabledFails, Unwire,
           Stop, SaveStopped, SaveStoppedFails
  <2> QED BY <2>1, SpendType DEF BooksOK
<1>3. ASSUME NEW g \in Clients, StartProcess(g) PROVE BooksOK'
  BY <1>2, <1>3 DEF BooksOK, StartProcess, healthVars
<1>4. CASE StartFails
  BY <1>1, <1>2, <1>4 DEF BooksOK, StartFails, On, healthVars
<1>5. CASE Wire
  BY <1>1, <1>2, <1>5 DEF BooksOK, Wire, On, healthVars, historyVars
<1>6. CASE SaveEnabled
  BY <1>2, <1>6 DEF BooksOK, SaveEnabled, healthVars
<1>7. CASE SaveEnabledFails
  BY <1>1, <1>2, <1>7 DEF BooksOK, SaveEnabledFails, On, healthVars
<1>8. CASE Unwire
  BY <1>2, <1>8 DEF BooksOK, Unwire, healthVars, historyVars
<1>9. CASE Stop
  BY <1>2, <1>9 DEF BooksOK, Stop, healthVars, historyVars
<1>10. CASE SaveStopped
  <2>1. overtaken' \subseteq Plugins
    BY <1>10 DEF BooksOK, SaveStopped
  <2> QED BY <1>2, <1>10, <2>1 DEF BooksOK, SaveStopped, healthVars
<1>11. CASE SaveStoppedFails
  BY <1>1, <1>2, <1>11 DEF BooksOK, SaveStoppedFails, On, healthVars
<1> QED
  BY <1>3, <1>4, <1>5, <1>6, <1>7, <1>8, <1>9, <1>10, <1>11 DEF HostStep

LEMMA Health_Books ==
    ASSUME BooksOK, NEW p \in Plugins, HealthStep(p) PROVE BooksOK'
<1>1. used' \in [Commands -> Nat]
  <2>1. UNCHANGED used \/ Spend("fault")
    BY DEF HealthStep, Check, Mark
  <2> QED BY <2>1, SpendType DEF BooksOK, Commands
<1>2. health[p] \in Health BY DEF BooksOK
<1>3. health' \in [Plugins -> Health]
  <2>1. CASE Check(p)
    <3>1. CASE health' = [health EXCEPT ![p] = Recovered(health[p])]
      BY <1>2, <3>1, HealthTypes DEF BooksOK
    <3>2. ASSUME NEW h \in Failed(health[p]), health' = [health EXCEPT ![p] = h]
          PROVE  health' \in [Plugins -> Health]
      BY <1>2, <3>2, HealthTypes DEF BooksOK
    <3> QED BY <2>1, <3>1, <3>2 DEF Check, BooksOK
  <2>2. CASE Mark(p)
    <3>1. health' = [health EXCEPT ![p] = [health[p] EXCEPT !.next = "none"]]
      BY <2>2 DEF Mark, BooksOK
    <3> QED BY <1>2, <3>1, HealthTypes DEF BooksOK
  <2> QED BY <2>1, <2>2 DEF HealthStep
<1>4. CASE Check(p)
  <2>1. registry' \in [Plugins -> {"none", "full", "bare"}]
    BY <1>4 DEF Check, BooksOK
  <2> QED BY <1>1, <1>3, <1>4, <2>1 DEF BooksOK, Check, historyVars
<1>5. CASE Mark(p)
  BY <1>1, <1>3, <1>5 DEF BooksOK, Mark, hostVars
<1> QED BY <1>4, <1>5 DEF HealthStep

LEMMA Boot_Books ==
    ASSUME BooksOK, RuntimeInv, NEW S \in SUBSET Plugins, Boot(S) PROVE BooksOK'
<1>1. used' \in [Commands -> Nat]
  <2>1. UNCHANGED used \/ Spend("fault")
    BY DEF Boot
  <2> QED BY <2>1, SpendType DEF BooksOK, Commands
<1>2. process' \in [Plugins -> Clients \cup {NoClient}]
  BY Boot_Runtime DEF RuntimeInv, RuntimeTypeOK
<1>3. /\ checked' = process' /\ tools' = S /\ jobs' = S /\ broken' = EnabledRows \ S
      /\ registry' = [p \in Plugins |-> IF p \in S THEN "full" ELSE "none"]
      /\ UNCHANGED <<snapshot, health, marked, overtaken>>
  BY DEF Boot
<1> QED BY <1>1, <1>2, <1>3 DEF BooksOK, EnabledRows

LEMMA Down_Books == ASSUME BooksOK, Down PROVE BooksOK'
<1>1. used' \in [Commands -> Nat]
  BY SpendType DEF BooksOK, Down, Commands
<1>2. Healthy \in Health BY DEF Healthy, Health
<1>3. /\ registry' = [p \in Plugins |-> "none"] /\ tools' = {} /\ jobs' = {} /\ snapshot' = {}
      /\ checked' = [p \in Plugins |-> NoClient]
      /\ health' = [p \in Plugins |-> Healthy]
      /\ marked' = {} /\ UNCHANGED <<broken, overtaken>>
  BY DEF Down
<1> QED BY <1>1, <1>2, <1>3 DEF BooksOK

LEMMA Step_Books ==
    BooksOK /\ OpOK /\ RuntimeInv /\ putting \subseteq Plugins /\ Next => BooksOK'
<1> SUFFICES ASSUME BooksOK, OpOK, RuntimeInv, putting \subseteq Plugins, Next
             PROVE  BooksOK'
  OBVIOUS
<1>1. ASSUME NEW p \in Plugins,
             \/ Install(p) \/ Enable(p) \/ Disable(p) \/ Uninstall(p)
             \/ UpdateConfig(p) \/ HealthStep(p) \/ CheckPut(p) \/ Put(p)
      PROVE  BooksOK'
  <2>1. CASE HealthStep(p) BY <2>1, Health_Books
  <2>2. CASE \/ Install(p) \/ Enable(p) \/ Disable(p) \/ Uninstall(p)
             \/ UpdateConfig(p) \/ CheckPut(p) \/ Put(p)
    <3>1. UNCHANGED used \/ Spend("op") \/ Spend("fault")
      BY <2>2 DEF Install, Enable, Disable, Uninstall, UpdateConfig, CheckPut, Put
    <3>2. used' \in [Commands -> Nat]
      BY <3>1, SpendType DEF BooksOK, Commands
    <3>3. UNCHANGED <<registry, tools, jobs, snapshot, checked, health, broken, marked,
                      overtaken>>
      BY <2>2 DEF Install, Enable, Disable, Uninstall, UpdateConfig, CheckPut, Put,
                  hostVars, healthVars, historyVars
    <3> QED BY <3>2, <3>3 DEF BooksOK
  <2> QED BY <1>1, <2>1, <2>2
<1>2. ASSUME NEW S \in SUBSET Plugins, Boot(S) PROVE BooksOK'
  BY <1>2, Boot_Books
<1>3. CASE HostStep BY <1>3, Host_Books
<1>4. CASE Down BY <1>4, Down_Books
<1>5. CASE ReadRows
  <2>1. used' \in [Commands -> Nat]
    BY <1>5, SpendType DEF BooksOK, ReadRows, Commands
  <2> QED
    BY <1>5, <2>1 DEF BooksOK, ReadRows, EnabledRows, healthVars, historyVars
<1>6. CASE Reload
  <2>1. registry' \in [Plugins -> {"none", "full", "bare"}]
    BY <1>6 DEF Reload
  <2> QED BY <1>6, <2>1 DEF BooksOK, Reload, healthVars, historyVars
<1>7. CASE TimePasses
  BY <1>7 DEF BooksOK, TimePasses, hostVars, healthVars, historyVars
<1>8. CASE Dies
  <2>1. used' \in [Commands -> Nat]
    BY <1>8, SpendType DEF BooksOK, Dies, Commands
  <2> QED BY <1>8, <2>1 DEF BooksOK, Dies, hostVars, healthVars, historyVars
<1>9. ASSUME NEW c \in Callers, CallProceeds(c) \/ \E p \in Plugins : CallTool(c, p)
      PROVE  BooksOK'
  BY <1>9 DEF BooksOK, CallProceeds, CallTool, hostVars, healthVars, historyVars
<1> QED BY <1>1, <1>2, <1>3, <1>4, <1>5, <1>6, <1>7, <1>8, <1>9 DEF Next

-----------------------------------------------------------------------------
(* Processes against rows. *)

\* The operation has taken the process of an enabled plugin away and has still
\* to say so in the row, or to start another.
Between(p) ==
    op.plugin = p /\ (op.at = "stopped" \/ (op.kind = "update" /\ op.at = "start"))

\* The operation has started a process and has still to save the row.
Starting(p) == op.plugin = p /\ op.kind = "enable" /\ op.at \in {"wire", "enabled"}

EnabledServed ==
    op # Off => \A p \in Plugins :
      row[p] = "enabled" => process[p] # NoClient \/ p \in broken \/ Between(p)

RunningAccounted ==
    \A p \in Plugins :
      process[p] # NoClient => row[p] = "enabled" \/ p \in marked \/ Starting(p)

NothingRunsWhenOff == op = Off => \A p \in Plugins : process[p] = NoClient

\* What each step of an operation may rely on.
StepsInOrder ==
    op.kind \in Kinds =>
      /\ op.at \in {"start", "stopped"} =>
           process[op.plugin] = NoClient \/ op.plugin \in marked
      /\ op.at \in {"wire", "enabled"} => process[op.plugin] # NoClient
      /\ op.kind = "enable" =>
           op.at \in {"start", "wire", "enabled"} /\ row[op.plugin] \notin {"none", "enabled"}
      /\ op.kind = "update" =>
           /\ op.at \in {"unwire", "stop", "start", "wire"}
           /\ row[op.plugin] = "enabled" \/ op.plugin \in marked
      /\ op.kind \in {"disable", "uninstall"} => op.at \in {"unwire", "stop", "stopped"}

ProcessInv ==
    EnabledServed /\ RunningAccounted /\ NothingRunsWhenOff /\ StepsInOrder

Typed == RuntimeTypeOK /\ StoreTypeOK /\ OpOK

LEMMA Init_Process == Init => ProcessInv
BY DEF Init, RuntimeInit, ProcessInv, EnabledServed, RunningAccounted, NothingRunsWhenOff,
       StepsInOrder, Off, Kinds

\* Steps that disturb none of the variables of the invariant but the histories,
\* which only grow.
LEMMA Process_Unchanged ==
    ASSUME ProcessInv, UNCHANGED <<op, process, row>>, broken \subseteq broken',
           marked \subseteq marked'
    PROVE  ProcessInv'
BY DEF ProcessInv, EnabledServed, RunningAccounted, NothingRunsWhenOff, StepsInOrder,
       Between, Starting

LEMMA Begin_Process ==
    ASSUME ProcessInv, Typed, NEW p \in Plugins,
           Enable(p) \/ Disable(p) \/ Uninstall(p) \/ UpdateConfig(p)
    PROVE  ProcessInv'
<1> USE DEF ProcessInv
<1>1. op = NoOp /\ UNCHANGED <<process, row, broken, marked>>
  BY DEF Enable, Disable, Uninstall, UpdateConfig, Idle, runtimeVars, storeVars, historyVars
<1>2. \A q \in Plugins : row[q] = "enabled" => process[q] # NoClient \/ q \in broken
  BY <1>1 DEF EnabledServed, NoOp, Off, Between
<1>3. \A q \in Plugins : process[q] # NoClient => row[q] = "enabled" \/ q \in marked
  BY <1>1 DEF RunningAccounted, NoOp, Starting
<1>4. EnabledServed' BY <1>1, <1>2 DEF EnabledServed
<1>5. RunningAccounted' BY <1>1, <1>3 DEF RunningAccounted
<1>6. op' # Off
  BY DEF Enable, Disable, Uninstall, UpdateConfig, At, Off
<1>7. StepsInOrder'
  <2>1. CASE Enable(p)
    <3>1. op' = [kind |-> "enable", plugin |-> p, at |-> "start"]
      BY <2>1 DEF Enable, At
    <3>2. row[p] \notin {"none", "enabled"}
      BY <2>1 DEF Enable, ValidTransition
    <3> QED BY <1>1, <1>3, <3>1, <3>2 DEF StepsInOrder
  <2>2. CASE Disable(p)
    <3>1. op' = [kind |-> "disable", plugin |-> p, at |-> "unwire"]
      BY <2>2 DEF Disable, At
    <3> QED BY <3>1 DEF StepsInOrder
  <2>3. CASE Uninstall(p)
    <3>1. op' = [kind |-> "uninstall", plugin |-> p,
                 at |-> IF row[p] = "enabled" THEN "unwire" ELSE "stopped"]
      BY <2>3 DEF Uninstall, At
    <3> QED BY <1>1, <1>3, <3>1 DEF StepsInOrder
  <2>4. CASE UpdateConfig(p)
    <3>1. op' = [kind |-> "update", plugin |-> p, at |-> "unwire"] /\ row[p] = "enabled"
      BY <2>4 DEF UpdateConfig, At
    <3> QED BY <1>1, <3>1 DEF StepsInOrder
  <2> QED BY <2>1, <2>2, <2>3, <2>4
<1> QED BY <1>4, <1>5, <1>6, <1>7 DEF NothingRunsWhenOff

LEMMA Host_Process == ProcessInv /\ Typed /\ HostStep => ProcessInv'
<1> SUFFICES ASSUME ProcessInv, Typed, HostStep PROVE ProcessInv' OBVIOUS
<1> USE DEF ProcessInv
<1> DEFINE p == op.plugin
<1>1. op.kind \in Kinds
  BY DEF HostStep, StartProcess, StartFails, Wire, SaveEnabled, SaveEnabledFails, Unwire,
         Stop, SaveStopped, SaveStoppedFails, On
<1>2. /\ p \in Plugins /\ op.at \in Steps
      /\ op = [kind |-> op.kind, plugin |-> p, at |-> op.at]
      /\ process \in [Plugins -> Clients \cup {NoClient}] /\ row \in [Plugins -> State]
  BY <1>1, OpUnderWay DEF Typed, RuntimeTypeOK, StoreTypeOK
<1>3. ASSUME NEW at, Goto(at)
      PROVE  op' = [kind |-> op.kind, plugin |-> p, at |-> at]
  BY <1>2, <1>3 DEF Goto
<1>4. op # Off BY <1>1 DEF Off, Kinds
<1>5. ASSUME NEW g \in Clients, StartProcess(g) PROVE ProcessInv'
  <2>1. /\ op.at = "start" /\ process' = [process EXCEPT ![p] = g]
        /\ broken' = broken \ {p} /\ UNCHANGED <<row, marked>>
        /\ op' = [kind |-> op.kind, plugin |-> p, at |-> "wire"]
    BY <1>3, <1>5 DEF StartProcess, On, StartPlugin, storeVars
  <2>2. g # NoClient BY RuntimeAssumption
  <2>3. op.kind \in {"enable", "update"}
    BY <1>1, <2>1 DEF StepsInOrder, Kinds
  <2>4. EnabledServed'
    BY <1>2, <1>4, <2>1, <2>2 DEF EnabledServed, Between
  <2>5. RunningAccounted'
    BY <1>1, <1>2, <2>1, <2>3 DEF RunningAccounted, Starting, StepsInOrder
  <2>6. StepsInOrder'
    BY <1>1, <1>2, <2>1, <2>2, <2>3 DEF StepsInOrder
  <2> QED BY <2>1, <1>1, <2>4, <2>5, <2>6 DEF NothingRunsWhenOff, Off, Kinds
<1>6. CASE StartFails
  <2>1. /\ op.at = "start" /\ UNCHANGED <<row, process, marked>> /\ op' = NoOp
        /\ broken' = broken \cup (IF op.kind = "update" THEN {p} ELSE {})
    BY <1>6 DEF StartFails, On, runtimeVars, storeVars, Done
  <2>2. EnabledServed'
    BY <1>1, <1>4, <2>1 DEF EnabledServed, Between, StepsInOrder, Kinds
  <2>3. RunningAccounted'
    BY <2>1 DEF RunningAccounted, Starting
  <2> QED BY <2>1, <2>2, <2>3 DEF NothingRunsWhenOff, StepsInOrder, NoOp, Off, Kinds
<1>7. CASE Wire
  <2>1. op.at = "wire" /\ UNCHANGED <<row, process, marked, broken>>
    BY <1>7 DEF Wire, On, runtimeVars, storeVars, historyVars
  <2>2. CASE op.kind = "enable"
    <3>1. op' = [kind |-> op.kind, plugin |-> p, at |-> "enabled"]
      BY <1>3, <1>7, <2>2 DEF Wire
    <3>2. EnabledServed' BY <1>4, <2>1, <2>2, <3>1 DEF EnabledServed, Between
    <3>3. RunningAccounted' BY <2>1, <2>2, <3>1 DEF RunningAccounted, Starting
    <3>4. StepsInOrder' BY <1>1, <2>1, <2>2, <3>1 DEF StepsInOrder
    <3> QED BY <2>2, <3>1, <3>2, <3>3, <3>4 DEF NothingRunsWhenOff, Off
  <2>3. CASE op.kind # "enable"
    <3>1. op' = NoOp BY <1>7, <2>3 DEF Wire, Done
    <3>2. EnabledServed' BY <1>4, <2>1, <3>1 DEF EnabledServed, Between
    <3>3. RunningAccounted' BY <2>1, <2>3, <3>1 DEF RunningAccounted, Starting
    <3> QED BY <3>1, <3>2, <3>3 DEF NothingRunsWhenOff, StepsInOrder, NoOp, Off, Kinds
  <2> QED BY <2>2, <2>3
<1>8. CASE SaveEnabled
  <2>1. /\ op.at = "enabled" /\ UNCHANGED <<process, broken>> /\ op' = NoOp
        /\ marked' = marked \ {p} /\ SetState(p, "enabled")
    BY <1>8 DEF SaveEnabled, On, runtimeVars, Done
  <2>2. row[p] # "none" /\ process[p] # NoClient
    BY <1>1, <2>1 DEF StepsInOrder, Kinds
  <2>3. row' = [row EXCEPT ![p] = "enabled"]
    BY <2>1, <2>2 DEF SetState, Installed
  <2>4. EnabledServed'
    BY <1>2, <1>4, <2>1, <2>2, <2>3 DEF EnabledServed, Between
  <2>5. RunningAccounted'
    BY <1>2, <2>1, <2>3 DEF RunningAccounted, Starting
  <2> QED BY <2>1, <2>4, <2>5 DEF NothingRunsWhenOff, StepsInOrder, NoOp, Off, Kinds
<1>9. CASE SaveEnabledFails
  <2>1. /\ op.at = "enabled" /\ UNCHANGED <<process, broken, row>> /\ op' = NoOp
        /\ marked' = marked \cup {p}
    BY <1>9 DEF SaveEnabledFails, On, runtimeVars, storeVars, Done
  <2>2. EnabledServed' BY <1>4, <2>1 DEF EnabledServed, Between
  <2>3. RunningAccounted' BY <2>1 DEF RunningAccounted, Starting
  <2> QED BY <2>1, <2>2, <2>3 DEF NothingRunsWhenOff, StepsInOrder, NoOp, Off, Kinds
<1>10. CASE Unwire
  <2>1. /\ op.at = "unwire" /\ UNCHANGED <<row, process, marked, broken>>
        /\ op' = [kind |-> op.kind, plugin |-> p, at |-> "stop"]
    BY <1>3, <1>10 DEF Unwire, On, runtimeVars, storeVars, historyVars
  <2>2. EnabledServed' BY <1>4, <2>1 DEF EnabledServed, Between
  <2>3. RunningAccounted' BY <2>1 DEF RunningAccounted, Starting
  <2>4. StepsInOrder' BY <1>1, <2>1 DEF StepsInOrder
  <2> QED BY <1>1, <2>1, <2>2, <2>3, <2>4 DEF NothingRunsWhenOff, Off, Kinds
<1>11. CASE Stop
  <2>1. /\ op.at = "stop" /\ UNCHANGED <<row, marked, broken>>
        /\ process' = [process EXCEPT ![p] = NoClient]
        /\ op' = [kind |-> op.kind, plugin |-> p,
                  at |-> IF op.kind = "update" THEN "start" ELSE "stopped"]
    BY <1>3, <1>11 DEF Stop, On, StopPlugin, storeVars, historyVars
  <2>2. EnabledServed' BY <1>2, <1>4, <2>1 DEF EnabledServed, Between
  <2>3. RunningAccounted' BY <1>2, <2>1 DEF RunningAccounted, Starting
  <2>4. StepsInOrder' BY <1>1, <1>2, <2>1 DEF StepsInOrder
  <2> QED BY <1>1, <2>1, <2>2, <2>3, <2>4 DEF NothingRunsWhenOff, Off, Kinds
<1>12. CASE SaveStopped
  <2>1. /\ op.at = "stopped" /\ UNCHANGED <<process, broken, marked>> /\ op' = NoOp
    BY <1>12 DEF SaveStopped, On, runtimeVars, Done
  <2>2. \A q \in Plugins : q # p => row'[q] = row[q]
    BY <1>2, <1>12 DEF SaveStopped, SetState, UninstallPlugin
  <2>3. row'[p] # "enabled"
    BY <1>2, <1>12 DEF SaveStopped, SetState, UninstallPlugin, Installed
  <2>4. EnabledServed' BY <1>4, <2>1, <2>2, <2>3 DEF EnabledServed, Between
  <2>5. RunningAccounted'
    BY <1>1, <2>1, <2>2 DEF RunningAccounted, Starting, StepsInOrder
  <2> QED BY <2>1, <2>4, <2>5 DEF NothingRunsWhenOff, StepsInOrder, NoOp, Off, Kinds
<1>13. CASE SaveStoppedFails
  <2>1. /\ op.at = "stopped" /\ UNCHANGED <<process, row, marked>> /\ op' = NoOp
        /\ broken' = broken \cup {p}
    BY <1>13 DEF SaveStoppedFails, On, runtimeVars, storeVars, Done
  <2>2. EnabledServed' BY <1>4, <2>1 DEF EnabledServed, Between
  <2>3. RunningAccounted' BY <2>1 DEF RunningAccounted, Starting
  <2> QED BY <2>1, <2>2, <2>3 DEF NothingRunsWhenOff, StepsInOrder, NoOp, Off, Kinds
<1> QED
  BY <1>5, <1>6, <1>7, <1>8, <1>9, <1>10, <1>11, <1>12, <1>13 DEF HostStep

LEMMA Mark_Process ==
    ASSUME ProcessInv, Typed, NEW p \in Plugins, Mark(p) PROVE ProcessInv'
<1> USE DEF ProcessInv
<1>1. UNCHANGED <<op, process, broken>> /\ marked' = marked \cup {p}
  BY DEF Mark, runtimeVars, hostVars
<1>2. CASE UNCHANGED storeVars
  BY <1>1, <1>2, Process_Unchanged DEF storeVars
<1>3. CASE SetState(p, IF health[p].next = "mark" THEN "error" ELSE "disabled")
  <2>1. /\ \A q \in Plugins : q # p => row'[q] = row[q]
        /\ row'[p] # "enabled" /\ (row[p] # "none" => row'[p] # "none")
    BY <1>3 DEF Typed, StoreTypeOK, SetState, Installed
  <2>2. EnabledServed' BY <1>1, <2>1 DEF EnabledServed, Between
  <2>3. RunningAccounted' BY <1>1, <2>1 DEF RunningAccounted, Starting
  <2>4. StepsInOrder'
    BY <1>1, <2>1, OpUnderWay DEF Typed, StepsInOrder
  <2> QED BY <1>1, <2>2, <2>3, <2>4 DEF NothingRunsWhenOff
<1> QED BY <1>2, <1>3 DEF Mark

LEMMA Step_Process == ProcessInv /\ Typed /\ Next => ProcessInv'
<1> SUFFICES ASSUME ProcessInv, Typed, Next PROVE ProcessInv' OBVIOUS
<1>1. ASSUME NEW p \in Plugins,
             \/ Install(p) \/ Enable(p) \/ Disable(p) \/ Uninstall(p)
             \/ UpdateConfig(p) \/ HealthStep(p) \/ CheckPut(p) \/ Put(p)
      PROVE  ProcessInv'
  <2>1. CASE Install(p)
    <3>1. /\ UNCHANGED <<op, process, broken, marked>> /\ op = NoOp
          /\ row[p] = "none" /\ row' = [row EXCEPT ![p] = "installed"]
      BY <2>1 DEF Install, Idle, InstallPlugin, Installed, runtimeVars, hostVars, historyVars
    <3>2. \A q \in Plugins : row'[q] = "enabled" <=> row[q] = "enabled"
      BY <3>1 DEF Typed, StoreTypeOK
    <3> QED
      BY <3>1, <3>2 DEF ProcessInv, EnabledServed, RunningAccounted, NothingRunsWhenOff,
                        StepsInOrder, Between, Starting, NoOp, Off, Kinds
  <2>2. CASE Enable(p) \/ Disable(p) \/ Uninstall(p) \/ UpdateConfig(p)
    BY <2>2, Begin_Process
  <2>3. CASE Check(p)
    BY <2>3, Process_Unchanged DEF Check, runtimeVars, storeVars, historyVars
  <2>4. CASE Mark(p) BY <2>4, Mark_Process
  <2>5. CASE CheckPut(p) \/ Put(p)
    BY <2>5, Process_Unchanged
    DEF CheckPut, Put, PutData, runtimeVars, storeVars, hostVars, historyVars
  <2> QED BY <1>1, <2>1, <2>2, <2>3, <2>4, <2>5 DEF HealthStep
<1>2. ASSUME NEW S \in SUBSET Plugins, Boot(S) PROVE ProcessInv'
  <2> DEFINE new == [p \in S |-> CHOOSE g \in Fresh(p) : TRUE]
  <2>1. \A p \in S : new[p] # NoClient
    BY <1>2, RuntimeAssumption DEF Boot, Fresh
  <2>2. /\ process' = [p \in Plugins |-> IF p \in S THEN new[p] ELSE NoClient]
        /\ broken' = EnabledRows \ S /\ op' = NoOp /\ row' = row /\ S \subseteq EnabledRows
    BY <1>2 DEF Boot, storeVars
  <2> HIDE DEF new
  <2>3. EnabledServed' BY <2>1, <2>2 DEF EnabledServed, EnabledRows
  <2>4. RunningAccounted' BY <2>2 DEF RunningAccounted, EnabledRows
  <2> QED
    BY <2>2, <2>3, <2>4 DEF ProcessInv, NothingRunsWhenOff, StepsInOrder, NoOp, Off, Kinds
<1>3. CASE HostStep BY <1>3, Host_Process
<1>4. CASE Down
  <2>1. op' = Off /\ process' = [p \in Plugins |-> NoClient]
    BY <1>4 DEF Down
  <2> QED
    BY <2>1 DEF ProcessInv, EnabledServed, RunningAccounted, NothingRunsWhenOff,
                StepsInOrder, Off, Kinds
<1>5. CASE ReadRows \/ Reload \/ TimePasses \/ Dies
  BY <1>5, Process_Unchanged
  DEF ReadRows, Reload, TimePasses, ResetElapses, Dies, ClientDies, runtimeVars, storeVars,
      hostVars, historyVars
<1>6. ASSUME NEW c \in Callers, CallProceeds(c) \/ \E p \in Plugins : CallTool(c, p)
      PROVE  ProcessInv'
  BY <1>6, Process_Unchanged
  DEF CallProceeds, CallStep, PassBreaker, FinishCall, CallTool, PickProcess, storeVars,
      hostVars, historyVars
<1> QED BY <1>1, <1>2, <1>3, <1>4, <1>5, <1>6 DEF Next

-----------------------------------------------------------------------------
(* The theorems. *)

\* Any step, of the host or of others, changes processes in one of these ways.
LEMMA ProcessSteps ==
    ASSUME Next
    PROVE  \/ UNCHANGED process
           \/ process' = [p \in Plugins |-> NoClient]
           \/ Stop
           \/ \E g \in Clients : StartProcess(g)
           \/ op = Off
<1>1. ASSUME NEW p \in Plugins,
             \/ Install(p) \/ Enable(p) \/ Disable(p) \/ Uninstall(p)
             \/ UpdateConfig(p) \/ HealthStep(p) \/ CheckPut(p) \/ Put(p)
      PROVE  UNCHANGED process
  BY <1>1 DEF Install, Enable, Disable, Uninstall, UpdateConfig, HealthStep, Check, Mark,
              CheckPut, Put, runtimeVars
<1>2. ASSUME NEW S \in SUBSET Plugins, Boot(S) PROVE op = Off
  BY <1>2 DEF Boot
<1>3. CASE HostStep
  BY <1>3 DEF HostStep, StartFails, Wire, SaveEnabled, SaveEnabledFails, Unwire, SaveStopped,
              SaveStoppedFails, runtimeVars
<1>4. CASE Down BY <1>4 DEF Down
<1>5. CASE ReadRows \/ Reload \/ TimePasses \/ Dies
  BY <1>5 DEF ReadRows, Reload, TimePasses, ResetElapses, Dies, ClientDies, runtimeVars
<1>6. ASSUME NEW c \in Callers, CallProceeds(c) \/ \E p \in Plugins : CallTool(c, p)
      PROVE  UNCHANGED process
  BY <1>6 DEF CallProceeds, CallStep, PassBreaker, FinishCall, CallTool, PickProcess
<1> QED BY <1>1, <1>2, <1>3, <1>4, <1>5, <1>6 DEF Next

\* Breaker and call change together only where a call passes its breaker or ends.
LEMMA BreakerSteps ==
    ASSUME Next, op' # Off, breaker' # breaker, call' # call
    PROVE  \E c \in Callers : CallStep(c)
<1>1. ASSUME NEW p \in Plugins,
             \/ Install(p) \/ Enable(p) \/ Disable(p) \/ Uninstall(p)
             \/ UpdateConfig(p) \/ HealthStep(p) \/ CheckPut(p) \/ Put(p)
      PROVE  FALSE
  BY <1>1 DEF Install, Enable, Disable, Uninstall, UpdateConfig, HealthStep, Check, Mark,
              CheckPut, Put, runtimeVars
<1>2. ASSUME NEW S \in SUBSET Plugins, Boot(S) PROVE FALSE
  BY <1>2 DEF Boot
<1>3. CASE HostStep
  BY <1>3 DEF HostStep, StartProcess, StartPlugin, StartFails, Wire, SaveEnabled,
              SaveEnabledFails, Unwire, Stop, StopPlugin, SaveStopped, SaveStoppedFails,
              runtimeVars
<1>4. CASE Down BY <1>4 DEF Down
<1>5. CASE ReadRows \/ Reload \/ TimePasses \/ Dies
  BY <1>5 DEF ReadRows, Reload, TimePasses, ResetElapses, Dies, ClientDies, runtimeVars
<1>6. ASSUME NEW c \in Callers, NEW p \in Plugins, CallTool(c, p) PROVE FALSE
  BY <1>6 DEF CallTool, PickProcess
<1>7. ASSUME NEW c \in Callers, CallProceeds(c) PROVE CallStep(c)
  BY <1>7 DEF CallProceeds
<1> QED BY <1>1, <1>2, <1>3, <1>4, <1>5, <1>6, <1>7 DEF Next

HostInv == RuntimeInv /\ OpOK /\ StoreInv /\ BooksOK /\ ProcessInv

LEMMA HostInvariant == Spec => []HostInv
<1>1. Init => HostInv
  BY RuntimeInit_Inv, Init_Store, Init_Books, Init_Process DEF Init, HostInv, OpOK
<1>2. HostInv /\ [Next]_vars => HostInv'
  <2>1. ASSUME HostInv, Next PROVE HostInv'
    BY <2>1, Step_Runtime, Step_Op, Step_Store, Step_Books, Step_Process
    DEF HostInv, StoreInv, RuntimeInv, Typed
  <2>2. ASSUME HostInv, UNCHANGED vars PROVE HostInv'
    <3>1. RuntimeInv'
      BY <2>2, Runtime_Unchanged DEF HostInv, vars
    <3>2. OpOK'
      BY <2>2, OpKept DEF HostInv, vars, hostVars
    <3>3. StoreInv'
      BY <2>2, Store_Unchanged DEF HostInv, vars, hostVars, historyVars
    <3>4. BooksOK'
      BY <2>2 DEF HostInv, BooksOK, vars, hostVars, healthVars, historyVars
    <3>5. ProcessInv'
      BY <2>2, Process_Unchanged DEF HostInv, vars, runtimeVars, storeVars, hostVars,
                                     historyVars
    <3> QED BY <3>1, <3>2, <3>3, <3>4, <3>5 DEF HostInv
  <2> QED BY <2>1, <2>2
<1> QED BY <1>1, <1>2, PTL DEF Spec

\* Host, registry, monitor, runtime and store keep their types: in particular an
\* operation under way names a plugin and a call under way a process.
THEOREM HostTypeOK == Spec => []TypeOK
<1>1. HostInv => TypeOK
  BY DEF HostInv, RuntimeInv, OpOK, StoreInv, BooksOK, TypeOK
<1> QED BY <1>1, HostInvariant, PTL

\* A half-open breaker is never left alone: whatever calls of earlier states of
\* the breaker end late and whatever stops and restarts come in between, a call
\* that will end the half-open state is under way (circuit.go).
THEOREM HostHalfOpenHasCall == Spec => []HalfOpenHasCall
<1>1. HostInv => HalfOpenHasCall
  BY DEF HostInv, RuntimeInv
<1> QED BY <1>1, HostInvariant, PTL

\* Installs, uninstalls and everything that goes on between their steps keep the
\* requirements of all installed plugins installed (host.go).
THEOREM HostDependenciesInstalled == Spec => []DependenciesInstalled
<1>1. HostInv => DependenciesInstalled
  BY DEF HostInv, StoreInv
<1> QED BY <1>1, HostInvariant, PTL

\* Data of the proxy belongs to an installed plugin, but for writes whose check
\* an uninstall has overtaken (data_proxy.go).
THEOREM HostDataHasOwner == Spec => []DataHasOwner
<1>1. HostInv => DataHasOwner
  BY DEF HostInv, StoreInv
<1> QED BY <1>1, HostInvariant, PTL

\* Between two operations every plugin whose row says enabled has a process,
\* unless a restart, a start at boot or a save failed and was only logged
\* (host.go): no order of operations, verdicts and reloads takes it away.
THEOREM HostEnabledRuns == Spec => []EnabledRuns
<1>1. HostInv => EnabledRuns
  BY DEF HostInv, ProcessInv, EnabledServed, EnabledRuns, Idle, EnabledRows, NoOp, Off,
         Between
<1> QED BY <1>1, HostInvariant, PTL

\* StartPlugin stores a process over a running one, which nobody can stop any
\* more, only after the health monitor or a failed save had left that one behind
\* a row that is not enabled (runtime.go, host.go).
THEOREM HostNoSilentReplacement == Spec => NoSilentReplacement
<1> DEFINE Kept(p) == process[p] # NoClient /\ process'[p] \in Clients =>
                        process'[p] = process[p] \/ p \in marked
<1>1. ASSUME HostInv, [Next]_vars, NEW p \in Plugins PROVE Kept(p)
  <2> USE <1>1 DEF HostInv, ProcessInv
  <2>1. process \in [Plugins -> Clients \cup {NoClient}]
    BY DEF RuntimeInv, RuntimeTypeOK
  <2>2. CASE UNCHANGED process BY <2>2
  <2>3. CASE process' = [q \in Plugins |-> NoClient]
    BY <2>3, RuntimeAssumption
  <2>4. CASE Stop
    BY <2>1, <2>4, RuntimeAssumption DEF Stop, StopPlugin
  <2>5. ASSUME NEW g \in Clients, StartProcess(g) PROVE Kept(p)
    <3>1. process[op.plugin] = NoClient \/ op.plugin \in marked
      BY <2>5 DEF StartProcess, On, StepsInOrder
    <3>2. process' = [process EXCEPT ![op.plugin] = g]
      BY <2>5 DEF StartProcess, StartPlugin
    <3> QED BY <2>1, <3>1, <3>2
  <2>6. CASE op = Off BY <2>6 DEF NothingRunsWhenOff
  <2>7. CASE UNCHANGED vars BY <2>7 DEF vars, runtimeVars
  <2> QED BY <2>2, <2>3, <2>4, <2>5, <2>6, <2>7, ProcessSteps
<1>2. HostInv /\ [Next]_vars => [\A p \in Plugins : Kept(p)]_vars
  BY <1>1
<1> QED BY <1>2, HostInvariant, PTL DEF Spec, NoSilentReplacement

\* The result of a call is recorded in the breaker of the process the call was
\* made to, also when that process was stopped or replaced meanwhile (CallTool of
\* runtime.go reads process and breaker together).
THEOREM HostOldResultsStayOld == Spec => OldResultsStayOld
<1> DEFINE Own(g) == breaker'[g] # breaker[g] /\ call' # call /\ op' # Off =>
                       \E c \in Callers : call[c].client = g /\ call'[c] # call[c]
<1>1. ASSUME HostInv, [Next]_vars, NEW g \in Clients, breaker'[g] # breaker[g],
             call' # call, op' # Off
      PROVE  \E c \in Callers : call[c].client = g /\ call'[c] # call[c]
  <2>1. Next /\ breaker' # breaker
    BY <1>1 DEF vars, runtimeVars
  <2>2. PICK c \in Callers : CallStep(c)
    BY <1>1, <2>1, BreakerSteps
  <2>3. /\ breaker \in [Clients -> Breaker] /\ call \in [Callers -> Call]
        /\ call[c].at \in {"picked", "running"}
    BY <1>1, <2>2 DEF HostInv, RuntimeInv, RuntimeTypeOK, CallStep, PassBreaker, FinishCall
  <2>4. \A h \in Clients : h # call[c].client => breaker'[h] = breaker[h]
    BY <2>2, <2>3 DEF CallStep, PassBreaker, FinishCall
  <2>5. call[c].client = g
    BY <1>1, <2>4
  <2>6. call'[c].at # call[c].at
    <3>1. CASE PassBreaker(c)
      <4>1. call[c].at = "picked" BY <3>1 DEF PassBreaker
      <4>2. call' = [call EXCEPT ![c].at = "running"] \/ call' = [call EXCEPT ![c] = NoCall]
        BY <3>1 DEF PassBreaker
      <4> QED BY <2>3, <4>1, <4>2 DEF NoCall, Call
    <3>2. ASSUME NEW ok \in BOOLEAN, FinishCall(c, ok) PROVE call'[c].at # call[c].at
      BY <2>3, <3>2 DEF FinishCall, NoCall
    <3> QED BY <2>2, <3>1, <3>2 DEF CallStep
  <2> QED BY <2>5, <2>6
<1>2. HostInv /\ [Next]_vars => [\A g \in Clients : Own(g)]_vars
  BY <1>1
<1> QED BY <1>2, HostInvariant, PTL DEF Spec, OldResultsStayOld
=============================================================================
