---------------------------- MODULE PluginStore ----------------------------
(***************************************************************************)
(* The rows of one tenant's plugins (internal/store/pg/plugin_store.go),   *)
(* one operator per statement or transaction.                              *)
(***************************************************************************)
EXTENDS PluginRuntime

CONSTANTS
    DependsOn,   \* [Plugins -> SUBSET Plugins]: spec.requires.plugins
    InitialRows  \* the rows that earlier runs of the gateway may have left

VARIABLES
    row,         \* [Plugins -> State]: tenant_plugins.state
    data         \* plugins that have rows in plugin_data

storeVars == <<row, data>>

State == {"none", "installed", "enabled", "disabled", "error"}

\* Whatever an earlier run left was installed and uninstalled by the same rules.
ASSUME StoreAssumption ==
    /\ DependsOn \in [Plugins -> SUBSET Plugins]
    /\ \A r \in InitialRows :
         /\ r \in [Plugins -> State]
         /\ \A p \in Plugins : r[p] # "none" => \A d \in DependsOn[p] : r[d] # "none"

ValidTransition(from, to) ==
    <<from, to>> \in {<<"installed", "enabled">>, <<"enabled", "disabled">>,
                      <<"enabled", "error">>, <<"disabled", "enabled">>,
                      <<"error", "enabled">>, <<"error", "disabled">>}

Installed(p) == row[p] # "none"
EnabledRows == {p \in Plugins : row[p] = "enabled"}

StoreInit == row \in InitialRows /\ data = {}
StoreTypeOK == row \in [Plugins -> State] /\ data \subseteq Plugins

InstallPlugin(p) ==
    /\ ~Installed(p)                          \* unique (tenant_id, plugin_name)
    /\ row' = [row EXCEPT ![p] = "installed"] /\ UNCHANGED data

\* EnablePlugin, DisablePlugin and SetPluginError update the row by name,
\* whatever its state; without a row nothing happens.
SetState(p, s) ==
    /\ row' = IF Installed(p) THEN [row EXCEPT ![p] = s] ELSE row
    /\ UNCHANGED data

\* Mutated: the data is left to a foreign key that the table does not have.
UninstallPlugin_KeepsData(p) ==
    /\ row' = [row EXCEPT ![p] = "none"] /\ UNCHANGED data

\* One transaction: the rows of plugin_data and of tenant_plugins.
UninstallPlugin(p) ==
    /\ row' = [row EXCEPT ![p] = "none"] /\ data' = data \ {p}

PutData(p) == data' = data \cup {p} /\ UNCHANGED row
=============================================================================
