---- MODULE MCPluginHost ----
(* Instances of PluginHost for TLC: constants that a configuration names. *)
EXTENDS PluginHost

CONSTANTS p1, p2, g1, g2, c1, c2

FirstOwns == [g \in Clients |-> p1]
SecondNeedsFirst == [p \in Plugins |-> IF p = p2 THEN {p1} ELSE {}]

\* p2 requires p1, is installed or not, and never enabled in the instance.
SomeRows == {r \in [Plugins -> {"none", "disabled", "enabled"}] :
               r[p2] # "enabled" /\ (r[p2] = "disabled" => r[p1] # "none")}
====
