--------------------------- MODULE MCModuleLoader ---------------------------
(* Small instances of ModuleLoader: the module manager, the spotify and the *)
(* ldap modules, and files that are no module.                              *)
EXTENDS ModuleLoader

CONSTANTS t1, t2, a1, a2, a3

MCKind ==
  [f \in Files |-> CASE f = "bare" -> "nosymbol"
                     [] f = "null" -> "null"
                     [] f = "absent" -> "absent"
                     [] OTHER -> "module"]

\* What the constructors attach to, of the events of the instance.
MCSubscribes ==
  [f \in Files |-> CASE f = "mmanager" -> {"OnMessage"}
                     [] f = "spotify" -> {"OnMessage", "OnCommand"} \cap Events
                     [] f = "ldap" -> {"OnSlashCommand"} \cap Events
                     [] OTHER -> {}]

\* Only spotify and mmanager (sql) return false; any handler may throw.
MCReturns ==
  [f \in Files |-> IF f \in {"spotify", "mmanager"} THEN {"true", "false", "throw"}
                   ELSE {"true", "throw"}]

ConfigBoth    == <<"spotify", "mmanager">>
ConfigManager == <<"mmanager">>

Symmetry == Permutations({a1, a2, a3}) \cup Permutations({t1, t2})

=============================================================================
