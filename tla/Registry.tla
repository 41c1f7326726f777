------------------------------ MODULE Registry ------------------------------
(***************************************************************************)
(* What the module loader promises its callers, without its mutex, maps,   *)
(* handles and handler lists: load, unload and reload, called by any       *)
(* number of clients at once, each take effect at one instant between call *)
(* and return.  load adds the file if it is absent, with an object of its  *)
(* own; unload takes it away if it is present; reload does one, then the   *)
(* other, and lets others in between.  ModuleLoader implements this.       *)
(***************************************************************************)
CONSTANTS Clients, Files, NoFile, Objects, NoObject

VARIABLES
  up,      \* the process runs
  loaded,  \* per file, its module's object
  call     \* per client, what its call has still to do

vars == <<up, loaded, call>>

None  == [op |-> "none", file |-> NoFile]
Calls == [op : {"load", "unload", "reload"}, file : Files] \cup {None}

TypeOK ==
  /\ up \in BOOLEAN
  /\ loaded \in [Files -> Objects \cup {NoObject}]
  /\ call \in [Clients -> Calls]

Init ==
  /\ up = TRUE
  /\ loaded = [f \in Files |-> NoObject]
  /\ call = [c \in Clients |-> None]

Invoke(c) ==
  /\ up
  /\ call[c] = None
  /\ \E next \in Calls : call' = [call EXCEPT ![c] = next]
  /\ UNCHANGED <<up, loaded>>

\* The effect of load.  The process may end with any effect.
Install(c) ==
  /\ up
  /\ call[c].op = "load"
  /\ loaded[call[c].file] = NoObject
  /\ \E a \in Objects :
       /\ \A f \in Files : loaded[f] # a
       /\ loaded' = [loaded EXCEPT ![call[c].file] = a]
  /\ call' = [call EXCEPT ![c] = None]
  /\ up' \in BOOLEAN

\* load fails: the file is loaded, is no module, or its constructor throws.
NotInstalled(c) ==
  /\ up
  /\ call[c].op = "load"
  /\ call' = [call EXCEPT ![c] = None]
  /\ UNCHANGED loaded
  /\ up' \in BOOLEAN

\* The effect of unload, and the first one of reload.
Remove(c) ==
  /\ up
  /\ call[c].op \in {"unload", "reload"}
  /\ loaded[call[c].file] # NoObject
  /\ loaded' = [loaded EXCEPT ![call[c].file] = NoObject]
  /\ call' = [call EXCEPT ![c] = IF @.op = "reload" THEN [@ EXCEPT !.op = "load"]
                                 ELSE None]
  /\ up' \in BOOLEAN

\* unload and reload of a file that is not loaded do nothing.
NotRemoved(c) ==
  /\ up
  /\ call[c].op \in {"unload", "reload"}
  /\ loaded[call[c].file] = NoObject
  /\ call' = [call EXCEPT ![c] = None]
  /\ UNCHANGED <<up, loaded>>

End ==
  /\ up
  /\ up' = FALSE
  /\ UNCHANGED <<loaded, call>>

Next ==
  \/ \E c \in Clients :
       Invoke(c) \/ Install(c) \/ NotInstalled(c) \/ Remove(c) \/ NotRemoved(c)
  \/ End

Spec == Init /\ [][Next]_vars

=============================================================================
