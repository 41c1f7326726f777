---------------------------- MODULE ModuleLoader ----------------------------
(***************************************************************************)
(* The dynamic module loader of 142bot and the event dispatch that runs    *)
(* over it: ModuleLoader::load, unload, reload, attach, load_all and       *)
(* get_loaded_modules (src/modules.cpp), the FOREACH_MOD macro             *)
(* (modules.hpp) and the owner's sudo commands of the module manager       *)
(* (mmanager.cpp), which call the loader from inside a dispatched event.   *)
(*                                                                         *)
(* Main constructs the Bot and so runs load_all; the Threads are the D++   *)
(* shard threads, one event at a time each, which run handlers once Main   *)
(* has reached bot.start.  A module object is an address; the allocator    *)
(* may hand a freed address out again.  A label of pc is a place where     *)
(* another thread can observe or disturb what this one does.               *)
(***************************************************************************)
EXTENDS Naturals, Sequences, FiniteSets, SequencesExt

CONSTANTS
  Threads,      \* shard threads
  Main,         \* the thread of main()
  Free,         \* "no thread", the state of an unlocked mutex
  Files,        \* shared object file names
  NoFile,
  Addr,         \* addresses of Module objects
  NoMod,        \* the null module pointer
  Events,       \* the dispatched members of enum Events
  Manager,      \* the file of the module manager
  SudoEvent,    \* the event whose handler reads the owner's commands
  Config,       \* "modules" of config.json: a sequence of Files
  Kind,         \* what dlopen and dlsym find for a file
  Subscribes,   \* the events a file's constructor attaches to
  MayThrow,     \* files whose constructor can throw after it attached
  MayDecline,   \* files whose constructor can return without attaching
  Returns,      \* how the handlers of a file's module can end
  Commands,     \* sudo subcommands the owner uses
  MaxCommands,  \* bound: how many of them
  StaleReads    \* what the freed map node still holds in unload

AllThreads == Threads \cup {Main}
Kinds      == {"module", "null", "nosymbol", "absent"}
Outcomes   == {"true", "false", "throw"}
Ops        == {"load", "unload", "reload", "modules", "ping", "restart"}

ASSUME ThreadAssumption ==
  /\ Main \notin Threads
  /\ Free \notin AllThreads

ASSUME FileAssumption ==
  /\ NoFile \notin Files
  /\ NoMod \notin Addr
  /\ Manager \in Files
  /\ SudoEvent \in Events
  /\ Config \in Seq(Files)
  /\ Kind \in [Files -> Kinds]
  /\ Subscribes \in [Files -> SUBSET Events]
  /\ MayThrow \subseteq Files
  /\ MayDecline \subseteq Files
  /\ Returns \in [Files -> SUBSET Outcomes]
  /\ Commands \subseteq Ops
  /\ MaxCommands \in Nat
  /\ StaleReads \subseteq {"intact", "null", "wild"}

ASSUME AddrAssumption == IsFiniteSet(Addr)

VARIABLES
  status,         \* "up", or how the process ended
  mtx,            \* ModuleLoader::mtx, Free or its holder
  Modules,        \* the private map: file -> object, NoMod when absent
  mod_map,        \* the map get_loaded_modules returns a reference to
  EventHandlers,  \* per event, module pointers, latest attached first
  heap,           \* per address, the last object made there and its state
  handles,        \* per file, open dlopen handles
  pings,          \* objects captured by a REST callback still to come
  commands,       \* sudo commands issued so far
  modlist,        \* what load_all has still to load
  pc,             \* where each thread is
  list_to_call,   \* per thread, the rest of FOREACH_MOD's copied list
  event,          \* per thread, the event being dispatched
  self,           \* per thread, the object whose method it runs
  op,             \* per thread, the sudo command it executes
  file,           \* per thread, the file that command names
  mod             \* per thread, m.mod of load, mod.mod of unload

loaderVars == <<mtx, Modules, mod_map, EventHandlers, heap, handles>>
outerVars  == <<pings, commands, modlist>>
callVars   == <<list_to_call, event, self>>
opVars     == <<op, file, mod>>
vars == <<status, loaderVars, outerVars, pc, callVars, opVars>>

Labels ==
  {"load_all", "wait",                    \* Main: in the constructor; in start
   "idle", "loop", "body", "recopy",      \* a dispatch
   "load", "init", "publish",             \* load
   "unload", "erase", "delete", "close",  \* unload
   "listing", "reply"}                    \* rest of a sudo command

\* The labels at which a thread owns mtx.
Holding == {"init", "publish", "erase", "delete", "close"}

Cells == [file : Files \cup {NoFile}, st : {"unused", "live", "thrown", "deleted"}]

TypeOK ==
  /\ status \in {"up", "crashed", "exited"}
  /\ mtx \in AllThreads \cup {Free}
  /\ Modules \in [Files -> Addr \cup {NoMod}]
  /\ mod_map \in [Files -> Addr \cup {NoMod}]
  /\ EventHandlers \in [Events -> Seq(Addr)]
  /\ heap \in [Addr -> Cells]
  /\ handles \in [Files -> Nat]
  /\ pings \subseteq Addr
  /\ commands \in Nat
  /\ modlist \in Seq(Files)
  /\ pc \in [AllThreads -> Labels]
  /\ list_to_call \in [Threads -> Seq(Addr)]
  /\ event \in [Threads -> Events]
  /\ self \in [Threads -> Addr \cup {NoMod}]
  /\ op \in [Threads -> Ops \cup {"none"}]
  /\ file \in [AllThreads -> Files \cup {NoFile}]
  /\ mod \in [AllThreads -> Addr \cup {NoMod}]

Init ==
  /\ status = "up"
  /\ mtx = Free
  /\ Modules = [f \in Files |-> NoMod]
  /\ mod_map = [f \in Files |-> NoMod]
  /\ EventHandlers = [e \in Events |-> <<>>]
  /\ heap = [a \in Addr |-> [file |-> NoFile, st |-> "unused"]]
  /\ handles = [f \in Files |-> 0]
  /\ pings = {}
  /\ commands = 0
  /\ modlist = Config
  /\ pc = [t \in AllThreads |-> IF t = Main THEN "load_all" ELSE "idle"]
  /\ list_to_call = [t \in Threads |-> <<>>]
  /\ event = [t \in Threads |-> SudoEvent]
  /\ self = [t \in Threads |-> NoMod]
  /\ op = [t \in Threads |-> "none"]
  /\ file = [t \in AllThreads |-> NoFile]
  /\ mod = [t \in AllThreads |-> NoMod]

-----------------------------------------------------------------------------
(* Helpers *)

At(t, label) == status = "up" /\ pc[t] = label
Goto(t, label) == pc' = [pc EXCEPT ![t] = label]

Live(a)   == heap[a].st = "live"
\* The code of the object's class is still in the address space.
Mapped(a) == heap[a].file \in Files /\ handles[heap[a].file] > 0
FreeAddr  == {a \in Addr : ~Live(a)}

\* A write to what a thread at label reads without the mutex is a data race:
\* the reader may walk a broken container.
RaceWith(label) ==
  status' \in IF \E u \in Threads : pc[u] = label THEN {"up", "crashed"} ELSE {"up"}

\* Mutant of Attach: no search for the pointer first.
AttachUnchecked(handlers, f, a) ==
  [e \in Events |-> IF e \in Subscribes[f] THEN <<a>> \o handlers[e] ELSE handlers[e]]

\* ModuleLoader::attach as a constructor calls it: in front, unless present.
Attach(handlers, f, a) ==
  [e \in Events |-> IF e \in Subscribes[f] /\ ~Contains(handlers[e], a)
                    THEN <<a>> \o handlers[e]
                    ELSE handlers[e]]

\* Mutant of Detach: the loop stops at the first event found.
DetachOnce(handlers, a) ==
  LET found == {e \in Events : Contains(handlers[e], a)}
  IN  [e \in Events |-> IF found # {} /\ e = CHOOSE x \in found : TRUE
                        THEN RemoveFirst(handlers[e], a) ELSE handlers[e]]

\* Mutant of Detach: erases begin() instead of what find returned.
DetachFront(handlers, a) ==
  [e \in Events |-> IF Contains(handlers[e], a) THEN Tail(handlers[e]) ELSE handlers[e]]

\* The loop of unload over every event: the first occurrence is erased.
Detach(handlers, a) == [e \in Events |-> RemoveFirst(handlers[e], a)]

\* Where load returns to: load_all's loop, or the sudo command's reply.
Loaded(t) == IF t = Main THEN "load_all" ELSE "reply"

\* Mutant of Unwind: lock and unlock by hand, no guard.
UnwindKeepsLock(t) ==
  /\ Goto(t, "loop")
  /\ self' = [self EXCEPT ![t] = NoMod]
  /\ op' = [op EXCEPT ![t] = "none"]
  /\ file' = [file EXCEPT ![t] = NoFile]
  /\ UNCHANGED <<mtx, list_to_call, event, mod>>

\* An exception leaves load and the method that called it: the guard unlocks,
\* FOREACH_MOD catches and goes on with the next module.
Unwind(t) ==
  /\ mtx' = Free
  /\ Goto(t, "loop")
  /\ self' = [self EXCEPT ![t] = NoMod]
  /\ op' = [op EXCEPT ![t] = "none"]
  /\ file' = [file EXCEPT ![t] = NoFile]
  /\ UNCHANGED <<list_to_call, event, mod>>

-----------------------------------------------------------------------------
(* load_all, run by Main inside the constructor of Bot *)

LoadAllNext ==
  /\ At(Main, "load_all")
  /\ modlist # <<>>
  /\ file' = [file EXCEPT ![Main] = Head(modlist)]
  /\ modlist' = Tail(modlist)
  /\ Goto(Main, "load")
  /\ UNCHANGED <<status, loaderVars, pings, commands, callVars, op, mod>>

\* load_all is done: the callbacks are bound and bot.start waits.
StartBot ==
  /\ At(Main, "load_all")
  /\ modlist = <<>>
  /\ Goto(Main, "wait")
  /\ UNCHANGED <<status, loaderVars, outerVars, callVars, opVars>>

-----------------------------------------------------------------------------
(* ModuleLoader::load *)

\* Already loaded, or dlopen finds nothing: load returns false.
LoadRefused(t) ==
  /\ At(t, "load")
  /\ mtx = Free
  /\ \/ Modules[file[t]] # NoMod
     \/ Kind[file[t]] = "absent"
  /\ Goto(t, Loaded(t))
  /\ UNCHANGED <<status, loaderVars, outerVars, callVars, opVars>>

\* Mutant of LoadOpen: the map is searched before the mutex is taken, not after.
LoadOpenUnlocked(t) ==
  /\ At(t, "load")
  /\ Modules[file[t]] = NoMod
  /\ Kind[file[t]] # "absent"
  /\ handles' = [handles EXCEPT ![file[t]] = @ + 1]
  /\ Goto(t, "init")
  /\ UNCHANGED <<status, mtx, Modules, mod_map, EventHandlers, heap, outerVars,
                 callVars, opVars>>

LoadOpen(t) ==
  /\ At(t, "load")
  /\ mtx = Free
  /\ Modules[file[t]] = NoMod
  /\ Kind[file[t]] # "absent"
  /\ mtx' = t
  /\ handles' = [handles EXCEPT ![file[t]] = @ + 1]
  /\ Goto(t, "init")
  /\ UNCHANGED <<status, Modules, mod_map, EventHandlers, heap, outerVars,
                 callVars, opVars>>

\* get_symbol returns true for any open handle, whatever dlsym found, and
\* load calls the null m.init.
InitNoSymbol(t) ==
  /\ At(t, "init")
  /\ Kind[file[t]] = "nosymbol"
  /\ status' = "crashed"
  /\ UNCHANGED <<loaderVars, outerVars, pc, callVars, opVars>>

\* init_module returned null: the handle is closed and load returns false.
InitNull(t) ==
  /\ At(t, "init")
  /\ Kind[file[t]] = "null"
  /\ handles' = [handles EXCEPT ![file[t]] = @ - 1]
  /\ mtx' = Free
  /\ Goto(t, Loaded(t))
  /\ UNCHANGED <<status, Modules, mod_map, EventHandlers, heap, outerVars,
                 callVars, opVars>>

\* init_module is ENTRYPOINT's `new`: the constructor attaches the object to
\* its events, or (ldap, without its server) returns before it does.
Construct(t) ==
  /\ At(t, "init")
  /\ Kind[file[t]] = "module"
  /\ \E a \in FreeAddr :
       /\ heap' = [heap EXCEPT ![a] = [file |-> file[t], st |-> "live"]]
       /\ mod' = [mod EXCEPT ![t] = a]
       /\ \/ EventHandlers' = Attach(EventHandlers, file[t], a)
          \/ file[t] \in MayDecline /\ UNCHANGED EventHandlers
  /\ RaceWith("recopy")
  /\ Goto(t, "publish")
  /\ UNCHANGED <<mtx, Modules, mod_map, handles, outerVars, callVars, op, file>>

\* The constructor throws after ml->attach: `new` gives the storage back, but
\* neither the handler lists nor the handle are undone.
ConstructThrows(t) ==
  /\ At(t, "init")
  /\ Kind[file[t]] = "module"
  /\ file[t] \in MayThrow
  /\ \E a \in FreeAddr :
       /\ heap' = [heap EXCEPT ![a] = [file |-> file[t], st |-> "thrown"]]
       /\ EventHandlers' = Attach(EventHandlers, file[t], a)
  /\ Unwind(t)
  /\ RaceWith("recopy")
  /\ UNCHANGED <<Modules, mod_map, handles, outerVars>>

\* No storage for the object: bad_alloc leaves load the same way.
ConstructNoMemory(t) ==
  /\ At(t, "init")
  /\ Kind[file[t]] = "module"
  /\ FreeAddr = {}
  /\ Unwind(t)
  /\ UNCHANGED <<status, Modules, mod_map, EventHandlers, heap, handles, outerVars>>

\* Nothing catches above load_all: the process is terminated, not unwound.
BootThrows ==
  /\ At(Main, "init")
  /\ Kind[file[Main]] = "module"
  /\ file[Main] \in MayThrow \/ FreeAddr = {}
  /\ status' = "crashed"
  /\ UNCHANGED <<loaderVars, outerVars, pc, callVars, opVars>>

Publish(t) ==
  /\ At(t, "publish")
  /\ Modules' = [Modules EXCEPT ![file[t]] = mod[t]]
  /\ mod_map' = [mod_map EXCEPT ![file[t]] = mod[t]]
  /\ mtx' = Free
  /\ mod' = [mod EXCEPT ![t] = NoMod]
  /\ RaceWith("listing")
  /\ Goto(t, Loaded(t))
  /\ UNCHANGED <<EventHandlers, heap, handles, outerVars, callVars, op, file>>

-----------------------------------------------------------------------------
(* ModuleLoader::unload and reload *)

UnloadRefused(t) ==
  /\ At(t, "unload")
  /\ mtx = Free
  /\ Modules[file[t]] = NoMod
  /\ Goto(t, "reply")
  /\ UNCHANGED <<status, loaderVars, outerVars, callVars, opVars>>

UnloadDetach(t) ==
  /\ At(t, "unload")
  /\ mtx = Free
  /\ Modules[file[t]] # NoMod
  /\ mtx' = t
  /\ mod' = [mod EXCEPT ![t] = Modules[file[t]]]
  /\ EventHandlers' = Detach(EventHandlers, Modules[file[t]])
  /\ RaceWith("recopy")
  /\ Goto(t, "erase")
  /\ UNCHANGED <<Modules, mod_map, heap, handles, outerVars, callVars, op, file>>

\* Mutant of UnloadErase: the public map is forgotten.
UnloadEraseKeepsPublic(t) ==
  /\ At(t, "erase")
  /\ Modules' = [Modules EXCEPT ![file[t]] = NoMod]
  /\ Goto(t, "delete")
  /\ UNCHANGED <<status, mtx, mod_map, EventHandlers, heap, handles, outerVars,
                 callVars, opVars>>

\* Mutant of UnloadErase: dlclose before the delete.
UnloadEraseCloses(t) ==
  /\ At(t, "erase")
  /\ Modules' = [Modules EXCEPT ![file[t]] = NoMod]
  /\ mod_map' = [mod_map EXCEPT ![file[t]] = NoMod]
  /\ handles' = [handles EXCEPT ![file[t]] = @ - 1]
  /\ Goto(t, "delete")
  /\ UNCHANGED <<status, mtx, EventHandlers, heap, outerVars, callVars, opVars>>

UnloadErase(t) ==
  /\ At(t, "erase")
  /\ Modules' = [Modules EXCEPT ![file[t]] = NoMod]
  /\ mod_map' = [mod_map EXCEPT ![file[t]] = NoMod]
  /\ RaceWith("listing")
  /\ Goto(t, "delete")
  /\ UNCHANGED <<mtx, EventHandlers, heap, handles, outerVars, callVars, opVars>>

\* `mod` refers into the map node that Modules.erase freed.  Its memory may
\* be intact, may have been reused and read as null, or hold a wild pointer.
UnloadDelete(t) ==
  /\ At(t, "delete")
  /\ \/ /\ "intact" \in StaleReads
        /\ heap' = [heap EXCEPT ![mod[t]].st = "deleted"]
        /\ Goto(t, "close")
        /\ UNCHANGED <<status, mod>>
     \/ /\ "null" \in StaleReads
        /\ mod' = [mod EXCEPT ![t] = NoMod]
        /\ Goto(t, "close")
        /\ UNCHANGED <<status, heap>>
     \/ /\ "wild" \in StaleReads
        /\ status' = "crashed"
        /\ UNCHANGED <<pc, heap, mod>>
  /\ UNCHANGED <<mtx, Modules, mod_map, EventHandlers, handles, outerVars,
                 callVars, op, file>>

\* Mutant of UnloadClose: the handle is closed twice.
UnloadClosesTwice(t) ==
  /\ At(t, "close")
  /\ handles' = [handles EXCEPT ![file[t]] = @ - 2]
  /\ mod' = [mod EXCEPT ![t] = NoMod]
  /\ mtx' = Free
  /\ Goto(t, IF op[t] = "reload" THEN "load" ELSE "reply")
  /\ UNCHANGED <<status, Modules, mod_map, EventHandlers, heap, outerVars,
                 callVars, op, file>>

\* The handle is closed and the mutex released; reload goes on to load.
UnloadClose(t) ==
  /\ At(t, "close")
  /\ handles' = IF mod[t] = NoMod THEN handles
                ELSE [handles EXCEPT ![file[t]] = @ - 1]
  /\ mod' = [mod EXCEPT ![t] = NoMod]
  /\ mtx' = Free
  /\ Goto(t, IF op[t] = "reload" THEN "load" ELSE "reply")
  /\ UNCHANGED <<status, Modules, mod_map, EventHandlers, heap, outerVars,
                 callVars, op, file>>

-----------------------------------------------------------------------------
(* FOREACH_MOD *)

\* Mutant of Snapshot: the list is copied without the mutex.
SnapshotUnlocked(t) ==
  /\ At(t, "idle")
  /\ pc[Main] = "wait"
  /\ \E e \in Events :
       /\ event' = [event EXCEPT ![t] = e]
       /\ list_to_call' = [list_to_call EXCEPT ![t] = EventHandlers[e]]
  /\ Goto(t, "loop")
  /\ UNCHANGED <<status, loaderVars, outerVars, self, opVars>>

\* The list is copied under the mutex, which is released before any call.
Snapshot(t) ==
  /\ At(t, "idle")
  /\ pc[Main] = "wait"
  /\ mtx = Free
  /\ \E e \in Events :
       /\ event' = [event EXCEPT ![t] = e]
       /\ list_to_call' = [list_to_call EXCEPT ![t] = EventHandlers[e]]
  /\ Goto(t, "loop")
  /\ UNCHANGED <<status, loaderVars, outerVars, self, opVars>>

Call(t) ==
  /\ At(t, "loop")
  /\ list_to_call[t] # <<>>
  /\ Live(Head(list_to_call[t]))
  /\ self' = [self EXCEPT ![t] = Head(list_to_call[t])]
  /\ list_to_call' = [list_to_call EXCEPT ![t] = Tail(@)]
  /\ Goto(t, "body")
  /\ UNCHANGED <<status, loaderVars, outerVars, event, opVars>>

\* A virtual call through a dead object: a crash, or the handler of the base
\* class, whose table ~Module left in the storage and which returns true.
CallDead(t) ==
  /\ At(t, "loop")
  /\ list_to_call[t] # <<>>
  /\ ~Live(Head(list_to_call[t]))
  /\ \/ /\ status' = "crashed"
        /\ UNCHANGED list_to_call
     \/ /\ list_to_call' = [list_to_call EXCEPT ![t] = Tail(@)]
        /\ UNCHANGED status
  /\ UNCHANGED <<loaderVars, outerVars, pc, event, self, opVars>>

DispatchDone(t) ==
  /\ At(t, "loop")
  /\ list_to_call[t] = <<>>
  /\ Goto(t, "idle")
  /\ event' = [event EXCEPT ![t] = SudoEvent]
  /\ UNCHANGED <<status, loaderVars, outerVars, list_to_call, self, opVars>>

\* The method returns true or throws (caught): the loop goes on.  It returns
\* false: the loop reads EventHandlers once more before it breaks.  The object
\* may have died under the method, which then survives only in mapped code.
Return(t) ==
  /\ At(t, "body")
  /\ Live(self[t]) \/ Mapped(self[t])
  /\ \E r \in Returns[heap[self[t]].file] :
       Goto(t, IF r = "false" THEN "recopy" ELSE "loop")
  /\ self' = [self EXCEPT ![t] = NoMod]
  /\ UNCHANGED <<status, loaderVars, outerVars, list_to_call, event, opVars>>

\* Mutant of RecopyAndBreak: no break after the new copy.
RecopyAndGoOn(t) ==
  /\ At(t, "recopy")
  /\ list_to_call' = [list_to_call EXCEPT ![t] = EventHandlers[event[t]]]
  /\ Goto(t, "loop")
  /\ UNCHANGED <<status, loaderVars, outerVars, event, self, opVars>>

\* The unlocked `list_to_call = loader->EventHandlers[y]; break`.
RecopyAndBreak(t) ==
  /\ At(t, "recopy")
  /\ list_to_call' = [list_to_call EXCEPT ![t] = <<>>]
  /\ event' = [event EXCEPT ![t] = SudoEvent]
  /\ Goto(t, "idle")
  /\ UNCHANGED <<status, loaderVars, outerVars, self, opVars>>

-----------------------------------------------------------------------------
(* MManagerModule::OnMessage, the owner's sudo commands *)

Sudo(t) ==
  /\ At(t, "body")
  /\ event[t] = SudoEvent
  /\ Live(self[t])
  /\ heap[self[t]].file = Manager
  /\ commands < MaxCommands
  /\ commands' = commands + 1

\* load, unload, reload f, and modules, which starts to walk mod_map.
SudoLoader(t) ==
  /\ Sudo(t)
  /\ \E o \in Commands \ {"ping", "restart"} :
       /\ op' = [op EXCEPT ![t] = o]
       /\ Goto(t, CASE o = "load" -> "load"
                    [] o \in {"unload", "reload"} -> "unload"
                    [] OTHER -> "listing")
       /\ \E f \in IF o = "modules" THEN {NoFile} ELSE Files :
            file' = [file EXCEPT ![t] = f]
  /\ UNCHANGED <<status, loaderVars, pings, modlist, callVars, mod>>

\* ping: message_create takes a callback that captures `this`.
SudoPing(t) ==
  /\ Sudo(t)
  /\ "ping" \in Commands
  /\ pings' = pings \cup {self[t]}
  /\ Goto(t, "loop")
  /\ self' = [self EXCEPT ![t] = NoMod]
  /\ UNCHANGED <<status, loaderVars, modlist, list_to_call, event, opVars>>

SudoRestart(t) ==
  /\ Sudo(t)
  /\ "restart" \in Commands
  /\ status' = "exited"
  /\ UNCHANGED <<loaderVars, pings, modlist, pc, callVars, opVars>>

\* The walk over mod_map, which calls version() and description(), is over.
ListingDone(t) ==
  /\ At(t, "listing")
  /\ Goto(t, "reply")
  /\ UNCHANGED <<status, loaderVars, outerVars, callVars, opVars>>

\* EmbedSimple on `this`, then OnMessage returns true.
Reply(t) ==
  /\ At(t, "reply")
  /\ Live(self[t]) \/ Mapped(self[t])
  /\ Goto(t, "loop")
  /\ self' = [self EXCEPT ![t] = NoMod]
  /\ op' = [op EXCEPT ![t] = "none"]
  /\ file' = [file EXCEPT ![t] = NoFile]
  /\ UNCHANGED <<status, loaderVars, outerVars, list_to_call, event, mod>>

\* The method runs on an object that was deleted under it.
RunDead(t) ==
  /\ status = "up"
  /\ pc[t] \in {"body", "reply"}
  /\ ~Live(self[t])
  /\ status' = "crashed"
  /\ UNCHANGED <<loaderVars, outerVars, pc, callVars, opVars>>

\* The REST thread runs ping's callback on the captured object.
Pong ==
  /\ status = "up"
  /\ \E a \in pings :
       /\ pings' = pings \ {a}
       /\ status' \in (IF Live(a) THEN {} ELSE {"crashed"})
                      \cup (IF Live(a) \/ Mapped(a) THEN {"up"} ELSE {})
  /\ UNCHANGED <<loaderVars, commands, modlist, pc, callVars, opVars>>

\* The process has crashed or exited.
Ended == status # "up" /\ UNCHANGED vars

-----------------------------------------------------------------------------

LoaderStep(t) ==
  \/ LoadRefused(t) \/ LoadOpen(t) \/ InitNoSymbol(t) \/ InitNull(t)
  \/ Construct(t) \/ Publish(t)

ThreadStep(t) ==
  \/ ConstructThrows(t) \/ ConstructNoMemory(t)
  \/ UnloadRefused(t) \/ UnloadDetach(t) \/ UnloadErase(t) \/ UnloadDelete(t)
  \/ UnloadClose(t)
  \/ Call(t) \/ CallDead(t) \/ DispatchDone(t) \/ Return(t) \/ RecopyAndBreak(t)
  \/ ListingDone(t) \/ Reply(t) \/ RunDead(t)

Next ==
  \/ LoadAllNext \/ StartBot \/ BootThrows
  \/ \E t \in AllThreads : LoaderStep(t)
  \/ \E t \in Threads :
       ThreadStep(t) \/ Snapshot(t) \/ SudoLoader(t) \/ SudoPing(t) \/ SudoRestart(t)
  \/ Pong
  \/ Ended

Spec == Init /\ [][Next]_vars

\* The operating system runs every thread, and the methods of modules return.
\* No command need ever be given and no event need ever arrive.
FairSpec ==
  /\ Spec
  /\ WF_vars(LoadAllNext \/ StartBot \/ LoaderStep(Main))
  /\ \A t \in Threads : WF_vars(LoaderStep(t) \/ ThreadStep(t))

-----------------------------------------------------------------------------
(* Properties that hold *)

\* A thread is between the first and the last write of load or unload exactly
\* when it owns mtx (std::lock_guard l(mtx)), so there is at most one.
MutexGuardsLoader == \A t \in AllThreads : pc[t] \in Holding <=> mtx = t

\* Both maps agree, and never name an object that is not a live one made from
\* that very file, whatever loads, unloads and reloads race.
RegistryLive ==
  \A f \in Files :
    /\ Modules[f] = mod_map[f]
    /\ Modules[f] # NoMod => heap[Modules[f]] = [file |-> f, st |-> "live"]

\* Every registered handler is the object of a loaded module, or one a load
\* in progress is about to publish, or the remains of a constructor that threw;
\* never an object that unload deleted.
HandlersAccounted ==
  \A e \in Events : \A i \in DOMAIN EventHandlers[e] :
    LET a == EventHandlers[e][i] IN
    \/ heap[a].st = "thrown"
    \/ /\ Live(a)
       /\ \/ Modules[heap[a].file] = a
          \/ \E t \in AllThreads : pc[t] = "publish" /\ mod[t] = a

\* No loaded module loses a handler, whatever its neighbours in the lists and
\* the former owners of its address go through.
HandlersComplete ==
  \A f \in Files \ MayDecline : \A e \in Subscribes[f] :
    \/ Modules[f] = NoMod
    \/ Contains(EventHandlers[e], Modules[f])
    \/ \E t \in AllThreads : pc[t] = "erase" /\ mod[t] = Modules[f]

\* No event calls one object twice, even when the allocator gives a new object
\* the address an earlier failed constructor left in the lists.
NoDoubleRegistration == \A e \in Events : IsInjective(EventHandlers[e])

\* The code of a live object is mapped: no dlclose before the delete, and none
\* too many, over any sequence of loads, failed loads and unloads.
LibraryMapped == \A a \in Addr : Live(a) => Mapped(a)

\* The list FOREACH_MOD copies names loaded modules only, apart from what a
\* throwing constructor left: never a half loaded or half unloaded module.
SnapshotLoaded ==
  [][\A t \in Threads : pc[t] = "idle" /\ pc'[t] = "loop" =>
       \A i \in DOMAIN list_to_call'[t] :
         LET a == list_to_call'[t][i] IN
         \/ heap[a].st = "thrown"
         \/ Live(a) /\ Modules[heap[a].file] = a]_vars

\* Every dispatched event is done with eventually, sudo commands that take the
\* loader's mutex from inside a handler included, unless the process ends.
DispatchEnds ==
  \A t \in Threads : pc[t] # "idle" ~> pc[t] = "idle" \/ status # "up"

-----------------------------------------------------------------------------
(* The abstract loader this one implements *)

\* What a thread inside the loader has still to do to the registry: its write
\* of Modules is the instant at which the call takes effect.
PendingCall(t) ==
  [op |-> CASE pc[t] \in {"load", "init", "publish"} -> "load"
            [] pc[t] \in {"unload", "erase"} -> op[t]
            [] pc[t] \in {"delete", "close"} /\ op[t] = "reload" -> "load"
            [] OTHER -> "none",
   file |-> IF \/ pc[t] \in {"load", "init", "publish", "unload", "erase"}
               \/ pc[t] \in {"delete", "close"} /\ op[t] = "reload"
            THEN file[t] ELSE NoFile]

Registry == INSTANCE Registry WITH
  Clients <- AllThreads, Objects <- Addr, NoObject <- NoMod,
  up <- status = "up", loaded <- Modules, call <- [t \in AllThreads |-> PendingCall(t)]

\* Every load, unload and reload, however the threads, the failures and the
\* reuse of addresses interleave, takes effect at one instant, exactly as the
\* atomic registry does it: a load never replaces a module another thread
\* loaded meanwhile, no two files share an object, and a crash loses nothing else.
ImplementsRegistry == Registry!Spec

-----------------------------------------------------------------------------
(* What comments of the code claim and the code does not do *)

\* modules.hpp:67 the mutex is there "to prevent one thread loading/unloading a
\* module, changing the arrays/vectors while another thread is running an
\* event": no method is called on, or runs on, an object that is gone.
NoUseAfterFree ==
  \A t \in Threads :
    /\ At(t, "loop") /\ list_to_call[t] # <<>> => Live(Head(list_to_call[t]))
    /\ At(t, "body") \/ At(t, "reply") => Live(self[t])

=============================================================================
