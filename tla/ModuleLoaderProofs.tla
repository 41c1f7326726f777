------------------------- MODULE ModuleLoaderProofs -------------------------
(***************************************************************************)
(* Proofs that every behaviour of ModuleLoader, for any sets of threads,   *)
(* files, addresses and events, keeps the invariants that MCModuleLoader's *)
(* safety run checks on a small instance.  First come facts about the      *)
(* handler lists, then the inductive invariant IInv, its preservation by   *)
(* the steps outside the loader (QuietStep) and by each step inside load   *)
(* and unload, and the theorems.                                           *)
(*                                                                         *)
(* The last part proves that ModuleLoader implements Registry: the mutex,  *)
(* the two maps, the handles, the handler lists and every way a            *)
(* constructor or an unload can fail leave a loader whose load, unload and *)
(* reload take effect at one instant each.  A step of one thread moves     *)
(* that thread's call only (CallMoves).  The write of Modules in Publish   *)
(* is the registry's Install, the one in UnloadErase its Remove; a crash   *)
(* in the middle of anything is its End.  IInv says why Install finds no   *)
(* object under the file and no file with the object; OpInv why only       *)
(* unload and reload reach UnloadErase.                                    *)
(***************************************************************************)
EXTENDS ModuleLoader, SequenceTheorems, FiniteSetTheorems, WellFoundedInduction, TLAPS

\* RemoveFirst takes one occurrence out.
LEMMA RemoveFirstIndex ==
  ASSUME NEW S, NEW s \in Seq(S), NEW x, Contains(s, x)
  PROVE  \E i \in 1..Len(s) :
           /\ s[i] = x
           /\ RemoveFirst(s, x) = SubSeq(s, 1, i-1) \o SubSeq(s, i+1, Len(s))
<1> DEFINE I == {i \in 1..Len(s) : s[i] = x}
<1>1. PICK i \in I : \A j \in I : i <= j
  <2>1. I # {} /\ I \subseteq Nat
    BY DEF Contains
  <2>2. PICK i \in I : \A j \in I : <<j, i>> \notin OpToRel(<, Nat)
    BY <2>1, NatLessThanWellFounded, WFMin
  <2>3. \A j \in I : i <= j
    <3> SUFFICES ASSUME NEW j \in I PROVE i <= j
      OBVIOUS
    <3>1. i \in Nat /\ j \in Nat
      BY <2>1
    <3>2. ~(j < i)
      BY <2>2, <3>1 DEF OpToRel
    <3> HIDE DEF I
    <3> QED BY <3>1, <3>2
  <2> QED BY <2>3
<1>2. Min(I) \in I
  BY <1>1 DEF Min
<1>3. SelectInSeq(s, LAMBDA v : v = x) = Min(I)
  BY <1>1 DEF SelectInSeq
<1> QED BY <1>2, <1>3 DEF RemoveFirst, RemoveAt, Contains

\* Of a list without duplicates it leaves every other element, once.
LEMMA RemoveFirstElements ==
  ASSUME NEW S, NEW s \in Seq(S), NEW x, IsInjective(s)
  PROVE  /\ RemoveFirst(s, x) \in Seq(S)
         /\ IsInjective(RemoveFirst(s, x))
         /\ \A y : Contains(RemoveFirst(s, x), y) <=> Contains(s, y) /\ y # x
<1>1. CASE ~Contains(s, x)
  BY <1>1 DEF RemoveFirst, Contains
<1>2. CASE Contains(s, x)
  <2>1. PICK i \in 1..Len(s) :
          /\ s[i] = x
          /\ RemoveFirst(s, x) = SubSeq(s, 1, i-1) \o SubSeq(s, i+1, Len(s))
    BY <1>2, RemoveFirstIndex
  <2> DEFINE r == RemoveFirst(s, x)
  <2>2. /\ r \in Seq(S)
        /\ Len(r) = Len(s) - 1
        /\ \A j \in 1..Len(r) : r[j] = IF j < i THEN s[j] ELSE s[j+1]
    <3> DEFINE p == SubSeq(s, 1, i-1)
               q == SubSeq(s, i+1, Len(s))
    <3>1. /\ p \in Seq(S)
          /\ Len(p) = i - 1
          /\ \A j \in 1..(i-1) : p[j] = s[j]
      BY SubSeqProperties, ElementOfSeq, LenProperties
    <3>2. /\ q \in Seq(S)
          /\ Len(q) = Len(s) - i
          /\ \A j \in 1..(Len(s)-i) : q[j] = s[i+j]
      BY SubSeqProperties, ElementOfSeq, LenProperties
    <3>3. r = p \o q /\ Len(s) \in Nat
      BY <2>1, LenProperties
    <3> HIDE DEF p, q, r
    <3>4. /\ r \in Seq(S)
          /\ Len(r) = Len(s) - 1
          /\ \A j \in 1..Len(r) : r[j] = IF j <= i-1 THEN p[j] ELSE q[j - (i-1)]
      <4>1. /\ r \in Seq(S)
            /\ Len(r) = Len(p) + Len(q)
            /\ \A j \in 1..Len(p) + Len(q) : r[j] = IF j <= Len(p) THEN p[j] ELSE q[j - Len(p)]
        BY <3>1, <3>2, <3>3, ConcatProperties
      <4>2. Len(p) + Len(q) = Len(s) - 1
        BY <3>1, <3>2, <3>3
      <4> QED BY <3>1, <4>1, <4>2
    <3>5. ASSUME NEW j \in 1..Len(r), j < i PROVE r[j] = s[j]
      BY <3>1, <3>4, <3>5
    <3>6. ASSUME NEW j \in 1..Len(r), ~(j < i) PROVE r[j] = s[j+1]
      <4>1. j - (i-1) \in 1..(Len(s)-i) /\ i + (j - (i-1)) = j + 1
        BY <3>3, <3>4, <3>6
      <4> QED BY <3>2, <3>3, <3>4, <3>6, <4>1
    <3> QED BY <3>4, <3>5, <3>6
  <2>3. DOMAIN r = 1..Len(r) /\ DOMAIN s = 1..Len(s) /\ Len(s) \in Nat
    BY <2>2, LenProperties
  <2> HIDE DEF r
  <2>4. IsInjective(r)
    <3> SUFFICES ASSUME NEW a \in 1..Len(r), NEW b \in 1..Len(r), r[a] = r[b]
                 PROVE  a = b
      BY <2>3 DEF IsInjective
    <3> DEFINE at(j) == IF j < i THEN j ELSE j+1
    <3>1. at(a) \in DOMAIN s /\ at(b) \in DOMAIN s /\ s[at(a)] = s[at(b)]
      BY <2>2, <2>3
    <3>2. at(a) = at(b)
      BY <3>1 DEF IsInjective
    <3> QED BY <2>2, <2>3, <3>2
  <2>5. ASSUME NEW y, Contains(r, y) PROVE Contains(s, y) /\ y # x
    BY <2>1, <2>2, <2>3, <2>5 DEF IsInjective, Contains
  <2>6. ASSUME NEW y, Contains(s, y), y # x PROVE Contains(r, y)
    <3>1. PICK k \in 1..Len(s) : s[k] = y
      BY <2>6 DEF Contains
    <3>2. CASE k < i
      BY <2>2, <2>3, <3>1, <3>2 DEF Contains
    <3>3. CASE k > i
      <4>1. k - 1 \in 1..Len(r) /\ r[k-1] = s[k]
        BY <2>2, <2>3, <3>3
      <4> QED BY <3>1, <4>1 DEF Contains
    <3> QED BY <2>1, <2>3, <2>6, <3>1, <3>2, <3>3
  <2> QED BY <2>2, <2>4, <2>5, <2>6 DEF r
<1> QED BY <1>1, <1>2

\* Putting a new element in front keeps a list free of duplicates.
LEMMA PrependElements ==
  ASSUME NEW S, NEW s \in Seq(S), NEW x \in S, IsInjective(s), ~Contains(s, x)
  PROVE  /\ <<x>> \o s \in Seq(S)
         /\ IsInjective(<<x>> \o s)
         /\ \A y : Contains(<<x>> \o s, y) <=> Contains(s, y) \/ y = x
<1> DEFINE r == <<x>> \o s
<1>1. /\ r \in Seq(S)
      /\ Len(r) = Len(s) + 1
      /\ \A i \in 1..Len(r) : r[i] = IF i = 1 THEN x ELSE s[i-1]
  BY ConcatProperties, LenProperties
<1>2. DOMAIN r = 1..Len(r) /\ DOMAIN s = 1..Len(s) /\ Len(s) \in Nat
  BY <1>1, LenProperties
<1> HIDE DEF r
<1>3. IsInjective(r)
  <2> SUFFICES ASSUME NEW a \in 1..Len(r), NEW b \in 1..Len(r), r[a] = r[b]
               PROVE  a = b
    BY <1>2 DEF IsInjective
  <2>1. CASE a = 1 \/ b = 1
    BY <1>1, <1>2, <2>1 DEF Contains
  <2>2. CASE a # 1 /\ b # 1
    <3>1. a-1 \in DOMAIN s /\ b-1 \in DOMAIN s /\ s[a-1] = s[b-1]
      BY <1>1, <1>2, <2>2
    <3>2. a-1 = b-1
      BY <3>1 DEF IsInjective
    <3> QED BY <1>1, <1>2, <3>2
  <2> QED BY <2>1, <2>2
<1>4. ASSUME NEW y, Contains(r, y) PROVE Contains(s, y) \/ y = x
  BY <1>1, <1>2, <1>4 DEF Contains
<1>5. ASSUME NEW y, Contains(s, y) \/ y = x PROVE Contains(r, y)
  <2>1. CASE y = x
    BY <1>1, <1>2, <2>1 DEF Contains
  <2>2. CASE Contains(s, y)
    <3>1. PICK k \in 1..Len(s) : s[k] = y
      BY <2>2 DEF Contains
    <3>2. k + 1 \in 1..Len(r) /\ r[k+1] = y
      BY <1>1, <1>2, <3>1
    <3> QED BY <3>2 DEF Contains
  <2> QED BY <1>5, <2>1, <2>2
<1> QED BY <1>1, <1>3, <1>4, <1>5 DEF r

\* No list names an object twice.
Injective(handlers) == \A e \in Events : IsInjective(handlers[e])

\* What a constructor's attach does to the lists, each list once without
\* duplicates.
LEMMA AttachElements ==
  ASSUME NEW h \in [Events -> Seq(Addr)], Injective(h),
         NEW f \in Files, NEW a \in Addr
  PROVE  /\ Attach(h, f, a) \in [Events -> Seq(Addr)]
         /\ Injective(Attach(h, f, a))
         /\ \A e \in Events : \A y :
              Contains(Attach(h, f, a)[e], y)
                <=> Contains(h[e], y) \/ (y = a /\ e \in Subscribes[f])
<1> SUFFICES ASSUME NEW e \in Events
             PROVE  /\ Attach(h, f, a)[e] \in Seq(Addr)
                    /\ IsInjective(Attach(h, f, a)[e])
                    /\ \A y : Contains(Attach(h, f, a)[e], y)
                         <=> Contains(h[e], y) \/ (y = a /\ e \in Subscribes[f])
  BY DEF Attach, Injective
<1>1. h[e] \in Seq(Addr) /\ IsInjective(h[e])
  BY DEF Injective
<1>2. CASE e \in Subscribes[f] /\ ~Contains(h[e], a)
  <2>1. Attach(h, f, a)[e] = <<a>> \o h[e]
    BY <1>2 DEF Attach
  <2> QED BY <1>1, <1>2, <2>1, PrependElements
<1>3. CASE ~(e \in Subscribes[f] /\ ~Contains(h[e], a))
  <2>1. Attach(h, f, a)[e] = h[e]
    BY <1>3 DEF Attach
  <2> QED BY <1>1, <1>3, <2>1
<1> QED BY <1>2, <1>3

\* The loop of unload leaves no trace of the object and every other handler.
LEMMA DetachElements ==
  ASSUME NEW h \in [Events -> Seq(Addr)], Injective(h), NEW a
  PROVE  /\ Detach(h, a) \in [Events -> Seq(Addr)]
         /\ Injective(Detach(h, a))
         /\ \A e \in Events : \A y :
              Contains(Detach(h, a)[e], y) <=> Contains(h[e], y) /\ y # a
<1> SUFFICES ASSUME NEW e \in Events
             PROVE  /\ Detach(h, a)[e] \in Seq(Addr)
                    /\ IsInjective(Detach(h, a)[e])
                    /\ \A y : Contains(Detach(h, a)[e], y)
                                 <=> Contains(h[e], y) /\ y # a
  BY DEF Detach, Injective
<1>1. h[e] \in Seq(Addr) /\ IsInjective(h[e])
  BY DEF Injective
<1>2. Detach(h, a)[e] = RemoveFirst(h[e], a)
  BY DEF Detach
<1> QED BY <1>1, <1>2, RemoveFirstElements

-----------------------------------------------------------------------------
(* The inductive invariant *)

Owned(t) ==
  /\ mod[t] \in Addr
  /\ heap[mod[t]] = [file |-> file[t], st |-> "live"]
  /\ handles[file[t]] > 0

Forgotten(a) == \A e \in Events : ~Contains(EventHandlers[e], a)

\* What a thread inside load or unload may rely on, label by label.
LoaderInv ==
  \A t \in AllThreads :
    /\ pc[t] \in {"load", "unload"} \cup Holding => file[t] \in Files
    /\ pc[t] = "init" => Modules[file[t]] = NoMod /\ handles[file[t]] > 0
    /\ pc[t] = "publish" =>
         /\ Modules[file[t]] = NoMod /\ Owned(t)
         /\ file[t] \notin MayDecline =>
              \A e \in Subscribes[file[t]] : Contains(EventHandlers[e], mod[t])
    /\ pc[t] = "erase" =>
         mod[t] # NoMod /\ Modules[file[t]] = mod[t] /\ Forgotten(mod[t])
    /\ pc[t] = "delete" =>
         Modules[file[t]] = NoMod /\ Owned(t) /\ Forgotten(mod[t])
    /\ pc[t] = "close" =>
         Modules[file[t]] = NoMod /\ (mod[t] # NoMod => handles[file[t]] > 0)

\* A loaded file is open.
HandlesInv == \A f \in Files : Modules[f] # NoMod => handles[f] > 0

Accounted(a) ==
  \/ heap[a].st = "thrown"
  \/ /\ Live(a)
     /\ \/ Modules[heap[a].file] = a
        \/ \E t \in AllThreads : pc[t] = "publish" /\ mod[t] = a

\* HandlersAccounted and NoDoubleRegistration, by element instead of position.
HandlerInv ==
  /\ Injective(EventHandlers)
  /\ \A e \in Events : \A a \in Addr : Contains(EventHandlers[e], a) => Accounted(a)

\* A method runs on some object, dead or alive.
SelfInv == \A t \in Threads : pc[t] = "body" => self[t] \in Addr

IInv ==
  /\ TypeOK
  /\ MutexGuardsLoader
  /\ RegistryLive
  /\ LoaderInv
  /\ HandlesInv
  /\ HandlerInv
  /\ HandlersComplete
  /\ SelfInv

-----------------------------------------------------------------------------

\* The invariant holds at the start of load_all.
LEMMA InitIInv == Init => IInv
<1> SUFFICES ASSUME Init PROVE IInv
  OBVIOUS
<1> USE FileAssumption, ThreadAssumption
<1>1. TypeOK
  BY EmptySeq DEF Init, TypeOK, Cells, Labels, AllThreads
<1>2. MutexGuardsLoader
  BY DEF Init, MutexGuardsLoader, Holding, AllThreads
<1>3. RegistryLive /\ HandlesInv /\ HandlersComplete
  BY DEF Init, RegistryLive, HandlesInv, HandlersComplete
<1>4. LoaderInv
  BY DEF Init, LoaderInv, Holding
<1>5. HandlerInv
  BY EmptySeq DEF Init, HandlerInv, Injective, IsInjective, Contains
<1>6. SelfInv
  BY DEF Init, SelfInv, AllThreads
<1> QED BY <1>1, <1>2, <1>3, <1>4, <1>5, <1>6 DEF IInv

-----------------------------------------------------------------------------
(* Type correctness *)

\* Every action keeps the types.
LEMMA TypeStep == IInv /\ [Next]_vars => TypeOK'
<1> SUFFICES ASSUME TypeOK, MutexGuardsLoader, LoaderInv, HandlesInv, HandlerInv,
                    SelfInv, [Next]_vars
             PROVE  TypeOK'
  BY DEF IInv
<1> USE FileAssumption, ThreadAssumption DEF TypeOK, Goto, At
<1>1. CASE LoadAllNext
  BY <1>1, HeadTailProperties DEF LoadAllNext, loaderVars, callVars, Labels, AllThreads
<1>2. CASE StartBot
  BY <1>2 DEF StartBot, loaderVars, outerVars, callVars, opVars, Labels, AllThreads
<1>3. CASE BootThrows
  BY <1>3 DEF BootThrows, loaderVars, outerVars, callVars, opVars
<1>4. ASSUME NEW t \in AllThreads, LoaderStep(t) PROVE TypeOK'
  <2>1. CASE LoadRefused(t)
    BY <2>1 DEF LoadRefused, Loaded, loaderVars, outerVars, callVars, opVars, Labels
  <2>2. CASE LoadOpen(t)
    BY <2>2 DEF LoadOpen, LoaderInv, outerVars, callVars, opVars, Labels
  <2>3. CASE InitNoSymbol(t)
    BY <2>3 DEF InitNoSymbol, loaderVars, outerVars, callVars, opVars
  <2>4. CASE InitNull(t)
    BY <2>4 DEF InitNull, Loaded, LoaderInv, Holding, outerVars, callVars, opVars, Labels
  <2>5. CASE Construct(t)
    <3>1. file[t] \in Files
      BY <2>5 DEF Construct, LoaderInv, Holding
    <3>2. PICK a \in Addr :
            /\ heap' = [heap EXCEPT ![a] = [file |-> file[t], st |-> "live"]]
            /\ mod' = [mod EXCEPT ![t] = a]
            /\ \/ EventHandlers' = Attach(EventHandlers, file[t], a)
               \/ UNCHANGED EventHandlers
      BY <2>5 DEF Construct, FreeAddr
    <3>3. Attach(EventHandlers, file[t], a) \in [Events -> Seq(Addr)]
      BY <3>1, AttachElements DEF HandlerInv
    <3>4. EventHandlers' \in [Events -> Seq(Addr)]
      BY <3>2, <3>3
    <3>5. heap' \in [Addr -> Cells]
      BY <3>1, <3>2 DEF Cells
    <3> QED BY <2>5, <3>2, <3>4, <3>5
            DEF Construct, RaceWith, outerVars, callVars, Labels
  <2>6. CASE Publish(t)
    BY <2>6 DEF Publish, Loaded, LoaderInv, Owned, RaceWith, outerVars, callVars, Labels
  <2> QED BY <1>4, <2>1, <2>2, <2>3, <2>4, <2>5, <2>6 DEF LoaderStep
<1>5. ASSUME NEW t \in Threads, ThreadStep(t) PROVE TypeOK'
  <2> t \in AllThreads
    BY DEF AllThreads
  <2>1. CASE ConstructThrows(t)
    <3>1. file[t] \in Files
      BY <2>1 DEF ConstructThrows, LoaderInv, Holding
    <3>2. PICK a \in Addr :
            /\ heap' = [heap EXCEPT ![a] = [file |-> file[t], st |-> "thrown"]]
            /\ EventHandlers' = Attach(EventHandlers, file[t], a)
      BY <2>1 DEF ConstructThrows, FreeAddr
    <3>3. EventHandlers' \in [Events -> Seq(Addr)]
      BY <3>1, <3>2, AttachElements DEF HandlerInv
    <3>4. heap' \in [Addr -> Cells]
      BY <3>1, <3>2 DEF Cells
    <3> QED BY <2>1, <3>3, <3>4
            DEF ConstructThrows, Unwind, RaceWith, outerVars, Labels
  <2>2. CASE ConstructNoMemory(t)
    BY <2>2 DEF ConstructNoMemory, Unwind, outerVars, Labels
  <2>3. CASE UnloadRefused(t)
    BY <2>3 DEF UnloadRefused, loaderVars, outerVars, callVars, opVars, Labels
  <2>4. CASE UnloadDetach(t)
    BY <2>4, DetachElements
    DEF UnloadDetach, LoaderInv, HandlerInv, RaceWith, outerVars, callVars, Labels
  <2>5. CASE UnloadErase(t)
    BY <2>5 DEF UnloadErase, RaceWith, outerVars, callVars, opVars, Labels
  <2>6. CASE UnloadDelete(t)
    <3>1. mod[t] \in Addr
      BY <2>6 DEF UnloadDelete, LoaderInv, Owned
    <3>2. ASSUME NEW c \in Cells PROVE [c EXCEPT !.st = "deleted"] \in Cells
      BY DEF Cells
    <3> DEFINE cell == [heap[mod[t]] EXCEPT !.st = "deleted"]
    <3>3. cell \in Cells
      BY <3>1, <3>2
    <3> HIDE DEF cell
    <3>4. heap' = [heap EXCEPT ![mod[t]] = cell] \/ heap' = heap
      BY <2>6 DEF UnloadDelete, cell
    <3>5. heap' \in [Addr -> Cells]
      BY <3>1, <3>3, <3>4
    <3> QED BY ZenonT(40), <2>6, <3>5 DEF UnloadDelete, outerVars, callVars, Labels
  <2>7. CASE UnloadClose(t)
    BY <2>7 DEF UnloadClose, LoaderInv, Holding, outerVars, callVars, Labels
  <2>8. CASE Call(t)
    BY <2>8, HeadTailProperties DEF Call, loaderVars, outerVars, opVars, Labels
  <2>9. CASE CallDead(t)
    <3>1. list_to_call[t] \in Seq(Addr) /\ list_to_call[t] # <<>>
      BY <2>9 DEF CallDead
    <3>2. Tail(list_to_call[t]) \in Seq(Addr)
      BY <3>1, HeadTailProperties
    <3>3. list_to_call' \in [Threads -> Seq(Addr)]
      BY <2>9, <3>2 DEF CallDead
    <3> QED BY <2>9, <3>3 DEF CallDead, loaderVars, outerVars, opVars
  <2>10. CASE DispatchDone(t)
    BY <2>10 DEF DispatchDone, loaderVars, outerVars, opVars, Labels
  <2>11. CASE Return(t)
    BY <2>11 DEF Return, loaderVars, outerVars, opVars, Labels
  <2>12. CASE RecopyAndBreak(t)
    BY <2>12, EmptySeq DEF RecopyAndBreak, loaderVars, outerVars, opVars, Labels
  <2>13. CASE ListingDone(t)
    BY <2>13 DEF ListingDone, loaderVars, outerVars, callVars, opVars, Labels
  <2>14. CASE Reply(t)
    BY <2>14 DEF Reply, loaderVars, outerVars, Labels
  <2>15. CASE RunDead(t)
    BY <2>15 DEF RunDead, loaderVars, outerVars, callVars, opVars
  <2> QED BY <1>5, <2>1, <2>2, <2>3, <2>4, <2>5, <2>6, <2>7, <2>8, <2>9, <2>10, <2>11,
             <2>12, <2>13, <2>14, <2>15 DEF ThreadStep
<1>6. ASSUME NEW t \in Threads, Snapshot(t) PROVE TypeOK'
  BY <1>6 DEF Snapshot, loaderVars, outerVars, opVars, Labels, AllThreads
<1>7. ASSUME NEW t \in Threads, SudoLoader(t) PROVE TypeOK'
  BY SMTT(30), <1>7 DEF SudoLoader, Sudo, loaderVars, callVars, Labels, AllThreads, Ops
<1>8. ASSUME NEW t \in Threads, SudoPing(t) PROVE TypeOK'
  BY <1>8 DEF SudoPing, Sudo, SelfInv, loaderVars, opVars, Labels, AllThreads
<1>9. ASSUME NEW t \in Threads, SudoRestart(t) PROVE TypeOK'
  BY <1>9 DEF SudoRestart, Sudo, loaderVars, callVars, opVars
<1>10. CASE Pong
  BY <1>10 DEF Pong, loaderVars, callVars, opVars
<1>11. CASE UNCHANGED vars
  BY <1>11 DEF vars, loaderVars, outerVars, callVars, opVars
<1> QED BY <1>1, <1>2, <1>3, <1>4, <1>5, <1>6, <1>7, <1>8, <1>9, <1>10, <1>11
        DEF Next, Ended

-----------------------------------------------------------------------------
(* The steps outside load and unload *)

RestInv ==
  /\ MutexGuardsLoader
  /\ RegistryLive
  /\ LoaderInv
  /\ HandlesInv
  /\ HandlerInv
  /\ HandlersComplete

\* A step in which no thread is, or comes to be, inside load or unload.
Quiet ==
  /\ UNCHANGED <<loaderVars, mod>>
  /\ \A t \in AllThreads :
       \/ pc'[t] = pc[t] /\ file'[t] = file[t]
       \/ /\ pc[t] \notin Holding /\ pc'[t] \notin Holding
          /\ pc'[t] \in {"load", "unload"} => file'[t] \in Files

\* Steps that only move a thread between quiet labels keep the rest of IInv.
LEMMA QuietStep == IInv /\ Quiet => RestInv'
<1> SUFFICES ASSUME IInv, Quiet PROVE RestInv'
  OBVIOUS
<1> USE DEF IInv, Quiet, loaderVars
<1>1. MutexGuardsLoader'
  BY DEF MutexGuardsLoader
<1>2. RegistryLive' /\ HandlesInv'
  BY DEF RegistryLive, HandlesInv
<1>3. LoaderInv'
  BY DEF LoaderInv, Owned, Forgotten, Holding
<1>4. HandlerInv'
  BY DEF HandlerInv, Accounted, Live, Holding
<1>5. HandlersComplete'
  BY DEF HandlersComplete, Holding
<1> QED BY <1>1, <1>2, <1>3, <1>4, <1>5 DEF RestInv

\* Every step but those that hold, take or release the mutex is quiet.
LEMMA QuietActions ==
  ASSUME IInv
  PROVE  /\ LoadAllNext \/ StartBot \/ BootThrows \/ Pong \/ UNCHANGED vars => Quiet
         /\ \A t \in AllThreads : LoadRefused(t) \/ InitNoSymbol(t) => Quiet
         /\ \A t \in Threads :
              \/ UnloadRefused(t) \/ Call(t) \/ CallDead(t) \/ DispatchDone(t) \/ Return(t)
              \/ RecopyAndBreak(t) \/ ListingDone(t) \/ Reply(t) \/ RunDead(t)
              \/ Snapshot(t) \/ SudoLoader(t) \/ SudoPing(t) \/ SudoRestart(t)
              => Quiet
<1> USE DEF IInv, TypeOK, Quiet, At, Goto, Holding, loaderVars, opVars
<1>1. LoadAllNext => Quiet
  BY HeadTailProperties DEF LoadAllNext
<1>2. StartBot \/ BootThrows \/ Pong \/ UNCHANGED vars => Quiet
  BY DEF StartBot, BootThrows, Pong, vars
<1>3. ASSUME NEW t \in AllThreads PROVE LoadRefused(t) \/ InitNoSymbol(t) => Quiet
  BY DEF LoadRefused, InitNoSymbol, Loaded
<1>4. ASSUME NEW t \in Threads
      PROVE  \/ UnloadRefused(t) \/ Call(t) \/ CallDead(t) \/ DispatchDone(t) \/ Return(t)
             \/ RecopyAndBreak(t) \/ ListingDone(t) \/ Reply(t) \/ RunDead(t)
             \/ Snapshot(t) \/ SudoLoader(t) \/ SudoPing(t) \/ SudoRestart(t)
             => Quiet
  <2> t \in AllThreads
    BY DEF AllThreads
  <2>1. UnloadRefused(t) \/ ListingDone(t) \/ Reply(t) \/ RunDead(t) => Quiet
    BY DEF UnloadRefused, ListingDone, Reply, RunDead
  <2>2. Call(t) \/ CallDead(t) \/ DispatchDone(t) \/ Return(t) \/ RecopyAndBreak(t)
        \/ Snapshot(t) => Quiet
    BY DEF Call, CallDead, DispatchDone, Return, RecopyAndBreak, Snapshot
  <2>3. SudoLoader(t) => Quiet
    BY FileAssumption DEF SudoLoader, Sudo, Ops
  <2>4. SudoPing(t) \/ SudoRestart(t) => Quiet
    BY DEF SudoPing, SudoRestart, Sudo
  <2> QED BY <2>1, <2>2, <2>3, <2>4
<1> QED BY <1>1, <1>2, <1>3, <1>4

\* A thread inside a method keeps its object.
LEMMA SelfStep == IInv /\ [Next]_vars => SelfInv'
<1> SUFFICES ASSUME TypeOK, SelfInv, [Next]_vars, NEW u \in Threads PROVE
               pc'[u] = "body" => self'[u] \in Addr
  BY DEF IInv, SelfInv
<1> USE ThreadAssumption DEF TypeOK, SelfInv, At, Goto, callVars, AllThreads
<1>1. CASE LoadAllNext \/ StartBot \/ BootThrows \/ Pong \/ UNCHANGED vars
  BY <1>1 DEF LoadAllNext, StartBot, BootThrows, Pong, vars
<1>2. ASSUME NEW t \in AllThreads, LoaderStep(t) PROVE pc'[u] = "body" => self'[u] \in Addr
  BY <1>2 DEF LoaderStep, LoadRefused, LoadOpen, InitNoSymbol, InitNull, Construct, Publish,
              Loaded
<1>3. ASSUME NEW t \in Threads, ThreadStep(t) PROVE pc'[u] = "body" => self'[u] \in Addr
  <2>1. CASE Call(t)
    BY <2>1, HeadTailProperties DEF Call
  <2>2. CASE ConstructThrows(t) \/ ConstructNoMemory(t)
    BY <2>2 DEF ConstructThrows, ConstructNoMemory, Unwind
  <2>3. CASE UnloadRefused(t) \/ UnloadDetach(t) \/ UnloadErase(t) \/ UnloadDelete(t)
             \/ UnloadClose(t)
    BY <2>3 DEF UnloadRefused, UnloadDetach, UnloadErase, UnloadDelete, UnloadClose
  <2>4. CASE CallDead(t) \/ DispatchDone(t) \/ Return(t) \/ RecopyAndBreak(t)
             \/ ListingDone(t) \/ Reply(t) \/ RunDead(t)
    BY <2>4 DEF CallDead, DispatchDone, Return, RecopyAndBreak, ListingDone, Reply, RunDead
  <2> QED BY <1>3, <2>1, <2>2, <2>3, <2>4 DEF ThreadStep
<1>4. ASSUME NEW t \in Threads,
             Snapshot(t) \/ SudoLoader(t) \/ SudoPing(t) \/ SudoRestart(t)
      PROVE  pc'[u] = "body" => self'[u] \in Addr
  BY <1>4 DEF Snapshot, SudoLoader, SudoPing, SudoRestart, Sudo
<1> QED BY <1>1, <1>2, <1>3, <1>4 DEF Next, Ended

-----------------------------------------------------------------------------
(* The steps inside load *)

\* Only the owner of the mutex is inside load or unload.
LEMMA Alone ==
  ASSUME TypeOK, MutexGuardsLoader, NEW t \in AllThreads, mtx \in {Free, t}
  PROVE  \A u \in AllThreads \ {t} : pc[u] \notin Holding
BY ThreadAssumption DEF MutexGuardsLoader

\* dlopen: the mutex is taken, one handle more.
LEMMA LoadOpenStep ==
  ASSUME IInv, NEW t \in AllThreads, LoadOpen(t) PROVE RestInv'
<1> USE ThreadAssumption DEF IInv, TypeOK, LoadOpen, At, Goto, opVars
<1>1. \A u \in AllThreads \ {t} : pc[u] \notin Holding
  BY Alone
<1>2. file[t] \in Files
  BY DEF LoaderInv
<1>3. MutexGuardsLoader'
  BY <1>1 DEF MutexGuardsLoader, Holding
<1>4. RegistryLive' /\ HandlesInv'
  BY <1>2 DEF RegistryLive, HandlesInv
<1>5. LoaderInv'
  BY <1>1, <1>2 DEF LoaderInv, Holding
<1>6. HandlerInv'
  BY <1>1 DEF HandlerInv, Accounted, Live, Holding
<1>7. HandlersComplete'
  BY <1>1 DEF HandlersComplete, Holding
<1> QED BY <1>3, <1>4, <1>5, <1>6, <1>7 DEF RestInv

\* init_module returned null: the handle is closed again.
LEMMA InitNullStep ==
  ASSUME IInv, NEW t \in AllThreads, InitNull(t) PROVE RestInv'
<1> USE ThreadAssumption DEF IInv, TypeOK, InitNull, At, Goto, Loaded, opVars
<1>1. /\ mtx = t
      /\ \A u \in AllThreads \ {t} : pc[u] \notin Holding
  BY Alone DEF MutexGuardsLoader, Holding
<1>2. file[t] \in Files /\ Modules[file[t]] = NoMod
  BY DEF LoaderInv, Holding
<1>3. MutexGuardsLoader'
  BY <1>1 DEF MutexGuardsLoader, Holding
<1>4. RegistryLive' /\ HandlesInv'
  BY <1>2 DEF RegistryLive, HandlesInv
<1>5. LoaderInv'
  BY <1>1, <1>2 DEF LoaderInv, Holding
<1>6. HandlerInv'
  BY <1>1 DEF HandlerInv, Accounted, Live, Holding
<1>7. HandlersComplete'
  BY <1>1 DEF HandlersComplete, Holding
<1> QED BY <1>3, <1>4, <1>5, <1>6, <1>7 DEF RestInv

\* The new object enters the lists of its events.
LEMMA ConstructStep ==
  ASSUME IInv, NEW t \in AllThreads, Construct(t) PROVE RestInv'
<1> USE FileAssumption, ThreadAssumption DEF IInv, TypeOK, At, Goto
<1> DEFINE f == file[t]
<1>1. /\ mtx = t /\ pc[t] = "init"
      /\ \A u \in AllThreads \ {t} : pc[u] \notin Holding
  BY Alone DEF MutexGuardsLoader, Holding, Construct
<1>2. f \in Files /\ Modules[f] = NoMod /\ handles[f] > 0
  BY <1>1 DEF LoaderInv, Holding
<1>3. PICK a \in Addr :
        /\ heap[a].st # "live"
        /\ heap' = [heap EXCEPT ![a] = [file |-> f, st |-> "live"]]
        /\ mod' = [mod EXCEPT ![t] = a]
        /\ \/ EventHandlers' = Attach(EventHandlers, f, a)
           \/ f \in MayDecline /\ UNCHANGED EventHandlers
  BY DEF Construct, FreeAddr, Live
<1>4. /\ pc' = [pc EXCEPT ![t] = "publish"]
      /\ UNCHANGED <<mtx, Modules, mod_map, handles, file>>
  BY DEF Construct
<1>5. MutexGuardsLoader'
  BY <1>1, <1>4 DEF MutexGuardsLoader, Holding
<1>6. RegistryLive' /\ HandlesInv'
  BY <1>3, <1>4 DEF RegistryLive, HandlesInv
<1>7. /\ Injective(EventHandlers')
      /\ \A e \in Events : \A y :
           /\ Contains(EventHandlers'[e], y) => Contains(EventHandlers[e], y) \/ y = a
           /\ Contains(EventHandlers[e], y) => Contains(EventHandlers'[e], y)
           /\ f \notin MayDecline /\ e \in Subscribes[f] => Contains(EventHandlers'[e], a)
  <2>1. CASE EventHandlers' = Attach(EventHandlers, f, a)
    <3> DEFINE h == Attach(EventHandlers, f, a)
    <3>1. /\ Injective(h)
          /\ \A e \in Events : \A y :
               Contains(h[e], y)
                 <=> Contains(EventHandlers[e], y) \/ (y = a /\ e \in Subscribes[f])
      BY <1>2, AttachElements DEF HandlerInv
    <3> HIDE DEF h
    <3> QED BY <2>1, <3>1 DEF h
  <2>2. CASE f \in MayDecline /\ UNCHANGED EventHandlers
    BY <2>2 DEF HandlerInv
  <2> QED BY <1>3, <2>1, <2>2
<1>8. LoaderInv'
  <2>1. /\ Owned(t)'
        /\ f \notin MayDecline =>
             \A e \in Subscribes[f] : Contains(EventHandlers'[e], mod'[t])
    BY ZenonT(40), <1>2, <1>3, <1>4, <1>7 DEF Owned
  <2> QED BY <1>1, <1>2, <1>4, <2>1 DEF LoaderInv, Holding
<1>9. HandlerInv'
  BY <1>1, <1>3, <1>4, <1>7 DEF HandlerInv, Accounted, Live, Holding
<1>10. HandlersComplete'
  BY ZenonT(40), <1>1, <1>2, <1>4, <1>7 DEF HandlersComplete, Holding
<1> QED BY <1>5, <1>6, <1>8, <1>9, <1>10 DEF RestInv

\* A throwing constructor leaves a dead pointer, but no live one, in the lists.
LEMMA ConstructThrowsStep ==
  ASSUME IInv, NEW t \in AllThreads, ConstructThrows(t) PROVE RestInv'
<1> USE FileAssumption, ThreadAssumption DEF IInv, TypeOK, At, Goto
<1> DEFINE f == file[t]
<1>1. /\ mtx = t /\ pc[t] = "init"
      /\ \A u \in AllThreads \ {t} : pc[u] \notin Holding
  BY Alone DEF MutexGuardsLoader, Holding, ConstructThrows
<1>2. f \in Files
  BY <1>1 DEF LoaderInv, Holding
<1>3. PICK a \in Addr :
        /\ heap[a].st # "live"
        /\ heap' = [heap EXCEPT ![a] = [file |-> f, st |-> "thrown"]]
        /\ EventHandlers' = Attach(EventHandlers, f, a)
  BY DEF ConstructThrows, FreeAddr, Live
<1>4. /\ pc' = [pc EXCEPT ![t] = "loop"] /\ file' = [file EXCEPT ![t] = NoFile]
      /\ mtx' = Free
      /\ UNCHANGED <<Modules, mod_map, handles, mod>>
  BY DEF ConstructThrows, Unwind
<1>5. MutexGuardsLoader'
  BY <1>1, <1>4 DEF MutexGuardsLoader, Holding
<1>6. RegistryLive' /\ HandlesInv'
  BY <1>3, <1>4 DEF RegistryLive, HandlesInv
<1>7. /\ Injective(EventHandlers')
      /\ \A e \in Events : \A y :
           /\ Contains(EventHandlers'[e], y) => Contains(EventHandlers[e], y) \/ y = a
           /\ Contains(EventHandlers[e], y) => Contains(EventHandlers'[e], y)
  <2> DEFINE h == Attach(EventHandlers, f, a)
  <2>1. /\ Injective(h)
        /\ \A e \in Events : \A y :
             Contains(h[e], y)
               <=> Contains(EventHandlers[e], y) \/ (y = a /\ e \in Subscribes[f])
    BY ZenonT(40), <1>2, AttachElements DEF HandlerInv
  <2> HIDE DEF h
  <2> QED BY <1>3, <2>1 DEF h
<1>8. LoaderInv'
  BY <1>1, <1>4 DEF LoaderInv, Holding
<1>9. HandlerInv'
  BY <1>1, <1>3, <1>4, <1>7 DEF HandlerInv, Accounted, Live, Holding
<1>10. HandlersComplete'
  BY ZenonT(40), <1>1, <1>4, <1>7 DEF HandlersComplete, Holding
<1> QED BY <1>5, <1>6, <1>8, <1>9, <1>10 DEF RestInv

\* bad_alloc leaves nothing but an open handle.
LEMMA ConstructNoMemoryStep ==
  ASSUME IInv, NEW t \in AllThreads, ConstructNoMemory(t) PROVE RestInv'
<1> USE ThreadAssumption DEF IInv, TypeOK, ConstructNoMemory, Unwind, At, Goto
<1>1. \A u \in AllThreads \ {t} : pc[u] \notin Holding
  BY Alone DEF MutexGuardsLoader, Holding
<1>2. MutexGuardsLoader'
  BY <1>1 DEF MutexGuardsLoader, Holding
<1>3. RegistryLive' /\ HandlesInv'
  BY DEF RegistryLive, HandlesInv
<1>4. LoaderInv'
  BY <1>1 DEF LoaderInv, Holding
<1>5. HandlerInv'
  BY <1>1 DEF HandlerInv, Accounted, Live, Holding
<1>6. HandlersComplete'
  BY <1>1 DEF HandlersComplete, Holding
<1> QED BY <1>2, <1>3, <1>4, <1>5, <1>6 DEF RestInv

\* The object constructed is what both maps name from here on.
LEMMA PublishStep ==
  ASSUME IInv, NEW t \in AllThreads, Publish(t) PROVE RestInv'
<1> USE FileAssumption, ThreadAssumption DEF IInv, TypeOK, At, Goto
<1> DEFINE f == file[t]
           a == mod[t]
<1>1. /\ mtx = t /\ pc[t] = "publish"
      /\ \A u \in AllThreads \ {t} : pc[u] \notin Holding
  BY Alone DEF MutexGuardsLoader, Holding, Publish
<1>2. /\ f \in Files /\ a \in Addr
      /\ heap[a] = [file |-> f, st |-> "live"]
      /\ Modules[f] = NoMod /\ handles[f] > 0
      /\ f \notin MayDecline => \A e \in Subscribes[f] : Contains(EventHandlers[e], a)
  BY <1>1 DEF LoaderInv, Owned, Holding
<1>3. /\ Modules' = [Modules EXCEPT ![f] = a]
      /\ mod_map' = [mod_map EXCEPT ![f] = a]
      /\ mtx' = Free /\ mod' = [mod EXCEPT ![t] = NoMod]
      /\ \E l \in {"load_all", "reply"} : pc' = [pc EXCEPT ![t] = l]
      /\ UNCHANGED <<EventHandlers, heap, handles, file>>
  BY DEF Publish, Loaded
<1>4. MutexGuardsLoader'
  BY <1>1, <1>3 DEF MutexGuardsLoader, Holding
<1>5. RegistryLive' /\ HandlesInv'
  BY <1>2, <1>3 DEF RegistryLive, HandlesInv
<1>6. LoaderInv'
  BY <1>1, <1>3 DEF LoaderInv, Holding
<1>7. HandlerInv'
  <2> SUFFICES ASSUME NEW e \in Events, NEW b \in Addr, Contains(EventHandlers[e], b)
               PROVE  Accounted(b)'
    BY <1>3 DEF HandlerInv
  <2>1. Accounted(b)
    BY DEF HandlerInv
  <2>2. CASE b = a
    BY <1>2, <1>3, <2>2 DEF Accounted, Live
  <2>3. CASE b # a
    BY <1>1, <1>2, <1>3, <2>1, <2>3 DEF Accounted, Live, Holding
  <2> QED BY <2>2, <2>3
<1>8. HandlersComplete'
  BY <1>1, <1>2, <1>3 DEF HandlersComplete, Holding
<1> QED BY <1>4, <1>5, <1>6, <1>7, <1>8 DEF RestInv

-----------------------------------------------------------------------------
(* The steps inside unload *)

\* Two files never share an object.
LEMMA OneFile ==
  ASSUME RegistryLive, NEW g \in Files, Modules[g] # NoMod
  PROVE  heap[Modules[g]].file = g
<1>1. heap[Modules[g]] = [file |-> g, st |-> "live"]
  BY DEF RegistryLive
<1> QED BY <1>1

\* The loop over the events removes the object from every list.
LEMMA UnloadDetachStep ==
  ASSUME IInv, NEW t \in AllThreads, UnloadDetach(t) PROVE RestInv'
<1> USE FileAssumption, ThreadAssumption DEF IInv, TypeOK, At, Goto
<1> DEFINE f == file[t]
           a == Modules[f]
<1>1. /\ pc[t] = "unload" /\ f \in Files /\ a # NoMod /\ a \in Addr
      /\ \A u \in AllThreads \ {t} : pc[u] \notin Holding
  BY Alone DEF UnloadDetach, LoaderInv
<1>2. /\ mtx' = t /\ mod' = [mod EXCEPT ![t] = a]
      /\ EventHandlers' = Detach(EventHandlers, a)
      /\ pc' = [pc EXCEPT ![t] = "erase"]
      /\ UNCHANGED <<Modules, mod_map, heap, handles, file>>
  BY DEF UnloadDetach
<1>3. /\ Injective(EventHandlers')
      /\ \A e \in Events : \A y :
           Contains(EventHandlers'[e], y) <=> Contains(EventHandlers[e], y) /\ y # a
  <2> DEFINE h == Detach(EventHandlers, a)
  <2>1. /\ Injective(h)
        /\ \A e \in Events : \A y :
             Contains(h[e], y) <=> Contains(EventHandlers[e], y) /\ y # a
    <3>1. EventHandlers \in [Events -> Seq(Addr)] /\ Injective(EventHandlers)
      BY DEF HandlerInv
    <3> HIDE DEF a
    <3> QED BY <3>1, DetachElements
  <2> HIDE DEF h
  <2> QED BY <1>2, <2>1 DEF h
<1>4. MutexGuardsLoader'
  BY <1>1, <1>2 DEF MutexGuardsLoader, Holding
<1>5. RegistryLive' /\ HandlesInv'
  BY <1>2 DEF RegistryLive, HandlesInv
<1>6. LoaderInv'
  <2>1. Forgotten(mod[t])' /\ mod'[t] = a /\ Modules'[file'[t]] = a
    BY <1>1, <1>2, <1>3 DEF Forgotten
  <2> QED BY <1>1, <1>2, <2>1 DEF LoaderInv, Holding
<1>7. HandlerInv'
  BY <1>1, <1>2, <1>3 DEF HandlerInv, Accounted, Live, Holding
<1>8. HandlersComplete'
  <2> SUFFICES ASSUME NEW g \in Files \ MayDecline, NEW e \in Subscribes[g],
                      Modules[g] # NoMod, Modules[g] # a
               PROVE  Contains(EventHandlers'[e], Modules[g])
    BY <1>1, <1>2 DEF HandlersComplete
  <2>1. Contains(EventHandlers[e], Modules[g])
    BY <1>1 DEF HandlersComplete, Holding
  <2> QED BY <1>3, <2>1
<1> QED BY <1>4, <1>5, <1>6, <1>7, <1>8 DEF RestInv

\* Both maps forget the file together.
LEMMA UnloadEraseStep ==
  ASSUME IInv, NEW t \in AllThreads, UnloadErase(t) PROVE RestInv'
<1> USE ThreadAssumption DEF IInv, TypeOK, At, Goto, opVars
<1> DEFINE f == file[t]
           a == mod[t]
<1>1. /\ mtx = t /\ pc[t] = "erase"
      /\ \A u \in AllThreads \ {t} : pc[u] \notin Holding
  BY Alone DEF MutexGuardsLoader, Holding, UnloadErase
<1>2. /\ f \in Files /\ a \in Addr /\ a # NoMod /\ Modules[f] = a
      /\ heap[a] = [file |-> f, st |-> "live"] /\ handles[f] > 0
      /\ Forgotten(a)
  BY <1>1 DEF LoaderInv, RegistryLive, HandlesInv, Holding
<1>3. /\ Modules' = [Modules EXCEPT ![f] = NoMod]
      /\ mod_map' = [mod_map EXCEPT ![f] = NoMod]
      /\ pc' = [pc EXCEPT ![t] = "delete"]
      /\ UNCHANGED <<mtx, EventHandlers, heap, handles, file, mod>>
  BY DEF UnloadErase
<1>4. MutexGuardsLoader'
  BY <1>1, <1>3 DEF MutexGuardsLoader, Holding
<1>5. RegistryLive' /\ HandlesInv'
  BY <1>3 DEF RegistryLive, HandlesInv
<1>6. LoaderInv'
  BY <1>1, <1>2, <1>3 DEF LoaderInv, Owned, Forgotten, Holding
<1>7. HandlerInv'
  <2> SUFFICES ASSUME NEW e \in Events, NEW b \in Addr, Contains(EventHandlers[e], b)
               PROVE  Accounted(b)'
    BY <1>3 DEF HandlerInv
  <2>1. Accounted(b) /\ b # a
    BY <1>2 DEF HandlerInv, Forgotten
  <2>2. heap[b].st \in {"live", "thrown"} /\ heap'[b] = heap[b]
    BY <1>3, <2>1 DEF Accounted, Live
  <2>3. CASE heap[b].st = "thrown"
    BY <2>2, <2>3 DEF Accounted
  <2>4. CASE Live(b)
    <3>1. CASE \E u \in AllThreads : pc[u] = "publish" /\ mod[u] = b
      BY <1>1, <3>1 DEF Holding
    <3>2. CASE Modules[heap[b].file] = b
      BY <1>2, <1>3, <2>1, <2>2, <2>4, <3>2 DEF Accounted, Live
    <3>3. heap[b].st # "thrown"
      BY <2>4 DEF Live
    <3> QED BY <2>1, <3>1, <3>2, <3>3 DEF Accounted
  <2> QED BY <2>2, <2>3, <2>4 DEF Live
<1>8. HandlersComplete'
  <2> SUFFICES ASSUME NEW g \in Files \ MayDecline, NEW e \in Subscribes[g],
                      g # f, Modules[g] # NoMod
               PROVE  Contains(EventHandlers[e], Modules[g])
    BY <1>2, <1>3 DEF HandlersComplete
  <2>1. Modules[g] # a
    <3>1. heap[a].file = f
      BY <1>2
    <3>2. heap[Modules[g]].file = g
      BY OneFile
    <3> QED BY <3>1, <3>2
  <2> QED BY <1>1, <2>1 DEF HandlersComplete, Holding
<1> QED BY <1>4, <1>5, <1>6, <1>7, <1>8 DEF RestInv

\* What is deleted is in no list and in no map.
LEMMA UnloadDeleteStep ==
  ASSUME IInv, NEW t \in AllThreads, UnloadDelete(t) PROVE RestInv'
<1> USE FileAssumption, ThreadAssumption DEF IInv, TypeOK, At, Goto
<1> DEFINE f == file[t]
           a == mod[t]
<1>1. /\ mtx = t /\ pc[t] = "delete"
      /\ \A u \in AllThreads \ {t} : pc[u] \notin Holding
  BY Alone DEF MutexGuardsLoader, Holding, UnloadDelete
<1>2. /\ f \in Files /\ a \in Addr /\ Modules[f] = NoMod
      /\ heap[a] = [file |-> f, st |-> "live"] /\ handles[f] > 0
      /\ Forgotten(a)
  BY <1>1 DEF LoaderInv, Owned, Holding
<1>3. /\ \A b \in Addr \ {a} : heap'[b] = heap[b]
      /\ mod' \in {mod, [mod EXCEPT ![t] = NoMod]}
      /\ \/ pc' = [pc EXCEPT ![t] = "close"]
         \/ pc' = pc /\ heap' = heap /\ mod' = mod
      /\ UNCHANGED <<mtx, Modules, mod_map, EventHandlers, handles, file>>
  BY <1>2 DEF UnloadDelete
<1>4. MutexGuardsLoader'
  BY <1>1, <1>3 DEF MutexGuardsLoader, Holding
<1>5. RegistryLive' /\ HandlesInv'
  <2>1. ASSUME NEW g \in Files PROVE Modules[g] # a
    <3>1. heap[a].file = f
      BY <1>2
    <3>2. Modules[g] # NoMod => heap[Modules[g]].file = g
      BY OneFile
    <3> QED BY <1>2, <3>1, <3>2
  <2> QED BY <1>3, <2>1 DEF RegistryLive, HandlesInv
<1>6. LoaderInv'
  <2>1. CASE pc' = [pc EXCEPT ![t] = "close"]
    BY <1>1, <1>2, <1>3, <2>1 DEF LoaderInv, Holding
  <2>2. CASE pc' = pc /\ heap' = heap /\ mod' = mod
    BY <1>3, <2>2 DEF LoaderInv, Owned, Forgotten
  <2> QED BY <1>3, <2>1, <2>2
<1>7. HandlerInv'
  <2> SUFFICES ASSUME NEW e \in Events, NEW b \in Addr, Contains(EventHandlers[e], b)
               PROVE  Accounted(b)'
    BY <1>3 DEF HandlerInv
  <2>1. Accounted(b) /\ heap'[b] = heap[b]
    BY <1>2, <1>3 DEF HandlerInv, Forgotten
  <2> QED BY <1>1, <1>3, <2>1 DEF Accounted, Live, Holding
<1>8. HandlersComplete'
  BY <1>1, <1>3 DEF HandlersComplete, Holding
<1> QED BY <1>4, <1>5, <1>6, <1>7, <1>8 DEF RestInv

\* dlclose comes after the delete.
LEMMA UnloadCloseStep ==
  ASSUME IInv, NEW t \in AllThreads, UnloadClose(t) PROVE RestInv'
<1> USE ThreadAssumption DEF IInv, TypeOK, At, Goto
<1>1. /\ mtx = t /\ pc[t] = "close"
      /\ \A u \in AllThreads \ {t} : pc[u] \notin Holding
  BY Alone DEF MutexGuardsLoader, Holding, UnloadClose
<1>2. file[t] \in Files /\ Modules[file[t]] = NoMod
  BY <1>1 DEF LoaderInv, Holding
<1>3. /\ \A g \in Files \ {file[t]} : handles'[g] = handles[g]
      /\ mtx' = Free /\ mod' = [mod EXCEPT ![t] = NoMod]
      /\ \E l \in {"load", "reply"} : pc' = [pc EXCEPT ![t] = l]
      /\ UNCHANGED <<Modules, mod_map, EventHandlers, heap, file>>
  BY DEF UnloadClose
<1>4. MutexGuardsLoader'
  BY <1>1, <1>3 DEF MutexGuardsLoader, Holding
<1>5. RegistryLive' /\ HandlesInv'
  BY <1>2, <1>3 DEF RegistryLive, HandlesInv
<1>6. LoaderInv'
  BY <1>1, <1>2, <1>3 DEF LoaderInv, Holding
<1>7. HandlerInv'
  BY <1>1, <1>3 DEF HandlerInv, Accounted, Live, Holding
<1>8. HandlersComplete'
  BY <1>1, <1>3 DEF HandlersComplete, Holding
<1> QED BY <1>4, <1>5, <1>6, <1>7, <1>8 DEF RestInv

-----------------------------------------------------------------------------
(* The theorems *)

\* IInv is inductive.
LEMMA NextIInv == IInv /\ [Next]_vars => IInv'
<1> SUFFICES ASSUME IInv, [Next]_vars PROVE IInv'
  OBVIOUS
<1>1. RestInv'
  <2>1. CASE Quiet
    BY <2>1, QuietStep
  <2>2. ASSUME NEW t \in AllThreads, LoaderStep(t) PROVE RestInv'
    BY <2>1, <2>2, QuietActions, LoadOpenStep, InitNullStep, ConstructStep, PublishStep
    DEF LoaderStep
  <2>3. ASSUME NEW t \in Threads,
               \/ ThreadStep(t) \/ Snapshot(t) \/ SudoLoader(t) \/ SudoPing(t)
               \/ SudoRestart(t)
        PROVE  RestInv'
    <3>1. t \in AllThreads
      BY DEF AllThreads
    <3> QED BY <2>1, <2>3, <3>1, QuietActions, ConstructThrowsStep, ConstructNoMemoryStep,
               UnloadDetachStep, UnloadEraseStep, UnloadDeleteStep, UnloadCloseStep
            DEF ThreadStep
  <2> QED BY <2>1, <2>2, <2>3, QuietActions DEF Next, Ended
<1>2. TypeOK' /\ SelfInv'
  BY TypeStep, SelfStep
<1> QED BY <1>1, <1>2 DEF IInv, RestInv

\* IInv is an invariant of the specification.
LEMMA Invariance == Spec => []IInv
BY InitIInv, NextIInv, PTL DEF Spec

\* The lists are accounted for and free of doubles in every state of IInv.
LEMMA IInvHandlers == IInv => HandlersAccounted /\ NoDoubleRegistration
<1> SUFFICES ASSUME IInv PROVE HandlersAccounted /\ NoDoubleRegistration
  OBVIOUS
<1> USE DEF IInv, TypeOK
<1>1. HandlersAccounted
  <2> SUFFICES ASSUME NEW e \in Events, NEW i \in DOMAIN EventHandlers[e]
               PROVE  Accounted(EventHandlers[e][i])
    BY DEF HandlersAccounted, Accounted
  <2>1. i \in 1..Len(EventHandlers[e]) /\ EventHandlers[e][i] \in Addr
    BY LenProperties, ElementOfSeq
  <2> QED BY <2>1 DEF HandlerInv, Contains
<1>2. NoDoubleRegistration
  BY DEF HandlerInv, Injective, NoDoubleRegistration
<1> QED BY <1>1, <1>2

-----------------------------------------------------------------------------
(* Libraries stay open as long as their objects live *)

\* The live objects of a file.
LiveOf(f) == {a \in Addr : heap[a].st = "live" /\ heap[a].file = f}

\* t holds an open handle that no live object answers for.
Awaiting(t) == pc[t] = "init" \/ (pc[t] = "close" /\ mod[t] # NoMod)

Pending(f) == IF \E t \in AllThreads : file[t] = f /\ Awaiting(t) THEN 1 ELSE 0

\* A handle for every live object and one for the step in progress.
OpenInv ==
  /\ \A f \in Files : handles[f] >= Cardinality(LiveOf(f)) + Pending(f)
  /\ \A a \in Addr : Live(a) => heap[a].file \in Files

\* A file has finitely many live objects.
LEMMA LiveOfFinite ==
  ASSUME NEW f PROVE IsFiniteSet(LiveOf(f)) /\ Cardinality(LiveOf(f)) \in Nat
<1>1. LiveOf(f) \subseteq Addr
  BY DEF LiveOf
<1> QED BY <1>1, AddrAssumption, FS_Subset, FS_CardinalityType

\* With OpenInv a live object's library has a handle.
LEMMA OpenMapped == TypeOK /\ OpenInv => LibraryMapped
<1> SUFFICES ASSUME TypeOK, OpenInv, NEW a \in Addr, Live(a)
             PROVE  heap[a].file \in Files /\ handles[heap[a].file] > 0
  BY DEF LibraryMapped, Mapped
<1> DEFINE f == heap[a].file
<1>1. f \in Files /\ a \in LiveOf(f)
  BY DEF OpenInv, Live, LiveOf
<1>2. Cardinality(LiveOf(f)) > 0
  BY <1>1, LiveOfFinite, FS_EmptySet
<1>3. Pending(f) \in Nat /\ handles[f] \in Nat
  BY <1>1 DEF Pending, TypeOK
<1>4. handles[f] >= Cardinality(LiveOf(f)) + Pending(f)
  BY <1>1 DEF OpenInv
<1> QED BY <1>1, <1>2, <1>3, <1>4, LiveOfFinite

\* Outside load and unload, and in the steps there that move no handle.
LEMMA OpenUnmoved ==
  ASSUME OpenInv, UNCHANGED <<heap, handles>>, \A f \in Files : Pending(f)' = Pending(f)
  PROVE  OpenInv'
BY DEF OpenInv, LiveOf, Live

\* What the thread that holds the mutex does decides what is pending.
LEMMA PendingAlone ==
  ASSUME NEW t \in AllThreads, NEW f,
         \A u \in AllThreads \ {t} : pc[u] \notin Holding
  PROVE  Pending(f) = IF file[t] = f /\ Awaiting(t) THEN 1 ELSE 0
BY DEF Pending, Awaiting, Holding

\* Steps without handles or objects keep the count.
LEMMA OpenQuiet == IInv /\ OpenInv /\ Quiet => OpenInv'
<1> SUFFICES ASSUME IInv, OpenInv, Quiet PROVE OpenInv'
  OBVIOUS
<1>1. \A f \in Files : Pending(f)' = Pending(f)
  BY DEF Pending, Awaiting, Quiet, Holding
<1> QED BY <1>1, OpenUnmoved DEF Quiet, loaderVars

\* Steps inside load and unload: f is the file of the thread t inside.
LEMMA OpenMoved ==
  ASSUME OpenInv, NEW t \in AllThreads, NEW f \in Files, f = file[t],
         \A u \in AllThreads \ {t} :
           pc[u] \notin Holding /\ pc'[u] = pc[u] /\ file'[u] = file[u],
         pc'[t] \in Holding => file'[t] = f,
         \A g \in Files \ {f} : handles'[g] = handles[g] /\ LiveOf(g)' = LiveOf(g),
         \A a \in Addr : Live(a)' => heap'[a].file \in Files,
         handles[f] >= Cardinality(LiveOf(f)) + (IF Awaiting(t) THEN 1 ELSE 0)
           => handles'[f] >= Cardinality(LiveOf(f)') + (IF Awaiting(t)' THEN 1 ELSE 0)
  PROVE  OpenInv'
<1> SUFFICES ASSUME NEW g \in Files
             PROVE  handles'[g] >= Cardinality(LiveOf(g)') + Pending(g)'
  BY DEF OpenInv
<1>1. Pending(g) = IF file[t] = g /\ Awaiting(t) THEN 1 ELSE 0
  BY PendingAlone
<1>2. Pending(g)' = IF f = g /\ Awaiting(t)' THEN 1 ELSE 0
  BY DEF Pending, Awaiting, Holding
<1>3. handles[g] >= Cardinality(LiveOf(g)) + Pending(g)
  BY DEF OpenInv
<1>4. CASE g = f
  <2>1. handles[f] >= Cardinality(LiveOf(f)) + (IF Awaiting(t) THEN 1 ELSE 0)
    BY <1>1, <1>3, <1>4
  <2>2. handles'[f] >= Cardinality(LiveOf(f)') + (IF Awaiting(t)' THEN 1 ELSE 0)
    BY <2>1
  <2> QED BY <1>2, <1>4, <2>2
<1>5. CASE g # f
  <2>1. Pending(g) = 0 /\ Pending(g)' = 0
    BY <1>1, <1>2, <1>5
  <2>2. handles'[g] = handles[g] /\ LiveOf(g)' = LiveOf(g)
    BY <1>5
  <2> QED BY <1>3, <2>1, <2>2
<1> QED BY <1>4, <1>5

\* Steps that take, give back or keep a handle and touch no object.
LEMMA OpenHandles ==
  ASSUME IInv, TypeOK', OpenInv, NEW t \in AllThreads,
         \/ LoadOpen(t) \/ InitNull(t) \/ ConstructNoMemory(t) \/ Publish(t)
         \/ UnloadDetach(t) \/ UnloadErase(t) \/ UnloadClose(t)
  PROVE  OpenInv'
<1> USE ThreadAssumption DEF IInv, TypeOK, At, Goto, opVars
<1> DEFINE acts == {"load", "unload"} \cup Holding
<1>1. /\ pc[t] \in acts /\ mtx \in {Free, t} /\ heap' = heap
      /\ \A u \in AllThreads \ {t} : pc'[u] = pc[u] /\ file'[u] = file[u]
      /\ pc'[t] \in Holding => file'[t] = file[t]
      /\ \A g \in Files \ {file[t]} : handles'[g] = handles[g]
  BY DEF LoadOpen, InitNull, ConstructNoMemory, Publish, UnloadDetach, UnloadErase,
         UnloadClose, Unwind, Loaded, Holding, MutexGuardsLoader
<1>2. PICK f \in Files : f = file[t]
  BY <1>1 DEF LoaderInv
<1>3. \A u \in AllThreads \ {t} : pc[u] \notin Holding
  BY <1>1, Alone
<1>4. \A g \in Files : LiveOf(g)' = LiveOf(g)
  BY <1>1 DEF LiveOf
<1>5. \A a \in Addr : Live(a)' => heap'[a].file \in Files
  BY <1>1 DEF Live, OpenInv
<1>6. handles'[f] - (IF Awaiting(t)' THEN 1 ELSE 0)
        >= handles[f] - (IF Awaiting(t) THEN 1 ELSE 0)
  <2>1. CASE LoadOpen(t)
    BY <1>2, <2>1 DEF LoadOpen, Awaiting
  <2>2. CASE InitNull(t)
    BY <1>2, <2>2 DEF InitNull, Loaded, Awaiting
  <2>3. CASE ConstructNoMemory(t)
    BY <1>2, <2>3 DEF ConstructNoMemory, Unwind, Awaiting
  <2>4. CASE Publish(t)
    BY <1>2, <2>4 DEF Publish, Loaded, Awaiting
  <2>5. CASE UnloadDetach(t) \/ UnloadErase(t)
    BY <1>2, <2>5 DEF UnloadDetach, UnloadErase, Awaiting
  <2>6. CASE UnloadClose(t)
    BY <1>2, <2>6 DEF UnloadClose, Awaiting
  <2> QED BY <2>1, <2>2, <2>3, <2>4, <2>5, <2>6
<1>7. handles[f] >= Cardinality(LiveOf(f)) + (IF Awaiting(t) THEN 1 ELSE 0)
        => handles'[f] >= Cardinality(LiveOf(f)') + (IF Awaiting(t)' THEN 1 ELSE 0)
  <2>1. LiveOf(f)' = LiveOf(f) /\ Cardinality(LiveOf(f)) \in Nat
    BY <1>4, LiveOfFinite
  <2>2. handles[f] \in Nat /\ handles'[f] \in Nat
    OBVIOUS
  <2> QED BY <1>6, <2>1, <2>2
<1> QED BY <1>1, <1>2, <1>3, <1>4, <1>5, <1>7, OpenMoved

\* One live object more, for the handle load opened.
LEMMA OpenConstruct ==
  ASSUME IInv, TypeOK', OpenInv, NEW t \in AllThreads, Construct(t)
  PROVE  OpenInv'
<1> USE ThreadAssumption DEF IInv, TypeOK, At, Goto
<1>1. /\ pc[t] = "init" /\ mtx = t /\ handles' = handles
      /\ pc' = [pc EXCEPT ![t] = "publish"] /\ file' = file
  BY DEF Construct, MutexGuardsLoader, Holding
<1>2. PICK f \in Files : f = file[t]
  BY <1>1 DEF LoaderInv, Holding
<1>3. PICK a \in Addr :
        heap[a].st # "live" /\ heap' = [heap EXCEPT ![a] = [file |-> f, st |-> "live"]]
  BY <1>2 DEF Construct, FreeAddr, Live
<1>4. \A u \in AllThreads \ {t} : pc[u] \notin Holding
  BY <1>1, Alone
<1>5. \A g \in Files \ {f} : LiveOf(g)' = LiveOf(g)
  BY <1>3 DEF LiveOf
<1>6. Cardinality(LiveOf(f)') = Cardinality(LiveOf(f)) + 1
  <2>1. LiveOf(f)' = LiveOf(f) \cup {a} /\ a \notin LiveOf(f)
    BY <1>3 DEF LiveOf
  <2>2. IsFiniteSet(LiveOf(f))
    BY LiveOfFinite
  <2>3. Cardinality(LiveOf(f) \cup {a}) = Cardinality(LiveOf(f)) + 1
    BY <2>1, <2>2, FS_AddElement
  <2> QED BY <2>1, <2>3
<1>7. \A b \in Addr : Live(b)' => heap'[b].file \in Files
  BY <1>3 DEF Live, OpenInv
<1>8. handles[f] >= Cardinality(LiveOf(f)) + (IF Awaiting(t) THEN 1 ELSE 0)
        => handles'[f] >= Cardinality(LiveOf(f)') + (IF Awaiting(t)' THEN 1 ELSE 0)
  <2>1. Awaiting(t) /\ ~Awaiting(t)'
    BY <1>1 DEF Awaiting
  <2> QED BY <1>1, <1>6, <2>1, LiveOfFinite
<1> QED BY <1>1, <1>2, <1>4, <1>5, <1>7, <1>8, OpenMoved

\* No live object more; the handle is leaked.
LEMMA OpenConstructThrows ==
  ASSUME IInv, TypeOK', OpenInv, NEW t \in AllThreads, ConstructThrows(t)
  PROVE  OpenInv'
<1> USE ThreadAssumption DEF IInv, TypeOK, At, Goto
<1>1. /\ pc[t] = "init" /\ mtx = t /\ handles' = handles
      /\ pc' = [pc EXCEPT ![t] = "loop"] /\ file' = [file EXCEPT ![t] = NoFile]
  BY DEF ConstructThrows, Unwind, MutexGuardsLoader, Holding
<1>2. PICK f \in Files : f = file[t]
  BY <1>1 DEF LoaderInv, Holding
<1>3. PICK a \in Addr :
        heap[a].st # "live" /\ heap' = [heap EXCEPT ![a] = [file |-> f, st |-> "thrown"]]
  BY <1>2 DEF ConstructThrows, FreeAddr, Live
<1>4. \A u \in AllThreads \ {t} : pc[u] \notin Holding
  BY <1>1, Alone
<1>5. \A g \in Files : LiveOf(g)' = LiveOf(g)
  BY <1>3 DEF LiveOf
<1>6. \A b \in Addr : Live(b)' => heap'[b].file \in Files
  BY <1>3 DEF Live, OpenInv
<1>7. handles[f] >= Cardinality(LiveOf(f)) + (IF Awaiting(t) THEN 1 ELSE 0)
        => handles'[f] >= Cardinality(LiveOf(f)') + (IF Awaiting(t)' THEN 1 ELSE 0)
  <2>1. Awaiting(t) /\ ~Awaiting(t)'
    BY <1>1 DEF Awaiting
  <2>2. Cardinality(LiveOf(f)') = Cardinality(LiveOf(f))
    BY <1>5
  <2> QED BY <1>1, <2>1, <2>2, LiveOfFinite
<1> QED BY <1>1, <1>2, <1>4, <1>5, <1>6, <1>7, OpenMoved DEF Holding

\* One live object less before its handle is closed.
LEMMA OpenDelete ==
  ASSUME IInv, TypeOK', OpenInv, NEW t \in AllThreads, UnloadDelete(t)
  PROVE  OpenInv'
<1> USE ThreadAssumption, FileAssumption DEF IInv, TypeOK, At, Goto
<1>1. pc[t] = "delete" /\ mtx = t /\ handles' = handles /\ file' = file
  BY DEF UnloadDelete, MutexGuardsLoader, Holding
<1>2. PICK f \in Files : f = file[t]
  BY <1>1 DEF LoaderInv, Holding
<1>3. /\ mod[t] \in Addr /\ mod[t] # NoMod
      /\ heap[mod[t]].st = "live" /\ heap[mod[t]].file = f
  <2>1. Owned(t)
    BY <1>1 DEF LoaderInv
  <2> QED BY <1>2, <2>1 DEF Owned
<1>4. \A u \in AllThreads \ {t} : pc[u] \notin Holding
  BY <1>1, Alone
<1>5. CASE heap' = [heap EXCEPT ![mod[t]].st = "deleted"] /\ mod' = mod
           /\ pc' = [pc EXCEPT ![t] = "close"]
  <2>1. /\ \A b \in Addr : heap'[b].file = heap[b].file
        /\ \A b \in Addr \ {mod[t]} : heap'[b] = heap[b]
        /\ heap'[mod[t]].st = "deleted"
    BY <1>3, <1>5
  <2>2. \A g \in Files \ {f} : LiveOf(g)' = LiveOf(g)
    <3> SUFFICES ASSUME NEW g \in Files \ {f}
                 PROVE  \A b \in Addr : heap'[b].st = "live" /\ heap'[b].file = g
                                    <=> heap[b].st = "live" /\ heap[b].file = g
      BY DEF LiveOf
    <3> QED BY <1>3, <2>1
  <2>3. Cardinality(LiveOf(f)') = Cardinality(LiveOf(f)) - 1
    <3>1. LiveOf(f)' = LiveOf(f) \ {mod[t]} /\ mod[t] \in LiveOf(f)
      BY <1>3, <2>1 DEF LiveOf
    <3>2. IsFiniteSet(LiveOf(f))
      BY LiveOfFinite
    <3>3. Cardinality(LiveOf(f) \ {mod[t]}) = Cardinality(LiveOf(f)) - 1
      BY <3>1, <3>2, FS_RemoveElement
    <3> QED BY <3>1, <3>3
  <2>4. \A b \in Addr : Live(b)' => heap'[b].file \in Files
    BY <2>1 DEF Live, OpenInv
  <2>5. ~Awaiting(t) /\ Awaiting(t)'
    BY <1>1, <1>3, <1>5 DEF Awaiting
  <2>6. handles[f] >= Cardinality(LiveOf(f)) + (IF Awaiting(t) THEN 1 ELSE 0)
          => handles'[f] >= Cardinality(LiveOf(f)') + (IF Awaiting(t)' THEN 1 ELSE 0)
    BY <1>1, <2>3, <2>5, LiveOfFinite
  <2> QED BY <1>1, <1>2, <1>4, <1>5, <2>2, <2>4, <2>6, OpenMoved
<1>6. CASE /\ heap' = heap
           /\ \/ mod' = [mod EXCEPT ![t] = NoMod] /\ pc' = [pc EXCEPT ![t] = "close"]
              \/ mod' = mod /\ pc' = pc
  <2>1. \A g \in Files : Pending(g)' = Pending(g)
    <3>1. \A u \in AllThreads : ~Awaiting(u) /\ ~Awaiting(u)'
      BY <1>1, <1>4, <1>6 DEF Awaiting, Holding
    <3> QED BY <3>1 DEF Pending
  <2>2. heap' = heap /\ handles' = handles
    BY <1>1, <1>6
  <2> QED BY <2>1, <2>2, OpenUnmoved
<1>7. \/ /\ heap' = [heap EXCEPT ![mod[t]].st = "deleted"] /\ mod' = mod
         /\ pc' = [pc EXCEPT ![t] = "close"]
      \/ /\ heap' = heap /\ mod' = [mod EXCEPT ![t] = NoMod]
         /\ pc' = [pc EXCEPT ![t] = "close"]
      \/ heap' = heap /\ mod' = mod /\ pc' = pc
  BY Zenon DEF UnloadDelete
<1> QED BY <1>5, <1>6, <1>7

\* OpenInv is inductive relative to IInv.
LEMMA OpenStep == IInv /\ OpenInv /\ [Next]_vars => OpenInv'
<1> SUFFICES ASSUME IInv, OpenInv, [Next]_vars PROVE OpenInv'
  OBVIOUS
<1>1. TypeOK'
  BY TypeStep
<1>2. CASE Quiet
  BY <1>2, OpenQuiet
<1>3. ASSUME NEW t \in AllThreads, LoaderStep(t) PROVE OpenInv'
  BY <1>1, <1>2, <1>3, QuietActions, OpenHandles, OpenConstruct DEF LoaderStep
<1>4. ASSUME NEW t \in Threads,
             \/ ThreadStep(t) \/ Snapshot(t) \/ SudoLoader(t) \/ SudoPing(t)
             \/ SudoRestart(t)
      PROVE  OpenInv'
  <2>1. t \in AllThreads
    BY DEF AllThreads
  <2> QED BY <1>1, <1>2, <1>4, <2>1, QuietActions, OpenHandles, OpenConstructThrows, OpenDelete
          DEF ThreadStep
<1> QED BY <1>2, <1>3, <1>4, QuietActions DEF Next, Ended

\* No object and no handle at the start.
LEMMA OpenInit == Init => OpenInv
<1> SUFFICES ASSUME Init PROVE OpenInv
  OBVIOUS
<1>1. \A f \in Files : LiveOf(f) = {} /\ Pending(f) = 0 /\ handles[f] = 0
  BY DEF Init, LiveOf, Pending, Awaiting
<1>2. \A a \in Addr : ~Live(a)
  BY DEF Init, Live
<1> QED BY <1>1, <1>2, FS_EmptySet DEF OpenInv

\* OpenInv is an invariant of the specification.
LEMMA OpenInvariance == Spec => []OpenInv
BY Invariance, OpenInit, OpenStep, PTL DEF Spec

-----------------------------------------------------------------------------
(* The theorems *)

\* Every state is well typed; in particular no handle counter is decremented
\* below zero by InitNull or UnloadClose (modules.cpp:121, 173).
THEOREM TypeCorrect == Spec => []TypeOK
BY Invariance, PTL DEF IInv

\* load and unload run under mutual exclusion, over every path out of them,
\* exceptions included.
THEOREM LoaderExclusion == Spec => []MutexGuardsLoader
BY Invariance, PTL DEF IInv

\* The private and the public map agree and name live objects only.
THEOREM RegistrySafe == Spec => []RegistryLive
BY Invariance, PTL DEF IInv

\* No handler list names an object that unload deleted, however the allocator
\* reuses addresses, and no list names an object twice.
THEOREM HandlersSafe == Spec => [](HandlersAccounted /\ NoDoubleRegistration)
BY Invariance, IInvHandlers, PTL

\* attach's search keeps an address an earlier, failed constructor left in a
\* list from being registered twice (modules.cpp:64).
THEOREM HandlersOnce == Spec => []NoDoubleRegistration
BY HandlersSafe, PTL

\* A loaded module keeps the handlers its constructor attached.
THEOREM HandlersKept == Spec => []HandlersComplete
BY Invariance, PTL DEF IInv

\* FOREACH_MOD copies its list between loads and unloads, never inside one.
THEOREM SnapshotConsistent == Spec => SnapshotLoaded
<1> DEFINE Consistent ==
      \A t \in Threads : pc[t] = "idle" /\ pc'[t] = "loop" =>
        \A i \in DOMAIN list_to_call'[t] :
          LET a == list_to_call'[t][i] IN
          \/ heap[a].st = "thrown"
          \/ Live(a) /\ Modules[heap[a].file] = a
<1>1. IInv /\ [Next]_vars => [Consistent]_vars
  <2> SUFFICES ASSUME IInv, Next, NEW t \in Threads, pc[t] = "idle", pc'[t] = "loop",
                      NEW i \in DOMAIN list_to_call'[t]
               PROVE  LET a == list_to_call'[t][i] IN
                      \/ heap[a].st = "thrown"
                      \/ Live(a) /\ Modules[heap[a].file] = a
    OBVIOUS
  <2> USE ThreadAssumption DEF IInv, TypeOK, At, Goto, AllThreads
  <2>1. Snapshot(t)
    <3>1. ~(LoadAllNext \/ StartBot \/ BootThrows \/ Pong \/ Ended)
      BY DEF LoadAllNext, StartBot, BootThrows, Pong, Ended, vars
    <3>2. ASSUME NEW u \in AllThreads PROVE ~LoaderStep(u)
      BY DEF LoaderStep, LoadRefused, LoadOpen, InitNoSymbol, InitNull, Construct, Publish,
             Loaded
    <3>3. ASSUME NEW u \in Threads PROVE ~ThreadStep(u)
      <4>1. ~(ConstructThrows(u) \/ ConstructNoMemory(u) \/ UnloadRefused(u)
              \/ UnloadDetach(u) \/ UnloadErase(u) \/ UnloadDelete(u) \/ UnloadClose(u))
        BY DEF ConstructThrows, ConstructNoMemory, Unwind, UnloadRefused, UnloadDetach,
               UnloadErase, UnloadDelete, UnloadClose
      <4>2. ~(Call(u) \/ CallDead(u) \/ DispatchDone(u) \/ Return(u) \/ RecopyAndBreak(u)
              \/ ListingDone(u) \/ Reply(u) \/ RunDead(u))
        BY DEF Call, CallDead, DispatchDone, Return, RecopyAndBreak, ListingDone, Reply, RunDead
      <4> QED BY <4>1, <4>2 DEF ThreadStep
    <3>4. ASSUME NEW u \in Threads PROVE ~(SudoLoader(u) \/ SudoPing(u) \/ SudoRestart(u))
      BY DEF SudoLoader, SudoPing, SudoRestart, Sudo
    <3>5. ASSUME NEW u \in Threads, Snapshot(u) PROVE u = t
      BY <3>5 DEF Snapshot
    <3> QED BY <3>1, <3>2, <3>3, <3>4, <3>5 DEF Next
  <2>2. PICK e \in Events : list_to_call'[t] = EventHandlers[e]
    BY <2>1 DEF Snapshot
  <2>3. \A u \in AllThreads : pc[u] # "publish"
    BY <2>1 DEF Snapshot, MutexGuardsLoader, Holding
  <2> DEFINE a == EventHandlers[e][i]
  <2>4. i \in DOMAIN EventHandlers[e] /\ list_to_call'[t][i] = a
    BY <2>2
  <2>5. \/ heap[a].st = "thrown"
        \/ /\ Live(a)
           /\ Modules[heap[a].file] = a \/ \E u \in AllThreads : pc[u] = "publish" /\ mod[u] = a
    <3>1. HandlersAccounted
      BY IInvHandlers
    <3> QED BY <2>4, <3>1 DEF HandlersAccounted
  <2> HIDE DEF a
  <2> QED BY <2>3, <2>4, <2>5
<1> QED BY <1>1, Invariance, PTL DEF Spec, SnapshotLoaded

\* No library is closed under a live object of its class, over any sequence of
\* loads, failed loads and unloads.
THEOREM LibrariesMapped == Spec => []LibraryMapped
BY Invariance, OpenInvariance, OpenMapped, PTL DEF IInv

-----------------------------------------------------------------------------
(* ModuleLoader implements Registry *)

\* The command a thread carries out at the labels of unload, and main's labels.
OpInv ==
  /\ \A t \in Threads : pc[t] \in {"unload", "erase"} => op[t] \in {"unload", "reload"}
  /\ pc[Main] \in {"load_all", "wait", "load", "init", "publish"}

Calls == [t \in AllThreads |-> PendingCall(t)]

-----------------------------------------------------------------------------
(* The labels of unload are reached through the commands that unload *)

LEMMA OpInit == Init => OpInv
BY ThreadAssumption DEF Init, OpInv, AllThreads

\* No step of main, the loader or a command brings another command to unload.
LEMMA OpStep == IInv /\ OpInv /\ [Next]_vars => OpInv'
<1> SUFFICES ASSUME TypeOK, OpInv, [Next]_vars PROVE OpInv'
  BY DEF IInv
<1> USE ThreadAssumption DEF TypeOK, Goto, At, AllThreads, OpInv
<1>1. CASE LoadAllNext \/ StartBot \/ BootThrows
  BY <1>1 DEF LoadAllNext, StartBot, BootThrows, opVars
<1>2. ASSUME NEW t \in AllThreads, LoaderStep(t) PROVE OpInv'
  BY <1>2 DEF LoaderStep, LoadRefused, LoadOpen, InitNoSymbol, InitNull, Construct,
              Publish, Loaded, opVars
<1>3. ASSUME NEW t \in Threads, ThreadStep(t) PROVE OpInv'
  <2>1. CASE ConstructThrows(t) \/ ConstructNoMemory(t)
    BY ZenonT(40), <2>1 DEF ConstructThrows, ConstructNoMemory, Unwind
  <2>2. CASE UnloadRefused(t) \/ UnloadDetach(t) \/ UnloadErase(t) \/ UnloadDelete(t)
             \/ UnloadClose(t)
    BY <2>2 DEF UnloadRefused, UnloadDetach, UnloadErase, UnloadDelete, UnloadClose, opVars
  <2>3. CASE Call(t) \/ CallDead(t) \/ DispatchDone(t) \/ Return(t) \/ RecopyAndBreak(t)
             \/ ListingDone(t) \/ Reply(t) \/ RunDead(t)
    BY <2>3 DEF Call, CallDead, DispatchDone, Return, RecopyAndBreak, ListingDone, Reply,
                RunDead, opVars
  <2> QED BY <1>3, <2>1, <2>2, <2>3 DEF ThreadStep
<1>4. ASSUME NEW t \in Threads, Snapshot(t) \/ SudoPing(t) \/ SudoRestart(t) PROVE OpInv'
  BY <1>4 DEF Snapshot, SudoPing, SudoRestart, opVars
<1>5. ASSUME NEW t \in Threads, SudoLoader(t) PROVE OpInv'
  <2>1. PICK o \in Commands \ {"ping", "restart"} :
          /\ op' = [op EXCEPT ![t] = o]
          /\ pc' = [pc EXCEPT ![t] = CASE o = "load" -> "load"
                                       [] o \in {"unload", "reload"} -> "unload"
                                       [] OTHER -> "listing"]
    BY <1>5 DEF SudoLoader
  <2> QED BY <2>1
<1>6. CASE Pong \/ Ended \/ UNCHANGED vars
  BY <1>6 DEF Pong, Ended, vars, opVars
<1> QED BY <1>1, <1>2, <1>3, <1>4, <1>5, <1>6 DEF Next

\* So that holds in every state.
LEMMA OpInvariance == Spec => []OpInv
BY Invariance, OpInit, OpStep, PTL DEF Spec

-----------------------------------------------------------------------------
(* Steps of the registry, in terms of the loader's state *)

\* A step of one thread is one of that thread's call alone.
LEMMA CallMoves ==
  ASSUME TypeOK, TypeOK', OpInv, OpInv', NEW t \in AllThreads,
         \A u \in AllThreads \ {t} : pc'[u] = pc[u] /\ file'[u] = file[u],
         \A u \in Threads \ {t} : op'[u] = op[u]
  PROVE  Calls' = [Calls EXCEPT ![t] = PendingCall(t)']
<1> SUFFICES ASSUME NEW u \in AllThreads \ {t} PROVE PendingCall(u)' = PendingCall(u)
  BY DEF Calls
<1>1. CASE u = Main
  BY <1>1 DEF PendingCall, OpInv
<1>2. CASE u \in Threads
  BY <1>2 DEF PendingCall
<1> QED BY <1>1, <1>2 DEF AllThreads

\* A step that does not change the thread's call changes none.
LEMMA CallStays ==
  ASSUME NEW t \in AllThreads, Calls' = [Calls EXCEPT ![t] = PendingCall(t)'],
         PendingCall(t)' = PendingCall(t)
  PROVE  Calls' = Calls
<1>1. Calls[t] = PendingCall(t)
  BY DEF Calls
<1>2. [Calls EXCEPT ![t] = Calls[t]] = Calls
  BY DEF Calls
<1> QED BY <1>1, <1>2

\* Nothing the registry knows of changes, or the process ends.
LEMMA StutterOrEnd ==
  ASSUME status = "up", Modules' = Modules, Calls' = Calls
  PROVE  [Registry!Next]_(Registry!vars)
<1>1. CASE status' = "up"
  BY <1>1 DEF Registry!vars, Calls
<1>2. CASE status' # "up"
  BY <1>2 DEF Registry!Next, Registry!End, Calls
<1> QED BY <1>1, <1>2

\* What a thread's call is at each label.
LEMMA CallAt ==
  ASSUME NEW t \in AllThreads
  PROVE  /\ pc[t] \in {"load", "init", "publish"}
              => PendingCall(t) = [op |-> "load", file |-> file[t]]
         /\ pc[t] \in {"unload", "erase"} => PendingCall(t) = [op |-> op[t], file |-> file[t]]
         /\ pc[t] \in {"delete", "close"} =>
              PendingCall(t) = IF op[t] = "reload" THEN [op |-> "load", file |-> file[t]]
                               ELSE Registry!None
         /\ pc[t] \notin {"load", "init", "publish", "unload", "erase", "delete", "close"}
              => PendingCall(t) = Registry!None
BY DEF PendingCall, Registry!None

-----------------------------------------------------------------------------
(* Every step of the loader is a step of the registry, or none *)

LEMMA BootRefines ==
  ASSUME IInv, IInv', OpInv, OpInv', LoadAllNext \/ StartBot \/ BootThrows
  PROVE  [Registry!Next]_(Registry!vars)
<1> USE DEF IInv, TypeOK, At, Goto, AllThreads
<1>1. CASE LoadAllNext
  <2>1. /\ Calls' = [Calls EXCEPT ![Main] = [op |-> "load", file |-> Head(modlist)]]
        /\ Calls[Main] = Registry!None
    <3>1. \A u \in AllThreads \ {Main} : pc'[u] = pc[u] /\ file'[u] = file[u]
      BY <1>1 DEF LoadAllNext
    <3>2. \A u \in Threads \ {Main} : op'[u] = op[u]
      BY <1>1 DEF LoadAllNext
    <3>3. PendingCall(Main)' = [op |-> "load", file |-> Head(modlist)]
      BY <1>1 DEF LoadAllNext, PendingCall
    <3>4. PendingCall(Main) = Registry!None
      BY <1>1, CallAt DEF LoadAllNext
    <3> QED BY <3>1, <3>2, <3>3, <3>4, CallMoves DEF Calls
  <2>2. Head(modlist) \in Files
    BY <1>1, HeadTailProperties DEF LoadAllNext
  <2>3. status = "up" /\ UNCHANGED <<status, Modules>>
    BY <1>1 DEF LoadAllNext, loaderVars
  <2>4. Registry!Invoke(Main)
    BY <2>1, <2>2, <2>3 DEF Registry!Invoke, Registry!Calls, Calls
  <2> QED BY <2>4 DEF Registry!Next
<1>2. CASE StartBot
  <2>1. Calls' = Calls
    BY <1>2 DEF StartBot, opVars, Calls, PendingCall
  <2> QED BY <1>2, <2>1, StutterOrEnd DEF StartBot, loaderVars
<1>3. CASE BootThrows
  <2>1. Calls' = Calls
    BY <1>3 DEF BootThrows, opVars, Calls, PendingCall
  <2> QED BY <1>3, <2>1, StutterOrEnd DEF BootThrows, loaderVars
<1> QED BY <1>1, <1>2, <1>3

\* A step of load, publish aside, changes nothing the registry shows but its thread's call; publish installs.
LEMMA LoadRefines ==
  ASSUME IInv, IInv', OpInv, OpInv', NEW t \in AllThreads, LoaderStep(t)
  PROVE  [Registry!Next]_(Registry!vars)
<1> USE DEF IInv, TypeOK, At, Goto
<1>1. /\ Calls' = [Calls EXCEPT ![t] = PendingCall(t)']
      /\ Calls[t] = [op |-> "load", file |-> file[t]]
      /\ status = "up"
  <2>1. \A u \in AllThreads \ {t} : pc'[u] = pc[u]
    BY DEF LoaderStep, LoadRefused, LoadOpen, InitNoSymbol, InitNull, Construct, Publish
  <2>2. file' = file /\ op' = op
    BY DEF LoaderStep, LoadRefused, LoadOpen, InitNoSymbol, InitNull, Construct, Publish,
           opVars
  <2>3. status = "up" /\ pc[t] \in {"load", "init", "publish"}
    BY DEF LoaderStep, LoadRefused, LoadOpen, InitNoSymbol, InitNull, Construct, Publish
  <2>4. Calls' = [Calls EXCEPT ![t] = PendingCall(t)']
    BY <2>1, <2>2, CallMoves
  <2> QED BY <2>3, <2>4, CallAt DEF Calls
<1>2. CASE LoadRefused(t) \/ InitNull(t)
  <2>1. PendingCall(t)' = Registry!None
    BY ZenonT(40), <1>2 DEF LoadRefused, InitNull, Loaded, PendingCall, Registry!None
  <2>2. UNCHANGED <<status, Modules>>
    BY <1>2 DEF LoadRefused, InitNull, loaderVars
  <2>3. Registry!NotInstalled(t)
    BY <1>1, <2>1, <2>2 DEF Registry!NotInstalled, Calls
  <2> QED BY <2>3 DEF Registry!Next
<1>3. CASE LoadOpen(t) \/ InitNoSymbol(t) \/ Construct(t)
  <2>1. PendingCall(t)' = PendingCall(t)
    BY <1>3 DEF LoadOpen, InitNoSymbol, Construct, PendingCall, opVars
  <2>2. Modules' = Modules
    BY <1>3 DEF LoadOpen, InitNoSymbol, Construct, loaderVars
  <2> QED BY <1>1, <2>1, <2>2, CallStays, StutterOrEnd
<1>4. CASE Publish(t)
  <2>1. PendingCall(t)' = Registry!None
    BY <1>4 DEF Publish, Loaded, PendingCall, Registry!None
  <2>2. /\ Modules' = [Modules EXCEPT ![file[t]] = mod[t]]
        /\ pc[t] = "publish"
    BY <1>4 DEF Publish
  <2>3. Modules[file[t]] = NoMod /\ mod[t] \in Addr /\ heap[mod[t]].file = file[t]
    <3>1. Modules[file[t]] = NoMod /\ Owned(t)
      BY <2>2 DEF LoaderInv
    <3> QED BY <3>1 DEF Owned
  <2>4. ASSUME NEW f \in Files PROVE Modules[f] # mod[t]
    <3> SUFFICES ASSUME Modules[f] = mod[t] PROVE FALSE
      OBVIOUS
    <3>1. mod[t] # NoMod
      BY <2>3, FileAssumption
    <3>2. heap[Modules[f]] = [file |-> f, st |-> "live"]
      BY <3>1 DEF RegistryLive
    <3> QED BY <2>3, <3>1, <3>2
  <2>5. /\ Calls[t].op = "load" /\ Calls[t].file = file[t]
        /\ Calls' = [Calls EXCEPT ![t] = Registry!None]
    BY <1>1, <2>1
  <2>6. (status = "up")' \in BOOLEAN
    OBVIOUS
  <2>7. Registry!Install(t)
    BY <1>1, <2>2, <2>3, <2>4, <2>5, <2>6 DEF Registry!Install, Calls
  <2> QED BY <2>7 DEF Registry!Next
<1> QED BY <1>2, <1>3, <1>4 DEF LoaderStep

\* An exception ends a load that added nothing.
LEMMA UnwindRefines ==
  ASSUME IInv, IInv', OpInv, OpInv', NEW t \in Threads,
         ConstructThrows(t) \/ ConstructNoMemory(t)
  PROVE  [Registry!Next]_(Registry!vars)
<1> USE ThreadAssumption DEF IInv, TypeOK, At, Goto, AllThreads
<1>1. status = "up" /\ pc[t] = "init" /\ Modules' = Modules
  BY DEF ConstructThrows, ConstructNoMemory
<1>2. /\ pc' = [pc EXCEPT ![t] = "loop"]
      /\ op' = [op EXCEPT ![t] = "none"]
      /\ file' = [file EXCEPT ![t] = NoFile]
  BY DEF ConstructThrows, ConstructNoMemory, Unwind
<1>3. PendingCall(t)' = Registry!None
  BY <1>2 DEF PendingCall, Registry!None
<1>4. Calls' = [Calls EXCEPT ![t] = Registry!None]
  BY <1>2, <1>3, CallMoves
<1>5. Calls[t] = [op |-> "load", file |-> file[t]]
  BY <1>1, CallAt DEF Calls
<1>6. Registry!NotInstalled(t)
  BY <1>1, <1>4, <1>5 DEF Registry!NotInstalled, Calls
<1> QED BY <1>6 DEF Registry!Next

\* A step of unload changes nothing the registry shows, but for the write of Modules, which removes.
LEMMA UnloadRefines ==
  ASSUME IInv, IInv', OpInv, OpInv', NEW t \in Threads,
         \/ UnloadRefused(t) \/ UnloadDetach(t) \/ UnloadErase(t) \/ UnloadDelete(t)
         \/ UnloadClose(t)
  PROVE  [Registry!Next]_(Registry!vars)
<1> USE ThreadAssumption DEF IInv, TypeOK, At, Goto, AllThreads
<1>1. /\ Calls' = [Calls EXCEPT ![t] = PendingCall(t)']
      /\ Calls[t] = PendingCall(t)
      /\ op' = op /\ file' = file
      /\ status = "up"
  <2>1. \A u \in AllThreads \ {t} : pc'[u] = pc[u]
    BY DEF UnloadRefused, UnloadDetach, UnloadErase, UnloadDelete, UnloadClose
  <2>2. file' = file /\ op' = op /\ status = "up"
    BY DEF UnloadRefused, UnloadDetach, UnloadErase, UnloadDelete, UnloadClose, opVars
  <2>3. Calls' = [Calls EXCEPT ![t] = PendingCall(t)']
    BY <2>1, <2>2, CallMoves
  <2> QED BY <2>2, <2>3 DEF Calls
<1>2. CASE UnloadRefused(t)
  <2>1. PendingCall(t)' = Registry!None
    BY <1>2 DEF UnloadRefused, PendingCall, Registry!None
  <2>2. /\ op[t] \in {"unload", "reload"}
        /\ PendingCall(t) = [op |-> op[t], file |-> file[t]]
    BY <1>2, CallAt DEF UnloadRefused, OpInv
  <2>3. UNCHANGED <<status, Modules>> /\ Modules[file[t]] = NoMod
    BY <1>2 DEF UnloadRefused, loaderVars
  <2>4. /\ Calls[t].op \in {"unload", "reload"} /\ Calls[t].file = file[t]
        /\ Calls' = [Calls EXCEPT ![t] = Registry!None]
    BY <1>1, <2>1, <2>2
  <2>5. Registry!NotRemoved(t)
    BY <1>1, <2>3, <2>4 DEF Registry!NotRemoved, Calls
  <2> QED BY <2>5 DEF Registry!Next
<1>3. CASE UnloadErase(t)
  <2>1. /\ op[t] \in {"unload", "reload"}
        /\ PendingCall(t) = [op |-> op[t], file |-> file[t]]
    BY <1>3, CallAt DEF UnloadErase, OpInv
  <2>2. PendingCall(t)' = IF op[t] = "reload" THEN [op |-> "load", file |-> file[t]]
                          ELSE Registry!None
    BY <1>1, <1>3 DEF UnloadErase, PendingCall, Registry!None
  <2>3. /\ Modules[file[t]] # NoMod
        /\ Modules' = [Modules EXCEPT ![file[t]] = NoMod]
    BY <1>3 DEF UnloadErase, LoaderInv
  <2>4. Calls[t].op \in {"unload", "reload"} /\ Calls[t].file = file[t]
    BY <1>1, <2>1
  <2>5. Calls' = [Calls EXCEPT ![t] = IF @.op = "reload" THEN [@ EXCEPT !.op = "load"]
                                      ELSE Registry!None]
    <3>1. Calls[t] = [op |-> op[t], file |-> file[t]]
      BY <1>1, <2>1
    <3>2. [Calls[t] EXCEPT !.op = "load"] = [op |-> "load", file |-> file[t]]
      BY <3>1
    <3>3. PendingCall(t)' = IF Calls[t].op = "reload" THEN [Calls[t] EXCEPT !.op = "load"]
                            ELSE Registry!None
      BY <2>2, <3>1, <3>2
    <3> QED BY <1>1, <3>3 DEF Calls
  <2>6. (status = "up")' \in BOOLEAN
    OBVIOUS
  <2>7. Registry!Remove(t)
    BY <1>1, <2>3, <2>4, <2>5, <2>6 DEF Registry!Remove, Calls
  <2> QED BY <2>7 DEF Registry!Next
<1>4. CASE UnloadDetach(t) \/ UnloadDelete(t) \/ UnloadClose(t)
  <2>1. PendingCall(t)' = PendingCall(t)
    <3>1. CASE UnloadDetach(t)
      BY <1>1, <3>1 DEF UnloadDetach, PendingCall
    <3>2. CASE UnloadDelete(t)
      BY <1>1, <3>2 DEF UnloadDelete, PendingCall
    <3>3. CASE UnloadClose(t)
      BY <1>1, <3>3 DEF UnloadClose, PendingCall
    <3> QED BY <1>4, <3>1, <3>2, <3>3
  <2>2. Modules' = Modules
    BY <1>4 DEF UnloadDetach, UnloadDelete, UnloadClose
  <2> QED BY <1>1, <2>1, <2>2, CallStays, StutterOrEnd
<1> QED BY <1>2, <1>3, <1>4

\* Dispatches change neither the registry nor a call.
LEMMA DispatchRefines ==
  ASSUME IInv, IInv', OpInv, OpInv', NEW t \in Threads,
         \/ Snapshot(t) \/ Call(t) \/ CallDead(t) \/ DispatchDone(t) \/ Return(t)
         \/ RecopyAndBreak(t) \/ ListingDone(t) \/ Reply(t) \/ RunDead(t)
         \/ SudoPing(t) \/ SudoRestart(t)
  PROVE  [Registry!Next]_(Registry!vars)
<1> USE ThreadAssumption DEF IInv, TypeOK, At, Goto, AllThreads
<1> DEFINE Outside == Labels \ {"load", "init", "publish", "unload", "erase", "delete", "close"}
<1>1. /\ status = "up" /\ Modules' = Modules
      /\ \A u \in AllThreads \ {t} : pc'[u] = pc[u] /\ file'[u] = file[u]
      /\ \A u \in Threads \ {t} : op'[u] = op[u]
      /\ pc[t] \in Outside /\ pc'[t] \in Outside
  <2>1. CASE Snapshot(t) \/ Call(t) \/ CallDead(t) \/ DispatchDone(t) \/ RecopyAndBreak(t)
    BY <2>1 DEF Snapshot, Call, CallDead, DispatchDone, RecopyAndBreak, opVars, loaderVars,
                Labels
  <2>2. CASE Return(t)
    <3>1. pc' = [pc EXCEPT ![t] = "recopy"] \/ pc' = [pc EXCEPT ![t] = "loop"]
      BY <2>2 DEF Return
    <3> QED BY <2>2, <3>1 DEF Return, opVars, loaderVars, Labels
  <2>3. CASE ListingDone(t) \/ Reply(t) \/ RunDead(t) \/ SudoPing(t) \/ SudoRestart(t)
    BY <2>3 DEF ListingDone, Reply, RunDead, SudoPing, SudoRestart, Sudo, opVars, loaderVars,
                Labels
  <2> QED BY <2>1, <2>2, <2>3
<1>2. PendingCall(t) = Registry!None /\ PendingCall(t)' = Registry!None
  BY <1>1 DEF PendingCall, Registry!None
<1>3. Calls' = [Calls EXCEPT ![t] = PendingCall(t)']
  BY <1>1, CallMoves
<1>4. Calls' = Calls
  BY <1>2, <1>3, CallStays
<1> QED BY <1>1, <1>4, StutterOrEnd

\* A command for the loader is a call; the listing is none.
LEMMA SudoRefines ==
  ASSUME IInv, IInv', OpInv, OpInv', NEW t \in Threads, SudoLoader(t)
  PROVE  [Registry!Next]_(Registry!vars)
<1> USE ThreadAssumption DEF IInv, TypeOK, At, Goto, AllThreads
<1>1. status = "up" /\ pc[t] = "body" /\ UNCHANGED <<status, Modules>>
  BY DEF SudoLoader, Sudo, loaderVars
<1>2. PICK o \in Commands \ {"ping", "restart"}, f \in Files \cup {NoFile} :
        /\ op' = [op EXCEPT ![t] = o]
        /\ pc' = [pc EXCEPT ![t] = CASE o = "load" -> "load"
                                     [] o \in {"unload", "reload"} -> "unload"
                                     [] OTHER -> "listing"]
        /\ file' = [file EXCEPT ![t] = f]
        /\ o # "modules" => f \in Files
  BY DEF SudoLoader
<1>3. o \in {"load", "unload", "reload", "modules"}
  BY <1>2, FileAssumption DEF Ops
<1>4. Calls' = [Calls EXCEPT ![t] = PendingCall(t)'] /\ Calls[t] = Registry!None
  <2>1. /\ \A u \in AllThreads \ {t} : pc'[u] = pc[u] /\ file'[u] = file[u]
        /\ \A u \in Threads \ {t} : op'[u] = op[u]
    BY <1>2
  <2>2. PendingCall(t) = Registry!None
    BY <1>1, CallAt
  <2> QED BY <2>1, <2>2, CallMoves DEF Calls
<1>5. CASE o = "modules"
  <2>1. PendingCall(t)' = Registry!None
    BY <1>2, <1>5 DEF PendingCall, Registry!None
  <2>2. PendingCall(t)' = PendingCall(t)
    BY <1>4, <2>1 DEF Calls
  <2> QED BY <1>1, <1>4, <2>2, CallStays, StutterOrEnd
<1>6. CASE o # "modules"
  <2>1. PendingCall(t)' = [op |-> o, file |-> f]
    BY <1>2, <1>3, <1>6 DEF PendingCall
  <2>2. [op |-> o, file |-> f] \in Registry!Calls
    BY <1>2, <1>3, <1>6 DEF Registry!Calls
  <2>3. Registry!Invoke(t)
    BY <1>1, <1>4, <2>1, <2>2 DEF Registry!Invoke, Calls
  <2> QED BY <2>3 DEF Registry!Next
<1> QED BY <1>5, <1>6

\* Every step of the loader.
LEMMA StepRefines ==
  IInv /\ IInv' /\ OpInv /\ OpInv' /\ [Next]_vars => [Registry!Next]_(Registry!vars)
<1> SUFFICES ASSUME IInv, IInv', OpInv, OpInv', [Next]_vars
             PROVE  [Registry!Next]_(Registry!vars)
  OBVIOUS
<1>1. CASE Pong
  <2>1. Calls' = Calls
    BY <1>1 DEF Pong, opVars, Calls, PendingCall
  <2> QED BY <1>1, <2>1, StutterOrEnd DEF Pong, loaderVars
<1>2. CASE Ended \/ UNCHANGED vars
  BY <1>2 DEF Ended, vars, loaderVars, opVars, Registry!vars, PendingCall
<1>3. ASSUME NEW t \in Threads,
             \/ ThreadStep(t) \/ Snapshot(t) \/ SudoLoader(t) \/ SudoPing(t)
             \/ SudoRestart(t)
      PROVE  [Registry!Next]_(Registry!vars)
  BY <1>3, UnwindRefines, UnloadRefines, DispatchRefines, SudoRefines DEF ThreadStep
<1> QED BY <1>1, <1>2, <1>3, BootRefines, LoadRefines DEF Next

-----------------------------------------------------------------------------

\* No interleaving of loads, unloads and reloads, however they fail and
\* whatever addresses the allocator hands out again, shows a client of the
\* loader anything the atomic registry does not.
THEOREM LoaderImplementsRegistry == Spec => ImplementsRegistry
<1>1. Init => Registry!Init
  <2> SUFFICES ASSUME Init PROVE Registry!Init
    OBVIOUS
  <2>1. \A t \in AllThreads : PendingCall(t) = Registry!None
    BY CallAt DEF Init
  <2> QED BY <2>1 DEF Init, Registry!Init
<1> QED BY <1>1, StepRefines, Invariance, OpInvariance, PTL
        DEF Spec, ImplementsRegistry, Registry!Spec

=============================================================================
