--------------------------- MODULE SpotifyProofs ---------------------------
(***************************************************************************)
(* Proofs about Spotify, for every value of its constants.                 *)
(*                                                                         *)
(* The connection works as a lock: TxExclusive says that a label inside a  *)
(* pqxx::work belongs to the thread the connection names, OneInside that   *)
(* no two threads are at one.  ArgInv says what the arguments of a write   *)
(* are by then, AccountInv that memory has the argument at account_commit  *)
(* and a row has it, QueueInv that a message has no answer before its end  *)
(* and its track queued exactly at embed.  Two are about a single thread:  *)
(* LoneInv, that from the row it read to the row it writes the default     *)
(* account stays the same, and SettingInv, that what a command has put     *)
(* into memory and committed is there when it comes to answer.             *)
(***************************************************************************)
EXTENDS Spotify, TLAPS

\* What a thread is about to write is of the right kind.
ArgInv ==
  \A t \in Threads :
    /\ pc[t] = "account_commit" => arg[t] \in Accounts
    /\ pc[t] \in {"device", "device_tx"} => arg[t] \in Devices
    /\ pc[t] \in {"sql", "sql_tx"} => arg[t] \in Accounts \cup {Bogus}
    /\ pc[t] = "sql_commit" => arg[t] \in Accounts
    /\ pc[t] \in {"refresh", "store", "store_tx"} => tok[t] \in Accounts

OneInside ==
  \A t, u \in Threads : pc[t] \in TxLabels /\ pc[u] \in TxLabels => t = u

TypeInv == TypeOK /\ TxExclusive /\ OneInside /\ ArgInv

AccountInv ==
  /\ state.account # NoAccount
  /\ \A t \in Threads :
       pc[t] = "account_commit" => mem.account = arg[t] /\ arg[t] \in spotify

\* Which message brings a thread to a label.
KindInv ==
  \A t \in Threads :
    /\ pc[t] \in {"accounts", "accounts_tx"} => kind[t] = "accounts"
    /\ pc[t] \in {"account", "account_tx", "account_commit", "account_answer"} => kind[t] = "account"
    /\ pc[t] \in {"device", "device_tx", "device_answer"} => kind[t] = "device"
    /\ pc[t] \in {"sql", "sql_tx", "sql_commit"} => kind[t] = "sql"
    /\ pc[t] = "embed" => kind[t] = "link"

QueueInv ==
  \A t \in Threads :
    /\ queued[t] \in {0, 1}
    /\ pc[t] \notin {"idle", "embed"} => queued[t] = 0
    /\ pc[t] = "embed" => queued[t] = 1
    /\ kind[t] = "link" /\ pc[t] # "idle" => said[t] = {}
    /\ kind[t] = "link" /\ "success" \in said[t] => queued[t] = 1

LoneInv ==
  /\ RowsOwn
  /\ \A t \in Threads :
       pc[t] \in {"refresh", "store", "store_tx"} => tok[t] = mem.account

-----------------------------------------------------------------------------
(* The labels, written out, and a step of one thread through them *)

\* The sets of labels, written out.
LEMMA LabelSets ==
  /\ Begins = {"token", "store", "reselect", "accounts", "account", "device", "sql"}
  /\ TxLabels = {"token_tx", "store_tx", "reselect_tx", "accounts_tx", "account_tx",
                 "device_tx", "sql_tx", "account_commit", "sql_commit"}
  /\ Labels = {"idle", "refresh", "request", "embed", "account_answer", "device_answer"}
                \cup Begins \cup TxLabels
<1>1. Begins = {"token", "store", "reselect", "accounts", "account", "device", "sql"}
  BY DEF Begins, TxOf
<1>2. TxLabels = {"token_tx", "store_tx", "reselect_tx", "accounts_tx", "account_tx",
                 "device_tx", "sql_tx", "account_commit", "sql_commit"}
  BY DEF TxLabels, Begins, TxOf
<1> QED BY <1>1, <1>2 DEF Labels

\* pqxx::work takes a thread from a label to that label's own _tx and to no other.
LEMMA TxOfLabel ==
  ASSUME NEW b \in Begins
  PROVE  /\ TxOf[b] \in TxLabels \ {"account_commit", "sql_commit"}
         /\ b = "token" <=> TxOf[b] = "token_tx"
         /\ b = "store" <=> TxOf[b] = "store_tx"
         /\ b = "reselect" <=> TxOf[b] = "reselect_tx"
         /\ b = "accounts" <=> TxOf[b] = "accounts_tx"
         /\ b = "account" <=> TxOf[b] = "account_tx"
         /\ b = "device" <=> TxOf[b] = "device_tx"
         /\ b = "sql" <=> TxOf[b] = "sql_tx"
BY LabelSets DEF TxOf

Moved ==
  /\ conn' \in Threads \cup {Free, Broken}
  /\ pc' \in [Threads -> Labels]
  /\ TxExclusive' /\ OneInside'

\* A thread goes to l and leaves the connection to whom it belongs.
LEMMA TxMove ==
  ASSUME TypeInv, NEW t \in Threads, NEW l \in Labels, Goto(t, l),
         \/ conn' = conn /\ (l \in TxLabels <=> pc[t] \in TxLabels)
         \/ conn = t /\ conn' = Free /\ l \notin TxLabels
         \/ conn = Free /\ conn' = t /\ l \in TxLabels
         \/ conn = Broken /\ conn' = Broken /\ l \notin TxLabels
  PROVE  Moved
<1>1. pc' = [pc EXCEPT ![t] = l] /\ pc \in [Threads -> Labels]
  BY DEF Goto, TypeInv, TypeOK
<1>2. pc' \in [Threads -> Labels]
  BY <1>1
<1>3. conn' \in Threads \cup {Free, Broken}
  BY DEF TypeInv, TypeOK
<1>4. ASSUME NEW u \in Threads
      PROVE  /\ conn' = u => pc'[u] \in TxLabels
             /\ pc'[u] \in TxLabels => conn' \in {u, Broken}
  <2>1. CASE u = t
    BY <1>1, <2>1, SpotifyAssumption DEF TypeInv, TxExclusive
  <2>2. CASE u # t
    BY <1>1, <2>2, SpotifyAssumption DEF TypeInv, TxExclusive
  <2> QED BY <2>1, <2>2
<1>5. OneInside'
  <2> SUFFICES ASSUME NEW u \in Threads, NEW v \in Threads, u # v,
                      pc'[u] \in TxLabels, pc'[v] \in TxLabels
               PROVE  FALSE
    BY DEF OneInside
  <2>1. pc[u] \in TxLabels \/ u = t
    BY <1>1
  <2>2. pc[v] \in TxLabels \/ v = t
    BY <1>1
  <2>3. pc'[t] = l
    BY <1>1
  <2> QED BY <2>1, <2>2, <2>3, SpotifyAssumption DEF TypeInv, TxExclusive, OneInside
<1> QED BY <1>2, <1>3, <1>4, <1>5 DEF Moved, TxExclusive

\* The constructor's default is a setting.
LEMMA CreatedTyped ==
  ASSUME NEW s \in Settings
  PROVE  Created(s) \in Settings
BY SpotifyAssumption DEF Created, Settings

\* Every transaction writes values of the right type.
LEMMA WriteTyped ==
  ASSUME TypeInv, NEW t \in Threads, Write(t)
  PROVE  /\ state' \in Settings
         /\ spotify' \subseteq Accounts /\ expired' \subseteq Accounts
         /\ token' \in [Accounts -> Accounts]
<1>1. CASE At(t, "store_tx") /\ Store(t)
  BY <1>1 DEF At, Store, TypeInv, TypeOK, ArgInv
<1>2. CASE At(t, "account_commit") /\ StoreAccount(t)
  BY <1>2 DEF At, StoreAccount, TypeInv, TypeOK, ArgInv, Settings
<1>3. CASE At(t, "device_tx") /\ StoreDevice(t)
  BY <1>3 DEF At, StoreDevice, TypeInv, TypeOK, ArgInv, Settings
<1>4. CASE At(t, "sql_commit") /\ StoreRow(t)
  BY <1>4 DEF At, StoreRow, TypeInv, TypeOK, ArgInv
<1> QED BY <1>1, <1>2, <1>3, <1>4 DEF Write

\* Only the account command writes the account.
LEMMA WriteAccount ==
  ASSUME TypeInv, NEW t \in Threads, Write(t)
  PROVE  /\ At(t, "account_commit") => state'.account = arg[t]
         /\ ~At(t, "account_commit") => state'.account = state.account
<1>1. CASE At(t, "store_tx") /\ Store(t)
  BY <1>1 DEF At, Store
<1>2. CASE At(t, "account_commit") /\ StoreAccount(t)
  BY <1>2 DEF At, StoreAccount, TypeInv, TypeOK, Settings
<1>3. CASE At(t, "device_tx") /\ StoreDevice(t)
  BY <1>3 DEF At, StoreDevice, TypeInv, TypeOK, Settings
<1>4. CASE At(t, "sql_commit") /\ StoreRow(t)
  BY <1>4 DEF At, StoreRow
<1> QED BY <1>1, <1>2, <1>3, <1>4 DEF Write

\* Only the device command writes the device.
LEMMA WriteDevice ==
  ASSUME TypeInv, NEW t \in Threads, Write(t)
  PROVE  /\ At(t, "device_tx") => state'.device = arg[t]
         /\ ~At(t, "device_tx") => state'.device = state.device
<1>1. CASE At(t, "store_tx") /\ Store(t)
  BY <1>1 DEF At, Store
<1>2. CASE At(t, "account_commit") /\ StoreAccount(t)
  BY <1>2 DEF At, StoreAccount, TypeInv, TypeOK, Settings
<1>3. CASE At(t, "device_tx") /\ StoreDevice(t)
  BY <1>3 DEF At, StoreDevice, TypeInv, TypeOK, Settings
<1>4. CASE At(t, "sql_commit") /\ StoreRow(t)
  BY <1>4 DEF At, StoreRow
<1> QED BY <1>1, <1>2, <1>3, <1>4 DEF Write

\* With one thread no transaction stores a token in a row that is not its own.
LEMMA WriteOwn ==
  ASSUME TypeInv, LoneInv, NEW t \in Threads, Write(t)
  PROVE  RowsOwn'
<1>1. CASE At(t, "store_tx") /\ Store(t)
  BY <1>1 DEF At, Store, LoneInv, RowsOwn, TypeInv, TypeOK
<1>2. CASE At(t, "account_commit") /\ StoreAccount(t)
  BY <1>2 DEF StoreAccount, LoneInv, RowsOwn
<1>3. CASE At(t, "device_tx") /\ StoreDevice(t)
  BY <1>3 DEF StoreDevice, LoneInv, RowsOwn
<1>4. CASE At(t, "sql_commit") /\ StoreRow(t)
  BY <1>4 DEF At, StoreRow, LoneInv, RowsOwn, TypeInv, TypeOK, ArgInv
<1> QED BY <1>1, <1>2, <1>3, <1>4 DEF Write

-----------------------------------------------------------------------------
(* Types and transactions *)

\* The types and the lock hold after the first constructor.
LEMMA TypeInit == Init => TypeInv
<1> SUFFICES ASSUME Init PROVE TypeInv
  OBVIOUS
<1>1. state \in Settings
  BY SpotifyAssumption DEF Init, Created, Settings
<1>2. TypeOK
  BY <1>1, LabelSets DEF Init, TypeOK
<1>3. TxExclusive /\ OneInside /\ ArgInv
  BY LabelSets, SpotifyAssumption DEF Init, TxExclusive, OneInside, ArgInv
<1> QED BY <1>2, <1>3 DEF TypeInv

\* Every action keeps types, the connection's lock and the arguments.
LEMMA TypeStep == TypeInv /\ [Next]_vars => TypeInv'
<1> SUFFICES ASSUME TypeInv, [Next]_vars PROVE TypeInv'
  OBVIOUS
<1> USE LabelSets
<1>1. ASSUME NEW t \in Threads, Receive(t) PROVE TypeInv'
  <2>1. PICK k \in Kinds, x \in Accounts \cup Devices \cup {Bogus} :
          /\ kind' = [kind EXCEPT ![t] = k] /\ arg' = [arg EXCEPT ![t] = x]
          /\ k \in {"account", "sql"} => x \in Accounts \cup {Bogus}
          /\ Goto(t, IF k \in {"accounts", "account", "sql"} THEN k ELSE "token")
    BY <1>1 DEF Receive
  <2>2. Moved
    BY <1>1, <2>1, TxMove DEF Receive, At
  <2>3. TypeOK'
    <3>1. kind' \in [Threads -> AllKinds \cup {"none"}]
      BY <1>1, <2>1, SpotifyAssumption DEF TypeInv, TypeOK
    <3>2. arg' \in [Threads -> Accounts \cup Devices \cup {Bogus}]
      BY <1>1, <2>1 DEF TypeInv, TypeOK
    <3>3. /\ route' \in [Threads -> {"get", "post"}]
          /\ tok' \in [Threads -> Accounts \cup {NoAccount}]
          /\ queued' \in [Threads -> Nat]
          /\ said' \in [Threads -> SUBSET {"success", "error"}]
          /\ messages' \in Nat
      BY <1>1 DEF Receive, TypeInv, TypeOK
    <3> QED BY <1>1, <2>2, <3>1, <3>2, <3>3 DEF Receive, Moved, database, TypeInv, TypeOK
  <2>4. ArgInv'
    BY <1>1, <2>1, SpotifyAssumption DEF Receive, Goto, TypeInv, TypeOK, ArgInv
  <2> QED BY <2>2, <2>3, <2>4 DEF Moved, TypeInv
<1>2. ASSUME NEW t \in Threads, Begin(t) PROVE TypeInv'
  <2>1. TxOf[pc[t]] \in TxLabels \ {"account_commit", "sql_commit"}
    BY <1>2, TxOfLabel DEF Begin
  <2>2. Moved
    BY <1>2, <2>1, TxMove DEF Begin
  <2>3. TypeOK'
    BY <1>2, <2>2 DEF Begin, Moved, database, locals, counters, TypeInv, TypeOK
  <2>4. ArgInv'
    BY <1>2, <2>1, TxOfLabel DEF Begin, Goto, locals, TypeInv, TypeOK, ArgInv
  <2> QED BY <2>2, <2>3, <2>4 DEF Moved, TypeInv
<1>3. ASSUME NEW t \in Threads, TxFails(t) PROVE TypeInv'
  <2>1. Moved
    BY <1>3, TxMove DEF TxFails, End, TypeInv
  <2>2. /\ state' \in Settings /\ token' \in [Accounts -> Accounts]
        /\ spotify' \subseteq Accounts /\ expired' \subseteq Accounts
    BY <1>3, WriteTyped DEF TxFails, database, TypeInv, TypeOK
  <2>3. said' \in [Threads -> SUBSET {"success", "error"}]
    BY <1>3 DEF TxFails, End, TypeInv, TypeOK
  <2>4. TypeOK'
    BY <1>3, <2>1, <2>2, <2>3 DEF TxFails, Moved, locals, counters, TypeInv, TypeOK
  <2>5. ArgInv'
    BY <1>3 DEF TxFails, End, Goto, locals, TypeInv, TypeOK, ArgInv
  <2> QED BY <2>1, <2>4, <2>5 DEF Moved, TypeInv
<1>4. ASSUME NEW t \in Threads, StoreCommit(t) PROVE TypeInv'
  <2>1. Moved
    BY <1>4, TxMove DEF StoreCommit, In, At, End, Thrown, TypeInv, TypeOK, Goto
  <2>2. TypeOK'
    BY <1>4, <2>1, WriteTyped DEF Moved, StoreCommit, TypeInv, TypeOK, End, In, Goto,
      locals, counters, Settings
  <2>3. ArgInv'
    BY <1>4 DEF StoreCommit, TypeInv, TypeOK, ArgInv, End, In, At, Goto, locals, counters
  <2> QED BY <2>1, <2>2, <2>3 DEF Moved, TypeInv
<1>5. ASSUME NEW t \in Threads, DeviceCommit(t) PROVE TypeInv'
  <2>1. Moved
    BY <1>5, TxMove DEF DeviceCommit, In, At, End, Thrown, TypeInv, TypeOK, Goto
  <2>2. TypeOK'
    BY <1>5, <2>1, WriteTyped DEF Moved, DeviceCommit, TypeInv, TypeOK, End, In, Goto,
      locals, counters, Settings
  <2>3. ArgInv'
    BY <1>5 DEF DeviceCommit, TypeInv, TypeOK, ArgInv, End, In, At, Goto, locals, counters
  <2> QED BY <2>1, <2>2, <2>3 DEF Moved, TypeInv
<1>6. ASSUME NEW t \in Threads, AccountCommit(t) PROVE TypeInv'
  <2>1. Moved
    BY <1>6, TxMove DEF AccountCommit, In, At, End, Thrown, TypeInv, TypeOK, Goto
  <2>2. TypeOK'
    BY <1>6, <2>1, WriteTyped DEF Moved, AccountCommit, TypeInv, TypeOK, End, In, Goto,
      locals, counters, Settings
  <2>3. ArgInv'
    BY <1>6 DEF AccountCommit, TypeInv, TypeOK, ArgInv, End, In, At, Goto, locals, counters
  <2> QED BY <2>1, <2>2, <2>3 DEF Moved, TypeInv
<1>7. ASSUME NEW t \in Threads, SqlCommit(t) PROVE TypeInv'
  <2>1. Moved
    BY <1>7, TxMove DEF SqlCommit, In, At, End, Thrown, TypeInv, TypeOK, Goto
  <2>2. TypeOK'
    BY <1>7, <2>1, WriteTyped DEF Moved, SqlCommit, TypeInv, TypeOK, End, In, Goto,
      locals, counters, Settings
  <2>3. ArgInv'
    BY <1>7 DEF SqlCommit, TypeInv, TypeOK, ArgInv, End, In, At, Goto, locals, counters
  <2> QED BY <2>1, <2>2, <2>3 DEF Moved, TypeInv
<1>8. CASE Restart
  <2>1. TypeOK'
    BY <1>8, CreatedTyped DEF Restart, TypeInv, TypeOK
  <2>2. TxExclusive' /\ OneInside' /\ ArgInv'
    BY <1>8, SpotifyAssumption DEF Restart, TypeInv, TypeOK, TxExclusive, OneInside, ArgInv
  <2> QED BY <2>1, <2>2 DEF TypeInv
<1> USE SpotifyAssumption DEF TypeInv, TypeOK, ArgInv, Settings, End, Thrown, In,
  At, Goto, vars, database, locals, counters
<1>9. ASSUME NEW t \in Threads, BeginRefused(t) PROVE TypeInv'
  <2>1. Moved
    BY <1>9, TxMove DEF BeginRefused
  <2>2. TypeOK'
    BY <1>9, <2>1 DEF BeginRefused, Moved
  <2>3. ArgInv'
    BY <1>9 DEF BeginRefused
  <2> QED BY <2>1, <2>2, <2>3 DEF Moved
<1>10. ASSUME NEW t \in Threads, TokenMissing(t) PROVE TypeInv'
  <2>1. Moved
    BY <1>10, TxMove DEF TokenMissing
  <2>2. TypeOK'
    BY <1>10, <2>1 DEF TokenMissing, Moved
  <2>3. ArgInv'
    BY <1>10 DEF TokenMissing
  <2> QED BY <2>1, <2>2, <2>3 DEF Moved
<1>11. ASSUME NEW t \in Threads, TokenRead(t) PROVE TypeInv'
  <2>1. Moved
    BY <1>11, TxMove DEF TokenRead
  <2>2. TypeOK'
    BY <1>11, <2>1 DEF TokenRead, Moved
  <2>3. ArgInv'
    BY <1>11 DEF TokenRead
  <2> QED BY <2>1, <2>2, <2>3 DEF Moved
<1>12. ASSUME NEW t \in Threads, Refreshed(t) PROVE TypeInv'
  <2>1. Moved
    BY <1>12, TxMove DEF Refreshed
  <2>2. TypeOK'
    BY <1>12, <2>1 DEF Refreshed, Moved
  <2>3. ArgInv'
    BY <1>12 DEF Refreshed
  <2> QED BY <2>1, <2>2, <2>3 DEF Moved
<1>13. ASSUME NEW t \in Threads, TokenReread(t) PROVE TypeInv'
  <2>1. Moved
    BY <1>13, TxMove DEF TokenReread
  <2>2. TypeOK'
    BY <1>13, <2>1 DEF TokenReread, Moved
  <2>3. ArgInv'
    BY <1>13 DEF TokenReread
  <2> QED BY <2>1, <2>2, <2>3 DEF Moved
<1>14. ASSUME NEW t \in Threads, RequestFails(t) PROVE TypeInv'
  <2>1. Moved
    BY <1>14, TxMove DEF RequestFails
  <2>2. TypeOK'
    BY <1>14, <2>1 DEF RequestFails, Moved
  <2>3. ArgInv'
    BY <1>14 DEF RequestFails
  <2> QED BY <2>1, <2>2, <2>3 DEF Moved
<1>15. ASSUME NEW t \in Threads, TrackFound(t) PROVE TypeInv'
  <2>1. Moved
    BY <1>15, TxMove DEF TrackFound
  <2>2. TypeOK'
    BY <1>15, <2>1 DEF TrackFound, Moved
  <2>3. ArgInv'
    BY <1>15 DEF TrackFound
  <2> QED BY <2>1, <2>2, <2>3 DEF Moved
<1>16. ASSUME NEW t \in Threads, TrackQueued(t) PROVE TypeInv'
  <2>1. Moved
    BY <1>16, TxMove DEF TrackQueued
  <2>2. TypeOK'
    BY <1>16, <2>1 DEF TrackQueued, Moved
  <2>3. ArgInv'
    BY <1>16 DEF TrackQueued
  <2> QED BY <2>1, <2>2, <2>3 DEF Moved
<1>17. ASSUME NEW t \in Threads, Embed(t) PROVE TypeInv'
  <2>1. Moved
    BY <1>17, TxMove DEF Embed
  <2>2. TypeOK'
    BY <1>17, <2>1 DEF Embed, Moved
  <2>3. ArgInv'
    BY <1>17 DEF Embed
  <2> QED BY <2>1, <2>2, <2>3 DEF Moved
<1>18. ASSUME NEW t \in Threads, Shown(t) PROVE TypeInv'
  <2>1. Moved
    BY <1>18, TxMove DEF Shown
  <2>2. TypeOK'
    BY <1>18, <2>1 DEF Shown, Moved
  <2>3. ArgInv'
    BY <1>18 DEF Shown
  <2> QED BY <2>1, <2>2, <2>3 DEF Moved
<1>19. ASSUME NEW t \in Threads, DeviceFound(t) PROVE TypeInv'
  <2>1. Moved
    BY <1>19, TxMove DEF DeviceFound
  <2>2. TypeOK'
    BY <1>19, <2>1 DEF DeviceFound, Moved
  <2>3. ArgInv'
    BY <1>19 DEF DeviceFound
  <2> QED BY <2>1, <2>2, <2>3 DEF Moved
<1>20. ASSUME NEW t \in Threads, DeviceNotFound(t) PROVE TypeInv'
  <2>1. Moved
    BY <1>20, TxMove DEF DeviceNotFound
  <2>2. TypeOK'
    BY <1>20, <2>1 DEF DeviceNotFound, Moved
  <2>3. ArgInv'
    BY <1>20 DEF DeviceNotFound
  <2> QED BY <2>1, <2>2, <2>3 DEF Moved
<1>21. ASSUME NEW t \in Threads, AccountsListed(t) PROVE TypeInv'
  <2>1. Moved
    BY <1>21, TxMove DEF AccountsListed
  <2>2. TypeOK'
    BY <1>21, <2>1 DEF AccountsListed, Moved
  <2>3. ArgInv'
    BY <1>21 DEF AccountsListed
  <2> QED BY <2>1, <2>2, <2>3 DEF Moved
<1>22. ASSUME NEW t \in Threads, AccountRefused(t) PROVE TypeInv'
  <2>1. Moved
    BY <1>22, TxMove DEF AccountRefused
  <2>2. TypeOK'
    BY <1>22, <2>1 DEF AccountRefused, Moved
  <2>3. ArgInv'
    BY <1>22 DEF AccountRefused
  <2> QED BY <2>1, <2>2, <2>3 DEF Moved
<1>23. ASSUME NEW t \in Threads, AccountSelect(t) PROVE TypeInv'
  <2>1. Moved
    BY <1>23, TxMove DEF AccountSelect
  <2>2. TypeOK'
    BY <1>23, <2>1 DEF AccountSelect, Moved
  <2>3. ArgInv'
    BY <1>23 DEF AccountSelect
  <2> QED BY <2>1, <2>2, <2>3 DEF Moved
<1>24. ASSUME NEW t \in Threads, SqlRefused(t) PROVE TypeInv'
  <2>1. Moved
    BY <1>24, TxMove DEF SqlRefused
  <2>2. TypeOK'
    BY <1>24, <2>1 DEF SqlRefused, Moved
  <2>3. ArgInv'
    BY <1>24 DEF SqlRefused
  <2> QED BY <2>1, <2>2, <2>3 DEF Moved
<1>25. ASSUME NEW t \in Threads, SqlExec(t) PROVE TypeInv'
  <2>1. Moved
    BY <1>25, TxMove DEF SqlExec
  <2>2. TypeOK'
    BY <1>25, <2>1 DEF SqlExec, Moved
  <2>3. ArgInv'
    BY <1>25 DEF SqlExec
  <2> QED BY <2>1, <2>2, <2>3 DEF Moved
<1>26. CASE ConnBreaks
  BY <1>26 DEF ConnBreaks, TxExclusive, OneInside
<1>27. CASE Expire
  BY <1>27 DEF Expire, TxExclusive, OneInside
<1>28. CASE Finished
  BY <1>28 DEF Finished, TxExclusive, OneInside
<1>29. CASE UNCHANGED vars
  BY <1>29 DEF TxExclusive, OneInside
<1>30. ASSUME NEW t \in Threads, AccountAnswer(t) \/ DeviceAnswer(t) PROVE TypeInv'
  <2>1. Moved
    BY <1>30, TxMove DEF AccountAnswer, DeviceAnswer
  <2>2. TypeOK'
    BY <1>30, <2>1 DEF AccountAnswer, DeviceAnswer, Moved
  <2>3. ArgInv'
    BY <1>30 DEF AccountAnswer, DeviceAnswer
  <2> QED BY <2>1, <2>2, <2>3 DEF Moved
<1> QED
  BY <1>1, <1>2, <1>3, <1>4, <1>5, <1>6, <1>7, <1>8, <1>9, <1>10, <1>11, <1>12,
     <1>13, <1>14, <1>15, <1>16, <1>17, <1>18, <1>19, <1>20, <1>21, <1>22, <1>23,
     <1>24, <1>25, <1>26, <1>27, <1>28, <1>29, <1>30
  DEF Next, Step, TokenStep, HandlerStep

\* Every variable keeps its type.
THEOREM TypeCorrect == Spec => []TypeOK
<1>1. TypeInv => TypeOK
  BY DEF TypeInv
<1> QED BY <1>1, TypeInit, TypeStep, PTL DEF Spec

\* The connection's transaction belongs to the thread that is inside one.
THEOREM TransactionsExclusive == Spec => []TxExclusive
<1>1. TypeInv => TxExclusive
  BY DEF TypeInv
<1> QED BY <1>1, TypeInit, TypeStep, PTL DEF Spec

\* TypeInv is an invariant.
LEMMA TypeAlways == Spec => []TypeInv
BY TypeInit, TypeStep, PTL DEF Spec

-----------------------------------------------------------------------------
(* The default account in memory and in the table *)

\* After the first constructor the table has a default account.
LEMMA AccountInit == Init => AccountInv
BY SpotifyAssumption DEF Init, Created, Settings, AccountInv

\* t goes anywhere but between an account command's SELECT and its commit; when
\* it has changed the rows, no other thread is there.
LEMMA AccountElsewhere ==
  ASSUME TypeInv, AccountInv, NEW t \in Threads, NEW l \in Labels \ {"account_commit"},
         Goto(t, l), mem'.account = mem.account, state'.account # NoAccount,
         \A u \in Threads \ {t} : arg'[u] = arg[u],
         spotify' = spotify \/ pc[t] \in TxLabels
  PROVE  AccountInv'
<1> SUFFICES ASSUME NEW u \in Threads, pc'[u] = "account_commit"
             PROVE  mem'.account = arg'[u] /\ arg'[u] \in spotify'
  BY DEF AccountInv
<1>1. u # t /\ pc[u] = "account_commit"
  BY DEF Goto, TypeInv, TypeOK
<1>2. spotify' = spotify
  BY <1>1, LabelSets DEF TypeInv, OneInside
<1> QED BY <1>1, <1>2 DEF AccountInv

\* A transaction ends: no other one was open, and an account it wrote was real.
LEMMA AccountWritten ==
  ASSUME TypeInv, AccountInv, NEW t \in Threads, pc[t] \in TxLabels,
         NEW l \in Labels \ {"account_commit"}, Goto(t, l),
         Write(t) \/ UNCHANGED database, UNCHANGED <<mem, arg>>
  PROVE  AccountInv'
<1>1. state'.account # NoAccount
  <2>1. CASE Write(t)
    BY <2>1, WriteAccount, SpotifyAssumption DEF At, TypeInv, ArgInv, AccountInv
  <2>2. CASE UNCHANGED database
    BY <2>2 DEF database, AccountInv
  <2> QED BY <2>1, <2>2
<1> QED BY <1>1, AccountElsewhere

\* Nobody but an account command touches what lies between its two halves.
LEMMA AccountStep == TypeInv /\ AccountInv /\ [Next]_vars => AccountInv'
<1> SUFFICES ASSUME TypeInv, AccountInv, [Next]_vars PROVE AccountInv'
  OBVIOUS
<1> USE LabelSets
<1>1. ASSUME NEW t \in Threads, Begin(t) PROVE AccountInv'
  <2>1. TxOf[pc[t]] \in Labels \ {"account_commit"}
    BY <1>1, TxOfLabel DEF Begin
  <2> QED BY <1>1, <2>1, AccountElsewhere DEF Begin, database, locals, AccountInv
<1>2. ASSUME NEW t \in Threads, StoreCommit(t) \/ DeviceCommit(t) PROVE AccountInv'
  BY <1>2, AccountWritten DEF StoreCommit, DeviceCommit, In, At, locals
<1>3. ASSUME NEW t \in Threads, AccountCommit(t) \/ SqlCommit(t) PROVE AccountInv'
  BY <1>3, AccountWritten DEF AccountCommit, SqlCommit, In, At, locals
<1>4. ASSUME NEW t \in Threads, TxFails(t) PROVE AccountInv'
  <2>1. Goto(t, "idle") /\ (Write(t) \/ UNCHANGED database)
    BY <1>4 DEF TxFails, End
  <2> QED BY <1>4, <2>1, AccountWritten DEF TxFails, locals
<1>5. ASSUME NEW t \in Threads, AccountSelect(t) PROVE AccountInv'
  <2>1. mem'.account = arg[t] /\ arg[t] \in spotify
    BY <1>5 DEF AccountSelect, TypeInv, TypeOK, Settings
  <2>2. \A u \in Threads : pc'[u] = "account_commit" => u = t
    BY <1>5 DEF AccountSelect, In, At, Goto, TypeInv, TypeOK, OneInside
  <2> QED BY <1>5, <2>1, <2>2 DEF AccountSelect, database, locals, AccountInv
<1>6. ASSUME NEW t \in Threads, Receive(t) PROVE AccountInv'
  <2>1. PICK k \in Kinds, x \in Accounts \cup Devices \cup {Bogus} :
          /\ arg' = [arg EXCEPT ![t] = x]
          /\ Goto(t, IF k \in {"accounts", "account", "sql"} THEN k ELSE "token")
    BY <1>6 DEF Receive
  <2> QED BY <1>6, <2>1, AccountElsewhere DEF Receive, database, TypeInv, TypeOK, AccountInv
<1>7. ASSUME NEW t \in Threads, DeviceFound(t) PROVE AccountInv'
  <2>1. mem'.account = mem.account
    BY <1>7 DEF DeviceFound, TypeInv, TypeOK, Settings
  <2> QED BY <1>7, <2>1, AccountElsewhere DEF DeviceFound, database, locals, AccountInv
<1>8. ASSUME NEW t \in Threads,
             \/ TokenMissing(t) \/ TokenRead(t) \/ Refreshed(t) \/ TokenReread(t)
             \/ BeginRefused(t) \/ RequestFails(t) \/ TrackFound(t) \/ TrackQueued(t)
      PROVE  AccountInv'
  <2>1. UNCHANGED <<state, spotify, mem, arg>>
    BY <1>8 DEF TokenMissing, TokenRead, Refreshed, TokenReread, BeginRefused, RequestFails,
                TrackFound, TrackQueued, database, locals
  <2>2. PICK l \in Labels \ {"account_commit"} : Goto(t, l)
    BY <1>8 DEF TokenMissing, TokenRead, Refreshed, TokenReread, BeginRefused, RequestFails,
                TrackFound, TrackQueued, Thrown, End
  <2> QED BY <2>1, <2>2, AccountElsewhere DEF AccountInv
<1>9. ASSUME NEW t \in Threads,
             \/ Embed(t) \/ Shown(t) \/ DeviceNotFound(t) \/ DeviceAnswer(t)
             \/ AccountsListed(t) \/ AccountRefused(t) \/ AccountAnswer(t)
             \/ SqlRefused(t) \/ SqlExec(t)
      PROVE  AccountInv'
  <2>1. UNCHANGED <<state, spotify, mem, arg>>
    BY <1>9 DEF Embed, Shown, DeviceNotFound, DeviceAnswer, AccountsListed, AccountRefused,
                AccountAnswer, SqlRefused, SqlExec, database, locals
  <2>2. Goto(t, "idle") \/ Goto(t, "sql_commit")
    BY <1>9 DEF Embed, Shown, DeviceNotFound, DeviceAnswer, AccountsListed, AccountRefused,
                AccountAnswer, SqlRefused, SqlExec, Thrown, End
  <2> QED BY <2>1, <2>2, AccountElsewhere DEF AccountInv
<1>10. CASE Restart
  BY <1>10 DEF Restart, Created, AccountInv
<1>11. CASE ConnBreaks \/ Expire \/ Finished \/ UNCHANGED vars
  BY <1>11 DEF ConnBreaks, Expire, Finished, vars, database, locals, AccountInv
<1> QED BY <1>1, <1>2, <1>3, <1>4, <1>5, <1>6, <1>7, <1>8, <1>9, <1>10, <1>11
        DEF Next, Step, TokenStep, HandlerStep

\* The account that a step changes in the table is that of the account command
\* which commits it.
LEMMA AccountCommitted ==
  ASSUME TypeInv, AccountInv, [Next]_vars, state'.account # state.account
  PROVE  mem'.account = state'.account /\ state'.account \in spotify'
<1>1. ASSUME NEW t \in Threads, Write(t), mem' = mem
      PROVE  mem'.account = state'.account /\ state'.account \in spotify'
  <2>1. At(t, "account_commit") /\ state'.account = arg[t]
    BY <1>1, WriteAccount
  <2>2. spotify' = spotify
    BY <1>1, <2>1 DEF Write, At, StoreAccount
  <2> QED BY <1>1, <2>1, <2>2 DEF At, AccountInv
<1>2. ASSUME NEW t \in Threads, TxFails(t)
      PROVE  mem'.account = state'.account /\ state'.account \in spotify'
  BY <1>1, <1>2 DEF TxFails, database
<1>3. ASSUME NEW t \in Threads,
             StoreCommit(t) \/ DeviceCommit(t) \/ AccountCommit(t) \/ SqlCommit(t)
      PROVE  mem'.account = state'.account /\ state'.account \in spotify'
  BY <1>1, <1>3 DEF StoreCommit, DeviceCommit, AccountCommit, SqlCommit
<1>4. ASSUME NEW t \in Threads, Receive(t) \/ Begin(t) \/ BeginRefused(t) PROVE FALSE
  BY <1>4 DEF Receive, Begin, BeginRefused, database
<1>5. ASSUME NEW t \in Threads,
             \/ TokenMissing(t) \/ TokenRead(t) \/ Refreshed(t) \/ TokenReread(t)
             \/ RequestFails(t) \/ TrackFound(t) \/ TrackQueued(t) \/ Embed(t) \/ Shown(t)
             \/ DeviceFound(t) \/ DeviceNotFound(t) \/ DeviceAnswer(t)
             \/ AccountsListed(t) \/ AccountRefused(t) \/ AccountSelect(t)
             \/ AccountAnswer(t) \/ SqlRefused(t) \/ SqlExec(t)
      PROVE  FALSE
  BY <1>5 DEF TokenMissing, TokenRead, Refreshed, TokenReread, RequestFails, TrackFound,
              TrackQueued, Embed, Shown, DeviceFound, DeviceNotFound, DeviceAnswer,
              AccountsListed, AccountRefused, AccountSelect, AccountAnswer, SqlRefused,
              SqlExec, database
<1>6. CASE Restart
  BY <1>6 DEF Restart, Created, AccountInv
<1>7. CASE ConnBreaks \/ Expire \/ Finished \/ UNCHANGED vars
  BY <1>7 DEF ConnBreaks, Expire, Finished, vars, database
<1> QED BY <1>2, <1>3, <1>4, <1>5, <1>6, <1>7 DEF Next, Step, TokenStep, HandlerStep

\* The table takes the default account from memory, and only one that has a
\* row, whatever failed or overlapped before.
THEOREM AccountsStored == Spec => AccountStored
<1>1. TypeInv /\ AccountInv /\ [Next]_vars =>
        [state'.account # state.account =>
           mem'.account = state'.account /\ state'.account \in spotify']_vars
  BY AccountCommitted
<1> QED BY <1>1, AccountInit, AccountStep, TypeAlways, PTL DEF Spec, AccountStored

-----------------------------------------------------------------------------
(* One message: what it is, what it queues and what it is answered *)

\* No message, no answer, no track at the start.
LEMMA KindInit == Init => KindInv /\ QueueInv
BY DEF Init, KindInv, QueueInv

\* Labels of one command are reached by that command's messages only.
LEMMA KindStep == TypeInv /\ KindInv /\ [Next]_vars => KindInv'
<1> SUFFICES ASSUME TypeInv, KindInv, [Next]_vars PROVE KindInv'
  OBVIOUS
<1>1. ASSUME NEW t \in Threads, Begin(t) PROVE KindInv'
  <2>1. pc[t] \in Begins /\ pc' = [pc EXCEPT ![t] = TxOf[pc[t]]] /\ kind' = kind
    BY <1>1 DEF Begin, Goto, locals
  <2> QED BY <2>1, TxOfLabel, LabelSets DEF KindInv, TypeInv, TypeOK
<1> USE LabelSets DEF KindInv, TypeInv, TypeOK, End, Thrown, In, At, Goto,
  database, locals, counters, vars
<1>2. ASSUME NEW t \in Threads, Receive(t) PROVE KindInv'
  BY <1>2 DEF Receive
<1>3. ASSUME NEW t \in Threads, BeginRefused(t) PROVE KindInv'
  BY <1>3 DEF BeginRefused
<1>4. ASSUME NEW t \in Threads, TxFails(t) PROVE KindInv'
  BY <1>4 DEF TxFails
<1>5. ASSUME NEW t \in Threads, TokenMissing(t) PROVE KindInv'
  BY <1>5 DEF TokenMissing
<1>6. ASSUME NEW t \in Threads, TokenRead(t) PROVE KindInv'
  BY <1>6 DEF TokenRead
<1>7. ASSUME NEW t \in Threads, Refreshed(t) PROVE KindInv'
  BY <1>7 DEF Refreshed
<1>8. ASSUME NEW t \in Threads, StoreCommit(t) PROVE KindInv'
  BY <1>8 DEF StoreCommit
<1>9. ASSUME NEW t \in Threads, TokenReread(t) PROVE KindInv'
  BY <1>9 DEF TokenReread
<1>10. ASSUME NEW t \in Threads, RequestFails(t) PROVE KindInv'
  BY <1>10 DEF RequestFails
<1>11. ASSUME NEW t \in Threads, TrackFound(t) PROVE KindInv'
  BY <1>11 DEF TrackFound
<1>12. ASSUME NEW t \in Threads, TrackQueued(t) PROVE KindInv'
  BY <1>12 DEF TrackQueued
<1>13. ASSUME NEW t \in Threads, Embed(t) PROVE KindInv'
  BY <1>13 DEF Embed
<1>14. ASSUME NEW t \in Threads, Shown(t) PROVE KindInv'
  BY <1>14 DEF Shown
<1>15. ASSUME NEW t \in Threads, DeviceFound(t) PROVE KindInv'
  BY <1>15 DEF DeviceFound
<1>16. ASSUME NEW t \in Threads, DeviceNotFound(t) PROVE KindInv'
  BY <1>16 DEF DeviceNotFound
<1>17. ASSUME NEW t \in Threads, DeviceCommit(t) PROVE KindInv'
  BY <1>17 DEF DeviceCommit
<1>18. ASSUME NEW t \in Threads, AccountsListed(t) PROVE KindInv'
  BY <1>18 DEF AccountsListed
<1>19. ASSUME NEW t \in Threads, AccountRefused(t) PROVE KindInv'
  BY <1>19 DEF AccountRefused
<1>20. ASSUME NEW t \in Threads, AccountSelect(t) PROVE KindInv'
  BY <1>20 DEF AccountSelect
<1>21. ASSUME NEW t \in Threads, AccountCommit(t) PROVE KindInv'
  BY <1>21 DEF AccountCommit
<1>22. ASSUME NEW t \in Threads, SqlRefused(t) PROVE KindInv'
  BY <1>22 DEF SqlRefused
<1>23. ASSUME NEW t \in Threads, SqlExec(t) PROVE KindInv'
  BY <1>23 DEF SqlExec
<1>24. ASSUME NEW t \in Threads, SqlCommit(t) PROVE KindInv'
  BY <1>24 DEF SqlCommit
<1>25. CASE ConnBreaks
  BY <1>25 DEF ConnBreaks
<1>26. CASE Restart
  BY <1>26 DEF Restart
<1>27. CASE Expire
  BY <1>27 DEF Expire
<1>28. CASE Finished
  BY <1>28 DEF Finished
<1>29. CASE UNCHANGED vars
  BY <1>29
<1>30. ASSUME NEW t \in Threads, AccountAnswer(t) \/ DeviceAnswer(t) PROVE KindInv'
  BY <1>30 DEF AccountAnswer, DeviceAnswer
<1> QED
  BY <1>1, <1>2, <1>3, <1>4, <1>5, <1>6, <1>7, <1>8, <1>9, <1>10, <1>11, <1>12,
     <1>13, <1>14, <1>15, <1>16, <1>17, <1>18, <1>19, <1>20, <1>21, <1>22, <1>23,
     <1>24, <1>25, <1>26, <1>27, <1>28, <1>29, <1>30
  DEF Next, Step, TokenStep, HandlerStep

\* A message queues its track on the way to embed and nowhere else.
LEMMA QueueStep == TypeInv /\ KindInv /\ QueueInv /\ [Next]_vars => QueueInv'
<1> SUFFICES ASSUME TypeInv, KindInv, QueueInv, [Next]_vars PROVE QueueInv'
  OBVIOUS
<1>1. ASSUME NEW t \in Threads, Begin(t) PROVE QueueInv'
  <2>1. /\ pc[t] \in Begins /\ pc' = [pc EXCEPT ![t] = TxOf[pc[t]]]
        /\ kind' = kind /\ queued' = queued /\ said' = said
    BY <1>1 DEF Begin, Goto, locals
  <2> QED BY <2>1, TxOfLabel, LabelSets DEF QueueInv, TypeInv, TypeOK
<1> USE LabelSets DEF QueueInv, KindInv, TypeInv, TypeOK, End, Thrown, In, At,
  Goto, database, locals, counters, vars
<1>2. ASSUME NEW t \in Threads, Receive(t) PROVE QueueInv'
  BY <1>2 DEF Receive
<1>3. ASSUME NEW t \in Threads, BeginRefused(t) PROVE QueueInv'
  BY <1>3 DEF BeginRefused
<1>4. ASSUME NEW t \in Threads, TxFails(t) PROVE QueueInv'
  BY <1>4 DEF TxFails
<1>5. ASSUME NEW t \in Threads, TokenMissing(t) PROVE QueueInv'
  BY <1>5 DEF TokenMissing
<1>6. ASSUME NEW t \in Threads, TokenRead(t) PROVE QueueInv'
  BY <1>6 DEF TokenRead
<1>7. ASSUME NEW t \in Threads, Refreshed(t) PROVE QueueInv'
  BY <1>7 DEF Refreshed
<1>8. ASSUME NEW t \in Threads, StoreCommit(t) PROVE QueueInv'
  BY <1>8 DEF StoreCommit
<1>9. ASSUME NEW t \in Threads, TokenReread(t) PROVE QueueInv'
  BY <1>9 DEF TokenReread
<1>10. ASSUME NEW t \in Threads, RequestFails(t) PROVE QueueInv'
  BY <1>10 DEF RequestFails
<1>11. ASSUME NEW t \in Threads, TrackFound(t) PROVE QueueInv'
  BY <1>11 DEF TrackFound
<1>12. ASSUME NEW t \in Threads, TrackQueued(t) PROVE QueueInv'
  BY <1>12 DEF TrackQueued
<1>13. ASSUME NEW t \in Threads, Embed(t) PROVE QueueInv'
  BY <1>13 DEF Embed
<1>14. ASSUME NEW t \in Threads, Shown(t) PROVE QueueInv'
  BY <1>14 DEF Shown
<1>15. ASSUME NEW t \in Threads, DeviceFound(t) PROVE QueueInv'
  BY <1>15 DEF DeviceFound
<1>16. ASSUME NEW t \in Threads, DeviceNotFound(t) PROVE QueueInv'
  BY <1>16 DEF DeviceNotFound
<1>17. ASSUME NEW t \in Threads, DeviceCommit(t) PROVE QueueInv'
  BY <1>17 DEF DeviceCommit
<1>18. ASSUME NEW t \in Threads, AccountsListed(t) PROVE QueueInv'
  BY <1>18 DEF AccountsListed
<1>19. ASSUME NEW t \in Threads, AccountRefused(t) PROVE QueueInv'
  BY <1>19 DEF AccountRefused
<1>20. ASSUME NEW t \in Threads, AccountSelect(t) PROVE QueueInv'
  BY <1>20 DEF AccountSelect
<1>21. ASSUME NEW t \in Threads, AccountCommit(t) PROVE QueueInv'
  BY <1>21 DEF AccountCommit
<1>22. ASSUME NEW t \in Threads, SqlRefused(t) PROVE QueueInv'
  BY <1>22 DEF SqlRefused
<1>23. ASSUME NEW t \in Threads, SqlExec(t) PROVE QueueInv'
  BY <1>23 DEF SqlExec
<1>24. ASSUME NEW t \in Threads, SqlCommit(t) PROVE QueueInv'
  BY <1>24 DEF SqlCommit
<1>25. CASE ConnBreaks
  BY <1>25 DEF ConnBreaks
<1>26. CASE Restart
  BY <1>26 DEF Restart
<1>27. CASE Expire
  BY <1>27 DEF Expire
<1>28. CASE Finished
  BY <1>28 DEF Finished
<1>29. CASE UNCHANGED vars
  BY <1>29
<1>30. ASSUME NEW t \in Threads, AccountAnswer(t) \/ DeviceAnswer(t) PROVE QueueInv'
  BY <1>30 DEF AccountAnswer, DeviceAnswer
<1> QED
  BY <1>1, <1>2, <1>3, <1>4, <1>5, <1>6, <1>7, <1>8, <1>9, <1>10, <1>11, <1>12,
     <1>13, <1>14, <1>15, <1>16, <1>17, <1>18, <1>19, <1>20, <1>21, <1>22, <1>23,
     <1>24, <1>25, <1>26, <1>27, <1>28, <1>29, <1>30
  DEF Next, Step, TokenStep, HandlerStep

\* Both are invariants.
LEMMA QueueAlways == Spec => [](KindInv /\ QueueInv)
BY KindInit, KindStep, QueueStep, TypeAlways, PTL DEF Spec

\* No message queues its track twice, and "Added to the queue!" is said of
\* tracks that are in the queue.
THEOREM TracksAddedOnce == Spec => []AddedOnce
<1>1. QueueInv => AddedOnce
  <2> SUFFICES ASSUME QueueInv, NEW t \in Threads
               PROVE  /\ queued[t] <= 1
                      /\ kind[t] = "link" /\ "success" \in said[t] => queued[t] = 1
    BY DEF AddedOnce
  <2>1. queued[t] = 0 \/ queued[t] = 1
    BY DEF QueueInv
  <2> QED BY <2>1 DEF QueueInv
<1> QED BY <1>1, QueueAlways, PTL

-----------------------------------------------------------------------------
(* The tokens, when one thread runs every handler *)

OneThread == \A t, u \in Threads : t = u

\* The rows start with their own tokens.
LEMMA LoneInit == Init => LoneInv
BY DEF Init, LoneInv, RowsOwn

\* With one thread the default account stays put during a refresh.
LEMMA LoneStep == OneThread /\ TypeInv /\ LoneInv /\ [Next]_vars => LoneInv'
<1> SUFFICES ASSUME OneThread, TypeInv, LoneInv, [Next]_vars PROVE LoneInv'
  OBVIOUS
<1>1. ASSUME NEW t \in Threads, Begin(t) PROVE LoneInv'
  <2>1. pc[t] \in Begins /\ pc' = [pc EXCEPT ![t] = TxOf[pc[t]]]
        /\ UNCHANGED <<database, mem, tok>>
    BY <1>1 DEF Begin, Goto, locals
  <2> QED BY <2>1, TxOfLabel, LabelSets DEF LoneInv, RowsOwn, database, TypeInv, TypeOK
<1>2. ASSUME NEW t \in Threads, TxFails(t) PROVE LoneInv'
  <2>1. RowsOwn'
    BY <1>2, WriteOwn DEF TxFails, database, LoneInv, RowsOwn
  <2>2. pc'[t] \notin {"refresh", "store", "store_tx"}
    BY <1>2 DEF TxFails, End, Goto, TypeInv, TypeOK
  <2> QED BY <2>1, <2>2 DEF LoneInv, OneThread
<1>3. ASSUME NEW t \in Threads, StoreCommit(t) PROVE LoneInv'
  <2>1. RowsOwn'
    BY <1>3, WriteOwn DEF StoreCommit, database, LoneInv, RowsOwn
  <2>2. pc'[t] \notin {"refresh", "store", "store_tx"}
    BY <1>3 DEF StoreCommit, End, Goto, TypeInv, TypeOK
  <2> QED BY <2>1, <2>2 DEF LoneInv, OneThread
<1>4. ASSUME NEW t \in Threads, DeviceCommit(t) PROVE LoneInv'
  <2>1. RowsOwn'
    BY <1>4, WriteOwn DEF DeviceCommit, database, LoneInv, RowsOwn
  <2>2. pc'[t] \notin {"refresh", "store", "store_tx"}
    BY <1>4 DEF DeviceCommit, End, Goto, TypeInv, TypeOK
  <2> QED BY <2>1, <2>2 DEF LoneInv, OneThread
<1>5. ASSUME NEW t \in Threads, AccountCommit(t) PROVE LoneInv'
  <2>1. RowsOwn'
    BY <1>5, WriteOwn DEF AccountCommit, database, LoneInv, RowsOwn
  <2>2. pc'[t] \notin {"refresh", "store", "store_tx"}
    BY <1>5 DEF AccountCommit, End, Goto, TypeInv, TypeOK
  <2> QED BY <2>1, <2>2 DEF LoneInv, OneThread
<1>6. ASSUME NEW t \in Threads, SqlCommit(t) PROVE LoneInv'
  <2>1. RowsOwn'
    BY <1>6, WriteOwn DEF SqlCommit, database, LoneInv, RowsOwn
  <2>2. pc'[t] \notin {"refresh", "store", "store_tx"}
    BY <1>6 DEF SqlCommit, End, Goto, TypeInv, TypeOK
  <2> QED BY <2>1, <2>2 DEF LoneInv, OneThread
<1> USE LabelSets DEF OneThread, LoneInv, RowsOwn, TypeInv, TypeOK, End, Thrown,
  In, At, Goto, database, locals, counters, vars
<1>7. ASSUME NEW t \in Threads, Receive(t) PROVE LoneInv'
  BY <1>7 DEF Receive
<1>8. ASSUME NEW t \in Threads, BeginRefused(t) PROVE LoneInv'
  BY <1>8 DEF BeginRefused
<1>9. ASSUME NEW t \in Threads, TokenMissing(t) PROVE LoneInv'
  BY <1>9 DEF TokenMissing
<1>10. ASSUME NEW t \in Threads, TokenRead(t) PROVE LoneInv'
  BY <1>10 DEF TokenRead
<1>11. ASSUME NEW t \in Threads, Refreshed(t) PROVE LoneInv'
  BY <1>11 DEF Refreshed
<1>12. ASSUME NEW t \in Threads, TokenReread(t) PROVE LoneInv'
  BY <1>12 DEF TokenReread
<1>13. ASSUME NEW t \in Threads, RequestFails(t) PROVE LoneInv'
  BY <1>13 DEF RequestFails
<1>14. ASSUME NEW t \in Threads, TrackFound(t) PROVE LoneInv'
  BY <1>14 DEF TrackFound
<1>15. ASSUME NEW t \in Threads, TrackQueued(t) PROVE LoneInv'
  BY <1>15 DEF TrackQueued
<1>16. ASSUME NEW t \in Threads, Embed(t) PROVE LoneInv'
  BY <1>16 DEF Embed
<1>17. ASSUME NEW t \in Threads, Shown(t) PROVE LoneInv'
  BY <1>17 DEF Shown
<1>18. ASSUME NEW t \in Threads, DeviceFound(t) PROVE LoneInv'
  BY <1>18 DEF DeviceFound
<1>19. ASSUME NEW t \in Threads, DeviceNotFound(t) PROVE LoneInv'
  BY <1>19 DEF DeviceNotFound
<1>20. ASSUME NEW t \in Threads, AccountsListed(t) PROVE LoneInv'
  BY <1>20 DEF AccountsListed
<1>21. ASSUME NEW t \in Threads, AccountRefused(t) PROVE LoneInv'
  BY <1>21 DEF AccountRefused
<1>22. ASSUME NEW t \in Threads, AccountSelect(t) PROVE LoneInv'
  BY <1>22 DEF AccountSelect
<1>23. ASSUME NEW t \in Threads, SqlRefused(t) PROVE LoneInv'
  BY <1>23 DEF SqlRefused
<1>24. ASSUME NEW t \in Threads, SqlExec(t) PROVE LoneInv'
  BY <1>24 DEF SqlExec
<1>25. CASE ConnBreaks
  BY <1>25 DEF ConnBreaks
<1>26. CASE Restart
  BY <1>26 DEF Restart
<1>27. CASE Expire
  BY <1>27 DEF Expire
<1>28. CASE Finished
  BY <1>28 DEF Finished
<1>29. CASE UNCHANGED vars
  BY <1>29
<1>30. ASSUME NEW t \in Threads, AccountAnswer(t) \/ DeviceAnswer(t) PROVE LoneInv'
  BY <1>30 DEF AccountAnswer, DeviceAnswer
<1> QED
  BY <1>1, <1>2, <1>3, <1>4, <1>5, <1>6, <1>7, <1>8, <1>9, <1>10, <1>11, <1>12,
     <1>13, <1>14, <1>15, <1>16, <1>17, <1>18, <1>19, <1>20, <1>21, <1>22, <1>23,
     <1>24, <1>25, <1>26, <1>27, <1>28, <1>29, <1>30
  DEF Next, Step, TokenStep, HandlerStep

\* With one thread every row keeps a token of its own account: no refresh
\* stores a token in the row of another one.
THEOREM TokensOwn == OneThread /\ Spec => []RowsOwn
<1>1. LoneInv => RowsOwn
  BY DEF LoneInv
<1>2. OneThread => (Spec => []RowsOwn)
  <2> SUFFICES ASSUME OneThread PROVE Spec => []RowsOwn
    OBVIOUS
  <2>1. TypeInv /\ LoneInv /\ [Next]_vars => LoneInv'
    BY LoneStep
  <2> QED BY <1>1, <2>1, LoneInit, TypeAlways, PTL DEF Spec
<1> QED BY <1>2

-----------------------------------------------------------------------------
(* The settings, when one thread runs every handler *)

\* From DeviceFound on memory has the device, from a commit on the table has
\* what memory has.
SettingInv ==
  \A t \in Threads :
    /\ pc[t] \in {"device", "device_tx"} => mem.device = arg[t]
    /\ pc[t] = "device_answer" => mem.device = arg[t] /\ state.device = arg[t]
    /\ pc[t] = "account_answer" => mem.account = arg[t] /\ state.account = arg[t]

\* No command is under way at the start.
LEMMA SettingInit == Init => SettingInv
BY DEF Init, SettingInv

\* A step that ends elsewhere leaves nothing to show.
LEMMA SettingElsewhere ==
  ASSUME OneThread, TypeInv, NEW t \in Threads, NEW l \in Labels, Goto(t, l),
         l \notin {"device", "device_tx", "device_answer", "account_answer"}
  PROVE  SettingInv'
BY DEF OneThread, TypeInv, TypeOK, Goto, SettingInv

\* With one thread nothing comes between memory, the commit and the answer.
LEMMA SettingStep ==
  OneThread /\ TypeInv /\ AccountInv /\ SettingInv /\ [Next]_vars => SettingInv'
<1> SUFFICES ASSUME OneThread, TypeInv, AccountInv, SettingInv, [Next]_vars PROVE SettingInv'
  OBVIOUS
<1> USE LabelSets
<1>1. ASSUME NEW t \in Threads, Begin(t) PROVE SettingInv'
  <2>1. /\ pc[t] \in Begins /\ Goto(t, TxOf[pc[t]]) /\ TxOf[pc[t]] \in Labels
        /\ UNCHANGED <<state, mem, arg>>
    BY <1>1, TxOfLabel DEF Begin, database, locals
  <2>2. CASE pc[t] = "device"
    BY <2>1, <2>2, TxOfLabel DEF OneThread, TypeInv, TypeOK, Goto, SettingInv
  <2>3. CASE pc[t] # "device"
    <3>1. TxOf[pc[t]] \notin {"device", "device_tx", "device_answer", "account_answer"}
      BY <2>1, <2>3, TxOfLabel
    <3> QED BY <2>1, <3>1, SettingElsewhere
  <2> QED BY <2>2, <2>3
<1>2. ASSUME NEW t \in Threads, DeviceFound(t) PROVE SettingInv'
  BY <1>2 DEF DeviceFound, OneThread, SettingInv, Goto, locals, TypeInv, TypeOK, Settings
<1>3. ASSUME NEW t \in Threads, DeviceCommit(t) PROVE SettingInv'
  <2>1. mem.device = arg[t] /\ state'.device = arg[t]
    BY <1>3, WriteDevice DEF DeviceCommit, In, At, SettingInv
  <2> QED BY <1>3, <2>1 DEF DeviceCommit, OneThread, SettingInv, Goto, locals, TypeInv, TypeOK
<1>4. ASSUME NEW t \in Threads, AccountCommit(t) PROVE SettingInv'
  <2>1. mem.account = arg[t] /\ state'.account = arg[t]
    BY <1>4, WriteAccount DEF AccountCommit, In, At, AccountInv
  <2> QED BY <1>4, <2>1 DEF AccountCommit, OneThread, SettingInv, Goto, locals, TypeInv, TypeOK
<1>5. ASSUME NEW t \in Threads, Receive(t) PROVE SettingInv'
  BY <1>5, SettingElsewhere DEF Receive
<1>6. ASSUME NEW t \in Threads,
             \/ TokenMissing(t) \/ TokenRead(t) \/ Refreshed(t) \/ TokenReread(t)
             \/ StoreCommit(t) \/ TxFails(t) \/ BeginRefused(t) \/ RequestFails(t)
             \/ TrackFound(t) \/ TrackQueued(t) \/ AccountSelect(t)
      PROVE  SettingInv'
  <2>1. PICK l \in Labels \ {"device", "device_tx", "device_answer", "account_answer"} :
          Goto(t, l)
    BY <1>6 DEF TokenMissing, TokenRead, Refreshed, TokenReread, StoreCommit, TxFails,
                BeginRefused, RequestFails, TrackFound, TrackQueued, AccountSelect, Thrown, End
  <2> QED BY <2>1, SettingElsewhere
<1>7. ASSUME NEW t \in Threads,
             \/ Embed(t) \/ Shown(t) \/ DeviceNotFound(t) \/ DeviceAnswer(t)
             \/ AccountsListed(t) \/ AccountRefused(t) \/ AccountAnswer(t)
             \/ SqlRefused(t) \/ SqlExec(t) \/ SqlCommit(t)
      PROVE  SettingInv'
  <2>1. Goto(t, "idle") \/ Goto(t, "sql_commit")
    BY <1>7 DEF Embed, Shown, DeviceNotFound, DeviceAnswer, AccountsListed, AccountRefused,
                AccountAnswer, SqlRefused, SqlExec, SqlCommit, Thrown, End
  <2> QED BY <2>1, SettingElsewhere
<1>8. CASE Restart
  BY <1>8 DEF Restart, SettingInv
<1>9. CASE ConnBreaks \/ Expire \/ Finished \/ UNCHANGED vars
  BY <1>9 DEF ConnBreaks, Expire, Finished, vars, database, locals, SettingInv
<1> QED BY <1>1, <1>2, <1>3, <1>4, <1>5, <1>6, <1>7, <1>8, <1>9
        DEF Next, Step, TokenStep, HandlerStep

\* Success is answered to an account or device command by its last step alone.
LEMMA AnswerStep ==
  ASSUME TypeInv, KindInv, [Next]_vars, NEW u \in Threads, NEW k \in {"account", "device"},
         Answered(u, k)
  PROVE  /\ UNCHANGED <<state, mem>>
         /\ pc[u] = IF k = "account" THEN "account_answer" ELSE "device_answer"
<1> DEFINE Goal ==
      /\ UNCHANGED <<state, mem>>
      /\ pc[u] = IF k = "account" THEN "account_answer" ELSE "device_answer"
<1>1. ASSUME NEW t \in Threads, NEW words, End(t, words), words # {"success"} PROVE FALSE
  BY <1>1 DEF End, Answered, TypeInv, TypeOK
<1>2. ASSUME NEW t \in Threads, End(t, {"success"}) PROVE u = t
  BY <1>2 DEF End, Answered, TypeInv, TypeOK
<1>3. ASSUME NEW t \in Threads, Thrown(t) PROVE FALSE
  BY <1>1, <1>3 DEF Thrown
<1>4. ASSUME NEW t \in Threads, AccountAnswer(t) \/ DeviceAnswer(t) PROVE Goal
  BY <1>2, <1>4 DEF AccountAnswer, DeviceAnswer, At, database, Answered, KindInv
<1>5. ASSUME NEW t \in Threads, Embed(t) PROVE Goal
  <2>1. End(t, {"success"}) /\ pc[t] = "embed"
    BY <1>3, <1>5 DEF Embed, At
  <2> QED BY <1>2, <2>1 DEF Answered, KindInv
<1>6. ASSUME NEW t \in Threads, Shown(t) \/ AccountsListed(t) PROVE Goal
  BY <1>2, <1>6 DEF Shown, AccountsListed, In, At, Answered, KindInv
<1>7. ASSUME NEW t \in Threads, SqlExec(t) PROVE Goal
  <2>1. u = t
    BY <1>7 DEF SqlExec, Answered, TypeInv, TypeOK
  <2> QED BY <1>7, <2>1 DEF SqlExec, In, At, Answered, KindInv
<1>8. ASSUME NEW t \in Threads, BeginRefused(t) \/ TokenMissing(t) \/ RequestFails(t) PROVE Goal
  BY <1>3, <1>8 DEF BeginRefused, TokenMissing, RequestFails
<1>9. ASSUME NEW t \in Threads, DeviceNotFound(t) \/ AccountRefused(t) \/ SqlRefused(t) PROVE Goal
  BY <1>1, <1>9 DEF DeviceNotFound, AccountRefused, SqlRefused
<1>10. ASSUME NEW t \in Threads, TxFails(t) PROVE Goal
  BY <1>1, <1>10 DEF TxFails
<1>11. ASSUME NEW t \in Threads, Receive(t) PROVE Goal
  BY <1>11 DEF Receive, Answered, TypeInv, TypeOK
<1>12. ASSUME UNCHANGED said PROVE Goal
  BY <1>12 DEF Answered
<1>13. ASSUME NEW t \in Threads,
              \/ Begin(t) \/ TokenRead(t) \/ Refreshed(t) \/ StoreCommit(t) \/ TokenReread(t)
              \/ TrackFound(t) \/ TrackQueued(t) \/ DeviceFound(t) \/ DeviceCommit(t)
              \/ AccountSelect(t) \/ AccountCommit(t) \/ SqlCommit(t)
       PROVE  UNCHANGED said
  BY <1>13 DEF Begin, TokenRead, Refreshed, StoreCommit, TokenReread, TrackFound, TrackQueued,
               DeviceFound, DeviceCommit, AccountSelect, AccountCommit, SqlCommit
<1>14. CASE Restart
  BY <1>14 DEF Restart, Answered
<1>15. CASE ConnBreaks \/ Expire \/ Finished \/ UNCHANGED vars
  BY <1>12, <1>15 DEF ConnBreaks, Expire, Finished, vars
<1> QED BY <1>4, <1>5, <1>6, <1>7, <1>8, <1>9, <1>10, <1>11, <1>12, <1>13, <1>14, <1>15
        DEF Next, Step, TokenStep, HandlerStep

\* With one thread "Updated default account." is true when it is said, of memory
\* and of the table, whatever statement, commit or connection failed before.
THEOREM AccountAnswersTrue == OneThread /\ Spec => AccountAnswerTrue
<1> SUFFICES ASSUME OneThread PROVE Spec => AccountAnswerTrue
  OBVIOUS
<1>1. TypeInv /\ KindInv /\ SettingInv /\ [Next]_vars =>
        [\A t \in Threads : Answered(t, "account") =>
           mem'.account = arg[t] /\ state'.account = arg[t]]_vars
  BY AnswerStep DEF SettingInv
<1>2. TypeInv /\ AccountInv /\ SettingInv /\ [Next]_vars => SettingInv'
  BY SettingStep
<1> QED BY <1>1, <1>2, SettingInit, AccountInit, AccountStep, TypeAlways, QueueAlways, PTL
        DEF Spec, AccountAnswerTrue

\* With one thread "Changed default spotify device" is true when it is said.
THEOREM DeviceAnswersTrue == OneThread /\ Spec => DeviceAnswerTrue
<1> SUFFICES ASSUME OneThread PROVE Spec => DeviceAnswerTrue
  OBVIOUS
<1>1. TypeInv /\ KindInv /\ SettingInv /\ [Next]_vars =>
        [\A t \in Threads : Answered(t, "device") =>
           mem'.device = arg[t] /\ state'.device = arg[t]]_vars
  BY AnswerStep DEF SettingInv
<1>2. TypeInv /\ AccountInv /\ SettingInv /\ [Next]_vars => SettingInv'
  BY SettingStep
<1> QED BY <1>1, <1>2, SettingInit, AccountInit, AccountStep, TypeAlways, QueueAlways, PTL
        DEF Spec, DeviceAnswerTrue

=============================================================================
