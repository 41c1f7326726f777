------------------------------ MODULE Spotify ------------------------------
(***************************************************************************)
(* The spotify module of 142bot (modules/spotify/spotify.cpp), which keeps *)
(* two settings both in memory and in the table bot_state, and the access  *)
(* tokens of the accounts in the table spotify.  Handlers run on the       *)
(* Threads of D++ and share one pqxx connection, Bot::conn, with the sudo  *)
(* sql command of the module manager (mmanager.cpp).                       *)
(*                                                                         *)
(* A pqxx::work is begun, used and committed at labels of pc of its own,   *)
(* because the HTTP requests and the other threads come in between.  The   *)
(* connection refuses a second transaction, commits an already committed   *)
(* one silently and is never opened again once it broke; a statement or a  *)
(* commit may fail while it is alive, too.  A step on the connection is    *)
(* atomic here: the code guards it by no mutex.                            *)
(***************************************************************************)
EXTENDS Naturals

CONSTANTS
  Threads,         \* threads that run handlers
  Free,            \* the connection has no transaction
  Broken,          \* the connection is lost
  Accounts,        \* ids a row of the table spotify can have
  DefaultAccount,  \* "1"
  NoAccount,       \* "", and the missing row of bot_state
  Devices,         \* device ids of Spotify
  NoDevice,        \* "", and the missing row of bot_state
  Bogus,           \* an argument that names nothing, a statement with an error
  Kinds,           \* what users and the owner send
  MayBreak,        \* whether the connection can be lost
  MayFail,         \* whether statements and commits fail on a live connection
  MaxMessages,     \* bound: messages handled
  MaxRestarts      \* bound: restarts of the process

AllKinds == {"link", "accounts", "account", "devices", "device", "status", "sql"}

ASSUME SpotifyAssumption ==
  /\ {Free, Broken} \cap Threads = {} /\ Free # Broken
  /\ DefaultAccount \in Accounts
  /\ NoAccount \notin Accounts /\ NoDevice \notin Devices
  /\ Bogus \notin Accounts \cup Devices
  /\ Kinds \subseteq AllKinds
  /\ MayBreak \in BOOLEAN /\ MayFail \in BOOLEAN
  /\ MaxMessages \in Nat /\ MaxRestarts \in Nat

VARIABLES
  conn,      \* Bot::conn: Free, the thread whose transaction it has, or Broken
  state,     \* table bot_state: the two settings
  spotify,   \* table spotify: the ids of its rows
  token,     \* per row, the account its access token gives access to
  expired,   \* rows whose token has expired
  mem,       \* defaultSpotifyAccount and spotifyDefaultDevice of the object
  pc,        \* where each thread is
  kind,      \* the message it handles, or handled last
  arg,       \* params[2], or the row a statement inserts or deletes
  route,     \* which of a link's two requests it makes
  tok,       \* the account its token in hand gives access to
  queued,    \* tracks its message has put into the queue
  said,      \* the answers its message has been given
  messages,  \* messages handled so far
  restarts   \* restarts so far

database == <<state, spotify, token, expired>>
locals   == <<kind, arg, route, tok, queued>>
counters == <<messages, restarts>>
vars     == <<conn, database, mem, pc, locals, said, counters>>

Settings == [account : Accounts \cup {NoAccount}, device : Devices \cup {NoDevice}]

\* A label before a pqxx::work, and the label inside it.
TxOf ==
  [token |-> "token_tx", store |-> "store_tx", reselect |-> "reselect_tx",
   accounts |-> "accounts_tx", account |-> "account_tx", device |-> "device_tx",
   sql |-> "sql_tx"]

Begins   == DOMAIN TxOf
TxLabels == {TxOf[b] : b \in Begins} \cup {"account_commit", "sql_commit"}
Labels   == {"idle", "refresh", "request", "embed", "account_answer", "device_answer"}
            \cup Begins \cup TxLabels

TypeOK ==
  /\ conn \in Threads \cup {Free, Broken}
  /\ state \in Settings /\ mem \in Settings
  /\ spotify \subseteq Accounts /\ expired \subseteq Accounts
  /\ token \in [Accounts -> Accounts]
  /\ pc \in [Threads -> Labels]
  /\ kind \in [Threads -> AllKinds \cup {"none"}]
  /\ arg \in [Threads -> Accounts \cup Devices \cup {Bogus}]
  /\ route \in [Threads -> {"get", "post"}]
  /\ tok \in [Threads -> Accounts \cup {NoAccount}]
  /\ queued \in [Threads -> Nat]
  /\ said \in [Threads -> SUBSET {"success", "error"}]
  /\ messages \in Nat /\ restarts \in Nat

-----------------------------------------------------------------------------
(* Helpers *)

\* The constructor writes "1" where bot_state has no default account.
Created(s) == IF s.account = NoAccount THEN [s EXCEPT !.account = DefaultAccount] ELSE s

At(t, label)   == pc[t] = label
Goto(t, label) == pc' = [pc EXCEPT ![t] = label]

\* At label, with its transaction alive.
In(t, label) == At(t, label) /\ conn = t

\* The handler of t is over, after the answers in words.
End(t, words) ==
  /\ Goto(t, "idle")
  /\ said' = [said EXCEPT ![t] = @ \cup words]

\* Mutant of Thrown: no catch in OnMessage.
ThrownSilently(t) == End(t, {})

\* An exception leaves get_spotify_token, spotify_get, spotify_post or a
\* handler: OnMessage catches it and answers, OnCommand lets FOREACH_MOD log it.
Thrown(t) == End(t, IF kind[t] = "link" THEN {"error"} ELSE {})

-----------------------------------------------------------------------------
(* A message arrives; the connection; the process *)

\* OnMessage with a track link, OnCommand with a subcommand, or sudo sql.  A
\* third word that is missing is read past the end of params: Bogus or a
\* Restart is what follows.
Receive(t) ==
  /\ At(t, "idle")
  /\ messages < MaxMessages
  /\ messages' = messages + 1
  /\ \E k \in Kinds :
       /\ kind' = [kind EXCEPT ![t] = k]
       /\ \E x \in CASE k \in {"account", "sql"} -> Accounts \cup {Bogus}
                     [] k = "device" -> Devices \cup {Bogus}
                     [] OTHER -> {Bogus} :
            arg' = [arg EXCEPT ![t] = x]
       /\ Goto(t, IF k \in {"accounts", "account", "sql"} THEN k ELSE "token")
  /\ route' = [route EXCEPT ![t] = "get"]
  /\ tok' = [tok EXCEPT ![t] = NoAccount]
  /\ queued' = [queued EXCEPT ![t] = 0]
  /\ said' = [said EXCEPT ![t] = {}]
  /\ UNCHANGED <<conn, database, mem, restarts>>

\* Mutant of Begin: a transaction is begun whatever the connection does.
BeginAnyway(t) ==
  /\ pc[t] \in Begins
  /\ conn # Broken
  /\ conn' = t
  /\ Goto(t, TxOf[pc[t]])
  /\ UNCHANGED <<database, mem, locals, said, counters>>

\* pqxx::work tx(bot->conn)
Begin(t) ==
  /\ pc[t] \in Begins
  /\ conn = Free
  /\ conn' = t
  /\ Goto(t, TxOf[pc[t]])
  /\ UNCHANGED <<database, mem, locals, said, counters>>

\* Another transaction is active, or the connection is lost: the constructor
\* of pqxx::work throws, outside of any try but OnMessage's.
BeginRefused(t) ==
  /\ pc[t] \in Begins
  /\ conn # Free
  /\ Thrown(t)
  /\ UNCHANGED <<conn, database, mem, locals, counters>>

ConnBreaks ==
  /\ MayBreak
  /\ conn # Broken
  /\ conn' = Broken
  /\ UNCHANGED <<database, mem, pc, locals, said, counters>>

\* The process ends, in any way, and starts again: a new connection, and the
\* constructor reads the settings.  What was not committed is gone.
Restart ==
  /\ restarts < MaxRestarts
  /\ restarts' = restarts + 1
  /\ conn' = Free
  /\ mem' = state
  /\ state' = Created(state)
  /\ pc' = [t \in Threads |-> "idle"]
  /\ kind' = [t \in Threads |-> "none"]
  /\ said' = [t \in Threads |-> {}]
  /\ UNCHANGED <<spotify, token, expired, arg, route, tok, queued, messages>>

\* Time passes.
Expire ==
  /\ \E a \in spotify \ expired : expired' = expired \cup {a}
  /\ UNCHANGED <<conn, state, spotify, token, mem, pc, locals, said, counters>>

-----------------------------------------------------------------------------
(* What the transactions write *)

\* Mutant of Store: the token goes into every row.
StoreAll(t) ==
  /\ token' = [a \in Accounts |-> tok[t]]
  /\ expired' = expired \ {mem.account}
  /\ UNCHANGED <<state, spotify>>

\* UPDATE spotify ... WHERE id = defaultSpotifyAccount, as it is by now.
Store(t) ==
  /\ IF mem.account \in spotify
     THEN /\ token' = [token EXCEPT ![mem.account] = tok[t]]
          /\ expired' = expired \ {mem.account}
     ELSE UNCHANGED <<token, expired>>
  /\ UNCHANGED <<state, spotify>>

StoreAccount(t) ==
  /\ state' = [state EXCEPT !.account = arg[t]]
  /\ UNCHANGED <<spotify, token, expired>>

StoreDevice(t) ==
  /\ state' = [state EXCEPT !.device = arg[t]]
  /\ UNCHANGED <<spotify, token, expired>>

\* The owner's statement inserts the row of arg, with its own fresh token, or
\* deletes it; a statement that writes bot_state is left out.
StoreRow(t) ==
  /\ IF arg[t] \in spotify
     THEN spotify' = spotify \ {arg[t]} /\ UNCHANGED token
     ELSE spotify' = spotify \cup {arg[t]} /\ token' = [token EXCEPT ![arg[t]] = arg[t]]
  /\ expired' = expired \ {arg[t]}
  /\ UNCHANGED state

Write(t) ==
  \/ At(t, "store_tx") /\ Store(t)
  \/ At(t, "account_commit") /\ StoreAccount(t)
  \/ At(t, "device_tx") /\ StoreDevice(t)
  \/ At(t, "sql_commit") /\ StoreRow(t)

\* A statement or the commit throws: the server refuses it and rolls back, or
\* the connection is lost and the server may have committed.  What the handler
\* did to memory stays.  Only the account and sql handlers, and OnMessage, catch
\* it and answer.
TxFails(t) ==
  /\ pc[t] \in TxLabels
  /\ \/ conn = Broken /\ UNCHANGED conn /\ (Write(t) \/ UNCHANGED database)
     \/ MayFail /\ conn = t /\ conn' = Free /\ UNCHANGED database
  /\ End(t, IF kind[t] \in {"link", "account", "sql"} THEN {"error"} ELSE {})
  /\ UNCHANGED <<mem, locals, counters>>

-----------------------------------------------------------------------------
(* get_spotify_token and refreshSpotify *)

\* No such row: tx.abort, and the null std::string throws.  Or the refresh's
\* answer holds no access token, which is looked up inside the transaction.
TokenMissing(t) ==
  /\ \/ In(t, "store_tx")
     \/ (In(t, "token_tx") \/ In(t, "reselect_tx")) /\ mem.account \notin spotify
  /\ conn' = Free
  /\ Thrown(t)
  /\ UNCHANGED <<database, mem, locals, counters>>

\* The row's token, unless it has expired; then its refresh token, which no
\* code ever changes and so is the account's own.
TokenRead(t) ==
  /\ In(t, "token_tx")
  /\ mem.account \in spotify
  /\ conn' = Free
  /\ IF mem.account \in expired
     THEN tok' = [tok EXCEPT ![t] = mem.account] /\ Goto(t, "refresh")
     ELSE tok' = [tok EXCEPT ![t] = token[mem.account]] /\ Goto(t, "request")
  /\ UNCHANGED <<database, mem, kind, arg, route, queued, said, counters>>

\* The POST to accounts.spotify.com gave an access token.
Refreshed(t) ==
  /\ At(t, "refresh")
  /\ Goto(t, "store")
  /\ UNCHANGED <<conn, database, mem, locals, said, counters>>

StoreCommit(t) ==
  /\ In(t, "store_tx")
  /\ Write(t)
  /\ conn' = Free
  /\ Goto(t, "reselect")
  /\ UNCHANGED <<mem, locals, said, counters>>

TokenReread(t) ==
  /\ In(t, "reselect_tx")
  /\ mem.account \in spotify
  /\ conn' = Free
  /\ tok' = [tok EXCEPT ![t] = token[mem.account]]
  /\ Goto(t, "request")
  /\ UNCHANGED <<database, mem, kind, arg, route, queued, said, counters>>

-----------------------------------------------------------------------------
(* The requests, and what the handlers do with their answers *)

\* A status code other than the expected one, or JSON that does not parse.
\* The track may be in the queue all the same.
RequestFails(t) ==
  /\ pc[t] \in {"refresh", "request"}
  /\ \/ UNCHANGED queued
     \/ /\ At(t, "request")
        /\ route[t] = "post"
        /\ queued' = [queued EXCEPT ![t] = @ + 1]
  /\ Thrown(t)
  /\ UNCHANGED <<conn, database, mem, kind, arg, route, tok, counters>>

\* OnMessage: the track exists; next the POST, with a token of its own.
TrackFound(t) ==
  /\ At(t, "request")
  /\ kind[t] = "link" /\ route[t] = "get"
  /\ route' = [route EXCEPT ![t] = "post"]
  /\ tok' = [tok EXCEPT ![t] = NoAccount]
  /\ Goto(t, "token")
  /\ UNCHANGED <<conn, database, mem, kind, arg, queued, said, counters>>

\* Mutant of TrackQueued: once more with the same token.
TrackQueuedTwice(t) ==
  /\ At(t, "request")
  /\ kind[t] = "link" /\ route[t] = "post"
  /\ queued' = [queued EXCEPT ![t] = @ + 1]
  /\ Goto(t, IF queued[t] = 0 THEN "request" ELSE "embed")
  /\ UNCHANGED <<conn, database, mem, kind, arg, route, tok, said, counters>>

TrackQueued(t) ==
  /\ At(t, "request")
  /\ kind[t] = "link" /\ route[t] = "post"
  /\ queued' = [queued EXCEPT ![t] = @ + 1]
  /\ Goto(t, "embed")
  /\ UNCHANGED <<conn, database, mem, kind, arg, route, tok, said, counters>>

\* The embed is built from the track's JSON, which may lack what it needs.
Embed(t) ==
  /\ At(t, "embed")
  /\ End(t, {"success"}) \/ Thrown(t)
  /\ UNCHANGED <<conn, database, mem, locals, counters>>

\* devices and status show what they got.
Shown(t) ==
  /\ At(t, "request")
  /\ kind[t] \in {"devices", "status"}
  /\ End(t, {"success"})
  /\ UNCHANGED <<conn, database, mem, locals, counters>>

\* Mutant of DeviceFound: the member is forgotten.
DeviceFoundOnly(t) ==
  /\ At(t, "request")
  /\ kind[t] = "device"
  /\ arg[t] \in Devices
  /\ Goto(t, "device")
  /\ UNCHANGED <<conn, database, mem, locals, said, counters>>

\* device: the id is in the list; memory first, the table afterwards.
DeviceFound(t) ==
  /\ At(t, "request")
  /\ kind[t] = "device"
  /\ arg[t] \in Devices
  /\ mem' = [mem EXCEPT !.device = arg[t]]
  /\ Goto(t, "device")
  /\ UNCHANGED <<conn, database, locals, said, counters>>

DeviceNotFound(t) ==
  /\ At(t, "request")
  /\ kind[t] = "device"
  /\ End(t, {"error"})
  /\ UNCHANGED <<conn, database, mem, locals, counters>>

DeviceCommit(t) ==
  /\ In(t, "device_tx")
  /\ Write(t)
  /\ conn' = Free
  /\ Goto(t, "device_answer")
  /\ UNCHANGED <<mem, locals, said, counters>>

\* "Changed default spotify device"
DeviceAnswer(t) ==
  /\ At(t, "device_answer")
  /\ End(t, {"success"})
  /\ UNCHANGED <<conn, database, mem, locals, counters>>

\* accounts: one SELECT.
AccountsListed(t) ==
  /\ In(t, "accounts_tx")
  /\ conn' = Free
  /\ End(t, {"success"})
  /\ UNCHANGED <<database, mem, locals, counters>>

AccountRefused(t) ==
  /\ In(t, "account_tx")
  /\ arg[t] \notin spotify
  /\ conn' = Free
  /\ End(t, {"error"})
  /\ UNCHANGED <<database, mem, locals, counters>>

\* Mutant of AccountSelect: exec_params instead of exec_params1, any number of
\* rows will do.
AccountSelectAny(t) ==
  /\ In(t, "account_tx")
  /\ mem' = [mem EXCEPT !.account = arg[t]]
  /\ Goto(t, "account_commit")
  /\ UNCHANGED <<conn, database, locals, said, counters>>

\* account: the row exists; memory is set inside the transaction.
AccountSelect(t) ==
  /\ In(t, "account_tx")
  /\ arg[t] \in spotify
  /\ mem' = [mem EXCEPT !.account = arg[t]]
  /\ Goto(t, "account_commit")
  /\ UNCHANGED <<conn, database, locals, said, counters>>

\* Mutant of AccountCommit: no tx.commit, so the work rolls back.
AccountNoCommit(t) ==
  /\ In(t, "account_commit")
  /\ conn' = Free
  /\ Goto(t, "account_answer")
  /\ UNCHANGED <<database, mem, locals, said, counters>>

AccountCommit(t) ==
  /\ In(t, "account_commit")
  /\ Write(t)
  /\ conn' = Free
  /\ Goto(t, "account_answer")
  /\ UNCHANGED <<mem, locals, said, counters>>

\* "Updated default account.": the connection is free again by now.
AccountAnswer(t) ==
  /\ At(t, "account_answer")
  /\ End(t, {"success"})
  /\ UNCHANGED <<conn, database, mem, locals, counters>>

\* sql: a statement that fails is answered and rolled back.
SqlRefused(t) ==
  /\ In(t, "sql_tx")
  /\ arg[t] = Bogus
  /\ conn' = Free
  /\ End(t, {"error"})
  /\ UNCHANGED <<database, mem, locals, counters>>

\* sql: the answer is sent before the commit.
SqlExec(t) ==
  /\ In(t, "sql_tx")
  /\ arg[t] # Bogus
  /\ said' = [said EXCEPT ![t] = @ \cup {"success"}]
  /\ Goto(t, "sql_commit")
  /\ UNCHANGED <<conn, database, mem, locals, counters>>

SqlCommit(t) ==
  /\ In(t, "sql_commit")
  /\ Write(t)
  /\ conn' = Free
  /\ Goto(t, "idle")
  /\ UNCHANGED <<mem, locals, said, counters>>

\* The bounds are used up.
Finished ==
  /\ messages = MaxMessages
  /\ \A t \in Threads : At(t, "idle")
  /\ UNCHANGED vars

-----------------------------------------------------------------------------

Init ==
  /\ conn = Free
  /\ mem \in Settings
  /\ state = Created(mem)
  /\ spotify \in SUBSET Accounts
  /\ token = [a \in Accounts |-> a]
  /\ expired = {}
  /\ pc = [t \in Threads |-> "idle"]
  /\ kind = [t \in Threads |-> "none"]
  /\ arg = [t \in Threads |-> Bogus]
  /\ route = [t \in Threads |-> "get"]
  /\ tok = [t \in Threads |-> NoAccount]
  /\ queued = [t \in Threads |-> 0]
  /\ said = [t \in Threads |-> {}]
  /\ messages = 0 /\ restarts = 0

TokenStep(t) ==
  \/ TokenMissing(t) \/ TokenRead(t) \/ Refreshed(t) \/ StoreCommit(t) \/ TokenReread(t)

HandlerStep(t) ==
  \/ RequestFails(t) \/ TrackFound(t) \/ TrackQueued(t) \/ Embed(t) \/ Shown(t)
  \/ DeviceFound(t) \/ DeviceNotFound(t) \/ DeviceCommit(t) \/ DeviceAnswer(t)
  \/ AccountsListed(t) \/ AccountRefused(t) \/ AccountSelect(t) \/ AccountCommit(t)
  \/ AccountAnswer(t)
  \/ SqlRefused(t) \/ SqlExec(t) \/ SqlCommit(t)

Step(t) == Begin(t) \/ BeginRefused(t) \/ TxFails(t) \/ TokenStep(t) \/ HandlerStep(t)

Next ==
  \/ \E t \in Threads : Receive(t) \/ Step(t)
  \/ ConnBreaks \/ Restart \/ Expire
  \/ Finished

Spec == Init /\ [][Next]_vars

\* Threads run, and Spotify and the database answer or fail.
FairSpec == Spec /\ \A t \in Threads : WF_vars(Step(t))

-----------------------------------------------------------------------------
(* Properties that hold for any number of threads *)

\* A thread is inside a pqxx::work exactly when the connection is its own: two
\* never share it, and no path out of a handler leaves a transaction behind,
\* after which every later one would be refused.
TxExclusive ==
  \A t \in Threads :
    /\ conn = t => pc[t] \in TxLabels
    /\ pc[t] \in TxLabels => conn \in {t, Broken}

\* However account commands overlap and fail, the default account in bot_state
\* only ever changes to the one memory has, and to one that has a row: the table
\* is never ahead of memory, and a success mends what a failure left apart.
AccountStored ==
  [][state'.account # state.account =>
       mem'.account = state'.account /\ state'.account \in spotify']_vars

\* "Added to the queue!" is said of a track that is in the queue exactly once,
\* and no message ever queues its track twice.
AddedOnce ==
  \A t \in Threads :
    /\ queued[t] <= 1
    /\ kind[t] = "link" /\ "success" \in said[t] => queued[t] = 1

\* A link is always answered, with an embed or an error, whatever fails and
\* whoever has the connection; only a restart leaves it unanswered.
LinkAnswered ==
  \A t \in Threads :
    pc[t] # "idle" /\ kind[t] = "link"
      ~> pc[t] = "idle" /\ (said[t] # {} \/ kind[t] # "link")

-----------------------------------------------------------------------------
(* Properties that hold when one thread runs every handler *)

\* Every row keeps a token of its own account.
RowsOwn == \A a \in spotify : token[a] = a

Answered(t, command) ==
  kind[t] = command /\ said[t] = {} /\ said'[t] = {"success"}

\* "Updated default account." is true when it is said, of memory and of the
\* table, whatever failed before: a refused begin, a statement, a commit, the
\* connection or the process.
AccountAnswerTrue ==
  [][\A t \in Threads : Answered(t, "account") =>
       mem'.account = arg[t] /\ state'.account = arg[t]]_vars

\* The same of "Changed default spotify device".
DeviceAnswerTrue ==
  [][\A t \in Threads : Answered(t, "device") =>
       mem'.device = arg[t] /\ state'.device = arg[t]]_vars

-----------------------------------------------------------------------------
(* What comments and answers of the code claim and the code does not do *)

\* spotify.cpp:97 "Obtains the (refreshed) token for the default spotify
\* account": the token found in the row of the default account is that account's.
TokenOfDefault ==
  [][\A t \in Threads :
       In(t, "token_tx") /\ pc'[t] = "request" => tok'[t] = mem.account]_vars

\* spotify.cpp:47 "Couldn't find default_spotify_account in state, creating":
\* with the default created, its row is used whenever it exists.
CreatedDefaultUsed ==
  [][\A t \in Threads :
       In(t, "token_tx") /\ pc'[t] = "idle" => state.account \notin spotify]_vars

\* spotify.cpp:262 "Invalid ID": an id that was refused as invalid is not made
\* the default; what is answered so leaves memory with the table's account.
InvalidRefused ==
  [][\A t \in Threads :
       kind[t] = "account" /\ "error" \in said'[t] \ said[t] =>
         mem'.account \in {NoAccount, state'.account}]_vars

=============================================================================
