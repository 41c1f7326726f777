# Formal models of 142bot

142bot is a Discord bot in C++ (D++): a small core that loads its features at
run time as shared objects and calls them for every event, one PostgreSQL
connection, and six modules. This directory holds TLA+ models of it, the TLC
runs that check them on small instances, and proofs checked by TLAPS.

## 1. The system

| part | source | state | operations | talks to |
|---|---|---|---|---|
| module loader | `src/modules.cpp`, `modules.hpp` | `Modules`, `mod_map`, `EventHandlers`, `mtx`, dlopen handles | `load_all`, `load`, `unload`, `reload`, `attach`, `get_loaded_modules` | module objects (constructor calls `attach`), the dynamic linker |
| event dispatch | `FOREACH_MOD` in `modules.hpp`, `Bot::on*` in `bot.cpp` | the copied `list_to_call` of each thread | copy under the mutex, call every module without it, stop at the first `false` | loader, modules |
| module manager | `modules/mmanager` | the object captured by ping's callback | `sudo modules, load, unload, reload, ping, restart, sql` | loader, REST callbacks, database |
| spotify | `modules/spotify` | two cached settings; tables `spotify`, `bot_state` | track links; `accounts`, `account`, `devices`, `device`, `status`; token refresh | Spotify's HTTP API, database |
| database connection | `db.cpp`, `Bot::conn` | one `pqxx::connection`, the active transaction | `pqxx::work`, `commit`, `abort` | PostgreSQL |
| startup | `main.cpp`, `Bot::Bot`, `migrations/` | prepared statements, schema | connect, migrate, prepare, `load_all`, `bot.start` | everything above |
| message routing | `Bot::onMessage`, `util.cpp` | `Bot::user`, the text being cleaned | filter authors, replace mentions, strip the name, tokenise commands | dispatch |
| stoplight, mail, ldap, reactions | `modules/*` | a keyword map, an LDAP handle | one slash command each, or one reaction per keyword | HTTP, LDAP, Discord |
| timestamps | `db.cpp`, `db.hpp` | none; 32 bit seconds, microseconds | `parse`, `format`, `from_unix_time`, `to_http_ts_str`, SQL conversions | spotify's expiry times, HTTP headers |
| calendar | `date.h`, `iso_week.h` | none | days ↔ dates, weekdays, months, nth weekdays, ISO weeks, time of day | timestamps |

How they interact: `main` constructs `Bot`, which opens the connection, migrates
and runs `load_all`; only then are the callbacks bound and `bot.start` waits. From
then on D++ calls `Bot::on*` from its shard threads, and each handler runs in the
thread that received the event, including the handlers that load or unload
modules, make HTTP requests and use the database.

What is hard here, and what a test would hardly reach:

* **Lifetime.** `FOREACH_MOD` copies a list of raw pointers and calls them after
  it has released the mutex, while another thread's `sudo unload` deletes the
  objects and unmaps their code.
* **Re-entrance.** The loader is called from inside the dispatch it serves. If
  the mutex were still held anywhere on that path the bot would hang.
* **Half-finished steps.** A constructor may throw after it attached; memory is
  set before a commit that may fail; an answer is sent before the commit.
* **Sharing.** All threads use one connection, which allows one transaction.
* **Stale reads.** A token refresh reads the default account before and after an
  HTTP request; another command may change it in between.
* **Restarts.** The result of the migrations is ignored, their files come in no
  particular order, and the process may die between any two of them.
* **Edits in place.** Mentions are replaced at positions found in a lower case
  copy, one user after the other, by names that may look like mentions.
* **Turns of arithmetic.** Integer division rounds to zero and unsigned
  subtraction wraps, at eras, years, weeks, 1970 and 2038.

For each part, what makes it correct:

* loader: both maps agree and name live objects only; handler lists name exactly
  the loaded modules, once each; the code of a live object stays mapped; the
  mutex is free whenever no load or unload is in progress.
* dispatch: a copied list never shows half of a load or an unload; every event ends.
* spotify: the table's default account never gets ahead of memory's; an answer that a
  setting was changed is true of both; a row's token is its own account's; a track is
  queued once; every link is answered.
* connection: transactions neither overlap nor leak.
* startup: a bot that has loaded spotify has its schema and its statements, and begins
  to serve with one row for each setting; a migrated database gets its bot back after any
  outage.
* routing: a module sees every word of a command, and a text without blanks at
  the ends, without the bot's name in front and without raw mentions.
* slash commands: one reply from the module named, if it is in the list, wherever it
  stands there; what is said of the stop light is true.
* exceptions: a handler that throws keeps the event from no other module.
* timestamps and calendar: what is written is read back, agrees with counting
  days, and impossible times are refused.

## 2. The modules of this project

| module | what it is |
|---|---|
| `ModuleLoader` | loader, dispatch and the manager's sudo commands, as one concurrent system |
| `MCModuleLoader` | its instances for TLC |
| `ModuleLoaderProofs` | its inductive invariant and theorems, and the proof that it implements `Registry` |
| `Registry` | the abstract loader: atomic `load`, `unload`, `reload` by any number of clients |
| `Spotify` | the spotify module and `sudo sql` over the shared connection and the two tables |
| `MCSpotify` | its instances for TLC |
| `SpotifyProofs` | its inductive invariants and theorems |
| `Startup`, `MCStartup` | connection, migrations, statements and `load_all`, over outages and restarts |
| `StartupProofs` | its inductive invariant and theorems |
| `Text` | `util.cpp` and the tokeniser, with reference definitions |
| `Induction` | induction and recursive functions over data, for the proofs |
| `TextProofs` | what `ReplaceString`, `trim` and the tokeniser compute, for every text |
| `Handlers`, `MCHandlers` | one event after another in a shard thread: routing, dispatch, the small modules |
| `HandlersProofs` | the invariants of a message, of its cleaning and of a dispatch, and theorems about what modules get and answer |
| `Calendar` | `date.h`: dates, weekdays, months, times of day |
| `IsoWeek` | `iso_week.h`: ISO week dates |
| `Timestamps` | `db.cpp`, `db.hpp`: the bot's timestamps over `Calendar` |
| `CalendarWalk`, `MCCalendar` | a calendar that only counts, against which the three are compared |
| `CalendarProofs` | theorems about civil dates, weekdays, months, ISO weeks and orders |
| `TimestampProofs` | theorems about timestamps: what is written is what is read |

`Text` is part of `Handlers`; `Calendar`, `IsoWeek`, `Timestamps` and `CalendarWalk`
extend one another in this order, and so do the last and the two modules of its
proofs; `ModuleLoader` instantiates `Registry`; `HandlersProofs` rests on `TextProofs`, and that
and `TimestampProofs` on `Induction`.

### ModuleLoader

State and code: `Modules`, `mod_map`, `EventHandlers` and `mtx` are the members of
class `ModuleLoader`; `handles[f]` counts the open `dlopen` handles of a file;
`heap[a]` remembers which file's object was last made at address `a` and whether it
is live, deleted or the remains of a constructor that threw; `list_to_call`,
`event`, `self` are the locals of a dispatch and `op`, `file`, `mod` those of a sudo
command. `pc[t]` is a place where another thread can observe thread `t` or disturb
it.

| labels | actions | code |
|---|---|---|
| `load_all`, `wait` | `LoadAllNext`, `StartBot`, `BootThrows` | `Bot::Bot`, `load_all`, `main` |
| `load` → `init` → `publish` | `LoadRefused`, `LoadOpen`, `InitNoSymbol`, `InitNull`, `Construct`, `ConstructThrows`, `ConstructNoMemory`, `Publish` | `ModuleLoader::load`, `get_symbol`, the constructors' `attach` |
| `unload` → `erase` → `delete` → `close` | `UnloadRefused`, `UnloadDetach`, `UnloadErase`, `UnloadDelete`, `UnloadClose` | `unload`, `reload` |
| `idle` → `loop` ⇄ `body` → `recopy` | `Snapshot`, `Call`, `CallDead`, `Return`, `RecopyAndBreak`, `DispatchDone` | `FOREACH_MOD` |
| `body` → `listing`, `reply` | `SudoLoader`, `SudoPing`, `SudoRestart`, `ListingDone`, `Reply`, `RunDead`, `Pong` | `MManagerModule::OnMessage` |

Undefined behaviour is a choice. A read that races with a write (the second copy
of `EventHandlers`, the walk over `mod_map`) may crash the process or not
(`RaceWith`). A call through a dead object crashes or reaches the base class's
handler, whose table the destructor left behind (`CallDead`). The reference `mod`
that `unload` uses after it erased the map node may still read the old pointer,
null or a wild one (`StaleReads`); the handle beside it in the same node is taken to have fared alike, so a node
whose pointer is still right and whose handle is not is left out. An address is reused at any time after its
object died (`FreeAddr`), which is what makes the orphaned pointers of a throwing
constructor interesting.

### Spotify

`conn` is `Free`, the thread whose `pqxx::work` is active, or `Broken`. `mem` holds the
two members of the object, `state` the table `bot_state`; `spotify`, `token`, `expired`
are the rows of the table `spotify`, a token being represented by the account it
gives access to, which is all the properties need to tell apart. A message of
thread `t` goes through labels: before a `pqxx::work` (`token`, `store`, `reselect`,
`accounts`, `account`, `device`, `sql`), inside one (`…_tx`, `account_commit`,
`sql_commit`), at an HTTP request (`refresh`, `request`), and between a commit and the
answer that tells of it, when the connection is free for others (`account_answer`,
`device_answer`); `embed` is the end of a
link. `Begin` and `BeginRefused` are the constructor of `pqxx::work`. `TxFails` is every
statement or commit that throws: on a live connection the server refuses it and nothing
is written (`MayFail`), on one that broke the server may have committed all the same
(`MayBreak`); what the handler did to memory stays in both cases. `Thrown` is any other exception, which `OnMessage` answers
and `OnCommand` leaves to `FOREACH_MOD`. `Write` says what each transaction writes, in one
place, so that a commit and a commit on a lost connection write the same.

Named simplifications: `sudo sql` inserts or deletes a row of `spotify`, or is in
error (statements that select, or write `bot_state`, are left out); the reply
texts are `success` or `error`; an argument that is missing altogether, which the
code reads past the end of a vector, is `Bogus` or followed by `Restart`; two threads
that enter libpqxx at the same instant are not modelled below the granularity of
begin, statement and commit; the two string members, which threads read and write
without a lock (a data race), are written and read in one step each; `reload` of the module while another thread is in it
is `ModuleLoader`'s subject.

### Registry, and how ModuleLoader implements it

`Registry` has three variables: is the process up, which object each file is
loaded as, and what each client's call has still to do. A load takes effect in one
step (`Install`), or fails in one (`NotInstalled`); so does an unload; a reload is two
effects, between which other clients may act. `ModuleLoader!ImplementsRegistry`
maps `loaded` to the private map `Modules` and `call` to `PendingCall`: a thread's call
is pending from the label `load` or `unload` up to its write of `Modules`, which is
`Publish` or `UnloadErase`; everything before and after that write (opening the
library, running the constructor, attaching, detaching, deleting, closing) is a
stutter or the beginning of a call. So the many steps of the loader can be
reasoned about as one, for what `get_loaded_modules` and later calls see. What
dispatches see is not in `Registry`: handler lists change before the map does, and
`SnapshotLoaded`, `HandlersAccounted` and `HandlersComplete` are about that.

### Startup

`phase` is where `main` is: connecting, inside the migrations' transaction, about to
prepare, in `load_all`, serving, or down. `db` is the committed database (which of
the tables and the constraint exist; the rows of `bot_state`, per setting), `tx` the
view of the open transaction, `todo` the files `directory_iterator` has still to
yield; `modlist` and `loaded` are the modules `load_all` has still to load and has loaded.

| actions | code |
|---|---|
| `Boot`, `Connect`, `ConnectFails` | `main`, `Bot::Bot`, `db::connect` |
| `Migrate`, `MigrateFails`, `Commit`, `CommitFails` | `Bot::run_database_migrations`; `Applicable` and `Creates` are the SQL files |
| `Prepare`, `PrepareFails` | `Bot::create_queries` |
| `LoadFails`, `LoadOther`, `LoadSpotify`, `SpotifyThrows` | `load_all`, which goes on when `load` returns false; the database part of `SpotifyModule`'s constructor |
| `Start` | `main` binds the events, `bot.start` |
| `OwnerSets`, `OwnerDeletes`, `Outage`, `Kill` | `spotify account`, `sudo sql`; the world |

A commit on a connection that is lost may have reached the server or not.
`MigrateFails` goes on to `load_all`, as the code does: the constructor ignores the
`false`. Left out: the rows of the table `spotify` (`Spotify` has
them), the contents of `config.json`.

### Text and Handlers

A string is a sequence of characters, `Lower` and `Blanks` say what `tolower` and
`trim` do to them. `ReplaceString` is translated with its two strings and its
position: `Edited` is a round of its loop, `ReplaceFrom` the loop, a recursive function of
the three. It is compared with `Replaced`, one pass from the left. `Tokens` is the `do`
loop over the C string, and `Joined` what it should lead back to.

| phase | actions | code |
|---|---|---|
| `idle` | `MessageIgnored`, `MessageArrives`, `SlashArrives`, `Forward` | the beginning of `Bot::onMessage`; `onSlashCommand` and the other handlers |
| `mentions`, `name` | `ReplaceMention`, `MentionsDone`, `StripName`, `RouteMessage`, `RouteCommand` | `Bot::onMessage` |
| `OnMessage`, `OnCommand`, … | `CallMessage`, `CallCommand`, `CallDefault`, `React` | `FOREACH_MOD` in one thread; `Module`'s default handlers; `ReactionsModule::OnMessage` |
| `OnSlashCommand` | `StoplightTurns`, `StoplightFails`, `StoplightShots`, `MailAlert`, `MailThrows`, `LdapReplies`, `PassBy` | the modules' `OnSlashCommand` |
| `done` | `DispatchDone`, `Return` | the handler returns |

A dispatch copies any of the lists in `HandlerLists` (`Copies`): which modules are loaded, and in which
order they attached, changes while the bot runs (`ModuleLoader` says how), and `ldap`'s constructor
returns before `attach` when it has no server. `HandlerListsAssumption` asks only that a list has
modules whose constructors attach to that event, each once (`Attaching`). `list_to_call` is the copy, `queue` what is
left of it. `heard` records what each module was called with and how its handler ended
(`true`, `false` or an exception), `replies` and `reacted` what came of
it; `light` is the real stop light behind the HTTP request, which may have turned
although the answer was lost. `EvaluateCommand` is the side effect in the macro's
argument: `result[0].erase(0,1)` is evaluated for every module in the list. Of `spotify` and
`mmanager` a message sees only how they end, in one of the three ways. `Bot::user` is a constant:
`onReady` writes it again with the same value at every later ready event.

### Calendar, IsoWeek, Timestamps

These are pure functions, translated with their C++ arithmetic: `Quot` rounds to
zero, unsigned subtraction wraps at 2^32, `from_days` and `to_days` go through eras of
400 years, a weekday through an unsigned remainder. `Timestamps` has the bot's own
functions: `parse` reads "%F %T" from the front, `format` and `to_http_ts_str` write, and
`from_unix_time` cuts to 32 bits. Characters are kept where reading back depends on
them (`FourDigits`, separators) and nowhere else.

`CalendarWalk` is the state machine that checks them. It starts at a day whose
date and weekday are known and goes one day at a time, forward (`Tomorrow`) or back
(`Yesterday`), counting with the rule of leap years alone; in each state the
invariants compare every function with the count, with days, months and weeks at a
distance, and with the times of day in `Clocks`. `DayCount` is the same calendar as a
formula, 365 days a year and one for each leap year; the code's functions do not
use it. With it `KnownDaysAssumption` says of the days where walks start that they are days of
the calendar with their own number and weekday, and that what is compared lies in the
years -32000 to 32000 (`FirstYear`, `LastYear`): a year is a short in `date.h`, and a
day at its ends would compare with years that no short holds. `JumpsAssumption` keeps
the months that are added to 500 years for the same reason.

## 3. Runs

| run | question | instance | result |
|---|---|---|---|
| `safety` | is the loader's state consistent under all interleavings, and does it implement `Registry`? | 2 threads, 6 files (a manager, a module that may throw, one that may decline to attach, one without the symbol, one whose `init_module` returns null, one that does not exist), 3 addresses, 3 events, 3 sudo commands | holds |
| `live` | does every dispatch end? | 2 threads, 2 files, 2 commands, fairness | holds |
| `freed` | no call on a module that is gone | 2 threads, one unload | violated |
| `sp_shared` | are transactions exclusive, does the table's default account never get ahead of memory's, is a track queued once? | 2 threads, 2 accounts, 1 device, 3 messages (link, account, device, sql), 1 restart, failing statements and commits, lost connection | holds |
| `sp_answered` | is every link answered? | 2 threads, 2 messages, fairness | holds |
| `sp_single` | with one thread, is each token its row's own, and is it true that a setting was changed? | 1 thread, 2 devices, 4 messages, 2 restarts, failing statements and commits, lost connection | holds |
| `sp_race` | is the token the default account's? | 2 threads | violated |
| `sp_invalid` | is an account answered as invalid not made the default? | 1 thread, 2 messages, a commit that fails | violated |
| `sp_firstboot` | is the created default in use? | 1 thread | violated |
| `startup` | does every boot end in a bot that can serve, without losing a setting, and does it come back? | 2 settings, databases left by each earlier set of migrations, 3 outages, kills or deletions at any point, modules that do not load, fairness | holds |
| `handlers` | do modules get what was typed, is each event answered and over? | messages of up to 3 pieces with every list of mentions, 13 slash commands, every order of every set of the modules that have one, fairness | holds |
| `calendar` | does the arithmetic agree with counting days? | 720 days each way from 8 days | holds |

The violated runs are disagreements between the code and what its comments and
messages say; `PROJECT.json` quotes each of them under `findings`.

**Bounds, and why they are enough.** Two threads give every pairwise interleaving,
and no step of the code looks at more than one other thread's effect at a time
(the mutex and the connection have one owner). Three addresses let two modules be
loaded while a third one is freed and reused. Three sudo commands reach
load-fail, reuse and unload in a row, or two loaders at once beside a ping. Three
messages let an account change and a `sudo sql` fall into a token refresh;
`MaxRestarts` lets one or two process lifetimes follow the first. Commands,
messages and restarts are the only counters; the theorems of section 5 hold
without any of these bounds. Symmetry is used only in runs without liveness
properties.

In `startup` three faults are an outage, a kill during the boot that follows it and
a deletion by the owner, or three boots broken in a row; `MCDatabases` has the
databases that each of the three migrations can have been added to, with none,
one or two rows of a setting where no constraint forbids two. In `handlers` the
pieces are a prefix, a blank, a keyword in upper case, the bot's name in two cases
and mentions in both forms; three of them make mentions side by side, a name that
becomes the prefix of the text only after a mention is replaced, blanks in a row,
and a name (`oxo`) that holds a keyword; of the keywords one is in upper case, which can never be
found in the lower case text. Slash commands meet all 16 lists of `stoplight`, `mail` and `ldap`, with
any of them missing; messages meet four lists in which each module that may throw or return `false` stands first,
between and last. In `calendar`, 720 days hold, each way, at
least one end of a year and, around all of the eight days but the last, a leap day or
the end of February in a century year without one; the eight days are
those where the arithmetic turns: the end of an era in year 0, 1900, 2000 and 2100,
1970, the last seconds of 31 and 32 bits, and the last year of four digits.

**Fairness.** `FairSpec` of `ModuleLoader` gives weak fairness to the steps of each
thread that are already under way (the operating system schedules threads and
module methods return); no event has to arrive and no command has to be given.
A thread waiting for the mutex is not given strong fairness. In `Spotify` the steps of
a message under way are weakly fair: HTTP requests and database calls end, with
an answer or an error. cpr sets no time limit, so a server that accepts and never
answers is outside this assumption. In `Startup`, `main` goes on and something
starts the process again when it has ended: `sudo restart` only exits and relies on
that; outages and kills are bounded, which is "once they cease". In `Handlers` the
thread runs on, and handlers and requests return; no event has to arrive.

## 4. What the runs show

The loader's own data structures hold up: under every interleaving of dispatches,
loads, unloads and reloads, with constructors that throw at the worst moment and
addresses that are reused, both maps agree, no handler is lost or doubled, no
library is unmapped under a live object and no dispatch waits for ever. What does
not hold is what the comments promise about the modules *called*: the mutex
protects the lists and not the objects, so a module may be deleted under a
running handler. Of an object whose constructor threw, the handler lists keep the pointer:
`HandlersAccounted` and `SnapshotLoaded` name it as the one exception. Seen through
its map, the loader is the atomic `Registry`.

For spotify, the shared connection acts as a lock by accident: because `account`
writes memory between SELECT and commit of a transaction, and libpqxx refuses a
second one, the table's default only ever changes to what memory has
(`AccountStored`), under all interleavings and failures. The other way round it does not hold: a commit that
fails leaves memory ahead of the table, with the answer "Invalid ID" (`sp_invalid`), until a
later success mends it or a restart forgets it. The
device, written one line before its transaction, has no such protection; and a
refresh spans several transactions, so a change of the default in between stores
a token in another account's row (`sp_race`). "Updated default account." is said after the commit, when
another thread may already have changed the account again. With one thread tokens stay their
rows' own and both answers are true of memory and table whatever failed before (`RowsOwn`,
`AccountAnswerTrue`, `DeviceAnswerTrue`), which
`sp_single` checks and `SpotifyProofs` proves.

A boot is safer than its unchecked `false` looks: a failed migration leaves no
prepared statements, so the constructor of spotify throws and the process ends
before it can serve (`ServesMigrated`), as long as spotify is among the modules and its file can be
loaded: `load_all` ignores a module that cannot, and then nothing looks at the database and the bot serves
whatever it found. One
transaction around all files makes their random order harmless: a wrong order
fails as a whole (`SchemaAllOrNothing`) and a later boot finds the right one.
`Recovers` starts from a database that is migrated; from an empty one a boot may meet
the wrong order for ever, since nothing makes `directory_iterator` change it. A
table with a setting in two rows can never be migrated: `MigratedBoots` and `Recovers`
say nothing of it.

Routing does what it should under two conditions, each a property's: the command's
first word is right because only one module attaches to `OnCommand`
(`CommandWords`; a second one would get it with one more character missing), and
the loops that clean a text end because a bot's name is not empty once it has
logged in (`EventEnds`). `util.hpp:13` calls `ReplaceString` case sensitive, which it is not; its only callers search
for mentions, which have no letters, so no run is spent on it.

A slash command is answered by the module it names wherever that stands in the list (`SlashAnswered`),
if it is in the list at all: a `/ldap` that was registered before stays without an answer once `ldap`'s constructor has
returned early. A handler that throws ends nothing (`ThrowSparesOthers`).

The calendar agrees with the count everywhere in the walks, before 1970 and at the
turns of eras included, and every time the bot writes is read back to the
microsecond. `HttpDates`, a part of `TimestampsReturn`, is stated from 1970 on: `to_http_ts_str` cuts to days by
rounding towards 1970, so an earlier time gets the next day's weekday. An expiry time is kept
because it is cut to an unsigned number (`ExpiryKept`): a signed one would end in
2038.

## 5. What is proved

`ModuleLoaderProofs` proves, for every number of threads, files, addresses, events
and commands, under the assumptions `ThreadAssumption`, `FileAssumption` and
`AddrAssumption` (the constants have their types, the special values are distinct,
and there are finitely many addresses):

* `TypeCorrect`, `LoaderExclusion`, `RegistrySafe`, `HandlersSafe`, `HandlersOnce`,
  `HandlersKept`, `SnapshotConsistent` and `LibrariesMapped`: the properties `TypeOK`,
  `MutexGuardsLoader`, `RegistryLive`, `HandlersAccounted`, `NoDoubleRegistration`,
  `HandlersComplete`, `SnapshotLoaded` and `LibraryMapped`.

None of them is inductive alone. The invariant `IInv` adds what a thread inside
`load` or `unload` knows: at `publish` its `mod` is a live object of its file which the
registry does not name yet (`LoaderInv`); from `erase` on it is what the registry
named, detached from every list; every address in a list was constructed
(`HandlerInv`); a thread inside a handler has an object (`SelfInv`); a handle is
open for the file being loaded or closed (`HandlesInv`). The mutex makes these facts
about at most one thread at a time, which is why `MutexGuardsLoader` is part of
it. `LibraryMapped` needs a count, `OpenInv`: a file has at least as many open handles
as live objects, plus one while a load or unload is between `dlopen` and `dlclose`;
failed constructors only add handles.

The last part of it proves `LoaderImplementsRegistry`, under the same assumptions: every
behaviour of `ModuleLoader` is one of `Registry`, where a thread's pending command is
its call and `Modules` the registry's map. A step moves the call of its own thread only
(`CallMoves`) and every other step leaves all calls alone (`CallStays`); the write in
`Publish` is `Install`, the one in `UnloadErase` is `Remove`, and a crash in the middle of
anything is `End`. `Install` needs a file that is not in the map and an object that is not,
which is what `LoaderInv` keeps from the check of `load` to the write; `OpInv` adds that only
`unload` and `reload` lead to `UnloadErase`.

`SpotifyProofs` proves of `Spotify`, for any threads, accounts and devices under
`SpotifyAssumption`: `TypeCorrect`, `TransactionsExclusive`, `AccountsStored`
and `TracksAddedOnce`, and, for one thread, `TokensOwn`, `AccountAnswersTrue` and
`DeviceAnswersTrue`. The first group rests on the connection being a lock: no two threads are at a
label inside a transaction (`OneInside`), so memory still has the command's account when it is
committed (`AccountInv`). The second needs that memory has the device a command found until
that command has stored it, and that both have the setting between commit and answer (`SettingInv`), which only one
thread can rely on. See the head of that module for the other invariants.

`StartupProofs` proves of `Startup`, for any configuration, settings, number of
faults and modules that do not load, `TypeCorrect`, `ServingMigrated`, `SchemaAtomic`, `SettingsKept` and
`MigratedComesUp`: the properties `TypeOK`, `ServesMigrated`, `SchemaAllOrNothing`,
`StartKeepsSettings` and `MigratedBoots`. It assumes `StartupAssumption` (types) and
`DatabasesAssumption`: a database the bot finds satisfies its own UNIQUE constraint,
which PostgreSQL sees to. Its invariant `IInv` says what the open transaction has
done (`TxInv`: its schema is the committed one and the tables of the files that are
through), that the constraint stands (`ConstraintInv`), and what a boot has reached at
each phase (`BootInv`: statements are prepared only over the full schema, and a boot
without them either lost its connection or met an old schema; spotify is among the loaded modules only
if they are there, and each setting then has its row until the bot serves). The last is why a bot
without statements does not get past spotify's constructor, and why the boot of a
migrated database cannot fail by itself.

`TextProofs` says what the loops over texts compute, for any characters and lower case under
`TextAssumption`:

* `ReplaceStringSpells`: `ReplaceString` ends and gives what `Replaced` gives, for every
  subject, name and mention that is not empty. Each round leaves less of the copy to search
  (`EditedIn`), so the loop has a value and satisfies its equation (`LoopUnfolds`). Its
  invariant (`LoopSpells`): the copy is the lower case of the text, and what stands after the
  position is the rest of the original (`Alike`); so where the copy has the mention next, the
  original has it next (`AlikeOccurs`), and what was written stays behind the position.
* `CommandJoins`: the tokeniser ends, with a list of words that, joined, are the text; and the
  first is not empty when the text begins with no space, so taking its first character away
  takes the text's. `TokensJoin` goes from the end of the text to its beginning.
* `ReplacingRids`, a lemma: a pass takes every occurrence of what it searches away and brings no
  new one of it, nor of another text that was not there, provided that text is `Apart` from what
  is written: it neither begins nor ends with one of the characters written, and has not all of
  them. What stands in the result across a boundary of what was written stood in the original
  (`KeptEnd`, `KeptWhole`). `TrimTrims` and `TrimmedEnd` say what `trim` leaves.

Both are inductions over data, which the library's theorems cannot be used for, since they
take the statement as an operator. `Induction` states them with sets: `Descent`, from the
order of the naturals being well-founded, and `Recursive`, that a function whose recursion
goes to arguments of lower rank exists. The latter is built from functions that satisfy the
equation up to a rank (`Upto`), which agree where both do (`UptoSame`); what `CHOOSE` picks
for a recursive definition then satisfies its equation everywhere.

`HandlersProofs` proves, for any messages, names, commands and lists under
`HandlersAssumption` and `HandlerListsAssumption`, so for every list the loader may have, with any
modules missing and in any order:

* `SlashReplied` and `ThrowsAreSpared`, the properties `SlashAnswered` and `ThrowSparesOthers`.
  The invariant follows the list: what was heard and what is left of it make up the whole copied list,
  unless the last handler heard returned `false`, and no earlier one did (`HeardInv`), and a slash command has its reply exactly when
  its module is no longer in the rest (`ReplyInv`, which also says that the light is what the
  reply tells).
* `TypeCorrect`, the property `TypeOK`: texts stay texts and words lists of words, which needs
  that the loops above end.
* `MentionsAreReplaced`, the property `MentionsReplaced`, from `ReplaceStringSpells`.
* `CommandsWhole`, the property `CommandWords`, from `CommandJoins`: the tokens are those of the
  message until the command's listener is called (`CommandInv`), and since only one module
  attaches to `OnCommand` none is called before it (`OneListener`). It uses that the
  prefix is not a space.
* `MessagesClean`, the property `CleanMessage`, under two hypotheses on what Discord sends, which
  the run's messages and names satisfy (`MCHandlers` asserts it). `DiscordTrims`: contents and
  usernames have no blank at their ends; else the last `trim` could bring the bot's name to
  the front. `NamesApart`: no name has the first or the last character of a mention, and
  none is all characters of one mention; names with a letter and without angle brackets are
  so. Without it the property is false: if the first user mentioned has the id 1 and the
  second, with the id 2, is named `1`, `<@<@2>>` becomes `<@1>` when it is too late. By `MentionInv` each
  mentioned user is still in the list or the text is rid of him, which later replacements,
  `StripName` and `trim` leave so; and the text begins with no blank all the time.
* `KeywordsFound`, the part `KeywordsReact` of it, under `DiscordTrims` only: a message without mentions
  and without the bot's name in front reaches `OnMessage` as it came (`PlainInv`), and `reacted`
  are its keywords once reactions was called, by whatever list (`ReactInv`).

`CalendarProofs` proves the properties of `CalendarWalk` that are about dates, for any set of known days, spans, distances and months added that
satisfies its assumptions, so for every day of some 64000 years and not only for those
near the eight days of the run:

* `CivilDatesAgree`. `ToDaysCounts`: for every date of every year `ToDays` equals `DayCount`. The
  eras' rounding is floor division, and a March-based year has its days in a sum that
  `MonthDays` compares month by month. `FromDaysReturns`: `FromDays` leads back, for every date
  whose year a short holds; the divisions by 1460, 36524 and 146096 find the year of an era because a
  year has at most 366 days, and 366 only where `LeapEnd` says (`YearFound`). `DateOn`: every
  day has a date. The walk is tied to these by `WalkInv`: its date is one of the calendar's
  whose count is `serial`, and its weekday is `(serial + 4) % 7`.
* `WeekdaysGoRound`: all weekday functions are remainders by 7, the unsigned one of
  `weekday_from_days` included. `NthHold` follows from the first day of a month and the remainders.
* `DatesInOrder`: the lexicographic order of a class is the order of counts, because a
  year, a month and a week each end before the next begins.
* `MonthsComeBack`: a month is the number `12 * y + m`, and both divisions round down.
* `WeeksOfIso`: 1970-01-01 was a Thursday, so Thursdays are the multiples of 7, and
  `WeeksBefore(y)` counts those before a year. The last Thursday of a year, the start of an ISO year and
  its number of weeks follow (`LastThursdayIs`, `StartIs`, `LastWeekIs`), and that a day's
  ISO year is the one whose first Monday and next first Monday it lies between.
* `DatesHeld`, the type invariant: what is computed passes its own `ok()`.

`TimestampProofs` proves the other three, which are about texts, for the same walks and any set
of times of day:

* `TimestampsComeBack`, the property `TimestampsReturn`. A number is written by dividing and read
  by a fold; `NumberValue` says that the one undoes the other and `PaddedIs` that leading zeros
  change nothing. A text shows its parts at fixed places (`TextLaidOut`), which holds of its
  beginnings and of what PostgreSQL leaves of it as well (`PartsCut`, `ColumnEnds`). A reader goes from
  place to place, one conversion at a time, with the numbers it has read (`Arrived`), and the last
  conversion reads as much of the fraction as is there (`DecimalRead`); so `TextRead`.
  `FieldsAre`: the day `to_stream` takes back undoes the rounding of its cast, before 1970 too. Then
  `FromDaysReturns` and `ToDaysCounts` lead from the day to the date and back.
* `RealTimesOnly`, the property `OnlyRealTimes`: any numbers of two digits are read as they are
  written, so a text is refused exactly if they are no date and no time of day (`TextAccepted`); a reader
  whose text ends before the seconds has failed (`ShortTextRefused`).
* `ExpiriesKept`, the property `ExpiryKept`: before 2^32 seconds `Unsigned32` changes nothing, and
  such a day is in a year of four digits (`YearOfSeconds`).

`TimestampReturns`, on which the first rests, needs no walk: it holds for every date of the years
0 to 9999 and every microsecond of the day.

**Only model-checked.** Liveness (`DispatchEnds`, `LinkAnswered`, `Recovers`, `EventEnds`):
fairness is outside the prover. Every other property of a passing run is stated by a theorem.
The violated properties have their counterexamples.

## 6. Not modelled, and why

* The rest of `date.h` and `iso_week.h`: the letters of `format` and `parse` the bot does
  not use, locales, stream manipulators, the `month_weekday` and `year_lastweek`
  families that no checked function goes through, user-defined literals.
* Logging, sentry, error texts, embed layout (`EmbedSimple` puts texts into JSON
  without quoting them; texts are outside the models), the build files.
* `Bot::user`, written by `onReady` in each shard's thread while `onMessage` reads it: the models have its
  value after the first ready event, and leave out that a message may come before that, and a
  race on strings, whose outcome a text of a few characters does not show.
* `sleep(500)` in the reload of the manager: a delay, and the models have no clock.
* `config.example.json` shows an object at "postgres" where the code reads a string:
  the configuration is a constant of the models.
* The inside of D++, libpqxx, cpr and LDAP: modelled only as the code uses them.

## 7. Plan

The hazards without a property: each is in the models as an outcome, with nothing in the code
that states it should not happen, or (`modules.cpp:214`) is one missing check of one path.
