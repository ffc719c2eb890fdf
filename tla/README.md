# CoderProxy in TLA+

CoderProxy is a desktop gateway: a Tauri shell (Rust) starts a Python relay as a
sidecar process; the relay offers OpenAI (Chat and Responses) and Anthropic
endpoints to coding agents and forwards their requests to TA+3, to a pool of
WorkBuddy accounts, or to custom OpenAI-compatible providers.  This directory
models the parts of it whose correctness depends on the order in which things
happen or on many cases meeting each other, checks them with TLC on small
instances, and proves the most important results with TLAPS.

1. [The system](#1-the-system): inventory
2. [Modules](#2-modules): which module models which code, and how
3. [Runs](#3-runs): what TLC checks, on which instances
4. [Fairness](#4-fairness)
5. [Proofs](#5-proofs)
6. [Where code and documents disagree](#6-where-code-and-documents-disagree)
7. [Left out](#7-left-out)
8. [What could come next](#8-what-could-come-next)

To repeat everything by hand, in this directory: `tlc -workers 2 -config X.cfg M`
for each run of `PROJECT.json`, `tlapm M.tla` for each `*Proofs.tla`.

## 1. The system

| Component | Code | State | Operations | Modelled in |
|---|---|---|---|---|
| Account store | `platforms/store.py` | one JSON file per platform, one row per account | locked read-modify-write helpers, upsert, update, delete | `AccountStore` |
| Account pool | `workbuddy/chat.py`, `store.py` | health fields of the rows, round-robin cursor, locals of each running request | pick, rotate, feed the store, user edits | `AccountPool` |
| WorkBuddy login | `workbuddy/oauth.py` | login slots, one polling task per slot | start, poll, archive, query, cancel | `WbLogin` |
| Token refresh | `workbuddy/adapter.py`, `oauth.py` | tokens in the row, per-uid lock | ensure_token, refresh_token, re-login, delete | `WbTokens` |
| Model catalogue | `workbuddy/catalog.py` | cache, negative cache, single-flight lock | load, fetch over several routes, clear | `WbCatalog` |
| IDE switch | `workbuddy/ide_switch.py` | session file, temporary file, key cache, logout mark | switch | `IdeSwitch` |
| TA+3 session | `app/auth/ta3/*.py`, `auth_flow.py`, `catalog_sync.py` | auth row, callback server, login task | login, ensure_token, logout | `Ta3Session` |
| Chat requests | `routes.py`, `models/providers/*.py` | budgets, status, row in the log, of one request | check, call, retry, refresh, answer | `Answer` |
| Stream of an answer | `oai_adapter.py`, `protocol_adapter.py` | pending frames, release flag, items of the stream | frame in, event out | `AnswerStream` |
| Requests of three protocols | `protocol_adapter.py`, `oai_adapter.py`, providers | locals of one request | parse, build the body of each upstream | `Convert` |
| Tool repair and disguise | `tool_repair.py`, `tool_disguise.py` | maps of one request | repair a history, rename tools there and back | `ToolRepair`, `Convert` |
| Desktop shell | `src-tauri/src/lib.rs` | `sidecar`, `job`, `ready` | start, stop, restart, exit events | `Sidecar` |
| Service gate, settings, custom providers | `routes.py`, `storage.py`, `providers_custom.py` | `_service_disabled`, rows of the state file | one assignment or one locked write each | - |
| Check-in, quota, import, export | `workbuddy/{billing,imports,exports}.py` | fields of a row | tolerant parsing, then a store helper | - |
| Monitor and event table | `monitor.py`, `db.py` | ring buffer, event table | append, page, clear, prune | the rows of one request: `Answer` |
| Relay process | `cli.py`, `middleware.py`, `config.py` | listening sockets | port scan, ready line | - |
| Front end | `src/frontend/src/**` (Vue, Pinia) | stores mirrored from the relay | poll, edit | its polling of logins: `WbLogin` |

How they interact.  The relay is one asyncio event loop: between two `await`s
nothing else runs, and at an `await` everything else may.  File accesses are
handed to threads of the default executor (`asyncio.to_thread`), which go on when
the coroutine that waits for them is cancelled.  The shell has real threads: the
main thread, one per `relay_restart`, one reader per child process.  The
components meet at six places:

- the account file of a realm, written by chat requests (health), token
  refreshes, logins and imports, check-in and quota, and the user's edits, all of
  them through `store.py`;
- the state file `relay_state.json`, with the TA+3 row, the models and settings;
- the session file of the official client, which that client writes as well;
- the upstreams, which rotate refresh tokens and keep no promise on time;
- the ready line that the relay prints and the shell reads, and the exit event;
- the commands of the front end, which polls (login status, relay status) and can
  send any of them at any time.

What is hard, and what makes each part correct:

| Component | Hard behaviour | Correct when |
|---|---|---|
| Account store | cancelled coroutines whose thread goes on, unreadable file, failing write, end of the process | no operation undoes or mixes with another; the caller is told the truth; no lock stays taken |
| Account pool | requests in flight while rows change; late failures; failures after output | a request ends, never tries an account twice, never restarts after output; suspensions are neither extended nor lifted by accident; an outage does not travel through the pool |
| WorkBuddy login | parallel logins, clean-up by queries about others, deadline against a request in flight | parallel logins leave each other alone, no poller is leaked, a success is stored and reported |
| Token refresh | many callers with one stale token, rotation, re-login, deletion or a stop during a refresh | a token is refreshed once, the stored row is the one the upstream accepts, a deleted row stays deleted |
| Model catalogue | single flight, negative cache, failures, a pool that empties during a fetch | one caller asks the upstream, locks are given back, an empty pool shows no models |
| IDE switch | the official client writes the same file, is installed anew, is logged out | never overwrites what it has not read, installs nothing unreadable, reports success only when it is one |
| TA+3 session | concurrent 401s with rotating refresh tokens, logins that replace each other, logout, restart | a used token is never presented, the newest is stored, callback servers and dialogs stay paired |
| Chat requests | two retry budgets, a break in the middle, an empty answer, a client that leaves | a retry happens only before output, budgets are independent, one outcome is logged, a 200 is never empty |
| Stream of an answer | reasoning, text and tool calls in any order, two typed protocols | every piece arrives once, items are opened and closed properly, stream and document tell the same |
| Requests, repair, disguise | missing, merged, repeated, nameless calls and results; six ways to ask for thinking; names that collide | each call has its result behind it, nothing said is lost, a tool comes back under the name and the listed keys it was declared with, "off" is off |
| Desktop shell | threads and exit events on three cells without a common lock, job objects, late exit events | no process tree escapes; what is reported as running is running |

`PROJECT.json` lists every component with its status and every hazard at its
line with the properties that cover it, or why none does.

## 2. Modules

| Family | Specification | Abstract specification | Instance | Proofs |
|---|---|---|---|---|
| pool | `AccountPool` | `Rotation` | `MCAccountPool` | `AccountPoolProofs` |
| store | `AccountStore` | `AtomicStore` | `MCAccountStore` | `AccountStoreProofs` |
| login | `WbLogin` | | `MCWbLogin` | `LoginProofs` |
| tokens, catalogue | `WbCatalog` over `WbTokens` | `WbTokens` | `MCWbCatalog` | `WbCatalogProofs` |
| IDE | `IdeSwitch` | | `MCIdeSwitch` | `DesktopProofs` |
| TA+3 | `Ta3Session` | | `MCTa3Session` | `LoginProofs` |
| answer | `Answer` over `AnswerStream` | | `MCAnswer` | `AnswerProofs` |
| request | `Convert` over `ToolRepair` | | `MCConvert` | `ConvertProofs`, `HistoryProofs` |
| shell | `Sidecar` | | `MCSidecar` | `DesktopProofs` |

`AccountStore`, `WbTokens`, `IdeSwitch` and `Sidecar` write the place of a thread, task or
caller in the same way and take `pc`, `Goto`, `At` and `None` from `Places`.

In all of them an action is the code between two points where another actor may
run: two `await`s in the relay, two critical sections in the shell, two file
operations where another program shares the file.  Operators whose comment begins
with "variant:" are the mistakes a programmer could make in the definition that
follows them; no specification uses them, the list of mutants in `PROJECT.json`
does.  A property whose body is a conjunction of named ones (`PoolInv`,
`TableInv`, `LoginInv`, ...) is what a run checks of a component; its parts stand
before it with a comment each.

### AccountPool and Rotation

`AccountPool.tla` has the rows of the pool (`present`, `enabled`, `prio`, `fails`,
`degraded`, `cool`), the module-level `cursor`, and the local variables of
`_frames_with_rotation` for every request.  `Pick` is `_pick_account`,
`TokenReady`/`TokenFails` the return of `ensure_token`, `Frame` the first frame
handed to the client, and an attempt that ends either finishes at once
(`PassThrough`, `CredentialRejected`, `SessionRejected`) or goes through a
`Feed...` action, the locked write of the store helper together with the branch
that follows it.  `FeedClear`/`FeedSuccess` are two actions because the code takes
the lock twice.  `Abandon` is the cancellation of the coroutine when the client
goes away.  The user's edits and the picks of the other realm, which share the
cursor, are actions of their own; `UserOps` says which of them an instance has.

Deadlines are modelled by the time left, so `until > now` is `left > 0` and `Tick`
lowers every deadline: the clock is unbounded and the state space is not.
`hits` stops at `HitsCap`, where the backoff has reached its cap
(`BackoffAssumption` says so).  The field `status` of a row is left out: no code
writes anything but `"normal"`.  A store helper is one atomic action here; that
this is justified is what `AccountStore` shows.

`Rotation.tla` is the abstract specification: a request searches, attempts an
account it has not attempted, may leave it only while nothing was delivered, and
ends.  `Promise` in AccountPool maps the loop to it and `KeepsPromise` is both
checked and proved.

### AccountStore and AtomicStore

`AccountStore.tla` is `store.py` below its helpers.  An operation takes the
platform's `asyncio.Lock` (`Acquire`), reads the file in a thread under the thread
lock (`Load`, or `LoadUnreadable`: `_load_sync` takes an `OSError` for an empty
list), and either finds no row (`Miss`) or hands the changed list to a thread
(`Submit`, `BeginWrite`, `Replace`/`WriteFails`) and then returns or raises.
Cancellation has three cases: no thread runs for the coroutine (`CancelCoroutine`),
its save is still queued and is taken back (`CancelQueued`), or the thread has
started and runs on without the asyncio lock (`CancelRunning`).  `Stop` is the end
of the process: what was not replaced is gone, the file is whole because
`tmp.replace` is atomic.

A row is abstracted to *who has written each part last*: the entry (an upsert),
the health (the `note_` helpers) and what a patch sets.  That tells a lost or a
mixed update from a good one, and the values do not matter for it.

`AtomicStore.tla` says what callers may rely on: an operation takes effect at most
once, at one moment, on its own part of its own row, and what is refused has no
effect.  The code does not keep this without exception: after `CancelRunning` the
late write can undo an operation that was reported as done, and after an
unreadable file the next upsert stores a list of one row.  Three history variables
make that exact: `stale` records the operations that acted on an outdated list
(nothing is promised of those), `excuse` how it came to be, and `Excused` says
that nothing but these two causes makes an operation stale.

### WbLogin

`_slots` is the variable `slots`, a slot object is `status` and `left` (of
`LOGIN_TIMEOUT_S`), and the poller task of a login stands at `pc`: the sleep of the
loop, the token request, the account request, the write of the row, the
prefetch.  `Query(l)` is `login_status` for the three cases of the code (no slot, a
finished or expired one, a pending one) with the clean-up of the other slots;
`Cancel` is `cancel_login`; `CancelTasks` is `task.cancel()`, with both outcomes for
a row that a worker thread is writing at that moment.  `client` is what the
dialog knows, and `Leave` a page that is closed without a call.

### WbTokens and WbCatalog

`WbTokens.tla` is `ensure_token`: `Use` finds a row, `Check` looks at its expiry,
`Acquire` takes the lock of the uid, `Reread` and `Decide` are the second look under
it, `Accept`/`Refused`/`LostAnswer` the answers of the upstream to `refresh_token`,
`Write` its patch of the row as it is by then, which fails when the row is gone.
A token is the login it descends from and a number of its own, so that the model
can tell which one the upstream accepts (`Accepts`, external: the refresh token it
issued last for a login).  `Login`, `Delete`, `Expire` and `Restart` are the others
who change rows, locks and time.  `torn` is a history variable: an account whose
answer was lost, or that was logged in again during a refresh.  There the code
mixes the tokens of two sessions or keeps a used one, and the properties name it
as their exception.

`WbCatalog.tla` is `load_models` over it.  `Pick`, `Look`, `Take`, `Repick`, `Fetch`
follow the code from the first look at the pool over both caches and the
single-flight lock to `_load_and_cache`; a loader passes `ensure_token` like any
other caller, and chat requests do so beside it (`Serve`).  What the upstream says
is computed by `V3Answer`, `EnterpriseAnswer` and `Union` from one outcome per route:
a good route is enough, the first endpoint that does not refuse decides, a failure
is told when nothing else has models.  `seen` is a history variable: an account
could be selected at some time since the load began.

### IdeSwitch

`switch_account` with the official client as a second program on the same files. Every
file operation is a step: `Read` decodes the session with the key the relay remembers
(`cached`, which may be outdated), `WriteTmp`, `Compare` and `Replace` are the guarded
write.  Of the logout mark, `FindMarker` notes what it holds, `Look` compares it with
that, and `Unmark` removes whatever mark is there by then: a logout between the last two
is taken back.  `Verify` and `Start` finish.  All switches share one temporary file.
The client starts, quits (and writes once more), obtains tokens, logs out and is
installed anew with another key.  A session is `[uid, tok, key]`: the key is the one its
secrets are sealed with.  `crossed` records for every switch under way what happened to
it: a client that ran, a write, a logout (`late` if it came between `Look` and
`Unmark`), another switch; the properties say exactly which of these excuse what.

### Ta3Session

`row` is the `ta3_auth` entry of the state file; a write is one step because all writers
hold `storage._asyncio_lock`.  A refresh token is the login it descends from and how
often it has been rotated, `live` is what the upstream accepts.  A caller goes through
`sync_models`: `Ensure` and `Enter` are `ensure_token` outside and inside the refresh
lock, then the upstream rotates, renews, refuses or fails (`Rotated`, `Renewed`,
`Refused`, `RefreshFails`; the rotation may happen although the answer is lost),
`Save`/`Clear` write the row, `Unauthorized` is the one 401 that leads to a second
refresh.  `StartBrowserLogin`, `Callback`, `WaitEnds`, `Exchanged`, `Finally` follow a
browser login through `oauth.py` and the callback server `active` of `callback.py`;
`ImLogin`, `CancelLogin`, `LoginStatus` and `Logout` are the other commands (a login
cancelled while it waits for the browser is over at once, one that exchanges its code
still runs its `finally` clause); `Restart` keeps nothing but the row and the upstream.

### AnswerStream and Answer

`AnswerStream.tla` is how an answer becomes what a client reads.  A piece of text
is a number, given in the order the upstream sent it, so that a lost, repeated or
misplaced piece shows.  An assembler is a record of the open items and of all
events emitted so far; `FeedTyped`, `Conclude` and `Failed` are
`ResponsesStreamAssembler` and `AnthropicStreamAssembler`, `Release` and `DoneFrames`
the frames of `stream_openai_sse`, `JsonAnswer` the two conversions of a request that
does not stream.

`Answer.tla` is one request from `_handle_chat` to its last byte.  `Check` and `Ensure`
look for the model and the account, `Call` asks the upstream, `TakeLine` takes a line of
its answer (`Absorb`), `Forward` pulls one frame through the generators, `Done`, `Close`
and `Collected` end an answer, `Refused` and `Broken` are the errors before and after
the first line, `Silence` the watchdog of TA+3, `Fallback` the second call of a custom
provider, `ClientGone` the client that leaves. `Raise` decides between the retry of an
empty answer, the refresh after a 401 and the end; it is the place where the two budgets
meet.  A break in the middle of a stream whose text has the digits 401 (`Digits401`) is
taken for a rejected token there, as in the code.  `seen` counts what the upstream said,
as history, and `restarted` in it says that such a break made a stream begin again.
Other requests share nothing with this one but the catalogue (`CatalogueChanges`).

### ToolRepair and Convert

`ToolRepair.tla` has the four passes of `tool_repair.py` as functions on histories:
`Merge` the parallel assistants, `Fill` the missing results, `Repack` the results
behind their calls (`BestResult`), `Cleanup` what has no name or no call.

`Convert.tla` takes a request as a sequence of pieces (text, reasoning, calls,
results, images), builds the messages as the three protocols do (`ParseChat`,
`ParseAnthropic`, `ParseResponses` with its pending calls and reasoning), folds the
six signals about thinking (`Signals`, `Forced`, `Thinking`), makes the body of each
upstream (`WbBody` with the repair and the reasoning that deepseek needs, `Ta3Body`
with the names of its own tools, `CustomBody`), and gives calls of the answer back
under the names the agent declared (`Declare`, `RestoreName`).  The tables of names and keys
are those of the code for nine tools: keys that are renamed, keys that have no
counterpart and are left out (`Dropped`), and the `explore` that is forced upon every
sub-agent (`SpawnForcedArgs`).  One action per stage; the inputs are the initial
states.  `FreshIds` are the ids the relay makes up for calls
that have none, one for each place; no agent's id is among them.

### Sidecar

The three cells of `AppState` are `sidecar`, `job` and `ready`, each behind a mutex
of its own, so every action is one critical section of one thread:
`Spawn`, `GiveUp`, `StoreJob`, `StoreChild`, `StoreReady` are `spawn_with_port`;
`TakeChild`, `DropJob`, `ClearReady` are `stop_sidecar` (by a restart thread or by
`relay_stop`) and the exit of the application; `IgnoreExit`, `NoticeExit`,
`ReaderDropsJob`, `ReaderClears` are `handle_sidecar_exit` in a reader thread.
`tree` is the live processes of a start: killing the child reaches the onefile
bootloader only, closing the last handle of a job object kills the whole tree
(external: the semantics of Windows job objects, from how `lib.rs` uses them), and
the exit event comes when the whole tree is gone
(`src/docs/已知问题.md`, BUG-009).

`raced` is a history variable: two writers of the cells have been half-way at the
same time, or an exit event came before the store it should have undone.  The code
has no protection against either.  What it guarantees always is `NoStrayTree`;
what it guarantees until then are the properties with `~raced` in them.

## 3. Runs

Runs that must pass:

| Run | Instance | Distinct states | Question |
|---|---|---|---|
| `pool_edit` | 2 accounts, priorities 1-2, all edits, 1 request; and 1 unedited account with up to 3 requests (symmetric), with and without a hint for the recovery time | 630,945 | `PoolInv`, `SuspensionEnds`, `PenaltiesStand`: do attempts stay fresh and bounded and do suspensions stand while the user adds, deletes, switches and reorders accounts, do late failures extend a suspension, do concurrent 6004s count more than once? |
| `pool_live` | 2 accounts, 1 request, the other realm moving the cursor | 41,984 | `RequestEnds`, `PoolRecovers`, `KeepsPromise`, `NoAccountLeftUntried`: does every request end, a closed pool open again, the loop implement `Rotation`, and is no account left untried? |
| `store` | 2 rows; a login (upsert), a chat request (health) and the user (patch, delete) | 161,614 | `TableInv`, `ActsAtomically`, `OperationEnds`: does the file implement `AtomicStore`, is every answer true, does every operation end? |
| `login` | 2 logins of different realms, an account of each, 2 ticks of life | 54,417 | `LoginInv`, `PollersEnd`, `DialogAnswered`: do parallel logins leave each other alone, is nothing leaked, is a success stored and every dialog answered? |
| `catalog` | 1 account, 2 callers (symmetric), 3 tokens, 3 routes of the v3 interface, 2 enterprise endpoints, restarts | 451,525 | `CatalogInv`, `StoredIsAccepted`, `OneFetch`, `EmptyPoolShowsNothing`, `RefreshesRight`: is a token refreshed once and stored, does one caller fetch, are the locks returned, does the catalogue use tokens as `WbTokens` says? |
| `ide` | 2 switches, 2 accounts (symmetric), 2 tokens or logouts of the client and 2 keys | 4,867,899 | `NoUpdateLost`, `ClientCanRead`, `RunsAsTold`, `LogoutStands`: is anything of the client overwritten unread, can it read what is installed, is a reported success one, does a logout during a switch stay, whether there was a mark before or not? |
| `ta3` | 2 callers, 2 browser logins, IM login, 1 rotation per login, restarts (symmetric) | 104,219 | `StoredSession`, `NoDeadWait`, `ListenerOwned`: is a used refresh token ever presented, is the newest one stored, do servers and dialogs stay paired? |
| `answer` | 3 protocols, 3 providers, streaming or not; 1 retry, up to 3 lines (1 in a call after a broken stream), finishes stop, max_tokens, tool_use, errors with and without the digits 401 | 1,508,572 | `AnswerInv`, `RetryUnread`, `StreamTrue`, `StreamMatchesJson`, `RequestEnds`: does the retry of an empty or refused answer show, is a success ever empty, does each piece of text arrive once and in order, is one outcome logged? |
| `convert` | histories of up to 4 pieces (3 if one of them is rare) in 3 protocols; every combination of the signals about thinking; lists of up to 3 of 9 tools in 3 modes; 5 upstreams | 923,804 | `RepairHolds`, `NothingLost`, `BatchesStay`, `ReasoningStays`, `CallsComeBack`, `ThinkingSent`: has each call its result behind it, is anything lost, do names and keys come back, is the thinking sent that was asked for? |
| `sidecar` | first start and one restart at any time, any number of stops | 70,438 | `ShellInv`, `NoStrayTree`, `NewInstanceKept`, `CrashReported`: does a process tree escape, do the cells agree, is a dead relay taken back? |

`ta3_replaced` (`ReplacementStands`) and `answer_401` (`NothingBeforeRetry`) must find a
violation (section 6).

Why the bounds are enough.

- *Pool*: a rotation needs an account that is being tried and one that is left,
  and the failure budget is spent by the second failure; larger pools are covered
  by the proofs.  The threshold of two is the smallest with a count below it, the
  window of two ticks the smallest in which something can happen during a
  suspension; one model suffices because rows keep the entries of different models
  apart and no code compares them; `HitsCap` is where the backoff is constant.  The
  cursor wraps at a multiple of every tier size of the instance, so each position
  of each tier is reached.  A constraint (`Scope`) keeps to two kinds of behaviour: one
  request over two accounts that are edited, where only the order of the priorities
  counts and an account hits its rate limit once, and up to three requests over one
  account that nobody edits.  After an answer that leaves the pool as a cancellation
  does, only the cancellation is followed further (`SameAsCancelled`).
- *Store*: every interaction is between a writer and at most two others, one of
  them on another row; three tasks that can each be cancelled, fail or be killed
  give all of them, and each uid is asked for by a task that may find it or miss
  it.
- *Login*: the clean-up relates the queried slot to one other.  Two ticks separate
  "time left", "the last tick" and "past the deadline".
- *Tokens, catalogue*: a second caller is what both locks are for.  Three
  tokens are that of a login, one of a refresh and one more of either kind, enough
  for a used token beside a current one.  Accounts meet in the pool only as "there is
  one to select" and each has its own lock, so one account shows every
  interference; the proofs take any number.  Three routes contain a first, a
  middle and a last one, two endpoints a refusal followed by an answer.
- *IDE*: two switches are needed to share the temporary file; each token and each
  logout of the client can fall into any window, two of them are a mark that a switch
  finds and a logout during that switch, and one new key makes the remembered one
  outdated.
- *TA+3*: a second caller is what a lock is for; two dialogs are what "replace"
  needs; one rotation distinguishes the used token from the new one.
- *Answer*: one retry of an empty answer shows the budget spent and unspent; three
  lines are reasoning, text and the end in every order, or a call in pieces.  A call
  after a stream that broke has one line: enough to see it follow the pieces of the
  earlier one.  A request meets nothing but the catalogue, so one is enough.
- *Convert*: four pieces are two calls with their two results in every order and
  batch, or a call, a result and text between them; a request with a rare piece
  (image, system message, calls without an id, a stray result) has at most three.
  Histories, thinking and tools do not meet in the code, so each varies while the
  others rest.  Three tools are two whose disguised names collide and one more; the
  nine have every kind of key: renamed, shared, dropped, forced, and borrowed from a tool of
  the application.
- *Sidecar*: a third start adds further overlaps of the same pairs of critical
  sections; the proofs hold for any number.

Deadlock is checked in every run but those of `WbLogin`, `Answer` and `Convert`:
logins are started at most once, and a request is at its end when it is answered.
`AccountStore` and `Sidecar` say with `Over` when everything is done and nothing
else may stop.

## 4. Fairness

- *Pool*: `WF(Serve(r))` and `WF(Tick)`.  The event loop runs every coroutine that
  is not waiting, and a silent upstream ends in the read timeout of 300 s
  (30 s for a refresh), so every `await` of the loop returns; that an upstream
  does not stream frames for ever is assumed (the read timeout only bounds the gap
  between two of them), which outcome an attempt has is not.  `Frame`, `Start`,
  `Abandon` and the user are not fair.
- *Store*: `SF(Coroutine(t))` because `asyncio.Lock` wakes its waiters in the order
  they came: whoever waits is served although the lock is taken again in
  between.  `WF(Thread(t))`: the executor runs what it was given.  Nobody has to
  ask, to be cancelled or to stop.
- *Login*: `WF(Step(l))` (requests have timeouts), `WF(Query(l))` (an open dialog
  asks about every two seconds) and `WF(Tick)`.  A user who authorises, cancels or
  leaves is not assumed.
- *Answer*: `WF(Progress)`: the generators are pulled as long as the client stays,
  and read deadlines end an upstream that is silent.  Its answers are finite
  (`MaxLines`).  Changes of the catalogue and a client that leaves are not fair.
- *Sidecar*: threads run, `recv_timeout` ends after 60 s, the exit event arrives.
  No fairness for the ready line, for a crash or for a button.
- *Tokens, catalogue, IDE, TA+3, Convert*: no liveness is stated, hence no fairness.

## 5. Proofs

Each `*Proofs` module proves, for every value of the constants its assumptions
admit (any number of accounts, requests, logins, callers, switches, starts), what
TLC checks on the instance.  All obligations go through SMT, Zenon and, for the
temporal steps, PTL.

**AccountPoolProofs.**  The inductive invariant is `RowsOK`, the cursor's range and
`LocalInv`, which is `LocalsOK` with `LoopInv`: outside a request the locals are
empty, an account is held exactly during an attempt, `tried` stays below `total`
whenever the loop turns.  The last part is what the code's comparison
`len(tried) >= total` is for, and it needs the special case of `total = 0` (an
account that was added after the request had counted the pool).  From it follow
`TypeOK`, `FreshAttempt`, `AttemptBound` (together `PoolInv`), and with one case per
action `StreamOnce`, `SuspensionNeverExtended`, `PenaltiesStand`, `SuspensionEnds` and
the step simulation to `Rotation` (`KeepsPromise`).  `NoAccountLeftUntried` is proved
under `NoEdits`, that nobody switches, deletes or adds accounts: then `total` counts
the pool as it is (`Whole`), `tried` is a part of it, and a part with as many members
is all of it.  With edits it does not hold, and the property does not claim it.
Assumptions: `PoolAssumption` and `BackoffAssumption`.

**AccountStoreProofs.**  `StoreInv` is inductive with `TypeOK`: the holder of a lock
is where the lock is held (`LocksHeld`), a thread belongs to an operation that is
pending and either waited for or left behind by a cancellation (`ThreadsOwned`),
the history agrees with the place (`OutcomeKnown`), and as long as nothing has
gone wrong the list in a coroutine's hands is the one in the file (`ViewFresh`).
`ViewFresh` is the heart: it survives a `Replace` because nobody else is between a
read and a write, which is `LocksHeld` and `ThreadsOwned`.  `Excused` and
`AnswerTrue` follow; `ActsAtomically` is proved action by action, where `Replace`
maps to `Apply` when the list was the current one and to `ActStale` otherwise.

**LoginProofs.**  `SlotInv` adds to the properties of `LoginInv` what a slot, its
poller and its row say of each other: a login not started has no slot, a poller
whose status was settled by somebody else is past its deadline, an identified
login has a uid, what was archived is in the pool.  `NotCancelledByOthers` rests on
the second, because the clean-up cancels exactly the stale slots.

The session of TA+3 is in the same module.  `SessionInv`: the lock is held exactly
between reading the token and writing the answer; a rotation on its way to the file is
in `lost`, and `live` is one ahead of the token held; tokens descend from completed
logins only, so a login that completes finds its generation at zero.  A caller with the
lock is the only one that can rotate, hence `NoUsedToken`; `NewestTokenStored` needs in
addition that a row written by another login meanwhile is of another lineage.  For the
dialogs: the `active` server belongs to the login task that waits on it
(`ListenerOwned`), and a wait has a server or an end (`NoDeadWait`).

**WbCatalogProofs.**  Two layers.  `TokenInv` is the invariant of `WbTokens`: who
holds the lock of an account and where (`Basic`), what has been issued to whom
(`Issuance`), and that the token in a row, or in the hands of the caller that will
store it, is the one the upstream accepts unless the account is `torn` (`Sound`).
From it follow `StoredIsAccepted` and that a refresh is asked for once per expiry.
`TokensBeneath` shows that every step of the catalogue is a step of `WbTokens` or
leaves its variables alone, so that everything proved of tokens holds below the
catalogue; `CachesInv` then gives that both locks are returned, that one caller
fetches and that an empty pool shows no models.

**DesktopProofs.**  The two parts that start and stop programs of the desktop.  For the
switch of the IDE, `IdeInv` states for each place of a switch what it relies on
from then on (the key it read with, the content it compared, the mark it saw)
and that it is true unless `crossed` says who came between.  The four properties
of the run follow from it, for any number of switches, accounts and keys.

For the shell, `NoStrayTree` is inductive with the types alone, without any
assumption on how the threads meet: the cell is the only owner of the handle, so
whoever empties or overwrites it closes the job.  `CellsInv` holds what one writer
has stored so far (`ThreadProgress`, `ReaderProgress`) and that there is only one
(`OneWriter`), all until `raced`.  `WatchInv` then gives `ReadyIsWatched`, and
`NewInstanceKept` follows from `CellsInv`.

**AnswerProofs.**  Two layers, both for any text of an error.

The first, `Inv`, is about the call: before the first line the client has nothing,
and as long as nothing was released neither the status nor a frame is out, unless
a break made the stream begin again (`RetryInv`, hence `RetryUnread`); what was seen is
carried to the end of an answer (`OutputInv`, hence `NoFalseSuccess`); the calls made so
far are the empty ones, the refresh and the one that runs, twice that for a custom
provider asked for a document (`CountInv`, hence `BudgetsApart`).

The second, `StreamInv`, is about what the client reads, for any number of lines,
pieces, tool calls, calls of the upstream and retries.  The properties speak of a
finished stream, so each place of a request needs to know what has been written and what
is still to come: `Streaming(asm, queue, up, proto)` while the upstream talks (the queue
has pieces only, no call has been told of), `Ending` from the `done` event on (the queue
is what is left of the frames of `DoneFrames`: the calls from some number on, the finish
frame, the usage frame).  `Flow` says that what was read, followed by what is queued, is
what the upstream has made (`Reads`); `Good` says that a list of events is well formed:
every event fits those before it (`Fits`), the counts of `open` and `close` are those of
the items and their flags (`Known`), and one event concludes it (`Concluded`).  For each
frame and each assembler it is shown what `Feed` adds and that it stays `Good`;
`Outcome` says what is left when the request is over.  A stream that began again is
beyond `StreamInv`: its client has pieces of two calls.  So the layer holds until then
(`seen.restarted` is the other case of `AnswerSafe`, `StreamIsTrue` and
`BothAnswersAgree`), and what such a client reads is checked by the run only.  From
`StreamInv` follow `OneOutcome` and with it `AnswerInv`, `StreamTrue`, and
`StreamMatchesJson`, where the items of the assembler are compared with those of
`JsonAnswer` buffer by buffer.

The pieces the upstream sends arrive one at a time, so what is read of them is a
recursive function of the length of a sequence.  The library's induction
theorems cannot be used (they take the statement as an operator); here the set of
lengths for which a statement holds is shown to have 0 and every successor
(`SetInduction`, which follows from the well-foundedness of `<`).  That needs the
definitions to be functions of a sequence and of a set of positions, which is why
`AnswerStream` has `Kept(s, K)` and not `SelectSeq` with a test.

**ConvertProofs.**  The steps of `Convert` only compute, so the inductive invariant
`ConvertInv` says which function of the request each variable is, and that the
request is one an agent can write (`Request`: at most `MaxPieces` pieces, joined into
messages as `Glued` says).  What is left is facts about the functions, and these
hold for histories of any length, any list of tools, every request and upstream.
Assumption: `ConvertAssumption`.

`RepairHolds`: the three parsers give lists of messages (`ParseIn`); `Merge` and
`Fill` keep them so, and `Fill` keeps a history in time (`FillInTime`).  Let K be the
ids that cleaning keeps, those with a result and with calls that are all named.
For each message of a history in time, `Part`, what repacking makes of it, is
paired once it is cleaned with K (`PartPaired`): the result chosen for a call is in
the window of its head and, like the call, stays or goes with its id.  Cleaning
distributes over concatenation and pairedness is kept by it, so the cleaned whole
is paired (`RepackPaired`, `RepairPaired`).  For stability, what repair returns is
`Settled` (paired, named, no id twice in a message), and each pass leaves a settled
history alone: nothing to merge, no stub missing, each window gathered as it stands
(`GatheredStays`; `Reach` is how far the parts written so far extend), nothing to
remove (`RepairStays`).

`ThinkingSent`: by cases on the kind of upstream, on what the request says and on
the effort the user fixed; the reasoning of the messages is followed through
`Backfill`, `Neutralized` and the system message put first.  The proof corrected the
property: for the user only the effort "none" switches thinking off
(routes.py:793), and the settings accept other words, of which ta3 takes "off"
for an effort; the property had taken every word of `OffWords` for a switch, and
the run had not tried one.  It does now.

`CallsComeBack`: `GoodContext` (every name sent is passed through or stands for a
declared tool with that disguise, and the table of its keys is that of the
application with the reversed one of this tool put over it, `FromIs`) is kept by
`Declare`, whichever tools share a native name.  What the tables have to fulfil for
keys to lead back is said once (`Suited`: no two keys have one counterpart, what
is restored for the application is not taken for a key of the agent; `Strange` for
tools passed through) and shown tool by tool (`TablesSuited`, `NamesApart`); `Undoes`
and `ThereAndBack` then follow a set of keys there and back, with the keys that are
dropped and the one that is forced.

`ReasoningStays`: each parser is followed piece by piece.  In Chat and Anthropic a
message stands where its first piece is (`ChatParts`, `AnthropicParts`), a piece and
the one glued to it are of one group (`FirstPiece`, `SameFirst`), and the message of a
group has every piece of it (`GroupedHas`).  In Responses the state between two items
(`Flowing`) is followed by induction over the items: calls are being put together only
behind a call and nothing but reasoning since (`CallsAreOpen`), and from the second of
the two pieces on, either the history written so far has the message, or the calls
being put together have the call and the reasoning waits for them (`BothRead`,
`ItemKeeps`); the last flush writes it.

**HistoryProofs.**  `BatchesStay`, for requests of any length: if the calls of a turn are
answered at once and in order, the history that is read is paired.  A request is
read from the front; after n pieces it owes the results of the calls that have been
read and not answered (`Debt`, the end of the run of calls before n), and the history
read so far would be paired if the owed results were appended to it (`Owes`).  `Level`
joins the two.  A message of calls brings its ids into debt (`OwesCalls`), a result pays
the first id (`OwesLess`, `DebtLess`), any other piece comes when nothing is owed
(`DebtNone`, `OwesNothing`); at the end nothing is owed, so the history itself is paired
(`LevelEnds`).  Chat and Anthropic make their messages group by group (`GroupSteps`), and
a group is level when all groups before it are (`LevelGroup`, `LevelResult`; in Anthropic
a message may have results before its words, which `Leveling` follows one by one).
Responses goes item by item: as long as calls are being collected they are the debt,
and the results that wait to be written are level with the items read (`Reading`).

`NothingLost`, in the same module and again for requests of any length, has two halves.
The first is about words.  What a message of the user or of the assistant gives when it
is heard is a function of the message (`Voices`), and what is spoken in a history is
the concatenation of what its messages give (`Drawn`).  A request says its pieces, and
its history speaks just these in their order (`ParseSpeaks`): in Chat and Anthropic
because a message stands where its first piece is and has the words of its group
(`ChatSpeaks`, `AnthropicSpeaks`), in Responses item by item, with the calls being
collected and the results that wait saying nothing (`Saying`, `ItemSpeaks`,
`FlushSpeaks`).  Each pass behind it is followed message by message.  A message that
is added or left out is not heard (`FillSpeaks`, `CleanSpeaks`), messages that are merged
are heard as one (`Folds`, `MergeSpeaks`), and repacking moves results only
(`GatheredSpeaks`, `RepackSpeaks`); together `RepairSpeaks`.  The bodies of the
upstreams leave words as they are: `WbSpeaks` with its placeholders and the
reasoning filled in, `Ta3Speaks` with the names disguised.

The second half is about a result that says something and whose call has a name.
`Promise` keeps both in sight through the four passes: merging and filling keep them
(`MergePromises`, `FillPromises`; a stub is made only where no result is), gathering
finds the result in the window of the head of its call, for the history is in time, and
of several results one that says something is chosen (`BestTells`, `ChosenTells`,
`RepackPromises`), and cleaning removes neither, since the id has both (`CleanupTells`).
What the parsers make of a result is neither an image nor a placeholder (`ParseTells`),
so what arrives is not taken for one (`RepairTells`, `WbTells`).

Only model-checked: liveness, which is beyond the prover (`RequestEnds` of both
modules, `PoolRecovers`, `OperationEnds`, `PollersEnd`, `DialogAnswered`,
`CrashReported`).  Every invariant and every action property of a passing run
is the statement of a theorem, three of them (`AnswerInv`, `StreamTrue`,
`StreamMatchesJson`) up to a stream that begins again; what is said of such a stream
is model-checked.

## 6. Where code and documents disagree

With a run:

- `ta3_replaced` (`ReplacementStands`): a browser login that replaces a pending one is
  stopped by the `finally` clause of the one it replaced (ta3/oauth.py:164), although
  the docstring at ta3/callback.py:175 says that starting a server replaces the old
  one, which is cancelled and closed.
- `answer_401` (`NothingBeforeRetry`): the docstring of `_sse_with_retry` (routes.py:507)
  says that an answer is repeated only before the headers are sent.  A stream that
  breaks after its first frames is refreshed and repeated all the same when the text of
  the error has the digits 401 (routes.py:203, 536-543; ta3.py:808 and custom_openai.py:175
  tell what the network said): the client then reads some pieces of one call and all of
  another, in a Responses stream also for items that are closed.  `RetryUnread` is what
  remains of the promise.

Stated in a module as a definition that says what the document says, and false in
the model as in the code; no run is spent on these:

- `SuspendedIsWholePool` (`AccountPool`): `_pick_account` passes only the candidates
  left after `tried` to `_raise_all_suspended` (chat.py:465), so a request whose first
  account had one network failure is answered "all suspended" with the waiting
  time of the other one; the health specification wants 429 only when the whole
  pool is suspended.
- `ResultDelivered` (`WbLogin`): the query of a pending login drops a finished slot of
  another one whose dialog has not asked yet (oauth.py:229); that dialog is told that
  its login does not exist, although the account was stored.
- `ExitInvalidatesReady` (`Sidecar`): the relay dies between its ready line and the
  store of the ready state (lib.rs:383); the exit event finds nothing to clear, and
  the dead relay is then reported as running until it is restarted.
- `PassedThroughAsIs` (`Convert`): a tool that `tool_disguise` passes through under its
  own name gets the arguments of its calls renamed all the same if ta3 has a tool of
  that name (ta3.py:367, against tool_disguise.py:109).
- `AnyHistoryPaired` (`Convert`): the docstring of `repair_tool_pairing` promises for any
  input that calls are followed by their results; a history that uses the id of a
  call twice is not.  `RepairHolds` speaks of histories that are in time (`InTime`).
- `NamesUnique` (`Convert`): two declared tools may be sent under one name, one of them
  disguised (`SearchReplace`) and one passed through (`Edit`), although the comment at
  tool_disguise.py:176 says that names have to be unique.
- `OnStaysOn` (`Convert`): thinking that is on without an effort is sent to ta3 as off,
  because ta3 takes a missing effort for "none" (ta3.py:179).
- `TruncationTold` (`Answer`): an answer that was cut off with `max_tokens`, the reason of
  an Anthropic upstream, is reported as complete (`completed`, `end_turn`) by both
  conversions of an answer that is not streamed (protocol_adapter.py:750-751, 803), while
  the stream of the same answer says `incomplete` and `max_tokens`; oai_adapter.py:437
  normalises the reasons for the stream and for Chat only.  `StreamMatchesJson` names this
  reason as its exception.
- `StartComesFirst` (`Answer`): an answer that consists of its end alone gets the closing
  events of the typed protocols without an opening one, against the order in the
  docstring of `AnthropicStreamAssembler`.
- `FailureRemembered` (`WbCatalog`): the comment at catalog.py:56 promises a negative
  cache of five minutes for failures; a fetch that fails raises and leaves none.

Seen while modelling, part of the models:

- `note_model_missing` replaces a 6004 entry that still runs (store.py:302), and the
  next clean stream deletes it, although store.py:313 and the health specification
  keep 6004 entries until they expire (`FeedMissing`, `FeedClear`);
- a cancelled save or an unreadable account file can undo another operation
  (`stale` in `AccountStore`);
- a caller that waited for the lock of an account which was deleted meanwhile
  refreshes the old row once more (`Reread`); a login during a refresh mixes the
  tokens of both (`torn`); the hook of the 401 retry goes round the lock
  (chat.py:507), and an error of WorkBuddy reaches that retry when its text, which tells
  what the upstream said or a number of seconds (chat.py:483-486), has the digits 401;
- the enterprise union raises when one side is empty and the other failed, and
  raises the first error, against two docstrings ("全败才抛", "最后一个错误"); transport
  errors skip the fallback to the enterprise endpoints; a negative cache
  outlives an account that is added again without a read in between;
- between comparing the session file and replacing it, or when there was no file to
  compare with, a write of the official client is overwritten, although
  WorkBuddy-IDE账号切换.md:144 says that such writes are refused; nothing ever
  invalidates the remembered key, so the retries that ide_switch.py:314 asks for fail
  until it expires; the logout mark is removed before the verification, not after, and
  a logout between the comparison of its hash and its removal is taken back
  (ide_switch.py:555-560, `late` in `crossed`), although WorkBuddy-IDE账号切换.md:76 puts the
  hash in front of the removal to keep it;
- the tables of the keys of a tool do not all lead back: what the agent's own table does
  not list is restored for the tool of the application that has the same native name,
  so a call of `websearch` comes back with `engine` and `max_results` for `searchEngine`
  and `maxResults`, one of `SearchReplace` with `replace_all` for `replaceAll`, and goes out
  under those names in the next request (`Borrowed`); a declared tool `subagent` gets
  `explore` in its calls, which it has not declared and which is sent on with the
  history (ta3.py:266-267, tool_disguise.py:89);
- a custom provider that answers 401 ends in a 500, because the retry asks it for a
  refresh it has not got;
- reasoning after text goes to an item of the Responses stream that is closed;
  calls without a name are dropped in typed streams; a client that leaves is
  logged neither as done nor as an error;
- Responses reasoning between an unanswered call and the next assistant message goes
  to the message of the earlier call; the branch for OpenAI clients drops sibling
  calls and ta3 drops images of assistants; ta3 leaves results without a call when
  a historical call without a mapping becomes text; ta3 and custom providers get no
  repair at all;
- an IM login leaves the refresh token of the earlier session in the row
  (`SaveAuth`), and the next `ensure_token` goes back to that session;
- a late exit event of the old relay drops the job of the new one while the new
  child is not stored yet, against the comment at lib.rs:425 (`raced` in `Sidecar`), and
  a start that is under way when the application exits is not killed.

Smaller hazards that no property is about:

- the cursor is shared by both realms, by retries and by all models, so two picks of
  one realm can hit the same account (chat.py:897, `OtherRealmPick`);
- a clean stream of an old request ends a suspension that newer failures have just
  earned, as the health specification wants (chat.py:837, `FeedSuccess`);
- `ensure_token` is awaited outside the try block, so one account whose refresh
  fails ends the request (chat.py:744, `TokenFails`);
- a login cancelled during the prefetch is reported as cancelled although its row is
  stored (oauth.py:180, `CancelTasks`), and without account information one person
  who logs in twice is stored twice (oauth.py:166);
- a TA+3 refresh or sync in flight during a logout writes the session or the models
  back (session.py:118, catalog_sync.py:81), and a rotation whose answer or write is
  lost leaves a used token in the row;
- a logout takes back a manual stop of the service (routes.py:1003); the fields of one
  configuration update are written one after the other (routes.py:1093);
- clearing the monitor starts its numbers again (monitor.py:72); the event table
  exceeds its limit between two prunings (db.py:158); two relays that start together
  scan for the same port (cli.py:142).

## 7. Left out

- *AccountPool*: what the request and the frames contain (payload rewriting,
  reasoning effort: `Convert`), which HTTP answer becomes which class of error (the
  classes are the choices of `StreamEnds`, `CredentialRejected`, `SessionRejected`
  and `PassThrough`).
- *AccountStore*: reads without the lock (`load_accounts` sees the last file that
  was put in place), the values of a patch, the creation of the directory.
- *WbLogin*: deletion of rows, parsing of tokens and expiry times, the prefetch's
  effect on quota and models.
- *WbTokens, WbCatalog*: what a model says of itself (limits, efforts, prices), the
  expiry of the caches by time; the forced load, which has no caller.
- *IdeSwitch*: the encryption and the layout of the session (a session is readable
  with its key or not), the search for the client's directory and process.
- *Ta3Session*: PKCE, the IM client's protocol, the HTML of the callback; a cancelled
  login whose row is being saved at that moment (that a save goes on when its caller is
  cancelled is `AccountStore`'s subject).
- *Answer*: the wording of errors, the byte layout of events and of usage, token
  counts (whether usage was given is kept); the same `Answer` treats the pool of
  WorkBuddy as one upstream, because what the pool does before the first frame is
  `AccountPool`.
- *Convert*: texts and their sanitising, fingerprints, whitespace-only messages,
  `max_tokens` and temperature, the structure of content blocks, the values of a
  call's arguments except the keys that are renamed.  A system piece stands for one that
  WorkBuddy neutralises, an agent's own prompt or one that is too long (chat.py:956-968);
  others keep their text.  An empty array of input items gets a user's placeholder
  (protocol_adapter.py:329) and stands as a request of one user piece.
- *Sidecar*: the data-directory pointer, request forwarding, window and tray,
  platforms without job objects (there a start stores no job: `jobless`); a process that
  cannot be assigned to the job object (lib.rs:372 does not look at the result) is taken
  for assigned, so `NoStrayTree` presupposes that assigning succeeds.
- *Not modelled at all*: check-in and quota, import and export of accounts (tolerant
  parsing followed by one store helper, whose interleavings are `AccountStore`'s);
  the upstream client and the realms (a request builder and a constant table); the
  service gate, state file and settings (one flag; one locked write each); custom
  providers' rows; the tool inventory (text only); the monitor's ring buffer and the
  event table (one lock, one append); the start of the relay process (a scan over
  sockets); the front end, which mirrors what the relay says; documents and build.
  `PROJECT.json` has the reason for each.

## 8. What could come next

- `AccountPool` over `AtomicStore` and `WbTokens` in one specification, to discharge the
  atomic feeds and the outcome of `ensure_token` instead of arguing for them.
- The TA+3 logout beside a refresh and a sync of the models in one specification.
- The port scan of two relays, and the numbering of the monitor across a clearing.
