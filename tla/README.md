# TLA+ verification of the bank server

The repository is a small bank: a server with a file-backed database, a
menu-driven client, and a program that tests the database. The TLA+ modules in
this directory model the database system call by system call, the controllers of
the server call by call, its accept loop and connections, the client read by read
and write by write, and the tables the client prints. TLC checks them on small
instances. TLAPS proves, for every instance, the main invariants and action
properties of the database, of the controllers, of the accept loop and of the client
(section 4).

## 1. The system

| component | state | operations | used by |
|---|---|---|---|
| record files (`lib/database.h`, `lib/database.c`) | `user.dat`, `account.dat`, `transaction.dat`: arrays of fixed-size records | `open`, `read`, `write`, `lseek`, `ftruncate`, always a whole record | every database function |
| record locks (`append_lock`, `rec_lock`) | the kernel's lock table, per process, file and byte range | `F_SETLKW` with `F_RDLCK`, `F_WRLCK`, `F_UNLCK`; any `close` of the file drops them | every database function |
| id counters (`init_uid` ..., `new_uid` ...) | `_c_uid`, `_c_aid`, `_c_tid` of each process, each under a mutex | set up from the file by `db_init`, incremented by each create | creates |
| database functions (`database.h`) | a descriptor, an offset and a record per call | create, update, delete, look up, count and list users and accounts; append, count and list transactions | controllers, `t_db` |
| session pool (`server.c:15-58`) | 100 slots with a user id or 0, a mutex | `new_session`, `get_uid_from_sid`, `close_session` | controllers |
| controllers (`server.c:102-597`) | locals of one request | twelve request handlers, each a sequence of session and database calls | `handle_request` |
| accept loop and dispatch (`server.c:599-663`, `700-720`) | the variable `nsd` shared with the new threads | `accept`, one detached thread per connection, one request per connection | clients |
| start and shutdown (`server.c:665-698`) | | `db_init`, socket set-up; SIGINT ends the process with `exit(0)` | |
| client (`client.c`) | a session id, the menu's `opt`, what is left in stdin | log in, then one connection and one of 13 request functions per menu choice | the user |
| messages (`lib/communicate.h`) | | a header, a request, a response, for lists a count and the items | client, controllers |
| `safe_read`, error printing (`lib/io.c`) | | reads until the record is complete | all |
| test program (`test/database.c`) | a process of its own on the same files | a fixed script of database calls | |
| libfort (`lib/fort.c`, `lib/fort.h`) | a table: rows of cells, properties, a current cell | vendored third-party table printing: build, lay out, print | client |

The components interact in four ways. The client sends one request per
connection. The accept loop starts a thread for it. The thread's controller
calls the session pool and then the database, several calls in a row with
nothing held in between. Database calls of different threads meet in the files,
in the counters, and in the lock table of the kernel.

What is hard here: the locks of `fcntl` belong to a process. They keep the
server and the test program apart, and do nothing between the threads of the
server. All the threads of the server really have is the mutex of the
counters, `O_APPEND`, and the atomicity of reading and writing one record. A
delete moves every later record one place down, one `read` and one `write` at a
time, while scans, updates, appends and other deletes run; and the process may
be killed at any of these steps.

Around the database: the accept loop gives each thread the address of one variable;
descriptor numbers are used again as soon as they are closed; nobody looks at how
much `safe_read` has read, so that an early end of a connection is taken for a
message; a write to a client that is gone ends the server. In the client `scanf`
leaves in stdin what the next read was not meant to find.

What makes each component correct:

- record files: a record is never half one user and half another; no record is
  lost that nobody deletes; the journal only grows.
- counters: an id that is handed out is in use nowhere, also after a restart.
- functions: each takes effect at one moment and answers what it saw then; the
  answer tells whether the record was stored; every call returns. User names
  are unique and linked accounts exist.
- locks: while a process scans or shifts, no other process changes what it scans
  or shifts; nobody waits for ever.
- session pool: a session id names the user who logged in with it.
- controllers: balances stay at or above zero and agree with the journal; only
  an administrator changes users and accounts; a list has as many items as its
  count announces.
- accept loop: every connection is served by exactly one thread, an answer goes to
  the client that asked, whoever waits is served.
- client: what is sent is what the user has asked for, what is reported is what was answered,
  every exchange ends.
- tables: what is printed fits the buffer, its lines meet, nothing is hidden.

## 2. The modules

| module | models | status |
|---|---|---|
| `RecordFile` | the record types and a file as a sequence of records | done |
| `RecordLocks` | POSIX record locks over the slots of a file | done |
| `DatabaseApi` | the functions of `database.h` and their status codes | done |
| `Database` | `lib/database.c`: every function, one action per system call, crash and restart | done |
| `AtomicStore` | what `database.h` promises: each call in one atomic step | done |
| `DatabaseAtomic` | the refinement mapping from `Database` to `AtomicStore` | done |
| `DatabaseClaims` | what the comments of `database.c` say of the stored records | done |
| `MCDatabase` | instances for TLC | done |
| `Database_proofs` | proofs about `Database`: types, identities, ids, the journal | done |
| `Database_locks_proofs` | the record locks between processes of one thread | done |
| `Database_growing_proofs` | scans of files that only grow; histories; what a create reports is what it has done | done |
| `Database_apart_proofs` | deletes that are kept apart | done |
| `DatabaseAtomic_proofs` | what comments say of the users, and the refinement of `AtomicStore` | done |
| `Sessions` | the session pool of `server.c` | done |
| `Server` | the twelve controllers on top of `Database` and `Sessions`, with the clients that call them | done |
| `ServerProperties` | what the server owes its clients | done |
| `Server_proofs` | proofs about `Server`: the database's theorems carried over, sessions, balances, the journal, lists, and what holds for one client: rights and books | done |
| `MCServer` | instances for TLC | done |
| `Connections` | the accept loop, the threads and their connections, with the properties | done |
| `Connections_proofs` | proofs about `Connections`: every safety property of its run | done |
| `MCConnections` | instances for TLC | done |
| `Table` | libfort: the functions the client's tables go through, as operators | done |
| `ClientForms` | what each function of `client.c` asks, sends, reports and prints | done |
| `Client` | one client in motion, its user, and the server as a client sees it | done |
| `ClientProperties` | what the client owes its user | done |
| `Client_proofs` | proofs about `Client`: what is sent, what is reported, how it ends | done |
| `MCClient` | instances for TLC | done |

`Server` EXTENDS `Database` and `Sessions`; `Client` EXTENDS `ClientForms`, which
EXTENDS `Table`. `Server`, `Connections` and `Client` are three views of one exchange:
`Server` what a request does to the data, `Connections` which thread reads and
answers on which connection, `Client` what one end of a connection does with it. Each
abstracts the other two to what it can see of them.

### State and actions of `Database`

`file[f]` is the contents of a file. A position is counted in records, since
every offset the code reaches is a multiple of the record size. `ctr[p]` are the
counters of process `p`, `boot[p]` how far its `db_init` is, `lock[p][f]` what it
holds on each slot. Each thread has a program counter `pc`, the call `op` with
the caller's struct, the `stage` of nested look-ups (`create_user` looks up a
name, then an account, then appends; `delete_account` looks for a linked user,
then for the account), the offset `cur`, the first slot `from` of the range
locked, the record `iter` last read, the caller's array `out` and the status
`ret`.

| `pc` | action(s) | system call |
|---|---|---|
| `lock` | `BeginScan`, `OpenFails` | `open`, `rec_lock(F_RDLCK, 0, 0)` |
| `scan` | `ReadHit`, `ReadMiss`, `ReadInto`, `ReadEOF` | `read` of one record, and what the loop does with it |
| `unlock` | `EndScan` | `rec_lock(F_UNLCK, 0, 0)` |
| `wlock` | `LockRecord`, `LockTail` | `rec_lock(F_WRLCK, ...)` of one record, or of everything behind the record found |
| `write` | `Overwrite`, `OverwriteFails` | `write` of an update |
| `shift`, `shiftw` | `ShiftRead`, `ShiftEOF`, `ShiftWrite`, `ShiftWriteFails` | the loop of a delete; the `lseek`s belong to the write |
| `seekend`, `trunc` | `SeekLast`, `Truncate` | `lseek(-1 record, SEEK_END)`, `ftruncate` |
| `wunlock` | `EndWrite` | `rec_lock(F_UNLCK, ...)` |
| `newid` | `NewId` | `new_uid`, `new_aid`, `new_tid` |
| `aopen`, `alock`, `append`, `aunlock` | `OpenForAppend`, `LockEnd`, `AppendRecord`, `AppendFails`, `UnlockEnd` | `append_lock`, `write` with `O_APPEND`, `append_lock` |
| `size` | `SeekSize` | `lseek(0, SEEK_END)` |
| `close` | `Close` | `close`, which also drops the process's locks on the file |

`Invoke` starts a call (`Call`: one of `Ops`), `InitCounter` is one of the three counters set up by
`db_init` (the scan is one step: it runs before the process has a second thread,
and other processes are kept from writing by the read lock on the whole file),
`Crash` is the end of a process wherever its threads are: `exit(0)` in the
signal handler, or a kill. `Finished` marks the end of a bounded run, so that
TLC's deadlock check is on in every run.

`RecordLocks` has one slot per record up to `MaxSlot`, which stands for every
position from there on; `MaxSlot` is larger than any file of the runs.

### State and actions of `Sessions` and `Server`

`Sessions` is `spool`: one slot per session with a user id, 0 if free. Each of its
operations is one step, being under the pool's mutex. A session id is a slot
number from 1. If the pool is full `new_session` returns the number behind the
last slot, and what `get_uid_from_sid` reads there is the mutex, which it holds at
that moment: 1, or 2 if another thread waits.

`Server` EXTENDS `Database` and `Sessions`. A controller is a chain of database
calls: `Invoke` starts one, the `Step` actions of `Database` run it, interleaved
with every other thread, and when `pc[t]` is `"done"` the controller goes on with
`ret[t]` and the record in `iter[t]`. `at[t]` says what it waits for; `user[t]`,
`acc[t]` and `resp[t]` are its locals `u`, `acc` and `resp`. `op[t].rec` is the
struct it has passed, which the call may have changed (`create_account` sets the
id). A client has one request under way at a time and the server one thread for
it; both are `t`. `sid[t]` is the session id the client holds. `owner[t]` is a
history variable: whose session it was given.

| code | action(s) | `at` |
|---|---|---|
| `handle_request`, the header | `Request` | `ready` to `login`, `logout` or `session` |
| `login_controller` | `FindLogin`, `RejectLogin`, `OpenSession` | `login`, `password` |
| `logout_controller` | `Logout` | `logout` |
| the client ends without logging out | `Leave` | `ready` |
| `get_uid_from_sid` and `get_user_from_id`, in nine controllers | `FindUser` | `session` |
| that call failed, no administrator, "User can't delete himself" | `Refuse` | `user` |
| `password_change_controller`, `modify_user_controller` | `ChangePassword`, `ModifyUser`, `Finish` | `user`, `last` |
| `create_user_controller` | `CreateJointUser` or `CreateAccount`, `CreateUser`; `Finish` | `user`, `newaccount`, `last` |
| `delete_user_controller`, `delete_account_controller` | `Delete`, `Finish` | `user`, `last` |
| `transaction_controller` | `FindAccount`, `AnswerAccount`, `StoreBalance`, `StoreFails`, `LogTransaction`, `Finish` | `user`, `account`, `stored`, `last` |
| `balance_enquiry_controller` | `FindAccount`, `AnswerAccount` | `user`, `account` |
| `get_users_controller`, `get_accounts_controller` | `Count`, `CountFails`, `Announce`, `SendItems` | `user`, `count`, `list` |
| `view_details_controller` | `FindAccount`, `AnswerAccount`, `CountTransactions`, `CountFails`, `Announce`, `SendItems` | `user`, `account`, `count`, `list` |
| `kill_server`, then `server_init` | `Stop`, `Start` | any |

`get_uid_from_sid` and the start of the look-up are one step: nothing between them
is shared. The response is complete when `at` is `"ready"` again; the items of a
list are in `resp[t].items`, `NoRec` for a place of the array that the getter has
not written. After `Stop` the clients keep their session ids and the pool is
empty.

### State and actions of `Connections`

`nsd` is the variable of `main`'s loop, `queue` the kernel's queue of connections,
`fds` the table of descriptors: for each number the connection it stands for. A
thread `thr[t]` has a program counter, the descriptor it has read from `nsd`, the
connection a waiting `read` has found (`at`), where its header and its body came from
(`head`, `body`), the controller chosen (`act`) and the answers left to write. For
each connection there are the client's state `cst`, the kind of its request, how much
it has sent, `rx`, what of that is unread, `got`, the answers received, and whether it
was reset. `crossed`, `unasked`, `overrun`, `failures` and `interrupted` are history.

| code | action(s) | `thr[t].pc` |
|---|---|---|
| `server_init`, `create_socket` | `Start`, which may fail | |
| `main`'s loop: `accept`, `pthread_create` | `Accept`, `AcceptFails` | |
| `kill_server` | `Interrupt` | |
| `int nsd = *(int *)sock_desc` | `TakeDescriptor` | `start` |
| `safe_read` of the header | `BeginRead`, `ReadHeader` | `header` |
| `safe_read` of a request's structure | `BeginRead`, `ReadBody` | `body` |
| a controller's writes, and `SIGPIPE` | `Write`, `BrokenPipe` | `write` |
| `close`, the end of the thread | `CloseConnection` | `close` |
| a client: `connect`, its two writes, its `close`, its end | `Connect`, `SendHeader`, `SendBody`, `Leave`, `Quit` | |

A request is of one of two kinds: with a structure behind the header and one answer,
or without and with a list. All twelve controllers are of one of these forms. A read
that ends without data leaves the buffer as it was, and then any action may be in it.

### `Table`, `ClientForms` and `Client`

`Table` follows the names of libfort: `ft_write_ln` is `WriteLn`, `ft_printf_ln` is
`PrintfLn`, `ft_set_cell_span` is `SetCellSpan`, `table_rows_and_cols_geometry` is
`ColumnWidths` and `RowHeight`, `table_geometry` is `Capacity`, `ft_to_string` is
`TableToString`. A text is what it stands for and how many bytes it takes; a formatted
row is a sequence of fields, each a sequence of the pieces between its own `'|'`.
Lines are records of their width in characters, their bytes and where their
boundaries are.

`ClientForms` has one record per request function, named like it: the steps of its
form, its action, whether a structure follows the header, and which failures have a
message. A step is a read, or what the function puts into the request itself: `withdraw`
negates the amount (`client.c:90`), which is all that tells it from a deposit, and
`create_user` sets the account to 0 (`client.c:374`), which is all that tells it from
`create_joint_user`. `Structure` has the fields of each request in `communicate.h`. The tables are built by the calls the code makes, in their order.

`Client` runs them. `input` is stdin, a sequence of characters in which a number
typed in digits, with its sign, counts as one; `opt` is `menu`'s variable, which no round resets;
`fields` is the request, `resp`, `iter` and `i` the buffers and the loop over the
items, `listed` the items put into the table, `sd` the connection, `asked` what the
server has received, `inbox` what it has sent. `typed`, `clean`, `answer` and `cut`
are history: what the user answered to which prompt, whether it was of the kind asked
for, what the server sent, and whether it was stopped in this round.

| code | action(s) | `pc` |
|---|---|---|
| `connect_to_server` | `ConnectToServer` | `connect` |
| `scanf` of the choice and `switch (opt)` | `ReadOption` | `menu` |
| `scanf`, `fgets`, `getchar` of a form | `ReadNumber`, `ReadLine`, `SkipNewline` | `form` |
| `amt *= -1` of `withdraw`, `req.aid = 0` of `create_user` | `Assign` | `form` |
| the writes of header and structure | `WriteHeader`, `WriteBody`, `WriteFails`, `BrokenPipe` | `header`, `body` |
| `safe_read` of the response and the `if` behind it | `ReadResponse`, `ReadFails` | `response` |
| the loop over the items | `ReadItem`, `ReadItemFails`, `PrintItems` | `items` |
| `wait_for_enter` | `WaitForEnter`, `SkipRest` | `enter`, `rest` |
| `close`, return to the menu or exit | `Close` | `close` |
| the user | `Type` | |
| the server: a full answer and its `close`; SIGINT | `Answer`, `Stop` | |

A variable that was never written holds `Unset`; an uninitialised `opt` may be any
choice, an uninitialised response any response. `AnswersTo` is what the controllers
send: one response, for a list the announced items or one failed item.

## 3. Runs

The runs of `Database` use `Stored`: two users on two accounts, a third account without a
user, and two transactions (`update` has a third user). That is the smallest
store in which a record can be in front of, at and behind a deleted one, an
account can be linked or not, and a history has entries of another account
between its own.

| run | bounds | shows |
|---|---|---|
| `threads` | 2 threads of one server, 2 calls each, 1 crash | types, `OneIdentityPerUid`, `NewIdIsUnused`, `HistoryHasNoGaps`, `JournalOnlyGrows` |
| `crash` | 1 thread, 3 calls of any kind, 2 crashes, `open` and `write` may fail | `DoublesOnlyByCrash`, `OnlyTargetsVanish` |
| `apart` | 2 threads, 2 calls each of any kind, those that do not stay atomic in company kept apart | atomicity of every call, and the claims of the comments |
| `procs` | 2 processes of 1 thread, 2 calls each | `OneShiftAtATime`, `ScanSeesFrozenFile`, `EveryCallReturns` |
| `update`, `truncate` | 2 threads, 1 call each | the counterexamples to two comments of `database.c` |
| `server_one` | 1 client, 4 requests of every kind, a pool of 2 slots | `BooksBalance`, `RightsAreModified` |
| `server_two` | 2 clients, 2 requests each that scan, overwrite, append and delete | `SessionNamesItsUser`, `BalanceNeverNegative`, `SuccessIsLogged`, `JournalNamesOwner`, `DetailsAreComplete`, `EveryRequestIsAnswered` |
| `server_growing` | 2 clients, 2 requests each, no deletes, `open` and `write` may fail, 1 restart | `ListsAreFilled`, `OthersAreLeftAlone`, `ScanMissesNothing`, `StoredIffReported`, `RecordsStay` |
| `lost` | 2 clients, 2 requests each | `BooksBalance` fails with concurrent deposits |
| `conn_loop` | 2 connections, 2 threads, 2 descriptors, a queue of 1, 1 failing `accept`, SIGINT | `OneThreadEach`, `OnlyOverrunsStrand`, `AnswersGoToTheAsker`, `ActsOnRequest`, `GoesDownForAReason`, `EveryoneIsServed` |
| `client_forms` | login and 2 menu choices of all 14, positive and negative numbers, lists of up to 2 items, lines of up to 4 characters | `SentAsMeant`, `ReportIsTrue`, `ListsShowWhatWasSent`, `LeavesForAReason`, `EveryRoundEnds`, and of the tables `EverythingIsPrinted`, `LinesMeet` |

Two threads with two calls each are enough for these questions: every hazard of
section 1 is a race of two calls, and the second call of a thread sees what the
race left behind. A crash in the middle adds the restart of the counters.

The runs of `Server` start from `Bank`: an administrator and an ordinary user with a
joint account, an account whose user is gone, and a journal that accounts for both
balances. The requests (`Everything`) succeed and fail in every way the
controllers tell apart: wrong passwords, unknown users, existing names, oneself,
linked accounts, funds that are missing. With two clients the requests are those
that race: `Contended` has one for each way to use a file, the deletes removing the
first record so that the others move; `Growing` has all that delete nothing. A
client's first request is its login, so two requests each are one race of two
controllers; four requests of one client reach the third login, when the pool of
`server_one` is full. `MaxCalls` is never reached: a request makes at most four
database calls.

`apart` runs `ApartSpec`: a step is taken if no call that is in progress beside
another is outside of `AtomicFns` (`KeptApart`). What remains are all sequences of
calls, by one thread or by two in turn, and all interleavings of the functions in
`AtomicFns`: everything about the journal, the look-ups, updates and counts, and
`create_account`. Outside are the deletes, which move records, `create_user`, which
looks up what another call may change before it writes, and the two lists of whole
tables, which may see one update and miss an earlier one.
Its threads are interchangeable (`SYMMETRY`): the database treats them alike, and
its properties are about states and steps only, none about what must happen eventually.

`conn_loop` is the smallest instance with every race of the loop: a second accept
before the first thread has run, a descriptor that is closed and given out again
while another is in use, a full queue, a thread for the descriptor -1. A third
connection adds only longer queues. Of its clients one at most is killed.

`client_forms` has two choices per behaviour, so that every function runs after every
other one and finds what that one left in stdin, with `opt` as it was. The user types
numbers, texts that fit, and texts that do not; the data have names with and
without a `'|'`, of widths on both sides of the titles.

What the runs found. With calls kept apart everything the comments of `database.c` say
is true, and each call is atomic (`apart`). With two threads of the server
`update_user` may replace another user's record after a delete has moved it
(`update`), and a delete may cut off a user that was just added (`truncate`). Four things survive every
interleaving and crash all the same: records never mix two users, new ids are
unused, the journal only grows, and histories have no gaps.

With requests one at a time the books balance and rights are only changed by
`modify_user` (`server_one`). With two clients a deposit can be lost (`lost`), but
no account is overdrawn, whatever is reported is in the journal under the right
account, and histories are complete (`server_two`).

In the accept loop, whatever goes wrong goes wrong because `nsd` was overwritten
before a thread had read it (`server.c:711`): otherwise no two threads share a
descriptor, none is lost, answers go where they belong and everybody is served.
A request that nobody made can also come from an early end of a connection or from a
failed `accept`, as the results of both are not looked at. A client that goes away
before its list is complete can end the server for everybody (`SIGPIPE`).

The client sends what the user has asked for as long as the answers are what the
prompts ask for: every field of the structure holds what was typed for it, but that the
amount of a withdrawal is negated, whatever its sign, and the account of a user without
a joint account is 0. A request with a field that nobody has set would be noticed, as
would one that drops either assignment. The client reports what was answered unless
the server is stopped in the middle. The tables fit and their lines meet for all data; rows with a `'|'` in a name are missing.

Five more counterexamples follow from the same causes and have no run of their own:

- `UnameIsUnique` with two threads: both calls of `create_user` look the name up
  before either appends, though `database.c:259` says "Ensures that uname is unique".
  `truncate` with two creates of one name as `Ops` shows it.

- `LinkedAccountExists`, the other half of `UsersAreConsistent`, with two threads: `delete_account` finds no linked user,
  `create_user` links one, the account is removed.
- `RightsAreModified` with two clients: a password change writes back the rights it
  has read before an administrator changed them.
- `SuccessIsLogged` with a failing `write`: the result of `append_transaction` is
  ignored.
- `SessionNamesItsUser` with a restart: a client that outlives it logs out and ends
  the session of somebody who has logged in since.

`HistoryHasNoGaps`, `ScanMissesNothing` and `StoredIffReported` look at a finished
or running call; the first covers `limit` 2, which is both below and at the number
of matching transactions in that run.

### Fairness

`FairSpec` has weak fairness of every thread's step and of `InitCounter`. The
kernel schedules every runnable thread, and a thread waiting in `F_SETLKW` is
woken when the lock is free. Weak fairness is all that is assumed: a waiter whose
lock is free at some times and taken at others may starve, but in the runs calls
are finite in number (`procs`). `Call` and `Crash` are not fair: nobody has to call, and
nothing has to crash. With failing writes a shift may go on for ever (it writes
the same record again and again), so the runs with liveness have no faults.

`Connections` has weak fairness of `main`'s loop, of every thread and of what a
connected client still has to do. `Connect`, `Interrupt`, `Quit` and `BrokenPipe` are
not fair. A client that has sent its header sends its body: there is no input in
between. The number of failing accepts is bounded (`MaxFailures`): if every accept
failed nobody would be served.

`Client` has weak fairness of the client itself, of the user, who answers the
prompt on the screen, and of the server, which answers a complete request as long as
it is up: that is `EveryoneIsServed` seen from the client. `EveryRoundEnds` therefore
relies on a server that has not overwritten the descriptor of the connection before its
thread has read it (`server.c:711`); after such an overrun a client may wait for an
answer for ever. `Stop` is not fair.

`FairServerSpec` has weak fairness of `Serve(t)`, everything the thread of a request
does, and of `Start`. A thread that handles a request is a thread of the kernel and
is scheduled; the pool's mutex is never held across a wait. Clients need not ask
for anything (`Request` and `Leave` are not fair), and the server need not be
stopped.

## 4. Proofs

The theorems are about any sets of threads, processes, calls, requests and records,
any number of crashes and any faults, under the assumptions that the modules name
(`...Assumption`) and that TLC evaluates in every run. What a theorem needs beyond
them is a hypothesis in its statement. Each hypothesis is a named definition:

| hypothesis | says | holds where |
|---|---|---|
| `SingleProcess` | all threads belong to one process | the server; `t_db` beside it would draw the same ids |
| `OneThreadPerProcess` | no two threads of a process | `t_db`, or a server with one request at a time, against other processes |
| `ApartSpec` for `Spec` | calls outside of `AtomicFns` run when no other is in progress | a server with one request at a time, or `t_db` by itself: `AloneIsApart` proves that one thread always keeps apart |
| `NoDeletes`, `NoDeleteRequests` | no call, no request deletes | the situation in which the code keeps its promises to concurrent users |
| `FreshCreates`, `NoHoles` | the caller leaves the id 0, and no stored id is 0 | the first id given out is 1 (`database.c:69`), and the controllers set no id in the struct of a create |
| `NoDoubles`, `NoDebts`, `KnownOwners`, `StartsConsistent` | the files the system starts with have no id twice, no negative balance, no entry of somebody unknown, no user name twice and no user without an account | files that this program has written |
| `BooksAreKept`, `NoStrayEntries` | in the files the system starts with every balance is the sum of its journal entries, and no entry is on an account with an id above all stored ones | files that this program has written for one client; a restart after the last account was deleted breaks the second |
| `OneClient`, `NoRestarts` | there is one client thread, and nobody kills the server | a server with one request at a time, from its start to its end. With two clients both properties fail (`lost`); a kill between the write of the balance and that of the journal leaves them apart |
| `ArraysHaveRoom` | no list of users, accounts or transactions is asked for with an array of length 0 | there the code writes behind the array (`server.c:275`) and returns the record, which no caller of an atomic list would get |
| `NamedLogins` | nobody logs in with an empty name | a user read from a hole has one |
| `RoomForAll` | a session is opened only while a slot is free | "No check for filled pool" (`server.c`) |
| `Faults = {}`, `NoFaults` | no `open` or `write` fails, and for `NoFaults` no process is killed either | `SuccessesAreLogged`, where the code ignores a status, and `CallsAreAtomic`: a delete that is killed half way is no atomic step |
| `"open" \notin Faults` | no `open` fails | `UsersStayConsistent`: `create_user` takes the failure of its second look-up for success |

`crashes = 0` inside a property means "until the first restart".

### The database

`Database_proofs`. `TypeCorrect`: `Spec => []TypeOK`. `TypeOK` is not inductive:
that the offset of a write is not negative follows from the program counter.
`TypeInv` adds `Control`: which functions, stages, offsets and records go with each
program counter. `IdentityIsKept`, `IdsAreFresh` and `JournalIsAppendOnly` use one
inductive invariant, `IInv`. `OneIdentityPerUid` only speaks of the records on disk
and the records read; the record in the hands of `update_user` and `create_user` is
about to join them, so the invariant is about all of these (`Known`). It needs that
a fresh id is really fresh: every id on disk, in a read record or about to be
appended is at most the counter (`OnDiskBounded`, `InHandBounded`), and no two
threads append the same id (`Unused`). While a process is not up its counter is not
set, and then no thread of it has anything in hand. And it needs that what an update
writes is an identity it has read (`FoundIsKept`).

`Database_locks_proofs`: `ShiftsAreApart`, `ScansAreStable`. `LockInv` says that the
lock table never grants a write lock on a slot beside another process's lock
(`Exclusive`), and of each program counter which slots the thread's process holds
(`Holds`): a scan all of them for reading, a shift everything behind the record found.
Two shifts meet in the last slot, which every tail contains. One thread per process is
needed: a second thread's `close` drops the locks of the first.

`Database_growing_proofs`: `RecordsKeepTheirPlace`, `ScansPassByNothing` from
`GrowInv`: while nobody deletes, what an update has found is where it will write
(`Found`), and what a scan has passed does not match (`Passed`), since overwriting
keeps what records are looked up by. `HistoriesAreComplete` needs no hypothesis at
all: the journal is only appended to, so `out` is at each moment the history of the
part that has been read (`Gathered`). `HistoryIn` is a recursive function of the
length read, since nothing can be proved of `SelectSeq`; what is needed of it is
proved by well-founded induction, from a form of it without a parameter
(`AllNumbers`).

In the same module, `ReportsAreTrue` from `RepInv`: from the moment the id is
issued, the record is on file exactly if the append was done (`Report`); nobody else
has the same id (`Distinct`).

`Database_apart_proofs`: `BystandersSurvive` from `ApartInv`: the record at the
scan's position is the target (`AtTarget`), and while the tail is copied down the
slot to be overwritten holds the record to be deleted or one that has a copy in
front of it (`SpareIsNext`). Between two steps of one call the others either stand
still or call functions of `AtomicFns`, which leave every record its place and its
identity (`OthersKnow`). `DoublesAreFromCrashes` counts the copies
(`DoubleInv`): one more record than ids while a delete is copying, and that one stays
if the process is killed.

`DatabaseAtomic_proofs`. `UsersStayConsistent` needs `ClaimInv`: what the look-ups of
`create_user` and `delete_account` have found out is still true at the write
(`Established`), because nobody else runs between the two. `UpdatesKeepNames` follows from
`ApartInv`. `CallsAreAtomic` is the refinement, step by step: `NextImplements` shows
that each step of `Database` is one of `AtomicStore` or leaves `tableBar`, `reqBar`,
`phaseBar` and `answerBar` as they are. Four kinds of steps are visible: the call
itself, a `read` that ends the last look-up, a `write`, and the lock of a delete's tail.
All others are silent: before the effect (`EarlyStep`) because nothing is answered yet,
after it (`LateStep`) because status and records stay as they are, and while a tail is
copied (`ShiftStutters`) because the file without its spare slot does not change
(`CopiedDown`, `CutOff`). `AtomicInv` adds to `ApartInv` and `Established` that a call
which is about to write has no status yet (`Clean`), that an array which is being
filled is not full (`Room`), and that a list holds what was read (`Listed`, `Gathered`).

### The server

`Server_proofs`. A step of `Server` is a step of `Database`, a call a controller makes
(`ServerCall`), an answer, or a restart (`ServerSteps`). `SInv` adds to `TypeInv` the
types of the server, for each `at[t]` which request and which call it goes with
(`Waiting`), and that a look-up which reports success has brought back a record that
was looked for (`Looked`). So every call is one of
`database.h` with a struct of its kind, and the invariants above carry over:
`ServerTypes`, `ServerKeepsIdentities`, `ServerKeepsPlaces`, `ServerReportsAreTrue`.
On top of them:

- `SessionsAreNotMixedUp` (`SessionInv`): the slot of an id that a client holds has
  the client's user, and no other client has that slot.
- `NoAccountIsOverdrawn` (`BalanceInv`): no negative balance is in a file, in a record
  being moved, or in the struct of a call that will write it. No other hypothesis
  than `NoDebts`: deposits may be lost, but nothing is overdrawn.
- `SuccessesAreLogged` (`LoggedInv`): after its `write`, the record of an append is in
  the journal, and nothing leaves the journal.
- `EntriesNameTheirOwner` (`OwnerInv`): user and account of an entry belong together in
  every record of that user that is on disk or in hand (`Owned`).
- `OnlyOwnersWrite` (`OnOwnBehalf`): the record that an update has found is still the
  one that was looked up for the request.
- `DetailsAreSentWhole`, `ListsAreSentFilled` (`ListInv`): the count announced is at
  most the length of the history when the getter starts, and the getter fills as many
  places as were announced.

Two theorems are about `OneClient`, where the code keeps what it fails to keep in
company. Deletes are allowed in both, so a record may move and be on file twice for a
while. `OneInv` says which copy is the spare one (`SpareSlot`) and that there is no
other (`NoTwins`), and that what a look-up has brought back is still what is stored
(`Current`): the controller that stored it in a local variable has been alone since.

- `RightsAreChangedOnRequest` (`RightsInv`): the struct of an `update_user` that is in
  progress comes from `modify_user` and its request, or it carries the rights that are
  on file (`RightsOf`).
- `BooksAreBalanced` (`BooksInv`): between the `write` of a balance and that of its
  entry the account is ahead of the journal by the amount of the request (`Owing`,
  `Due`); at all other times balance and journal agree (`Balanced`). That the new
  balance is the old one plus the amount needs `AmountKept`, from the look-up through
  both calls. A new account starts with nothing, so no entry may be on its id
  (`NewIsEmpty`), although entries of deleted accounts stay: their ids are below the
  counter (`EntriesKnown`). The sum is a recursive function of the length
  (`BookedIn`); what an appended entry adds to it is proved by well-founded induction.

### The accept loop

`Connections_proofs`: every safety property of the run. `CInv` holds the types, that a
connection is in one place (`OnePlace`: not yet made, in the queue, open, over), the
shape of each thread and, unless `nsd` has been overwritten, `NoMixUp`: descriptors in
use and live threads belong to each other one to one, and what a thread has read is
what its client has sent. So `NoDescriptorIsShared`, `NoDescriptorIsLost`,
`AnswersAreNotCrossed`, `NothingIsDoneUnasked` and `NoOtherWayDown` show that the
shared variable (`server.c:711`) is the only source of these failures.

### The client

`Client_proofs`. `VerdictsAreTrue` and `ClientsLeaveForAReason` follow from `RInv`, what
both ends of the connection know of each other: what the server has received is the
beginning of what the chosen function sends (`AskedInOrder`), and a client that waits
has the whole answer in front of it (`WireOK`). `RequestsAreAsMeant` is about stdin and the request
that is filled in from it. `Tidy` says what is in stdin at each prompt: whether the
newline behind the menu choice is still there depends on the function, and each form
either drops it or reads a number, which skips it. The fields that have been read hold
what was typed (`FieldsAsTyped`), and a form that is through holds what is meant
(`FieldsAsMeant`), after the last read or after the assignment behind it.
`FormsAreSound` checks the forms one by one, and `FormsFillStructures` that each sets
every field of its structure.

### Only model-checked

- Liveness (`EveryCallReturns`, `EveryRequestIsAnswered`, `EveryoneIsServed`,
  `EveryRoundEnds`): fairness and `ENABLED` are out of the prover's reach.
- `ListsShowWhatWasSent`, `EverythingIsPrinted`, `LinesMeet`: the tables are built by
  folds over rows and cells.

## 5. Not modelled

- Errors of `read`, `lseek`, `ftruncate`, `close`: the code prints a message and
  goes on; a read that keeps failing would loop for ever. Errors of `F_SETLKW` are
  ignored by the code; none can occur here, since a deadlock of record locks needs
  two processes that each hold one range and wait for another, and no function
  holds a range while it waits.
- Errors of `db_init`: the program ends at once.
- A `write` that stores or sends less than it was given: the code compares its result
  with -1 only, and goes on. A record or a message is written as a whole or not at all.
- 64-bit ids, `int` truncation in `new_uid`, floating-point balances.
- Situations that no document of the repository says anything about: two
  administrators who delete or demote each other, a fresh database without any user,
  the server and the test program drawing the same ids from their own counters.
- Names, passwords and the administrator flag are one value `info` in `Database`:
  the database stores them and looks at none of them but the user name.
- In `Server`, failing connections in the middle of a request: the code prints a
  message and goes on with an uninitialised request. `Connections` has them, without
  the data. `SIGPIPE` is `Stop` in `Server`.
- In `Connections`, a failing `pthread_create` (the connection would stay open) and a
  message that arrives in part. After an overrun a read may get the other structure of
  a request; how many bytes of it are left then is not modelled: it is taken whole.
  A request that is read from nothing may hold any session id; that `get_uid_from_sid`
  looks it up without a check of its range (`server.c:45`), and may end the server in
  doing so, is left out: the garbage has no data here.
- In `Client`, an end of stdin (`wait_for_enter` would loop for ever), input typed
  before its prompt is there, the session id in the header (it is `sid` in `Server`),
  a restart of the server between two rounds, and a time stamp that `localtime`
  cannot convert (its result is used unseen at `client.c:273`).
- In `Table`, wide characters, styles and colours (the client sets none), alignment
  within a cell, failing allocation, and the functions of libfort that the client does
  not reach: about half of `fort.c` is the same code for `wchar_t`, border styles, or
  copying. `fort.h` is declarations.
- What `close_session` of the id behind a full pool does: it clears the word of the
  mutex while it holds it. In `Sessions` it changes no slot.
- The write of one record behind an array of length 0 (`server.c:275`, `399`, `538`):
  what it destroys depends on the allocator. The model keeps the record, and no item
  is sent.
- Time stamps, output, the Makefile.
- The script of `test/database.c`: the program is a second process in `procs`, with
  calls of any order.

## 6. Plan

1. Lemmas about the operators of `Table` that use no fold.
2. The pool at its limit as a question of its own; ids as 64-bit and 32-bit numbers
   (`new_aid` and its siblings).
