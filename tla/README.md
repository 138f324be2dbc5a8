# Verification of evenscribe-collector

TLA+ models of the evenscribe collector, checked with TLC, and theorems about
them, proved with TLAPS. `PROJECT.json` maps every definition to the lines it
models and lists the runs, the mutants, the hazards and the theorems.

The collector is one process. It accepts connections on a UNIX socket, reads
JSON log messages from them, parses each into a row, and saves rows in batches
to Postgres or ClickHouse. It has 1 main thread, 2 connection workers, 4 read
workers, 4 write workers and a sync worker, and 3 shared deques. The same
program, started with other arguments, installs, starts and stops itself as a
service.

## Inventory

| Component | Source (src/src) | State | Operations | What makes it correct |
|---|---|---|---|---|
| Hand-over stages | `run_*.cpp`, `socket.cpp` | `conn_queue`, `read_queue`, `insert_statements`, each with a mutex and a condition variable | push_front and broadcast; wait, test, pop or drain; sleep, test, drain | mutual exclusion, no lost wakeup, no pop from an empty deque, everything is taken |
| Receiving half | `socket.cpp`, `run_postgres.cpp` 10-59 | descriptors, one buffer on the stack of each connection worker, queue of buffer addresses | accept, read, push address, parse | a message becomes a row, whole, once |
| JSON parser | `json.c` | parse buffer, tree of items | parse value, string, number, array, object; find an item | the tree is what the text says |
| Serializer, query generator | `serializer.cpp`, `query_generator_*.cpp` | a `Log` | fill member by member, return early | valid exactly when complete; columns carry their own field |
| Saving half, Postgres | `run_postgres.cpp` 61-110, taopq | buckets, connections, their current transaction, the table | drain, execute, commit or refuse, terminate, restart | no row twice, none lost without a crash, no success reported for what is not stored |
| Saving half, ClickHouse | `run_clickhouse.cpp`, clickhouse-cpp | buckets, clients with their two streams and the query they point to, the table | drain, send, receive packets, terminate, restart | the same as for Postgres, as far as the shared client lets it |
| Start-up | `main.cpp`, `config.cpp`, `socket.cpp`, `run()` | configuration, socket file, threads, connections | read configuration, bind, connect, create threads, fail, restart | what is used is there; clients reach the process that serves |
| Service installation | `service_ubuntu.cpp`, `service_mac.cpp`, `helper.cpp` | unit or plist file, state of the service manager | start (installing first), stop | a command does what it reports; a failed installation can be repeated |
| Helpers, log | `helper.cpp`, `log.cpp` | none | format, print, exit | - |

How they interact: the accept loop hands connections to the connection
workers, these hand *addresses of their own stack buffers* to the read workers,
these hand rows to the write workers and the sync worker; each hand-over is a
stage. Each saver sends a bucket as one INSERT. All of it shares one process:
an exception of a save is caught nowhere and ends everything, and
`Restart=on-failure` starts it again with nothing in memory.

What is hard here: the aliased buffer, which its owner reads into while a read
worker parses it; the stream, which has no message boundaries; the whole buffer
being parsed, with older bytes behind the message; the sync worker, which uses
the connection of write worker 0 with no lock, on a client library that checks
this at two points (taopq) and on one that does not (clickhouse-cpp); three condition
variables with several waiters each, and a threshold on one of them; a crash
with rows in four kinds of places; the order of the start; two commands that
install the service at once, or one that is killed half-way. PROJECT.json lists
each at its line under "hazards".

## Modules

| Module | Models | Composes |
|---|---|---|
| `WaitQueue` | what a stage promises: Put, Take, Finish in single steps | |
| `CondQueue` | a stage with its mutex and condition variable, call by call | implements `WaitQueue` |
| `Delivery` | what the collector promises: of a row, and of a message | |
| `Save` | write workers, sync worker, taopq connections, server, crash, restart | uses `WaitQueue`, implements `Delivery` |
| `SaveClickhouse` | the same on ClickHouse: `ExecuteQuery`, its streams, the shared client | uses `WaitQueue`, implements `Delivery` |
| `Ingest` | clients, accept loop, connection workers, buffers cell by cell, read workers | |
| `Relay` | the collector on any database: `Ingest`, and rows that are held, stored or lost as in `Delivery` | extends `Ingest`, uses `Delivery`; implements `Delivery`, of messages |
| `Collector` | everything from a client's write to the table, on Postgres | `Ingest`, `Save`; implements `Relay` and `Delivery` |
| `CollectorClickhouse` | the same on ClickHouse | `Ingest`, `SaveClickhouse`; implements `Relay` and `Delivery` |
| `JsonString` | the two passes of `parse_string`, and `\u` literals | |
| `Json` | `cJSON_ParseWithLength`, byte by byte, and how items may be written | `JsonString` |
| `JsonReference` | what a text as a whole denotes, for TLC | extends `Json` |
| `Serializer` | `serialize`, `create_subquery` | |
| `Message` | from the bytes of a buffer to a row | `JsonReference`, `Serializer` |
| `Startup` | `main` to the accept loop | |
| `Service` | `--start-service` and `--stop-service`, on systemd and launchd | |
| `CondQueueProofs`, `SaveProofs`, `SaveClickhouseProofs`, `IngestProofs`, `CollectorProofs`, `MessageProofs`, `StartupProofs`, `ServiceProofs` | theorems | |
| `MC*` | constants for TLC | |

State and actions follow the code: `pc` is where a thread is, the deques have
their names, `bucket` is the local variable of a saver, `current` is
`m_current_transaction`, `events_` is the member of that name in the ClickHouse
client, `holds` is what a taker has popped, `buf` is the array on the stack of a
connection worker. One action is what one thread does between two points at
which another can be noticed:

* in `CondQueue`, one pthread call or one access to the deque;
* in `Save`, one step of `execute()`: the constructor's test of the current
  transaction (`TestCurrent`), its assignment (`Claim`), the look of
  `send_params` at it (`Order`), the look of `PQsendQueryParams` at what is in
  progress (`Send`), its writing and flushing of the command (`Flush`), the look
  of `get_result` (`CheckCurrent`), the answer, the destructor. These are separate
  because two threads may be inside `execute()` on one connection, and neither
  taopq nor libpq takes a lock. Two threads between `Send` and `Flush` are a data
  race on the buffer of the connection, and any outcome of it is a behaviour
  (`Sent`, `Mixtures`, `LoseConnection`): a command is sent once, twice, with the
  rows of the other, or not at all; either thread gets the answer; or the process
  ends. Who has been in it is in `mixed`, that it has happened in `misused`. The drain
  is one step, which the theorem `Refinement` of `CondQueueProofs` justifies:
  under its mutex it is one step of `WaitQueue`;
* in `SaveClickhouse`, one step of `ExecuteQuery`: setting `events_`, each of the
  two flushes of a statement, the type of a packet, what comes after the type,
  clearing `events_`. Two threads inside one client are a data race on the
  buffers of its streams, and any outcome of it is a behaviour: what one sends is lost
  or sent twice, the pieces of two statements mix, a packet is read by both
  or from the middle. A finer mixture of bytes is left out: the server refuses
  whatever is no statement, so it would end as a torn one does here;
* in `Ingest`, one cell of a buffer stored by `read()` or looked at by the
  parser, as neither is under a lock. The two deques are used in single steps,
  for the same reason as above;
* in `Serializer`, one block of `serialize`, and in `Json`, one function of the
  parser as an operator: the tree of items, the Log and the row belong to one
  thread. The text does not: it is the buffer on the stack of a connection worker.
  What the parser sees when that is rewritten under it is in `Ingest`; `Json` takes
  any bytes, as long as they stay the same while they are parsed. The loops
  of `JsonString` and that of `parse_array` and `parse_object` are functions of
  the number of iterations, and the recursion of `parse_value` is a function of
  the nesting that is left, so that something can be proved about each;
* in `Startup`, one call of the start;
* in `Service`, one system call or one spawned command (`systemctl`,
  `launchctl`); a command may be killed between any two. Of a program that
  launchd runs there are two kinds: that of a service that is bootstrapped
  (`active`), and one that outlives its service (`lingers`): a bootout may leave it,
  as `service_mac.cpp:256-260` has it, a bootstrap may be refused because of it,
  and it ends by itself (`Exited`) or by the `kill` of a stop.

`Ingest` and a saving half are joined at `PushRow`, the push to
`insert_statements`, and where the process ends (`LoseMemory`). `Relay` puts
`Delivery` in the place of the saving half, which is all that the receiving half
can notice of it; the two collectors put `Save` and `SaveClickhouse` there, and
take what they say of messages from it. So the refinement has three levels:
each collector implements `Relay`, and `Relay` implements `Delivery`, of messages.
`CollectorClickhouse` has no run of its own: `save_clickhouse` searches its saving
half and `collector` the join, and that the two fit together is proved.
`Json` and `Serializer` at the tree of items, from which `Message` takes the
types and values that `serialize` asks for.

What the models abstract: in `Ingest` a message is a number and its text is
cells; rows are numbered in the order in which they are pushed; statements are
the sequence of their rows. In `Json` a character is its code, and a code above
255 stands for a literal or a name that the parser never looks into. In `Serializer`
a text is the sequence of its codes, and a column what is between the commas of
the statement, quotes included; how the server reads it is in `Says`. In `Save` at
most `MaxMixed` commands leave in one flush of a buffer that two threads have written to.
In `SaveClickhouse` a reader's test of `events_` and its use (client.cpp:470, 501 and
517, among others) are one step; what the property `EventsAlive` is about, where
it points to between the steps, does not depend on that.

Code outside src/ is modelled from its use and marked external in the
map: clients, the database server (an INSERT takes effect whole or not at all,
and its answer may be lost), the service manager, and pthreads (a waiter may be
woken for no reason).

## Runs

Passing runs, with their bounds:

* `read_stage`: `read_queue` with the real numbers of threads, 2 producers and
  4 consumers that pop one item each, and 4 items: all consumers can be woken
  for one item, and a push can fall between a broadcast and the wakeups.
* `write_stage`: the last stage with 2 producers, 3 consumers, the sync worker,
  a threshold of 2 (1000 in the code) and 5 items, so that rows short of the
  threshold remain and two batches can be out at once.
* `save`: two write workers and the sync worker on two connections, threshold
  2, 4 rows: worker 0 shares its connection, worker 1 does not. Four rows let two
  statements of the shared connection be out while one of the other is, or rows
  remain. Of two commands written at once up to two reach the server (`MaxMixed`),
  which includes both, one twice, and one with the rows of the other. Crashes are
  not bounded, rows are (`MaxRows`). `RaceNoticed` says that such a race never
  stays unnoticed: libpq does not see it, but taopq's second look at the current transaction,
  made for nested transactions, does, and the process ends. `AtMostOnce`,
  `NothingLost` and, for the two threads of `db[0]`, `SuccessMeansStored` hold until then.
* `save_clickhouse`: the same savers on two clients, threshold 2, 4 rows, which
  is enough for two statements of two rows to meet in the shared client while
  rows remain. What a client points to is always alive (`EventsAlive`). Success
  is reported for stored rows, and no row is stored twice, until two threads
  are inside the shared client; then rows can be lost, and `Delivery` is
  implemented with this as one more reason for a loss.
* `ingest_paced`: `Paced` is TRUE: a client waits until what it has sent is a
  row before it sends again or closes. More messages than buffers, two clients on
  one connection worker, two read workers: each buffer is reused, and by
  different clients. **Under this assumption no row is torn, doubled or lost.**
* `ingest_any`: clients as they like, messages longer than a buffer, 2
  descriptors for 3 connections. Rows may be torn, doubled and lost in this
  run, as the code does nothing against it; what holds is that every connection
  has one owner and that each read is parsed once (`ReadsAccounted`, an equation:
  the reads are those being copied, queued and parsed, the rows, and those dropped).
* `collector`: both halves. Three messages over two connections, threshold 2,
  so that the sync worker has to save at least one. `EndToEnd` is `Delivery`
  again, of messages this time: one that has been sent is held, wherever it is,
  until it is in the table or the process has terminated. `StoredOnce` counts
  the copies of a message in the table. `MaxMixed` is 0 here: of two statements
  written at once none reaches the server; what else may become of them is in `save`.
* `serializer`: from a buffer to a row. All messages that differ from a good
  one in at most two fields: missing, of another type, doubled with either one
  first, attributes with a key twice, with a value that is no text, or with a quote
  in it. There are four texts, one empty and one with a quote, and two keys. Each is
  written plainly, with blanks and zero bytes behind it, and with escapes and
  the end of an older message behind it. Then some 38000 other buffers for the
  parser alone: every text of up to 5 pieces of an array, of nested brackets
  and of a number, of up to 4 of an object and of up to 3 of a string, with
  every kind of escape; numbers longer than `NumberSize` and nesting deeper than
  `NestingLimit` are among them, as both are lowered (63 and 1000 in the code);
  a 0, and a % before it or not, too, for what a warning does with a refused buffer.
  `ParserCorrect` compares the parser with `JsonReference`, a definition of the
  language that does not follow the code; an offset out of the buffer is an error of TLC.
  Numbers have 4 bits so that fractions, negative numbers and numbers out of
  range are among the inputs; a conversion out of range is undefined and any
  value may result.
* `startup`: a service and a process started by hand, 10 configuration files,
  3 failures at any point. The socket file survives its process.
* `service`: three commands at once, each a start or a stop, on either
  platform, 2 failures (killed, or a call that fails) at any point. A command
  with which nothing interferes does what it reports, whatever others have left, an
  instance that outlives its service included: a stop that finds the service not
  bootstrapped leaves none running;
  what damages a unit file, and what leaves a service loaded and disabled, are
  exactly the overlaps and failures named in `UnitSurvives` and `OnlyRacesDisable`; and
  starting again heals everything but a part of a unit file.

Runs that end in a violation show where the code disagrees with what a comment,
an assertion or the README says of it ("findings"):

* `save_order`: taopq asserts that a transaction begins on a connection that
  has none; the sync worker and write worker 0 break this. The consequence is
  an exception that ends the process, or a race inside libpq before it does. `save`
  shows what still holds.
* `startup_kind`: the README offers ClickHouse; as the repository builds
  clickhouse-cpp, setting SSL options throws.

Deadlock is checked in every run but `serializer`, which ends with its
message: threads wait, sleep and wake for no reason for ever, and commands can
begin, so that a state without a step would be one in which all are stuck.

Met while modelling, and written into the models as the code has it:

* `README.md:12` gives the port as a text; `config.cpp:55` takes a number only.
* `serializer.cpp:42` stores the text of `SpanId` in `TraceId`; `SpanId` stays
  empty. `RowFaithful` leaves the two out, and `IdsMixedUp` says what they hold.
* The blocks of `SpanId`, `SeverityText`, `ServiceName` and `Body`
  (`serializer.cpp:36, 54, 74, 83`) test the text of `TraceId` instead of their own
  (`Tested`). `ValidIffWellFormed` shows that this accepts nothing more and nothing
  less, as that text has been tested and no string of cJSON is without one.
* `wrap` (`helper.cpp:26-28`) escapes nothing: a text with a quote ends its literal
  too early (`QuotesBreakRows`), and `RowFaithful` is about the other messages.
* A refused buffer is printed up to its first 0, wherever that is, and as a format
  (`serializer.cpp:11`): `WarnEnds`.
* cJSON takes `\u` with four characters that are not hexadecimal for `\u0000`,
  and then leaves the string at its terminator.
* clickhouse-cpp's `README.md:132-133` says that a Client is not thread-safe
  and must be used from one thread; `db[0]` is used from two.
* A unit file of which only a part was written counts as an installed service
  in every later start.

### Fairness

* Threads run: weak fairness of each thread's steps. Of a `pthread_mutex_lock`
  that others keep taking, strong fairness: the mutex is free again and again
  and held for a few instructions, and POSIX schedulers do not starve a waiter
  for ever. Waking for no reason has none.
* The server decides on what it has received. Nothing makes it accept.
* Clients close in the end. Without this a worker serves one client for ever,
  which is what the code does, and the others wait.
* The service manager starts a service again. (systemd does so 5 times in 10 s
  unless told otherwise, and the unit of `service_ubuntu.cpp:9-21` says nothing of
  it; the failures of a behaviour are bounded by 3, so the limit is not met. It would
  end the endless restarts of `startup_kind`.) A process started by hand is not
  started again, and the property says so: if such a process takes the socket
  file and ends, the service goes on without clients.
* In `Service`, an instance that was told to end does so, a command runs on unless it is killed, and, for `StartsHeal`
  alone, a user gives the start command again and again (strong fairness, as
  other commands come in between).
* Nothing makes a client send, a connection break or a crash happen.

## Proofs

Each theorem holds for every value of the constants that satisfies the
assumption named in its module, which TLC evaluates in the runs; each invariant
below was an invariant of TLC before it was proved. `TypeOK` is part of all.

`CondQueueProofs`, for any sets of producers, consumers and flushers, any
threshold and both ways of taking. The invariant `IInv` joins the properties:
`MutualExclusion` gives that only the holder changes the deque, so that what a
taker has tested stays true until it takes (`TakeJustified`); `NoLostWakeup`
holds because a consumer blocks only after a test made under the mutex, and
whoever adds to the deque is at "broadcast" until all blocked threads are woken.
`Refinement` maps every step to a step of `WaitQueue` or to a stutter. From it
follow, by an induction over the steps of `WaitQueue`, `ItemsHeldOnce` and
`NothingDropped`: an item is in the deque or with one taker, and leaves the
deque only to a taker.

`SaveProofs`, for any number of write workers, threshold and rows, with crashes.
`AtMostOnce` and `NothingLost` are not inductive; the invariant adds:

* `OnePlace`: a row is in the deque, in one bucket, or in one INSERT besides the
  bucket it came from;
* `Undecided`: what is in the deque, in an unsent bucket or in an INSERT the
  server has not decided is not in the table;
* `Sender`: an undecided INSERT has the bucket of a saver that waits for it, or
  it was left behind by a crash;
* `Answered`: an answer is there only for a saver that waits, and a good one
  means its rows are stored;
* `BucketInv`: a bucket is empty exactly in the wait;
* `MixedInv`: commands are mixed only on `db[0]`.

From it follow no duplicates, no loss without a crash, no empty INSERT, success
only for stored rows, and `Refinement`: `Save` implements `Delivery`.
`AtMostOnce`, `NothingLost` and, for the threads of `db[0]`, `SuccessMeansStored`
end with a race of two threads inside libpq (`misused`); what such a race does to
rows that were in flight is one more reason for a loss in `Delivery` (`RaceRefines`,
where an answer to the other thread's statement lets a saver drop its rows).
`RacesEnd` is `RaceNoticed`: a race begins with two threads that have both passed
the test of their transaction, and a connection has one current transaction, so
that one of the two finds another or none at its second look and throws.

A second invariant is about `m_current_transaction`, which `save_order` shows to
be overwritten on `db[0]`. `CurrentAlive` says that the pointer never leads to a
transaction that has ended (`TransactionsAlive`), and `SoleCurrent` that a saver
with a connection of its own finds its own transaction there. So the finding
goes no further than the two savers of `db[0]`: the others meet no "invalid
transaction order" (`OrderUnlessShared`), and end the process only on an error
the server has answered or with a lost connection (`ThrowsUnlessShared`).
`AnswersDue` is the safety part of `EveryRowLeaves`: a saver waits only for an
answer that is there, or for a statement that the server has, unless it is one of two
whose commands were written at once.

`SaveClickhouseProofs`, for the same constants. Nothing but bytes relates a
statement to its answer here, so the invariant follows the two streams of a
client, as long as it is `Exclusive` (not `db[0]`, or not yet misused):

* `Alone`: one thread at most is inside it;
* `Channel`: what is on its two streams, exactly, for each place that thread
  can be in; an "end" on its way back means that the rows are stored;
* `Quiet`: nothing is on its way while nobody is inside;
* `OnePlace`, `Undecided`, `BucketInv` as above, and `New`, `Left`: rows not yet
  pushed are not stored, and statements are left behind only by a crash.

The lemmas `ChannelStep` and `ServerChannel` show once that a step of a thread,
or of the server, disturbs only the channel it uses. From the invariant follow
`EventsAlive` (with no condition on misuse), `AtMostOnceUnlessShared`,
`SuccessUnlessShared`, which for a worker with a client of its own holds
whatever happens on the shared one, and the refinement of `Delivery`. There,
after a misuse, a step that takes rows out of flight maps to `Lose`. `PacketsDue`
is to this half what `AnswersDue` is to `Save`.

`IngestProofs`, for any finite sets of threads, any clients, sizes and numbers
of messages, paced or not. `Owners` says in one formula that backlog, queue,
workers and open descriptors do not overlap, which gives `OneOwner`;
`ReadsAccounted` (`EveryReadOnce`) is an equation, so that a step which passes over a read breaks it as one
that counts it twice does: a read is being copied, its buffer is queued or being
parsed, it is a row, or it was dropped. `WithinBuffer` keeps a parser inside its buffer.

The second half of the module is about clients that are paced and messages that
fit (`PacedFit`). The invariant `PacedInv` says where the one message of a client
is: in its socket (`InSocket`), half-way into a buffer (`InCopy`), in a buffer
whose address is queued or being parsed (`InBuffer`, once: `PushedOnce`), or a
row. From it follow `IntactRows` and `NoDoubleRow`: the pause of the clients, and
nothing in the collector, is what keeps the aliased buffers apart. `Present`
adds the converse: a client has one message at most that is no row yet, and that
one is in one of these places. `QueueBounded` follows as well: `read_queue`, in
which nothing limits the addresses, never has more than one of each worker.

The third part is about `Relay`, where the process may end. The two invariants
survive that: it empties the receiving half, and what a client had under way
is never sent again, as its connection is gone (`RelayInv`, `PacedRelayInv`). So
`CrashesKeepOwners` and `CrashesTearNothing` say of `Ingest` with crashes what
was said of it without. Then one message is followed through both halves: the
state of a message that is a row is that of the row (`StatusIs`); one that is no
row yet is held as long as it is on its way, which it is unless its connection
is gone (`Whereabouts`, from `Present`). Each step of `Relay` is one of `Delivery`
or a stutter: sending accepts a message, a push changes nothing for it
(`PushMoves`), storing rows stores the messages they carry (`RowsMove`), and a
crash loses what was in memory (`MemoryMoves`). This is `RelayDelivers`, for
paced clients with messages that fit; `RelayLosesNothing` is `NoMessageLost`.

`CollectorProofs`, about both collectors, for any numbers of threads, clients,
rows and messages, with crashes. Each step of a collector is one of `Relay`:
what a saving step does to the table is what `Delivery` lets it do
(the `Refinement` theorems of the two saving halves), a push
accepts the row that `Ingest` records, and a crash stores nothing. The invariant
that carries this (`CInv`, `ClickhouseInv`) is that of the saving half, that of `Relay`, and
the hand-over: as many rows have been made as were pushed. Hence, by the
theorems about `Relay`, for each of the databases:

* `PostgresRelays`, `ClickhouseRelays`: it implements `Relay`, whatever the
  clients do;
* `PostgresDelivers`, `ClickhouseDelivers`: it implements `Delivery`, of
  messages, when clients are paced;
* `PostgresStoresOnce`, `ClickhouseStoresOnce`: a message is in the table at
  most once, as one row carries it (`RelayOneRowEach`) and the saving half
  stores that row once. This ends with two threads inside libpq at once, or
  inside the shared client of ClickHouse;
* `PostgresDeliversRows`, `ClickhouseDeliversRows`: what any clients
  feed, torn or not, is delivered row by row.

`MessageProofs`, about two modules. Of `Serializer`: after each block, a Log that
is valid so far has all members of the blocks before it, filled from items of the
right type (`Filling`), and an early return means a message that is not well formed
(`Returned`). Hence `ValidIffWellFormed` and `RowFaithful`, for any texts and any
width of numbers, the latter for messages whose texts need no escape. `QuotesBreakRows` says that the restriction is
needed: the server reads the literal of a text as that text exactly if there is no quote in it. `IdsMixedUp` says what `serializer.cpp:42` comes to in the table:
every row has the id of the span as that of its trace, and an empty one as that
of its span, whatever the message says the trace is.

Of `JsonString`, for every sequence of bytes, which no run of TLC can go through.
`StringsUnderstood`: whatever the text and however its characters are written,
the parser finds the closing quote and makes that text of it; `EncodeIsUtf8` and
`PairLiteral` are the arithmetic in it. `TextFits`: at each iteration of the second
pass, the bytes written so far and a final 0 fit the memory that the first pass
has counted ("at most how much we need", json.c:731). This is less obvious than
it looks, as the passes need not see the same escapes: the second takes six bytes
for a `\u` literal, and when these are no digits they may contain an escape, or
begin one, that the first pass has counted. The invariant `Behind` follows both: whatever the second
pass has read, the first was at most one byte away, and the text is not longer than
what the first had counted by then. Both theorems are inductions over iterations.
The library states induction for a predicate, which no prover here can
instantiate; `Induction` states it for the set of the numbers that are good, and
is proved from the well-foundedness of the naturals. `Iteration` proves that the
function a loop is defined by exists, so that the `CHOOSE` behind a recursive
function is never taken on trust.

Of `Json`, for every sequence of bytes: `ItemsUnderstood`. How an item may be
written is said there by claims (`Sound`): each says that some item is written from
here to there, with so much nesting; a leaf bears itself out, and an array or object
by the claims about its children, the marks between them and the blanks around
them. An item that is claimed where the first character is that is no blank,
with no more nesting than `NestingLimit`, is what the parser returns, whatever comes
behind it. `ValuesParsed` is the induction over nesting and `LoopIs` the one over
the children: after so many turns the loop is at that mark with those children.
`FewTurns` counts: each turn but the last goes to a comma of its own, so the loop
has ended after as many turns as `ParseChildren` allows it. That the steps back in front
of the first child, and of a blank at the end of a buffer, lead nowhere else is in
`FirstChild` and `SkipTo`. Both recursions are shown to exist (`Recursion`). The
theorem speaks of one direction; that the parser accepts nothing else is left to TLC.

`StartupProofs`, for any number of processes and write workers: `Progress` says
for each place in `run()` which connections and threads there are.

`ServiceProofs`, for any number of commands and failures: a lone command is
alone, finds no file between its look and its open, and disables only what it
has booted out; hence `UnitSurvives` and `OnlyRacesDisable`. For `LoneCommandWorks` the
invariant `History` adds which commands and platforms a call belongs to
(`Places`), that what runs, lingers or is loaded has been installed (`Loaded`), and that
what a lone command has seen is still so (`Seen`).

Only model-checked: all liveness (`EverythingTaken`, `ImplementsService`,
`EveryRowLeaves`, `EveryMessageParsed`, `EveryMessageStored`, `SomeoneServes`,
`StartsHeal`), which is out of the prover's reach; and `ParserCorrect` and
`Understood`, which compare with definitions that are recursive over their
input (`JsonReference`, `Message`). `ItemsUnderstood` is the half of `ParserCorrect` that
matters to a sender, for buffers and nesting of any size.

## Not modelled

* json.c beyond parsing: printing, editing, comparing and minifying, which
  nothing in the collector calls.
* The vendored trees under `src/include`, but for the files the map names. By
  far most of the lines of the repository are there: gtest, lz4, cityhash
  and absl, the columns and types of clickhouse-cpp, the headers of taopq for
  statements, results and large objects. The collector calls `execute()` of one
  and `Execute()` of the other with a text; those paths are in `Save` and
  `SaveClickhouse`. The share of all lines that the map covers is small for this
  reason; of the collector's own sources it covers nearly every function that
  changes state.
* The reconnects and retries of clickhouse-cpp happen when a client is made or
  when `ping_before_query` is set; the collector does not set it. A
  client that is being made is one call in `Startup`.
* The text of statements and of log output.
* Timeouts of taopq: the collector sets none, so `wait` has no limit.
* Signals and orderly shutdown: the code has none. That a signal, or the warning
  about a refused buffer (`WarnEnds` of `Serializer`), ends the process from outside the saving
  half is not in `Collector`, where only savers do: `Refuse` of `Ingest` returns. A
  paced client whose messages fit is never refused.

## Plan

Done: `WaitQueue`, `CondQueue`, `Delivery`, `Save`, `SaveClickhouse`, `Ingest`,
`Relay`, `Collector`, `CollectorClickhouse`, `Serializer`, `JsonString`, `Json`,
`Startup`, `Service`, each with proofs but for the two abstract ones;
`JsonReference` and `Message`, for TLC.

Left, in this order:

1. Terminations from outside the saving half in `Save` and the collectors
   (at any moment they double the states of `save`).
2. `Relay` with `CondQueue` in place of the single steps, if a state space
   of that size can be searched.
3. The other direction of `ItemsUnderstood`: whatever the parser returns is
   claimed by some `Sound` set, so that `ParserCorrect` would be proved as a whole.
