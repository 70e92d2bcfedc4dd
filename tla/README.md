# A TLA+ model of lpush

lpush (`src/src`) is a push server: mobile clients keep a TCP connection open,
producers append push tasks to a list in Redis, and the server writes each task
to the connection of the user it is for. It is a single POSIX thread that runs
State Threads coroutines. This directory holds TLA+ models of it, TLC
configurations that check them on small instances, and theorems about them
whose proofs TLAPS checks.

## 1. Inventory

### 1.1 Components

| Component | Code (below `src/src`) | State | Operations | Status |
|---|---|---|---|---|
| Thread wrapper | `app/lpushThread.cpp` | `tid`, `_cid`, `loop`, `can_run`, `disposed`, `really_terminated` | `start`, `stop`, `dispose`, `thread_cycle`, `stop_loop`, `interrupted` | modelled: `ThreadOps`, `LPushThread` |
| Connection, receive and consume thread | `app/lpushAppLpushConn.cpp`, `core/lpushConnection.cpp`, `app/lpushRecvThread.cpp`, `app/lpushConsumThread.cpp` | `dispose`, message times, `client`, `trd`, `trd2`, place in `cycle()` | `do_cycle`, `createConnection`, `forwardServer`, `do_dispose`, destructor, `cycle` | modelled: `LPushConn` |
| Client registry | `LPushSource::clients` in `app/lpushSource.cpp` | map from identity to client | `create`, `instance`, `destroy` | modelled: `LPushConn` |
| Delivery | `cycle_all`, `LPushFastQueue`, `LPushClient::playing` in `app/lpushSource.cpp` | the list in Redis, one queue per client | read, push, trim, pop, write; the conversions of a task | modelled: `LPushDelivery`, `LPushTask` |
| Server | `app/lpushServer.cpp`, `main/main.cpp` | `conns`, `listeners`, `signal_gracefully_quit`, the server entry, PID file | start, signals, `do_cycle`, `close_listeners`, `close_conns`, `dispose` | modelled: `LPushServer`; `accept_client` and `remove` in `LPushConn` |
| Listener | `app/lpushAppListener.cpp` | a descriptor, the accept coroutine | `listen`, `cycle`, destructor | partly: TCP in `LPushServer`; the UDP listener is never created |
| History thread | `app/lpushMongoIOThread.cpp` | queue of requests | `push`, `pop`, `findPop`, `do_cycle` with its paging | modelled: `LPushMongoIO` |
| Presence across servers | `createConnection`, `hreatbeat`, `do_dispose`, `userInsertMongodb` in `app/lpushAppLpushConn.cpp` | `clientKey` with 60 s to live, two sorted sets, member documents | set, expire, zadd, del, zrem, query, insert | modelled: `LPushPresence` |
| Framing | `protocol/lpushProtocolStack.cpp`, `core/lpushFastBuffer.cpp`, `app/lpushAppSt.cpp` | buffer, read position, session stage | `grow`, `readHeader`, `readMessage`, the handlers' checks | partly: all that is read, in `FastBuffer`, `LPushFrames`; what is written is a reply code |
| Value encoding | `protocol/lpushFmt.cpp` | none | six encoders and decoders | modelled: `LPushFmt` |
| Redis client | `core/lpushRedis.cpp` | one hiredis context | one method per command | modelled: `LPushRedis` |
| Mongo client and pool | `core/lpushMongo*.cpp` | a connection | queries, insertion; pool `pop`, `push` | partly: `MongoClient`, `LPushTask`; update, delete and the pool keep no state the server depends on |
| Logger | `kernel/lpushLogger.cpp` | the cache of ids, a file descriptor | `generate_id`, `verbose` .. `error`, `open_log_file`, `write_log` | modelled: `LogContext`, `LPushLog` |
| POSIX thread wrapper | `app/lpushPThread.cpp` | `loop`, `can_run`, `disposed` | `start`, `stop`, `dispose`, `thread_cycle` | modelled: `LPushPThread` (the server does not use it) |
| Configuration, JSON, utilities | `kernel/`, `main/` | read once at start | | not modelled, except `empty()` and `StringToLong()` in `LPushTask` |
| Blocking socket, test client | `core/lpushSocket.cpp`, `utest/` | | | not modelled: test programs; `utest/lpush_utest_pushwork.cpp` shows what a producer does |

### 1.2 How they interact

```
listener coroutine --accept_client--> Server.conns, one coroutine per connection
connection coroutine: handshake, create message, then two more coroutines
    receive thread  --forwardServer--> heartbeat / close / callback
    consume thread  <--pop-- client queue <--push-- cycle_all <--LRANGE-- Redis
main coroutine: every second hreatRedis(), cycle_all(taskKey)
signal coroutine: reads the signal pipe, sets signal_gracefully_quit or exits
history coroutine: pops a request, pushes old tasks into the client's queue
```

A coroutine gives up the processor only when it sleeps, reads or writes a
socket that is not ready, or joins. Redis and MongoDB calls are synchronous:
they block the whole process and no coroutine runs meanwhile. That decides the
grain of the models: **one action is what one coroutine does between two points
where it may yield.** The exceptions are steps that something outside the
process can come between - a producer, another server, another process on the
same file, a crash: there the synchronous stretch is split at each of its
commands. `LPushPThread` is about threads of the operating system, and every
read or write of a shared variable is a step.

### 1.3 What is hard, and what makes each part correct

* *Thread wrapper.* `start()` and the new coroutine wait for each other; `stop()`
  relies on `disposed` from the current run and not from an earlier one.
  Correct: `start()` and `stop()` terminate, a handler runs only between them.
* *Connection.* The destructor yields twice while two coroutines still use the
  object; three coroutines may each decide that the connection ends; two
  connections may present the same identity, or two identities of one user.
  Correct: no coroutine runs in a freed object, `conns` and `clients` never hold
  a dangling or foreign pointer, a registered user is present unless another
  session of the same user removed the record, a session that left has taken
  back what it wrote, and every connection that was disposed of is freed.
* *Delivery.* A producer appends between LRANGE and LTRIM, the process may die
  anywhere, the reply to LTRIM is not looked at, a task may be unreadable.
  Correct: per user, tasks arrive in order and at most once, none is trimmed
  away unseen, list and queues drain.
* *Server.* A second process is started on the same files; a signal arrives
  between any two calls of `run()`; descriptors are closed under a coroutine
  that waits for them. Redis may break or hang. Correct: one process serves, the
  PID file names it, a stale entry has one of a few reasons, SIGTERM ends the
  process unless it is stuck.
* *History.* A request is removed by its address after the address may have been
  given to another one; the paging loop asks for the same page. Correct: nobody
  gets another user's history or the same twice, requests are served.
* *Presence.* Several servers write and delete the same records, with an expiry
  time and without a transaction. Correct: a user who is served can be found, a
  user who left cannot.
* *Framing.* TCP cuts the stream anywhere. Correct: frames arrive whole, in
  order, once, and are acted on only after the login they belong to.
* *Encoding, conversions.* Widths, shifts, C strings, lengths that nobody
  compares with what there is, error codes that are compared with lengths.
  Correct: it is known which values survive, what a body must hold to have an
  effect, and which bodies may end the process.
* *Redis client.* A null reply is looked into or ignored. Correct: it is known
  which failures end the process and which are not noticed.
* *Logger.* Ids are cached under addresses that are used again; a line has a
  fixed buffer, which one case of formatting leaves; two processes may open one
  file. Correct: an id stands for one coroutine, it is known which lines leave
  the buffer, an existing file is only extended.

`PROJECT.json` lists each hazard with its line and the properties that cover it.

## 2. Plan

All steps of the plan are done; the modules were written in this order.

| Step | Module | Composes or implements | State |
|---|---|---|---|
| 1 | `ThreadOps`, `LPushThread` | operators shared with `LPushConn` | checked, proved |
| 2 | `LPushConn` | two `ThreadOps` threads per connection, registry, `conns` | checked, safety proved |
| 3 | `LPushDelivery` | implements `Mailbox` | checked, safety and refinement proved |
| 4 | `LPushServer` | processes on the same files | checked, safety proved |
| 5 | `MongoClient`, `LPushMongoIO` | history over the queries of `MongoClient` | checked, safety proved |
| 6 | `FastBuffer`, `LPushFrames` | implements `FrameStream` | checked, safety and refinement proved |
| 7 | `LPushPresence` | several servers on shared databases | checked, safety proved |
| 8 | `LPushFmt`, `LPushTask` | conversions, against what they should preserve | checked, proved |
| 9 | `LPushRedis`, `LogContext`, `LPushLog`, `LPushPThread` | the base classes | checked, safety proved |

Every invariant and action property that a run checks is a theorem, and so are
both refinements. What a reader might still want is a refinement of the model as
a whole: `LPushConn` reduced to the sessions that `LPushDelivery`,
`LPushMongoIO` and `LPushPresence` assume, which today is an argument in prose
(section 3).

## 3. Modules and the code

### ThreadOps, LPushThread

`ThreadOps` has the flags of `LPushThread` as a record and one operator per
stretch of code between two yields: `StartCall`/`StartReturn` around the sleep
that waits for `_cid`, `StopCall`/`StopReturn` around the join of `dispose()`,
`Enter`, `Gate`, `CycleReturn`, `Unpause`, `Exit` for `thread_cycle()`. `tid`
and `_cid` are Booleans (set or not). Two fields are State Threads' own: the
pending interrupt `intr`, which the next sleep or blocking call consumes, and
the place `at`. `LPushThread` gives each thread an owner that starts and stops
it again and again, and a handler that may block, return, or call
`interrupt()`.

### LPushConn

`pc[c]` is where the coroutine of connection `c` is; every location is a point
where it may yield (table at the head of the module). `conns`, `clients`,
`client`, `dispose` are the code's fields, `late` whether the last two message
times are over 60 s apart. A connection is registered by an identity of `Key`
(`userId + appId + screteKey`, `lpushSource.cpp:420`), presence is kept by user
(`UserOf`, `appId + userId`, `lpushAppLpushConn.cpp:153`). `checkUserMessage()`
(line 208) accepts every part of the stored secret, so several identities of one
user can be registered at the same time over one presence record. `online` is
that record: Redis stores only that the user is there, which connection wrote it
last is history, as is `erased`, the logged-in connections whose user's record
another session removed. `RegisteredIsOnline` has that as its one exception:
`do_dispose()` removes the record for all sessions of the user, and it comes back
with the next heartbeat. `CleanLogout` says of each connection that what it wrote
is gone when it is freed. The two threads are `ThreadOps` records; `recvAt` and `consumAt` say where inside `cycle()` they
are. An address of `Conn` is reused after it was freed.

Abstracted: message contents (any type, well formed or not, may arrive), the
secret check (handshake succeeds or fails), the contents of the queues
(`ConsumPops` or `ConsumPolls`), time (a timeout is a read that fails; the two
message times are any values, since they come from the client's clock).

### LPushDelivery, Mailbox, LPushTask

The list in Redis, `cycle_all()` split at LRANGE, at each task and at LTRIM so
that producers and crashes can come in between, the queue of each identity, the
task being written, and what was written so far. `stage[k]` is the session of
`k` as `LPushConn` describes it, reduced to what its queue can tell apart. While
`cycling`, no coroutine of the process moves.

`CycleTrimBreaks` is an LTRIM without a reply: `LPushRedisClient::ltrim` does
not look at it, so the process runs on; the next LRANGE dereferences the null
reply (`core/lpushRedis.cpp:125`), which is the action `Crash`. `redis` is FALSE
in between. `CyclePoison` is a task of the set `Poison`, whose JSON throws out
of `cycle_all()` before the LTRIM (`app/lpushSource.cpp:451`): the process ends,
and the task is first in the list of its successor. Which tasks can be in
`Poison` is `LPushTask`'s `RedisTaskReadable`: none that this code wrote.

`Mailbox` is the abstract specification: the tasks that are pending for a user
are a set, tasks are numbered in the order they were posted, and the least
pending one is delivered or any are discarded. `ImplementsMailbox` maps a task to
pending while it is in the list, in the queue (and trimmed from the list) or
being written. LTRIM is the step that moves tasks from list to queue: before it
a crash undoes the push.

`LPushTask` is the text of a task on its three ways: `ToJson`, `FromJson` for
the list, `FromMap` for a document of the history, `Copy` (the copy
constructor), and what the client is shown. An int is a number of
`-Half .. Half - 1`, and a time is any integer, because `empty(int)` is called
with an int64_t and looks at what is left of it (`Narrow`).

### LPushServer

`pc[p]` is the call of `run()` or of `LPushServer` that the main coroutine of
process `p` is in. `pidFile`, `holder` (of the lock), `port` and `entry` are
shared by all processes; `pipe`, `quit`, `listener`, `conns`, `since`, `redis`,
`held` are those of one process. A signal is put into the pipe by the operating
system and read by `OnSignal` only while the main coroutine waits.
`CloseListeners` is the assertion of `lp_close_stfd()`: processes of `Asserting`
are built with it.

`RedisBreaks` ends the connection to Redis for good. The next turn of the main
loop (`Tick`, at its LRANGE) or of a session (`NullReply`) then ends the process;
`Dispose` does not notice, because `hdel()` (`lpushRedis.cpp:253-258`) frees a
null reply and returns: the process exits by `exit(0)` and its entry stays. That
is the one graceful end that `StaleEntryExplained` admits; all others are a
kill, `exit(0)` in the signal handler, an abort or a crash.

`Hang` sets `held`: a call that does not yield does not return. A Redis command
has no timeout, and the paging loop of the history thread
(`lpushMongoIOThread.cpp:122-132`) never ends over more than a page. Nothing else
of the process runs from then on. `CloseConns` joins the threads of every
connection, which last as long as the clients send, and deletes connections
under their own coroutines, which may end the process. `TermEnds` names both as
`Stuck`: SIGTERM ends a process that does not get stuck for ever.

### LPushMongoIO, MongoClient

`heap` says whose request lies at an address, `queue` holds addresses, `mie[c]`
is the pointer that the connection keeps after `pop()` freed the request.
`DoCycle` is one round of the thread for one request: three queries, each of
which may fail; `PageAgain` is one more turn of the loop `while(isup)`, in
which the whole process stands still because nothing in it yields.
`MongoClient` has the queries as operators on a sequence of documents
(`Matching` is a recursive function along it); none of them reports an error, so
a failing query is an empty list or a "no".

### LPushPresence

One user, several servers. `pc[c]` is the next command of the sequence that
connection `c` is in; the other connections of the same server wait (`Idle`),
those of other servers do not. `key` has a time to live in units of `Tick`;
`Forever` is what SET leaves before EXPIRE. `since[c]` bounds the silence of a
punctual client; clients of `Late` may be silent for as long as they like.
`foreign` collects the connections whose records another one has overwritten or
deleted, `excused` and `gap` remember the events after which leftovers are
unavoidable: a crash, an acknowledgement that could not be sent, a refused
duplicate (`createConnection()` writes all records before it looks for one).
`Check` may or may not refuse when another session of the user is registered on
the same server: that depends on whether both presented the same part of the
secret. A receive thread that has not ended yet handles a heartbeat after a
`do_dispose()` (`BeginBeat` from `dropping`); it then lingers, and its end
disposes again.

A Redis connection that breaks inside a session is `Crash` here: no later command
of that server arrives - the null replies of `del` and `zrem` are ignored by the
code, and the records stay as they would after a crash - and the process ends at
the next reply that it dereferences. What a method makes of a null reply is
`LPushRedis`.

### FastBuffer, LPushFrames, FrameStream

`FastBuffer` is the memory of `LPushFastBuffer` with its window; a byte is its
position in the client's stream, so that "the right bytes in the right order"
can be said. In `LPushFrames`, `Arrive` and `ClientCloses` are the network;
`Grow`, `Fill`, `FillFails` are `grow()`; `ReadHeader`, `Handshake`, `Create`,
`Forward` take a header or a body and do what the session does with it. A frame
keeps what decides: the flag, its type, the length it announces, and whether
its body is well formed. `FrameStream` is the abstract specification: a stream
delivers acceptable frames whole, in order, until it is closed.

### LPushFmt

Encoders and decoders on sequences of bytes of `Base` values (256 in the code),
an int of four bytes (`Word` values) and a long of eight. The shift of an int by
32 or more in `decodeLong()` is undefined: the model has both outcomes that
builds produce, the low half alone and the two halves joined by `Or`.

The decoders get a pointer and no size, and take the length of a string or a JSON
text from the bytes as a signed int (`lpushFmt.cpp:63-66`, `107-110`). A decoder
is therefore a set of outcomes: `Decoded` with a value and a count; `Beyond`,
when it goes on with bytes from behind the body, whose value is then nobody's
business; `Died`, when such a read, `memset()` over the null pointer that
`malloc()` returns for a negative length, the zero that `decodeString()` writes
behind its allocation (line 112), or an exception of `getMemberNames()` or
`asString()` over JSON that is no object of plain values (lines 75-80) ends the
process. `encodeString()` allocates five bytes and copies the whole text behind
them (lines 178, 186): `Overflow` ends the process, `Encode` is the case in which
nobody notices. It also never sets `tlen`. Nothing in the server calls the
encoders.

`InputsAssumption` restricts what the program encodes (numbers fit their types,
a text is shorter than an int counts) and nothing about a client's body except
that it has a byte. `Handshake` and `PushCallback` are the two callers in the
server: they are defined for every body, and `HandshakeExact` and
`CallbackExact` say which bodies have an effect, and which may end the process or
be read beyond their end. `decodeJson()` returns `ERROR_FMT` as if it were a
length; `ErrorFmt` is 7 in the run, so that bodies of that length occur.

### LPushRedis

The life of the one connection: connected or not (the result of
`RedisInitializer()` is not looked at), a password that may be refused, a
command that is carried out, breaks before or after that, or is never answered
(`Hangs`). `Reads` says for each method of the class what it reads of a reply;
one that reads anything ends the process when the reply is null.

### LogContext, LPushLog, LPushPThread

`LogContext`: coroutines at addresses that are used again, the cache of ids that
nobody clears. `LPushLog`: how far `snprintf()` writes (`Extent`, `End`) and the
size of a line as the sum of what it returned (`Size`), which are not the same,
what of it `write()` gets, the two-step opening with and without `O_APPEND`,
several processes on one file. A line whose formatting left the buffer may end
the process (`Overruns`). `LPushPThread`: the owner and each thread as processes over `loop`,
`can_run`, `disposed`; `pid` is the newest thread, `thread[t]` where thread `t`
is.

### MCLPushCore, MCLPushWire

These two modules put components that share nothing into one state graph:
`part`, chosen at the start, says which of them moves, the variables of the
others keep their first values. `MCLPushCore` has the thread wrapper, the POSIX
wrapper, the Redis client and the two parts of the logger; `MCLPushWire` has
frames, values and tasks. The properties of an instantiated part are named
there (`PosixInsideRun == Posix!CycleInsideRun`). Both leave the values of all
constants to the `.cfg`, so that a theorem about a part is about every value;
`PartsBehave` in `LPushCoreProofs` and `LPushWireProofs` says that a behaviour
of the composition is one of each part.

## 4. Runs

| Run | Instance | Properties |
|---|---|---|
| `conn_safety` | 3 connections for 2 slots, two identities of one user, failing thread creation | `TypeOK`, `ListedExactly`, `RegistryOwned`, `ThreadsInsideObject`, `RegisteredIsOnline`, `RegistryHandover`, `CleanLogout` |
| `conn_liveness` | 2 connections, 1 identity | `EndedIsFreed` |
| `delivery` | 5 tasks, 2 users, batches of 2, 1 crash, task 4 unreadable | `SentInOrder`, `NothingPassesPoison`, `ImplementsMailbox` |
| `delivery_live` | 4 tasks, 2 users, batches of 2, 1 crash, LTRIM may break | `OncePerRun`, `KeptUnlessOffline`, `Drains` |
| `server` | 2 processes, one built with assertions, a client slot each, three signals each, a Redis that breaks, calls that never return | `PidFileNamesHolder`, `StaleEntryExplained`, `TermEnds`, `EntryRefreshed` |
| `history` | 4 sessions of 3 users with no more than a page, a full page, and more; 2 addresses; failing queries | `RequestsHaveSessions`, `HistoryOnce`, `OnlyStalePointersSteal`, `Served` |
| `presence` | 2 servers, 3 sessions of one user (two on one server), one not punctual, one failing query, crashes | `Findable`, `LeftoversExcused`, `FewMembers`, `KeyGoesAway` |
| `wire` | a buffer of 6, headers of 2, bodies up to 3, streams of up to 4 frames; bytes of 2 bits, bodies with lengths that are exact, short, negative or more than there is; ints of 3 bits | `ReaderSafe`, `WholeFrameHandled`, `ImplementsFrameStream`; `FmtExact`; `TaskSurvives` |
| `core` | 2 threads of each wrapper, 11 Redis commands on 3 fields, 2 processes on a log file, 3 coroutines at 2 addresses | `CycleInsideRun`, `StopWaits`, `OwnerProceeds`; `PosixInsideRun`; `ConnectionDecides`, `BrokenEnds`; `LineBounded`, `OnlyExtended`; `IdNamesOne` |
| `inner_loop` | 1 connection | violated: `InnerLoopQuits` |
| `quits_itself` | 1 connection | violated: `NeverQuitsItself` |
| `server_term` | 1 process built with assertions, SIGTERM | violated: `TermCloses` |

`ReaderSafe`, `FmtExact`, `TaskSurvives`, `ConnectionDecides`,
`LeftoversExcused`, `Drains`, `OwnerProceeds` and `CycleInsideRun` are
conjunctions of parts that have a name and a comment each in their module.
`NeverRetries`, `WithinLimit`, `WorksAreHead`, `OneServes`,
`RemovesNoLiveEntry` and `StopsOnlyOverLongHistory` are not run: they are proved (section 5).

### Bounds, and why they are enough

* Threads are independent of each other: two show the joinable and the detached
  kind. The POSIX wrapper gets three runs of one object, so that a thread of an
  earlier run can still be ending while a later one starts.
* Connections interact only through a shared identity, the presence record and
  the limit. Two identities of one user and three connections give a duplicate,
  a second registration over the same record, a predecessor and one more than
  the limit, with addresses that are used again. (A second user shares nothing
  with the first but the limit.)
* A batch of two out of four or five tasks gives full batches, partial ones, and
  a list longer than the batch (the code reads 1001: LRANGE 0 1000). One crash
  gives two lives of the process, and each property relates at most two.
* Two processes are a server and a second start, or a predecessor and its
  successor; whoever comes third meets the same files. Each gets a SIGHUP, a
  SIGINT and a SIGTERM in every order, and Redis may break or a call hang at
  every place where the code makes one.
* Two addresses for four requests force their reuse. `MaxHistory` bounds how long
  the paging loop is watched: twice the page, so that it has asked again.
* Two servers and three sessions give a duplicate on the same server and one on
  another. `TTL` is 2 and `Beat` 1: a punctual client is in time, one late
  heartbeat is not. `MaxFails` is 1.
* In a buffer of six with headers of two and bodies of up to three, every rest
  that can be unread meets every request, and the window is moved. The streams
  have each message type in each stage of the session, a body that is too long,
  a header without the flag, an empty body. Every segmentation is tried.
* A log buffer of 8 with headers of 3 and 9, messages of 1 and 4 and a text of
  errno of 2 gives lines that fit, lines that are cut, and lines whose text of
  errno starts behind the buffer.
* With bytes of two bits (`Base` = 4) every int is tried, with ints of three bits
  (`Half` = 4) every time of six: low half zero, positive and negative.
* `MaxLines`, `MaxBorn`, `MaxIds` and `MaxThreads` bound counters.

Deadlock is checked in `delivery`, `delivery_live`, `inner_loop` and
`quits_itself`. In `conn_safety` and `conn_liveness`, connections whose
coroutine could not be created fill the server for ever: there the real server
stops accepting as well. In `server` and `server_term` all processes have ended; in
`history` and `presence` all sessions are over, or the paging loop never ends;
in `wire` a reader has ended or a value is decoded; in `core` the process of the
Redis client is dead or waits, or a bounded counter is used up.
`conn_safety` uses symmetry of the addresses; runs with liveness use none.

### Fairness

* `LPushThread!Fairness`, `LPushConn!Scheduled`: weak fairness per coroutine. The
  State Threads scheduler runs every ready coroutine, sleeps end, and reads and
  writes have a 60 s timeout (`do_cycle`, lines 70-71), so a blocked coroutine
  goes on with success or an error. `WF(HandlerReturns)` is the assumption that a
  handler's `cycle()` returns; the module checks what `stop()` does given that.
* `LPushConn!QuietClients`: strong fairness of `RecvFails`, "a client does not
  send for ever". It is an assumption about clients and it is needed: without
  it `EndedIsFreed` fails in the way `inner_loop` shows.
* `LPushDelivery!Fairness`: the main coroutine goes round; sessions and consume
  threads are strongly fair because `cycle_all()` only delays them (they are
  disabled while it runs, again and again). A process without Redis dies at its
  next LRANGE, and somebody restarts it. Producers and crashes are not fair.
* `LPushServer!Fairness`: each coroutine that can run runs again, unless the
  process is `held`: all calls between two steps either yield or, by `Hang`,
  never return. `close_conns()` is fair only when there is no connection left:
  its joins may last as long as a client sends. Starting, killing and signalling
  a process are not fair, nor are its clients or a Redis that breaks.
* `LPushMongoIO`: only `WF(DoCycle)`; the thread wakes every second. Nothing is
  assumed about connections, and nothing about the paging loop.
* `LPushPresence`: only `WF(Tick)`. Time passes as long as punctual clients are
  in time; Redis expires keys by itself.
* `LPushFrames`: `WF(Reads)`. The network is not fair: a client may stop sending.
* `LPushRedis!Fairness`: the start goes on, and a process that runs calls `list()`
  every second (`do_cycle`). Nothing makes Redis answer.
* `LPushPThread!Fairness`: both threads run on, and a handler's `cycle()` returns.

### Disagreements with the comments

* `InnerLoopQuits`. `lpushThread.h:138-142` asks the inner loop of `cycle()` to
  quit when the thread is interrupted. `interrupted()` reads `can_run`, which
  `stop()` clears only after the join. When the `st_thread_interrupt` of `stop()`
  falls into the 350 ms sleep of the receive loop, it is consumed there and the
  loop goes on reading. Teardown then lasts until the client is silent for 60 s,
  closes, or sends garbage.
* `NeverQuitsItself`. `lpushThread.h:42` says that a joinable thread never quits
  itself, "or memory leak". The receive and consume threads are joinable and do
  so on every read or write error; `dispose()` then skips the join, and the
  exited coroutine is never reaped.
* `TermCloses`. `lpushAppListener.cpp:172` says "close the stfd to trigger thread
  to interrupted." The listener waits in `st_accept()` on that descriptor, so
  `st_netfd_close()` fails with EBUSY and the assertion in `lp_close_stfd()`
  (`lpushAppSt.cpp:220`) ends the process. In a build with assertions SIGTERM
  never reaches `dispose()`, and the server entry stays in Redis.

Three more were met and need no run:

* SIGINT calls `exit(0)` at once (`lpushServer.cpp:570`), although the comment at
  line 400 says the server quits gracefully; the model has it as `OnSignal` with
  the result `exit`, one of the ends that `StaleEntryExplained` names.
* `encodeJson()` appends its binary header as a C string (`lpushFmt.cpp:212`), so
  the length is lost; `RoundTrip` leaves encoded JSON out for that reason. The
  server only decodes JSON.
* `lpushLogger.cpp:258` says that a byte is reserved for the newline. In `error()`
  the size may be more than `LOG_MAX_SIZE` after line 259, because `vsnprintf()`
  returns what it would have needed; line 264 then gets a pointer behind the
  buffer and, the difference being negative, a bound that bounds nothing.
  `LineBounded` says that this is the only case in which formatting leaves the
  buffer; what is passed to `write()` is cut to the buffer in every case
  (line 337).

### Hazards without a property

* `close_conns()` (`lpushServer.cpp:277`) deletes connections whose coroutines
  wait; reached only without assertions. `CloseConns` allows any outcome.
* The accept loop spins when `accept` fails with EMFILE
  (`lpushAppListener.cpp:247`), and the listener's descriptor is closed by
  `close(_fd)` after `st_netfd_close()` may have closed it (line 180): neither
  has a counterpart in the model's `port`.
* A Redis that never answers stops the process for ever (only connecting has a
  timeout, `lpushRedis.cpp:38`). `Hangs` models it; no property excludes it.
* `LPushMongoIOThread::cycle()` stops its own thread on an error
  (`lpushMongoIOThread.cpp:73`) and would join itself; `do_cycle()` never returns
  an error, so this is unreachable.
* After a thread ended itself `tid` is still set and `start()` reports "already
  running" (`lpushThread.cpp:99`): `LPushThread` has the case, no caller does it.
* A silent client is noticed by nothing but the 60 s read timeout of its socket:
  the heartbeat timeout compares the times of two messages, and silence brings
  none (`lpushAppLpushConn.cpp:107`). `EndedIsFreed` says what follows once the
  read has failed.
* A POSIX thread may still be in its last statements when `dispose()` returns
  (`lpushPThread.cpp:82`); `PosixInsideRun` is about `cycle()` of the handler.

## 5. Proofs

| Module | Theorems |
|---|---|
| `LPushLemmas` | induction along the naturals, division, what each operator of `ThreadOps` does to the flags, what `Matching` returns |
| `LPushCoreProofs` | threads: `ThreadInductive`, `TypeCorrect`, `HandlerGated`, `SingleCoroutine`, `StopWaitsForExit`, `HandlerInsideRun`; POSIX threads: `StopIsEnough`, `GateHolds`, `PosixHandlerInsideRun`; Redis client: `RedisConnectionDecides`; logger: `LogLineBounded`, `OldLogExtended`, `LogIdsNameOne`; `PartsBehave` |
| `LPushConnProofs` | `Inductive`, `TypeCorrect`, `ListIsExact`, `RegistryIsOwned`, `RegisteredIsPresent`, `NoUseAfterFree`, `OneCycle`, `HandedOver`, `LimitKept`, `LogoutIsClean` |
| `LPushDeliveryProofs` | `Types`, `Heads`, `Once`, `PoisonStops`, `Kept`; if LTRIM does not break, `InOrder` and the refinement `MailboxImplemented` |
| `LPushServerProofs` | `Types`, `PidFile`, `Exclusion`, `StaleEntry`, `KeepsLiveEntry` |
| `LPushMongoIOProofs` | `HistoryInductive`, `RequestsBelong`, `HistoryAtMostOnce`, `LongHistoryStops`, `StaleStealOnly` |
| `LPushPresenceProofs` | `Inductive`, `Types`, `PunctualIsFindable`, `LeftoversHaveExcuse`, `MembersBounded` |
| `LPushWireProofs` | frames: `Inductive`, `ReaderIsSafe` and the refinement `FramesDelivered`; values: `FmtInductive`, `FmtIsExact`; tasks: `TaskInductive`, `TasksSurvive`; `PartsBehave` |

They hold for every set of threads, connections, identities, processes and
servers, every limit, batch, buffer, expiry time, stream, collection and width
that the `ASSUME`s of the modules admit, and these are the only assumptions:
connections and servers are finite in number and the `None`s are outside of the
sets they complete, a heartbeat is more frequent than the expiry, the buffer has
room for two headers and for two bodies (131072 bytes against 14 and 400 in the
code), a line of the log has room for a newline and a zero byte, the numbers that
are encoded fit their types, texts are shorter than an int counts, a body has at
least one byte, each identity belongs to a user, and a task of this program has
all its fields.

The argument is the same everywhere: a strengthening of the property that every
step preserves.

* Threads (`LPushLemmas!Truthful`): the flags tell the truth. While the
  coroutine runs, `tid` is set and `disposed` is not, and once it has entered
  `thread_cycle()`, `really_terminated` is false. That is what `StopReady` needs to
  conclude that the coroutine has ended; `OneCoroutine` does not imply it.
* Connections (`LPushConnProofs!IInv`): for each connection, what its location
  says about its two threads: none exist before `startRecv`, the receive thread is
  over at `joinConsum`, both are being joined in teardown if they still run, and
  `client` holds exactly from `ack` to the free. Without it
  `ThreadsInsideObject` is not inductive. `PresenceOK` carries
  `RegisteredIsOnline`: `RecordedOK` and `DisposedOK` say once what a write and a
  removal of the shared record do to all sessions of the user, and that a session
  in `erased` shares its user with another identity. `LogoutIsClean` adds
  `Sessions`: a connection in teardown was disposed of or still has its receive
  thread in `cycle()`, and once a disposed one has left it, the record is gone or
  another connection's, and nobody writes it for this one again.
* Delivery: `Flow(k)` orders what was sent, what is being written, what is
  queued, and what is still to be read; `Unread` keeps the unreadable task in the
  list; `Dealt` puts the tasks that `cycle_all()` has passed into the queues.
  If LTRIM may break, order holds only within one life of the process
  (`From(k)`). The same invariant gives the refinement: what a user is sent next
  is the least of its pending tasks; LTRIM discards those of absent users, a crash
  those that were trimmed and not sent, the end of a session its queue; reading
  and pushing a batch and taking from a queue change no pending set.
  With a broken LTRIM a task is sent again by the next process, so `~BreakingRedis`
  is a hypothesis of `InOrder` and of `MailboxImplemented`.
* History: the queue holds an address at most once, and the owner of an address
  in it (`Owned`) points to it and is still served. It is not enough that owners
  exist: that a session gets its history once needs `Fresh` (nothing was pushed
  to a session whose request waits) and `Single` (at most one session of an
  identity is registered). `OwnUntilPopped` is the start of every chain of stale
  pointers: before a first request was popped, each pointer is the session's own.
* Server: `LockInv` (who is past the lock holds it), `FileInv`, `EntryInv` (an
  entry belongs to a process that serves or has ended in one of the ways of
  `Left`: a crash, or gracefully without Redis). `KeepsLiveEntry` rests on
  the lock: while one process is about to remove the entry, no other can have
  written its own.
* POSIX wrapper: only the newest thread can be active, and `disposed` says that
  it is not, except between `pthread_create()` and the statement after it
  (`DisposedIsOut`), where the gate holds it (`AtGate`).
* Redis client: `RedisInv` adds what a context is in each stage of the start, that
  a password was accepted only over a context, and that what is believed is what
  is stored until AUTH is over.
* Logger: `LogInv` says what was written of a line of each size, that a line
  which left the buffer has a text of errno behind a message that did not fit,
  and that with an old file every descriptor appends; `IdsInv` that cached ids are
  below the next one and differ between addresses. `LineFormatted` is the
  arithmetic: the header is cut to the buffer, so the message's bound is positive,
  and only the third part can start behind the end.
* Presence: `Written` says of a punctual session that nobody interfered with
  what its records are, with `key.ttl + since[c] >= TTL` for the time that is
  left; `HasRemover` gives each entry of the sorted sets a session that is still
  going to remove it. `MembersBounded` counts: of the connections of a server at
  most one is between two commands (`OneBusy`), and a server that is about to
  insert is counted as a document already (`Counted`).
* Frames: `Reader` adds to the window what is awaited (`Awaits`: a header, or a
  body of at most `DataMax`), which bounds every request of `grow()`; `Dialog`
  says how many messages were read and which answers written in each stage, while
  the session lasts and after it ended. `FramesDelivered` is the step simulation
  under that invariant; the step that delivers a frame may also close the stream,
  when the session refuses what the frame says.
* Values: state holds little (`FmtInv`), the work is in the operators. The bytes
  of a number are its digits to the base `Base` (`DivTwice`, `DivUnique`), so
  `Number` of them is the number modulo `Word` and `Signed` undoes that for what
  fits an int; `Or` with 0 is the other operand, which makes both outcomes of the
  undefined shift the same for the longs of `Safe`. What a
  decoder takes as a length is an int whatever the bytes are (`LengthIsInt`), and
  `StringDecoded` gives the outcomes of a string from where its length points to;
  `CallbackHolds` uses it twice, for the body and for what the first id leaves.
* Tasks: a task is read back (`ReadBack`) as it was except for times that are
  empty for `empty(int)`, which come back as 0; a document of the history with
  such a time stops the server.

What stays with TLC is liveness and everything that rests on fairness, which
TLAPS cannot prove: `OwnerProceeds`, `EndedIsFreed`, `Drains`, `TermEnds`,
`EntryRefreshed`, `Served`, `KeyGoesAway`, `BrokenEnds`, `WholeFrameHandled`.
Every other property of the passing runs is a theorem.

Recursive definitions are functions (`Begin` of a stream, `Matching` of a
collection, `Or` of two numbers). The library's induction theorems take an
operator as a parameter, which the provers cannot instantiate;
`LPushLemmas!Induction` says the same of a set of naturals, from the least
element (`WFMin`), and is what `Begin` and `Matching` are unfolded with. Of `Or`
only the case of a zero operand is proved, which is all the theorems need: for a
long that does not fit an int the model says what comes out and no property
claims that it is right. `PushCallback` and `Handshake` are proved about
bodies of any bytes and any lengths that these announce.

## 6. Not modelled

* Redis, MongoDB, State Threads and the operating system are external: commands
  are atomic and take effect in order, the scheduler is cooperative.
* The UDP listener (never created), the `err_*` variants of the log functions
  (the same code as the others), configuration, JSON and the small utilities (no
  state that changes after start), the blocking socket and the test programs.
* What the server writes: `sendPacket()` either succeeds or fails, the texts of
  the replies are codes.
* MongoDB updates, deletions and the pool's `pop` and `push`: the server makes
  no decision that depends on them.
* `fcntl` failures in `accept_client` close the descriptor and change nothing.
  Memory exhaustion other than a missing stack is left out.
