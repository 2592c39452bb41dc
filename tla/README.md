# LuaOS in TLA+

LuaOS runs Lua services in threads of one process and lets them talk: through a
topic bus, through remote calls, through a shared storage, over sockets, and
through a cluster of processes. This directory holds TLA+ modules of the parts
whose correctness depends on the order of events, the TLC configurations that
check them on small instances, and TLAPS proofs for every instance.

## 1. The system

A *service* is a Lua state, the thread that runs it and a *reactor* (an asio
`io_context`, `src/include/socket/socket.hpp:56`). `post` appends a function to
the queue of a reactor, from any thread; `os.wait`
(`src/src/luaos_state.cpp:1028`) runs what the queue of the calling service
holds, one function after the other. Lua code therefore never runs concurrently
with other code of the same service, but the services run concurrently and share
tables under mutexes. What is posted usually names a Lua function by its index
in the registry of the Lua state (`luaL_ref`), because a function cannot leave
its state: the index is looked up when the posted function runs.

### Components

| component | state | operations | hard behaviour | what makes it correct |
|---|---|---|---|---|
| topic bus `src/src/luaos_subscriber.cpp` | `_topics`, `_watchs` (reactor and registry index per entry), one mutex | subscribe, cancel, watch, cancel_watch, publish; posts `on_publish`, `on_watch` | indices that are stale when the post runs; services that stop; masks | one entry per service, entries own their index, no echo, one order for all, complete notifications |
| remote calls `src/src/luaos_rpcall.cpp` | `_rpc_reged`, one mutex | register, cancel, call (blocks), invoke (callback) | blocked callers, cancelled handlers, cycles | a caller is answered once, by its own call; callbacks survive; calls return |
| TCP socket `src/include/socket/socket.hpp:618` | two buffers, `_widx`, `_sending`, `_closed`, `_asyned`, a timer | async_send, async_wait, close, timeout, connect, accept | partial sends, errors, close while sending, expiry | bytes leave in order, once, all before a flushed end |
| socket events `src/src/luaos_socket.cpp` | registry references of handlers, the context of a socket | select, listen, connect, close and their handlers | two errors for one socket, references used after release | a handler owns its slot until it is told of an error, whoever is closed is told, no slot is lost but in known cases |
| cluster `src/share/lua/5.4/luaos/cluster/` | master: `sessions`; proxy: `local_topics`, `remote_topics`, `server.peer` | start, stop, watch, accept, subscribe, cancel, publish, errors | connections that break and come back, messages under way in both directions | `remote_topics` counts the other processes that subscribe; a reply reaches its publisher |
| jobs `src/src/luaos_state.cpp:1111` | thread, reactor and status of a child | start, stop, id, gc, exit | a child that ends while it is stopped; mutual waiting | start and stop return unless a cycle or a lost task holds them; stop is graceful; a job outlives its thread |
| watchdog `src/src/luaos_state.cpp:965` | `alive_states`, the check thread | keep_alive, alive_check | hook against wait, last state that closes | only a state that has not waited for 10 minutes is interrupted, and it is |
| timers `src/src/luaos_state.cpp:1497` | timer object, two references | scheme, cancel, gc | cancel against expiry | a handler runs at most once, references are released once |
| storage `src/src/luaos_storage.cpp` | `_storage`, recursive mutex | set (with a merge callback), get, erase, clear | callback under the lock | read-modify-write is atomic, no mutual waiting |
| identifiers `src/include/socket/identifier.h` | `_next`, `_free` | next, push | reuse, exhaustion | ids in use differ |
| circular buffer `src/include/socket/circular_buffer.h` | ring of a power of two | write, read, data, clear | wrap and growth | a FIFO of bytes |
| framing `src/include/socket/decoder.h` | bytes not yet decoded | encode, decode | split input, ping and pong | packets come out as they went in |
| pump `src/share/lua/5.4/luaos/pump.lua` | handlers by name and priority | register, dispatch, unregister | changes during a dispatch | who is registered throughout is called once |
| recorder `src/share/lua/5.4/luaos/recorder/` | workers, a flag in the storage | start, write | two starts at once | one recorder |

The rest (the HTTP service, module loader, command line, value conversion, list,
compiler, `luaos_master.cpp`, which is never called) is sequential or dead and is
listed with its reason in `PROJECT.json`.

How they interact: the proxy of the cluster is a service that *watches* topics on
the bus, subscribes to topics in the name of other processes and talks to the
master over TCP sockets; sockets, bus and remote calls deliver through the
reactor of a service, that is when its script calls `os.wait`; the buffers of a
socket are circular buffers; services, sockets and reactors take ids from
one pool.

## 2. Modules

| module | models | kind |
|---|---|---|
| `TopicBus` | the topic bus and the dispatch of its messages | specification |
| `TopicBusProofs` | theorems about `TopicBus` | proofs |
| `ByteStream` | what a sending socket promises | abstract specification |
| `TcpSend` | the sending side of a TCP socket | specification, implements `ByteStream` |
| `TcpSendProofs` | theorems about `TcpSend`, the refinement among them | proofs |
| `Rpcall`, `RpcallProofs` | remote calls | specification, proofs |
| `Cluster`, `ClusterProofs` | how subscriptions become known in a cluster | specification, above the bus and the sockets; proofs |
| `Identifiers` | the pool of ids | specification |
| `ClusterRoute` | how messages and replies find their way through a cluster | specification, extends `Identifiers` |
| `ClusterRouteProofs` | theorems about `ClusterRoute` and `Identifiers` | proofs |
| `Jobs`, `JobsProofs` | start, stop and end of services, and who waits for whom | specification, proofs |
| `SocketEvents`, `SocketEventsProofs` | completions, handlers and registry slots of the sockets of a service | specification, proofs |
| `AtomicMap` | what the storage promises | abstract specification |
| `Storage` | the storage and its recursive mutex | specification, implements `AtomicMap` |
| `Watchdog` | the check thread and the interrupt | specification |
| `ScriptTimers` | the timers of scripts | specification |
| `Fifo` | what a buffer promises | abstract specification |
| `CircularBuffer` | the buffer of a socket | specification, implements `Fifo` |
| `ServiceProofs` | theorems about `Storage`, `ScriptTimers`, `Watchdog` and `CircularBuffer`, two refinements among them | proofs |
| `MCTopicBus`, `MCRpcall`, `MCCluster`, `MCJobs`, `MCSocketEvents` | values of constants | model checking |
| `MCRuntimeSafe` | `TopicBus`, `ClusterRoute` with `Identifiers` | model checking of several parts |
| `MCRuntimeLive` | `TcpSend`, `Storage`, `Watchdog`, `ScriptTimers`, `CircularBuffer` | model checking of several parts |

The components that are checked and proved together with others name their
operators apart (`StoreInit`, `CheckNext`, `TimersSpec`, `PoolTypeOK` ...), so that
one model can extend several of them.

Operators named `Mutant...` are wrong variants of the operator they precede: a
bug someone could have written. They belong to no specification; each shows that
the property it is listed with in `PROJECT.json` can tell that bug from the code.

### TopicBus

An operation of the bus takes the mutex, changes a table and posts while it holds
the mutex, so one operation is one action: `Subscribe`, `Cancel`, `Watch`,
`CancelWatch`, `Publish`. `Dispatch` is one step of the receiver's `os.wait`: it
looks up the index in `registry` and runs what is there. If the slot is free
`luaos_pcall` raises (`luaos_state.cpp:100`) and the script ends or goes on.
`Exit` stops a reactor: the tables keep its entries, as in the code. `Ref` takes
any free slot; Lua takes the one freed last, so the model has more behaviours
than the code and the properties hold for every allocation. A message that names
a stale slot runs what is there now.

### ByteStream and TcpSend

`AsyncSend` and `Close` post; `RunWrite`, `RunShutdown`, `Commit`, `CommitError`
and `Expire` are the functions the reactor runs, each with all the calls it makes
(`Flush` and `Shutdown` are operators inside them). `Transmit` and `Fail` are the
kernel. Bytes are numbers in the order in which they were sent, so that order,
loss and duplication show. The circular buffers are sequences: without a limit
(`nmax` is 0) a write never stops short. `enqueue` compares a clock
with `async_send_timeout`; the model lets it close the socket or not.
`ByteStream` has three variables (accepted, wire, end). The mapping takes for
`accepted` the wire followed by `Pending`, the bytes of both buffers that the
kernel has not taken.

### Rpcall

A frame of `stack` is a handler that is running, for a call that was posted
(`from` another service) or nested (a service that calls itself). A call of
another service sets `waiting`, and a service that waits does nothing else:
`wait->run()` runs a fresh reactor, not that of the service. `Return` models
`call` and `invoke` after the handler: append the status, append the results,
release the caller or post the result. `Appended(values, 1, 0)` is what
`append(L, top + 1, 0)` does. `Exit` is `os.exit`, by the script or inside a handler:
the reactor is stopped and runs nothing more, but the script and the handlers under
way go on, so that who waits for one of them is answered still. A handler that calls
`os.wait` itself is left out.

### Cluster

`subs`, `watched` and `notes` are the bus as the proxy sees it: the number of
other services that subscribe to a topic, and the notifications in order, which
is what `ViewExact` and `LockOrder` of `TopicBus` establish. `OnLocalWatch`,
`ProxyReceive` and `ProxyError` are the handlers of the proxy, `Accept`,
`MasterReceive` and `MasterError` those of the master; `send_to_others` is
`SendAll`. A connection is a pair of queues that delivers in order, as
`ByteStream` says of a socket; one that breaks may lose what is still on it.
Tables of Lua that count use 0 for nil.

### Jobs

A service goes through the phases of `local_thread` and `luaos_wait`: it is
started (`Start`, the parent waits in `ios_wait`), waits for the first time
(`FirstWait` wakes the parent), runs what is posted (`Dispatch`), returns from
`main` (`Return`), stops its own reactor and that of its job (`Release`, `Shut`)
and closes its state, which collects its jobs one by one (`Halt` to `Join`
for each, then `Closed`). `luaos_job::stop` is four steps, since the child runs
between them: the checks (`Stop`), the post (`Drain`), the end of the wait
(`Resume`) and the stop of the reactor (`Halt`), then `Join`. The caller of
`job:stop`, the collector and `lua_close` take the same steps. A remote call is
`Call`, only as far as it blocks its caller: `Rpcall` has the rest. `Stuck` names
the services that no step can wake: they are in a chain of blocked services
that closes, or that ends in a task no reactor runs any more.

### SocketEvents

The registry is modelled as Lua keeps it: a free slot holds the next free one,
`Ref` takes the first and `Unref` puts a slot in front without asking what it
holds (`lauxlib.c` is vendored, so both are external). A completion is `queued`
with its outcome and keeps it, whatever is done to the socket afterwards; `Run`
runs the first one. `Shutdown` is `tcp::socket::shutdown`, with the linger that
waits for a send under way and otherwise the completions of what it aborts.
`OnError`, `RunData`, `RunConnect`, `RunAccept` are the handlers of
`luaos_socket.cpp`, with the rearming of `on_wait` and `on_accept`.

A socket knows its write handler twice: `context` is what `context()` keeps for
`on_error` to release, `notify` what `_notify` keeps for `on_send` to look up, and
`on_error` resets the first alone. A send that completes later looks up a slot that was
released and runs what is there: `astray` names the sockets of which one did, and
`SlotsOwned` says that it is only after the handler was told of an error. A
send that completes while `_closed` is set (`lingers`) looks up nothing.

`lua_os_socket_select` for writing asks nothing, so `SelectWrite` may come in any
state of a socket and any number of times. The slot of a handler it replaces, of a
listen that fails and of an acceptor that was closed before it handed over the
connection it had accepted are known to nobody from there on: they are in `left`.
`SlotsReturned` says that these, and the write handler of a socket that was not
selected for reading or was told of its error before, are all that stays behind once a
socket has nothing under way: the code gives back everything else. A connect
that fails leaves the socket open, or closed when the name was not known. What is
assumed of a script: it opens a socket once, and selects it for reading once and while
it is open.

### ClusterRoute and Identifiers

A connection is a constant and is made once; a process makes a new one to connect
again. `OnLocalPublish`, `OnRemotePublish`, `MasterReceive`, `Accept` and
`MasterError` are the handlers of `proxy.lua` and `master.lua`, `Send` and
`Reply` are `os.publish` of a service, whose mask and receiver the bus treats as
`TopicBus` has it. A publisher is one integer of three 16-bit parts; `Base` stands
for `2 ^ 16`. The master puts the session a message came from into the middle
part (`WithSession`, `master.lua:210`), and the proxy turns a reply's highest part
back into a receiver (`Arriving`). All services subscribe from the start: how
interest becomes known is what `Cluster` is about. The master knows of the
interest of a process with its first connection; one that connects again may have
announced it or not, as `cluster_rejoin` shows. The module extends `Identifiers` with
the connections as owners of ids: the master takes the session ids of accepted
connections from the pool, as `identifier::generator` hands them to every socket, and
a destroyed socket gives its id back at the end of the queue.

### Storage and AtomicMap

`Ask` is a call of an operation, which then waits for the mutex or goes on:
`Get`, `Erase`, `Clear`, `Set` are whole operations, `Merge` is the start of a
`set` with a function, `Return` and `Raise` its end. `frames` is the stack of the
functions that run under the mutex, which is recursive, so such a function may
use the storage itself. `Call` and `Answer` let it call another service as
`lua_rpcall_call` does.

`AtomicMap` is a map, what each service has asked for (`asked`), and the last operation
that is over (`done`). An operation that is over is a series of acts, which has to be
the one that was asked (`Whole`): `get`, `erase`, `clear` and `set` of a value are one
act; `set` with a function begins with the act that reads the old value, ends
with the one that stores what the function made of it or that it failed, and between
them are the acts of the function, such sets among them. All acts are of the service
that asked. Each finds what the one before has left, leaves what its
own arguments say (`After`), and returns what it found, a set with a function the
value that it read at its beginning (`Answers`). So a write of somebody else
between the two ends of a set, a write to another key, an erase that erases nothing and
an answer that is not the old value are no steps of `AtomicMap`. `Storage` logs what is
done under the mutex in `acts`, with the storage each act has left, and hands the
log over in `done` when the mutex is given back; for everybody but its holder the
storage is what the first act found (`Stored`), and what happens under the mutex is a
stutter.

### Watchdog

Times are ages, cut off above the bound that matters, so that time passes for
ever in a finite model. `Wait` is one turn of the loop in `luaos_wait`, with
`keep_alive` at most once per interval; `AliveCheck` is the pass of the check
thread through `alive_states`, `Interrupt` the hook that raises. Bounded time:
the check thread looks once between two ticks and a service in `os.wait` makes a
turn, as one unit of time stands for a second or more.

### ScriptTimers

A timer takes two slots of the registry, one for its handler and one for itself.
`ExpireTimer` queues a completion, whose outcome stays what it is when the timer is
cancelled afterwards; `Complete` looks both slots up, and `Release` gives them
back after the handler, which may have done anything in between. Slots are taken
again by other timers, and a free slot is any.

### CircularBuffer and Fifo

The indexes are unsigned words, which wrap at `Word`, a power of two, and are
reduced to the block where they are used. The sizes of blocks are the powers of two
that a word has, which are the numbers that divide `Word` (`Powers`). `Normalized`
is `normalize`, `Resized` is `resize` as far as the bytes and the indexes go, and
both run inside `Write` and `Data`, as they do in the code; `Cleared` makes the
block smaller again. `Filled` is the two copies of `write`, up to the end of the block
and from its start.

`Fifo` is a queue of bytes and the last call, with the bytes it was given or has handed
out and its count: `write` appends the first `count` of the bytes it was given, all of
them unless the limit forbids it, `read` hands out and takes as many as it is
asked for, `data` shows the first bytes and `erase` takes them. `CircularBuffer` notes
each call in `call` as it was made, and the mapping reads the block from `nr` to `nw`;
a wrong byte, one that was lost and one that is taken twice make its contents differ
from the queue. Bytes of the block that were never written are `Junk`, which no call
gives to `write`: one of them between `nr` and `nw` is a difference too.

## 3. Runs

`expect: pass` unless said otherwise. No run checks deadlock: every bound
(messages, calls, bytes) lets a behaviour come to a legitimate end.

`runtime_safe` and `runtime_live` host parts that share no variable: the initial
state chooses one (`unit`), which then runs while the others keep their initial
states; `MCNext` is the disjunction of their actions. The states are the sum of
those of the parts, not the product, and a property of one part is trivial in the
behaviours of the others. In `MCRuntimeLive` the fair actions of the parts that do
not run are never enabled: their fairness asks for nothing there.

| run | what it asks | bounds |
|---|---|---|
| `runtime_safe`, bus | no second entry; slots are owned by entries; one order for all; even masks; a watcher's view is the table; only a cancel makes an index stale | 3 services, 1 topic, 2 slots each (so that a slot passes from subscriber to watcher), one watcher, one that may stop, 4 operations that post |
| `runtime_safe`, routes | a reply reaches the service it answers, unless the connection by which the message came has ended; a publish reaches a service once, with a mask one service of the cluster, and comes back to its process by a later connection only; ids in use differ | 3 processes, the first with two services and the others with one, 4 connections, at most 2 of one process, 3 ids (so that an id passes to another session), 1 publish and 2 replies, masks 0 and 1 |
| `bus_stale` | *violation*: a message runs the handler of another topic | 2 services, one of which publishes, 2 topics, 2 slots |
| `runtime_live`, tcp | buffers apart; nothing stuck; flush before close, in order and without loss; implements `ByteStream`; bytes leave and a lingering socket ends | 5 bytes, chunks of 2: partial completions of both kinds and three swaps; 2 closes; fairness of reactor and kernel |
| `runtime_live`, storage | implements `AtomicMap`; the mutex is given back unless its function waits for a service that waits for the mutex | 2 services, 2 keys, 2 values, 3 operations: a set inside the function of a set, and an operation of another service |
| `runtime_live`, watchdog | only a stalled service gets the hook; a stalled one is interrupted | 2 services, timeout 3, interval 1 |
| `runtime_live`, timers | slots are kept exactly until the completion has run; a handler fires once and not after a cancel | 2 timers, 4 slots |
| `runtime_live`, buffer | implements `Fifo` | blocks of 1, 2 and 4 bytes, no limit and a limit of 2, words that wrap after 8, two values of a byte |
| `rpc` | types; slots of handlers and callbacks; callers and answers; who may wait for ever | 2 services that call each other and themselves, 3 calls, 2 slots; one may stop, inside a handler too |
| `rpc_lost` | *violation*: a caller waits for ever | one call, one cancel |
| `rpc_results` | *violation*: the results are not handed over | two calls |
| `cluster_safe` | types; counts and sessions stay exact through breaks and reconnects of others | 3 processes, 3 connections, at most 2 of one process, 3 subscribe/cancel |
| `cluster_live` | subscriptions and their ends spread | 2 processes, one connection each, 3 subscribe/cancel, one may stop its proxy; fairness of the reactors |
| `jobs` | types; a job outlives its thread; stop is graceful; who may be stuck and why; blocked services and the process go on otherwise | 3 services, two of which may end on their own and two of which may call, 2 calls; fairness of the threads |
| `socket` | types; slots belong to their socket, and which ones are not given back; a handler is told of the end | 2 streams, 1 acceptor, 2 slots, 1 close by the script (the timer and errors close as often as they like), 1 send; fairness of the reactor; nothing after a socket was handed data that came after its close (`OnTime`) |
| `socket_stale` | *violation*: an error of one socket runs the handler of another | 2 streams, 2 slots |
| `cluster_rejoin` | *violation*: a process that reconnects is not forwarded to | 2 processes, 3 connections |

The bounds are the smallest at which the cases happen: a third service so that a
publisher is first, in the middle, last or absent among two others; a second
topic or kind so that a stale slot is distinguishable; a third connection for a
reconnect while the other process is linked; two slots so that one of two sockets
takes what the other released; a second reply, to a reply; a block that grows
twice. Symmetry (the slots of the bus, the processes that do not publish, the
processes and connections of `cluster_safe`) is used only where all properties are
invariants or action properties that treat the members alike.

The run `socket` has a state constraint, `OnTime`: it does not go on from a state in
which a socket was handed data after it was closed. No property says anything of
those states or of what follows them: `SlotsOwned` and `SlotsReturned` have
`late = {}` for a hypothesis, and `ClosedTold` is satisfied once `late` has a member,
which it then keeps. What is cut off is the behaviour that `socket_stale` shows.
The theorems about the two invariants need no constraint.

### What the violations show

* `bus_stale`: `os.cancel` releases an index that posted messages still name;
  the next `os.subscribe` takes it and its handler is run with a message of the
  old topic.
* `rpc_lost`: a handler is cancelled after a call was posted; `luaos_pcall`
  raises before `ios->stop()`, and the caller never returns.
* `rpc_results`: `append(L, top + 1, 0)` appends nothing; only the status is
  returned.
* `cluster_rejoin`: a proxy that connects again does not announce its
  `local_topics`; the `remote_topics` of the others lack the topic, so publishes
  are dropped under a comment that says that nobody else subscribes.

* `socket_stale`: a socket is closed (here by its timer) while its read has
  completed; `on_receive` tells the handler and releases its slot, `on_wait`
  reads again, and the second error runs and releases whatever took the slot.

### What else the models show

These contradict no statement of the repository, so no run calls them wrong; the
properties are stated around them.

* `luaos.cluster.connect` watches after it has connected, and a subscription made
  before that is never announced. The properties of `Cluster` speak of
  `local_topics`, what the proxy has counted.
* The master keeps a publish from the session it came from (`master.lua:87`). A
  process that connects again while its publish is under way gets it back by the new
  connection: its publisher hears itself, and its other services have the message
  twice, the local copy and the returned one. `DeliveredOnce` allows exactly that.
* A reply names the session of its publisher by an id (`master.lua:208`), and ids
  are reused. A reply under way when the session ends can reach another process:
  `RepliesReturn` excepts connections that have ended.
* The interrupt hook outlives the stall: nothing takes it away when the service
  comes back to `os.wait`, so the next Lua code is interrupted, once, although the
  service is well again. `ArmedOnStall` speaks of when the hook is set.
* What a function of `set` stores under its own key is overwritten by what it
  returns, and one that calls a service which uses the storage waits for ever: the
  first is the order of the acts of `AtomicMap`, the second is the `Deadlock` that
  `LockFreed` excepts.
* A write handler that was selected alone, twice, or after an error keeps its registry
  slot for ever, as does the handler of a `listen` that fails; `_notify` keeps an
  index that `on_error` has released. `SlotsReturned` and `SlotsOwned` name these cases.
* A socket that was never selected does not linger when it is closed, so that what was
  sent with async just before is dropped: `CloseFlushes` counts it as aborted.

## 4. Fairness

A service runs its reactor because its script calls `os.wait` in a loop, as every
module under `src/share/lua` does: weak fairness of the actions that run a
posted function (`Dispatch`, `RunRequest` ..., `RunWrite` ..., `Run`, the handlers of
proxy and master). A handler that runs ends (`Returns`): a handler that loops is
the watchdog's concern. A send that the kernel was given completes or fails, and
an end of a broken connection finds the error (the sockets have a receive
timeout, 300 s by default, and the proxy a heartbeat). Nothing is assumed of
scripts, of breaks or of stops.

`Storage` assumes that a function of `set` ends and that an operation goes on when
it can have the mutex; `Watchdog` that the check thread runs and time passes, that
Lua code which has the hook executes an instruction, and that a service in
`os.wait` makes its turns. Neither assumes that a script comes back to `os.wait`.

`Jobs` assumes that a thread goes on with what it does in native code, that its
Lua code comes back to `os.wait` and returns from `main` once its reactor is
stopped, and that `lua_close` collects every job, as Lua does. `SocketEvents`
assumes that a read ends after `shutdown_receive`.

`CallEnds` says what fairness cannot help: in a cycle of calls each caller waits
without running its own reactor, and a callee that was cancelled, or stopped
before it began to run the call, never answers. Every other caller goes on, one that
waits for a handler in which `os.exit` was called among them.

## 5. Proofs

All proofs are for arbitrary sets of services, processes, connections, topics,
sockets and slots, any chunk size and any number of bytes, posts and closes, from
the named assumptions of the modules (`BusAssumption`, `SendAssumption`,
`RpcAssumption`, `JobsAssumption`, `ClusterAssumption`, `EventsAssumption`,
`IdentifiersAssumption`, `RouteAssumption`, `BufferAssumption`, `StorageAssumption`, `TimersAssumption`,
`WatchdogAssumption`: bounds are naturals, roles are subsets, model values differ, the
registry of a service is finite, the interval is below the timeout). TLC has checked
each inductive invariant on the instance of the component's run before it was proved.

**TopicBusProofs.** `Invariance`: `Spec => []IInv`. `IInv` joins the types, the
entries (`ListedOnce`), the ownership of slots (`RefsOwned`) and what is pending
in the queues. Ownership alone is not inductive: taking a slot must not disturb
an entry, which needs that a free slot has no entry, and releasing one needs that
no other entry names it, which needs `ListedOnce`. `NoEcho`, `LockOrder` and
`SteadyTargets` need that stamps in the queues are at most `posts` and above
what was handled, and that a message of a service that never cancelled names a
slot that still holds its handler. One lemma per operation of the tables
(`TakeSlot`, `ReleaseSlot`, `AppendEntry`, `RemoveEntry`) carries the argument,
one per action applies them.

`ViewExact` speaks of a watcher that has nothing left to handle, so it is far from
inductive. `Told` says it of every moment, of one service `u` at a time: the last
notification about `u` in the queue says whether `u` is listed, and if there is none
the view does (`Settled`). It survives a notification (`AppendSettled`), its
dispatch (`TailSettled`) and the start of a watch, which needs that no
notification waits for somebody who does not watch (`NotesAreWatched`, from
`SteadyTargets` and `RefsOwned`). `MasksSpread` is about the list alone: `n`
consecutive masks have every remainder (`RoundHitsAll`), and skipping the publisher
maps the remainders onto the others (`OthersAreSelected`, `SelectedIsAnother`).

**TcpSendProofs.** `IInv` joins the types, `FlightApart` and `SendState`: when a
send is under way its buffer is the one that is not written and holds at least
what was handed to the kernel, and when none is, both buffers are empty or
the connection has ended. `NothingStuck` follows. `Refinement` shows
`Spec => RefinesStream`: `Transmit` maps to `Transmit`, a write to `Accept`, a
close to `Abort` or `Finish`, all else to a stutter; the one fact that matters is
that an idle socket has nothing pending (`IdlePending`), and that a commit which
takes up the rest of a buffer leaves `Pending` as it is.

`CloseFlushes` needs to know where in the stream a lingering close stands. `OrderInv`
says that what was accepted, what waits in the posted writes and the close itself
come in the order in which they were asked for (`InOrder`, with `Ordered` of a
posted close carrying the number of bytes asked before it), and that a socket that
waits to finish has accepted all it promised (`Finished`). Each action either moves a
write from the queue to what was accepted or leaves the stream as it is.

`NothingForgotten` joins the three invariants: what the kernel took is the beginning of
what was sent, and while anything is missing something is under way that brings it on.

**RpcallProofs.** `IInv` follows every call that is under way, in a queue or on a
stack (`Line`). Each of them belongs to another call (`Apart`); what holds of one
(`Pending`) is that it has no answer yet, that a caller of another service waits for
this very call, and that the callback of an invoke, or of its result, is still in
the slot it names. `HandlersOwned` ties names and slots together in both
directions. Taking a slot needs that it was free, releasing one that no other
call names it, which is `Apart`. A new call needs an id that nobody has and that has
no answer (`NoneBefore`), and a service that runs something does not wait, so that
its own call can be the one it waits for.

`WaitInv` says where the call of a blocked service is: in the queue or on the stack of
another service, unless it was lost. `NobodyForgotten` follows, and `LostForEver` is the
other side: the ids of calls are not used again, so that nothing can answer a call that
was lost.

**JobsProofs.** Eight parts make the invariant, each inductive with some of the
others. `JobOutlivesThread` is inductive with the types: a state is gone only
when it has no jobs left, and loses one only when its thread has gone. For
`StopIsGraceful` the task of `job:stop` is followed through the queue
(`Graceful`): while its poster is not woken the task is there and all behind
it is late (`LateBehind`); once it is woken nothing is left that is not late, and
stays so until the reactor is stopped. That needs that a thread has one task at a
time and is woken by nothing else (`Posted`), and that a failed service had been
stopped or had ended on its own (`Ended`). `StuckHasCause` rests on three facts: a
thread works on one of its own children (`Family`), only the owner stops a service
that does not end on its own (`Owned`), and no set of services has a child of each of
its members in it (`Grounded`: the tree has neither cycles nor endless lines, in
an infinite set of services too). A set of stuck threads would be such a set.

`WaitedForGoOn` turns this around. `Asked` says that the service a thread waits for has
the task that wakes it in its queue, or has run it; `Rooted` that the chain of parents
ends at main. Take the services that a blocked one waits for, in one step or in
several: if none of them could go on, each would wait for another one of them or for a
task in a queue that is never run again, which is what `Stuck` means. `StuckForEver`
says of every step that it leaves such a set alone, and `EndGoesOn` applies the
argument to main: the thread of main is the last one, because a parent joins its children.

**ClusterProofs.** `SessionExact` and `CountExact` are about what two ends agree on
while messages are under way, so each needs to know what a queue says when all of
it has arrived. `Links` keeps the connections apart: one that is not made or not
accepted carries nothing, and the sessions are finitely many. `SessionExact` is
inductive once the proxy is known to subscribe only where the session is out of the
topic after what is under way (`Announced`, with `Alternates` for every subscription
on its way and `Ready` for the end of the queue), which a topic that was never watched
satisfies because the bus told nothing of it (`Unstarted`). The same fact makes the
master's "everybody is told" right: every subscription it receives is new, so the
number of the others grows by one. `CountExact` is an equation between a count, two
numbers of messages and a set, and the count of a proxy stops at 0 instead of
falling below; `NeverBelow` says that no prefix of the queue would let it. It holds
because the master tells the end of a session only of those topics that the session
still has, whichever of `on_cancel_request`, `on_socket_error` and `on_socket_accept`
comes first. `Counted` goes back through the notes of the bus: at each of them
there were between 0 and `MaxSubs` services, and the proxy counts no more than there
were, which is the bound of `local_topics` in the types. The lists the master
sends (`Known`, `Withdrawal`) are taken from sets in an unknown order; the two lemmas
`KnownList` and `WithdrawalList` say how often each message is in them.

`QuietAgrees` reads both at a moment when nothing is under way. The count of a proxy is
then the number of the other sessions that are subscribed; each of them belongs to
another proxy that is on it (`OnePeer`: a connection that works is the one its proxy
uses) and counts the topic (`Announced`).

**ClusterRouteProofs.** `IdsDifferAlways` shows `PoolSpec => []IdsDiffer`, by the
invariant that ids in use, free ids and ids not handed out yet are apart.
`RouteInvariance` shows `RouteSpec => []RouteInv`; `RepliesReturn` and `DeliveredOnce`
follow from it. They speak of messages that have arrived, so the invariant must say
of a message, at every place on its way, what arriving there will mean:

* `Each` takes the messages one by one (`Fits`). A publisher is an integer of three
  parts, and what they spell depends on the place: on the way to the master
  (`Outward`) the session is still missing, from there on (`Inward`, `Received`)
  it is in the middle. An id names the session it was taken from until that one
  ends, whoever has the id afterwards (`Names`).
* `Two` takes them in pairs of the same send (`Beside`): before the master has
  seen it, a message is at one place on the way there, beside the services of its
  process; after that it is once in every other one. A message for one service is
  never in two places.
* `Links`: a connection is made once, a session is one of them and has an id, so that
  a connection that has ended stays so.

Most messages stay where they are in a step. `Steady` is what a step must leave for
them to keep fitting (no connection comes back, a session keeps its id until it ends);
the lemmas about queues say what is left when one message goes (`Shorter`) and what
must be shown of one that comes. What the code does to a publisher is division and
remainder by `2 ^ 16`; `ThreeParts` is the arithmetic behind it, for any base.

**ServiceProofs.** `StorageRefinesMap` shows `StoreSpec => RefinesMap`. The log of
what was done under the mutex is the witness, so the invariant (`Logged`) says of it
that it is a beginning of such an operation: all of it is done by the holder, each act
finds what the one before has left and leaves what its arguments say (`Chain`), none
has ended the outermost function yet (`Unfinished`), the last one has left what is
stored now, and every function that runs was started by an act of the log that read the
value it was shown (`AllOpened`), with nothing after it but what runs inside it. A step
of the holder adds one act that fits (`Fits`, `FitsChain`); one that gives the mutex
back closes the log, which is then the whole operation (`LeavesOutside`).
`HolderGoesOn` and `DeadlockForEver` say when the mutex comes back: its holder has a step
to take except in the deadlock, and from there it never has one again.

`TimersAreSound` shows `TimersSpec => TimersSound`. The invariant
says it twice: a live timer holds the two slots it knows (`SlotsOwned`), and a slot
that is held belongs to a live timer that knows it (`NoneLeaked`). Only
together do they survive a release, which does not ask who holds a slot.

`OnlyStalledArmed` shows `CheckSpec => ArmedOnStall`. That the age the check thread
sees is at most the interval ahead of the truth is not inductive: a `Wait` that is
throttled resets the truth and not the age. The invariant adds that the age is then
the age of the last `keep_alive` (`ToldAge`). For `NoStallMissed` it adds the other
direction, that the age is never behind the truth (`AgeAhead`): then the first check
after the timeout finds the service.

`BufferIsFifo` shows `BufferSpec => RefinesFifo`. The invariant adds to the types that
the buffer never holds as much as a word can count (`Bounded`), which is what makes
the difference of the two indexes its size. An index is used as a remainder by the
size of the block; since that size divides the range of a word, the remainder does
not notice when the index wraps (`WordMod`), and the byte `k` places on is where `At`
says, with one subtraction instead of a division. From there everything is about
places in a block that differ: what `write` fills is not what is held
(`FilledFacts`), and what `normalize` has put in one piece is at the same places of a
larger block (`NormalizedHolds`, `ResizedHolds`). That `roundup_power_of_2` finds a
smallest size needs that every set of numbers has a least one, which `LeastElement`
takes from the well-foundedness of the numbers.

**SocketEventsProofs.** What a completion releases is whatever its slot holds when it
runs, so `SlotsOwned` and `SlotsReturned` need to know what runs. Three parts of the
invariant hold whatever happens: the types; what a socket may have under way in each of
its states (`Stages`); and that the queue has one completion of a socket's operation at
most, of the kind the socket is waiting for (`Lined`, kept by `SoundAppend`, `SoundTail`
and `SoundTurn`, and by `ShutdownSound` for what a shutdown puts there). `FreeChain` and
`Owned` hold as long as no socket was handed data after it was closed, and the run
`socket_stale` shows why not beyond: an operation under way knows a slot that holds its
own handler, so does the context of a socket, `_notify` knows the slot of the context
until the handler was told of an error, every slot that is held is known by one of them
or is in `left`, and the free slots point to each other, each to another one and none to
one that is held. The last is what `luaL_ref` and `luaL_unref` rely on and do not ask: a
slot that is released twice would be handed out twice. A new handler then takes a slot
nobody knows (`RefTakes`, `OpenKeeps`), and a completion that ends an operation gives
back the slots of that socket and no other (`UnrefGives`, `EndKeeps`).

`Answered` is the converse of `Lined`: what has completed and was not handed over is in
the queue, so that a selected socket which ends is told so (`ErrorComes`) if the queue
is run.

**The compositions.** The runs `runtime_safe` and `runtime_live` explore a sum of parts
that share no variable, one part in each behaviour. `SumImplementsParts` (one in
`ServiceProofs`, one in `ClusterRouteProofs`) shows that a behaviour of the sum is a
behaviour of each part, with `SumSteps` for its steps; `TypesOKAlways` joins the types.

**Liveness.** What is out of the prover's reach is fairness and `ENABLED`; what a
liveness property needs beside them is that nobody waits for something that nobody
will do, and that is safety. For each liveness property of a run a theorem states it:

| Property (TLC) | Safety core (proved) |
|---|---|
| `CallEnds` | `NobodyForgottenAlways`: who has the call of a blocked service can go on |
| `BlockEnds` | `WaitedForGoOnAlways`: of those a blocked service waits for, one can go on |
| `ProcessEnds` | `EndGoesOnAlways`: until the thread of main has ended, some thread can go on |
| `ClosedTold` | `ErrorComesAlways`: the completion that tells of the end is queued or due |
| `Drains` | `NothingForgottenAlways`: an operation or a send is under way |
| `LockFreed` | `HolderGoesOnAlways`: the holder of the mutex has a step to take |
| `StallInterrupted` | `NoStallMissedAlways`: the first check after the timeout arms the hook |
| `InterestFollows` | `QuietAgreesAlways`: when nothing is under way the proxies agree |

`LostForEverAlways`, `StuckForEverAlways` and `DeadlockForEverAlways` are about the
exceptions of these properties: a caller whose call was lost, a stuck service and a
deadlock in the storage stay as they are for ever.

Only model-checked: that the steps which these theorems say are there are taken and lead
to the end, which takes fairness and `ENABLED`. That an action of the fair specification
is enabled where `CanGoOn` or `GoesOn` holds has been checked by TLC, not proved.

## 6. Plan

1. *Done*: `TopicBus`, `TcpSend` with `ByteStream`, `Rpcall`, `Cluster`, `Jobs`,
   `SocketEvents`; `ClusterRoute` with `Identifiers`, `Storage` with `AtomicMap`,
   `Watchdog`, `ScriptTimers`, `CircularBuffer` with `Fifo`; the proofs above.
2. Proofs: every safety invariant, action property and refinement that a run checks is
   proved, those of the compositions too; of every liveness property its safety core.
   The rest of liveness stays with the runs.
3. Left to model: the receive timer of a socket with `timeout(0)` and the helper
   thread of connect, which need a clock beside `SocketEvents`.

## 7. Not modelled

* The helper thread of a `connect` with a timeout, and what arms the timer of a
  socket: in `SocketEvents` the timer may close a socket at any time, which covers
  every way of arming it, and says nothing about a timer that is never armed.
* UDP, TLS, the conversion of arguments: layers over the operating system or a
  vendored library.
* The framing of packets (`decoder.h`): headers, compression and encryption are
  conversions of one thread, byte by byte. Its queue is `CircularBuffer`.
* The pump (`pump.lua`): a table of handlers of one thread.
* The recorder: the race of two starts is a hazard of `PROJECT.json`; nothing in the
  repository says what should happen.
* Snow ids (`luaos_state.cpp:1206`): no promise to check them against.
* `reserve` of the circular buffer, which has no caller, and the clean-up of a
  state that is closed while timers wait.
* Handlers that call `os.wait` inside a handler; coroutines; parameters, packing
  and logging; memory exhaustion; the stop of the cluster's master.
* The module loader, the command line, the compiler, the list, the HTTP service
  and the Lua helpers: sequential. `luaos_master.cpp` is never called.
* Vendored code (`src/3rd`, `src/include/asio`, `src/lib`, most of the lines of the
  repository) is not part of the program; where the models rest on it (`luaL_ref`,
  the kernel, the reactor) it is modelled from its use and marked external.
