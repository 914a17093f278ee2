# A verification project for nav-rtlogging-go-lib

The library distributes GNSS correction streams over NTRIP. A *caster* accepts
sources on one port and subscribers on another and copies what a source sends
to the subscribers of its mount point; an NTRIP client, an NTRIP source and a
plain TCP server and client come with it. This directory holds TLA+ models of
its parts, TLC configurations that check them on small instances, and proofs
that TLAPS checks for every instance.

Line numbers refer to `src/` at the commit the models were written from.
`PROJECT.json` maps each definition to its lines, lists the runs, the mutants
that show each property can fail, the hazards and the theorems.

## 1. Inventory

| Component | State | Operations | Interacts with |
|---|---|---|---|
| `SafeNtripMap` (`ntrip/ntrip_map.go:185-367`) | entries by remote address; index by mount; one mutex | `Set`, `SetIfMountAbsent`, `Delete`, `CloseAll`, listings, `ForEachByMount`, `BroadcastLossByMount` | held by both caster sides; `CloseAll` closes beans outside the mutex |
| `NtripChannelBean` (`ntrip/ntrip_map.go:25-183`) | bounded queue, `closed`, `quit`, counters | `Send`, `SendLoss`, `Close`, the writer goroutine | senders are source handlers and the application; the writer owns writes to the subscriber |
| `Server` (`tcp/tcps.go`) | listener, `done`, connections, per-IP counters, limits, wait group | `Start`, `Stop`, `Shutdown`, setters, accept loop, handlers | callbacks |
| `NtripCasterServer` (`ntrip/ntrip_caster_server.go`) | the same, map of sources, byte counters, link to the client side | the same, `OnAuth`, `SetNtripCasterClient`, the speed loop | takes a mount in the map, broadcasts into subscriber beans, callbacks |
| `NtripCasterClient` (`ntrip/ntrip_caster_client.go`) | the same, map of subscribers, link to the source side | the same, with beans that have a writer | asks the source map for active mounts |
| `TcpClient` (`tcp/tcpc.go`) | current connection, wait group | `Start`, `Connect`, `Write`, `Stop`, `Shutdown` | callbacks that may start again |
| `NtripClient` (`ntrip/ntrip_client.go`) | current connection, current `quit`, `retrying`, wait group | `Start`, `Connect`, `Stop`, `Shutdown`, `Retry`; per connection a handler, an idle monitor, a GGA sender | callbacks that may call `Retry` |
| `NtripServer` (`ntrip/ntrip_server.go`) | current connection, wait group | `Start`, `Connect`, `Write`, `Stop`, `Shutdown` | callbacks that may start again |
| caster lifecycle (`ntrip/ntrip.go:33-265`) | the published pair, `casterInitMu`, `casterMu` | `InitNtripCasterWithConfig`, `StopNtripCaster`, the getters | makes, links, starts and stops both sides, undoes a partial start |
| protocol (`ntrip/ntrip_protocol.go`, parts of `ntrip.go`, `ntrip_client.go`) | none | parse a request, find the end of a header, format responses and GGA | called by handlers |

What is hard in this code:

* **Interleavings.** Handlers, accept loop, speed loop, `Stop` and a following
  `Start` share the state of a listener. Three mutexes (`mu`, `statsMu`, the
  map's) are taken one after the other, never together, so every clean-up is a
  sequence of steps others can get between.
* **Restart.** `Stop` does not wait. Goroutines of the old run meet the new one.
* **Replacement.** A client holds one connection; the goroutines of the old one
  must not touch its successor. Three goroutines report the same loss. A new
  caster replaces the old one on the same two ports.
* **Partial failure.** The second listener of a caster cannot bind, the request
  or the answer cannot be written, a writer gives up.
* **Retry.** A goroutine that sleeps, connects and waits, and must stop with the
  client.
* **Goroutines nobody waits for.** The writer of a bean is in no wait group; it
  depends on somebody closing the bean.
* **Bounded queues** with two consumers: the writer, and senders that evict.
* **Partial writes and deadlines** in the writer.

What makes each component correct: the index is the entries (map); nothing is
lost uncounted, reordered or torn, and room is made at the front (bean); exact
slots within the limits, nothing left behind by a stopped run, `Shutdown`
returns when and only when all has ended (the listeners); one source per mount
(source side); no bean without an owner, no writer without a subscriber (client
side); at most one open connection with someone watching it, each loss reported
once, a result for every `Connect`, and silence after `Stop` (clients); only the
published pair runs and a failed `Init` leaves nothing behind (lifecycle).

## 2. Modules

| Module | What it is |
|---|---|
| `GoMaps` | Go maps as partial functions |
| `NtripMapOps` | the two Go maps of `SafeNtripMap` as a record, and its methods as operators |
| `SafeNtripMap` | goroutines that call those methods; `CloseAll` and `ForEachByMount` in two steps |
| `MountRegistry` | abstract: entries only, with the listing and the fan-out defined from them |
| `ChannelBean` | one bean: senders, writer, closers |
| `Listener` | what the three listeners have in common: generations, accept loop, limits, slots, `Stop`, `Shutdown` |
| `TcpServer` | `Listener` with the handlers of `tcp.Server` |
| `TcpClient` | `TcpClient` |
| `Tcp` | composition: a `TcpServer` and a `TcpClient` at the two ends of the same connections |
| `CasterSide` | `Listener` and `NtripMapOps` together: `OnAuth`, the map and its place in `Stop`, the clean-up of a handler |
| `CasterServer` | `CasterSide` as `NtripCasterServer` |
| `CasterClient` | `CasterSide` as `NtripCasterClient`, with the beans' writers; prefix `Client` where `CasterServer` has the same name, so that one module can prove about both |
| `NtripCaster` | pairs of sides that `Init`, `StopNtripCaster` and the application start, stop and link |
| `NtripClient` | `NtripClient` |
| `NtripServer` | `NtripServer`, the outgoing source |
| `MC*` | model values, symmetry sets and constant functions for TLC |
| `SafeNtripMapProofs`, `ChannelBeanProofs`, `ListenerProofs`, `TcpProofs`, `CasterProofs`, `NtripCasterProofs`, `NtripClientProofs`, `NtripServerProofs` | proofs |

An action is one critical section, one select, one channel operation or one
call on a socket, with the code up to the next. Network input (what arrives,
when a read or a write fails) is a nondeterministic choice. Time is left out: a
timer fires at some moment.

**Map.** `ntripMap = [data, byMount]` holds two partial functions, the Go maps;
`byMount[m]` is the inner map. The methods are translated as written, with the
removal of an old index entry in `Set` and of an empty inner map. `closing` and
`visiting` are the slices that `CloseAll` and `ForEachByMount` take out of the
mutex.

**Bean.** `send` is the channel, `spc` where each sender is between its selects,
`msg` and `written` the writer's locals. `wire` records the bytes written, each
with its packet and position, so that partial writes and retries show. `since`
records which packets were queued after a `SendLoss` made room. Closing
is three steps (`closed`, `quit`, connection), by a holder or by the writer.

**Listener.** `tcps.go`, `ntrip_caster_server.go` and `ntrip_caster_client.go`
hold the same accept loop, slot accounting, `Stop` and `Shutdown` three times.
They are written down once, from `tcps.go`. A *generation* is a successful
`Start`: a listener, an accept loop and, on the source side, a speed loop, which
may outlive its `Stop`. `done` is closed exactly when the generation is no longer
in `ln`. `Stop` is `StopDetach` (under `mu`) and `StopClose`; the sides of the
caster empty their map in between.

**TCP.** A handler calls back, reads until the connection ends, gives its slot
back and reports. In `Tcp` the client's dial is the server's backlog entry, and
a read ends at both ends once either has closed. The client's callbacks start it
again, in the goroutine of whoever calls back.

**Caster sides.** `Start` reads `OnAuth` before it takes `mu`. On the source side
handlers run `header`, `register`, `respond`, `stream`/`count`, and the clean-up
`release`, `unmap`, `unstat`, `hangup`; on the client side `header`, `respond`,
`set`, `stream`, and the clean-up without `unstat`. `Stop` empties the map
(`StopClear`), closes the beans it took (`StopCloseBeans`), then the listener and
the connections. On the client side `writer` and `beanClosed` say how far the
writer and the bean of each subscriber have come; the queue between them is the
subject of `ChannelBean`.

**Caster.** A *pair* is what one `Init` makes. A side is reduced to who has
started or stopped it (`up`) and whether its port is held (`bound`), because
`Stop` forgets the listener first and closes it later. `forward` and `back` are
the two links that `SetNtripCasterClient` keeps, in three critical sections.

**Client.** A *run* is a `quit` channel. `conn` is `c.conn`; connections are
numbered. A starter (a user or the goroutine of `Retry`) goes through `start`,
`dial`, `auth`, `await`. `call` is a call of `Retry` in progress, made by
whoever runs the callback. Clearing `c.conn` and the `Close` after it are one
step. `reports`, `taken` and `stopped` are histories.

**Source.** `conn` is `s.Conn`. An actor is a goroutine of the application or the
handler of a connection: a callback for an error or a lost connection may call
`Start` or `Connect`, which then runs in the handler's goroutine before the
handler goes on (`pc` of the handler), so the clean-up of the old connection
comes after the new one is installed. `hpc` is where the handler is. `startMu`
is held by whoever is at `dial` or `auth`.

## 3. Runs

| Run | Bounds | Shows |
|---|---|---|
| `map` | 2 keys, 2 mounts, 4 beans, 1 goroutine inside a two-step method | the index agrees; one source per mount in a source map; the map implements `MountRegistry` |
| `bean` | 2 senders, queue 1, 3 packets of 0 to 2 bytes, 1 retry | accounting, intact byte stream, order, a `SendLoss` loses its packet only to whoever took the room it made; a closed or failed bean ends as a whole, sends return |
| `server_restart` | 2 sources of one mount and one IP, 2 generations, limits 0 and 1 | types and a wait group that never goes negative; ownership of the mount, callbacks, exact slots, `Shutdown` drains |
| `server_live` | 2 sources, the second with the address of the first, 1 generation, external address | no mount leaked, `Shutdown` returns, a stopped map empties |
| `server_disconnect` | 1 source | **violated**: disconnect callback after `Stop` |
| `subscriber` | 2 subscribers, 2 generations, external address | every open bean has an owner, `Shutdown` returns, writers end with their subscribers, a dead writer ends the handler |
| `tcp` | client that reconnects, server limit 1, 2 connections, 1 generation | one connection and none after `Stop`, losses reported at both ends; a refusal reaches the client, a lost client gives its slot back |
| `caster` | 2 goroutines, one of which also operates sides, 2 `Init`s on the same two ports | a failed `Init` leaves nothing, only the published pair runs, ports are free for the successor, links agree, calls return |
| `client_retry` | 1 user, 2 connections, 2 runs, `Retry` from callbacks | one open connection, always attended |
| `client_live` | 1 user, 1 connection, 2 runs, GGA on, `Retry` from callbacks and user | a stopped run keeps nothing, loss reported once, `Connect` and `Shutdown` return, the retry goroutine ends |
| `client_stop` | 1 user, 1 connection, `Retry` from callbacks | **violated**: connection after `Stop` |
| `source_live` | 2 users, 2 connections, callbacks reconnect | one open connection, losses reported, no connection after `Stop`, `Connect` and `Shutdown` return |

Why these bounds. The map's operations touch one key and at most two mounts: two
keys let an index entry be shared, be the last one and be moved. A queue of one
place is full and empty with three packets, and a second sender takes the place
the first has freed; two bytes are enough for a partial write. Two connections
on one mount collide in `auth`, and two generations let goroutines of a stopped
run meet the next; a third adds a copy. A limit of one is reached by the first of
two connections. In `tcp` the second connection is the one that replaces the
first, at a limit that the first may still hold; restarts of the same listener are
explored in the two caster runs. Two `Init`s are a caster and its successor, and
two goroutines make them, and `StopNtripCaster`, run at once. Two connections of a
client are a connection and its successor. `MaxRuns`, `MaxStarts`, `MaxConns`,
`MaxPackets` and `MaxInits` bound how often something happens, in the guards of
the actions that count. `server_restart` permutes sources with the same mount and
IP.

`CHECK_DEADLOCK FALSE` is set where all bounded inputs may be used up, with
every goroutine ended or waiting for a network that stays silent. The map's
run and the source's never stop and check deadlock.

**Fairness** is asserted for started goroutines only; nothing makes the
application call an operation, a context expire, `Accept` fail or a ticker fire.

* The bean: senders (`Send` has a timer), the writer (each write has a deadline),
  and a `Close` that has begun.
* The source side: handlers (every read and write has a deadline), loops whose
  `done` or listener is closed, an admission under way, `Stop` and `Shutdown` in
  progress. The client side: the same, except that the read of an authenticated
  subscriber has no deadline and ends only once the connection is closed; and
  writers whose bean is closed.
* TCP: reads end once either end has closed the connection, and not otherwise.
* Clients and source: a dial has a timeout, an unauthenticated read a deadline; an
  authenticated read ends once its connection is closed. Strong fairness where
  goroutines contend for `startMu` (`sync.Mutex` hands over to a starving
  waiter), and for the choice of `quit` in a select with a timer (Go picks among
  ready cases at random).
* The lifecycle: calls that have begun go on, with strong fairness for
  `casterInitMu`.

### Findings

* `server_disconnect`: `OnDisconnect` "fires after the connection breaks"
  (`README.md:411`). Sources connected when `Stop` runs are never reported:
  `CloseAll` has emptied the map before their handlers' `Delete`. The client side
  has the same clean-up (`ntrip_caster_client.go:356-360`).
* `client_stop`: `Stop` and `Shutdown` stop the client (`ntrip_client.go:399`,
  `doc.go:33`). A retry goroutine whose timer has fired calls
  `startConnectionContext` after `Stop`; `beginRun` replaces the closed `quit`,
  and the client connects again.

### Stated and refuted without a run of their own

These say what a comment or the repository's README says, and TLC refutes each of
them as soon as it is named in a cfg of the module. They are no part of the
properties above, and nothing here claims the contrary of what the comments promise.

| Property | In a cfg of | Promise | What happens |
|---|---|---|---|
| `NewestKept` (`ChannelBean`) | `MCChannelBean` | `SendLoss` drops old data and keeps the newest (`ntrip_map.go:121`) | p1 fills the queue; the call with p2 is before its first select; the call with p3 evicts p1; p2 takes the room; p3, the newest, is dropped (`:143`) |
| `ServerDisconnectReported` (`TcpServer`) | `MCTcp` | `OnDisconnect` "fires after the connection breaks" (`README.md:411`, used at `:318`) | `Stop` replaces `conns` (`tcps.go:251`) before the handler looks itself up (`:295`, `:306`) |
| `ClientDisconnectReported` (`TcpClient`) | `MCTcp` | the same | `Stop` (`tcpc.go:196`) or a second `Connect` (`:144`) takes the connection, and the handler finds it not current (`:166`) |
| `DisconnectReported` (`NtripServer`) | `NtripServer` | the callback is "invoked after an authenticated connection ends" (`ntrip_server.go:61`) | `Stop` (`:219`), a second `Start` (`:182`) or an expired `Connect` (`:143`) takes the connection, and `wasCurrent` is false (`:260-262`) |
| `DisconnectReported` (`NtripClient`) | `NtripClient` | `README.md:411` | an expired `Connect` (`ntrip_client.go:319-320`), `Stop` (`:395`) or a second `Start` (`:361`) takes the connection; after `Stop` it depends on whether the handler sees `quit` (`:586-589`) or the closed connection first |

The cause is the same as in `server_disconnect`: a handler calls back only if it
still finds its connection registered or current.

### Conditions

Some properties hold under conditions that the code does not enforce and that
are part of their statement.

* `ServedSourceOwnsMount`, `DisconnectAfterConnect`, `OpenBeanHasOwner` and
  `WriterFollowsHandler` need remote addresses that are not reused while a handler
  of the old connection still runs. The clean-up deletes by address: with a reused
  one the older handler removes, and on the client side closes, the bean of the
  newer connection, and leaves its own writer.
* `ServedSourceOwnsMount`, `StoppedMapEmpties` and `ShutdownCompletes` need one
  goroutine that starts and stops the listener: the `CloseAll` of a `Stop` that has
  been overtaken by a `Start` empties the map of the next run.
* `BackLinkTrue` needs one goroutine that links: `SetNtripCasterClient` holds its
  two mutexes one after the other.
* `PredecessorIsGone` exempts ports held by a side that the application has
  started, or is in the middle of stopping, itself: `Init` then fails to bind.
* `LossReportedOnce`, `LossReported` and `LossesReported` are about connections
  that ended while they were current or, on the TCP server, while their listener was
  running. They claim nothing, neither a callback nor silence, for what the
  application took away itself, where the documented callback is missing (see
  above).
* `DropOldest` is about the order in which packets enter the queue: a `SendLoss`
  gives up its own packet only to one that was queued after it had made room. It does
  not say that what stays queued is newer: it may be older (`NewestKept`, above).
* `ShutdownCompletes` and `ShutdownDrains` are about the wait group. The writers of
  the client side are not in it, although `ntrip_caster_client.go:328-329` speaks
  of all background goroutines: `Shutdown` may return while a writer is ending.
  `WriterFollowsHandler` says that it does end.

## 4. Proofs

The theorems hold for every value of the constants under the assumptions that
the modules name, which TLC evaluates on every run: beans have mounts and
`NoBean` is no bean (`BeansAssumption`), bounds and sizes are naturals, a
subscriber's queue has room for a packet, senders and connections are finitely
many (`BeanAssumption`, `ListenerAssumption`), every connection has an address, a
mount and a bean of its own (`CasterSideAssumption`), users are not connections and
the retry goroutine is not a user, a client has a first run
(`NtripServerAssumption`, `NtripClientAssumption`, `TcpClientAssumption`), the two
ends of a TCP connection are the same connection (`EndsAssumption`), every config names a port for
both sides and goroutines that link or operate sides are goroutines
(`CasterAssumption`). `MaxStarts`, `MaxConns`, `MaxRuns`, `MaxInits` and
`MaxPackets` may be any natural number (`MaxRuns` not zero), so nothing proved
depends on the bounds of a run.

Each safety theorem has the same form: an inductive invariant, a lemma that it
holds initially, one that a step keeps it (by cases on the actions), and that it
implies the property. The larger proofs first say once what an action does to a
group of variables (`ConnSteps`, `ServerSteps`, the step lemmas of the client), so
that each conjunct is argued over a few kinds of change and not over all actions.

* **Map** (`SafeNtripMapProofs`), for any keys, mounts, beans
  and callers. `Good(m)` (well typed, and the index agrees with the entries) is
  inductive: it needs both halves together, because `Delete` finds the index
  entry through the mount stored in the entry. `DeleteIsGood` and
  `InsertIsGood` prove it for the two elementary updates, and `SetIsInsert`
  shows `Set` to be an insertion after a deletion. From these:
  `MapTypeCorrect`, `MapIndexAgrees`, `MapSingleSource` (the index test of
  `SetIfMountAbsent` decides what it should because the index agrees) and the
  refinement `MapImplementsRegistry`. The first half of the module is about the
  operators alone; `CasterProofs` takes it over by `INSTANCE` for the maps of the two
  sides (`MapSections`).
* **Bean** (`ChannelBeanProofs`), for any senders, queue size, packet size and
  number of retries. `BeanTypeCorrect` with the strengthening `Hands` (who holds
  a packet, according to where it is). `BeanAccounts` on top of it: each action
  moves one packet between two of the terms of the sum. `BeanStreamIntact` with
  `Position` (the wire ends with the bytes of `msg` written so far).
  `BeanDropsOldest` with `RoomKept`: a sender that has made room finds it, or, at
  the end of the queue, a packet that was put there since, because the writer and other
  evictions only take from the front. `BeanInOrder` with `Behind` (what a sender
  has in hand is behind everything of its own that is written or queued) and
  `Numbered` (packets seen so far are not newer than the last one offered).
* **Listener** (`ListenerProofs`), for any connections, addresses, limits, callers
  and restarts. `ListenerSpec` lets the steps of `Listener` happen in any order,
  together with any closing of sockets, so that what is proved of it holds of every
  server built on it. `ListenerInv` has three parts: types, with `Unused`
  (generations not begun have no loops); `Slots`, the property
  with the types of the Go maps it is about; and `Counted`: `wg` is the number of
  running accept loops, second loops and handlers. `ListenerSlotsExact` rests on
  two facts about `connectionsByIP` (admitting and giving back keep
  the counters equal to the connections, where a counter of one is deleted), and on
  `s.ln != ln` being tested in the critical section that registers.
  `ListenerShutdownDrains` follows from `Counted`: a wait group at zero means that
  the three finite sets are empty.
* **Source side** (`CasterProofs`), for any sources, callers and restarts.
  `CasterServerListens` is the refinement `Spec => ListenerSpec`: every step of the
  source side is a step of its listener, a closing of sockets, or leaves the listener
  alone. `CasterServerSlotsExact` and `CasterServerShutdownDrains` are then
  consequences. `ServerInv` adds the map (`Good`, from `SafeNtripMapProofs`) and the
  types (`CasterServerTypes`). `CasterServerMountNotLeaked` is inductive given
  `ServerInv`: an entry names its connection, whose handler is before its `Delete`,
  also when the handler registered after `CloseAll`. `CasterServerOwnership` needs
  `Stopping`: a `CloseAll` is inside a `Stop`, and with one caller there is no
  listener then, so that nothing it empties is registered in `conns`.
  `CasterServerDisconnect` needs `Reporting`: a handler holds a removed bean only
  between `Delete` and the callback, and a handler past its answer has an entry only if
  the connect callback ran.
* **Subscriber side** (`CasterProofs`), for any subscribers, callers and restarts.
  `CasterClientListens` is the same refinement, with the writers of the beans as
  steps that close sockets, and gives `CasterClientSlotsExact` and
  `CasterClientShutdownDrains`. `EntriesServed` is inductive without any condition on
  addresses: an entry has the key of its own connection and a handler between `Set`
  and `Delete`. `CasterClientDisconnect` follows from it. `CasterClientBeanOwned`
  (`OpenBeanHasOwner`) follows an open bean from hand to hand: `Set` leaves the beans
  of other connections in the map because they have other keys, `Delete` and
  `CloseAll` put what they take into the hands of the handler or of the `Stop`, and
  these are empty when they do (`InHand`), so nothing is dropped unclosed.
* **TCP** (`TcpProofs`), for any connections, users, callers and restarts, at both
  ends. `TcpListens` is the refinement of the listener by the server, with
  `TcpSlotsExact` and `TcpShutdownDrains`. `TcpConnectionKept`: replacing and
  dropping keep the open connections equal to the current one, and a stopped client
  has nobody before or in a dial (`NoneUnderWay`), because `Stop` takes `startMu`.
  `TcpLossesReported` has an invariant for each end. At the client `Positions`: while
  its handler reads, a connection is current or taken by the application, and the step
  that ends the reading decides. At the server `Numbered` (generations are numbered in
  order, and a connection belongs to one that has begun) and `Settled` (while its
  generation runs, a connection holds its slot until its handler gives it back, and
  `wasActive` remembers that).
* **Lifecycle** (`NtripCasterProofs`), for any goroutines, configs and number of
  `Init`s. `CasterInv` says who answers for what. `Mutex`, `Calls` and `Taken`
  order the calls: `casterInitMu` is held exactly at the steps between `Lock` and
  the return, a pair belongs to the `Init` that makes it, the pair taken by
  `stopNtripCaster` is no longer published. `Held` and `Closing` say why a port is
  held: its side runs, or one goroutine is between forgetting the listener and
  closing it, on its own account or inside a call that then has still to return.
  `Started` says that a side started by an `Init` is published or in the hands of
  the call that holds `casterInitMu` (`Answers`). `OnlyPublishedRuns` is `Started`
  with the mutex free; `FailedInitLeavesNothing` and `PredecessorIsGone` follow
  because the only call that could answer for such a side has
  passed the step at which it stops and closes it. `Linked` is `BackLinkTrue` with
  the one exception while `SetNtripCasterClient` is between its critical sections.
* **Client** (`NtripClientProofs`), for any users, connections and runs, with
  `Retry` called by callbacks, by the application, by both or by none.
  `ClientInv` has `Owns` and `OneStarts` (as for the source), `Current` (while
  somebody dials, the run it dials for is the current one and has not
  ended), `Begun` and `Starting` (a connection without a running handler is in the hands
  of the starter that dialled it), and `Positions`: what the position of its
  handler says about a connection. `OneOpenConnection` and `StoppedRunDropped` are
  conjuncts of it. `ClientCurrentIsAttended` comes from `Positions` and
  `Starting`. `ClientLossReportedOnce` is the last step of `Positions`: a handler, the
  idle monitor and the GGA sender report only after clearing `c.conn` themselves,
  which only one of them can do; once a connection is neither current nor taken by the
  application, its loss has been reported exactly once.
* **Source** (`NtripServerProofs`), for any users and connections.
  `ServerTypeCorrect` with `Owns` (who has a connection of its own) and
  `OneStarts` (`startMu` excludes). `ServerOneOpen`: a step leaves the
  connections alone, replaces one or clears one (`ConnSteps`), and each keeps the
  open connections equal to the current one. `ServerStopStops` with
  `NoneUnderWay`: a stopped source has nobody between `startMu` and the
  connection, because `Stop` takes `startMu`. `ServerLossReported` with
  `Positions`: until its handler cleans up, a connection is current or was taken
  by the application, and the clean-up decides.

Left to TLC:

* all liveness (`BeanEnds`, `SendReturns`, `ShutdownCompletes`,
  `StoppedMapEmpties`, `WriterFollowsHandler`, `DeadWriterEndsHandler`,
  `RefusalNoticed`, `SlotReturned`, `CallsReturn`, `RetryGivesUp`): fairness and
  `ENABLED` are out of the prover's reach;
* what does not hold: `DisconnectReported` of `CasterServer`, `StopStops` of
  `NtripClient`, and the table in section 3.

Every other property of the runs, which is every invariant and every action
property that holds, is a theorem.

## 5. Not modelled, and plan

* Request and response parsing, the source table, base64, GGA text (floating
  point), logging, TLS, the aliases of `compat.go`: functions of byte strings, or
  forwarding, without state. Whether a request is accepted is a nondeterministic
  choice.
* Payload. The fan-out of a broadcast is one `sendLossOwned` per indexed bean, which
  `ChannelBean` models for one bean with any senders. `Write` of the clients sends on
  the connection it finds and changes no state; nothing in the code orders it after
  the authentication request.
* Whether a mount has an active source when a subscriber asks is a nondeterministic
  choice in `CasterClient`: the source side may change right after it was asked, so
  every answer is possible.

What a further extension would add:

* The two sides of the caster and the lifecycle in one state space, with the fan-out
  from a source to the beans of its mount. The parts are composed pairwise now
  (`CasterSide`, `NtripCaster`, `Tcp`).
* The properties behind the hazards that `PROJECT.json` lists with a note and no
  property: statistics deleted under the next source of a mount, overlapping `Stop`
  and `Start` of two goroutines, a `Retry` that meets the end of its predecessor.
* A proof of the liveness properties, when a prover for fairness is at hand: the
  inductive invariants here are what such proofs start from.
