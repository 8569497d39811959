# Formal models of libmonetra

libmonetra is an asynchronous C client library for the Monetra payment engine.
An application opens connections (`LM_conn_t`), puts transactions
(`LM_trans_t`) on them, and gets events through one callback. The library is
driven by mstdlib's event loop. Three programs use it in `apps/`: a command line
client and two load generators. This directory holds TLA+ models of the
library's own logic and of these programs, TLC configurations that check them on
small instances, and TLAPS proofs about them.

## 1. Inventory

| Part | State it keeps | Operations | Talks to |
|---|---|---|---|
| Connection (`monetra_conn.c`) | status, io object, timer, write trigger, out/in buffers, `in_use`, `destroy`, queues, id map | init, connect, disconnect, destroy, idle timeout, disable ping, configuration setters | mstdlib io/TLS/timers; event handler |
| Event handler (`monetra_conn_event.c`) | list of user events of one event | CONNECTED, DISCONNECTED/ERROR, READ, WRITE, OTHER (timers), write trigger, transaction timer; callbacks; deferred deletes; reconnect; deferred destroy | all other parts, the user callback |
| Transactions (`monetra_trans.c`) | status, request parameters, timeout, timeout timer, response | new, set_param, set_timeout, send, run, delete, accessors, ping request | connection queues |
| Sending (`monetra_trans_structure.c`) | `outbuf` | structure one request, move READY to PENDING, signal the trigger | connection, mstdlib |
| Response parser (`monetra_parse.c`) | `inbuf` | frame, id lookup, type detection, key/value decoding | transactions |
| Legacy API (`monetra_legacy.c`) | a connection, an event loop and a table of identifiers per `M_CONN` | poll-style calls, blocking mode | public API |
| Deprecated API (`monetra_deprecated.c`) | none (tables) | older names and enumerations | legacy API |
| Connection load generator (`apps/monetra_connload`) | options, a list of connections, a count per connection, one-shot delays | connect, transact, delay, disconnect, replace | public API, event loop |
| Load generator (`apps/monetra_load`) | options, counters of one job, flags, transaction objects | six jobs in a row: clear and add users, load, totals, settle, clean up | public API, event loop |
| Command line client (`apps/monetra_cli`) | options, a list of requests, a count of outstanding ones | parse options, build requests, send all or one by one, end | public API, event loop |

The parts of a connection share one mutex, `conn->lock`. The difficulty is in
where it is *given up* in the middle of an operation: around the deletion of
the ping, around the implicit connect of a send, around `iocreate_cb`, and
around each user callback, in which the application may call any API function,
including delete and destroy. On top of that come the ordering of events, two
kinds of timers racing answers and deletes, writes that are cut short, answers
that arrive in pieces, late, twice or not at all, and the automatic reconnect.

What makes the parts correct:

* every transaction is in the queue its status names, once;
* every submitted transaction ends in exactly one final event, in time, with a
  pointer that is still valid; a lost connection tells transactions first and
  the connection last; waiting transactions survive a lost connection;
* buffered output always has something that will write it; timers run exactly
  when they should; attempts to connect and to disconnect end;
* nothing is freed under a running handler, and a deferred delete or destroy
  happens;
* the parser gives each transaction what the server meant, independent of
  segmentation, and never leaves a complete answer unread.

* a program sees callbacks in the promised order, and its own counters, list
  and pool follow from them: nothing is left unanswered when it goes on, its
  connections are closed only when nothing is on the way, and it ends.

How the parts meet: the application calls the API under the connection's lock;
the event loop calls the handler, which calls the application back; the legacy
layer runs the event loop itself, inside the application's calls. The programs
in `apps/` have one thread and use everything through callbacks, so all they see
of the library is what `CallbackPromise` says.

The hazards behind these, each with its line, are listed in `PROJECT.json`.

## 2. Modules

| Module | What it is |
|---|---|
| `MQueue` | mstdlib's `M_queue` as used here (external): removal of a given entry |
| `MonetraConn` | one connection, its transactions, the event handler, the calls of two threads |
| `TransPromise` | abstract specification: what the API promises about link and transactions |
| `ConnState` | one connection as a single-threaded program sees it: what calls do to it, what may be told next |
| `CallbackPromise` | abstract specification made of `ConnState`: which callbacks may come, and in which order |
| `MCMonetraConn` | instances: which API calls the application makes from which thread |
| `MonetraLegacy` | the poll-style API over `MonetraConn`: who runs the event loop, blocking calls, status readers |
| `MCMonetraLegacy` | instance: the calls the legacy layer makes |
| `MonetraParse` | response framing, id matching, type detection, key/value decoding |
| `MCMonetraParse` | instance: ids and bodies |
| `ConnLoad` | the connection load generator, over `ConnState` |
| `MonetraLoad` | the load generator, over `ConnState` |
| `RandomAmount` | the amounts the command line client draws for `-r` |
| `MonetraCli` | the command line client, over `ConnState` and `RandomAmount` |
| `MonetraConnProofs` | lemmas about queues; type correctness and queue correctness of `MonetraConn` |
| `MonetraConnSafety` | the other safety properties of `MonetraConn`, and that it implements `TransPromise` and `CallbackPromise` |
| `MonetraLegacyProofs` | the legacy API implements `MonetraConn` as an application; its own safety properties |
| `ConnStateProofs` | lemmas about what `ConnState` returns |
| `ConnLoadProofs`, `MonetraLoadProofs`, `MonetraCliProofs` | theorems about the three programs |
| `MonetraParseProofs` | the safety properties of `MonetraParse`, for any bodies and any segmentation; quoting and key/value round trips |

The modules are put together in two layers. `MonetraConn` is shown to implement
`CallbackPromise`, whose operators come from `ConnState`; the programs are modelled
on the same operators, so what is shown of a program holds with the library as
it is, for the faults and threads under which the implementation was checked.

### MonetraConn

Variables carry the names of the C fields. A transaction is a model value that
stands for the object and its id; a request in `outbuf` or `wire` is its
transaction. `FREE` in `tstatus` means there is no such object. `pc` says where
the event handler is:

    idle -> dispatched -> (reading | ping)* -> callbacks <-> callback -> reap -> leaving -> idle

* One action per API function and per step of the handler between two points
  where the lock is free. `LockFree` is false while a READ is parsed and while
  delayed deletes are carried out, so no call interleaves there.
* `dispatched` is the window between the event loop's choice of an event and
  the handler's lock; `ping` the window in `LM_conn_cleanup_ping`; `callback`
  is inside a user callback, where thread `"loop"` may call the API; `leaving`
  is after the final unlock. Thread `"app"` may call whenever the lock is free.
* `call[a]` is a thread inside `LM_conn_connect`: `connect` before it has the
  lock (the implicit connect of a send or of the handler's end), `register`
  during `iocreate_cb`.
* `LM_trans_run` is `LM_trans_new`, `LM_trans_set_param` and `LM_trans_send` in a
  row, so it has no action of its own.
* `Faults` selects what may go wrong: `block` (a write is cut short),
  `garbage` (bytes that are no message), `iofail` (creating or registering the
  io object fails), `dup` (the server answers twice). Connections can always
  fail, deadlines can always pass, and the server may always stay silent.
* `held`, `told` and `telling` are history variables: what the application may
  still delete, what it has been told, and the event the running callback was
  given. No guard of the library's own steps reads them.
* `LM_conn_cleanup_ping` deletes whatever `conn->pingtxn` points to. Where the
  application has freed that transaction already (see 5), the delete has no effect
  in the model: what a double free does is not described.
* An application calls delete only on handles it holds and nothing after
  destroy; these are the API's documented preconditions.

mstdlib is external. Assumptions, from how the code uses it: timers and
triggers are level-free one-shot sources; operations on a NULL timer or trigger
do nothing; a write that is cut short is followed by a WRITE or ERROR event;
after `M_io_disconnect` a DISCONNECTED or ERROR event follows; a removed timer
or trigger does not fire.

### MonetraLegacy

`MonetraLegacy` extends `MonetraConn` and adds the threads of an application that
use an `M_CONN`. A thread is in a function (`fn`), at a point of it (`at`), with a
transaction (`arg`); `ret` is its last result. Steps of the event loop happen only
while some thread (`runner`) is inside `M_event_loop`; the callback sets `returned`
(`M_event_return`), after which the loop may finish what is ready and returns.
Waits with a limit may end at any time. `M_event_loop` on a loop that another
thread runs returns at once (external; this is the case that the test in
`M_Monitor_ex` is there for).

| Code | Actions |
|---|---|
| `M_Connect` | `ConnectStarted`, (loop), `ConnectEnded` |
| `M_Disconnect`, `M_DestroyConn` | `DisconnectStarted`, `DisconnectCalled`, `DisconnectTest`, (loop)*, `Destroyed` |
| `M_Monitor_ex` | `MonitorCount`, `MonitorStatus`, `MonitorStatusAgain`, `MonitorGate`, (loop), `MonitorEnded`, `MonitorEndedAgain` |
| `M_TransSend` | (loop), `Polled`, the steps of `M_Connect`, `Send`, `Sent`, then `Wait` and the steps of `M_Monitor_ex` |

`LM_conn_status` is read without the connection's lock, and each read that
follows another is a step of its own: a connection that another thread's loop
brings up between the two reads of `M_Monitor_ex` counts as neither CONNECTED nor
CONNECTING. Two groups of reads are still one step: the counts of PENDING and
READY transactions with the flag (line 334), and the last status read of
`M_Monitor_ex` with the `LM_trans_status` that `M_TransSend` reads next.

All calls use `MonetraConn`'s thread `"app"`, so two threads cannot both be
between the unlock of `LM_trans_send` and its implicit connect. `response` is the
response type with, for key/value data, whether the code approves; `answered`
records which responses came from the server. The trust store that `M_Connect`
loads, and arguments that are NULL, are not modelled.

### ConnState and CallbackPromise

A connection is its phase with two numbers, `owed` transactions that were
submitted while it was up and `late` ones that wait for a connection, and a flag,
`ping`: the internal PING was cut off, and its event is still due. `Told(c)` is
the set of callbacks that may come next, with the connection after each.
`CONN_CONNECTED` makes the late ones owed; a lost connection tells `TRANS_ERROR`
for what is owed and `TRANS_NOCONNECT` for what waits, and only then its closing
event, once. The phase in which that event is still due is `disconnected` or
`failed`. `MonetraConn` maps to this through the events on the handler's list
(`PromisedPhase`, `PromisedConn`): what the library has done but not yet told does
not count as told. In `CallbackPromise` the event of the running callback is a
variable of its own, `event`, to which `MonetraConn` maps `telling`: a callback
without effect on the connection (TRANS_TIMEOUT, TRANS_NOCONNECT, the TRANS_ERROR
of the PING) is a step that the promise has to allow, and so is every closing
event.

`CallbackPromise` is what the code keeps. `monetra_api.h` promises more in two
places: that no event follows a closing one unless the user asks for the
connection again (lines 148-153), where the library reconnects by itself as long
as a transaction is READY, and that a TRANS_ERROR is followed by a CONN_ERROR
(155-157), where it may be a CONN_DISCONNECT. `KeepsCallbackPromise` says neither,
since neither is true of the code. What it says instead is that a reconnect
nobody asked for happens only while a submitted transaction waits, and that some
closing event follows every TRANS_ERROR.

### The programs

| Code | Actions |
|---|---|
| `monetra_connload.c`: `read_cmdline`, `main` | `ReadOption`, `RefuseOption`, `Start` |
| its `monetra_callback` | `OnConnected`, `OnDisconnect`, `OnConnError`, `OnTransDone`, `OnTransLost` |
| `trans_delay_cb` | `DelayOver` |
| `monetra_load.c`: `read_cmdline`, `start_connections` | `ReadOption`, `RefuseOption`, `StartConnections` in `Start` and `Proceed` |
| `send_requests` and the `enqueue_...` before it | `Send`, (loop), `LoopReturns` |
| its `monetra_callback`, `status_callback` | `OnConnected`, `OnClosed`, `OnTransDone`, `OnTransLost`, `Status` |
| `cli_opts.c`, `cli_trans.c` | `ReadSetting`, `ReadKvs`, `ReadRkeys`, `ReadMaxAmount`, `ReadAmountRange`, `RefuseArgument`, `CreateTrans` |
| `monetra_cli.c`: `main` | `SslFails`, `Connect`, `LoopReturns` |
| `trans_callback` | `OnConnected`, `OnTransDone`, `OnTransError`, `OnTransNoConnect`, `OnClosed` |

Callbacks run only while the program is in its event loop; `Loses` is the
connection that fails or is closed by the server at any time. None of the three
looks at what `LM_conn_connect` returns, so a connection may stay `Fresh`, of which
nothing is ever told; with port 0, which all of them accept, `LM_conn_init` returns
NULL, which only `monetra_connload.c` tests. The steps `WaitsForNothing` are an
event loop that waits for such a connection. In `ConnLoad` a
slot stands for the address of a connection object: it is not given out again
while a timer still points to it, and a timer that fires for an object that is
gone leads to `broken`, from where nothing is defined. `met`, `hungup`, `stray` and
`asked` are history variables. In `MonetraCli` the value of a key is its source
(`action`, `card`, `manual`, ...), since precedence is all that matters;
`account` stands for all keys that a card gives.

### MonetraParse

A server sends frames; TCP hands them over in segments of any length; the READ
handler parses. Bytes are strings naming a byte or a class of bytes. The loops are
recursive functions with the loop's own start, limit and look-ahead: `Scan` for
`LM_conn_determine_response_type` (every byte but letters, digits and quotes ends
the scan, the framing bytes too), `Copying` for the unquoting (an empty value is
NULL), `Inserting` for
`LM_hash_dict_deserialize`; `Exploding` stands for `M_str_explode_quoted` (external),
which needs to know at each byte whether a quote is open (`Quoting`). `Meaning` is
the reference they are compared with: it looks at what the server put into the
frame and not at bytes. `answers` is a history of what was sent; `end` says where in
the stream an answer ends, so that "has arrived in full" is a comparison
(`Delivered`). The way the server writes a list of pairs (`Quote`, `Writing`) is
external as well.

What a server may send is stated in `BodyAssumption`: no body holds the byte that
ends a frame; keys are not empty and made of digits and letters, while a value may
hold any other byte, newlines and quotes included; of the remaining data, what
reads like pairs has a line without `=`. White space trimming is not modelled: no
byte of the model is a blank, so it would change nothing. The 32 byte limit of the
scan is the constant `ScanLimit`.

## 3. Runs

Each run takes about a minute or less.

| Run | Expect | Question |
|---|---|---|
| `conn_core` | pass | single-threaded program that may switch the PING off: timers, events, both refinements |
| `conn_threads` | pass | a second thread sends, connects and disconnects in every window; connects fail, answers are duplicated, `iocreate_cb` is set: queues, completion, output |
| `conn_live` | pass | liveness under `FairSpec` |
| `legacy` | pass | poll-style API, single-threaded, blocking and not, PING on and off: no missed wait, honest results |
| `legacy_live` | pass | legacy calls return |
| `parse` | pass | answers are understood, at once, under every segmentation |
| `load` | pass | the load generator's jobs with every combination of options |
| `connload` | pass | the connection load generator's pool, counts and delays |
| `cli` | pass | the command line client: requests, amounts, orderly end |
| `v_stranded` | violation | PING disabled: queued requests are not written |
| `v_destroy_timer` | violation | destroy leaves transaction timers behind |
| `v_lost_wakeup` | violation | two threads on one `M_CONN`: a blocking send misses its completion |

Properties of `MonetraConn`:

* `QueueInv` - statuses and queues agree, no duplicates.
* `CompletionInv` - exactly one final event per transaction, never early, never
  lost or repeated.
* `EventTransValid` - the transaction of a queued event is a valid object.
* `NoStrandedOutput` - output in `outbuf` has a trigger or an event coming.
* `IdleTimerRuns`, `IdleTimerStopped` - the idle timer runs when nothing is
  outstanding (unless the PING is switched off, see 5) and never otherwise.
* `TimeoutOnlyPending` - a timeout timer lives only while its transaction is
  pending.
* `HandlerOutlived` - nothing is freed under a handler.
* `ReadySurvives` - a lost connection does not take a waiting transaction along.
* `KeepsPromise` - `MonetraConn` implements `TransPromise` under the mapping
  `PromisedLink`, `PromisedTxn`: for example several transactions leave `pending`
  together and only by the loss of the link, and a decided transaction is never
  decided again.
* `KeepsCallbackPromise` - `MonetraConn` implements `CallbackPromise` under
  `PromisedConn`, callback by callback: nothing is told before an attempt, every
  transaction that was submitted while the connection was up is told about before
  the closing event, a TRANS_ERROR that is for none of them is for the PING and
  comes once, a TRANS_TIMEOUT is for one that waits, the closing event comes once
  and last, and after a destroy there is silence.
* `ConnectEnds`, `DisconnectEnds`, `ReadyServed`, `CompletionReported`,
  `DestroyHappens` - liveness.

Properties of `MonetraLegacy`:

* `NeverImplicit` - a single-threaded legacy program never has a READY
  transaction and never connects implicitly, hence also never reconnects.
* `SettledBetweenCalls` - no call returns in the middle of a connect or a
  disconnect.
* `SendResultHonest` - `M_TransSend` returns 0 only if the request was not
  accepted, and 1 in blocking mode only if the transaction is decided.
* `NoLostWakeup`, `CallsReturn`, `BlockedReturns` - every wait is ended.
* `SuccessNeedsAnswer` - `M_ReturnStatus` says success, and `M_ReturnCode` that a
  transaction is authorised, only of what the server answered; it rests on the
  response that a lost connection fakes.

Properties of `MonetraParse`:

* `AnswersUnderstood` - a transaction gets what the server meant with its first
  answer to it, whatever segments, duplicates and orphans surround it.
* `NoAnswerWaits` - when the handler is done, no answer that has arrived in full is
  left unread, except one without data.
* `ErrorNeedsEmptyAnswer` - only such an answer makes the parser give the stream up.

Properties of the programs:

* `PoolKept`, `OneAtATime`, `OwnDisconnectIsClean`, `CountExact` (`ConnLoad`) - the
  pool has between one and `-c` connections; each has one transaction on the way
  or one delay running and never more than `-t` transactions; a delay outlives
  its connection only if the server closed it; the number shown is that of the
  established connections until one is closed that never was up.
* `JobAnswered`, `HandlesExact`, `PtrannumUnique`, `LoadEnds` (`MonetraLoad`) - a
  job ends when each of its requests is answered, although the counters are
  reset after the requests were submitted; the objects that `settle_batches`
  reads are there; numbers are unique below 1000000 transactions on one
  connection; the program ends, unless it waits for a connection that was never
  started (`NeverComplete`).
* `RequestAsDocumented`, `AmountsAllowed`, `AllAnsweredFirst`, `CliEnds`
  (`MonetraCli`) - which source gives each key of a request; amounts stay within
  what was asked for and out of the slow range, and drawing one ends; the
  connection is closed only when the list is empty and all is answered, and with
  `-s` one request at a time is on the way; the program ends, unless it waits for
  a connection that was never begun (`NeverBegun`). `RequestAsDocumented` leaves out
  what is documented otherwise than it is coded: `-k` against a card, and `-l`
  against `-r` (see 5).

### Bounds

Two user transactions are enough for one to be pending while another waits, is
deleted or times out, for two to be lost together, and for a short write to cut
between them; transactions do not otherwise interact. One ping suffices because
`DispatchConnected` waits until the previous one's handle is free; the code
draws a fresh id. Handles are reused, so behaviours are unbounded in length.
`legacy` has two transactions, so that a blocking send is woken by the other's
completion, and one thread; `legacy_live` and `v_lost_wakeup` have one transaction.
`conn_live` has one user transaction: liveness cannot be checked under symmetry,
and its properties speak of one transaction at a time. `parse` has two answers
(a boundary between messages, a duplicate, an orphan), ids that are prefixes of
one another, and `ScanLimit` 3 with keys and data on both sides of it, and with
framing and other telling bytes at the first, the second and the last position.

`connload` has four addresses for up to two connections in the pool and those
that timers still point to; `SizeLimit` 5 lets the unsigned count wrap around.
Option values 0 to 2 hold both special ones (no limit, no delay). `load` has two
connections, up to three requests a job (so that one connection gets two), one
open batch per answer and `Stride` 2, which three requests on one connection
exceed. `cli` reads up to four options, which is enough for an action, `-k`,
`-l` and one more; slow amounts are 3 and 4 of 0 to 6; up to three requests.

`IdleTimerRuns` and `HandlerOutlived` are checked for single-threaded programs
only, and the properties of `MonetraLegacy` for one thread (the second thread of
`v_lost_wakeup` also breaks `NeverImplicit` and `SendResultHonest`). In
`MonetraConn`, with a second thread the first fails because a timer dispatched just
before a send is removed for the rest of the connection, and the second because
`LM_conn_destroy` on another thread does not wait for a handler that has been
dispatched or has just cleared `in_use`. `ReadyServed` is checked without
`iofail`: an implicit connect that fails at once is not retried. `PROJECT.json`
lists these as hazards.

### Fairness

`Fairness` asks that a handler once entered runs to its end (it does not block,
and user callbacks are taken to return), that a call in progress goes on, and
that the event loop serves again and again a signalled trigger, an expired
timer, and an io object that is connecting, closing or owes a WRITE event. These
are what an event loop provides: connecting is bounded by the connect timeout,
closing by mstdlib's disconnect timeout. Strong fairness is used since each
source is disabled while another event is handled. A WRITE event that keeps
being served eventually writes something. Nothing is assumed of the server: it
need not answer. `LegacyFairness` asks the same of the loop while a legacy thread
runs it, that a thread goes on with the call it is in, and that a loop that was
asked to return, or whose time is over, returns.

In `MonetraLoad` and `MonetraCli` the program goes on and the event loop delivers
what is due. Here it *is* assumed that the server answers or closes the
connection in the end: these programs have no time limit of their own (the
client switches the PING off, and nobody sets a transaction timeout), and with a
server that stays silent on an open connection they wait for ever. Without `-y`
the load generator also waits for the Enter key before the load; that it goes on
includes that the key is pressed. Nothing is assumed of connections that were
never started: `LoadEnds` and `CliEnds` name them (`-x 0`, a port of 0, a failed
`LM_conn_connect`) as the one other outcome.

## 4. Proofs

Every safety property that a passing run checks on an instance is a theorem for
all values of the constants. "Needs" is what a theorem assumes of the application
beyond the specification; section 3 and the runs that expect a violation show
what happens otherwise.

| Theorem | States | Needs |
|---|---|---|
| `TypeCorrect`, `QueuesCorrect` (`MonetraConnProofs`) | `TypeOK`, `QueueInv` | |
| `CompletionCorrect` (`MonetraConnSafety`) | `CompletionInv` | |
| `PromiseKept` | `KeepsPromise`: `MonetraConn` implements `TransPromise` | |
| `IdleTimerCorrect` | `IdleTimerStopped` | |
| `PointersCorrect` | `EventTransValid` | only callbacks delete transactions |
| `TimeoutsCorrect` | `TimeoutOnlyPending` | the same |
| `ReadyCorrect` | `ReadySurvives`, an action property | the same |
| `OutlivedCorrect` | `HandlerOutlived` | only callbacks destroy the connection |
| `OutputCorrect` | `NoStrandedOutput` | the PING stays on |
| `IdleTimeoutHappens` | `IdleTimerRuns` | one thread |
| `CallbacksKept` | `KeepsCallbackPromise`: `MonetraConn` implements `CallbackPromise` | one thread |
| `LegacyImplementsConn` (`MonetraLegacyProofs`) | `LegacySpec => Spec`: the legacy layer is an application of `MonetraConn` | |
| `AnswersCorrect` | `SuccessNeedsAnswer` | |
| `NeverImplicitCorrect` | `NeverImplicit` | one thread on the `M_CONN` |
| `SettledCorrect` | `SettledBetweenCalls` | the same |
| `WakeupCorrect` | `NoLostWakeup` | the same |
| `ResultCorrect` | `SendResultHonest`, an action property | the same |
| `OneAtATimeCorrect`, `OwnDisconnectCorrect`, `PoolCorrect`, `CountCorrect` (`ConnLoadProofs`) | `OneAtATime`, `OwnDisconnectIsClean`, `PoolKept`, `CountExact` | |
| `PtrannumCorrect`, `JobAnsweredCorrect`, `HandlesCorrect` (`MonetraLoadProofs`) | `PtrannumUnique`, `JobAnswered`, `HandlesExact` | |
| `AmountsCorrect`, `AllAnsweredCorrect`, `RequestCorrect` (`MonetraCliProofs`) | `AmountsAllowed`, `AllAnsweredFirst`, `RequestAsDocumented` | |
| `AnswersAreUnderstood` (`MonetraParseProofs`) | `AnswersUnderstood` | |
| `AllArrivedAreParsed` | `NoAnswerWaits` | |
| `OnlyEmptyAnswersFail` | `ErrorNeedsEmptyAnswer` | |
| `QuotingRoundTrip` | unquoting a quoted value gives the value (NULL for an empty one), whatever its length and bytes | |
| `PairsRoundTrip` | reading a written list of pairs gives the dictionary with the last value of each key | |

They hold for any sets of transactions, pings, API calls and faults, any number
of connections, slots and requests, any option values, any ids, bodies and
segments, any scan limit.

### MonetraConn: types and queues

The only assumption is `ConnAssumption` (user handles, ping handles and the
NULL pointer are distinct). `TypeOK` is inductive by itself once `pingtxn` is
known to be a ping or NULL. `QueueInv` is inductive relative to `TypeOK`. What
makes it so is its exception: between the two halves of `LM_conn_cleanup_ping`,
and then until the delayed delete is carried out, an unanswered ping is PENDING
and in no queue. `PingDeleted` moves the ping from the first half of the
exception to the second, `Reap` out of both. The proof has one step per action
and a lemma per operation that moves transactions (delete, send, connection
error, destroy, ping cleanup), over the queue lemmas at the head of the module:
`ToSetConcat`, `NoDuplicatesConcat`, `ToSetAppend`, `QueueTakeEntries`.

### MonetraConn: safety

Most properties of the runs are not inductive. `MonetraConnSafety` builds up
what they rest on, in this order; `Basis` is the conjunction of the types, the
queues and the first three.

* `HandlerInv`: `in_use` is set exactly while a handler holds or will take back
  the lock; events and delayed deletes exist only inside a handler.
* `LinkInv`: `status` and the io object move together, across the three places
  where the lock is given up in between. `iocreate_cb` is the hard one: an io
  object exists while the status is still DISCONNECTED, and only one thread may
  be there.
* `StandingInv`: nothing of the user's is PENDING before the connection is up and
  nothing is READY while it is. `ReadySurvives` and both refinements need it: it
  is why a lost attempt has no user transaction to complete.
* `ToldInv`: per transaction, where its one final event is - not due, on the
  list, told, or given up because the connection was destroyed from inside a
  callback. `CompletionInv` follows; `PromiseKept` uses it to map DONE to `done` or
  `reported`. A lost connection is the step that takes work: the events of the
  whole PENDING queue are put on the list at once, and `QueueInv` is what says
  that each transaction is there once.
* `HeldInv`: what the application holds, an event names, the handler was entered
  for or a timer is armed for, exists. It is *false* with a second thread that
  deletes: the thread can free a transaction whose event is on the list or whose
  timer has been dispatched. Also, if it deletes a READY transaction while the
  handler deletes the ping, `LM_conn_event_set_connected` arms the timer of a
  transaction that is already on its way out. Hence the condition on
  `Calls`, and a second thread in `conn_threads` that does not delete.
* `OutputInv` (with `EntryInv`): while the connection is up there is a write
  trigger, and before the PING there is no output. The first half is what the
  finding `v_stranded` breaks: with the PING off, requests are written into
  `outbuf` before the trigger exists.
* `RunInv`: the idle timer is armed whenever nothing is pending, except inside
  the READ loop, which arms it at its end, and between its expiry and its handler.

`CallbacksKept` is the longest proof. The abstract connection is a phase, two
numbers and the flag for the PING, beside the event being told; `ViewNow` and
`ViewNext` split them into `PromisedPhase`, `Owed` (the cardinality of `Unanswered`),
the length of `trans_ready` and `PingDue`. `SilentInv` says that `telling` is `none`
exactly outside callbacks; `ListInv` that what is on the list belongs to a
transaction in the state the event speaks of, and that the PING's event is there
at most once (`PingsTold`), so that taking it off the list clears the flag. `ProgramInv` says
what one thread can rely on: the list of events is `Ordered` (CONN_CONNECTED first,
the closing event last, TRANS_ERROR only in front of a closing event),
`TellingInv` says at which point of the handler and in which status it may hold
what, and `Asked` that a PING never stays unanswered on a connection that is up.
`Ordered` is kept by appending, by taking the head and by appending the events of
a loss (`OrderedAppend`, `OrderedTail`, `OrderedLoss`). Then there is one lemma for
each way in which the abstract connection moves (`SeenConnect`, `SeenSent`,
`SeenLeaving`, `SeenLost`, `SeenTold`, ...) and `CallbacksStep` puts them together.
With a second thread the property is false: that thread can disconnect between
the answer to the PING and the callback for CONN_CONNECTED, which then tells of a
connection that is already closing. The programs in `apps/` have one thread, so
what is proved of them over `ConnState` holds over the library as it is.

### MonetraLegacy

`LegacyImplementsConn` says that each step of the legacy layer is a step of the
connection or leaves it alone, for any number of threads. The theorems about
`MonetraConn` that need nothing of the application carry over through it
(`LegacyBasis`). The others do not: the layer deletes, destroys and switches the
PING off from the application's side of the lock, so what it needs of that kind is
proved again from its own invariant.

`AnswersCorrect` has its own inductive invariant, `AnswerInv`: a transaction that
is DONE has a response, and one that says success came from the server. It
rests on the response that a lost connection fakes.

The other four assume `OneThread`. `SoloConn` says what the connection looks like
to an application that only goes through the legacy API: nothing is ever READY,
nobody is in the middle of a connect, no timeouts are set, and at most the PING
waits for an answer while the status is CONNECTING. `SoloThread` relates the place
of the thread in its function to the status of the connection, its transaction
and `returned`. Both are proved together, since each step of the loop depends on
who is waiting in it. With two threads they are false, which `v_lost_wakeup` shows
for `NoLostWakeup`.

### The programs

`ConnStateProofs` says once what an event tells of the connection it is told for
(`ToldTypes`), and what sending and losing do; the other proofs use these facts
and never look into `Told`.

* `ConnLoad`: `OneAtATime` is not inductive, since a second delay could come from
  an answer that nobody waits for. `LoadInv` adds, for each slot, that transactions
  and delays together are at most one, that a running delay has a transaction
  left to send, that there is neither before the connection is up and while the
  program closes it, and that what is still there when it is lost was closed by
  the other side. From this `OwnDisconnectIsClean` follows as well: only a
  connection in `hungup` can be destroyed with a delay running. The pool has its
  own invariant, on the cardinality of `track_conns`: `Replaced` keeps it, since
  the new slot is free, and `WantsMore` is the only way it grows. `CountInv` says
  that the number shown is the cardinality of `met`, and that this set is part of
  the pool and has no connection that is still trying; its size stays below the
  limit of the counter because there are not that many slots.
* `MonetraLoad`: `PtrannumUnique` says nothing of how options were read except that
  they are numbers; the rest is integer division. `JobInv` has a part for each
  phase of a job. While answers are waited for, the transactions on the way, over
  all connections, and those answered are together at most those expected (less,
  once a loss has told some that nobody counts). The sum over the connections is
  written as the cardinality of the set `Waiting` of pairs of a connection and a
  number, which one answer makes smaller by one. The loop ends only when all that
  are expected have been answered, so the set is empty then, and `JobAnswered` and
  `HandlesExact` follow.
* `MonetraCli`: for the amounts, what the parser accepts satisfies `Allowed`
  (`SingleAllowed`, `PairAllowed`), and no other option touches it. For the end of
  the program `CliInv` says that `outstanding_cnt` is what is owed while the
  connection is up; an answer takes one away and a request from the list puts one
  back, so zero means that the list is empty too. `RequestInv` ties the request
  to the options it was made from; the rules of precedence are then a fact about
  the operator `Request`.

The assumptions are those the modules state about their constants: bounds are
natural numbers, a pool needs a slot, a size fits the pool, the slow amounts lie
above 1.

### MonetraParse

There are two arguments, one about the stream and one about the text of a message.

The stream. None of the three properties is inductive, since they say nothing of
what is in the buffer. `ParseInv` says that the handler is never out of step: for
some `n` the first `n` answers have been parsed off (`Parsed(n)`). Unless the stream
has been given up, the bytes in `inbuf` followed by those in `flight` are exactly
the frames behind the first `n` (`Aligned(n)`), and each transaction stands as these
`n` answers left it: not answered by any of them, or read from the first one
(`ReadFine`). Because no body holds an ETX, the first ETX of the buffer ends the
frame of answer `n + 1` (`HeadFrame`), and the message cut out has that answer's id
and data (`HeadMessage`); so a turn of the loop leads from `n` to `n + 1`. An error
is possible only if that frame is below the minimum length, which is the last
conjunct, `ErrorNeedsEmptyAnswer`. There is one lemma per action. `NoAnswerWaits`
follows since at rest the buffer has no ETX or is too short for a message.

The text. What remains for `AnswersUnderstood` is that `ResponseTo` gives the
`Meaning` of each body. This is about recursive functions on sequences of any
length, for which the prover has no induction. The proofs use the least number
principle instead (`Smallest`, from the well-foundedness of `<` on the naturals): the
least, or the last, position at which a claim fails is contradicted by the next
one. That a recursive definition has a value at all is proved once for all loops
that look ahead (`ChainExists`).

* `TypeIs`: the scan finds the first telling byte within its limit. `DataDecoded`
  is the case of bodies that are not pairs.
* `CopyingUndoesDoubling`, then `QuotingRoundTrip`: skipping the second of each two
  quotes undoes the doubling. The look-ahead never pairs a doubled quote with
  one of its neighbours, because the copying is always at the start of a unit.
* `QuotingJoin`, `QuoteHides`, `LineHides`: a quoted value leaves no quote open and
  none of the newlines in it counts; in a line the first `=` that counts is the
  one behind the key.
* `PieceIs`, `LinesAre`: splitting the text of a list gives its lines and an empty
  one at the end.
* `InsertingIs`, then `PairsRoundTrip`: after `i` lines the dictionary holds the
  latest value of each of the first `i` keys.

The assumptions are `ParseAssumption` and `BodyAssumption`; TLC evaluates both in the
run `parse`, which has bodies of all three kinds.

### Only model-checked

* Liveness: `ConnectEnds`, `DisconnectEnds`, `ReadyServed`, `CompletionReported`,
  `DestroyHappens`, `CallsReturn`, `BlockedReturns`, `LoadEnds`, `CliEnds`. TLAPS
  has no fairness reasoning here.

## 5. Findings

Shown by a run:

* **Requests not written with the PING disabled** (`v_stranded`). The trigger
  is signalled in `LM_conn_event_set_connected` and created after it.
* **Timers survive destroy** (`v_destroy_timer`). `LM_trans_free` does not remove
  `timeout_timer`.
* **Lost wakeup in the legacy API** (`v_lost_wakeup`). Another thread's event loop
  completes the transaction between the status test of a blocking `M_TransSend`
  and its own `M_event_loop` without limit.

Bugs without a run of their own:

* A connection that fails before its PING is answered reports TRANS_ERROR for the
  PING, a transaction the application never made (`ToldPing`), and `conn->pingtxn`
  stays set (`monetra_conn_event.c:91`). If the application deletes it, as it may
  (`monetra_api.h:258`), and connects again with the PING disabled,
  `monetra_conn_event.c:134` deletes it once more.
* The command line client never ends with `-t 0`, or when `LM_conn_connect` fails at
  once (`NeverBegun`), although `monetra_cli.c:262` says that the loop ends by an
  error or with everything processed. The load generator waits for ever in
  `start_connections` for the same reasons (`NeverComplete`); its comment excepts
  nothing.
* `-r 8.00:8.99` is accepted, although `cli_opts.c:242` says "Can't have only 8.xx
  amounts": the maximum has been raised to 9.00 before the test. The range left is
  empty. A single maximum is never drawn itself; `-r 0:5.00` switches random
  amounts off.
* The connection load generator's delay timer works on a freed connection when
  the server hung up during the delay (`broken` in `ConnLoad`), and its count
  wraps around when a connection is closed before it was up.

Where the code differs from what is written about it; the models follow the code:

* After every failed connection attempt, and after an idle disconnect, a READY
  transaction makes the handler reconnect at once, so events follow a closing
  event on their own; `monetra_api.h:148-153` says "No more events will arrive
  after this unless the user requests connection re-establishment".
* `monetra_api.h:155-157` guarantees a CONN_ERROR after TRANS_ERROR; when the server
  closed the connection gracefully it is CONN_DISCONNECT. Lines 254-255 of the
  same header, on the callback, allow both.
* Of the first byte of a response only `=` and `,` count; `monetra_parse.c:13-14`
  says that a newline or a byte that is not alphanumeric does as well.
* `-k` overrides a card, although `monetra_cli.h:60` says that the card overrides;
  with `-r` an amount is sent although `-l` takes it out (`cli_opts.c:558`: "Keys
  that should not be sent").
* The client ends with exit code 0 when the server closes the connection with
  requests left over.

True of the code and of the models as well:

* With the PING disabled the idle timer is created but not started
  (`monetra_conn_event.c:152`); `IdleTimerRuns` leaves this case out.
* `M_IsCommaDelimited` holds of a transaction without a response, and
  `M_ReturnCode` is then `M_SUCCESS`.

Seen by reading: `M_SetTimeout` stores a value that nothing reads; the index tests
of `M_CompleteAuthorizations_index` and `M_ResponseKeys_index` are off by one;
`is_monitor_previously_successful` is never reset; the load generator's
`GetAmount` keeps exactly 8.00, which its comment wants to avoid; the client cuts
a port to 16 bits without a test.

## 6. Not modelled

Configuration setters and plain getters of the library; the text of requests,
error strings and white space; the TLS context beyond its failure to load; the
legacy array and CSV accessors and the deprecated wrappers; examples and
bindings; the widths of ids (32-bit random ids are fresh handles) and of
`timeout * 1000`. Of the programs: printed output and statistics, the values of
amounts, accounts and user names in the load generators, negative or oversized
`-r` values, and what `M_rand_range` returns for an empty range (it may be any
amount).

## 7. Plan

1. Done: `MonetraConn`, `TransPromise`, `CallbackPromise`, `MonetraLegacy`,
   `MonetraParse`, the three programs, the runs above; all safety properties of
   these modules that hold proved, with both refinements.
2. Next: the configuration setters and their status guards, together with the
   `iocreate_cb` window (the io object exists, the status is still DISCONNECTED,
   and setters are still accepted). The legacy array and CSV accessors at their
   bounds, over `MonetraParse`'s responses.
