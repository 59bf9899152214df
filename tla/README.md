# spinev-ble in TLA+

A specification of `spinev_ble`, the asyncio client library for Spin EV wall
chargers: what its request engine, its public methods and its two transports do
when tasks interleave, frames are late or lost, links drop and calls are
cancelled, and what its values become on their way through frames. The modules
are checked with TLC on small instances; every safety property of the passing
runs is proved with TLAPS for every value of the constants.

Source paths below are relative to the package, `src/spinev_ble/`.

- [1. The system](#1-the-system)
- [2. Modules](#2-modules)
- [3. Runs](#3-runs)
- [4. Fairness and what is assumed](#4-fairness-and-what-is-assumed)
- [5. Proofs](#5-proofs)
- [6. Findings](#6-findings)
- [7. What is not modelled](#7-what-is-not-modelled)
- [8. Plan](#8-plan)

To check a module: `tlc -config ClientSafety.cfg MCChargerClient`; to check its
proofs: `tlapm ChargerClientProofs.tla`.

## 1. The system

The library runs on one event loop. A *task* of the application calls a method
of `SpinEvCharger`; the method builds frames (`protocol.py`), takes the
client's lock, hands each frame to a *transport*, and waits for a reply frame
that the transport delivers through a callback. Between two `await`s a task
runs undisturbed, so the atomic steps of the system are the stretches of code
between awaits, the callbacks, and the timers.

    application tasks
          |  public methods                     charger.py
          v
    SpinEvCharger  (_lock, _waiters, _sends, _bulk, _bulk_event, _password)
          |  async_send                 ^  on_frame, on_disconnect
          v                             |
    SpinEvTransport                             transports/base.py
      BleTransport (_client, _on_frame, _on_disconnect)     transports/ble.py
      OcppTunnelTransport (_on_frame, _on_disconnect)       transports/ocpp.py
          |                             ^
          v                             |
    bleak client / central system  ->  charger               (external)

### Components

| Component | State | Operations | Hard behaviour | What makes it correct |
|---|---|---|---|---|
| Request engine (`charger.py`, private half) | `_lock` and its line of waiting tasks, `_waiters` (one per register), `_sends` (abort futures), `_bulk`, `_bulk_event`; per call a future, a send task, a timer | `_request`/`_exchange`, `_deliver`, `_write_frames`, history read, `_on_notify`, `_on_disconnect`, connect, disconnect | a call may end by reply, drop, failed send, timer or cancellation, at any await, in any order with the others | one call at a time and in turn; nothing registered outlives its call; every future can be found by a reply or a drop; answers belong to their request; every call returns |
| Call service | who is active, who waits | ask, be served, give up, return | - | the abstract promise the engine keeps |
| History read (`async_get_history`, `_collect_bulk`, `_on_notify`) | buffer, event, deadline, idle gap | read | a stream without end marker, with repeats, pauses, and records of reads that were given up | ends by the deadline, leaves a stream only after silence, returns exactly what came |
| Public methods (`charger.py`) | `_password` and what a method holds between its requests | limit, start/stop, setters and commits, alarms, status | check-then-write across two turns of the lock; late replies; lists that break off; commits and the restart they cause | a limit follows a check; success means the charger acted; groups of settings take effect whole; faults are not hidden |
| Configuration setters (`async_set_wifi`, `..._ocpp_config`, `..._timezone`, `..._random_delay`, `..._internet_connectivity`, `async_sync_clock`, `async_commit`; the builders they use) | the charger's fields: what it holds and what is in effect | write, commit, read back | longer values underneath, lists that break off half way, settings left uncommitted, both ends of every range, every rule for what a text may hold | what was written reads back; success means in effect |
| Configuration (what the setters promise together) | per field what is held, what is in effect, what the list under way has still to write | open a list, settle a field, give up, commit | - | one list at a time, field by field, each whole; no commit inside a list |
| Transport contract (`transports/base.py`) | callbacks installed, connected, reports | connect, lose, close | - | drops are reported once, and only when not asked for |
| Bluetooth transport (`transports/ble.py`) | `_client`, the callbacks, the links underneath | connect, disconnect, send, the disconnected callback | failing or cancelled half way through connecting; drops at any moment; several owners | the contract; no link used before it is subscribed to; the charger's single slot is given back |
| OCPP tunnel (`transports/ocpp.py`) | the callbacks, open DataTransfers | connect, disconnect, send, `notify_disconnected` | transfers that outlive their link and their call, are refused, lost, or answered with nothing or nonsense; a second connect | the contract, as far as it goes; what a call over the tunnel reports done was done; a reported drop ends what is in flight |
| Protocol codec (`protocol.py`) | none | pure functions | boundaries, padding, bit positions, telling one kind of payload from another | what is encoded decodes; no payload is two things; only its own echo confirms a command |
| Command line (`__main__.py`): the `ocpp` command | none | read the settings, work out what is wanted, compare, write and commit | settings not given, defaults, the `dns:` mark, a second run of the same command | it does as asked and keeps the rest; a repeat changes nothing |
| The other commands, data models, errors, package exports | none | - | - | not modelled, see section 7 |

### How they interact

- The engine calls `async_send` inside the lock, in a task of its own
  (`_deliver`), so that a drop can end the wait for it. The transport calls
  `on_frame` and `on_disconnect` back from the loop. `ChargerClient` contains
  every order of those the contract in `transports/base.py` allows; `BleLink`
  is shown to stay within that contract, so the engine is not checked against
  it separately.
- The tunnel by itself does not: a second `async_connect` replaces the callbacks
  of the first. `SpinEvCharger.async_connect` asks `is_connected` before it
  connects, and with one client that is what keeps the contract. So the tunnel
  is modelled twice: `OcppTunnel` alone, whoever uses it, and `TunnelClient`, the
  calls of `SpinEvCharger` over it, where a send stays open for a whole
  DataTransfer and the reply comes from inside it.
- The public methods use the engine as a sequence of atomic requests and lists
  of writes. `ServesInTurn` is what allows `ChargerMethods` to take them as
  atomic: between the first and the last frame of a list nobody else's frame
  goes out.
- `HistoryRead` is the same read that `ChargerClient` has, alone but with the
  clock.
- `Settings` has the values that `ChargerMethods` leaves out: there a list of
  writes is the number of the list, among the lists of other tasks; here it is
  bytes in pieces, one call after another. `Codec` is what it encodes with.
- The `ocpp` command is a caller of two public methods, `async_get_ocpp_config`
  and `async_set_ocpp_config`; in `Settings` it starts the same setter the
  other calls start.

## 2. Modules

| Module | Models | Lines |
|---|---|---|
| `CallService` | what callers are promised: one call at a time, in turn, each ending once | spec of `ChargerClient` |
| `ChargerClient` | the request engine | `charger.py` 62-165, 246-431, 905-965 |
| `MCChargerClient` | keys, setters and symmetry for TLC | - |
| `ChargerClientProofs` | its theorems | - |
| `Transport` | the contract | `transports/base.py` |
| `BleLink`, `BleLinkProofs` | Bluetooth transport | `transports/ble.py` |
| `OcppTunnel`, `OcppTunnelProofs` | OCPP tunnel by itself | `transports/ocpp.py` |
| `TunnelClient`, `MCTunnelClient`, `TunnelClientProofs` | `SpinEvCharger` over the tunnel: extends `OcppTunnel` | `transports/ocpp.py`, `charger.py` 134-155, 209-434 |
| `HistoryRead`, `HistoryReadProofs` | history read with its clock | `charger.py` 905-965, `protocol.py` |
| `ChargerMethods`, `MCChargerMethods`, `ChargerMethodsProofs` | public methods of several requests | `charger.py` 433-903 |
| `Configuration` | what the setters promise of the charger's fields | spec of `ChargerMethods` and of `Settings` |
| `Codec`, `CodecProofs` | frames, numbers, texts, alarm words, control replies, session records | `protocol.py`, `const.py` |
| `Settings`, `MCSettings`, `SettingsProofs` | the setters with their values, the commit, the `ocpp` command | `charger.py` 654-903, `protocol.py`, `__main__.py` 162-217 |

Definitions that the comment over them introduces as "the variant" are not part of any specification: each
is a plausible mistake in the definition it stands before, and TLC finds a
property violated when it takes that definition's place.

### State and actions against the code

**ChargerClient.** `pc` is the await a caller's task stands at: `queued` is
`async with self._lock`; `delivering` is `asyncio.wait` in `_deliver`;
`finishing` is the `await send` after an early reply; `awaiting` is
`await future` in `_exchange`; `collecting` is `_collect_bulk`. `call` holds the
locals: the frames left, the future (`fut`), the send task (`send`), whether a
cancellation has been delivered (`cancel`), and two observations for the
properties (`cut`, `serial`). `Enter` is all the code from the lock to the
first await, `Leave` all the `finally` clauses on the way out. A request registers
a waiter, each frame of a list an abort. `Drop` is `_on_disconnect`; `Disconnect`
is `async_disconnect`, which calls no callback and fails nothing. A reply is
its key, register and flag, with the number of the call whose frame it answers
(`serial`), which the code cannot see: properties about stale answers are
stated with it. `owed` are the replies the charger may still send; a key is
`tainted` once a request of it has ended without its own answer on this link, so
that a late reply to it may still come.

**CallService.** `Phase` maps `pc` to idle, waiting or active and `queue` to the
line; `ServesInTurn` is `Service!Spec`.

**Configuration.** `todo` is what the list under way has still to settle, per
field its value; `held` and `effect` are what the charger holds and what is in
effect. A list opens on any set of fields; a frame reaches one of them and no
other; its last frame leaves the field as its value's image. `ChargerMethods`
implements it with the number of the list as value and image, `Settings` with
the argument and its encoding.

**HistoryRead.** `mixed` (for `MostRecentFirst`) says whether an earlier stream
was still going on when the read began. Time is counted in units: `left` to the deadline, `wait` to the
end of the current `wait_for`. A tick happens only when no task can run.
`Decoded` is the selection `async_get_history` makes of the buffer: `Kept` are
the places that pass its loop, `Nth` puts them in order.

**ChargerMethods.** A request is one step, taken when the charger handles it;
its outcome is a reply, a late reply to an earlier request of the same key, or
a failure before or after the charger acted. A list of writes holds `holder`.
What the charger holds (`staged`) takes effect with a commit (`applied`), which
is followed by a restart. Values are the numbers of the lists that wrote them.

**Codec.** A payload is a sequence of bytes, a text a sequence of code points
(so that text which is not ASCII, blanks and NUL are themselves). `PackUint` is
`struct.pack(">I")`; the shifts and masks of `build_timezone`,
`build_clock_time` and `build_clock_date` are sums, because each part is in its
range where they are used. `TimeOf` and `DateOf` are not functions of the
library, which never reads the clock back: they are the layout `const.py`
documents, taken as what the charger shows. `DecodeString` is the whole of
`decode_string`: up to the first NUL, what is not ASCII replaced, stripped.

**Settings.** `held` is what the charger holds per field, `applied` what is in
effect, `settled` (for the properties) the value last written whole. `Begin`
is a setter up to its first frame: `RefusedBySetter` are its own checks,
`RefusedByBuild` those of the builders, made before anything is sent.
`FrameWritten` puts a four-byte piece where its number says; after the last it
goes on to the next field, then to the commit if asked for. `FrameFails` is
every way a frame can end a call, delivered or not, so a list can break off
anywhere and a commit can take effect without an answer. `OcppCommand` is
`_cmd_ocpp`: its reads show either what the charger holds or what is in effect
(this repository does not say which), `WantedOcpp` is `_wanted_ocpp` with
`_charger_host`. The reads are one step because nothing else runs.

**BleLink.** `link` is what bleak knows of every link there ever was; `client`
is `_client`; `mine` is the local variable of a task inside `async_connect`,
`_async_close` or `async_send`. Several owners may connect and disconnect at
once and be cancelled at any await.

**OcppTunnel.** `listener` says whose `_on_frame` and `_on_disconnect` are
installed; they always go together. `Connect` has no guard but the bound, as
`async_connect` has none. A send has one await, the DataTransfer: `accepted`
says whether the charger took its frame, and the answer may be a refusal (by
status, or by data that is no text or no register frame), empty, or a register
frame, which goes to the `on_frame` installed by then (`AnswerHeard`) before the
send returns.

**TunnelClient.** `at` is where a call stands: `queued` for the lock, `sending`
in `_deliver`, `awaiting` its reply after a transfer that brought none. `call`
holds its frames, the one in hand, whether the send's first step was taken
(`begun`) and the future that is both waiter and abort (`fut`): a request has one
for its reply, each frame of a list one to be failed by a drop. The serial
number of a call, with what a transfer carries (`carries`), tells the properties
whose frame an answer answers, which the code cannot see. Sends are those of
`OcppTunnel`; `SendGivenUp` is the `finally` clause of `_deliver`. The engine's
tables and its timers are `ChargerClient`'s subject; here an entry is found
exactly if its future is pending, and a timer or a cancellation reaches the call
in one step.

**Transport.** A transport is mapped to `wanted` (whose callbacks are
installed), `up` (`is_connected`) and `reports` (calls of `on_disconnect`).
`Replace` is not part of the contract: it is what "connecting an already
connected transport does nothing" rules out.

## 3. Runs

Every passing run explores all of its states; the numbers are distinct states.

| Run | Question | Bounds and why they are enough | States |
|---|---|---|---|
| `ClientSafety` | Is anything left behind, orphaned, completed twice or answered with another's reply, however calls end; can one get stuck? | 2 tasks, 2 calls, sends that linger when cancelled; requests of one register with two flags, a list of two frames whose second looks like a request's flag, a history read. The lock admits one call, so a second call meets everything a first can leave; the second task is the one that waits | 457 k |
| `ClientInTurn` | Are calls served in the order asked, one at a time, without overlapping sends? | 3 tasks, 3 calls: two in line behind one inside is the least line whose order can go wrong | 253 k |
| `ClientLiveness` | Does every call return? | 2 tasks, 2 calls of all three kinds, no symmetry | 342 k |
| `ClientDropHistory` | Is a read that is collecting failed by a drop? (no) | as `ClientSafety`, sends end at once | - |
| `HistoryRead` | Does a read end in time, not too early, with what came? | timeout 3, idle gap 2, streams of 3 sessions, 4 records, 2 reads: the deadline falls inside an idle gap; a second read meets the rest of a stream given up | 587 k |
| `MethodsControl` | Do limit, start and stop do what they report? | 2 tasks, 2 calls, all sessions, password right, wrong, unfit or unknown; a late reply needs one earlier request | 218 k |
| `MethodsSetters` | Is the charger configured as by one list after another; do groups of settings take effect whole; do faults reach the caller? | 2 tasks, 2 calls, a group of two fields and a single field, lone commits, both alarm banks | 1.22 M |
| `Settings` | Are fields written one by one and whole; does every setting read back as written; does success mean in effect; does the `ocpp` command do as asked, and nothing the second time? | WiFi fields and id of 2 pieces, host and path of 3: more than one piece each and not all alike; arguments on both sides of every boundary and one for each rule; 2 chargers, blank or with blanks around its settings; 3 calls: one that breaks off or is not committed, one over it, a repeat | 1.08 M |
| `SettingsRules` | Are the documented rules for WiFi texts reported as documented? (no) | 1 call | - |
| `BleOneOwner` | Does the transport keep its contract and the charger's slot? | 1 owner, 1 sender, 3 links: a link lost, one dismissed, one abandoned to a cancellation | 50 k |
| `BleSlotLost` | Does a cancelled connect give the slot back? (no) | 2 links | - |
| `TunnelClient` | Is what a call over the tunnel reports done what the charger did; does a reported drop end every call in flight; is the contract kept? | 2 tasks, 2 calls, 3 connects: a call given up and another after it, with a link lost and one closed between; requests of one register, a list of two frames, a history read (refused); no answer, or an answer of every kind | 744 k |

`Settings` alone is checked without the deadlock check: its setters may rest
once all calls are made. In the other models the environment can always move.

The bounds are constants of the modules: `MaxCalls` (calls begun), `MaxLinks`,
`MaxConnects`, `MaxReads`, `MaxBulk` (records kept). They occur as guards only
and the proofs hold for every value of them. Symmetry is used on interchangeable
tasks, and only in runs without liveness.

### What the properties say

- `RegisteredByHolder`, `NothingOrphaned`, `AbortsPending`, `DropWakesWaiting`:
  the tables `_waiters` and `_sends` against the calls: no entry without the call
  that made it, no wait without its entry, no abort completed twice, no wait that
  outlasts a drop.
- `FreshAnswer`: an answer is the reply to the frame sent, by register and flag,
  and to that sending of it, unless an earlier request of the same key failed on
  this link. The protocol has no request number, so the exception is real.
- `NoCallStuck`, `CallsWindDown`: what termination rests on besides fairness. At
  whatever await a drop, a timer or a cancellation meets it, a call has a step
  left that is the library's own (`MovesOn`: the loop, its send, its timer, its
  turn for the lock) and never only a reply that may not come; one that queues
  stands behind such a call. And `Work`, what a call inside the lock has still
  before it, falls with every step that changes the call: no frame is sent
  twice, no await entered again. A record that wakes a collecting read changes
  nothing of the call and is not counted: how often that happens is bounded by
  the deadline (`EndsByDeadline`).
- `OneSendInFlight`: `transports/base.py` promises implementations that
  `async_send` does not run twice at once. It holds when a cancelled send ends at
  once (`SlowCancel = FALSE`, as with a send that awaits a plain future), and not
  otherwise, see section 6.
- `HistoryIsFresh`, `ResultIsWhatCame`, `MostRecentFirst`, `EndsByDeadline`,
  `CutOnlyBySilence`: a history read. `MostRecentFirst` is about reads begun
  when no earlier stream was still going on (`mixed`), see section 6.
- `LimitAfterCheck`, `OutcomeTellsTruth`, `AppliedWhole`, `OkMeansApplied`,
  `FaultsReachCaller`: what the outcome of a method tells its caller about the
  charger, with the exceptions named in each. `OutcomeTellsTruth` covers all
  three ends of a start or stop: done, rejected, and answered with something
  else.
- `ReadsBack`, `OkMeansInEffect`: a setting from its argument through the frames
  to what a read shows. A text with a NUL or with blanks around it cannot be
  read back (`Readable`): the setters take it, `decode_string` cuts it.
- `CommandDoesAsAsked`, `RepeatChangesNothing`: the `ocpp` command against what
  it read before and what a read shows after. The second is what saves a
  vehicle's session from a needless restart: the mark on the host, the default
  path and the padding all have to come back as they were compared.
- `ConfiguresInTurn`, `ConfiguresAsAsked`: refinements of `Configuration`, the
  first among tasks with lists in place of values, the second with bytes in
  pieces. They say more than `AppliedWhole` and `ReadsBack` of what never
  happens: a field outside the list reached, a field left before its last piece
  while the list goes on, a commit while somebody's list is open.
- `SubscribedFirst`, `HeardWhenUp`, `RequestedIsSilent`, `SlotReturned`: the
  Bluetooth link against `_client`, `_on_frame` and `_on_disconnect`.
- `OkMeansHandled`: what a call over the tunnel reports done was done: each of its
  frames was accepted, none skipped or taken twice for one, and a request was
  answered by the reply to its own frame. An empty answer is no error to the
  transport, and an answer to a call that was given up has no name on it; neither
  may end a request well.
  Over Bluetooth less holds (`FreshAnswer`).
- `DropEndsCalls`: once `notify_disconnected` was called no call that was inside
  waits for the tunnel any more, also if the link is back at once: what the
  `abort` of `_deliver` is for, for requests and lists alike.
- `KeepsContract` (twice), `ServesInTurn`: refinements. The tunnel's is of the
  tunnel as one `SpinEvCharger` uses it.

## 4. Fairness and what is assumed

Only `ClientLiveness` uses fairness. `Fairness` is weak fairness of, per caller:
`Step` (the loop runs a task that is ready), `TimerFires` (`asyncio.timeout`
fires if the block is not left), `SendStarts` (a scheduled task gets its first
step) and `SendUnwinds` (a send that was cancelled ends). All four are asyncio's
own promises, the last one the transport's. Nothing is assumed of the charger,
the link or the application: replies, drops, reconnects, records and further
calls need never happen. `CollectWakes` is not fair and need not be:
`CollectEnds` is the idle gap or the deadline, which comes whatever
happens; that it does, with the records as well, is what `HistoryRead` shows with
the clock (`EndsByDeadline`).

Assumed of what is not in this repository:

- asyncio: `Lock` serves its waiters first come, first served, and is not
  given to a newcomer while somebody waits; a task's first step is put on the
  loop when the task is created; `Task.cancel` reaches the awaited future or task.
- bleak: one link at a time (the charger's slot); `disconnect()` ends with the
  link gone, whether it raises or not; the disconnected callback comes with every
  end of a link; a cancelled `establish_connection` leaves no link.
- the central system (OCPP): answers, refuses, loses or never ends a transfer;
  a `data_transfer` that is cancelled ends at once; a transfer is answered
  Accepted with data only if the charger accepted its frame.
- the charger: answers late, never, or twice as a stream; handles a frame at
  most once; puts a piece of a text where its number says and leaves the rest;
  puts all it holds into effect on a commit; shows, when read, what it holds or
  what is in effect.

Two assumptions on constants carry weight beyond types. `GroupsAssumption`: a
commit is a list of its own and no field is in two lists, as `charger.py`
builds them. `LimitsAssumption`: the port's and the delay's limits fit their
words. `MCSettings` has assumptions of its own, which TLC evaluates: the lemmas
of `CodecProofs` on a few values each.

## 5. Proofs

All theorems hold for every value of the constants that satisfies the named
assumptions of the module (`KeysAssumption`, `BoundAssumption`,
`NoneAssumption`, `LinkAssumption`, `TunnelAssumption`, `ClientAssumption`, `TimesAssumption`,
`StreamAssumption`, `MethodsAssumption`, `GroupsAssumption`,
`ArgumentsAssumption`, `WidthsAssumption`, `LimitsAssumption`); TLC evaluates
each in the runs of its module. Every invariant and every safety property of a
passing run is stated by a theorem, some with a hypothesis the run's constants
satisfy (one owner of the Bluetooth transport, sends that end when cancelled).

**ChargerClientProofs.** `IInv` is the inductive invariant. The properties
themselves are not inductive: that nothing is orphaned depends on the holder of
the lock being the only call inside (`LockInv`), on what a call carries at each
await (`CallInv`), and on aborts belonging to writes under delivery
(`SendsInv`). `FreshAnswer` needs two facts about the past: a reply still owed
under an untainted key is the reply the holder is after (`OwedInv`), and a call
that has its answer has nothing left to send (`AnsweredInv`). The proof that a
step preserves `IInv` is by what a step does to the lock: entering (`EnterInv`),
leaving (`LeaveInv`), moving inside (`MovesInv`, `SendInv`, `RelayInv`), queueing
(`QueuesInv`, `CancelQueuedInv`), and the callbacks (`ReplyMatchedInv`,
`DropInv`, `DisconnectInv`). From it follow `TypeCorrect`, `NothingLeftBehind`,
`NeverOrphaned`, `AbortsStayPending`, `DropWakes`, `HistoryFresh`,
`AnswersAreFresh`, and `SendsDoNotOverlap` under `SlowCancel = FALSE`.
`NeverStuck` needs `RelayedInv`, how far a timer or a cancellation has got: one
that has been relayed leaves neither a send in flight nor a future pending where
the call stands, so what is left is the loop's. `WindsDown` compares `Work`
before and after each action (`LeftOver` bounds what a send and a cancellation
weigh, `Lighter` and `FrameLighter` compare two records, `Untouched` is for the
other calls, `StepCloser` for the steps of the loop).
`ServesInOrder` is the refinement of `CallService`: each step is a step of the
service or leaves phase, line and outcome alone. `RemoveOne` and `TailOf` are the
lemmas about the line.

**BleLinkProofs.** `IInv` (any number of owners) says what a task holds at each
await (`HandInv`) and that the charger has one link and what was reported is
gone (`SlotInv`); `SubscribedBeforeUse` follows. With at most one owner
(hypothesis of the theorems, the use the library makes of a transport)
`HeardInv` says that a connect in progress is listening and not yet connected;
`HeardByOneOwner` and the refinement `ImplementsContract` follow. `HandedInv`
(every link that is up is the client's, or in the hands of an owner that will
store or close it, or was when that owner was cancelled) gives `SlotGivenBack`;
`DismissedInv` (a link being dropped on request goes down unheard) gives
`RequestedDropIsSilent`.

**OcppTunnelProofs.** For any number of clients. `ImplementsNarrowContract`: a
drop is reported once and a disconnect is silent, but a connect while connected
replaces the callbacks (`KeepsContractOrReplaces`). It is what the tunnel keeps
of `transports/base.py` whoever uses it.

**TunnelClientProofs.** `IInv` says that the holder of the lock is the only call
inside and the only one with a transfer open (`HolderInv`), that calls have
numbers of their own and a transfer carries the frame in hand (`CallInv`), how
many frames the charger has accepted at each place (`FrameInv`), and that a
future settled by a reply has the reply to the call's own frame while a drop
leaves none pending (`FutureInv`). `OkMeansHandled` is not inductive without
them: that an answer is the call's own rests on a send never outliving its call
(`SendGivenUp`) and on the lock. `TaskInv` is the same by task; `StepKeeps` is what
a step of one task has to show, `LeaveKeeps` and `SendsKeeps` are the ways out of
a call and into a frame, `OpenIs` what an open transfer implies. `DoneIsDone` and
`DropEnds` follow. `ImplementsContract` is the whole contract: the only connect
is the client's, which asks first.

**HistoryReadProofs.** `ClockInv`: a wait does not outlast the deadline, and
unless the deadline cut it short, the silence so far and the rest of the wait
make up an idle gap. `OverByDeadline` and `NoStreamCutShort` follow.
`NthIs` shows, by counting, that ranking a set of places is one to one and onto,
so `Decoded` returns every place that is kept, once and in order (`DecodedIs`).
With `BufferInv` (while a read goes on, the buffer is what came since it began)
that is `ReturnsWhatCame`. `NewestFirst` needs `StreamInv`: in a read
begun when no stream was going on, no other stream goes on, and the buffer holds
nothing this read's stream has not reached and, while that goes on, everything it
has, so a repeat is always a repeat of something already there.

**ChargerMethodsProofs.** `IInv` says, per task, what its call may be doing at
each place (`Place`), and for each method what it has done by then: `LimitInv`
(the state was read and no session open, before a limit is asked for),
`ControlInv` (what a reply in hand says of the charger), `AlarmInv` (which banks
have been read or stayed silent), `ListInv` (how far a list is). Then what holds
between tasks: the list that has the lock is the newest (`HolderInv`), late
replies are replies to commands acted on or refused (`LateInv`), what is
applied is no newer than what is staged (`GrowInv`). The core of
`CommitAppliesWhole` is `WholeInv`: in the charger a list of fields is whole, or
shows the number of a list that broke off, or is the one being written now. It
is why the lock must be held for the whole list. `MethodsConfigure` is the
refinement of `Configuration`: what the holder has left of its list is `todo`,
a frame settles the field it names, and a commit finds nothing to do because it
holds the lock itself and is a list of its own (`GroupsAssumption`).

**CodecProofs.** Division by 256 picks out the bytes (`DivMod`,
`ThreeBytes`); from it `NumberRoundTrip`, `TimezoneRoundTrip`,
`ClockRoundTrip`, and, with the bytes of a control word, `EchoConfirmsItsCommand`:
the echo of another command or another password is never taken for this one's,
and no command's echo looks like a refusal. `TextRoundTrip` and
`DecodedIsPlain` go through the extent of a text and its outermost inked
places. `AlarmByItsBit` shows that taking the bit from its byte, as the model
does, is shifting and masking the whole word, as `decode_alarm_defs` does; the
powers of two are any function that doubles, so that no recursion is needed.
`ReplyIsNoRecord` is what lets `_on_notify` tell replies from records.

**SettingsProofs.** `IInv` is `TypeOK`, what a call under way was allowed to
start with (`CallInv`), that the pieces of its field written so far are in the
charger (`WrittenInv`), that a settled field holds its value's encoding
(`SettledInv`), that a call that returned settled all its fields and, told to
commit, has them in effect (`DoneInv`), and how an `ocpp` command's call came
from what it read (`RequestInv`). With the round trips of `CodecProofs` these
give `WrittenReadsBack`, `ReturnMeansInEffect`, `CommandKeepsItsWord` and
`RepeatIsIdle`, for fields of any width and any text. `SettersConfigure` is the
refinement of `Configuration`: the last piece of a field settles it because
those before it are in the charger already (`WrittenInv`), and every piece
leaves the other fields alone.

**Only model-checked.** `EveryCallReturns`: liveness under fairness is beyond
the proof system. What it rests on is proved (`NeverStuck`, `WindsDown`); that
weak fairness turns "a step of its own is left and each is one fewer" into "it
returns" is what TLC checks.

## 6. Findings

Each has a run that shows it:

1. `ClientDropHistory`. `_on_disconnect` says it fails "anything in flight
   instead of letting it wait for the timeout" (`charger.py` 309). A history read
   that is collecting has no abort future: the drop only sets the event, the read
   waits another idle gap and returns the truncated list as a success.
2. `BleSlotLost`. `async_connect` says of a failed subscription that the
   charger's one slot "goes back before the failure is reported" (`ble.py`
   155-156). The clause is `except Exception`, which a cancellation passes: the
   link stays open and nobody can close it.
3. `SettingsRules`. `async_set_wifi` documents `SpinEvValueError` for text that
   is not ASCII; `SpinEvProtocolError` is what comes (`charger.py` 676-702,
   `protocol.py` 176-177).

Met while modelling, within what the models allow and without a run:

- `transports/base.py` 45 says "Connecting an already connected transport does
  nothing". `OcppTunnelTransport.async_connect` (`ocpp.py` 130-135) overwrites
  both callbacks: a second client on the same tunnel takes the first one's
  replies and drops over, and the first is told of neither. `BleTransport` asks
  (`ble.py` 136), and so does the one client (`charger.py` 230). `OcppTunnel`
  has the second connect; what holds then is `ImplementsNarrowContract`, and
  `TunnelClient` has the one client for which the whole contract holds.
- `transports/base.py` 24-26 says `async_send` is not called while another call
  of it runs. `_deliver` cancels an abandoned send and does not wait for it
  (`charger.py` 153-155), so one that awaits while unwinding overlaps the next.
  `OneSendInFlight` is therefore stated for sends that end at once.
- After an early reply the send is awaited without its abort (`charger.py` 151):
  a drop then does not cut it short, as 139-141 intends; its timer does.
- Two owners of one `BleTransport`: one may clear the callbacks the other has
  just stored, leaving a connected link nobody hears (`ble.py` 159, 168-170). The
  properties of the transport are stated for one owner at a time.
- A link dropped on request is reported as lost if its task is cancelled in
  `disconnect()` and somebody reconnects before the link is down (`ble.py`
  164-166); hence `abandoned` in `RequestedIsSilent`.
- The limit check and the write are two turns of the lock (`charger.py`
  631-652): a session may begin between them. `LimitAfterCheck` promises the
  check only.
- The late echo of an earlier start confirms a later start that was lost
  (`charger.py` 582-585): `OutcomeTellsTruth` promises that such a command was
  acted on, and that this one was unless its answer was a late reply.
- An `ocpp` command whose commit fails after all frames were written, given
  again, may find nothing to change although nothing took effect: if the
  charger's reads show what it holds (`__main__.py` 210). Whether they do is
  not known here; the properties speak of commands that reported success.
- A setting with a NUL, or a WiFi text with blanks around it, is accepted and
  cannot be read back as given (`Readable` in `Settings`).
- The rest of a stream that an earlier read gave up mixes with the next
  read's (`charger.py` 919): `MostRecentFirst` is stated for reads begun when no
  earlier stream was still going on.

## 7. What is not modelled

- The command line but for `ocpp` (`__main__.py`), data models, exceptions,
  package exports: no shared state and no order of events. The other commands
  print the result of one call.
- Floats (`build_write_float`, `decode_float`, the scale of an energy): TLA+'s
  integers do not round. The names, codes and wording of alarms, firmware and
  status values: tables.
- Reads of a single register and load balancing: one request each, an instance of
  what `ChargerClient` has.
- The content of a frame beyond register and flag; scanning for devices.
- The retries inside `bleak_retry_connector`: external.

## 8. Plan

Order of work, most important first:

1. `CallService`, `ChargerClient` (done): the engine, its contract with its
   callers, its proof.
2. `Transport`, `BleLink`, `OcppTunnel`, `TunnelClient` (done, proved): the
   contract and its implementations, and the client over the tunnel.
3. `HistoryRead`, `ChargerMethods` (done, proved): the methods that take more
   than one request or more than one record.
4. `Codec`, `Settings` (done, proved): values through frames and fields and
   back, commits, the `ocpp` command; `Configuration` (done, proved): what both
   the setters among tasks and the setters with their bytes implement.
5. An engine that shares a transport between two owners: what is left of the
   contract then.
6. The loss of a commit's answer with the connection that carries it, over the
   tunnel: `TunnelClient` ends the call, `Settings` has the frame delivered and
   its call failed; not together, with the reconnect that follows.
7. The step from `ChargerClient` to the atomic requests of `ChargerMethods` as a
   refinement; today it is argued from `ServesInTurn`.
