# TLA+ models and proofs for carlo_gavazzi_em300

Specifications of the Home Assistant integration in `src/custom_components/carlo_gavazzi_em300`
(called *the code* below; file names are relative to that directory), model-checked with TLC on
small instances and, where it pays, proved for all instances with TLAPS. `PROJECT.json` maps each
definition to the lines it stands for.

To check a run: `tlc -config <name>.cfg <Module>.tla`; to check a proof: `tlapm <Module>.tla`.

## 1. The system

The integration polls one Carlo Gavazzi EM300/ET300 energy meter per config entry, over Modbus RTU on
a serial port, or over TCP or RTU-over-TCP through a gateway. Everything runs in Home Assistant's
event loop: code between two `await`s is atomic, and everything else interleaves.

| Component | Code | State | Operations |
|---|---|---|---|
| Config entry lifecycle | `__init__.py` | the entry (data, options, runtime data), its update listener | set up, unload, reload on change, remember the series |
| Coordinator | `coordinator.py` | failure count, last result, polling interval | poll, count a failure, reconnect, reset |
| Device | `api/device.py` | identity, narrowed registers, planned reads | connect, close, identify, read_all |
| Client and transports | `api/client.py`, `api/exception.py` | connection, transaction lock | connect, close, read one request, read a batch |
| Batch planning | `api/batch.py` | none (pure) | addresses to requests |
| Register map | `api/register_map.py`, `api/models.py` | none (data) | which register, how wide, on which series |
| Decoding | `api/utils.py` | none (pure) | words to values |
| Config flow | `config_flow.py`, `connection.py` | the flow, entries and their unique ids | add, probe, reconfigure |
| Options flow | `options_flow.py` | entry options | change the polling interval |
| Sensors | `sensor.py`, `entity.py`, `entity_descriptions.py` | none beyond the coordinator's | show a value or unavailable |

How they interact. `async_setup_entry` builds a client and a device from the entry, awaits `connect`,
awaits `identify` (three reads, each tolerated on failure), writes the series down, awaits the first
refresh, stores the coordinator as runtime data, awaits the forwarding to the sensor platform and
finally registers the update listener. Home Assistant calls it under a lock per entry, again on a timer
after `ConfigEntryNotReady`, and inside a reload. The coordinator's timer polls while there are
entities; an update that fails counts and, on the 1st, 11th, 21st ... failure in a row, awaits
`connect` again. The options flow and `_async_remember_series` write to the entry, which calls the
update listener, which schedules a reload. The config flow builds clients of its own for probing.

### What is hard about it

* **Order of awaits.** A setup is at one of five awaits while options change, the link drops, reloads
  queue up and, from the fourth on, polls run.
* **Partial failure.** Each step of a setup can fail after others succeeded, with exceptions of several
  classes, inside and outside the `try`.
* **Ownership.** The connection belongs to a client only the running setup, the runtime data or an
  update in flight refers to. Losing the last reference leaves a serial port held.
* **Recovery.** A broken link heals only by an explicit reconnect, which is rate limited by a counter.
* **Stale state.** The interval, the remembered series, the read plan and the last values are all
  copies that go out of date.
* **Data edges.** Requests are capped at 20 words, registers are one or two words wide, gaps may not be
  read across, and one word means something else when it is read alone.

`PROJECT.json` lists each hazard at its line with the properties that would catch it.

### What makes each component correct

* Lifecycle: whatever fails and wherever, no connection outlives its owner; a loaded entry polls at the
  interval chosen; writing the series down does not reload the entry.
* Coordinator: a link that comes back is used again; values of a meter that went away expire; a success
  resets the count.
* Device: the register set is that of the series the meter names or of the one remembered, whatever one
  read returned; each value of a poll is one the meter had during it.
* Batch planning: exactly the wanted words, in legal requests, as few as possible, no register torn.
* Client: one transaction at a time, also when some are cancelled, time out or are cut off; every call
  ends; no rejected, short or foreign answer passes for data.
* Decoding: the words of a quantity decode to that quantity, at the sign boundary too.
* Sensors: each register polled has a sensor and each sensor a value; counters never fall.
* Config flow: one meter, one entry; reconfiguring does not forget what is known; a meter is reached by
  the settings that were accepted last, and a form shows what it is reached by.

## 2. Modules

| Module | Role |
|---|---|
| `EntryContract` | what an entry promises to the rest of Home Assistant: three variables |
| `Em300Entry` | lifecycle, coordinator and link of one entry; refines `EntryContract` |
| `MCEm300Entry` | symmetry over client names, for TLC |
| `Em300EntryProofs` | theorems about `Em300Entry` |
| `SplitAddresses` | the loops of `split_addresses` and `_split_run`, an iteration per step |
| `MCSplitAddresses` | all address sets below a bound, for TLC |
| `SplitAddressesProofs` | theorems about `SplitAddresses` |
| `RegisterMap` | the polled registers, the sensors described for them and the identification codes, as data |
| `PollPlan` | one device: plan, identify, plan again, poll, make sensors; extends `RegisterMap` and `SplitAddresses` |
| `PollPlanProofs` | theorems about `PollPlan` and about the register map |
| `BatchRead` | what `read_batch` promises its callers: one variable, each caller's call |
| `ModbusClient` | any number of clients, their locks and callers, and the links they are on; refines `BatchRead` |
| `MCModbusClient` | two clients with their callers, on links of their own or on one, for TLC |
| `ModbusClientProofs` | theorems about `ModbusClient` |
| `Em300Device` | one device and its meter: identify and poll, read by read, and decode |
| `MCEm300Device` | a map of four registers over words of two bits, for TLC |
| `Em300DeviceProofs` | theorems about `Em300Device` |
| `EntryRegistry` | what the entries promise together: who has which id and knows which serial number |
| `ConfigFlow` | adding, reconfiguring and removing meters beside the setups; refines `EntryRegistry` |
| `MCConfigFlow` | two meters and what they say of themselves, for TLC |
| `ConfigFlowProofs` | theorems about `ConfigFlow` |
| `EntrySettings` | the connection settings of one entry: from the form through `entry.data` to the transport |
| `MCEntrySettings` | the values a user may give to each field, for TLC |
| `EntrySettingsProofs` | theorems about `EntrySettings` |

A definition called `Buggy...` is a variant of the one after it with a plausible mistake. No action
uses it: substituted for the original it makes a property fail, which shows that the property
depends on the code.

How the modules fit together. `Em300Entry` sees a read of the meter as one step that delivers or
fails, and `ConfigFlow` a setup or a probe. `Em300Device` opens that step: it is several requests, each
of which returns the words of one instant or raises, and it assumes of the plan that registers are
whole and requests disjoint. `ModbusClient` opens a request: it is a transaction under a lock on a link
that loses and delays frames. What `Em300Device` takes for granted of a batch, that it advances by whole
requests, in order, or fails as a whole, is `BatchRead`, which `ModbusClient` implements.
`PollPlan` shows of the real map and the real planner what `Em300Device` assumes of a map and a plan; the
theorems `RegistersAreApart` and `PlanServesTheDevice` say it conjunct by conjunct. The modules are joined
by these statements and not by one state space.

### Em300Entry

One action is one stretch of code between two awaits. `task` is the await at which the holder of the
setup lock stands, `entry` the state Home Assistant shows.

| Variable | In the code |
|---|---|
| `entry`, `task`, `reloading`, `pending` | `ConfigEntry.state`, the await of `async_setup_entry` / `async_unload_entry`, the reload it is part of, reloads waiting for the setup lock |
| `listener` | `entry.add_update_listener` at `__init__.py:55`, until the unload callbacks run |
| `cur` | the client of the running setup, later of `entry.runtime_data` |
| `conn` | each client's connection: closed, open, or broken (held, but dead until a reconnect) |
| `poll` | each coordinator's update in flight: reading, or awaiting the reconnect |
| `failures` | the remainder of `_failure_count` by `_RECONNECT_EVERY`: the code adds one without bound and looks at nothing but the remainder |
| `avail`, `interval` | `last_update_success`, `update_interval` |
| `narrowed`, `remembered`, `options` | the series of the register set in use, `entry.data[series]`, the interval in `entry.options` |
| `up` | whether the meter answers |

| Actions | In the code |
|---|---|
| `BuildClient`, `BuildFails` | `client_from_config` at `__init__.py:25-30` |
| `SetupConnects`, `ConnectFails` | `device.connect()`; its result is ignored, so a quiet failure goes on like a success |
| `Identify` | `device.identify` with the fallback series, `_async_remember_series`, construction of the coordinator with the interval of the moment |
| `FirstRefreshDelivers`, `FirstRefreshFails`, `FirstReconnect` | `async_config_entry_first_refresh` |
| `SetupBreaks`, `FirstRefreshBreaks`, `PollBreaks` | an exception outside the tuples the code names |
| `ForwardSucceeds`, `ForwardFails` | `__init__.py:52-56`, the latter outside the `try` |
| `SetupCancelled` | a `CancelledError` at any await of a setup; it is no `Exception`, so `__init__.py:45` lets it pass and nothing closes the client |
| `PollStart`, `PollDelivers`, `PollFails`, `PollReconnects` | `_async_update_data`, `_async_try_reconnect` |
| `UnloadSucceeds`, `UnloadRefused` | `async_unload_entry`, then the callbacks Home Assistant runs |
| `Enable`, `Retry`, `Disable`, `BeginReload`, `RequestReload` | Home Assistant's side: external |
| `ChangeOptions` | the options flow saves |
| `LinkDrops`, `LinkReturns` | the bus or gateway: external |

The constant `Faults` says which faults of the surroundings may happen, so that a property can be
stated with the assumption it needs. `"unexpected"`: the transport raises something else than
`Em300Exception`, `OSError` or `TimeoutError`. `"requested"`: a refresh requested by a service call is
running at unload, where nothing cancels it (the coordinator's own polls are cancelled). `"forward"`:
setting up the platform raises. `"cancelled"`: the task of a setup is cancelled. `"unload"`: the platform refuses to unload. `"late"`: the options are
saved after the running setup has read them.

Properties, and where they bite:

* `NoLeakedConnection` – every held connection belongs to `cur` (`__init__.py:42-50, 59-65`).
* `FreshInterval`, `IntervalTakesEffect` – a loaded entry polls at the chosen interval or a reload is
  due; it does so in the end (`__init__.py:40, 55, 98-100`).
* `RegistersFollowMemory` – no transient failure widens or changes the register set
  (`api/device.py:87-91`, `__init__.py:76-95`).
* `DeliveredResetsCount` – no failure count survives a delivered update (`coordinator.py:102-108`).
* `RememberingNeverReloads` – writing down the series never queues a reload (`__init__.py:85-87`).
* `RecoversOnceCaught` – a meter that stays reachable is read again and again, provided that from some
  moment on reads fail only with what `coordinator.py:85` catches; `Recovers`, without the proviso, is not
  true (section 5). `StaleValuesExpire` – see above (`coordinator.py:75-115`).
* `BaseInv` – the inductive invariant of section 4, checked as it stands: which await goes with which entry
  state, when there is a client, a listener, a value or an update (`__init__.py:21-65`). A callback that
  survives an unload, or an update that belongs to no entry, breaks it steps before anything else does.
* `KeepsContract`, `KeepsFairContract` – the entry implements `EntryContract`: nothing held or shown
  while off, values turn current only over a connection, every setup ends. `SetupEndsInTime`, stated for the
  proofs, is why (`__init__.py:21-56`). The mapping is
  `phase <- Phase`, `held <- Held`, `live <- avail`.

### SplitAddresses

`StartRun`, `ExtendRun`, `EndRun` are the branches of the `for` loop, `Chop` an iteration of
`_split_run`'s comprehension. The sorted list is a set of which the least comes next. Properties: the
requests cover exactly the wanted words (`ReadsExactlyWanted`), each is of legal length
(`RequestsFitFrame`), no two overlap (`RequestsAreDisjoint`), and they are as few as possible
(`RequestsAreFewest`). The last is stated by a witness: the first words of the requests are wanted
words of which no two fit into one legal request. Two more are stated for the proofs and no run:
`PlanIsSmallest` says in full what the witness is for, by comparison with every other set of legal
requests (`batch.py:4-6`), and `EndsInTime` is what remains of `Terminates` without fairness.

### RegisterMap and PollPlan

`PollPlan` runs `SplitAddresses` on the real register map, with the planner's variables as its own (`Plan`
is a step of the planner, `Replan` a new `RegisterBatch`): on the full map for the constructor, then,
after `Identify` with any code (known, unknown or unreadable) and any remembered series, on the
narrowed one. `RegistersReadWhole`: no register is spread over two requests. This is not ensured by
the planner, which cuts without regard to registers, but by the map (every 32-bit register lies at an
even address of a run starting at an even address) together with the even cap, so it is a property of
the composition. `PollsOnlyItsOwn`: no word of a register the series lacks is read.
`AddSensors` makes a sensor for each described register of the set, after the first poll.
`SensorsShowThePoll`: every register polled has a sensor and every sensor a value from every poll, which
relates three lists kept in three files and the two register sets a device has in its life.
`DocumentedPoll`: 42 of 46 registers in five requests for an EM340 (repository README.md:156-162).

### ModbusClient

| Variable | In the code |
|---|---|
| `open` | whether the connection of each client is open |
| `holder`, `waiters` | `Em300Client._lock`: who is in the block and who waits, in order |
| `state`, `plan`, `step`, `values` | each running `read_batch`: waiting for the lock or for an answer, its `reads` argument, the read it is at, its result so far |
| `wire` | the requests on each link to which an answer may still come |

| Actions | In the code |
|---|---|
| `Call`, `Send`, `SendFails` | `read_batch` begins; with the lock, the request is sent, or raises when the connection is not open (`client.py:76-79`, `105-110`) |
| `Receive` | an answer comes: the checks of `client.py:81-95`, then the merge and the next read, or the end of the call |
| `Timeout`, `Resend` | pymodbus gives up after its retries, or tries again: external |
| `Cancel` | Home Assistant cancels the caller, which waits for the lock or for the answer: external |
| `Connect`, `Close` | as in the code; closing fails the transaction under way |
| `Lose` | a frame is lost: external |

A request is a name that stands for start and length; the words of an answer are known by the request
they were read by. An answer carries the unit. On a link in `Numbered` (Modbus TCP framing) it also carries
the number of its transaction, and pymodbus passes over an answer to another one; on the others (RTU
framing) it goes to whoever waits for that unit. On a link in `Late` a request that was given up or
was sent twice may still be answered. Any answer may be an exception response or too short.
`read_holding_registers` on its own is a `read_batch` of one request.

The code has two means to tell answers apart: the order on the link, which the lock protects, and the checks
of unit and length. The length tells little: a poll has at least three requests of twenty words
(`batch.py:22, 57-60`). So what can be promised depends on the link.
`Attributable` calls are those on a numbered link, and those of a client that is alone with its unit on a
link that does not answer late (`Orderly`).

Properties:

* `OneTransactionPerClient` – no two callers of one client are in a transaction (`client.py:76`),
  although transactions are also left by timeouts, cancellations and closes.
* `ReturnsItsWords` – a call that returns has, for each request of its plan, words of the length it asked
  for, and no exception response or short answer is taken for data; if it is attributable they are the
  words of that request and not the answer to something else (`client.py:81-95, 105-110`).
* `NothingOfAnothers` – the second half for every call. Not true: section 5.
* `KeepsBatchContract` – for attributable calls the client implements `BatchRead`: a call, as its caller knows it, begins with
  nothing, gets the whole words of one request after the other in the order of its plan, and returns with
  all of them or fails with none; locks, retries, late answers and other callers do not show
  (`client.py:65-110`). The mapping, `CallOf`, forgets whether a call waits or asks, and counts the
  requests it is past.
* `LockServesInOrder` – each running call of a client has the lock or exactly one place in its queue, and
  whoever has the lock is a running call of that client (`InLine`); whenever the lock changes hands or a
  transaction ends, everybody in the queue moves up, the first to the lock (`LineMovesUp`). So no waiter
  is forgotten when another is cancelled beside it, and a batch lets others in between two of its
  requests (`client.py:76, 108-109`), as a lock around the whole batch would not.
* `CallsEnd` – every call ends (returns, raises or is cancelled): nobody waits for the lock for ever.
* `OneTransactionPerLink` – not true when two clients share a link (section 5), and proved when none do.

### Em300Device

| Variable | In the code |
|---|---|
| `quantity` | what the meter measures now: external |
| `pc` | before `identify`, at one of its three reads, between polls or in a poll |
| `remembered`, `series`, `registers` | the fallback series, the series settled on, `Em300Device.registers` |
| `next`, `words` | the request a poll is at and the words it has merged |
| `data`, `current` | the coordinator's `data` and `last_update_success` |
| `window` | history: every value each quantity had since the poll began |

`Identify`, `ReadCode`, `ReadSerialNumber`, `ReadFirmware` are the stretches of `identify` between
its awaits; the register set is replaced with the last. `PollStart`, `ReadNext`, `ReadLast` and
`PollFails` are `read_all` as the coordinator calls it; `Measure` changes a quantity at any moment.
`Sample` is the meter's answer: words in two's complement, the least significant first, except that the
one word at `CodeAddress`, read alone, is the identification code. `DecodeRegister` is `utils.py:56-89`
for integers, before the value weight. `Totals` are the counters, those of them that cannot be reset
from the meter's menu.

Properties:

* `SeriesIsTheMeters` – the series in use is the meter's or the remembered one, and the registers are
  its: the voltage that shares the word is never taken for a code (`device.py:86-110, 122-130`).
* `DataIsTrue` – every register of the set has a value after every poll, and it is one the meter had
  during that poll: not torn between two instants, not from an earlier poll, with its sign and word
  order right (`utils.py:34-37, 56-108`, `device.py:166-169`).
* `TotalsNeverFall` – what is shown of a counter never decreases: Home Assistant's statistics would take
  that for a reset (`entity_descriptions.py:67-70`).

### ConfigFlow

All entries and flows at once, where `Em300Entry` is one entry in detail. A *place* stands for the
connection settings that say where a meter is; the other settings and the names are left out. What
follows the probe in `_async_step_transport` has no await, so a flow is one action to submit and one
to end.

| Variable | In the code |
|---|---|
| `uid`, `place`, `serial`, `series` | `unique_id` and `data` of each entry; `uid` is `NoEntry` while there is no such entry |
| `flow` | the place each flow is probing, and the entry it reconfigures if any |
| `phase`, `client`, `stale` | each entry's setup: before `identify`, in it, or loaded; the place its client was built for; a reload waiting |
| `fallback` | the argument of `identify`: `entry.data[series]` as it was before the awaits of `identify` |
| `meterAt` | the meter that answers at each place |

| Actions | In the code |
|---|---|
| `SubmitAdd`, `SubmitReconfigure` | `config_flow.py:179-238`, up to the await of `_async_probe` |
| `ProbeFails` | the form is shown again with an error, `config_flow.py:239-244` |
| `CreateEntry`, `AlreadyConfigured` | `_async_create_entry` with `_fallback_unique_id` |
| `UpdateEntry`, `WrongMeter` | `_async_reconfigure_entry`, and the reload it schedules |
| `BeginSetup`, `BeginIdentify`, `EndSetup`, `SetupFails` | `client_from_config` and `connect`; the fallback is taken and `identify` begins; it returns and `_async_remember_series` writes what it read, or the fallback, over what the entry has by then |
| `Remove`, `Unplug`, `Plug` | the user and the wiring: external |

`Faults`: `"serial"` and `"code"`, one of the tolerated reads of `identify` fails; `"silent"`, a port or
a gateway accepts the connection although nobody answers behind it, so every read fails and `identify`
returns all the same. `Plug` puts a meter only where no entry points: swapping the meter under an entry
without telling it is outside what the code claims to notice.

Properties:

* `OneEntryPerMeter` – no two entries are for one meter, by serial number or, without one, by place
  (`config_flow.py:273-275`). Open flows make it a matter of order: the check has to follow the probe.
* `RefusedOnlyIfConfigured` – no meter without an entry is turned away as configured already.
* `SeriesOfMeter` – a loaded entry with no reload due has the series of the meter it points to,
  although setups and flows both write it (`__init__.py:76-95`, `config_flow.py:328-330`).
* `NothingForgotten` – a series once known is not forgotten: not true, section 5.
* `KeepsRegistry` – the entries implement `EntryRegistry`: ids are unique and for life, a serial number
  once learned is neither replaced nor forgotten. It holds under every fault.

### EntrySettings

`ConfigFlow` has the settings as one place; `EntrySettings` opens that: one entry, one form at a time, and
every field. The awaits of a setup are in `Em300Entry`, so a setup is one step here.

| Variable | In the code |
|---|---|
| `data`, `options` | `entry.data` as far as it is settings, the interval in `entry.options` |
| `form` | the form that is open: shown or at its probe, with its transport and fields |
| `ports` | the serial ports of the host: external |
| `loaded`, `due` | whether the entry is loaded, and whether a reload or its first setup is due |
| `client`, `interval` | the arguments of the pymodbus client in use, `update_interval` |
| `accepted` | history: the last form that was accepted; for an entry that was never reconfigured, what it says with the defaults |

| Actions | In the code |
|---|---|
| `OpenForm` | the menu and the form with its defaults, `config_flow.py:111-233` |
| `Edit` | the user: external |
| `Submit`, `ProbeFails` | up to the await of the probe; the form as it was filled in, with an error |
| `Accept` | the probe ends well: the new entry, or the merge of `async_update_reload_and_abort` |
| `CloseForm` | any abort |
| `ChangeOptions` | the options flow saves, and the listener reloads a loaded entry |
| `Setup`, `SetupFails`, `Unload` | `client_from_config` and `_scan_interval` on the data of the moment |
| `PlugPort` | a USB adapter comes or goes: external |

Properties:

* `TransportIsAsAccepted` – a loaded entry with no reload due is reached by what the last accepted form
  said, in the terms of pymodbus, whatever keys of the other transport are left in `entry.data`
  (`config_flow.py:235, 287-296, 328-330`, `connection.py:42-66`, `client.py:185-192`). The same goes for
  its interval until the options flow has been used; from then on the options take precedence, also over
  the interval of a later reconfiguration (`__init__.py:68-73`).
* `FormShowsTransport` – a form that reconfigures such an entry shows, for the transport the entry has,
  what it is reached by. A default is applied in the form and once more in `connection.py`; where they
  differ, sending the form back unchanged would move the entry.

## 3. Runs

| Run | Shows | Bounds |
|---|---|---|
| `entry` | that no connection is leaked, the contract, recovery, expiry, effect of options, end of every setup | 2 clients, 2 series, 2 intervals, `ReconnectEvery` 3, 2 waiting reloads; faults `unexpected`, `unload` |
| `entry_faults` | what holds whatever fails: `BaseInv`, the register set, the reset of the count, and that writing down the series is quiet | 3 clients, 2 series, 2 intervals, `ReconnectEvery` 3, 1 waiting reload; all six faults |
| `no_recovery` | what goes wrong with unexpected exceptions: section 5 | 2 clients, 1 series, `ReconnectEvery` 3, 1 waiting reload; fault `unexpected` |
| `split_addresses` | the planner on every subset of ten addresses | addresses 0-9, limit 3: runs of up to ten words are cut into up to four requests, at, before and after multiples of the limit |
| `poll_plan` | the planner on the real map with the real limit | none: 46 registers, cap 20, all codes and remembered series |
| `flow_identity` | one entry per meter and the right series, when serial numbers and codes can be read | 2 entries, 2 flows, 2 places, 2 meters |
| `flow_faults` | the registry's promise under every fault | the same; one meter has no serial number, one an unknown code |
| `series_forgotten` | what goes wrong when the code is not read: section 5 | the same with one flow |
| `modbus_client` | the lock and its queue, the answers, the end of all calls and the contract of `read_batch` | a client with 3 callers alone on an RTU link, one with 1 caller on a link that numbers its frames and answers late; batches of two requests of equal length |
| `shared_link` | what goes wrong when two clients share an RTU link: section 5 | 2 clients with a caller each, one link, one meter, nothing late |
| `entry_settings` | the way of the settings from the form to the transport | all fields; besides its default, two values for port name, parity and framing, one each for host, address and interval; 2 serial ports that come and go |
| `em300_device` | identification and polls beside a measuring meter | 4 registers of one and two words, 3 requests, 2 series, 4 codes; words of 2 bits, values at and beside the sign boundary, and at a carry into the second word |

Why the bounds are enough. Two clients are needed to tell the client in use from an abandoned one; a
third lets two abandoned ones coexist (`entry_faults`). `BuildClient` is disabled when every name is
taken, which happens only in runs with leaks. Two series tell "remembered" from "read". The code's `_RECONNECT_EVERY` is 10; a cycle of 3 has a
first, a middle and a last failure. `MaxReloads` bounds the reloads waiting for the lock: a further
reload of the same entry would see the same state as the last one; at the bound, saving options under
a registered listener waits.
In the flow runs two meters and two places are what it takes to confuse meters or places, two flows to
race, two entries to collide; entries, flows and places are interchangeable, and no property names one, so
TLC reduces by their symmetry. A third entry could only repeat the collision of two.
`modbus_client` has a client with three callers, so that two wait in line while one asks. Its requests
have equal lengths, so that the checks tell none of their answers apart: what keeps them apart is the lock on
the RTU link and the numbers on the other, where a caller's second request lets an answer to its first come
late. The bounds need no cap: `wire` is a set. In `em300_device` words of two bits give two-word values of four bits, enough for
every boundary there is: signs of one and of two words, and the carry. Each quantity has the few values
around them; `Exported` is a register of one series only, and `Volt` has as its second word the codes of
the other series, of no series and the right one.
In `entry_settings` a field has two values where the code converts it or where it tells two places apart,
and one value besides its default where it is only passed on (address, interval, host); baud rate, stop bits,
byte size and TCP port have their default alone, as they go the same way as the address.
The host is not Windows; that branch is the proof's.
`split_addresses` switches deadlock checking off because a function that returned takes no step.

Fairness (`entry`). Weak fairness of setup, unload, retry, the start of a waiting reload, and
the start and end of polls: each await ends, as pymodbus requests time out, the event loop runs what
is ready, and Home Assistant's retry and polling timers fire. No fairness is assumed of the user, of
the link or of faults: `RecoversOnceCaught` assumes `<>[]up`, and that `PollBreaks` comes to an end. A connect attempt while the meter is up succeeds
in the model; that is the meaning of `up`. It is also satisfied where the code leaves the
matter to the user (disabled, setup error, failed unload). In `modbus_client` a caller that has the lock goes
on, as the event loop runs what is ready, and a transaction that is under way ends, by an answer or by
pymodbus' timeout; nobody is obliged to call, to connect or to answer, and the lock itself is not
assumed fair: it is a queue. `FairSpec` of `SplitAddresses` only says
that the function goes on running.

## 4. Proofs

`Em300EntryProofs`, for any number of clients, series, intervals and reloads, any reconnect period:

* `TypeCorrect`: `Spec => []TypeOK`.
* `BaseInvariant`, under every fault. `BaseInv` adds to `TypeOK` how the parts go together:
  a setup await with state `inProgress` (`TaskMatchesEntry`), a client with states that have one
  (`ClientMatchesEntry`), the listener with loaded states, values and polls with entities. Without
  these the two facts it is for are not inductive: `RegistersAreRemembered` (a remembered series could
  change while loaded) and `CountIsReset` (an update in flight could belong to a setup).
* `Ownership`, hence `ConnectionsNeverLeak`, from the assumption that `"requested"`, `"forward"` and
  `"cancelled"` are not in `Faults`. The strengthening is `PollsBelongToEntry`: no update outlives its entry, since
  one that did would reconnect later.
* `IntervalIsFresh`, from `"late" \notin Faults`: during the awaits after the interval was read it
  equals the option, for nobody can change it then.
* `RememberingIsQuiet`: an action property, from the listener part of `BaseInv`.
* `EntryKeepsContract`: the refinement (its safety part), from `Ownership`: `Init` maps to `Init` and
  every action to a step of `EntryContract` or a stutter.
* `SetupsMakeProgress`: `SetupEndsInTime`, what remains of "every setup ends" without fairness. A setup can
  always go on: by `Ownership` a client of an earlier setup is closed and idle, and nothing listens while
  the series is written down. Each step of a setup lowers `AwaitsLeft` or ends it, loaded or with everything
  released, and no other action touches it. `Clients` stands for the clients setups make, hence `Clients # {}`.

The assumptions are the complements of the faults section 5 names, which shows that they are needed.

`SplitAddressesProofs`, for every set of addresses and every positive limit: `PlannerTypes` and
`PlannerInvariant` with the loop invariant `LoopInv` – everything wanted behind the frontier has been
asked for, nothing ahead of it has, and every request so far starts too far behind the frontier, or
beyond a hole, to be merged with the next – and from it `PlanIsExact`, `PlanFitsFrame`, `PlanIsFewest`,
`PlanIsDisjoint`. One lemma per branch of the loop; `ChunkFits` is the arithmetic of one request.
`NoPlanIsSmaller`, for finite sets: each of the planner's requests starts at a wanted word, which some
request of any other plan must cover; by `PlanIsFewest` no request of that plan covers two starts, so that
this is an injection into the other plan and it is not smaller.
`PlannerEndsInTime`: `Left` counts the addresses not visited twice, the words not asked for once, and the
collecting and chopping of the run at hand; it is a natural number that every branch lowers (`VisitCounts`,
`ChopCounts`), and until the plan is done one of the branches is possible (`StepExists`, with a least
address by `NextExists`). Hence at most 3n + 1 iterations for n addresses.
`PairsStayTogether` is for the composition: if every run starts at an even address (`RunsStartEven`) and the
limit is even, an even word and the next are in one request. Its invariant is `EvenInv`: the frontier is
even, and a request has an even length unless its run ends with it.

`PollPlanProofs`, for the real register map, every code and remembered series, and any limit:

* Lemmas that read the map: a register of two words has an even address, one of one word is at 46 to 51 and
  on every series, each is described (`MapFacts`); hence what a device of any series polls starts every
  run at an even address (`RunsOfMap`), also where a series lacks registers in the middle.
* `RegistersAreApart`: no two registers share a word, and none is the lone word 0x000B.
* `PlanIsOfTheRegisters`: the inductive invariant `PlanInv`. The properties say something only of a plan
  that is finished; the invariant says of the plan from its first step, through the loop invariant of
  the planner, that it is for the registers of the series, and that once anything was decoded or shown
  the device is identified and the plan finished, so that nothing replaces it.
* `DeviceTypes`, `PollsOnlyTheSeries` and `SensorsShowWhatIsPolled` from it, for every limit.
* `ReadsAreWhole`, `RegistersReadWhole` for every even limit, as the code's 20 (`batch.py:22`) is: with an
  odd one it is false as soon as a run is longer than the limit and is cut in the middle of a pair. `PlanServesTheDevice`
  adds the rest of what `DeviceAssumption` asks of a plan.
* `PollAsDocumented`: `DocumentedPoll` at the code's limit of 20. The registers are numbered in the order
  of the map (`RegistersCounted`); the five requests are counted by the words they start at, 0, 20, 40, 60
  and 78, which the loop invariant leaves no choice about (`StartsOfEM340`).

`ConfigFlowProofs`, for any number of entries, flows, places and meters:

* `FlowTypeCorrect` and, under every fault, `FlowInvariant`: `BaseInv` says that only entries that
  exist have data or a setup, and that flows are for entries that exist. Without it a flow could write
  a serial number to a removed entry.
* `FlowKeepsRegistry`: the refinement of `EntryRegistry`. A create is a claim, an update that brings
  the first serial number is to learn it, every other update must leave it alone, which is what the
  check for the right meter ensures.
* `MetersHaveOneEntry` and `NobodyTurnedAway`: `OneEntryPerMeter` and `RefusedOnlyIfConfigured`, if
  every meter has a serial number and `"serial"` and `"silent"` are not in `Faults`. The
  strengthening, `IdentityInv`, is that every entry knows its serial number and has it as its unique id.
* `SeriesFollowsMeter`: `SeriesOfMeter`, if every meter has a known code and `"code"` is not in `Faults`. The
  strengthening, `SeriesInv`, says what a setup that is connecting or identifying may do to the entry,
  also with a fallback taken before the entry was reconfigured: its client is for the entry's place, or a reload is due that will put right what it writes.

`ModbusClientProofs`, for any number of clients, links, callers and requests:

* `LockInvariant`, under every fault: `AskersHold` (whoever is in a transaction holds the lock of its
  client) with the types, among them that a caller is at a read of its plan. From it `ClientTypes`,
  `TransactionsExclusive`, and `LinkExclusive`: one transaction per link if no two clients share one.
* `ServesInOrder`, under every fault: `LockServesInOrder` from `InLine`, that the running calls of a client
  which do not hold its lock are each once in its queue, and nobody else is. One lemma
  (`HandOnKeepsLine`) covers the release and every way a lock is taken, as each hands the lock to
  the first in line; a cancelled caller leaves its place and the others close up (`LeaveQueueFacts`).
* `AnswersAreOwn`: `ReturnsItsWords`, for any lengths, links and clients. The first half is `FitInv`, that
  all a call has so far passed the checks. The second is `WordsInv`, that an attributable call has the
  words of the requests it is past. On a numbered link `Belongs` carries it; for an orderly client it takes `WireInv`,
  that what is on its link for its unit is of the transaction it is in, and that rests on the lock.
* `ContractIsKept`: the refinement of `BatchRead` by the attributable calls, from the same invariants. An
  answer that is accepted is the `Answered` of its call, whatever ends a call early is its `Raised`, and all
  else is a stutter.

  Neither theorem has an assumption; the condition is `Attributable`, in the property, call by call. It
  cannot be dropped: `shared_link` shows that for the shared link, and a single client on an un-numbered
  link in `Late` fails in the same way.

`Em300DeviceProofs`, for any register map with registers of one and two words, any plan that keeps
registers whole, any even word base and any meter:

* `DecodingInvertsEncoding`: decoding the words of a quantity in a register's range gives the quantity.
  It rests on lemmas about division that hold the arithmetic of two words.
* `DeviceTypes` and `SeriesIsNamed`, from `IdentityInv`: the code is read first and the set replaced last.
* `PollsAreTrue`: `DataIsTrue`, from `WindowInv`: the words a poll has of each register are those of one
  quantity of its window, because a register is within one request and no later request overwrites it.
* `TotalsGrow`: `TotalsNeverFall`, from `PollsAreTrue` and `TotalsInv`: what is shown of a counter is not
  ahead of any value in the window of the poll under way.

`EntrySettingsProofs`, for any values of the fields, on Windows or not:

* `SettingsInvariant`: `SettingsInv` says that a form has all fields of its transport, that `entry.data`,
  completed by the defaults, says what the last accepted form said, and that the transport of a settled
  entry is the one `entry.data` describes. The properties alone are not inductive: they say nothing of
  an entry that is not loaded, whose data the next setup will use.
* `TransportFollowsForm` and `FormsShowTransports`: `TransportIsAsAccepted` and `FormShowsTransport`, by
  `BuiltAsMeant`: a client built from data that say what a form said is what the form means.
* `SettingsTypes`: the types, with `BuiltForPymodbus`: whatever is stored, the transport gets one of the
  parities and framings pymodbus knows.

Only model-checked: all liveness (`RecoversOnceCaught`, `StaleValuesExpire`, `IntervalTakesEffect`,
`KeepsFairContract`, `Terminates`, `CallsEnd`), because TLAPS handles neither ENABLED nor fairness here. Every
other property of a run is stated by a theorem. For three of the six the safety core is proved, and only
that what can go on does go on is left to TLC: `PlannerEndsInTime` for `Terminates`, `SetupsMakeProgress`
for the end of setups in `KeepsFairContract`, and `ServesInOrder` for the wait in `CallsEnd`.

## 5. Findings

* `no_recovery` – a read that raises an exception outside `coordinator.py:85`'s tuple is neither
  counted nor followed by a reconnect. `client.py` turns error *responses* into `Em300Exception` and
  lets the exceptions of pymodbus pass; those belong to neither class of the tuple.
* `series_forgotten` – a reconfiguration writes the series its one probe read, `None` when the read
  failed, over the remembered one (`config_flow.py:295`).
* `shared_link` – the lock that is to keep "overlapping transactions" apart (`client.py:5-7`) belongs to one
  client object (`client.py:54`), while several meters on one bus (`config_flow.py:336-337`), or an entry and
  the probe of a flow for it (`config_flow.py:256-268`), have a client each. Two of them are in a
  transaction at once on an RTU link, ask for equally many words of one meter, and one returns
  the words of the other's request. `LinkExclusive` and `AnswersAreOwn` show that nothing else is missing.

Other properties fail too, without a run of their own. On an un-numbered link that answers later than
pymodbus waits, `NothingOfAnothers` fails for a single client as well: the answer to a request that was given
up has the right unit and, as most requests of a poll do, the right length for the next one
(`client.py:81-95`). The code has nothing to tell it by, so no property promises more there than unit and
length. The form that reconfigures an
entry shows the interval of `entry.data` also when the options have another; what is entered
there then has no effect (`config_flow.py:119`, `__init__.py:68-73`).

The remaining faults break properties as well. With `"requested"`
`NoLeakedConnection` fails: `async_unload_entry` closes the client while a refresh requested through a
service call is running; its read fails, it reconnects (`coordinator.py:112-113`) and the connection stays
open with no owner. With `"late"` in `Em300Entry`, `FreshInterval` fails: options saved between
`__init__.py:40` and `:55` reload nothing. With `"serial"`, `OneEntryPerMeter` fails: a meter added once
while its serial number was not read and once while it was has two entries, one under its place and one
under its number. `"forward"` leaks the
connection of a setup whose forwarding (`__init__.py:54`, outside the `try`) raises, and `"cancelled"` that of
a setup that is cancelled at any await, as `except Exception` (`__init__.py:45`) does not catch that. With `"silent"`
entries are made for places where nobody answers. With meters that have no serial number,
`RefusedOnlyIfConfigured` fails (an entry keeps its old place as its id after it was reconfigured,
`config_flow.py:340`), and with a meter whose code is unknown, `SeriesOfMeter` (a setup that is
identifying the old meter writes its series into the reconfigured entry, `__init__.py:93`). With `"code"`
`SeriesOfMeter` fails too: what a setup writes when it could not read the code is the series the entry had before
`identify` began (`__init__.py:35-37`, `device.py:87-89`), also over one a reconfiguration has written meanwhile,
and if the reload that follows cannot read the code either, the entry is loaded with the old meter's series.

## 6. Not modelled, and the plan

Left out of the models on purpose: wording of errors and logs, device registry texts, translations,
the titles and limits of form fields, units and device classes of sensors. The `no_data` branch of the coordinator is
out because a read returns every word asked for or raises (`api/client.py:77-95`). Home Assistant and
pymodbus are external and modelled as far as the code relies on them.

Of the client, `write_register` is out because nothing calls it, and the numbers of timeouts and retries
because pymodbus interprets them. Of the forms, the limits of number fields are out, as the frontend and
voluptuous enforce them, and so is a second form open for the same entry. Of decoding, the division by the
value weight is out (rounded decimal arithmetic), strings are `SerialOf` in `ConfigFlow`, and the types
`UINT32` and `INT64` are used by no register. Code 340, whose meters reverse the word order and which the code
only warns about (`device.py:91-97`), is outside `Em300Device`: its meter has the documented order.
Of the constants, transports, defaults and parity characters are in `EntrySettings`; the rest, the
translations and the packaging keep no state and decide nothing at run time.

What could come next:

1. `Em300Device` as an implementation of the single read in `Em300Entry`, and its polls as calls of
   `BatchRead`, as refinements and not only by the statements they share.
2. The text of a serial number (`utils.py:40-53`) over small words, for the padding and the strip.
