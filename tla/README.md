# TacKernel: specification, model checking and proofs

TacKernel (`src/vtvkx/VT-VKx-x64`) connects the firmware of a traffic light
controller with a user's traffic actuation program, the TA. The firmware's
*ccontrol* service and TacKernel call each other by ONC RPC (`CControl.x`). The TA
is two functions, `AWP_Init` and `AWP_Function`, which TacKernel calls, and which
use the C API of `include/tac_kernel.h`. This directory holds TLA+ modules
of the parts of TacKernel that have a state of their own, the TLC runs that check
them, and TLAPS proofs of their main properties. `PROJECT.json` maps every
definition to the lines it is translated from. Paths below are relative to
`src/vtvkx/VT-VKx-x64/src`.

## 1. Inventory

### Threads and calls

| Thread | Runs | Touches |
|---|---|---|
| main | `svc_run` (`start/TAC_main.cpp:169`): every `*_8_svc` handler of `cctrl/CControl_server.cpp`; the TA functions, called inside the handler of the signal indications; the calls to the firmware made after them | everything |
| renew | `DataReceiver::run` (`cctrl/DataReceiver.cpp:160`): subscribes at the firmware, renews the lease, and on each subscription refills `Config`, `Archive`, `Detectors` | what it refills, reports |
| HTTP | the dispatch loop of `util/evDispatchThread.cpp`; the pages of `util/TestAndDiagnostics.cpp`, `util/PublicTransportHttp.cpp`, of `AwpWrapper`, `StateMessage`, ... read the state and some change it; SIGINT and SIGTERM end the loop and set `EvHttpServer::stopped` | what a page shows or sets |

Nothing is locked, apart from a few atomics. `InstRegistry` holds the one instance of each class.
A second of TacKernel is: `actualsignalindications_8_svc` stores the signal
indications, asks `AwpWrapper` whether a call of the TA is due, raises or removes
the wrapper's warnings, calls the TA, and then sends: switching events
(`AwpWrapper`), the run mode (`ModOnOffHelper::checkSend`), AMLI telegrams
(`PublicTransport::sendAmlis`), and last the state messages.

### Components

| Component | State | Operations | What is hard | What makes it correct | Module |
|---|---|---|---|---|---|
| Public transport memory, `cctrl/PublicTransport.h`, `cctrl/api_PublicTransport.cpp`, `util/PublicTransportHttp.cpp` | two bounded lists with archives, two memory pools, counters | `rideevent_8_svc`, `tacGetRideEvent`, `tacInsertAmliEventToArchive`, `sendAmlis`, the telegram page | two threads without a lock; recycled memory behind pointers; an RPC between reading a list and clearing it | memory that a list points at is not reused; the oldest goes first and is counted; nothing counts as sent that was not | `TelegramQueue`, `TelegramStore`, `PublicTransport` |
| Run mode, `start/modonoffhelper.cpp`, `start/api_TaRunmode.cpp`, the end of `AwpWrapper::onSignalIndication` | requested and actual status, `_response`, `_actual` | `requestedstatus_8_svc`, `actualstatus_8_svc`, the TA's responses, `checkSend`, the end of the process | lost reports, status that lags behind, requests that list less than all, a signal at any moment | what is stored as known is known; the process does not end unknown to the firmware, or while wanted; OFF leads to the end (the stage REDUCED on the way is not checked) | `RunMode` |
| Call scheduling, `start/awpWrapper.cpp`, `Config::isLastSiSwitched` | ticks of the last and next call, array of switching events, TX to go back to | `onSignalIndication`, `SigWunschSetzenSig(AtTick)`, `onAwpFunctionCalled`, settings page | ticks that slip, events and indications of different ticks, wrapping TX | each second is computed once; only due events are held against the firmware; mitigation continues where the TA stopped | `AwpWrapper` |
| State messages, `util/StateMessage.cpp` | cache of messages with their parameters, a watermark, change mark | raise, remove, reset, flush, version | fixed arrays, several updates before one flush, updates during a send | the arrays are not overrun; the firmware shows the cache; what is removed goes | `StateMessage` |
| Detectors, `mv/Detectors.cpp`, `mv/api_mv.cpp` | per detector: occupancy, counter, gap, sum and rate of occupancy | `fill`, values each 100 ms, `DetectorRead`, `DetectorValueSet` | lost packages, the last value before the edges, full lists after a subscription, refill by another thread | occupancy is the last one detected, each vehicle counts once, a rate is a rate | `Detectors` |
| Subscription, `cctrl/DataReceiver.cpp` | the renew thread's client; in the firmware the subscribed topics and a lease | subscribe six topics after a refill, renew, start again | lost calls, lease timeout, restarts of the firmware between any two of 16 calls | subscribed again after every failure, all topics or none, one lost renewal does not cost the lease | `Subscription` |
| Device variables, `cctrl/cltDeviceValues.cpp` | subscriptions, last value sent | register, subscribe, unsubscribe, send changed values | a value is booked before it is sent; a shared client | the firmware shows the last value sent | `FirmwareCalls` |
| Operating state and locks, `cctrl/api_operating.cpp` | locks confirmed last | `tacSetLockSwitchOff`, plain getters | lost answers, calls executed late, restart of the firmware | locks reported as set are set | `FirmwareCalls` |
| Configuration, `cctrl/Config.cpp`, `cctrl/api_Config.cpp` | tables of signal groups, inter green times, plans, parameters; counts and lists derived from them | refill, look-ups of the TA | refill in place, failures half way, activation between two calls | after a fill the TA reads one version; what is derived matches | `Configuration` |
| Configuration check, `cctrl/ConfigNotificationImpl.cpp` | callbacks of the TA; in the firmware a registered consumer and a transaction | check, activate, clean up | calls while the renew thread is still setting up | | `Configuration` |
| Lamp states, `cctrl/Archive.cpp`, `cctrl/LampStates.cpp` | youngest lamp state of each signal group | refill, archive event | two threads, numbers of another version | every signal group has one | `Configuration` |
| Reports, `util/report.cpp` | a ring of lines, two atomic counts | report, flush | any thread reports, no lock | lines come out whole, once, in order, and do come out | `Report` |
| Dispatch, `cctrl/CControl_server.cpp` | next sequence number, compared only to report a gap | one handler per call | | | handlers are actions of the modules whose state they change |
| Start-up, `start/TAC_main.cpp`, `instregistry` | the registry | construction | the renew thread starts before `PublicTransport` exists | | the pointers it sets later are in `Configuration` |
| Wrapped DTOs, time, enumerations, properties, name resolution, HTTP adapter, json, generated stubs, `driver/` | none, or none that the rest depends on | | | | not modelled, section 8 |

## 2. Modules

    TelegramQueue            what one list of telegrams promises (abstract)
      ^ implemented by
    TelegramStore            one family: buffer, archive, pool, heap, page walk
      ^ two instances
    PublicTransport          both families, the two threads, the RPC
    RunMode                  run mode, reports, end of the process, kinds of TA
    AwpWrapper               when the TA is called, events, mitigation
    StateMessage             cache, watermark, flush, versions
    Detectors                occupancy, counters and rates under lost packages and refills
    Subscription             the renew thread's calls against a lease and restarts
    FirmwareCalls            locks and device values over the shared client
    Configuration            the refill, versions, and what the TA reads
    Report                   the ring of report lines
    MC<module>, MC<module>_<run>.cfg      instances for TLC
    <module>_proofs          theorems about a module
    RenewThread_proofs       theorems about Subscription and Configuration
    SharedMemory_proofs      theorems about Report and FirmwareCalls

The last two each cover two modules that no action connects, because they belong together in the
program: the two jobs of the renew thread, and what several threads share without a lock. That is why the
definitions of `Report` and `Subscription` carry names of their own (`ReportNext`, `SubNext`, `FirmwareRestart`).

**TelegramStore / PublicTransport.** A list is a sequence of pointers, `heap` maps
a pointer to the serial number of the telegram last written there, which stands
for its contents. Nothing is locked, so each operation on one `std::list` is a step: `addAmliTelegram` and
`addPtTelegram`, with the archiving and the `poolNew...` they call, are `AddBegin`, `Recycle`, `DropArchived`, `Store`, `Leave`,
`New`, `Unpool`, `Emplace`; `popAmliTelegram` and `popPtTelegram` are `PopBegin` and the steps up to `Leave`. `op.at` is the
step that comes next, `op.cont` the container on the stack, `op.new` the memory for the new telegram; `RideStep` and `AmliStep` run them in
the two threads. `tacGetRideEvent` is three parts (count, copy, pop). `sendAmlis` counts and allocates (`SendAmlis`),
walks the list (`BuildRequest`), gets the answer (`ReplyOk`, `ReplyFails`) and pops as often as it counted (`PopAmli`); the
HTTP thread may act between any two of these steps, and sees lists half way through an operation. The page's loop is modelled
per statement with a reverse iterator that holds a list node.

Four things are undefined in the code and lead to `"undefined"`, in the page or in the thread: a node that has been freed,
`front()` of an empty list, more telegrams than the request was allocated for, and a thread that works on a store while the other one is
inside an operation of it. The model ends there, since a broken `std::list` has no behaviour to specify. What is checked and
proved of the stores thus holds up to that moment; that it does not come for the two threads if the test pages call neither of the two API functions is a theorem (`TheTaAloneIsSafe`),
and the two runs go into it with a page that inserts AMLIs, and one that reads ride events.

**RunMode.** A `ModOnOffHelper` is a function from the modifications it lists to
their values. The constant `TAs` chooses the programs considered: `"any"` responds
whatever and whenever it likes, `"modified"` follows
`tacGetModifiedRequestTaRunmode`, `"demo"` is the TA of `TA_main.cpp`, `"page"` is
a TA that leaves the response to the test page. `operator==` is translated as it
is written: it compares each value with itself and is false for a full list. A report without a client, because none
could be made, leads to `pc = "undefined"`: the code follows a NULL pointer.

**AwpWrapper.** The handler of the signal indications up to the TA function is one
of `NoCall`, `CallInit`, `Mitigate`, `MitigateEnd`, `CallFunction`; the TA's wishes
are `SigWunschSetzenSig`; `FunctionReturns` is `onAwpFunctionCalled`. The firmware
shows any signal indications: events not realized, late, or lost. The settings page gives the offset any number and
switches mitigation off and on. Two variables are history and decide nothing: `early` (a call is planned with a
negative offset) and `overtaken` (the TA was called, mitigation switched off, while `txMitigate` was set), and the field `ahead`
of an event (it is set for a later pulse than the next). They mark the cases that the properties except, and that section 5 tells.

**StateMessage.** A kind is a pair of error id and number. `Raise` and `Remove` are
`UpdateCltMessageEnum` with and without a format string, `SendBegin` and `SendEnd`
are `sendMessages` before and after the RPC, and `stage` goes through the checks in
`CControl_server.cpp` in their order. A message keeps the slot its `params_val` points to, because
a removal copies the message and not the pointer's target; the reports' texts are all `loc_text`, to which every
report's format points. The page's thread enters the cache (`PageEnters`) to raise an error or to reset and send, also while the
handler sends; a send whose cache the other thread changes is torn (`Tear`) and delivers anything. Both threads
in the cache, both sending, no client, or nothing left to take back after the version message, is `Breaks`:
`undefined`, where the model ends. `unmarked` is history: what was raised during a send, whose end
unmarks it; `UnsentKept` excepts it.

**Detectors.** `detstates_8_svc` is a tick of the firmware whose package arrives, `NoMessage`
one whose package does not. The loops are modelled step by step (`NewValue`, `NewEdge`,
`ValuesDone`, `Every100ms`), because the renew thread inserts and erases in the same map
(`FillStarts`, `Insert`, `Erase`, `FillEnds`, then `Subscribe`). Erasing the detector that the handler
holds leads to `main.pc = "undefined"`; a failed first call of `fill`, after which the second is made
without a client, to `renew.pc = "undefined"`. The firmware's view (`occupied`, `config`) and three
history variables (`since`, `stale`, `exact`) say what the counters ought to be.

**Subscription.** `Calls` lists what `DataReceiver::subscribe` and the fills in it call, in order, and last
the renewal. A call is `Answered`, `Refused` or `Lost` (executed or not, and given up at the latest after its timeout); the thread goes on with
`ReturnOk`, `ReturnFailure`, `WakeUp`. Time passes in `Tick`, only while the thread waits or sleeps, so that the sleeps, timeouts
and the lease are numbers of the code. Two failures lead to a client that is used after it was
destroyed, or used though it is NULL, and an answer with an error selector is read as a list: `renew.pc = "undefined"`.

**FirmwareCalls.** All threads share the client of `AwpWrapper`. A call goes to a queue of the
firmware or is lost; the caller gives up after its timeout, while the call may still be executed. Which
failed calls destroy the client is as in the code (`Destroying`); destroying it under another thread's call is
`undefined`. A tick without switching events creates a missing client too (`SkipEvents`). `tacSetLockSwitchOff` and `SendValues` decide by what they remember (`oldLocks`, `subs`) whether to call at all. History
variables say what was confirmed (`told`), whether the firmware may differ from it (`unsure`), and which values were lost (`missed`).

**Configuration.** A table holds versions instead of contents: the inter green tables and signal groups one each, since
the refill leaves entries of former versions. Each remote call of the refill is an action with its failure; what lies between is in the
order of the code, and `Derive` happens after a failure of a later call too, but not if the inter green times or the groups fail, with
which the fill is given up at once: the counts of inputs in `eckdaten` are then those of other detectors than are stored. `CheckConfig`, `Activate`, `Cleanup`, `ArchiveInsertEvent` are the
handlers, `ZZWertLesen`, `VsgDatenLesen`, `tacConfigIsSgConfigured` and `tacCfgGetGeneralParam` what the TA calls. A
`checkconfig` before the pointer is set leads to `main.pc = "undefined"`.

**Report.** A report is the two reads of the test for an overflow (`LoadWriteCount`, `TestOverflow` or `ThrowAway`), `Claim`
(the atomic increment) and `Commit`; a flush is a loop of `WriteReport` and the two steps of `Release`. Two threads
that fill one line may leave a text that is neither's (`Torn`).

## 3. Runs

| Run | Shows |
|---|---|
| `pt_amli` | AMLI telegrams through list, archive, pool and a lossy firmware, list operation by list operation, with the page and ride events read by both threads: reuse never touches a listed telegram, what is archived as processed was taken, both stores implement `TelegramQueue`, only an overflow loses a telegram |
| `pt_live` | ride events read by the TA alone are handed out once; an AMLI, which the test page may insert too, does not stay pending for ever unless the threads ran into each other |
| `rm` | all kinds of TA, lost reports, short requests, signals: the stored state is the confirmed one, the end of the process is told and not premature; if the TA is called, responses arrive and OFF ends the process |
| `awp` | seconds are distinct, mitigation goes to the next TX, one event per signal group, blame only for due events |
| `sm` | every operation of the handler and the page on a cache that fills up: bounds, records that agree, nothing overwritten before the flush unless it is full, the firmware in step with the cache after an undisturbed send, warnings that cease leave the cache |
| `det` | detectors with up to three edges in a tick, packages lost and full lists sent again, refills between the steps of the handler, counters set by the TA: occupancy is current, vehicles count once, BU and BA stay rates |
| `link` | the renew thread with the times of the code and a firmware that loses and refuses calls and restarts at any time: one failure does not cost the lease, no rest with some topics only, subscribed again and again once calls get through |
| `calls` | locks and device values over one client, shared with a page, calls lost or executed late, a restart at another port: locks reported as set are set (unless something was lost since the last confirmed request), values sent last are shown, a dead client is replaced |
| `lock_lost` | *violation*: after a request whose answer was lost, SUCCESS is returned for locks the firmware does not have |
| `report` | three threads on a ring of two lines: how far the ring can be exceeded; and while it is not, lines come out whole, once, in order, and all of them |
| `report_stuck` | *violation*: after an overrun the flush waits at a line no thread is filling |
| `config` | fills that fail at any call, versions activated in between: after an undisturbed fill the TA reads the active version from every function, counts and lists follow the stored groups, the counts of inputs those a complete fill brought, the TA is started only on inter green times, signal groups, detectors and lamp states of complete answers |

Each property of a passing run has a mutant in `PROJECT.json`: a plausible slip in one definition that TLC
finds with that property.

### Bounds, and why they are enough

- `pt_*`: lists of 2 and an archive of 1 make a telegram go through every stage
  (pending, pushed out, archived, recycled) with 4 AMLIs: the third pushes one out into the archive, the fourth
  the next, for which the archive gives its memory to the pool, where the telegram that comes in finds it. 4 addresses are one more than the lists can hold,
  so an allocation too many would be seen. 2 ride events are what it takes for two readers to meet. The addresses are symmetric; the run with liveness uses no
  symmetry, 3 addresses, 3 ride events and 2 AMLIs. The theorems hold for every length.
- `rm`: three requests (all on, all off, and a list that ends after `ModTD`),
  a delay of one call for the demo TA. A run mode has only 3 modifications, so
  nothing else is cut.
- `awp`: a pulse of 2 ticks, a cycle of 6, events valid for 4 and set for the next pulse or the one after, two (symmetric)
  signal groups, an array of 2, offsets 0, 2 and -3 (none, a whole pulse, before the pulse that is running), steps of 1 and 3 ticks,
  6 ticks, mitigation on and off: a slip of a whole pulse, an array that is full, TX that wraps, a mitigation that is overtaken.
  The theorems hold for every pulse, cycle and offset.
- `sm`: a warning, two errors of one format and a report in a cache of 4 (the code reserves
  one slot for the version): three messages fill it, so wrapping to slot 0,
  duplicates, removals from the middle, and one message that could take the slot of another of its format happen. The counters need no bound: the state space is finite.

- `det`: one detector, which the firmware's configuration holds or not, since detectors share nothing but
  the loops over them (the theorems cover any number). Three edges in a tick are a vehicle that leaves, one that
  passes, and the reverse; a limit of 2 vehicles out of 3 is reached; a period of 2 ticks lets sums of both
  lengths happen; percentages 50 and 25 differ. The firmware restarts once.

- `link`: the times are those of the code, in seconds: renewal after 90 of 120, calls of 5, pauses of 5; an answer takes 1, a failing
  connection 12, a restart at least 2. `Tolerated = 1` because that is what these times allow, which the `ASSUME` computes: the second
  failure in a row costs the lease. No other bound: failures and restarts are unlimited.
- `calls`: two lock requests, one device variable with the values -1 (which stands for "nothing sent") and another,
  the main thread and a page, two calls on their way, one restart at the same or another port. Two calls are what it takes for one to
  overtake what a thread believes. `lock_lost` needs no restart and no second thread.
- `report`: a ring of 2 and three threads, so that two threads can exceed it together; the numbers of 6 lines and the
  claims under way go three times around the ring. The code's ring has 300 lines; nothing depends on its length but how long it takes to fill.
- `config`: two versions; each has a signal group, a table, a plan or a detector the other lacks, two groups share an intersection in one of them, and the last group number is reached.
  Failures, activations and restarts are unlimited.

Deadlock is checked where the system cannot stop (`config`). The others say so in their configuration: the bound on
telegrams or ticks, the end of the process, or undefined behaviour ends a behaviour.

### Fairness

- `pt_live`: `WF` of `SendAmlis` (each TA call ends with it), of the walk, the pops and the list operations of the
  main thread (loops without a wait), of the rest of a `tacGetRideEvent` it has begun, of the RPC's
  return (it has a timeout) and `SF` of its success: a firmware that is asked again and
  again answers some time. No fairness for insertions, ride events or the page, nor for the HTTP thread in the middle of an insertion. Without
  `SF` the property fails, as it should: telegrams to a firmware that always refuses stay pending.
- `rm`: `WF` of `AWP_Init`, `checkSend`, the decision after it and of the RPC's return; `SF` of its success
  and of `actualstatus_8_svc`, which `svc_run` takes from the socket only between two TA calls. None for
  requests, the test page or the signal. That the TA function is called again and again is a premise of the two liveness
  properties (`TaIsCalled`): the code does not guarantee it, since mitigation returns before it.
- `sm`: none. `WarningDrains` states its premise itself: the wrapper checks the warning and finds it gone again and again, and does not raise it any more.
- `link`: `WF` of the calls, of the thread's return from them, of time, and of the firmware coming back; none for restarts or failures. `ComesBack` has
  the premise that from some point on the firmware stays up and calls get through.
- `calls`: `WF` of every return from a call (there is a timeout) and of the firmware coming back. `ClientRecovers` has the premise that the
  TA sends switching events again and again: only failed events, values and resets of the cycle monitor destroy the client.
- `report`: `WF` of each thread's steps once it has begun a report and of the flush's, `SF` of the beginning of a flush: the main thread
  flushes at the end of each handler of signal indications, but may be in the middle of a report of its own at any given moment.

## 4. What is proved

TLAPS proves these for all values of the constants that satisfy the
`ASSUME` of the module (`PTAssumption`, `RunModeAssumption`, `AwpAssumption`,
`MessageAssumption`, `DetAssumption`, `ReportAssumption`, ...: sizes are positive, sets are of the right kind, and in `Subscription` the
times keep the budget of the lease), which the runs evaluate.

- **PublicTransport_proofs** (with `TelegramStore_proofs`).
  `StoresInvariant`: type correctness, the books, intact telegrams, and the pages'
  pointers, for both stores at once and between any two list operations, until the threads run into each other. `TelegramsIntact` alone is not inductive: a
  pool entry could be shared or too young, and half way through an operation an address is in two lists or in none. The invariant therefore says what every address
  holds (which lists hold it, and that nothing else is allocated; from serials in order it follows that addresses are distinct) and what the
  operation under way has done so far (`OpInv`: the container on the stack is the buffer's front, the archive has room, the new memory is not listed). From it follow
  `TelegramsStayIntact`, `MemoryStaysBounded` (allocated addresses are at most as many as
  list places, because the pool is empty unless the lists are full: `MemoryBounded`, checked by no run) and
  `StoresAreQueues`, the refinement of `TelegramQueue` by each store.
  `TypesAreRight` adds the threads. `ProcessedTelegramsWereTaken` needs the
  hypothesis that the test page does not insert AMLIs, and an invariant that ties the request to the
  list: while the call is under way the request is what is pending, and while
  telegrams are popped those still to pop are at the front and taken, the one half popped included (`SendInv`). Without
  the hypothesis it fails (section 5). From the same invariant `NoAmliIsForgotten`, an action property: a telegram that leaves the
  list is the oldest one, so either it is popped, and then taken, or it is pushed out of a full list. `RideEventsAreReadOnce`
  needs the hypothesis that the test page does not read ride events, which two callers with one event left would refute. Its invariant:
  events are read in the order they leave the list (`ReadsInv`), and what the caller has copied is still the front
  (`CallerInv`), because `rideevent_8_svc` waits for the main thread.
  So neither `front()` nor `pop_front()` meets an empty list or one that is being worked on (`ListsAreNotEmptyWhenRead`).
  `TheTaAloneIsSafe`: if the test pages call neither API function, neither thread becomes `undefined`. The walk of the telegram page may still meet a freed node, which is its own undefined state.
- **RunMode_proofs**. `ActualIsKnown` from `ReportInv` (a report under way is the response, so
  what is stored afterwards is what was sent). `ExitIsTold` from `LeavingInv` (a process about to leave has a full
  response that says OFF, so the last report is never skipped: `FullNeverSame`).
  `EndsUnrequested` from `UnrequestedInv` (no request is handled between the decision and the end).
- **AwpWrapper_proofs**. `TickInv` adds to the types that no call is planned before
  the tick the last one takes effect, unless with a negative offset (`early`); `SecondsAreDistinct` follows with arithmetic on pulses
  (`Pulse`). `BlameIsDue` from `StartInv` (an event not set ahead starts with the take effect tick, which never goes
  back: `PulsesAreInOrder`), `TargetIsNext` from `TargetInv`, `EventsAreDistinct` from `ArrayInv`:
  stored and sent events share one array.
- **StateMessage_proofs**. One inductive invariant: the four properties together
  with `OutboxInv` (what is under way is what the cache holds, unless it is torn, and what is raised meanwhile is in
  `unmarked`) and `MarkInv` (without the mark nothing else is unsent). `WatermarkInBounds`, `RecordsStayTogether`,
  `UpdatesReachTheFlush`, `FirmwareShowsTheCache` are its parts.

- **Detectors_proofs**. `AuIsCurrent` from `HandlerInv`: edges are only left for detectors that the handler
  still has to see, and an even number of edges left means that occupancy stands at the last value, so the
  alternation ends there. `VehiclesAreCounted` adds `ExactInv` (nothing lost means up to date, unless still to be seen);
  `CountsOn` says of one `setAU` that what it adds to the counter it takes from what is still to come.
  `BuIsARate` from `RateInv`: the sum is not ahead of the ticks since the period began, and behind them while
  `every100msAfterAU` is still to come; BA then follows as an average of two rates (`Smoothed`).

- **RenewThread_proofs**, `Subscription`. `SubAllOrNothing` from `TopicsInv`: after each topic's call, what has been registered so far is
  subscribed, or the firmware went down while the thread waited for the answer; it is then down for longer (`Downtime > Latency`), so the next call fails.
  `SubLeaseHeld` from `LeaseCovers`, a budget: in each state of the thread, what is left of the lease and what was spent since the failure
  cover the attempts still tolerated (`Cost`) and the calls still to make (`CallTime`). The assumption
  `SubscriptionAssumption` is that budget in numbers; the proof is for all times that keep it.
- **RenewThread_proofs**, `Configuration`. Three invariants that go with the steps of a fill. `ConfigReadyIsFilled` from
  `FilledInv`: inter green times, groups, detectors and lamp states that the thread has passed stay filled, whatever fails later, since a later fill replaces them whole or adds to them.
  It is not so for the general parameters and the plans (section 5). `ConfigDerivedAgree` from
  `DerivedInv`: the groups change only while the thread is at a step from which `Derive` follows; lemmas
  say that the recomputed maxima are the largest group, intersection and detector. For the inputs it holds from there to the next fill only. `ConfigFilledMatches` from `MatchInv`: while `calm`, each step adds a table that holds the active version.
- **SharedMemory_proofs**, `Report`, for any number of threads and any ring. `ReportTypeCorrect` contains the bound of an overrun: the bound is
  not inductive, since threads pass the test with counts of different age. `RingBound` is: for each line beyond
  any limit `L` there is a thread that is not about to claim under `L`. `ReportLinesInOrder` from `LineInv`: as long as nothing
  was overrun, a line being filled has its slot to itself, and a slot that is ready holds the one unread line that belongs there (`SlotsApart`).
  `FlushWaitsForSomebody` says that then a line which is claimed and not ready has a thread that fills it (`Underway`): the comment
  that `report_stuck` refutes is right but for overruns, and `OneReporterNeverOverruns` says that these need a second thread.
- **SharedMemory_proofs**, `FirmwareCalls`, for any number of threads and calls under way. `CallsLocksKnown` from `LocksInv`: an awaited call belongs
  to exactly one waiting thread, a call made with no other of its kind in the way (`sure`) is the last one of the queue, so that its effect is the one that
  stays; what is told is what is remembered; while nothing is unsure, no old call is left. `CallsValuesFollow` from `ValuesInv`:
  calls only carry variables that are marked as missed or are being sent.

Only model-checked: the liveness properties `AmliLeaves`, `ResponseArrives`, `OffHonoured`,
`WarningDrains`, `ComesBack`, `ClientRecovers`, `LinesAreWritten` (fairness and ENABLED are out of the prover's reach), and the violations.
Every invariant, every property of steps and the refinement that a run checks is also a theorem.
The strengthened invariants of `Report`, `Subscription`, `Configuration`, `FirmwareCalls` and of reading ride events were
model-checked on small instances before they were proved.

## 5. Findings

Two disagreements between the code and what its comments say have a run
(`PROJECT.json`, `findings`):

1. `tacSetLockSwitchOff` returns SUCCESS without a call if the request equals the last one confirmed, though a request
   in between, whose answer was lost, may have set other locks (`api_operating.cpp:400`; its comment: "sets the TA locks in firmware").
2. `VReport` tests for an overflow and claims its line in two steps. Two threads can claim one line more
   than the ring has; the line overwrites one that has not been written, and once that is released the flush waits for ever at a
   line nobody fills (`report.cpp:783`; `getRepLine`: "in preparation, but not yet finished --> try next time").

Some more have no run of their own. In the modules' behaviours:

- The test page's `tacInsertAmliEventToArchive` and `tacGetRideEvent` change the lists the main thread works on, without a lock
  (`api_PublicTransport.cpp:118`, `219`, `util/TestAndDiagnostics.cpp`); an insertion between `size()` and the walk in `sendAmlis` writes past the
  request (`api_PublicTransport.cpp:302-304`), and two readers of one event read the front of an empty list.
- `ModOnOffHelper::send` takes the client unchecked (`modonoffhelper.cpp:104`), which is NULL if it could not be made (`DataReceiver.cpp:99`).
- A fill that is given up between the detectors and `fillEckdaten` (`Config.cpp:287-323`) leaves the number and the maximum of the inputs of the detectors
  that were there before; `DerivedAgree` excepts it.
- The TA may be started without general parameters: an answer with another selector is reported and keeps the client (`Config.cpp:632`).
- `sendAmlis` pops as many telegrams as were pending before the call (`api_PublicTransport.cpp:376`); an insertion
  by the test page during the call makes it pop, and count as sent, one that was never sent. `pt_amli` has no such insertions.
- `tacGetModifiedRequestTaRunmode` looks at the last actual status received (`api_TaRunmode.cpp:198`), which may
  be older than the last report: FULLY is then switched to OFF directly, which `tac_kernel.h:461` excludes.
- `isLastSiSwitched` does not look at `startTickTime` (`Config.cpp:718`): an event of
  `SigWunschSetzenSigAtTick` is blamed, and mitigation starts, before it is due; `BlamesOnlyDue` excepts events set ahead.
- The settings page takes any number as offset (`awpWrapper.cpp:132`). With a negative one the next call is planned within the
  second the last one computed for (`getTickOfNextCall`), and several calls may compute for it; `TakeEffectAdvances` excepts it.
- `txMitigate` is not reset when the page switches mitigation off (`awpWrapper.cpp:139`): the TA is called, and switching mitigation
  on again goes on with the TX of before, which the TA has processed meanwhile; `MitigatesToNext` excepts it.
- A warning that persists is appended again in each second that already changed something (`StateMessage.cpp:721`); removing it takes one copy.
- After a removal messages point to the parameter slots they came from (`StateMessage.cpp:777`), which the next message fills.
- Two reports before one flush show the same text, that of the second: the format of both is `loc_text` (`StateMessage.cpp:677-700`).
- What the page raises during a send is unmarked at its end (`StateMessage.cpp:476`), so that it waits for the next change, or is
  taken back in place of the version message (`462`). If the page resets the cache then, `msgCount--` leads to -1 (`Breaks`).
- The client is used unchecked, NULL or not (`StateMessage.cpp:430`, `453`, `471`).
- `CControl.x:174-175` leaves it to the receiver to handle a lost package of detector values; `checkSeqNr` reports the gap
  and the handler ignores its result (`CControl_server.cpp:76`).
- After a failed call device values are booked as sent (`cltDeviceValues.cpp:220`), switching events too (`awpWrapper.cpp:394-397`).
- A variable whose first value is -1 is never sent: -1 is what a new subscription starts with.
- The draft is marked as changed by `checkconfig` but never read; an activated configuration is not read until
  the next subscription, which only a failure brings about.
- `sgInfo` is never cleared (`Config.cpp:335`): groups the new configuration lacks stay configured for `tacConfigIsSgConfigured`;
  inter green tables of numbers it lacks stay as well.
- The plans are cleared before the call that brings them (`Config.cpp:514`): during it, and after a failure, the TA finds none.
- The minimum times of the group with the highest number are left out (`sgNo < MAX_SIGNALGRUPPEN`, `Config.cpp:464`).
- The selector of an answer is looked at for the general parameters only; the other lists read an error answer
  (`CS_CfgError`) as a list (`Config.cpp:303-338`, `529`, `Archive.cpp:71`, `Detectors.cpp:238`).
- After a failed `registerasconfigconsumer_8` the destroyed client is used for the topics, since `subscribing` ignores the
  result of `registerAtCctrl` (`DataReceiver.cpp:222`); the pointer `checkconfig_8_svc` follows is set only after it.
- The provider of device variables is registered once (`awpWrapper.cpp:352`): if the call fails, or the firmware forgets it, there are no values any more.
- `archiveinsertevent_8_svc` returns 0, so the call is never answered (`CControl_server.cpp:427`).

Elsewhere:

- Not checked for NULL or emptiness: the client of `tacGetComponentParams_`, `minGreenRefs_val[0]` of a plan without lists (`Config.cpp:542`).
- After `EndReport` every thread that reports also flushes (`report.cpp:871`), without a lock.
- `StateMessage.h:38` says that a one-shot message is removed immediately after it
  is sent; the code leaves it in the cache until its slot is reused.
- A refill keeps the smoothing factors of detectors that are there (`Detectors.cpp:207`).
- `wDetIdx` is documented (`api_mv.cpp:27`, `tac_kernel.h:271`) but never set.
- After a restart of the firmware its ticks are smaller than `lastBuCalcTick`: BU stands still until they catch up (`Detectors.cpp:406`), while
  the sum goes on; `BuBounded` therefore excludes it.

## 6. Abstractions

Telegrams are serial numbers, texts and parameter values are left out, ticks are small numbers, an RPC
that fails may or may not have reached the firmware. Operations on one list (`push_back`, `pop_front`) or map (insert, erase, look-up)
are atomic, what the code does between two of them is not; where two threads inside one container would break it (telegrams, state messages)
the model ends with `undefined`. Settings pages of
`AwpWrapper` are one step (a lost update of `nextPlannedCall` is a hazard listed in `PROJECT.json` with a note), what both
threads do to the cache of state messages at the same time is undefined, the time of a send excepted. Of a detector, what nothing else depends on is
left out (`wLU`, `wSS`, quality, error), and the smoothing factors are percentages.

Creating a client is one step, and the firmware executes the calls it receives in their order. A configuration's contents are
the version they come from, the plans' and parameters' as a whole. Of the lists of minimum times one stands for those of green and red.
The two counts in `VReport`'s test are read one after the other, and a line's text is complete before its
`file` is set, as on x86, where stores keep their order and the text is written by library calls; the pointer itself is not atomic in the code.

## 7. Plan

Written so far: the modules of section 2. What is left, most important first:

1. More proofs: what the hypotheses of the theorems of `PublicTransport` and `RunMode` exclude, stated as the weaker result that
   holds without them; a bounded log as the abstract specification of `Report` while it is not overrun.
2. `TacKernel`: the second of section 1 as the composition of `AwpWrapper`, `RunMode`,
   `PublicTransport`, `StateMessage` and `FirmwareCalls`, which share the client and the order of the calls after the TA function.
3. Start-up: what is reachable before `isReady4Init`.

## 8. Not modelled, and why

Wrapped DTOs (`wrappedCctrlDtos.cpp`) are copies without a state; `api_time.cpp`
reads the ticks of the last indications; enumerations, properties, `LocalResolv`, `nlsPropertyProvider`, json and
`what` are conversions and I/O; the HTTP adapter and the pages are formatting, except
where a page changes state, which is then an action of that state's module; the
stubs are generated from `CControl.x`; `driver/` is a skeleton whose functions are empty. `TA_main.cpp` is
an example and appears as the `"demo"` TA of `RunMode`.

Of the program's lines, the larger part is not its own logic: `json.hpp`, the stubs and headers
rpcgen writes for two platforms, and the headers of the TA's interface make up more than 20000 lines without a behaviour to model. Of the rest, the files
with state are modelled, their formatting, logging and pages excepted.
