# EmberLite: formal models

TLA+ models of EmberLite: the thread pool and its priority queue, the HAL (timers,
UART, and the other eleven kinds of device), the node registry, the state machine,
the network helpers and the digests. TLC checks them on small instances; the proofs
in the modules `*Proofs.tla` hold for every value of the constants.

Run a configuration with `tlc -config MCPPool.cfg MCPPool` (and so on), the proofs
with `tlapm PPoolProofs.tla` (and so on). `PROJECT.json` lists the runs, the source lines behind
every definition, the hazards and the theorems.

## 1. Inventory

| Component | State | Operations | Hard part |
|---|---|---|---|
| thread pool `components/ppool/src/ppool.c` | pool, mutex, condition, detached threads, global `ppool_errno`, global `PPOOL_LOCK` | `ppool_init`, `ppool_add`, worker loop, `ppool_destroy` | lost wake-ups, exactly-once execution, cleanup after a failed start, teardown under running workers |
| task queue `components/ppool/src/ppool_queue.c` | linked list, stored length | init, new, add, get_task, cleanup, destroy | order among equals, length against list, ownership of nodes |
| HAL timers `platform/hal/src/hal_system.c` | timerfd, thread, stop flag, config | create, start, stop, destroy, get_fd | stop and destroy against the thread at every point of its loop |
| HAL UART `platform/hal/src/hal_uart.c` | descriptor, config, saved settings, mutex | open, close, read, write, flush, set_baudrate, get_fd | descriptor used after the lock, partial writes, poll then blocking read, close under other calls |
| other HAL devices (I2C, GPIO, SPI, CAN, input, PWM, ADC, 1-Wire, I2S, USB, watchdog) `platform/hal/src/hal_*.c` | descriptor, library object or sysfs path; mutex; sometimes a cached value | open, close, transfers | partial failure of opens; state that outlives a handle (exported lines, detached drivers, an armed watchdog); calls made of several unlocked accesses; poll then read; xrun recovery |
| node registry `core/runtime/src/node_registry.c` | caller's array, capacity, count | init, clear, register, unregister, find, at, update_state, heartbeat | compaction under kept pointers, capacity edge |
| state machine `core/runtime/src/fsm.c` | table, current state | init, reset, dispatch | actions that dispatch again |
| netdev `components/netdev/src/netdev.c` | name servers of eth0 and eth1 | get and set MAC, address, mask, gateway, DNS, all of them, link status | descriptors on error paths, the order of settings that reset each other, flags read and written back |
| crypto `components/crypto/src/*.c` | contexts, lazily built CRC tables | init, update, final | padding at block boundaries, table set-up by two threads |
| logging, common, HAL status codes | level only | formatting, tables | none |
| example applications `apps/examples` | line buffer | echo and terminal loops | partial writes ignored by the callers |

How they interact: applications call the HAL and the components; a pool task is
code of the application and may call `ppool_add`; a timer callback runs on the
timer's own thread and may call start and stop. The components share no state with
each other except through the application. The executor, messaging and launch
layers of `docs/architecture.md` have no source in the repository.

What makes each modelled component correct:

- pool: mutual exclusion on the queue, no lost wake-up, each accepted task runs
  exactly once and in priority order, a failed `ppool_init` leaves nothing behind;
- queue: length equals list, each node has one owner, insertion is stable;
- timer: a stopped timer calls back at most once more, a started one fires, destroy
  returns;
- UART: a write reports exactly what it sent, `h->cfg` describes the line, close
  restores it, timeouts are honoured, packets stay whole;
- devices: a failed open gives everything back and leaves a device that can be opened
  again; closing one handle does not harm another; a call that nobody disturbs does
  what it says; a call with a timeout returns;
- registry: a compact array that behaves as a map with a capacity;
- state machine: only states the table leads to, and the outermost dispatch decides;
- netdev: everything acquired is released; what was set is in force when the call
  returns, and the status says whether it was;
- digests and CRCs: the result does not depend on how the message was cut, and is
  the one the standard defines.

## 2. Modules

| Module | Models | Used by |
|---|---|---|
| `TaskQueue` | the queue as a sequence: insertion position, insertion, removal (pure operators) | `PPool`, `PPoolQueue` |
| `PriorityDispatch` | abstract specification: accept, hand out in order, execute once | refined by `PPool` |
| `PPool` | `ppool_init`, worker loop, `ppool_add`, all threads | `MCPPool`, `PPoolProofs` |
| `PPoolProofs`, `PPoolQueueProofs`, `HalTimerProofs`, `HalUartProofs`, `HalDeviceProofs`, `NetdevProofs` | inductive invariant and theorems of the module they are named after | |
| `RuntimeProofs`, `CryptoProofs` | the same for `NodeRegistry` and `Fsm`, and for `Digest` and `Crc` | |
| `PPoolQueue` | the linked list pointer by pointer | `MCLibraries` |
| `HalTimer` | timer API, timer thread, timerfd (external) | `MCHalTimer` |
| `HalUart` | UART API called by several threads, tty (external) | `MCHalUart` |
| `NodeDirectory` | abstract specification: a map with a capacity, and the answers | refined by `NodeRegistry` |
| `NodeRegistry` | the array and a pointer kept by the caller | `MCLibraries` |
| `PPoolTeardown` | extends `PPool`: `ppool_destroy`, cancellation, `ppool_entry` and `ppool_leave` | its own configuration |
| `HalDevice` | open, close and calls of I2C, GPIO, SPI, CAN, input, PWM, watchdog, USB, I2S, ADC, 1-Wire | `MCHalDevices` |
| `Fsm` | the table-driven machine, with actions that call it again | `MCLibraries` |
| `Netdev` | the network helpers, the kernel's interface and resolv.conf (external) | `MCLibraries` |
| `Digest` | update and final of SHA-256 and MD5 over a symbolic compression function | `MCLibraries` |
| `Crc` | CRC-8, -16, -32 bit by bit, and the tables built by several threads | `MCLibraries` |
| `MCLibraries` | the sum of six modules that share nothing (`PPoolQueue` and the five above): `library` says which one a behaviour is of | |

Definitions whose name begins with `Bug` are mutants: the definition that follows
them with one plausible mistake. Each is used to see that a property would notice
that mistake; no specification refers to them.

### Correspondence with the code

**PPool.** `phase`, `step` and `live` are the progress of `ppool_init`: the six
acquisitions in order, each of which may fail (`InitFail` releases what that error
path releases), then the creation loop, in which `pthread_create` may fail and
workers run before `ppool_init` returns. `wpc[w]` is a worker's place in
`ppool_run`: `lock`, `check` (the `len <= 0` test, lock held), `wait`
(in `pthread_cond_wait`), `woken`, `unlock`, `run`, `running` (inside the task's
entry). A running task is free to call `ppool_add`, so workers have an `apc` too.
`runs[k]` counts how often the k-th accepted task was started and is history, as is
a node's ticket. The pool and the list are linked by `TaskQueue`: `PPool` uses its
operators, and the run `libraries` shows that the pointers implement them.

**PPoolQueue.** One action per function; `NodeAddrs` is the memory `malloc` may return,
addresses are reused after `free`. A taken node keeps its stale link.

**HalTimer.** `owner` is the thread that calls the API, `tpc` the timer thread.
`hal_timer_destroy` is split at every step the thread can observe. The thread's load
of `t->fd`, its `read`, the return of `read` with an expiration (`ThreadReadReturns`, at
`got`) and the call of `t->cb` (`ThreadCallback`) are separate steps, so a stop, a restart
or a destroy may come between any two of them. `due`, `quiet` and `late` are history:
whether a start still waits for its callback, and the callbacks begun since a stop. Times
are whole milliseconds and `Expire` does not say when, only that an armed timer expires.

**HalUart.** `pc[t]` is a thread's place in its call: `lock`, `poll`, `io` (in
`read`, `write` or `tcflush`), `set` and `store` (in `set_baudrate`, mutex held),
`close` and `free`. Read, write and flush take and release the mutex in one step
since nothing happens in between. The descriptor has no `O_NONBLOCK`: `read` waits for
input, and the tty takes the bytes of a `write` as it has room (`w[t]` of them so far)
while `write` waits until it has all of them, whatever `timeout_ms`; only a signal or
a hang-up ends it with a part (`TtyWriteCut`). `poll` waits for its timeout in two parts
(`waited`), and a signal makes it start over with the whole of it (`PollInterrupted`). The rate
the line had before is assumed to be one that `tcsetattr` can set again. The
constant `Quiesced` says whether callers wait for other calls before they close.

**NodeRegistry.** The caller's record is copied whole, with any state and heartbeat
(`NewRecord`). `ptr` is a record pointer the caller got from `find` or `at`;
`valid` is history: cleared by the calls after which the record may have moved.

**PPoolTeardown.** `phase` goes on to `cancel` and `release`; the worker and adder
actions are those of `PPool`. `stray` records the cancellation of an entry of `id[]`
that no `pthread_create` wrote.

**HalDevice.** One state machine for all kinds. An open (`hal_spi_open`, ...) is a
sequence of steps, each with what it acquires or sets and what its error path
releases; a close is the set of what it gives back. `kernel` is what the kernel
remembers without a handle: exported lines, detached drivers. A call is the sequence
of its accesses to the device: `hal_gpio_toggle` is `hal_gpio_read`, the inversion and
`hal_gpio_write`. The actions `GpioAccess`, `I2cAccess`, ... say what each access does;
`Fail` ends a call at any of them. The descriptor is copied under the mutex in the
code; here the copy is part of the first access, because handles are closed only when
none of their calls is going on (`HalUart` shows what happens otherwise). `clean`
is history: nobody else touched the device or used the handle since the call began.
`limit` is the timeout a call was given; `MayBlock` lists the accesses that need not end:
`read()` and `write()` on a CAN socket, a wait without a limit (-1), and a USB transfer
with timeout 0, which libusb takes for unlimited.

**Fsm.** `frames` is the stack of the transitions whose dispatches are inside their
action; `returned` is history.

**Netdev.** A function is the list of its steps, with what the error path of each step
releases; `get_ip_attr` and `set_ip_attr` are lists of functions. The argument is a function
from fields to strings, each of which may be no address (`NetArgs`). `status` is what the
caller gets, which for `set_ip_attr` and `get_ip_attr` is `EMBER_EOK` whatever failed
(`StatusAfter`); `done` is history: the fields that were set or read. `Changed` is what
the kernel does to mask and route when an address is set (external).

**Digest.** The state of a context is the sequence of the blocks compressed into it:
equal digests mean equal blocks. The block has 8 bytes and a length word 7 bits, so
that a message of 40 bytes crosses block boundaries and carries into the second word.

**Crc.** Values are bit sequences. `ordered` says whether other threads see plain
stores in program order; if not, a thread that did not build the table may read zeros.
A table is not stored: an entry is the eight rounds that `build_table` makes for its index,
and `arrived` says whether the reading thread gets it. The reference divides the whole
message, bit by bit and with no table (`Residue`); for "123456789" it gives the published
check values F4, 29B1 and CBF43926. One message byte of the instance is not a palindrome,
so that the order of the bits matters.

## 3. Runs

| Run | Instance | Shows |
|---|---|---|
| `ppool` | 2 worker slots, sizes 0..2, 2 clients, 3 adds, priorities -1..1 | type, no leak, lock, wake-ups, order, accounting, refinement of `PriorityDispatch`, every accepted task starts |
| `hal_timer` | one-shot and periodic, with and without delay, 2 starts | one late callback at most, one-shot timers; started timers with a delay fire; destroying an armed timer returns |
| `hal_timer_destroy` | delay > 0 | **violated**: destroying an unarmed timer never returns |
| `hal_uart` | one reader that flushes, one writer that closes, both set the rate; buffers up to 2 bytes | write accounting, config, restored settings, no leak; when signals end a timed read returns, and on a line that drains a timed write |
| `hal_uart_torn` | 2 writers | **violated**: packets mix |
| `hal_uart_blocked` | 2 readers | **violated**: a timed read blocks for ever |
| `hal_uart_close` | reader and closer | **violated**: mutex and handle are gone when the reader comes to lock |
| `ppool_teardown` | 2 worker slots, 1 client, 2 adds | **violated**: a worker uses the freed queue |
| `hal_devices` | all kinds, 2 threads with one handle or one each | no leak on any path, devices stay usable, no armed watchdog without a handle, undisturbed calls, PCM position, calls whose wait has a limit return |
| `libraries` | task queue: 3 addresses, priorities -1..2; registry: 3 names (symmetric), 3 slots; fsm: 4 states, 2 events, depth 3; netdev: 1 caller and other programs; digest: 40 bytes in pieces up to 20; crc: 2 threads, 2 bytes of {0x00, 0x31, 0xFF} | list and sequence agree, one owner per node; compact, ordered, pointers, refinement of `NodeDirectory`; reachable states, nesting; releases, settings in force; padding; remainders |
| `netdev_attr` | netdev alone | **violated**: `get_ip_attr` reports 0.0.0.0 for what it found |
| `netdev_status` | netdev alone | **violated**: `set_ip_attr` reports `EMBER_EOK` after a failure |

The violated properties state what `docs/hal.md`, a comment or the example of the
component says; the quotes and lines are under "findings" in `PROJECT.json`. In short:
`close()` does not wake a thread blocked in `read()` of the timerfd; the UART's mutex
covers the copy of the descriptor and not the I/O; `poll` followed by a blocking `read`
honours the timeout for a single reader only; `hal_uart_close` does not wait;
`ppool_destroy` neither takes the lock nor waits for the workers; `get_ip_attr` takes
the success code 0 for a failure, and `set_ip_attr` drops the results of what it calls.

Some properties are stated for the cases in which the code has them, and say so:
a timer with `initial_ms` 0 is disarmed, not started; a failed `hal_pwm_set_frequency`
leaves its period in the handle, and the next duty is a percentage of that; a 24-bit PCM
frame has 8 bytes in ALSA but `frame_bytes` says 6; readers that share a CAN handle may
wait in `read()` like those of the UART; a USB transfer with timeout 0, and on the other
devices a wait with timeout -1, has no limit, so nothing is claimed of its end, although
`docs/hal.md:71` says that 0 returns at once; a timed `hal_uart_write` on a line that the
peer has stopped waits in `write()` past its timeout, against the same line of the docs, so
`TimedCallsReturn` supposes that the line drains; closing one of two PWM handles unexports the channel
under the other; three functions of netdev keep what they
acquired on one error path each (`OnlyKnownLeaks` names them); a thread that finds
`crc_table_ready` set by another one is safe only where plain stores are seen in order.
The hazards that these cases leave open are listed with an empty "properties" or a note in
`PROJECT.json`. Two more deviations show in the model without a property: `set_local_dns` writes the
same name server twice, and `set_local_netmask` sets 0.0.0.0 for a string that is no mask.

**Bounds.** Two workers are enough for one to take what another was woken for, three
adds for two equal priorities and a different one in any order. Two threads are
enough for every race on one handle, since each race is between two calls, and a
buffer of two bytes is the shortest that can be written in parts. Three records are
the fewest for which removal from the middle moves something and leaves something in
place, and the same goes for the three nodes of the list. A table with a shadowed transition, a cycle and an unreachable state, and three
nested dispatches, are enough for an action's dispatch to be overwritten. One caller
suffices in netdev because other programs may change everything between its steps.
Three bytes (zero, all ones, a mixed one) in two positions exercise both branches of
every CRC round. Expirations and callbacks are counted up to the first value at which the
property could fail.

**Fairness.** `PPool`: worker and adder steps are weakly fair: threads are
scheduled and tasks return. Adds are bounded, so no fairness of the mutex is
needed. `HalTimer`: the thread, the kernel's expirations and a destroy once begun
are weakly fair; no API call and no signal is owed. `HalUart`: a thread's own steps
are strongly fair, since it may find the mutex taken by another thread time and
again, which holds it for a few system calls only; neither input nor output nor
errors are owed (a peer may stop the output by flow control). What `TimedCallsReturn`
needs of the world is in its text: signals stop interrupting `poll` (`SignalsEnd`), and for a
write the line keeps draining (`LineDrains`). Calls on the UART are
not bounded. `HalDevice`: a thread inside a call is weakly fair, system calls return
with a result or an error and waits end by their timeout, except `read()` and `write()`
on a CAN socket, waits without a limit and USB transfers with timeout 0, to which nothing is
owed. `CallsReturn` is about the calls that none of this concerns. The other modules state no fairness.

## 4. Proofs

The proofs hold for all values of the constants the named assumptions allow. Each proof
module has one inductive invariant, a conjunction of named parts, a lemma for each part or
action, and theorems that follow from the invariant. The invariants that the table does
not list as properties of a run were model-checked on the instances of section 3 before
they were proved.

| Module | Theorems | Assumptions |
|---|---|---|
| `PPoolProofs` | `TypeCorrect`, `InitLeaksNothing`, `LockExcludes`, `WakeupsAreNotLost`, `QueueStaysOrdered`, `TasksAreAccounted`, refinement `PoolImplementsDispatch` | `ConstantsAssumption`: a finite number of worker slots, sizes that fit it, integer priorities, clients distinct from workers; `NullAssumption` |
| `PPoolQueueProofs` | `LengthIsRight`, `NodesHaveOneOwner`, action property `ListActsAsTaskQueue` | `NodeAddrsAssumption`: a finite number of addresses, none of them `NULL`, integer priorities |
| `HalTimerProofs` | `TimerTypeCorrect`, `OneShotBounded`, `LateCallbackBounded` | `TimerAssumption` |
| `HalUartProofs` | `UartTypeCorrect`, `WritesReportPrefix`, `ConfigFollowsLine`, `CloseRestoresLine`, `QuiescedCallsAreSafe` | `UartAssumption`; the last also `Quiesced` |
| `HalDeviceProofs` | `OpensGiveBack`, `DeviceRemainsUsable`, `WatchdogStaysHeld`, `CallsDoTheirWork`, `FramesFollowEachOther` | `DeviceAssumption`; `KindsAssumption`: the kinds are among those with a table |
| `RuntimeProofs` | `RegistryTypeCorrect`, `RegistryStaysCompact`, `PointersDenoteNodes`, action property `OrderNeverChanges`, refinement `RegistryImplementsDirectory` | `RegistryAssumption` |
| `RuntimeProofs` | `ReachableOnly`, `OutermostWins` | `FsmAssumption` |
| `NetdevProofs` | `LeaksAreKnown`, `CallsAreRight` | none beyond the types in the module |
| `CryptoProofs` | `DigestsAreRight` | `DigestAssumption`: a block holds more than the length field, a word of the length wraps after a whole number of blocks (in the code 2^32 bits and blocks of 512) |
| `CryptoProofs` | `CrcsAreRight` | `CrcAssumption`: a byte has eight bits |

**PPool.** None of the safety properties is inductive alone. `LockedByHolder` needs
`CallsFromTasks`: without it a worker could be inside `ppool_add` and hold the lock
as a worker at once. `NoLostWakeup` needs the lock: a worker goes to sleep only with
the lock held and the queue empty, so between an adder's insertion and its broadcast
no worker can start to wait. `Accounted` and `QueueOrdered` need each other's facts
about tickets: a new ticket is larger than all queued ones, so a node inserted behind
its equals is in order. `NoInitLeak` needs `InitProgress` (what is held at each step)
and the workers need `Startup` (no worker before its slot is created). The list
lemmas `InsertPosExists` and `InsertNodeFacts` say that the position `CHOOSE` asks for
exists (by a least counterexample) and what insertion does to each index. For the
refinement, `pending` is the set of queued nodes, `assigned` the nodes held by
a worker that has not called the entry, `executed` the tickets whose entry was called.
`AddInsert`, `WGetTask` and `WRun` map to `Accept`, `Assign` and `Execute`; all other
steps stutter.

**PPoolQueue.** The list is defined by following pointers, so the proof goes through a
sequence: `QueueInvariant` says that there is a sequence of distinct nodes which the pointers
spell from `queue->head` on (`Spells`), with the stored length and without a node of another
owner. `WalkExists` and `WalkUnique` show that following the pointers is then defined and
finds that sequence (by a least counterexample, which is all the induction it takes), and
`ListFits` that it is no longer than there are addresses. `InsertPosOfList` and
`InsertPosOfNodes` show that the loop of `ppool_queue_get_insert_pos` stops where module
`TaskQueue` inserts: both positions satisfy `After`, and only one does. `InsertedSpells` and
`RemovedSpells` say which sequence the pointers spell after the writes of `ppool_queue_add`
and `ppool_queue_get_task`. A new node's link is `NULL` until it is added, which the case of
an empty queue relies on.

**HalTimer.** `DestroyOrder` relates the owner's place in `hal_timer_destroy` to the flag
`t->stop` and to the thread. `OneShotBudget` counts the expirations that can still reach
the callback (armed, expired and not read, or read and in the thread's hand): together
with the callbacks made they never exceed the starts. `LateCallbacks` says that a stopped
timer has nothing to read, and that late callbacks and an expiration in the thread's hand
are never more than one together: a thread which made a late callback has nothing left to
read, or meets `t->stop` before it reads.

**HalUart.** `WriteProgress` carries the prefix through partial writes, `LineSettings`
relates `h->cfg`, the line and the saved settings at each stage of open, of
`set_baudrate` (where the line is ahead of `h->cfg` while the mutex is held, hence
`LockDiscipline`) and of close. `QuiescedCallsAreSafe` is the positive side of the run
`hal_uart_close`: with callers that wait for the other calls no call finds a freed handle or,
having copied it, a closed descriptor.

**HalDevice.** `GivesBack` compares the tables: whatever step fails, its error path covers
all that the steps before it have acquired. `OpenProgress` lifts this to behaviours (a
handle has nothing its open has not come to) and adds that a line stays exported and a
PCM stream has one owner. `GpioStage`, `I2cStage`, `PwmStage`, `SpiStage` and `PcmStages` say
how far an undisturbed call has come by the number of accesses it has left: between
`lseek` and `read` the offset is 0, between the two halves of a register read the device
points to the register, after `load` the duty is that of the cached period. `AccessSites`
says which calls contain an access and where, so that each action is only considered
where it can happen; `Suffix` (the accesses left are the last ones of the call) makes
this inductive. A PCM format changes only in an open, and `StreamIsExclusive` shows that
no transfer is going on then.

**NodeRegistry.** `TypeOK`, `Compact` and `PointerDenotesNode` together are inductive: the
searches have one answer only in a compact array (`FindFacts`), and a pointer's record
keeps its place only because of where a removal moves the others. `RemovedFacts` and
`OriginFacts` say what the shifting loop does to each index. The refinement maps the array
to the function from names to records and the searches to the abstract answers; it needs
that there are `count` names (`NamesCounted`).

**Fsm.** `ReachableClosed` shows that the set defined as the smallest one closed under the table
is closed; waiting dispatches hold transitions of the table (`FsmTypes`).

**Netdev.** Every call is at a step of one of its scripts (`Rest`) and holds only what the
script has acquired and not released before that step (`Acquired`). `ScriptsAreCareful`
shows of each of the sixteen scripts that its release, and the error path of each step
that may fail, covers what is open there, but for the three known leaks.
`CallsAreRight` needs to know how far a call has come: the steps left are the last ones of
its function (`Placed`), and for each effect a stage says what an undisturbed call has
set once it is past the step that has it (`AttrStage`, `DnsStage`, `StatusStage`,
`MacStage`, `ReadStages`). `AttrStage` is the one with an order in it: a new address resets
the mask and drops the route, a new mask drops the route, so what `set_ip_attr` has set, whichever
of its steps failed, is in place at the end only because it sets in this order.
`StepPlaced` says which step is next when one is done, `Effect` what each step may touch.

**Digest.** The invariant gives each context as a function of the bytes it has seen
(`ShaAt`, `Md5At`: the whole blocks, the buffer, the count), so it does not matter in which
pieces they came. The loops of the two update functions are functions over their turns:
`StopFacts` says where each turn stops, `ShaTurn` and `Md5Turn` that it leaves the context
that has seen the message up to there, and the loop agrees at every turn since there is no
least one where it would not (`ShaGather`, `Md5Gather`). `Md5Count` is the carry between the
two words, and `Md5Index` needs the assumption on the word: the fill of the buffer is read
from the low word alone, also after it has wrapped. `RoomFacts` shows that the standard's
padding is the one that `ShaFinal` and `Md5Final` complete, in one block or in two.

**Crc.** `CrcInvariant` says that the register of a thread that reads the entries it should is
the remainder of its message so far (`Register`), and which threads do: who builds the table
is sure of it, and a flag that is set was set after the table was built. The rest is one
fact about a byte more. `Carried`: up to the end of the shorter message the two divisions
differ only in the bits of the new byte, which have not reached the left end, so that
neither subtracts where the other does not; there is no least step where it is otherwise.
What follows are eight zeros of the dividend, and a step with a zero is a round of the
build function (`DivideZero`). `RoundsXor`: bits below the highest eight only shift in eight
rounds, so the rounds can be made on the highest byte alone, which is the table's entry, and
combined with the rest afterwards (`ByteByTable`). CRC-32 is the mirror image of such a CRC
(`ReverseRounds`, `Crc32Update`); in CRC-8 there is no rest (`Crc8Update`). The division is a
function over its steps, and `DivisionExists` shows that there is one.

**Only model-checked.** Liveness (`EveryTaskRuns`, `StartedTimerFires`,
`DestroyOfArmedReturns`, `TimedCallsReturn`, `CallsReturn`), which is out of the prover's
reach. The properties of the violated runs, which do not hold. All other properties of the
runs are theorems.

## 5. Plan

Two pools at once, for the global `PPOOL_LOCK`.

## 6. Not modelled

- Times, sleeping and temperature reading, status code tables, the conversions of ADC
  and 1-Wire readings, logging, common helpers: no state and no interleaving.
- The compression functions of MD5 and SHA-256: fixed arithmetic on a block, best
  compared with test vectors; 64 rounds of 32-bit operations are out of TLC's reach.
- The functions that only read a descriptor (`hal_*_get_fd`, `get_local_ip_by_socket`).
- GPIO input lines, whose level changes from outside (write and toggle refuse them).
- A capture stream that is prepared after an xrun but not started again: with timeout -1
  `hal_i2s_read` may wait for ever; `CallsReturn` is about waits that end.
- Reuse of a closed descriptor's number by another file of the process.
- The builds without ALSA or libusb, whose functions refuse the operations.
- Example programs and build tooling.
- The executor, messaging and launch layers: described in `docs/architecture.md`,
  without source in the repository.
