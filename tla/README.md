# A TLA+ verification of Century Ring

Century Ring is a Python binding to Linux `io_uring`: a Rust object that owns
the ring and the memory the kernel works on, a Python class in front of it, and
an asynchronous sidecar that turns completions into wake-ups of tasks. This
directory specifies it in TLA+, model-checks small instances with TLC and proves
the central safety properties with TLAPS. `PROJECT.json` lists the runs, the
correspondence of every definition with source lines, the hazards, the findings
and the theorems.

All paths below are relative to the repository (`src/` in `PROJECT.json`).

## 1. Inventory

| Component | State | Operations | What makes it correct |
|---|---|---|---|
| `TheIoRing` (`src/ring.rs`) | the ring or `None`, the opcode probe, `user_data_counter`, `autosubmit`, `owned_data` | `get_next_user_data`, `autosubmit`, `add_owned_*`, `submit`, `wait`, `wait_with_timeout`, `get_completion_entries`, `register_eventfd`, `close`, dropping it | memory the kernel may touch is owned until the completion is reaped, and freed then; user data identify operations; waits return when they should |
| Submission functions (`src/files.rs`, `network.rs`, `shared.rs`) | none; they borrow the ring | nine `_RUSTFFI_ioring_prep_*` | arguments are validated before anything is pushed; ownership moves after the push and before the frame ends |
| `IoUring`, `make_io_ring` (`pysrc/century_ring/ring.py`) | the Rust object | one method per operation; the context manager closes the ring | a fresh user data value per operation; a closed handle is refused |
| Flags (`src/flags.rs`, `helpers.py`) | none | `make_uring_flags`, `raise_for_cqe` | links and `SKIP_SUCCESS` mean what the docstring says |
| Configuration (`create_io_ring`) | none | argument and kernel version checks | only sensible rings are created |
| `FdHandle` (`handle.py`) | `fd`, `_close_called` | `from_completion_event`, `close`, `__exit__`, `mark_closed`, `close_called` | a descriptor is closed once, by its own handle |
| Open flags (`enums.py`) | none | `enum_flags_to_int_flags` | any combination of flags opens a path as their comments say |
| `UringIoManager` (`aio/manager.py`) | `efd`, `_completion_waiters` | `_dispatch_event_results`, `wait_for_completion` | every waiter gets its completion |
| Sidecar (`aio/sidecar.py`, `aio/trio.py`) | task group, instrument | start, `before_io_wait`, shutdown | submissions are made before the loop sleeps; shutdown leaves nothing behind |
| Module registration and stubs (`src/lib.rs`, `_century_ring.pyi`) | none | none | not modelled: glue without state |

**How they interact.** A Python method draws a user data value, unwraps the
handle and calls one Rust submission function with `&mut TheIoRing`. That
function checks the probe and the flags, copies its argument into memory of its
own, pushes an entry that points at the copy (submitting the queue first if it
is full and `autosubmit` is on) and moves the copy into `owned_data`. The kernel
takes entries when a call enters it, or at any time with SQPOLL, and runs them
concurrently with everything. `get_completion_entries` drains the completion
queue and removes each completed operation's memory from `owned_data`. The
sidecar's dispatcher reads an eventfd the kernel signals, reaps, and passes each
event to the task that waits for it.

**What is hard.** The kernel is a concurrent actor that holds raw pointers.
Completions overflow, chains of linked operations are cut and cancelled,
`SKIP_SUCCESS` suppresses completions, `io_uring_enter` fails, is interrupted or
does half its work, the SQPOLL thread takes entries at any moment, timers outlive
the wait they were made for, and the ring is closed while operations run. Unit
tests meet almost none of these orders.

## 2. Modules

| Module | Content |
|---|---|
| `TheIoRing` | the ring, the submission functions, the Python wrapper and the kernel; properties; faulty variants of definitions |
| `TheIoRing_proofs` | types, memory safety and exactly-once, proved |
| `RingSteps_proofs` | the kinds of steps the ring takes; buffers, timeouts and leaks, proved |
| `RingOrder_proofs` | autosubmit, timespecs, the order in chains and what a wait returns with, proved |
| `RingRefinement_proofs` | the ring implements its contract, proved |
| `UringIoManager_proofs`, `FdHandle_proofs`, `Arguments_proofs` | the safety properties of the sidecar, the handles and the conversions, proved |
| `RingContract` | abstract specification: what the ring promises its client, without queues or a kernel |
| `RingRefinement` | the mapping under which `TheIoRing` implements `RingContract` |
| `UringIoManager` | the sidecar: tasks, dispatcher, trio's hook, start and end; composed with `TheIoRing`, whose actions the tasks call |
| `FdHandle` | handles and the descriptor table, composed with `TheIoRing` |
| `Arguments` | the pure conversions: open flags, submission flags, ring sizes and kernel versions |
| `MCTheIoRing`, `MCUringIoManager`, `MCFdHandle`, `MCArguments` | values of constants for TLC |

`UringIoManager` and `FdHandle` extend `TheIoRing` and call its actions
(`submit`, `ioring_prep_close`, `get_completion_entries`, ...), so everything the
kernel may do there happens here too: overflow, failing calls, severed chains.

### State of the ring

`ring`, `user_data_counter` and `owned_data` are the fields of `TheIoRing`
(`the_io_uring` being `Some` or `None`, plus "dropped" once the object is freed);
`sq` and the first `visible` elements of `cqes` are the shared queues, the rest
of `cqes` is the kernel's overflow list; `inflight` are the entries the kernel
has taken; `poller` is the SQPOLL thread; `eventfd` the registered counter,
reduced to zero or not; `call` the wait that is blocked in the kernel, with the
number of completions it found unreaped (`unread`, history). `pushed`,
`open_link`, `events` and `ret` are history: how many pushes there were, the
linked entry the client expects the next one to follow, everything ever
returned by `get_completion_entries`, and how the last call ended.

### Atomicity of the ring

Every Rust method takes `&mut self` and PyO3 refuses a second borrow, so calls do
not overlap and one call is one action. `wait` and `wait_with_timeout` release
the GIL but keep the borrow: they begin in one action, which does everything up
to the blocking `io_uring_enter`, and end in `WaitReturn`, also when the kernel
took only part of the queue and does not wait (`call.cut`); only the kernel moves
in between. `get_completion_entries` loops until the queue is empty; completions
that arrive during the loop are indistinguishable from ones that arrive just
before or just after it, so reaping is one step.

### Abstraction

- A `u64` user data value is a number below `2 * MaxUserData`; `MaxUserData`
  stands for `2^63`, so "bit 63" is the upper half. The counter stops there.
- Memory is its kind and its length. Bytes, paths, addresses, descriptors and
  file offsets are not kept.
- In `TheIoRing` a handle passed in is open or closed, an address parses or not,
  by choice; `FdHandle` has real handles.
- `check_write_buffer` is modelled with its three tests; `prep_write` and
  `prep_send` are called with every size and offset up to one past the buffer.
- Flags are the link kind and `SKIP_SUCCESS`. `io_async`, `io_drain`,
  `fixed_file` and `buffer_select` only affect when an operation starts and which
  result it has, and the model allows every order and result.
- The result of an operation is -1 (any error), or 0, or a byte count up to one
  more than the buffer's length: a `recv` with `MSG_TRUNC` reports the length of
  the datagram, and `get_completion_entries` then extends the buffer with zeros.
  Entries do not carry their opcode, so the model allows it of every operation
  with a buffer.
- A descriptor passed to `register_eventfd` is one of an eventfd or not, by
  choice.

### The kernel and the io-uring crate (external)

Modelled from how `ring.rs` uses them:

- rings are created with `submit_all`, so a submit takes everything that is
  queued unless the kernel runs out of memory (`"short"`); `"enter_error"` is a
  call that fails before it takes anything (`EBUSY`, `EAGAIN`), `"signal"` an
  interrupted wait;
- links hold inside one batch; a failure, or perhaps a short transfer, of an
  entry with a soft link cancels what follows; a hard link cancels nothing; if
  the entry that failed had `SKIP_SUCCESS`, what it cancels is cancelled without
  a completion. The kernel cancels a chain at once; here each entry hands its
  fate to the next, which allows the same completions and more interleavings;
- a completion that finds the queue full, or older overflowed ones, waits in the
  overflow, which is flushed by the next system call (`NODROP`, asserted at
  `ring.rs:308`);
- with SQPOLL, `Submitter::submit` makes a system call only if the poller has
  gone to sleep or something is waited for, and a submit itself consumes
  nothing;
- a `Timeout` copies its timespec when the entry is taken, reports `-ETIME` when
  it expires (an error, so `SKIP_SUCCESS` does not hide it), and the expiry of
  *any* timer ends a blocked wait;
- closing the ring does not wait for what runs.

### The contract

`RingContract` knows five things: whether the ring is open, the next user data
value, the operations that may still be answered, the memory each holds, and the
answers given. A call is refused (and may use up a value) or accepted; an answer
goes to a live operation, once, carries its memory resized to the result and
releases it; an operation may vanish without an answer only if it holds no memory.
`RingRefinement` maps the operations in the queues, the kernel and the overflow to
the live ones. Batches, links, overflow, timers and faults are invisible to the
client except as answers that come in some order.

### The manager

Code between two awaits is one action; the kernel moves between any two. A task
prepares an operation and calls `wait_for_completion` without yielding
("prepared"), which submits if it must, enters the dictionary ("registered"),
yields once inside AnyIO's `receive` and then waits on a stream without a buffer
("listening"), until the dispatcher hands it the event ("resumed"). It may be
cancelled at both awaits. The dispatcher is at a place in its loop body: waiting
for the eventfd, about to read it, about to drain the queue. The loop may run any
task that can run: trio shuffles its batches, and on asyncio a dispatcher already
scheduled overtakes a task that yields. The sidecar starts (or fails after it has
installed the instrument), runs, leaves, and stops once the dispatcher is back at
its await. A hook that raises is disabled by trio.

The ring is always the default one, with autosubmit and without SQPOLL:
`start_uring_sidecar` passes none of its arguments on to `make_io_ring`
(`aio/sidecar.py:48`), although its docstring says it takes the same ones.

The client is assumed to wait for each operation once, before it yields, and not
to use the sidecar after leaving it.

### Handles

A file, and the handle made of its completion, are named by the operation that
opened the file; `table` is the process's descriptor table, where the lowest free
number is given out. The kernel executes an accepted close whenever it likes;
cancelled ones not at all. `read` stands for the five methods that unwrap a
handle and push. The client uses one thread and one handle per file, in any
order.

### Conversions

`Arguments` holds the arguments of one call; only `enum_flags_to_int_flags` takes
steps, because it iterates over a set. What the kernel makes of the result
(`openat(2)` and `io_uring_setup(2)`) is external; a queue has a power of two of
slots, at most 65536, and `MaxEntries` is any of them the kernel might have as
its bound (it is 32768 today). The kernel version comes from procfs, or is taken
to be 5.18 where procfs cannot be read; `io_uring_setup` itself refuses
`IORING_SETUP_SUBMIT_ALL` before 5.18, so an older kernel is refused either way.

`Opened` says what a descriptor refers to after `openat(2)` with a set of bits: a
file just created, the file, directory or link that was there, an unnamed file,
or nothing. It assumes the permissions the flags need and a filesystem with
direct I/O and unnamed files; `Kept` is what the kernel leaves of the bits when
`O_PATH` is among them. `Documented` is not a second `openat`: it is one claim or
more for the comment of each of the ten flags of `FileOpenFlag`. Where comments
contradict each other it claims nothing, and the kernel's rule applies:

- `CREATE_IF_NOT_EXISTS` and `MUST_CREATE` promise to create an absent path; with
  `MUST_BE_DIRECTORY` or `PATH` the open fails (before Linux 6.4 the first of the
  two makes a file), and with `TEMPORARY_FILE` the path has to be a directory,
  in which an unnamed file is created;
- `CREATE_IF_NOT_EXISTS` "will do nothing" if the *file* exists: claimed of files
  and of links to them; an existing directory is refused;
- `APPEND`, `DIRECT`, `NO_ACCESS_TIME` and `TRUNCATE` mean nothing with `PATH`.

## 3. Properties

| Property | Says |
|---|---|
| `TypeOK` | types; neither queue exceeds its size |
| `KernelPointersOwned` | whatever a queued or running operation points at is in `owned_data`, and is the memory made for it |
| `OwnedIsReapable` | no leak: whatever is owned belongs to an operation that will be reaped |
| `OnePlace` | an operation is queued, running, completed or reaped, once |
| `EventBuffers` | an event carries its operation's own buffer, resized to the bytes reported |
| `IgnoredAreTimeouts` | `should_be_ignored` is true of exactly the ring's timeouts |
| `TimespecLive` | a queued timeout's timespec is on a live stack frame |
| `AutosubmitAbsorbsFull` | with `autosubmit` no call fails because the queue is full |
| `LinkedRunsAfter` | an operation runs after the one it was linked to has finished |
| `WaitHonoursCount` | `submit_and_wait(count)` returns normally only with `count` completions to reap, or a full queue; what was unreaped before the call counts, and of what arrives during it only the client's own |
| `TimedWaitReturns` | a timed wait returns |
| `EveryOperationReaped` | a submitted operation is reaped unless the ring is closed |
| `ImplementsContract` | every behaviour of the ring is one `RingContract` allows |
| `NoLostWakeup` | while there is something to reap, the eventfd is set or the dispatcher has yet to drain |
| `WaiterUnanswered` | the dictionary has waiters only of operations that are still to be reaped |
| `HookedRingIsOpen` | after a successful start the hook never meets a closed ring |
| `ListeningIsServed` | a listening task gets its event, is cancelled, or the sidecar ends; with two exceptions it names: trio's hook was disabled by an error, or on asyncio completions overflowed and nobody submits |
| `NobodyWaitsInVain` | whoever waits is in the dictionary |
| `OpenFileStays` | a file stays at its descriptor until its own handle is closed |
| `QueuedCloseIsOwn` | a close in the ring names a descriptor that still is the file it was prepared for |
| `ClosedIsAccountedFor` | a handle marked closed whose file is open has a close in the ring, or one reported as failed |
| `ClosedNotUsed` | no operation is submitted with a closed handle |
| `OpensAsDocumented` | every set of open flags does to an absent path, a file, a directory or a link what the comment of each flag says, as far as the comments agree |
| `FlagsArrive` | the prep functions read back the submission flags the client asked for |
| `SetupHonoured` | sizes within the kernel's bounds give a ring that has them, on 5.18 and later; older kernels are refused, also when procfs does not tell their version |

`ManagerTypeOK` is the manager's type invariant.

## 4. Runs

Passing runs:

| Run | Instance | Shows |
|---|---|---|
| `ring_core` | 2 slots, completion queue of 1, autosubmit, all nine submissions (one opcode unsupported), 3 operations; failing, short and interrupted `io_uring_enter` | every refusal and error path of submission; memory safety, no leak, exactly-once, buffers; the contract |
| `ring_links` | 3 slots, no autosubmit, 4 operations, soft and hard links, `SKIP_SUCCESS` with no link or a hard one | order in chains; severed and cancelled chains keep the contract |
| `ring_timeouts` | timed waits, links, signals, close; nothing but timers is fair | the timespec is never read after its frame; timeouts are recognised; a timed wait returns |
| `ring_sqpoll` | SQPOLL, eventfd, timed waits, failing calls, completion queue of 1, close, fair | the contract with a concurrent consumer; nothing is stranded behind a sleeping poller or in the overflow |
| `manager` | 2 tasks, 2 operations, both event loops, queues of 1 slot, failing submits and starts, cancellation, fair | no lost wake-up, no forgotten waiter, orderly end, listening tasks are served |
| `handles` | 4 operations, 2 descriptors, soft links, a queue that gets full | descriptors are closed once and not leaked silently |
| `arguments` | all 1024 sets of open flags in all orders, both modes, four kinds of paths; all 128 of submission flags; sizes -1 to 9 with a kernel bound of 4, six kernel versions, readable or not | the conversions |

**Bounds.** Three or four operations on queues of one to three slots reach every
case: a full submission queue with something to push, an overflowed completion
queue, a chain of two links with an outsider, a refused call between two accepted
ones, a timer older than the current wait. A property over one or two operations
gains nothing from more of them. Two tasks with queues of one slot suffice for
the manager: one completion overflows while the other is visible, one task
registers while the dispatcher is about to run for the other, and a cancelled
task's entry is still there when the task waits again (an instance with three
operations, 1.2 million states, passes as well). Four operations
on two descriptors make a number come back while a close of its former owner is
queued, cancelled or refused. `MaxUserData` bounds the operations;
`MaxPushes` bounds timed waits, which draw no user data. Deadlock is not checked:
a client that has used its operations, or has dropped the ring, may stop, and so
may one in a wait for completions that nothing will produce.

**Faults.** Each property of each passing run is violated when one definition is
replaced by a faulty variant (`add_owned_Forgotten`, `Room_OffByOne`,
`MayRetry_Never`, ...), defined just above the original.

**Runs that find a disagreement** between the code and what its documentation or
comments say (quoted under `findings` in `PROJECT.json`):

| Run | What TLC finds |
|---|---|
| `linked_autosubmit` | an automatic submit in the middle of a chain cuts it, and the linked operation runs too early |
| `sqpoll_timespec` | with SQPOLL a timed wait that returns at once leaves its timeout queued, with a timespec on a dead frame (without SQPOLL, `Faults = {"enter_error"}` gives the same: the last system call fails) |
| `stale_timer` | a timed wait is ended by its read's completion, which the client reaps; the timer it left behind expires in the next `submit_and_wait(1)`, which returns with nothing of the client's |
| `manager_lost` | the dispatcher runs after a task has registered and before it listens; the event is thrown away and the task never wakes |
| `closed_dirfd` | `prep_openat` passes on the descriptor of a closed `relative_to` handle |

**Limits of the passing runs.** Each of these restrictions has an instance
behind it that TLC refutes:

- `DropBusy` is off: the object lives until the kernel is done, which the comment
  on `close` ("Don't do this when things are still processing") asks of the
  caller. Turned on, `KernelPointersOwned` fails: dropping the object frees
  memory under running operations.
- No soft link on a `SKIP_SUCCESS` entry (`LinkSkipFlags` in `MCTheIoRing` adds
  it): what is cancelled behind such an entry gets no completion, its memory is
  never freed, and `OwnedIsReapable` and `ImplementsContract` fail. `handles`
  passes no `SKIP_SUCCESS` at all; a socket created with it has a descriptor
  nobody learns of.
- `AutosubmitAbsorbsFull` is checked without SQPOLL: with it the submit of
  `autosubmit` may take nothing, and the one retry finds the queue still full,
  whatever `docs/source/uring_concepts.rst:66` says.
- `TimespecLive` is checked without SQPOLL and without failing calls.
- `WaitHonoursCount` is checked by `stale_timer` only, without signals and short
  submissions: either makes `submit_and_wait` return early, as the kernel
  documents.
- `HookedRingIsOpen` and `ListeningIsServed` name their exceptions, listed as
  hazards.

**Fairness.** `TimerSpec` assumes only that timers expire and that a wait that
has what it waits for returns, signal or not: both are promises of the kernel.
`FairSpec` adds that the kernel finishes every operation it has taken (weak
fairness per operation; a read from a pipe nobody writes to is outside it), that
the poller polls and goes to sleep, and that the client keeps calling `submit`
and `get_completion_entries`. The client may be blocked in a wait infinitely
often, so these two are strongly fair; this is the loop
`docs/source/uring_concepts.rst` prescribes. A submit may fail any number of
times, but not always (`EAGAIN` and `EBUSY` pass): strong fairness is on a submit
that succeeds. `ManagerFairSpec` assumes that the kernel finishes operations, and
of the event loop that it runs every task that can run, polls the eventfd, and
calls trio's hook before it sleeps once something has run (`spun`); tasks promise
nothing about preparing, cancelling or leaving.

## 5. Proofs

Every safety property a passing run checks, action properties and the refinement
included, is also a theorem: it holds for every value of the constants (any
number of operations, slots, tasks, files and descriptors, any flags, calls and
faults) that meets the named `ASSUME`s of the modules, which TLC evaluates in
every run, and the hypotheses below.

| Theorem | Property | Hypotheses |
|---|---|---|
| `TypeCorrect` | `TypeOK` | |
| `PointersOwned` | `KernelPointersOwned` | `~DropBusy` |
| `EachInOnePlace` | `OnePlace` | `~DropBusy` |
| `BuffersReturned` | `EventBuffers` | `~DropBusy` |
| `IgnoredExactly` | `IgnoredAreTimeouts` | `~DropBusy` |
| `NothingLeaks` | `OwnedIsReapable` | `~DropBusy`, `NoSilentChains` |
| `Implementation` | `ImplementsContract` | `~DropBusy`, `NoSilentChains` |
| `AutosubmitMakesRoom` | `AutosubmitAbsorbsFull` | `~SqPoll` |
| `TimespecOutlived` | `TimespecLive` | `WholeQueue`, no `"enter_error"` |
| `LinkedInOrder` | `LinkedRunsAfter` | `WholeQueue`, `~Autosubmit` |
| `WaitCounts` | `WaitHonoursCount` | `Untimed`, no `"signal"`, no `"short"` |
| `ManagerTypes` | `ManagerTypeOK` | |
| `WakeupsKept` | `NoLostWakeup` | |
| `WaitersPending` | `WaiterUnanswered` | |
| `HookMeetsOpenRing` | `HookedRingIsOpen` | |
| `FilesStay` | `OpenFileStays` | `~DropBusy` |
| `QueuedClosesAreOwn` | `QueuedCloseIsOwn` | `~DropBusy` |
| `ClosedAccountedFor` | `ClosedIsAccountedFor` | `~DropBusy`, `NoSilentChains` |
| `OnlyOpenUsed` | `ClosedNotUsed` | `~DropBusy`, no `prep_openat` |
| `OpensRight` | `OpensAsDocumented` | |
| `FlagsSurvive` | `FlagsArrive` | |
| `SetupWorks` | `SetupHonoured` | |

**Hypotheses.** Each is a condition on how the ring is used or on what the kernel
does, and a passing run that checks the property satisfies it (`WaitHonoursCount`
and `ClosedNotUsed` are checked by violation runs only). Most have an instance
behind them that TLC refutes when they are dropped (section 4):

- `~DropBusy`: the object is not dropped while operations run. `HandleSpec` has no
  drop, so for handles it excludes nothing; it is there because the ring's
  lemmas are cited.
- `NoSilentChains`: no flags with both a soft link and `SKIP_SUCCESS`.
- `WholeQueue`: no SQPOLL, and the kernel does not run out of memory in the middle
  of a batch, so a call takes all that is queued. Without it a chain can be cut
  between two batches, and a timeout can stay behind in the queue (the run
  `sqpoll_timespec`).
- `~Autosubmit` for links and no `"enter_error"` for timespecs: the runs
  `linked_autosubmit` and (with that fault) `sqpoll_timespec` show what goes
  wrong otherwise.
- `Untimed`, no `"signal"`, no `"short"`: the client uses no timed waits, no
  signal interrupts the wait, and the kernel does not run out of memory in the
  middle of the queue. `stale_timer` is the counterexample with a timed wait, so
  the theorem confines that finding to them; a signal makes the call return
  early and say so only if it had submitted nothing, and a submission cut short
  makes it return at once.
- no `prep_openat`: the theorem confines the finding of `closed_dirfd` to that
  method; every other one refuses a closed handle.

### Arguments

*Memory safety.* `KernelPointersOwned` is not inductive: reaping a completion
removes the memory under its user data value, so one must know no pending
operation has that value, and a push overwrites whatever is stored under the
value just drawn. The inductive invariant `IInv` is the conjunction of `Placed`
(every client operation that is queued, running, completed or reaped has a value
the counter has passed; the places are disjoint and hold it once), `Owns` (each
pending operation's memory is owned under its value) and `ClosedIsEmpty` (a closed
ring has empty queues). The nine submission methods are reduced to one
`PrepStep` (the call is refused, or an entry with the value just drawn goes
through `autosubmit`).

*Kinds of steps.* `StepKinds` shows that every step of the ring is `Quiet`,
`Moving`, `Pushing`, `Reaping`, `Closing`, `Drop` or `Finishing(e)`, stated in
terms of which operations are pending and not of where they are. `Carried` is
the fact all entering calls share: the kernel takes a prefix of the queue, and
the same entries are pending. The later proofs go by these kinds.

*Buffers and timeouts.* `HInv`: `owned_data` holds, under the value of every pending
or completed operation, exactly the memory its entry describes, nothing under
values not yet drawn, and entries are marked as timeouts exactly when they have
the timeouts' value. `EventBuffers` follows when a completion is reaped, because
`IInv` says no two completions share a value (`Removed` never finds it gone).

*Leaks.* `LInv`: an operation with memory asks for its completion and is never
cancelled silently, so whatever is owned belongs to something pending or
completed. `NoSilentChains` is what keeps the fate "mute" out.

*Refinement.* Under `IInv`, `HInv` and `LInv`, a step of kind `Pushing` is the
contract's acceptance, `Reaping` its answers, `Closing` its close, and the rest
are refusals, operations without memory that vanish, or stuttering.

*Autosubmit.* Without a poller a call on a non-empty queue takes something, so
the retry finds room; that is a fact about one step, with `TypeOK`.

*Timespecs.* `NoQueuedTimeout`: when calls take the whole queue, the timeout is the
only entry of its batch and is gone when the call blocks.

*Links.* `KInv`: submission numbers grow along the queue and are larger there than
in the kernel; an entry meant to follow another stands right behind it; so both
go in one batch, where the kernel ties them (`prev` is `after`), or the first
has finished before the second was pushed.

*Waits.* `NoTimer`: with no timed waits nothing pending is a timeout, every
completion is a client's and the blocked call has seen no timer; without short
submissions it has not been cut either. So `WaitReturn` needs its count of visible
completions, and none of them is ignored.

*Manager.* A step of the manager is one of the ring or leaves the ring alone, so
the ring's types carry over. `MInv` says: before the start the ring is untouched;
while the sidecar runs the ring is open and has an eventfd; the hook is installed
only while it runs, or after a start that failed; no task is between preparing
and waiting when the dispatcher drains; a task that has prepared an operation has
not been answered; and `NoLostWakeup` and `WaiterUnanswered` themselves. The hard
case is the drain, which must remove every waiter whose operation it reaps.

*Handles.* `HandleSpecIsSpec`: handles in front of the ring change nothing the ring
does, so `IInv` and `LInv` hold. The ring is then seen only as the operations it
still has (`InRing`) and the results it has reported (`Done`). `FInv`: what is in
the ring has not been executed; a handle exists only of an opener that reported
success and got a descriptor; a file at a descriptor was given that descriptor;
a close in the ring is the only one of its handle, which is marked closed, and
its file is still there. The last part is what excludes a close that hits a
number given out again. TLC checked `FInv` on the instance of `handles` before it
was proved. `Accounted` adds, for `ClosedIsAccountedFor`, where the close is.

*Conversions.* `LoopInv`: the bits collected are those of the flags taken so far,
so the order does not matter, and `BitsOf` says which flags set which bit.
`OpenedPath`, `OpenedTemporary` and `OpenedPlain` compute what is opened from the
flags, and `BitsDocumented` compares it with the comments. `SevenBits` reads a sum of seven powers of two back bit by bit.
`RoundedUp` and `QueueSizes` bound what `io_uring_setup` rounds to.

### Only model-checked

- `TimedWaitReturns`, `EveryOperationReaped`, `ListeningIsServed`: liveness under
  fairness is out of this prover's reach.
- The violation runs, which are counterexamples.

## 6. Not modelled

- Threads: a call made while another one is blocked raises PyO3's "already
  borrowed" and changes nothing; `single_issuer` is not modelled.
- The kernel's refusal of malformed entries in the middle of a chain; an entry it
  rejects is one that completes with an error.
- `io_drain`'s ordering; fixed files and provided buffers, for which the wrapper
  has no registration call.
- 32-bit truncation of buffer lengths: sizes are far below the width.
- Integers instead of handles, two handles on one descriptor, and a descriptor
  looked up by a running read or write: the code checks none of them.
- Several waiters for one operation, and tasks that yield between preparing and
  waiting: the interface does not support them (hazards list what happens).
- The eventfd itself, which the sidecar never closes.
- `src/lib.rs`, the stubs and `__init__.py`: glue without state.

## 7. Plan

1. *(done)* `TheIoRing`, its runs, memory safety and exactly-once proved.
2. *(done)* `RingContract` and the refinement, model-checked.
3. *(done)* `UringIoManager` with the sidecar; `FdHandle` with descriptor reuse;
   `Arguments`.
4. *(done)* Proofs of all safety properties of the passing runs, of the refinement,
   and of the conditions under which the properties of `stale_timer` and
   `closed_dirfd` hold.
5. `NobodyWaitsInVain`, which `manager_lost` refutes, for the schedules in which
   no dispatch falls between a task's registration and its `receive`.
6. The contract as a tool: facts about any client of `RingContract` (an answer's
   memory is released once), carried to the ring by `Implementation`.
