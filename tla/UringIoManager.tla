--------------------------- MODULE UringIoManager ---------------------------
(***************************************************************************)
(* The asynchronous sidecar (src/pysrc/century_ring/aio): tasks of an      *)
(* event loop prepare operations and await their completions, a dispatcher *)
(* task listens on the ring's eventfd and hands completions to them, and   *)
(* start_uring_sidecar sets all of this up and takes it down.  Composed    *)
(* with TheIoRing, whose actions the tasks call.                           *)
(*                                                                         *)
(* The event loop (trio or asyncio) and AnyIO's memory object streams are  *)
(* external.  Code between two awaits is one action.  Any task that can    *)
(* run may run next: trio reverses its batches at random, and on asyncio a *)
(* dispatcher that is already scheduled overtakes a task that yields.      *)
(***************************************************************************)
EXTENDS TheIoRing

CONSTANTS
  Tasks,     \* the tasks that use the sidecar
  NoTask,    \* an absent key of _completion_waiters
  Libs       \* the event loops: "trio", "asyncio"

ASSUME TasksAssumption == NoTask \notin Tasks
ASSUME LibsAssumption == Libs \subseteq {"trio", "asyncio"}

VARIABLES
  lib,           \* sniffio.current_async_library()
  force,         \* _force_submissions
  sidecar,       \* "new", "running", "leaving", "stopped", "failed"
  instrument,    \* UringSidecarInstrument: "none", "installed", "disabled"
  waiters,       \* _completion_waiters
  tasks,         \* where each task is, and the operation it is about
  dispatcher,    \* its place in LoopBody; 0: awaiting the eventfd, or not there
  spun           \* a task has run since the loop last looked for I/O

ringVars == vars
manager == <<lib, force, sidecar, instrument, waiters, tasks, dispatcher, spun>>
allVars == <<ringVars, manager>>

Keys == 0 .. (MaxUserData - 1)

\* "prepared": an operation is in the ring; "registered": the waiter is in the
\* dictionary and receive() is in its initial checkpoint; "listening": in the
\* stream's waiting_receivers; "resumed": the item is there.
TaskState == [pc : {"idle", "prepared", "registered", "listening", "resumed"},
              ud : Keys]

ManagerInit ==
  /\ Init
  /\ lib \in Libs
  /\ force \in BOOLEAN
  /\ sidecar = "new"
  /\ instrument = "none"
  /\ waiters = [u \in Keys |-> NoTask]
  /\ tasks = [t \in Tasks |-> [pc |-> "idle", ud |-> 0]]
  /\ dispatcher = 0
  /\ spun = FALSE

-----------------------------------------------------------------------------
(***************************************************************************)
(* start_uring_sidecar.                                                    *)
(***************************************************************************)

\* asyncio has no hook before it waits for I/O, so every wait submits.
start_uring_sidecar ==
  /\ sidecar = "new"
  /\ instrument' = IF lib = "trio" THEN "installed" ELSE "none"
  /\ force' = (force \/ lib = "asyncio")
  /\ \/ /\ IoUring_register_eventfd /\ ret' = "ok"
        /\ sidecar' = "running"
     \/ /\ "eventfd_error" \in Faults   \* either call fails, before the try
        /\ make_io_ring_exit
        /\ sidecar' = "failed"
  /\ UNCHANGED <<lib, waiters, tasks, dispatcher, spun>>

\* A task that has prepared an operation waits for it before it yields, and
\* the dispatcher only yields in wait_readable.
NobodyMidTurn ==
  dispatcher <= 1 /\ \A t \in Tasks : tasks[t].pc # "prepared"

\* Fault: the instrument stays installed.
remove_instrument_Forgotten == instrument
\* On trio; an instrument that trio has disabled is not there any more, and
\* the KeyError ends the sidecar all the same.
remove_instrument == IF lib = "trio" THEN "none" ELSE instrument

\* The body ends: the finally cancels the group.
Leave ==
  /\ sidecar = "running" /\ NobodyMidTurn
  /\ sidecar' = "leaving"
  /\ instrument' = remove_instrument
  /\ UNCHANGED <<ringVars, lib, force, waiters, tasks, dispatcher, spun>>

\* The dispatcher dies in wait_readable, and with it gone make_io_ring closes
\* the ring.
Stop ==
  /\ sidecar = "leaving" /\ dispatcher = 0
  /\ make_io_ring_exit
  /\ sidecar' = "stopped"
  /\ UNCHANGED <<lib, force, instrument, waiters, tasks, dispatcher, spun>>

\* Fault: the hook does nothing.
before_io_wait_Nothing == UNCHANGED <<ringVars, instrument>>
\* The hook of the trio instrument; trio disables an instrument that raises.
before_io_wait ==
  /\ submit /\ UNCHANGED user_data_counter
  /\ instrument' = IF ret' = "ok" THEN "installed" ELSE "disabled"

BeforeIoWait ==
  /\ instrument = "installed" /\ NobodyMidTurn
  /\ before_io_wait
  /\ spun' = FALSE
  /\ UNCHANGED <<lib, force, sidecar, waiters, tasks, dispatcher>>

-----------------------------------------------------------------------------
(***************************************************************************)
(* The tasks.                                                              *)
(***************************************************************************)
Move(t, pc, u) == tasks' = [tasks EXCEPT ![t] = [pc |-> pc, ud |-> u]]
Ran == spun' = (instrument = "installed")

\* openat stands for every operation that is waited for.  A prep_* that is
\* refused raises in the task.
Prepare(t) ==
  /\ sidecar = "running" /\ NobodyMidTurn
  /\ tasks[t].pc = "idle"
  /\ prep_openat
  /\ IF pushed' > pushed THEN Move(t, "prepared", user_data_counter)
     ELSE UNCHANGED tasks
  /\ Ran
  /\ UNCHANGED <<lib, force, sidecar, instrument, waiters, dispatcher>>

wait_for_completion(t) ==
  LET u == tasks[t].ud IN
  /\ tasks[t].pc = "prepared"
  /\ \/ /\ force
        /\ submit /\ UNCHANGED user_data_counter
     \/ /\ ~force
        /\ UNCHANGED ringVars
  /\ IF force /\ ret' # "ok"
     THEN Move(t, "idle", u) /\ UNCHANGED waiters
     ELSE Move(t, "registered", u) /\ waiters' = [waiters EXCEPT ![u] = t]
  /\ Ran
  /\ UNCHANGED <<lib, force, sidecar, instrument, dispatcher>>

Step(t, from, to) ==
  /\ tasks[t].pc = from /\ NobodyMidTurn
  /\ Move(t, to, tasks[t].ud)
  /\ Ran
  /\ UNCHANGED <<ringVars, lib, force, sidecar, instrument, waiters, dispatcher>>

\* The stream is empty after the checkpoint, the task starts to listen.
receive(t) == Step(t, "registered", "listening")
\* It returns the event, or raise_for_cqe raises.
Resume(t) == Step(t, "resumed", "idle")
\* "This function *is* cancellable, but it will cause the completion event to
\* be sent into the void": the receiving end is closed, the waiter stays.
Cancel(t) == Step(t, "registered", "idle") \/ Step(t, "listening", "idle")

-----------------------------------------------------------------------------
(***************************************************************************)
(* _dispatch_event_results.                                                *)
(***************************************************************************)

\* Fault: the queue is drained before the eventfd is reset.
LoopBody_Swapped == <<"drain", "read">>
\* What the loop does once the eventfd is readable.
LoopBody == <<"read", "drain">>

At(step) == dispatcher > 0 /\ LoopBody[dispatcher] = step
\* Fault: the loop does not go back to wait_readable.
Advance_Past == dispatcher' = dispatcher + 1
Advance == dispatcher' = (dispatcher + 1) % (Len(LoopBody) + 1)
\* The first step needs the loop to schedule the dispatcher.
Scheduled == dispatcher = 1 => NobodyMidTurn

WaitReadable ==
  /\ dispatcher = 0 /\ NobodyMidTurn
  /\ eventfd = "set"
  /\ Advance
  /\ UNCHANGED <<ringVars, lib, force, sidecar, instrument, waiters, tasks, spun>>

Read ==
  /\ At("read") /\ Scheduled
  /\ ReadEventfd
  /\ Advance
  /\ UNCHANGED <<lib, force, sidecar, instrument, waiters, tasks, spun>>

\* The client's operations among the reaped entries.
Reaped == {u \in Keys : \E i \in 1 .. visible :
                          cqes[i].ud = u /\ ~should_be_ignored(u)}

\* Fault: the waiter is looked up and left in the dictionary.
Popped_Nothing(reaped) == waiters
\* _completion_waiters.pop
Popped(reaped) == [u \in Keys |-> IF u \in reaped THEN NoTask ELSE waiters[u]]

\* send_nowait finds a receiver, for there is no buffer; any other event is
\* discarded: WouldBlock, BrokenResourceError, or no waiter at all.
Sent(t, reaped) ==
  /\ tasks[t].pc = "listening"
  /\ tasks[t].ud \in reaped
  /\ waiters[tasks[t].ud] = t

Dispatch ==
  /\ At("drain") /\ Scheduled
  /\ IoUring_get_completion_entries
  /\ waiters' = Popped(Reaped)
  /\ tasks' = [t \in Tasks |-> IF Sent(t, Reaped)
                               THEN [tasks[t] EXCEPT !.pc = "resumed"]
                               ELSE tasks[t]]
  /\ Advance
  /\ Ran
  /\ UNCHANGED <<lib, force, sidecar, instrument>>

-----------------------------------------------------------------------------
Task(t) ==
  Prepare(t) \/ wait_for_completion(t) \/ receive(t) \/ Resume(t) \/ Cancel(t)

ManagerNext ==
  \/ start_uring_sidecar \/ Leave \/ Stop \/ BeforeIoWait
  \/ \E t \in Tasks : Task(t)
  \/ WaitReadable \/ Read \/ Dispatch
  \/ (\E e \in inflight : Kernel(e)) /\ UNCHANGED manager

ManagerSpec == ManagerInit /\ [][ManagerNext]_allVars

-----------------------------------------------------------------------------
\* The state of the manager has its types.
ManagerTypeOK ==
  /\ lib \in Libs /\ force \in BOOLEAN /\ spun \in BOOLEAN
  /\ sidecar \in {"new", "running", "leaving", "stopped", "failed"}
  /\ instrument \in {"none", "installed", "disabled"}
  /\ waiters \in [Keys -> Tasks \cup {NoTask}]
  /\ tasks \in [Tasks -> TaskState]
  /\ dispatcher \in 0 .. Len(LoopBody)

\* No lost wake-up: while completions can be reaped, the eventfd is set or
\* the dispatcher has yet to drain the queue, whenever the kernel posts them
\* (os.read comes before get_completion_entries).
NoLostWakeup ==
  sidecar \in {"running", "leaving"} /\ visible > 0
    => eventfd = "set" \/ At("drain")

\* The dictionary only has waiters of operations that are still to be reaped:
\* entries of cancelled tasks do not stay, and a task that waits before it
\* yields is never too late.
WaiterUnanswered ==
  \A u \in Keys : waiters[u] # NoTask => \A ev \in events : ev.ud # u

\* Once a sidecar has started, the hook never meets a closed ring.
HookedRingIsOpen ==
  instrument = "installed" /\ sidecar # "failed" => ring = "open"

\* Whoever waits has a waiter in the dictionary.  When an event is thrown
\* away, "nobody's listening anyway".
NobodyWaitsInVain ==
  \A t \in Tasks : tasks[t].pc \in {"registered", "listening"}
                     => waiters[tasks[t].ud] = t

-----------------------------------------------------------------------------
\* The loop runs every task that can run and calls the hook before it sleeps;
\* the kernel finishes every operation.
ManagerFairSpec ==
  /\ ManagerSpec
  /\ \A t \in Tasks : /\ WF_allVars(wait_for_completion(t))
                      /\ WF_allVars(receive(t))
                      /\ WF_allVars(Resume(t))
  /\ WF_allVars(spun /\ BeforeIoWait)
  /\ WF_allVars(WaitReadable) /\ WF_allVars(Read) /\ WF_allVars(Dispatch)
  /\ \A s \in 1 .. MaxUserData :
       WF_allVars((\E e \in inflight : e.seq = s /\ Kernel(e))
                    /\ UNCHANGED manager)

Listening(t) == tasks[t].pc = "listening" /\ waiters[tasks[t].ud] = t

\* A listening task is served, though its completion may have overflowed,
\* unless it is cancelled or the sidecar ends; or trio has disabled the hook
\* after a failed system call; or, on asyncio, completions are in the overflow
\* and nobody submits.
ListeningIsServed ==
  \A t \in Tasks :
    Listening(t) ~> \/ ~Listening(t)
                    \/ sidecar # "running"
                    \/ instrument = "disabled"
                    \/ lib = "asyncio" /\ Len(cqes) > visible
=============================================================================
