----------------------- MODULE UringIoManager_proofs -----------------------
(***************************************************************************)
(* Proofs about the sidecar: for any number of tasks, queue sizes and      *)
(* kernel behaviour no wake-up is lost, the dictionary of waiters holds no *)
(* answered operation, and the trio hook meets an open ring.               *)
(***************************************************************************)
EXTENDS UringIoManager, RingSteps_proofs

USE SizesAssumption, TasksAssumption

(***************************************************************************)
(* What the actions of the sidecar do to the ring.  submit is called       *)
(* without the client's guard, by the hook and by wait_for_completion.     *)
(***************************************************************************)
Working ==
  \/ prep_openat
  \/ submit /\ UNCHANGED user_data_counter
  \/ \E e \in inflight : Kernel(e)
  \/ UNCHANGED ringVars

RingPart ==
  \/ Working
  \/ IoUring_get_completion_entries \/ IoUring_register_eventfd
  \/ make_io_ring_exit \/ ReadEventfd

\* Every step of the sidecar is a call of the ring, a step of the kernel, or
\* leaves the ring alone.
LEMMA RingParts ==
  ASSUME [ManagerNext]_allVars
  PROVE  RingPart
<1>1. CASE start_uring_sidecar \/ Leave \/ Stop \/ BeforeIoWait
  BY <1>1 DEF start_uring_sidecar, Leave, Stop, BeforeIoWait, before_io_wait,
              RingPart, Working
<1>2. CASE \E t \in Tasks : Task(t)
  BY <1>2 DEF Task, Prepare, wait_for_completion, receive, Resume, Cancel,
              Step, RingPart, Working
<1>3. CASE WaitReadable \/ Read \/ Dispatch
  BY <1>3 DEF WaitReadable, Read, Dispatch, RingPart, Working
<1>4. CASE \E e \in inflight : Kernel(e)
  BY <1>4 DEF RingPart, Working
<1>5. CASE UNCHANGED allVars
  BY <1>5 DEF allVars, RingPart, Working
<1> QED  BY <1>1, <1>2, <1>3, <1>4, <1>5 DEF ManagerNext

\* The invariants of the ring hold in the sidecar, which never drops it.
LEMMA RingKept ==
  ASSUME TypeOK, IInv, RingPart
  PROVE  TypeOK' /\ IInv'
<1>1. CASE submit /\ UNCHANGED user_data_counter
  BY <1>1, submitType, InvSubmit
<1>2. CASE prep_openat
  BY <1>2, PrepsArePrepSteps, PrepType, InvPrep
<1>3. CASE \E e \in inflight : Kernel(e)
  BY <1>3, KernelType, InvKernel
<1>4. CASE UNCHANGED ringVars
  <2>1. UNCHANGED vars
    BY <1>4 DEF ringVars
  <2>2. IInv'
    BY <2>1, InvStutter DEF vars, queues
  <2> QED  BY <2>1, <2>2, TypeStep
<1>5. CASE IoUring_get_completion_entries
  BY <1>5, get_completion_entriesType, InvReap
     DEF IoUring_get_completion_entries
<1>6. CASE IoUring_register_eventfd \/ ReadEventfd
  <2>1. UNCHANGED <<ring, sq, inflight, cqes, events, user_data_counter,
                    owned_data>>
    BY <1>6 DEF IoUring_register_eventfd, register_eventfd, Refuse, queues,
                ReadEventfd
  <2>2. IInv'
    BY <2>1, InvStutter
  <2>3. Next
    BY <1>6 DEF Next
  <2> QED  BY <2>2, <2>3, TypeStep
<1>7. CASE make_io_ring_exit
  <2>1. Next
    BY <1>7 DEF Next
  <2> QED  BY <1>7, <2>1, TypeStep, InvClose
<1> QED
  BY <1>1, <1>2, <1>3, <1>4, <1>5, <1>6, <1>7 DEF RingPart, Working

(***************************************************************************)
(* Whoever makes completions visible sets the eventfd.                     *)
(***************************************************************************)
Wake ==
  /\ UNCHANGED <<ring, events>>
  /\ visible' > visible /\ eventfd # "none" => eventfd' = "set"
  /\ visible' <= visible => visible' = visible /\ UNCHANGED eventfd
  /\ eventfd' = "none" <=> eventfd = "none"

\* So does io_uring_enter when it flushes the overflow.
LEMMA EnterWakes ==
  ASSUME TypeOK, NEW rest, NEW started, Enter(rest, started, 0),
         UNCHANGED <<ring, events>>
  PROVE  Wake
<1>1. /\ visible \in Nat /\ Len(cqes) \in Nat /\ visible <= Len(cqes)
      /\ visible <= CqEntries
  BY DEF TypeOK
<1>2. Flushed(0) \in Nat /\ Flushed(0) >= visible
  BY <1>1 DEF Flushed, Least
<1> QED  BY <1>1, <1>2 DEF Enter, Signalled, Wake

\* And so do the calls the tasks make, and the kernel.
LEMMA WorkingWakes ==
  ASSUME TypeOK, Working
  PROVE  Wake
<1>0. visible \in Nat
  BY DEF TypeOK
<1>1. CASE UNCHANGED <<ring, events, visible, eventfd>>
  BY <1>0, <1>1 DEF Wake
<1>2. CASE \E r : Refuse(r)
  BY <1>1, <1>2 DEF Refuse, queues
<1>3. CASE prep_openat
  <2>1. PrepStep
    BY <1>3, PrepsArePrepSteps
  <2>2. ASSUME NEW e, autosubmit(e)
        PROVE  Wake
    <3>1. CASE UNCHANGED <<visible, eventfd>> /\ Accept(e)
      BY <1>1, <3>1 DEF Accept
    <3>2. ASSUME NEW k \in Consumed(sq),
                 \/ /\ Enter(sq, {}, 0) /\ UNCHANGED <<ring, events>>
                 \/ /\ Enter(Append(Rest(sq, k), e), Batch(sq, k), 0)
                    /\ Accept(e)
          PROVE  Wake
      BY <3>2, EnterWakes DEF Accept
    <3> QED  BY <1>2, <2>2, <3>1, <3>2 DEF autosubmit
  <2> QED  BY <1>2, <2>1, <2>2 DEF PrepStep
<1>4. CASE submit
  BY <1>2, <1>4, EnterWakes DEF submit
<1>5. ASSUME NEW e \in inflight, Kernel(e)
      PROVE  Wake
  <2>1. \E others, posts : Finish(others, posts)
    BY <1>5 DEF Kernel, KernelComplete, KernelCancel
  <2> QED  BY <1>0, <2>1 DEF Finish, Signalled, Wake
<1> QED  BY <1>1, <1>3, <1>4, <1>5 DEF Working, ringVars, vars, queues
-----------------------------------------------------------------------------
(***************************************************************************)
(* Types.                                                                  *)
(***************************************************************************)

\* The loop has two steps.
LEMMA LoopLemma ==
  /\ Len(LoopBody) = 2
  /\ \A d \in 0 .. 2 : (d + 1) % 3 \in 0 .. 2
  /\ (0 + 1) % 3 = 1 /\ (1 + 1) % 3 = 2 /\ (2 + 1) % 3 = 0
  /\ dispatcher \in 0 .. 2 => /\ At("read") <=> dispatcher = 1
                              /\ At("drain") <=> dispatcher = 2
  BY DEF LoopBody, At

\* The actions of tasks keep the types.
LEMMA TaskTypes ==
  ASSUME TypeOK, ManagerTypeOK, NEW t \in Tasks, Task(t)
  PROVE  ManagerTypeOK'
<1>0. /\ tasks \in [Tasks -> TaskState]
      /\ waiters \in [Keys -> Tasks \cup {NoTask}]
  BY DEF ManagerTypeOK
<1>1. \A pc, u : pc \in {"idle", "prepared", "registered", "listening",
                         "resumed"} /\ u \in Keys /\ Move(t, pc, u)
                   => tasks' \in [Tasks -> TaskState]
  BY <1>0 DEF Move, TaskState
<1>2. tasks[t].ud \in Keys
  BY <1>0 DEF TaskState
<1>3. spun' \in BOOLEAN
  BY DEF Task, Prepare, wait_for_completion, receive, Resume, Cancel, Step,
         Ran
<1>4. CASE Prepare(t)
  <2>1. user_data_counter \in Keys
    BY <1>4 DEF Prepare, prep_openat, Prepares, TypeOK, Keys
  <2>2. tasks' \in [Tasks -> TaskState]
    BY <1>0, <1>1, <1>4, <2>1 DEF Prepare
  <2> QED  BY <1>3, <1>4, <2>2 DEF Prepare, ManagerTypeOK
<1>5. CASE wait_for_completion(t)
  <2>1. tasks' \in [Tasks -> TaskState]
    BY <1>1, <1>2, <1>5 DEF wait_for_completion
  <2>2. waiters' \in [Keys -> Tasks \cup {NoTask}]
    BY <1>0, <1>2, <1>5 DEF wait_for_completion
  <2> QED  BY <1>3, <1>5, <2>1, <2>2 DEF wait_for_completion, ManagerTypeOK
<1>6. CASE receive(t) \/ Resume(t) \/ Cancel(t)
  <2>1. tasks' \in [Tasks -> TaskState]
    BY <1>1, <1>2, <1>6 DEF receive, Resume, Cancel, Step
  <2> QED
    BY <1>3, <1>6, <2>1 DEF receive, Resume, Cancel, Step, ManagerTypeOK
<1> QED  BY <1>4, <1>5, <1>6 DEF Task

\* Every step keeps the types of the manager.
LEMMA ManagerTypeStep ==
  ASSUME TypeOK, ManagerTypeOK, [ManagerNext]_allVars
  PROVE  ManagerTypeOK'
<1>0. dispatcher \in 0 .. 2
  BY LoopLemma DEF ManagerTypeOK
<1>1. Advance => dispatcher' \in 0 .. Len(LoopBody)
  BY <1>0, LoopLemma DEF Advance
<1>2. CASE start_uring_sidecar
  BY <1>2 DEF start_uring_sidecar, ManagerTypeOK
<1>3. CASE Leave \/ Stop
  BY <1>3 DEF Leave, Stop, remove_instrument, ManagerTypeOK
<1>4. CASE BeforeIoWait
  BY <1>4 DEF BeforeIoWait, before_io_wait, ManagerTypeOK
<1>5. CASE \E t \in Tasks : Task(t)
  BY <1>5, TaskTypes
<1>6. CASE WaitReadable \/ Read
  BY <1>1, <1>6 DEF WaitReadable, Read, ManagerTypeOK
<1>7. CASE Dispatch
  <2>1. tasks' \in [Tasks -> TaskState]
    BY <1>7 DEF Dispatch, ManagerTypeOK, TaskState
  <2>2. waiters' \in [Keys -> Tasks \cup {NoTask}]
    BY <1>7 DEF Dispatch, ManagerTypeOK, Popped
  <2>3. spun' \in BOOLEAN
    BY <1>7 DEF Dispatch, Ran
  <2> QED  BY <1>1, <1>7, <2>1, <2>2, <2>3 DEF Dispatch, ManagerTypeOK
<1>8. CASE UNCHANGED manager
  BY <1>8 DEF manager, ManagerTypeOK
<1> QED
  BY <1>2, <1>3, <1>4, <1>5, <1>6, <1>7, <1>8 DEF ManagerNext, allVars
-----------------------------------------------------------------------------
(***************************************************************************)
(* The invariant.  Before the sidecar starts there is nothing to wait for; *)
(* while it runs the ring is open and has an eventfd; and nobody is        *)
(* between a prep_* and its wait while the dispatcher drains the queue.    *)
(***************************************************************************)
Untouched ==
  sidecar = "new" =>
    /\ ring = "open" /\ eventfd = "none" /\ inflight = {} /\ visible = 0
    /\ instrument = "none" /\ dispatcher = 0
    /\ \A t \in Tasks : tasks[t].pc = "idle"

Running == sidecar \in {"running", "leaving"} =>
             ring = "open" /\ eventfd # "none"

Hooked == instrument = "installed" =>
            sidecar \in {"running", "failed"} /\ lib = "trio"

DrainsAlone == dispatcher = 2 => \A t \in Tasks : tasks[t].pc # "prepared"

PreparedUnanswered ==
  \A t \in Tasks : tasks[t].pc = "prepared" =>
    \A ev \in events : ev.ud # tasks[t].ud

MInv == Untouched /\ Running /\ Hooked /\ DrainsAlone /\ PreparedUnanswered
          /\ NoLostWakeup /\ WaiterUnanswered

\* Starting: the ring is new, and gets an eventfd.
LEMMA StartKeeps ==
  ASSUME MInv, start_uring_sidecar
  PROVE  MInv'
<1>1. /\ ring = "open" /\ eventfd = "none" /\ inflight = {} /\ visible = 0
      /\ instrument = "none" /\ dispatcher = 0
      /\ \A t \in Tasks : tasks[t].pc = "idle"
  BY DEF MInv, Untouched, start_uring_sidecar
<1>2. CASE IoUring_register_eventfd /\ ret' = "ok" /\ sidecar' = "running"
  <2>1. ring' = "open" /\ eventfd' = "clear" /\ UNCHANGED <<visible, events>>
    BY <1>1, <1>2 DEF IoUring_register_eventfd, register_eventfd, Refuse,
                      Return
  <2> QED
    BY <1>1, <1>2, <2>1
       DEF start_uring_sidecar, MInv, Untouched, Running, Hooked, DrainsAlone,
           PreparedUnanswered, NoLostWakeup, WaiterUnanswered
<1>3. CASE make_io_ring_exit /\ sidecar' = "failed"
  BY <1>1, <1>3
     DEF start_uring_sidecar, MInv, Untouched, Running, Hooked, DrainsAlone,
         PreparedUnanswered, NoLostWakeup, WaiterUnanswered,
         make_io_ring_exit, close
<1> QED  BY <1>2, <1>3 DEF start_uring_sidecar

\* Leaving and stopping.
LEMMA LeaveKeeps ==
  ASSUME TypeOK, ManagerTypeOK, MInv, Leave \/ Stop
  PROVE  MInv'
<1>1. CASE Leave
  BY <1>1, LoopLemma
     DEF Leave, remove_instrument, ringVars, vars, queues, MInv, Untouched,
         Running, Hooked, DrainsAlone, PreparedUnanswered, NoLostWakeup,
         WaiterUnanswered, At
<1>2. CASE Stop
  BY <1>2
     DEF Stop, make_io_ring_exit, close, MInv, Untouched, Running, Hooked,
         DrainsAlone, PreparedUnanswered, NoLostWakeup, WaiterUnanswered
<1> QED  BY <1>1, <1>2

\* The calls of tasks and the kernel, as far as wake-ups go.
LEMMA WakeKeeps ==
  ASSUME TypeOK, TypeOK', MInv, Wake, UNCHANGED <<sidecar, dispatcher>>
  PROVE  Running' /\ NoLostWakeup'
<1>1. visible \in Nat /\ visible' \in Nat
  BY DEF TypeOK
<1>2. Running'
  BY DEF MInv, Running, Wake
<1>3. NoLostWakeup'
  <2> SUFFICES ASSUME sidecar \in {"running", "leaving"}, visible' > 0,
                      ~At("drain")
               PROVE  eventfd' = "set"
    BY DEF NoLostWakeup, At
  <2>1. eventfd # "none"
    BY DEF MInv, Running
  <2>2. CASE visible' > visible
    BY <2>1, <2>2 DEF Wake
  <2>3. CASE visible' <= visible
    <3>1. visible' = visible /\ eventfd' = eventfd
      BY <2>3 DEF Wake
    <3> QED  BY <3>1 DEF MInv, NoLostWakeup
  <2> QED  BY <1>1, <2>2, <2>3
<1> QED  BY <1>2, <1>3

\* A task takes a step, or the hook or the kernel runs.  Only a task between
\* its prep_* and its wait enters the dictionary.
LEMMA TaskKeeps ==
  ASSUME TypeOK, TypeOK', IInv, ManagerTypeOK, MInv, NEW t \in Tasks, Task(t)
  PROVE  MInv'
<1>0. /\ tasks \in [Tasks -> TaskState]
      /\ waiters \in [Keys -> Tasks \cup {NoTask}]
      /\ UNCHANGED <<lib, sidecar, instrument, dispatcher>>
  BY DEF ManagerTypeOK, Task, Prepare, wait_for_completion, receive, Resume,
         Cancel, Step
<1>1. Working
  BY DEF Task, Prepare, wait_for_completion, receive, Resume, Cancel, Step,
         Working
<1>2. Wake
  BY <1>1, WorkingWakes
<1>3. Running' /\ NoLostWakeup'
  BY <1>0, <1>2, WakeKeeps
<1>4. Hooked'
  BY <1>0 DEF MInv, Hooked
<1>5. events' = events
  BY <1>2 DEF Wake
<1>6. sidecar # "new"
  BY DEF Task, Prepare, wait_for_completion, receive, Resume, Cancel, Step,
         MInv, Untouched
<1>7. Untouched'
  BY <1>0, <1>6 DEF Untouched
<1>8. CASE Prepare(t)
  <2> DEFINE u == user_data_counter
  <2>1. dispatcher \in 0 .. 2 /\ dispatcher <= 1
    BY <1>8, LoopLemma DEF ManagerTypeOK, Prepare, NobodyMidTurn
  <2>2. DrainsAlone'
    BY <1>0, <2>1 DEF DrainsAlone
  <2>3. u \in 0 .. MaxUserData /\ u < MaxUserData
    BY <1>8 DEF TypeOK, Prepare, prep_openat, Prepares
  <2>4. IsUser(u)
    BY <2>3 DEF IsUser, TimeoutUserData
  <2>5. \A ev \in events : ev.ud # u
    BY <2>3, <2>4 DEF IInv, Placed, Numbered, Drawn
  <2>6. PreparedUnanswered'
    <3>1. \A s \in Tasks : tasks'[s] = tasks[s] \/ tasks'[s].ud = u
      BY <1>0, <1>8 DEF Prepare, Move
    <3> QED  BY <1>5, <2>5, <3>1 DEF PreparedUnanswered, MInv
  <2>7. WaiterUnanswered'
    BY <1>5, <1>8 DEF Prepare, WaiterUnanswered, MInv
  <2> QED  BY <1>3, <1>4, <1>7, <2>2, <2>6, <2>7 DEF MInv
<1>9. CASE wait_for_completion(t)
  <2> DEFINE u == tasks[t].ud
  <2>1. \A s \in Tasks : tasks'[s] = tasks[s] \/ tasks'[s].pc # "prepared"
    BY <1>0, <1>9 DEF wait_for_completion, Move
  <2>2. DrainsAlone' /\ PreparedUnanswered'
    BY <1>0, <1>5, <2>1 DEF DrainsAlone, PreparedUnanswered, MInv
  <2>3. \A ev \in events : ev.ud # u
    BY <1>9 DEF wait_for_completion, MInv, PreparedUnanswered
  <2>4. \A v \in Keys : waiters'[v] = waiters[v] \/ v = u
    BY <1>0, <1>9 DEF wait_for_completion
  <2>5. WaiterUnanswered'
    BY <1>5, <2>3, <2>4 DEF WaiterUnanswered, MInv
  <2> QED  BY <1>3, <1>4, <1>7, <2>2, <2>5 DEF MInv
<1>10. CASE receive(t) \/ Resume(t) \/ Cancel(t)
  <2>1. \A s \in Tasks : tasks'[s] = tasks[s] \/ tasks'[s].pc # "prepared"
    BY <1>0, <1>10 DEF receive, Resume, Cancel, Step, Move
  <2>2. DrainsAlone' /\ PreparedUnanswered'
    BY <1>0, <1>5, <2>1 DEF DrainsAlone, PreparedUnanswered, MInv
  <2>3. WaiterUnanswered'
    BY <1>5, <1>10 DEF receive, Resume, Cancel, Step, WaiterUnanswered, MInv
  <2> QED  BY <1>3, <1>4, <1>7, <2>2, <2>3 DEF MInv
<1> QED  BY <1>8, <1>9, <1>10 DEF Task

\* The hook and the kernel.
LEMMA LoopKeeps ==
  ASSUME TypeOK, TypeOK', MInv,
         \/ BeforeIoWait
         \/ (\E e \in inflight : Kernel(e)) /\ UNCHANGED manager
         \/ UNCHANGED allVars
  PROVE  MInv'
<1>1. Working
  BY DEF BeforeIoWait, before_io_wait, Working, allVars
<1>2. Wake /\ UNCHANGED events
  BY <1>1, WorkingWakes DEF Wake
<1>3. UNCHANGED <<lib, sidecar, waiters, tasks, dispatcher>>
  BY DEF BeforeIoWait, manager, allVars
<1>4. Running' /\ NoLostWakeup'
  BY <1>2, <1>3, WakeKeeps
<1>5. Hooked'
  BY <1>3 DEF BeforeIoWait, manager, allVars, MInv, Hooked
<1>6. Untouched'
  <2>1. CASE sidecar # "new"
    BY <1>3, <2>1 DEF Untouched
  <2>2. CASE sidecar = "new"
    <3>1. inflight = {} /\ instrument = "none"
      BY <2>2 DEF MInv, Untouched
    <3>2. UNCHANGED allVars
      BY <3>1 DEF BeforeIoWait
    <3> QED
      BY <3>2 DEF allVars, ringVars, vars, queues, manager, MInv, Untouched
  <2> QED  BY <2>1, <2>2
<1> QED
  BY <1>2, <1>3, <1>4, <1>5, <1>6
     DEF MInv, DrainsAlone, PreparedUnanswered, WaiterUnanswered

\* The dispatcher.  It resets the eventfd before it drains the queue, so what
\* is posted in between sets it again or is drained.
LEMMA DispatcherKeeps ==
  ASSUME TypeOK, ManagerTypeOK, MInv, WaitReadable \/ Read \/ Dispatch
  PROVE  MInv'
<1>0. dispatcher \in 0 .. 2
  BY LoopLemma DEF ManagerTypeOK
<1>1. dispatcher' = (dispatcher + 1) % 3
  BY LoopLemma DEF WaitReadable, Read, Dispatch, Advance
<1>2. sidecar # "new" /\ UNCHANGED <<lib, sidecar, instrument>>
  BY <1>0, LoopLemma
     DEF WaitReadable, Read, Dispatch, MInv, Untouched
<1>3. Untouched' /\ Hooked'
  BY <1>2 DEF Untouched, MInv, Hooked
<1>4. CASE WaitReadable
  <2>1. dispatcher' = 1
    BY <1>1, <1>4, LoopLemma DEF WaitReadable
  <2> QED
    BY <1>2, <1>3, <1>4, <2>1
       DEF WaitReadable, ringVars, vars, queues, MInv, Running, DrainsAlone,
           PreparedUnanswered, NoLostWakeup, WaiterUnanswered
<1>5. CASE Read
  <2>1. dispatcher = 1 /\ dispatcher' = 2
    BY <1>0, <1>1, <1>5, LoopLemma DEF Read
  <2>2. LoopBody[2] = "drain"
    BY DEF LoopBody
  <2>3. NoLostWakeup'
    BY <2>1, <2>2 DEF NoLostWakeup, At
  <2>4. DrainsAlone'
    BY <1>5, <2>1 DEF Read, Scheduled, NobodyMidTurn, DrainsAlone
  <2>5. UNCHANGED <<ring, events, waiters, tasks>> /\ eventfd' = "clear"
    BY <1>5 DEF Read, ReadEventfd
  <2> QED
    BY <1>2, <1>3, <2>3, <2>4, <2>5
       DEF MInv, Running, PreparedUnanswered, WaiterUnanswered
<1>6. CASE Dispatch
  <2>1. dispatcher = 2 /\ dispatcher' = 0
    BY <1>0, <1>1, <1>6, LoopLemma DEF Dispatch
  <2>2. \A s \in Tasks : tasks[s].pc # "prepared"
    BY <2>1 DEF MInv, DrainsAlone
  <2>3. \A s \in Tasks : tasks'[s].pc # "prepared"
    BY <1>6, <2>2 DEF Dispatch, ManagerTypeOK, TaskState
  <2>4. DrainsAlone' /\ PreparedUnanswered'
    BY <2>3 DEF DrainsAlone, PreparedUnanswered
  <2>5. get_completion_entries
    BY <1>6 DEF Dispatch, IoUring_get_completion_entries
  <2>6. UNCHANGED <<ring, eventfd>>
    BY <2>5 DEF get_completion_entries, Refuse, queues
  <2>7. ring = "open" => visible' = 0
    BY <2>5 DEF get_completion_entries
  <2>8. Running' /\ NoLostWakeup'
    BY <1>2, <2>6, <2>7 DEF MInv, Running, NoLostWakeup
  <2>9. WaiterUnanswered'
    <3> SUFFICES ASSUME NEW u \in Keys, waiters'[u] # NoTask,
                        NEW ev \in events'
                 PROVE  ev.ud # u
      BY DEF WaiterUnanswered
    <3>1. u \notin Reaped /\ waiters[u] # NoTask
      BY <1>6 DEF Dispatch, Popped
    <3>2. CASE ev \in events
      BY <3>1, <3>2 DEF MInv, WaiterUnanswered
    <3>3. ASSUME NEW i \in 1 .. visible, ev = Event(i)
          PROVE  ev.ud # u
      <4>1. ev.ud = cqes[i].ud
        BY <3>3 DEF Event
      <4>2. ~should_be_ignored(u)
        BY BitLemma DEF Keys
      <4> QED  BY <3>1, <4>1, <4>2 DEF Reaped
    <3>4. events' = events \/ events' = events \cup {Event(i) : i \in 1 .. visible}
      BY <2>5 DEF get_completion_entries, Refuse
    <3> QED  BY <3>2, <3>3, <3>4
  <2> QED  BY <1>3, <2>4, <2>8, <2>9 DEF MInv
<1> QED  BY <1>4, <1>5, <1>6

\* The types and the invariant hold in every reachable state of the sidecar.
LEMMA ManagerInvariance ==
  ManagerSpec => [](TypeOK /\ IInv /\ ManagerTypeOK /\ MInv)
<1> DEFINE Inv == TypeOK /\ IInv /\ ManagerTypeOK /\ MInv
<1>1. ASSUME ManagerInit
      PROVE  Inv
  <2>1. Init
    BY <1>1 DEF ManagerInit
  <2>2. TypeOK /\ IInv
    <3>1. NoData \in OwnedData /\ NoCall \in Call
      BY DEF NoData, OwnedData, NoCall, Call
    <3>2. QueuesOK
      BY <2>1 DEF Init, QueuesOK
    <3>3. RestOK
      BY <2>1, <3>1 DEF Init, RestOK, Results
    <3>4. IInv
      BY <2>1 DEF Init, IInv, Placed, Numbered, DistinctPending, DistinctDone,
                  Absent, DistinctReaped, Owns, ClosedIsEmpty
    <3> QED  BY <3>2, <3>3, <3>4, TypeParts
  <2>3. ManagerTypeOK
    <3>1. 0 \in Keys
      BY DEF Keys
    <3>2. [pc |-> "idle", ud |-> 0] \in TaskState
      BY <3>1 DEF TaskState
    <3>3. tasks \in [Tasks -> TaskState]
      BY <1>1, <3>2 DEF ManagerInit
    <3>4. waiters \in [Keys -> Tasks \cup {NoTask}]
      BY <1>1 DEF ManagerInit
    <3>5. dispatcher \in 0 .. Len(LoopBody)
      BY <1>1, LoopLemma DEF ManagerInit
    <3>6. spun \in BOOLEAN /\ force \in BOOLEAN /\ lib \in Libs
      BY <1>1 DEF ManagerInit
    <3> QED
      BY <1>1, <3>3, <3>4, <3>5, <3>6 DEF ManagerInit, ManagerTypeOK
  <2>4. MInv
    BY <1>1, <2>1 DEF ManagerInit, Init, MInv, Untouched, Running, Hooked,
                      DrainsAlone, PreparedUnanswered, NoLostWakeup,
                      WaiterUnanswered
  <2> QED  BY <2>2, <2>3, <2>4
<1>2. ASSUME Inv, [ManagerNext]_allVars
      PROVE  Inv'
  <2>1. TypeOK' /\ IInv'
    BY <1>2, RingParts, RingKept
  <2>2. ManagerTypeOK'
    BY <1>2, ManagerTypeStep
  <2>3. MInv'
    BY <1>2, <2>1, StartKeeps, LeaveKeeps, TaskKeeps, LoopKeeps,
       DispatcherKeeps DEF ManagerNext
  <2> QED  BY <2>1, <2>2, <2>3
<1> QED  BY <1>1, <1>2, PTL DEF ManagerSpec

\* The state of the manager has its types: a task is always at one of its
\* awaits, and the dispatcher at one of the steps of its loop.
THEOREM ManagerTypes == ManagerSpec => []ManagerTypeOK
  BY ManagerInvariance, PTL

\* No wake-up is lost: while completions can be reaped, the eventfd is set or
\* the dispatcher is about to drain the queue.
THEOREM WakeupsKept == ManagerSpec => []NoLostWakeup
<1>1. MInv => NoLostWakeup
  BY DEF MInv
<1> QED  BY <1>1, ManagerInvariance, PTL

\* The dictionary holds no waiter of an operation that has been answered.
THEOREM WaitersPending == ManagerSpec => []WaiterUnanswered
<1>1. MInv => WaiterUnanswered
  BY DEF MInv
<1> QED  BY <1>1, ManagerInvariance, PTL

\* The trio hook of a sidecar that has started meets an open ring.
THEOREM HookMeetsOpenRing == ManagerSpec => []HookedRingIsOpen
<1>1. MInv => HookedRingIsOpen
  BY DEF MInv, Running, Hooked, HookedRingIsOpen
<1> QED  BY <1>1, ManagerInvariance, PTL
=============================================================================
