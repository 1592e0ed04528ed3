----------------------------- MODULE TheIoRing -----------------------------
(***************************************************************************)
(* The io_uring wrapper of Century Ring: the Rust object TheIoRing         *)
(* (src/src/ring.rs), the _RUSTFFI_ioring_prep_* functions that fill its   *)
(* submission queue (files.rs, network.rs, shared.rs), the Python class    *)
(* IoUring in front of them (src/pysrc/century_ring/ring.py), and, as the  *)
(* environment, the io-uring crate and the Linux kernel as that code uses  *)
(* them.                                                                   *)
(*                                                                         *)
(* Every method takes &mut self (or a &mut TheIoRing), so calls never      *)
(* overlap: one API call is one action.  Only wait and wait_with_timeout   *)
(* stay inside the kernel; they begin in one action and return in          *)
(* WaitReturn, and no other call starts in between.  The kernel runs       *)
(* concurrently with everything.                                           *)
(***************************************************************************)
EXTENDS Integers, Sequences, FiniteSets

CONSTANTS
  SqEntries,    \* slots of the submission queue ("entries")
  CqEntries,    \* slots of the completion queue
  Autosubmit,   \* the autosubmit argument of make_io_ring
  SqPoll,       \* sqpoll_idle_ms > 0: a kernel thread consumes the queue
  Supported,    \* the opcodes the kernel's probe reports
  Calls,        \* the IoUring methods the client uses
  FlagSets,     \* the submission flags the client passes
  Sizes,        \* the buffer sizes the client passes
  Wants,        \* the counts the client passes to submit_and_wait
  Faults,       \* what io_uring_enter may do: "enter_error", "short", "signal"
  DropBusy,     \* the client may drop the object while operations run
  MaxUserData,  \* bound on the counter, and the place of 2^63 in a u64
  MaxPushes     \* bound on the submissions after which no timed wait starts

Opcodes == {"openat", "read", "write", "close", "socket", "connect", "send",
            "recv"}
Links == {"none", "soft", "hard"}                \* io_link, io_hardlink
Flags == [link : Links, skip : BOOLEAN]          \* skip: SKIP_SUCCESS

ASSUME SizesAssumption ==
  /\ SqEntries \in Nat \ {0}
  /\ CqEntries \in Nat \ {0}
  /\ MaxUserData \in Nat \ {0}
  /\ MaxPushes \in Nat
ASSUME ModesAssumption ==
  /\ Autosubmit \in BOOLEAN
  /\ SqPoll \in BOOLEAN
  /\ DropBusy \in BOOLEAN
ASSUME ArgumentsAssumption ==
  /\ Supported \subseteq Opcodes
  /\ FlagSets \subseteq Flags
  /\ Sizes \subseteq Nat
  /\ Wants \subseteq Nat

VARIABLES
  ring,              \* the_io_uring: "open", "closed" (None); "dropped": freed
  user_data_counter,
  owned_data,        \* what the ring keeps alive, per user data
  sq,                \* the submission queue, oldest entry first
  pushed,            \* ghost: how many entries were ever pushed
  open_link,         \* ghost: the linked entry the next one should follow, or 0
  inflight,          \* the entries the kernel has taken and not finished
  cqes,              \* completions, oldest first: the queue, then the overflow
  visible,           \* how many of them are in the completion queue
  poller,            \* the SQPOLL thread: "awake" or "asleep"
  eventfd,           \* "none", or the registered counter: "clear" or "set"
  call,              \* the call that is blocked in io_uring_enter
  events,            \* ghost: every CompletionEvent ever returned
  ret                \* how the last call ended

queues == <<sq, inflight, cqes, visible, poller, eventfd>>
ghosts == <<pushed, open_link>>
vars == <<ring, user_data_counter, owned_data, queues, ghosts, call, events,
          ret>>
-----------------------------------------------------------------------------
UserData == 0 .. (2 * MaxUserData - 1)

\* Bit 63 of a u64 marks the ring's own operations.
should_be_ignored(user_data) == (user_data \div MaxUserData) % 2 = 1

\* Fault: the value of the docstring, 0xFF_FF_FF_00, which has no bit 63.
TimeoutUserData_Documented == MaxUserData - 1
\* 0xFFFF_FFFF_FFFF_FF00, a value with bit 63 set.
TimeoutUserData == 2 * MaxUserData - 1

\* What an allocation of OwnedData holds; "none" is an absent key.
OwnedKinds == {"OnePath", "Buffer", "SockAddr"}
OwnedData == [data : OwnedKinds \cup {"none"}, len : Nat]
NoData == [data |-> "none", len |-> 0]

(***************************************************************************)
(* A submission.  data and len describe the memory it points at            *)
(* ("timespec": the stack frame of wait_with_timeout); seq numbers the     *)
(* pushes; after is the submission it was linked behind when it was        *)
(* pushed, and prev the one the kernel makes it wait for (0: none); fate   *)
(* is what the kernel will do with it: run it, or cancel it with or        *)
(* without a completion.                                                   *)
(***************************************************************************)
Entry == [ud : UserData, data : OwnedKinds \cup {"none", "timespec"},
          len : Nat, link : Links, skip : BOOLEAN, seq : Nat, after : Nat,
          prev : Nat, fate : {"run", "cancel", "mute"}]

\* data and len are ghosts: the memory of the operation that completed.
Cqe == [ud : UserData, result : Int,
        data : OwnedKinds \cup {"none", "timespec"}, len : Nat]

NoBuffer == -1
CompletionEvent == [ud : UserData, result : Int, buffer : Nat \cup {NoBuffer},
                    data : OwnedKinds \cup {"none", "timespec"}, len : Nat]

\* submitted: how many entries the call found in the queue; cut: the kernel took
\* only some of them; unread: how many completions were waiting to be reaped
\* when it began (a ghost); timer: a timer has expired since.
NoCall == [op |-> "none", want |-> 0, submitted |-> 0, cut |-> FALSE,
           unread |-> 0, timer |-> FALSE]
Call == [op : {"none", "wait", "wait_with_timeout"}, want : Nat,
         submitted : Nat, cut : BOOLEAN, unread : Nat, timer : BOOLEAN]

Results == {"ok", "closed", "full", "ValueError", "NotImplementedError",
            "OSError", "EINTR"}

Entries(q) == {q[i] : i \in 1 .. Len(q)}
Least(a, b) == IF a <= b THEN a ELSE b

\* create_io_ring: an open ring that owns nothing.
Init ==
  /\ ring = "open"
  /\ user_data_counter = 0
  /\ owned_data = [u \in UserData |-> NoData]
  /\ sq = <<>> /\ pushed = 0 /\ open_link = 0
  /\ inflight = {}
  /\ cqes = <<>> /\ visible = 0
  /\ poller = "awake"
  /\ eventfd = "none"
  /\ call = NoCall
  /\ events = {}
  /\ ret = "ok"
-----------------------------------------------------------------------------
(***************************************************************************)
(* The io-uring crate and the kernel side of io_uring_enter.               *)
(***************************************************************************)

\* The kernel takes the first k entries of q as one batch.  Links hold inside
\* a batch only.
Batch(q, k) ==
  {[q[i] EXCEPT !.prev = IF i > 1 /\ q[i - 1].link # "none"
                         THEN q[i - 1].seq ELSE 0] : i \in 1 .. k}
Rest(q, k) == SubSeq(q, k + 1, Len(q))

\* How many entries of q are gone when io_uring_enter returns.  With SQPOLL
\* the call consumes nothing; the poller may take some meanwhile.  Without, all
\* go (submit_all), unless the kernel runs out of memory on the way.
Consumed(q) ==
  IF SqPoll THEN 0 .. Len(q)
  ELSE IF "short" \in Faults /\ q # <<>> THEN 1 .. Len(q)
  ELSE {Len(q)}

\* Submitter::submit_and_wait skips the system call when the poller is awake
\* and nothing is waited for; any system call flushes the overflow.
Skipped(want) == SqPoll /\ poller = "awake" /\ want = 0
Flushed(want) ==
  IF Skipped(want) THEN visible ELSE Least(Len(cqes), CqEntries)
Signalled(v) == IF v > visible /\ eventfd # "none" THEN "set" ELSE eventfd

\* rest stays in the queue, the kernel has taken the entries of started.
Enter(rest, started, want) ==
  /\ sq' = rest
  /\ inflight' = inflight \cup started
  /\ visible' = Flushed(want)
  /\ eventfd' = Signalled(Flushed(want))
  /\ poller' = "awake"
  /\ UNCHANGED cqes

\* io_uring_enter fails before it takes anything.
EnterFails(want) == "enter_error" \in Faults /\ ~Skipped(want)
-----------------------------------------------------------------------------
(***************************************************************************)
(* Submitting.                                                             *)
(***************************************************************************)
Return(r) == ret' = r
Refuse(r) == Return(r) /\ UNCHANGED <<ring, owned_data, queues, ghosts, call,
                                      events>>

NewEntry(u, data, len, flags) ==
  [ud |-> u, data |-> data, len |-> len, link |-> flags.link,
   skip |-> flags.skip, seq |-> pushed + 1, after |-> open_link, prev |-> 0,
   fate |-> "run"]

\* Fault: the memory dies with the frame of the prep function.
add_owned_Forgotten(e) == owned_data' = owned_data
\* The three add_owned_* methods; the entry's memory moves into the map.
add_owned(e) ==
  owned_data' = IF e.data = "none" THEN owned_data
                ELSE [owned_data EXCEPT ![e.ud] = [data |-> e.data,
                                                   len |-> e.len]]

\* After a successful push: the ghosts, and the caller's add_owned_*.
Accept(e) ==
  /\ pushed' = e.seq
  /\ open_link' = IF e.link = "none" THEN 0 ELSE e.seq
  /\ add_owned(e)
  /\ Return("ok")
  /\ UNCHANGED <<ring, call, events>>

\* Fault: the queue is thought to have one slot more than it has.
Room_OffByOne == Len(sq) <= SqEntries
\* SubmissionQueue::push succeeds.
Room == Len(sq) < SqEntries
\* Faults: the queue is never, or always, submitted when it is full.
MayRetry_Never == FALSE
MayRetry_Always == TRUE
\* A push that failed is tried again, once, after a submit.
MayRetry == Autosubmit

autosubmit(e) ==
  \/ /\ ring # "open"
     /\ Refuse("closed")
  \/ /\ ring = "open"
     /\ Room
     /\ sq' = Append(sq, e)
     /\ UNCHANGED <<inflight, cqes, visible, poller, eventfd>>
     /\ Accept(e)
  \/ /\ ring = "open"
     /\ ~Room
     /\ ~MayRetry
     /\ Refuse("full")
  \/ /\ ring = "open"
     /\ ~Room
     /\ MayRetry
     /\ \/ EnterFails(0) /\ Refuse("OSError")
        \/ \E k \in Consumed(sq) :
             IF k = 0
             THEN /\ Enter(sq, {}, 0)
                  /\ Return("full")
                  /\ UNCHANGED <<ring, owned_data, ghosts, call, events>>
             ELSE /\ Enter(Append(Rest(sq, k), e), Batch(sq, k), 0)
                  /\ Accept(e)

\* Fault: SKIP_SUCCESS is let through.
SkipRefused_Never(data, flags) == FALSE
\* "Can't use 'SKIP_SUCCESS' on submissions with owned data".
SkipRefused(data, flags) == flags.skip /\ data # "none"

\* The shape all _RUSTFFI_ioring_prep_* functions share.
Submission(op, u, data, len, flags, valid) ==
  \/ /\ op \notin Supported
     /\ Refuse("NotImplementedError")
  \/ /\ op \in Supported
     /\ ~valid \/ SkipRefused(data, flags)
     /\ Refuse("ValueError")
  \/ /\ op \in Supported
     /\ valid
     /\ ~SkipRefused(data, flags)
     /\ autosubmit(NewEntry(u, data, len, flags))

\* The end offset of the slice to send, or -1 when the arguments are refused.
check_write_buffer(buf_len, size, offset) ==
  IF size > buf_len \/ offset > buf_len \/ offset + size > buf_len
  THEN -1 ELSE offset + size

ioring_prep_openat(u, flags) == Submission("openat", u, "OnePath", 0, flags, TRUE)
ioring_prep_read(u, max_size, flags) ==
  Submission("read", u, "Buffer", max_size, flags, TRUE)
ioring_prep_write(u, buf_len, size, offset, flags) ==
  LET end_offset == check_write_buffer(buf_len, size, offset)
  IN  Submission("write", u, "Buffer",
                 IF end_offset = -1 THEN 0 ELSE end_offset - offset, flags,
                 end_offset # -1)
ioring_prep_close(u, flags) == Submission("close", u, "none", 0, flags, TRUE)
ioring_prep_create_socket(u, flags) ==
  Submission("socket", u, "none", 0, flags, TRUE)
do_sockaddr_submit(u, flags, parsed) ==
  Submission("connect", u, "SockAddr", 0, flags, parsed)
\* Both consult the probe, then parse the address of their family.
ioring_prep_connect_v4(u, flags, parsed) == do_sockaddr_submit(u, flags, parsed)
ioring_prep_connect_v6(u, flags, parsed) == do_sockaddr_submit(u, flags, parsed)
ioring_prep_send(u, buf_len, size, offset, flags) ==
  LET end_offset == check_write_buffer(buf_len, size, offset)
  IN  Submission("send", u, "Buffer",
                 IF end_offset = -1 THEN 0 ELSE end_offset - offset, flags,
                 end_offset # -1)
ioring_prep_recv(u, max_size, flags) ==
  Submission("recv", u, "Buffer", max_size, flags, TRUE)
-----------------------------------------------------------------------------
(***************************************************************************)
(* The Python methods that prepare operations.  Each draws a user data     *)
(* value before it looks at the file handle, so a refused call uses one    *)
(* up; only the offset checks of prep_read and prep_write come earlier.    *)
(***************************************************************************)
Idle == call.op = "none" /\ ring # "dropped"
Client(method) == method \in Calls /\ Idle
Prepares(method) == Client(method) /\ user_data_counter < MaxUserData

\* Fault: a load instead of a fetch_add.
get_next_user_data_Load == UNCHANGED user_data_counter
get_next_user_data == user_data_counter' = user_data_counter + 1

\* The handle passed in is closed.
unwrap_file_raises == Refuse("ValueError")
OffsetRefused == Refuse("ValueError") /\ UNCHANGED user_data_counter

prep_openat ==
  /\ Prepares("prep_openat")
  /\ get_next_user_data
  /\ \E flags \in FlagSets : ioring_prep_openat(user_data_counter, flags)

prep_close ==
  /\ Prepares("prep_close")
  /\ get_next_user_data
  /\ \/ unwrap_file_raises
     \/ \E flags \in FlagSets : ioring_prep_close(user_data_counter, flags)

prep_read ==
  /\ Prepares("prep_read")
  /\ \/ OffsetRefused
     \/ /\ get_next_user_data
        /\ \/ unwrap_file_raises
           \/ \E n \in Sizes, flags \in FlagSets :
                ioring_prep_read(user_data_counter, n, flags)

prep_write ==
  /\ Prepares("prep_write")
  /\ \/ OffsetRefused
     \/ /\ get_next_user_data
        /\ \/ unwrap_file_raises
           \/ \E n \in Sizes, flags \in FlagSets :
              \E size \in 0 .. n + 1, offset \in 0 .. n + 1 :
                ioring_prep_write(user_data_counter, n, size, offset, flags)

prep_create_socket ==
  /\ Prepares("prep_create_socket")
  /\ get_next_user_data
  /\ \E flags \in FlagSets : ioring_prep_create_socket(user_data_counter, flags)

\* parsed: the address is one of the family.
prep_connect_v4 ==
  /\ Prepares("prep_connect_v4")
  /\ get_next_user_data
  /\ \/ unwrap_file_raises
     \/ \E flags \in FlagSets, parsed \in BOOLEAN :
          ioring_prep_connect_v4(user_data_counter, flags, parsed)

prep_connect_v6 ==
  /\ Prepares("prep_connect_v6")
  /\ get_next_user_data
  /\ \/ unwrap_file_raises
     \/ \E flags \in FlagSets, parsed \in BOOLEAN :
          ioring_prep_connect_v6(user_data_counter, flags, parsed)

prep_recv ==
  /\ Prepares("prep_recv")
  /\ get_next_user_data
  /\ \/ unwrap_file_raises
     \/ \E n \in Sizes, flags \in FlagSets :
          ioring_prep_recv(user_data_counter, n, flags)

prep_send ==
  /\ Prepares("prep_send")
  /\ get_next_user_data
  /\ \/ unwrap_file_raises
     \/ \E n \in Sizes, flags \in FlagSets :
        \E size \in 0 .. n + 1, offset \in 0 .. n + 1 :
          ioring_prep_send(user_data_counter, n, size, offset, flags)
-----------------------------------------------------------------------------
(***************************************************************************)
(* The methods that enter the kernel, reap, and close.  An explicit submit *)
(* ends the chain being built: what follows is not meant to be linked.     *)
(***************************************************************************)
\* Fault: submit does not enter the kernel.
submit_Nothing == Refuse("ok")
submit ==
  \/ ring # "open" /\ Refuse("closed")
  \/ ring = "open" /\ EnterFails(0) /\ Refuse("OSError")
  \/ /\ ring = "open"
     /\ \E k \in Consumed(sq) : Enter(Rest(sq, k), Batch(sq, k), 0)
     /\ open_link' = 0
     /\ Return("ok")
     /\ UNCHANGED <<ring, owned_data, pushed, call, events>>

\* The call is in the kernel, which has taken k entries of q.
Block(op, want, q, k) ==
  /\ call' = [op |-> op, want |-> want, submitted |-> Len(q),
              cut |-> ~SqPoll /\ k < Len(q), unread |-> Len(cqes),
              timer |-> FALSE]
  /\ UNCHANGED ret

wait(want) ==
  \/ ring # "open" /\ Refuse("closed")
  \/ ring = "open" /\ EnterFails(want) /\ Refuse("OSError")
  \/ /\ ring = "open"
     /\ \E k \in Consumed(sq) :
          /\ Enter(Rest(sq, k), Batch(sq, k), want)
          /\ Block("wait", want, sq, k)
     /\ open_link' = 0
     /\ UNCHANGED <<ring, owned_data, pushed, events>>

TimeoutEntry ==
  [ud |-> TimeoutUserData, data |-> "timespec", len |-> 0, link |-> "none",
   skip |-> TRUE, seq |-> pushed + 1, after |-> 0, prev |-> 0, fate |-> "run"]

\* Fault: the timeout is pushed behind whatever is queued.
Purged_Nothing == {0}
\* "purge the queue!! don't want to push a timeout op and just have it... not
\* do anything": how many entries the submit before the push takes.
Purged == Consumed(sq)
\* Fault: the last call waits without submitting.
Awaited_Nothing(q) == {0}
\* How many entries the submit_and_wait after the push takes.
Awaited(q) == Consumed(q)

wait_with_timeout ==
  \/ ring # "open" /\ Refuse("closed")
  \/ ring = "open" /\ EnterFails(0) /\ Refuse("OSError")
  \/ /\ ring = "open"
     /\ open_link' = 0
     /\ UNCHANGED <<ring, owned_data, events>>
     /\ \E k \in Purged :
        LET q == Append(Rest(sq, k), TimeoutEntry) IN
        \/ /\ Len(q) > SqEntries
           /\ Enter(Rest(sq, k), Batch(sq, k), 0)
           /\ Return("ValueError")
           /\ UNCHANGED <<pushed, call>>
        \/ /\ Len(q) <= SqEntries
           /\ pushed' = pushed + 1
           /\ \/ /\ EnterFails(1)
                 /\ Enter(q, Batch(sq, k), 0)
                 /\ Return("OSError")
                 /\ UNCHANGED call
              \/ \E j \in Awaited(q) :
                   /\ Enter(Rest(q, j), Batch(sq, k) \cup Batch(q, j), 1)
                   /\ Block("wait_with_timeout", 1, q, j)

\* A submission cut short does not wait.  Any other call waits for enough
\* completions, or a timer that expires meanwhile.
WaitReady ==
  call.cut \/ call.timer \/ visible >= Least(call.want, CqEntries)
\* io_uring_enter comes back: it has what it waited for, or a signal came.
WaitReturn ==
  /\ call.op # "none"
  /\ \/ WaitReady /\ Return("ok")
     \/ /\ "signal" \in Faults /\ ~call.cut
        /\ Return(IF call.submitted > 0 THEN "ok" ELSE "EINTR")
  /\ call' = NoCall
  /\ UNCHANGED <<ring, user_data_counter, owned_data, queues, ghosts, events>>

\* owned_data.remove for the i-th reaped entry, entries being handled in order.
Removed(i) ==
  IF \E j \in 1 .. (i - 1) : cqes[j].ud = cqes[i].ud THEN NoData
  ELSE owned_data[cqes[i].ud]

\* Fault: a short transfer leaves the buffer at its full size.
event_buffer_Untrimmed(owned, result) ==
  IF owned.data # "Buffer" THEN NoBuffer ELSE owned.len
\* The buffer an event carries, as its length: cut or extended to the result,
\* whole when the operation failed.
event_buffer(owned, result) ==
  IF owned.data # "Buffer" THEN NoBuffer
  ELSE IF result < 0 \/ owned.len = result THEN owned.len
  ELSE result

Event(i) ==
  [ud |-> cqes[i].ud, result |-> cqes[i].result,
   buffer |-> event_buffer(Removed(i), cqes[i].result),
   data |-> cqes[i].data, len |-> cqes[i].len]

get_completion_entries ==
  \/ ring # "open" /\ Refuse("closed")
  \/ /\ ring = "open"
     /\ events' = events \cup {Event(i) : i \in 1 .. visible}
     /\ owned_data' = [u \in UserData |->
                         IF \E i \in 1 .. visible : cqes[i].ud = u THEN NoData
                         ELSE owned_data[u]]
     /\ cqes' = Rest(cqes, visible)
     /\ visible' = 0
     /\ Return("ok")
     /\ UNCHANGED <<ring, sq, inflight, poller, eventfd, ghosts, call>>

\* A second registration fails (EBUSY), and so does a descriptor that is not
\* one of an eventfd (EINVAL).
register_eventfd(valid) ==
  \/ ring # "open" /\ Refuse("closed")
  \/ ring = "open" /\ (eventfd # "none" \/ ~valid) /\ Refuse("OSError")
  \/ /\ ring = "open"
     /\ eventfd = "none" /\ valid
     /\ eventfd' = "clear"
     /\ Return("ok")
     /\ UNCHANGED <<ring, owned_data, sq, inflight, cqes, visible, poller,
                    ghosts, call, events>>

\* the_io_uring = None unmaps the queues; what runs in the kernel is only
\* asked to stop, and the map of owned data stays.
close ==
  /\ ring' = "closed"
  /\ sq' = <<>> /\ cqes' = <<>> /\ visible' = 0
  /\ poller' = "awake" /\ eventfd' = "none"
  /\ Return("ok")
  /\ UNCHANGED <<owned_data, inflight, ghosts, call, events>>

IoUring_submit == Client("submit") /\ submit /\ UNCHANGED user_data_counter
IoUring_submit_and_wait ==
  /\ Client("submit_and_wait")
  /\ \E want \in Wants : wait(want)
  /\ UNCHANGED user_data_counter
IoUring_submit_and_wait_with_timeout ==
  /\ Client("submit_and_wait_with_timeout")
  /\ pushed < MaxPushes
  /\ wait_with_timeout
  /\ UNCHANGED user_data_counter
IoUring_get_completion_entries ==
  /\ Client("get_completion_entries")
  /\ get_completion_entries
  /\ UNCHANGED user_data_counter
IoUring_register_eventfd ==
  /\ Client("register_eventfd")
  /\ \E valid \in BOOLEAN : register_eventfd(valid)
  /\ UNCHANGED user_data_counter

\* The finally of the make_io_ring context manager.
make_io_ring_exit ==
  Client("close") /\ ring = "open" /\ close /\ UNCHANGED user_data_counter

\* The client reads the eventfd, which resets it.
ReadEventfd ==
  /\ Client("register_eventfd")
  /\ eventfd = "set"
  /\ eventfd' = "clear"
  /\ UNCHANGED <<ring, user_data_counter, owned_data, sq, inflight, cqes,
                 visible, poller, ghosts, call, events, ret>>

\* The last reference goes: the fields of TheIoRing are dropped.
Drop ==
  /\ Client("close")
  /\ ring = "closed"
  /\ DropBusy \/ inflight = {}
  /\ ring' = "dropped"
  /\ owned_data' = [u \in UserData |-> NoData]
  /\ UNCHANGED <<user_data_counter, queues, ghosts, call, events, ret>>
-----------------------------------------------------------------------------
(***************************************************************************)
(* The kernel.                                                             *)
(***************************************************************************)

\* One entry is finished and others remain; posts is its completion, if any.
\* It goes to the queue if there is room and no older one waits in the
\* overflow, and nowhere when the ring is gone.
Finish(others, posts) ==
  /\ inflight' = others
  /\ \/ /\ ring = "open" /\ posts # <<>>
        /\ cqes' = cqes \o posts
        /\ visible' = IF visible = Len(cqes) /\ visible < CqEntries
                      THEN visible + 1 ELSE visible
        /\ eventfd' = Signalled(visible')
     \/ /\ ring # "open" \/ posts = <<>>
        /\ UNCHANGED <<cqes, visible, eventfd>>
  /\ UNCHANGED <<ring, user_data_counter, owned_data, sq, ghosts, poller,
                 events, ret>>

Completion(e, result) ==
  <<[ud |-> e.ud, result |-> result, data |-> e.data, len |-> e.len]>>

\* An entry runs once the one it is linked to has finished.
Runnable(e) == e.fate = "run" /\ \A f \in inflight : f.seq # e.prev

\* 0 stands for every success of an operation without a buffer; a timeout
\* that expires reports -ETIME.  A recv with MSG_TRUNC reports the length of the
\* datagram, which may exceed the buffer; entries do not say which opcode they
\* are, so any operation with a buffer may do so here.
OpResults(e) == CASE e.data = "timespec" -> {-1}
                  [] e.data = "Buffer" -> -1 .. (e.len + 1)
                  [] OTHER -> {-1, 0}

\* A failure severs a soft link; a short transfer or a truncated datagram may.
Severs(e, result) ==
  IF e.link # "soft" THEN {FALSE}
  ELSE IF result < 0 THEN {TRUE}
  ELSE IF e.data = "Buffer" /\ result # e.len THEN BOOLEAN ELSE {FALSE}

\* What remains in flight after e, the entry linked to it being given a fate.
\* The kernel cancels a whole chain; here each entry hands its fate on.
Without(e, fate) ==
  {IF f.prev = e.seq THEN [f EXCEPT !.fate = fate] ELSE f :
     f \in inflight \ {e}}

\* The rest of a severed chain is cancelled, silently if the entry that
\* failed had asked for no completion on success.
SeveredFate(e, severs) ==
  IF ~severs THEN "run" ELSE IF e.skip THEN "mute" ELSE "cancel"

KernelComplete(e) ==
  /\ Runnable(e)
  /\ \E result \in OpResults(e) : \E severs \in Severs(e, result) :
       Finish(Without(e, SeveredFate(e, severs)),
              IF e.skip /\ result >= 0 THEN <<>> ELSE Completion(e, result))
  /\ call' = [call EXCEPT !.timer = @ \/ (call.op # "none"
                                            /\ e.data = "timespec")]

KernelCancel(e) ==
  /\ e.fate # "run"
  /\ Finish(Without(e, e.fate),
            IF e.fate = "mute" THEN <<>> ELSE Completion(e, -1))
  /\ UNCHANGED call

Kernel(e) == KernelComplete(e) \/ KernelCancel(e)

\* The SQPOLL thread takes what it finds, or goes to sleep on an empty queue.
SqPollConsume ==
  /\ SqPoll /\ ring = "open" /\ poller = "awake"
  /\ \E k \in 1 .. Len(sq) :
       /\ sq' = Rest(sq, k)
       /\ inflight' = inflight \cup Batch(sq, k)
  /\ UNCHANGED <<ring, user_data_counter, owned_data, cqes, visible, poller,
                 eventfd, ghosts, call, events, ret>>

SqPollSleep ==
  /\ SqPoll /\ ring = "open" /\ poller = "awake" /\ sq = <<>>
  /\ poller' = "asleep"
  /\ UNCHANGED <<ring, user_data_counter, owned_data, sq, inflight, cqes,
                 visible, eventfd, ghosts, call, events, ret>>
-----------------------------------------------------------------------------
Next ==
  \/ prep_openat \/ prep_close \/ prep_read \/ prep_write
  \/ prep_create_socket \/ prep_connect_v4 \/ prep_connect_v6
  \/ prep_recv \/ prep_send
  \/ IoUring_submit \/ IoUring_submit_and_wait
  \/ IoUring_submit_and_wait_with_timeout
  \/ IoUring_get_completion_entries \/ IoUring_register_eventfd
  \/ make_io_ring_exit \/ ReadEventfd \/ Drop
  \/ WaitReturn
  \/ \E e \in inflight : Kernel(e)
  \/ SqPollConsume \/ SqPollSleep

Spec == Init /\ [][Next]_vars

-----------------------------------------------------------------------------
(***************************************************************************)
(* Properties.                                                             *)
(***************************************************************************)
Pending == Entries(sq) \cup inflight

\* The state has its types; the queues respect their sizes.
TypeOK ==
  /\ ring \in {"open", "closed", "dropped"}
  /\ user_data_counter \in 0 .. MaxUserData
  /\ owned_data \in [UserData -> OwnedData]
  /\ sq \in Seq(Entry) /\ Len(sq) <= SqEntries
  /\ pushed \in Nat /\ open_link \in Nat
  /\ inflight \in SUBSET Entry
  /\ cqes \in Seq(Cqe)
  /\ visible \in 0 .. Len(cqes) /\ visible <= CqEntries
  /\ poller \in {"awake", "asleep"}
  /\ eventfd \in {"none", "clear", "set"}
  /\ call \in Call
  /\ events \in SUBSET CompletionEvent
  /\ ret \in Results

\* Memory safety: every buffer, path or address that a queued or running
\* operation points at is owned by the ring, and is the one made for it
\* (the doc comment of TheIoRing).
KernelPointersOwned ==
  \A e \in Pending :
    e.data \in OwnedKinds =>
      owned_data[e.ud] = [data |-> e.data, len |-> e.len]

\* No leak: while the ring is open, whatever it owns belongs to an operation
\* that is queued, running, or has a completion that will free it
\* (owned_data.remove in get_completion_entries).
OwnedIsReapable ==
  ring = "open" =>
    \A u \in UserData :
      owned_data[u] # NoData =>
        \/ \E e \in Pending : e.ud = u
        \/ \E c \in Entries(cqes) : c.ud = u

\* An operation is in one place: queued, running, completed or reaped, and it
\* is there once.  So no completion is lost by being overwritten, delivered
\* twice, or taken for another operation's (get_next_user_data).
Whereabouts(u) ==
  {<<"sq", i>> : i \in {i \in 1 .. Len(sq) : sq[i].ud = u}}
    \cup {<<"kernel", e.seq>> : e \in {e \in inflight : e.ud = u}}
    \cup {<<"cq", i>> : i \in {i \in 1 .. Len(cqes) : cqes[i].ud = u}}
    \cup {<<"event", ev.result>> : ev \in {ev \in events : ev.ud = u}}
OnePlace ==
  \A u \in UserData \ {TimeoutUserData} :
    \A p, q \in Whereabouts(u) : p = q

\* The event of a read, write, send or recv carries its own buffer, resized to
\* the bytes reported, or whole on an error; no other event has a buffer.
EventBuffers ==
  \A ev \in events :
    ev.buffer = IF ev.data # "Buffer" THEN NoBuffer
                ELSE IF ev.result < 0 THEN ev.len ELSE ev.result

\* should_be_ignored tells the ring's own timeouts from the client's
\* operations.
IgnoredAreTimeouts ==
  \A ev \in events : should_be_ignored(ev.ud) <=> ev.data = "timespec"

\* The kernel never reads the timespec of a frame that has returned: a
\* queued timeout belongs to the wait_with_timeout that is still blocked
\* ("playing stack-frame chicken with rust here").
TimespecLive ==
  \A e \in Entries(sq) :
    e.data = "timespec" => call.op = "wait_with_timeout" /\ e.seq = pushed

\* With autosubmit, preparing an operation never fails because the
\* submission queue is full.
AutosubmitAbsorbsFull == Autosubmit => ret # "full"

\* submit_and_wait(count) returns normally only when count completions, or a
\* full queue of them, can be reaped.  What was there when the call began
\* counts whatever it is (test_multiple_timeouts_ignoring_completions); of what
\* arrives during the call, only the client's own operations do.
Arrived ==
  {i \in 1 .. visible : i <= call.unread \/ ~should_be_ignored(cqes[i].ud)}
WaitHonoursCount ==
  [][call.op = "wait" /\ call' = NoCall /\ ret' = "ok" =>
       Cardinality(Arrived) >= Least(call.want, CqEntries)]_vars

\* The submission after a linked one is not run before the linked one has
\* finished.
LinkedRunsAfter ==
  [][\A e \in inflight :
       e.fate = "run" /\ (\A f \in inflight' : f.seq # e.seq) =>
         \A f \in Pending : f.seq # e.after]_vars
-----------------------------------------------------------------------------
(***************************************************************************)
(* Liveness.                                                               *)
(***************************************************************************)

\* Timers expire and a wait that has what it waits for returns; nothing else is
\* promised, a signal least of all.
TimerSpec ==
  /\ Spec
  /\ WF_vars(\E e \in inflight : e.data = "timespec" /\ Kernel(e))
  /\ WF_vars(WaitReady /\ WaitReturn)

\* A wait with a timeout always returns, even if no operation ever completes.
TimedWaitReturns == call.op = "wait_with_timeout" ~> call.op = "none"

\* The kernel finishes every operation, the poller polls, and the client
\* keeps submitting and reaping whenever it is not blocked; a system call that
\* is made again and again does not fail every time.
FairSpec ==
  /\ Spec
  /\ \A s \in 1 .. (MaxPushes + MaxUserData) :
       WF_vars(\E e \in inflight : e.seq = s /\ Kernel(e))
  /\ WF_vars(WaitReady /\ WaitReturn)
  /\ WF_vars(SqPollConsume) /\ WF_vars(SqPollSleep)
  /\ SF_vars(IoUring_submit /\ ret' = "ok")
  /\ SF_vars(IoUring_get_completion_entries)

\* Every accepted operation is reaped, or the ring is closed: no operation is
\* stranded in the submission queue or in the overflow of the completions.
EveryOperationReaped ==
  \A u \in 0 .. (MaxUserData - 1) :
    owned_data[u] # NoData
      ~> ring # "open" \/ \E ev \in events : ev.ud = u
=============================================================================
