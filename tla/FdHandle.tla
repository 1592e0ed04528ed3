------------------------------ MODULE FdHandle ------------------------------
(***************************************************************************)
(* File handles (src/pysrc/century_ring/handle.py) and the methods of      *)
(* IoUring that take them, composed with TheIoRing and with the process's  *)
(* descriptor table, where a number that was closed is given out again.    *)
(*                                                                         *)
(* A file, and the FdHandle made for it, are named by the user data of the *)
(* operation that opened the file.  The client makes one handle of one     *)
(* completion, from one thread, and passes handles, not integers; it may   *)
(* otherwise use them in any order, closed ones included.                  *)
(***************************************************************************)
EXTENDS TheIoRing

CONSTANT Fds        \* the descriptor numbers the process may use

ASSUME FdsAssumption == Fds \subseteq Nat

VARIABLES
  table,    \* the file at each descriptor
  fd,       \* the descriptor each opening operation was given
  handle,   \* per file: "none", "open", or "closed" (_close_called)
  about     \* what each submission does, and the handle it was given

handleVars == <<table, fd, handle, about>>
allVars == <<vars, handleVars>>

Keys == 0 .. (MaxUserData - 1)
NoFd == -1
NoFile == -1
NoHandle == -1

HandleInit ==
  /\ Init
  /\ table = [d \in Fds |-> NoFile]
  /\ fd = [u \in Keys |-> NoFd]
  /\ handle = [u \in Keys |-> "none"]
  /\ about = [u \in Keys |-> [op |-> "none", handle |-> NoHandle]]

Handles == {u \in Keys : handle[u] # "none"}
-----------------------------------------------------------------------------
(***************************************************************************)
(* FdHandle.                                                               *)
(***************************************************************************)

raise_for_cqe(cqe) == cqe.result < 0

\* There is no handle when raise_for_cqe raises.
from_completion_event ==
  /\ \E ev \in events :
       /\ about[ev.ud].op = "open" /\ handle[ev.ud] = "none"
       /\ ~raise_for_cqe(ev)
       /\ handle' = [handle EXCEPT ![ev.ud] = "open"]
  /\ UNCHANGED <<vars, table, fd, about>>

\* Fault: close is not idempotent.
CloseRuns_Always(h) == TRUE
\* The early return of close.
CloseRuns(h) == handle[h] = "open"

\* Fault: an exception from os.close leaves the handle open.
Finally_OnSuccess(h, raised) ==
  IF raised THEN handle ELSE [handle EXCEPT ![h] = "closed"]
\* The finally of close: a descriptor is gone even if close(2) fails.
Finally(h, raised) == [handle EXCEPT ![h] = "closed"]

\* The synchronous close, which __exit__ calls too.
FdHandle_close ==
  /\ \E h \in Handles, raised \in BOOLEAN :
       /\ CloseRuns(h)
       /\ table' = [table EXCEPT ![fd[h]] = NoFile]
       /\ handle' = Finally(h, raised)
  /\ UNCHANGED <<vars, fd, about>>
-----------------------------------------------------------------------------
(***************************************************************************)
(* The IoUring methods that take a handle.                                 *)
(***************************************************************************)

\* A submission that is accepted is about op and h.
Prepared(op, h) ==
  about' = IF pushed' = pushed THEN about
           ELSE [about EXCEPT ![user_data_counter] = [op |-> op, handle |-> h]]

unwrap_file(h) == handle[h] = "open"

\* The descriptor of relative_to is taken as it is.
prep_openat_relative ==
  /\ Prepares("prep_openat")
  /\ get_next_user_data
  /\ \E h \in Handles \cup {NoHandle}, flags \in FlagSets :
       /\ ioring_prep_openat(user_data_counter, flags)
       /\ Prepared("open", h)
  /\ UNCHANGED <<table, fd, handle>>

prep_socket ==
  /\ prep_create_socket
  /\ Prepared("open", NoHandle)
  /\ UNCHANGED <<table, fd, handle>>

\* read stands for write, connect, send and recv too.
prep_read_handle ==
  /\ Prepares("prep_read")
  /\ get_next_user_data
  /\ \E h \in Handles :
       /\ \/ ~unwrap_file(h) /\ unwrap_file_raises
          \/ unwrap_file(h) /\ \E n \in Sizes, flags \in FlagSets :
                                 ioring_prep_read(user_data_counter, n, flags)
       /\ Prepared("use", h)
  /\ UNCHANGED <<table, fd, handle>>

\* Fault: the handle is marked before the push.
mark_closed_Early(h) == [handle EXCEPT ![h] = "closed"]
\* An exception from the push skips mark_closed.
mark_closed(h) ==
  IF pushed' = pushed THEN handle ELSE [handle EXCEPT ![h] = "closed"]

prep_close_handle ==
  /\ Prepares("prep_close")
  /\ get_next_user_data
  /\ \E h \in Handles :
       /\ \/ ~unwrap_file(h) /\ unwrap_file_raises /\ UNCHANGED handle
          \/ /\ unwrap_file(h)
             /\ \E flags \in FlagSets :
                  ioring_prep_close(user_data_counter, flags)
             /\ handle' = mark_closed(h)
       /\ Prepared("close", h)
  /\ UNCHANGED <<table, fd>>
-----------------------------------------------------------------------------
(***************************************************************************)
(* The kernel and its descriptor table.                                    *)
(***************************************************************************)

\* openat and socket take the lowest free descriptor.
Install(u) ==
  \E d \in Fds :
    /\ table[d] = NoFile
    /\ \A c \in Fds : c < d => table[c] # NoFile
    /\ table' = [table EXCEPT ![d] = u]
    /\ fd' = [fd EXCEPT ![u] = d]

\* Closing frees the number, whatever file it is and even if flushing fails;
\* a free number gives EBADF.
Free(d, ok) ==
  /\ ok => table[d] # NoFile
  /\ table' = [table EXCEPT ![d] = NoFile]
  /\ UNCHANGED fd

Execute(u, ok) ==
  \/ about[u].op = "open" /\ ok /\ Install(u)
  \/ about[u].op = "open" /\ ~ok /\ UNCHANGED <<table, fd>>
  \/ about[u].op = "close" /\ Free(fd[about[u].handle], ok)
  \/ about[u].op = "use" /\ UNCHANGED <<table, fd>>

\* Did the operation that just finished succeed?  Nobody is told once the
\* ring has closed.
Succeeded ==
  IF ring # "open" THEN BOOLEAN
  ELSE {cqes' = cqes \/ cqes'[Len(cqes')].result >= 0}

HandleKernel(e) ==
  /\ \/ KernelComplete(e) /\ \E ok \in Succeeded : Execute(e.ud, ok)
     \/ KernelCancel(e) /\ UNCHANGED <<table, fd>>
  /\ UNCHANGED <<handle, about>>
-----------------------------------------------------------------------------
HandleNext ==
  \/ from_completion_event \/ FdHandle_close
  \/ prep_openat_relative \/ prep_socket \/ prep_read_handle
  \/ prep_close_handle
  \/ IoUring_submit /\ UNCHANGED handleVars
  \/ IoUring_get_completion_entries /\ UNCHANGED handleVars
  \/ make_io_ring_exit /\ UNCHANGED handleVars
  \/ \E e \in inflight : HandleKernel(e)

HandleSpec == HandleInit /\ [][HandleNext]_allVars
-----------------------------------------------------------------------------
\* A file stays at its descriptor until its own handle is closed: no close of
\* another handle, synchronous or through the ring, early, late or repeated,
\* hits a number that has been given out again ("to avoid potentially closing
\* a new file descriptor").
OpenFileStays ==
  \A u \in Keys : fd[u] # NoFd /\ handle[u] # "closed" => table[fd[u]] = u

\* A close in the ring names a descriptor that still is the one it was
\* prepared for, however long it is queued.
QueuedCloseIsOwn ==
  \A e \in Pending :
    about[e.ud].op = "close" =>
      table[fd[about[e.ud].handle]] = about[e.ud].handle

\* No silent leak: a handle that says it is closed and whose file is still
\* open has a close in the ring, or one whose completion reports that it was
\* cancelled (prep_close marks the handle after the push).
ClosedIsAccountedFor ==
  ring = "open" =>
    \A h \in Keys :
      handle[h] = "closed" /\ table[fd[h]] = h =>
        \E u \in Keys :
          /\ about[u] = [op |-> "close", handle |-> h]
          /\ \/ \E e \in Pending : e.ud = u
             \/ \E c \in Entries(cqes) \cup events : c.ud = u /\ c.result < 0

\* No operation is submitted with a handle that has been closed.
ClosedNotUsed ==
  [][pushed' # pushed =>
       LET h == about'[user_data_counter].handle
       IN  h # NoHandle => handle[h] = "open"]_allVars
=============================================================================
