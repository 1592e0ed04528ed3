----------------------------- MODULE Arguments -----------------------------
(***************************************************************************)
(* The conversions between what the client passes and what the kernel is   *)
(* given: open flags (enums.py), submission flags (helpers.py, flags.rs),  *)
(* and the sizes and modes of a ring (ring.py, ring.rs).  They are pure;   *)
(* the variables hold the arguments of one call, and the loop of           *)
(* enum_flags_to_int_flags, which takes a set in an order nobody chose.    *)
(***************************************************************************)
EXTENDS Integers, Sequences

CONSTANTS
  MaxEntries,   \* the kernel's bound on submission slots, a power of two
  Sizes,        \* the sizes the client passes; 0 stands for None too
  Versions      \* kernel versions <<major, minor>>

\* The sizes a queue can have: the kernel has no more than 2^16 slots.
Powers == {1, 2, 4, 8, 16, 32, 64, 128, 256, 512, 1024, 2048, 4096, 8192,
           16384, 32768, 65536}

ASSUME SizesAssumption ==
  /\ MaxEntries \in Powers /\ 2 * MaxEntries \in Powers
  /\ Sizes \subseteq Int /\ Sizes # {}
ASSUME VersionsAssumption == Versions \subseteq Nat \X Nat /\ Versions # {}

VARIABLES
  flags, todo, final_flags,   \* the loop of enum_flags_to_int_flags
  request,                    \* the keywords of make_sqe_flags that are True
  setup                       \* the arguments of make_io_ring, and the kernel

vars == <<flags, todo, final_flags, request, setup>>
-----------------------------------------------------------------------------
FileOpenFlag == {"APPEND", "CREATE_IF_NOT_EXISTS", "MUST_CREATE", "DIRECT",
                 "MUST_BE_DIRECTORY", "PATH", "NO_ACCESS_TIME", "NO_FOLLOW",
                 "TEMPORARY_FILE", "TRUNCATE"}

\* Fault: TEMPORARY_FILE is not looked for.
Creating_Always(fs) == {"O_CREAT"}
\* O_TMPFILE does not go with O_CREAT.
Creating(fs) == IF "TEMPORARY_FILE" \in fs THEN {} ELSE {"O_CREAT"}

\* What the match adds for one flag of fs.  os.O_TMPFILE is two bits.
Bits(flag, fs) ==
  CASE flag = "APPEND"               -> {"O_APPEND"}
    [] flag = "CREATE_IF_NOT_EXISTS" -> Creating(fs)
    [] flag = "MUST_CREATE"          -> {"O_EXCL"} \cup Creating(fs)
    [] flag = "DIRECT"               -> {"O_DIRECT", "O_SYNC"}
    [] flag = "MUST_BE_DIRECTORY"    -> {"O_DIRECTORY"}
    [] flag = "PATH"                 -> {"O_PATH"}
    [] flag = "NO_ACCESS_TIME"       -> {"O_NOATIME"}
    [] flag = "NO_FOLLOW"            -> {"O_NOFOLLOW"}
    [] flag = "TEMPORARY_FILE"       -> {"__O_TMPFILE", "O_DIRECTORY"}
    [] flag = "TRUNCATE"             -> {"O_TRUNC"}

enum_flags_to_int_flags ==
  /\ \E flag \in todo :
       /\ final_flags' = final_flags \cup Bits(flag, flags)
       /\ todo' = todo \ {flag}
  /\ UNCHANGED <<flags, request, setup>>

(***************************************************************************)
(* openat(2), for a caller with the permissions and a filesystem with      *)
(* direct I/O and unnamed files.  "write" is WRITE_ONLY or READ_WRITE;     *)
(* "link" is a symbolic link to a file.                                    *)
(***************************************************************************)
Modes == {"read", "write"}
Paths == {"absent", "file", "dir", "link"}

\* With O_PATH the kernel forgets all but these.
Kept(bits) ==
  IF "O_PATH" \in bits
  THEN bits \cap {"O_PATH", "O_DIRECTORY", "O_NOFOLLOW", "O_CLOEXEC"}
  ELSE bits

\* O_CREAT with O_DIRECTORY is refused since Linux 6.4; before, an absent path
\* was created as a file.
Refused(k, mode, there) ==
  \/ "O_DIRECTORY" \in k /\ there # "dir"
  \/ "O_CREAT" \notin k /\ there = "absent"
  \/ /\ "O_PATH" \notin k
     /\ \/ {"O_CREAT", "O_DIRECTORY"} \subseteq k
        \/ {"O_CREAT", "O_EXCL"} \subseteq k /\ there # "absent"
        \/ there = "link"
        \/ /\ "__O_TMPFILE" \in k
           /\ "O_DIRECTORY" \notin k \/ "O_CREAT" \in k \/ mode = "read"
        \/ /\ "__O_TMPFILE" \notin k /\ there = "dir"
           /\ mode = "write" \/ k \cap {"O_CREAT", "O_TRUNC", "O_DIRECT"} # {}

\* What the descriptor refers to, if there is one.
Opened(bits, mode, path) ==
  LET k == Kept(bits)
      there == IF path = "link" /\ "O_NOFOLLOW" \notin k THEN "file" ELSE path
  IN  IF Refused(k, mode, there) THEN "error"
      ELSE IF "__O_TMPFILE" \in k THEN "unnamed"
      ELSE IF there = "absent" THEN "created" ELSE there
-----------------------------------------------------------------------------
Keywords == <<"fixed_file", "io_drain", "io_link", "io_hardlink", "io_async",
              "buffer_select", "skip_success">>

\* IOSQE_*: the values of io_uring::squeue::Flags.
Bit == [fixed_file |-> 1, io_drain |-> 2, io_link |-> 4, io_hardlink |-> 8,
        io_async |-> 16, buffer_select |-> 32, skip_success |-> 64]

\* Seven Booleans by position, in the order of the Rust parameters.
make_uring_flags(b) ==
  LET Value(i) == IF b[i] THEN Bit[Keywords[i]] ELSE 0
  IN  Value(1) + Value(2) + Value(3) + Value(4) + Value(5) + Value(6) + Value(7)

\* Fault: two keywords change places on the way to Rust.
make_sqe_flags_Swapped(r) ==
  make_uring_flags(<<"fixed_file" \in r, "io_drain" \in r,
                     "io_hardlink" \in r, "io_link" \in r, "io_async" \in r,
                     "buffer_select" \in r, "skip_success" \in r>>)
make_sqe_flags(r) ==
  make_uring_flags(<<"fixed_file" \in r, "io_drain" \in r, "io_link" \in r,
                     "io_hardlink" \in r, "io_async" \in r,
                     "buffer_select" \in r, "skip_success" \in r>>)

\* Flags::from_bits_truncate in the prep functions.
from_bits_truncate(byte) ==
  {k \in DOMAIN Bit : (byte \div Bit[k]) % 2 = 1}
-----------------------------------------------------------------------------
\* None, zero and negative values all mean: not given.
OrZero(n) == IF n > 0 THEN n ELSE 0

\* Fault: minor versions are compared whatever the major one is.
TooOld_MinorOnly(v) == v[1] < 5 \/ v[2] < 18
TooOld(v) == v[1] < 5 \/ (v[1] < 6 /\ v[2] < 18)

\* The argument of setup_cqsize; 0: left to the kernel.
CqSize(entries, cq_entries) == IF cq_entries > entries THEN cq_entries ELSE 0

\* io_uring_setup: IORING_SETUP_SUBMIT_ALL, which every ring asks for, came with
\* 5.18; sizes are rounded up to powers of two; without a size the completion
\* queue has twice the slots; it may not be the smaller one.
HasSubmitAll(v) == v[1] > 5 \/ (v[1] = 5 /\ v[2] >= 18)
RoundUp(n) ==
  CHOOSE p \in Powers : n <= p /\ \A q \in Powers : n <= q => p <= q
Fail(error) == [error |-> error, sq |-> 0, cq |-> 0, sqpoll |-> FALSE,
                single |-> FALSE]
io_uring_setup(entries, cqsize, sqpoll, single, kernel) ==
  LET sq == RoundUp(entries)
      cq == IF cqsize = 0 THEN 2 * sq ELSE RoundUp(cqsize)
  IN  IF \/ ~HasSubmitAll(kernel)
         \/ entries > MaxEntries \/ cqsize > 2 * MaxEntries \/ cq < sq
      THEN Fail("OSError")
      ELSE [error |-> "none", sq |-> sq, cq |-> cq, sqpoll |-> sqpoll,
            single |-> single]

\* The version that procfs reports, or the oldest one that would do.
Reported(s) == IF s.readable THEN s.kernel ELSE <<5, 18>>

\* A kernel that has set a ring up has NODROP (5.5) and a probe to register
\* (5.6), so the assertion and the last ? do not fail.
create_io_ring(entries, cq_entries, idle, single, version, kernel) ==
  IF entries < 0 THEN Fail("OverflowError")       \* not a u32
  ELSE IF entries = 0 THEN Fail("ValueError")
  ELSE IF TooOld(version) THEN Fail("OSError")
  ELSE io_uring_setup(entries, CqSize(entries, cq_entries), idle > 0,
                      single /\ version[1] >= 6, kernel)

make_io_ring(s) ==
  create_io_ring(s.entries, OrZero(s.cq_size), OrZero(s.sqpoll_idle_ms),
                 s.single_issuer, Reported(s), s.kernel)
-----------------------------------------------------------------------------
\* readable: procfs tells the version.
Setup == [entries : Sizes, cq_size : Sizes, sqpoll_idle_ms : Sizes,
          single_issuer : BOOLEAN, kernel : Versions, readable : BOOLEAN]
Defaults == CHOOSE s \in Setup : TRUE

\* One call of one of the three.
Init ==
  /\ \/ flags \in SUBSET FileOpenFlag /\ request = {} /\ setup = Defaults
     \/ flags = {} /\ request \in SUBSET DOMAIN Bit /\ setup = Defaults
     \/ flags = {} /\ request = {} /\ setup \in Setup
  /\ todo = flags
  /\ final_flags = {"O_CLOEXEC"}

Next == enum_flags_to_int_flags

Spec == Init /\ [][Next]_vars
-----------------------------------------------------------------------------
AllBits(fs) == {"O_CLOEXEC"} \cup UNION {Bits(f, fs) : f \in fs}

Creators == {"CREATE_IF_NOT_EXISTS", "MUST_CREATE"}

\* The comments of FileOpenFlag, one by one, of what the flags in fs, turned
\* into bits, do to a path.  Where comments contradict each other nothing is
\* claimed: a path cannot be created as a directory, as an unnamed file or for
\* O_PATH, and TEMPORARY_FILE takes the directory, not the file.
Documented(fs, bits, mode, path) ==
  LET opened == Opened(bits, mode, path)
      Has(flag) == flag \in fs
      InEffect(flag, bit) == bit \in Kept(bits) <=> Has(flag)
  IN
  \* CREATE_IF_NOT_EXISTS, MUST_CREATE: an absent path is created, if and only
  \* if one of them is there;
  /\ path = "absent" /\ fs \cap {"TEMPORARY_FILE", "MUST_BE_DIRECTORY",
                                 "PATH"} = {}
       => opened = IF fs \cap Creators # {} THEN "created" ELSE "error"
  /\ opened = "created" => fs \cap Creators # {}
  \* CREATE_IF_NOT_EXISTS does nothing to a file that exists;
  /\ Has("CREATE_IF_NOT_EXISTS") /\ path \in {"file", "link"}
       => opened = Opened(AllBits(fs \ {"CREATE_IF_NOT_EXISTS"}), mode, path)
  \* MUST_CREATE opens nothing that exists.
  /\ Has("MUST_CREATE") /\ ~Has("PATH")
       => opened \notin {"file", "dir", "link"}
  \* MUST_BE_DIRECTORY: anything else fails, a directory does not because of it.
  /\ Has("MUST_BE_DIRECTORY") /\ path \in {"file", "link"} => opened = "error"
  /\ Has("MUST_BE_DIRECTORY") /\ path = "absent"
       /\ (Has("PATH") \/ fs \cap Creators = {}) => opened = "error"
  /\ path = "dir" /\ mode = "read"
       /\ fs \cap (Creators \cup {"TEMPORARY_FILE", "TRUNCATE", "DIRECT"}) = {}
       => opened = "dir"
  \* PATH: no file is made, and a directory can be opened whatever else is asked.
  /\ Has("PATH") => opened \notin {"created", "unnamed"}
  /\ Has("PATH") /\ path = "dir" => opened = "dir"
  /\ InEffect("PATH", "O_PATH")
  \* NO_FOLLOW: the target of a link is not opened; otherwise it is.
  /\ Has("NO_FOLLOW") /\ path = "link" => opened # "file"
  /\ path \in (IF Has("NO_FOLLOW") THEN {"file"} ELSE {"file", "link"})
       /\ fs \cap {"MUST_CREATE", "MUST_BE_DIRECTORY", "TEMPORARY_FILE"} = {}
       => opened = "file"
  \* TEMPORARY_FILE: a file without a name, whatever is asked about creating it,
  \* and nothing else.
  /\ opened = "unnamed" => Has("TEMPORARY_FILE")
  /\ Has("TEMPORARY_FILE") /\ ~Has("PATH")
       => /\ opened \in {"unnamed", "error"}
          /\ path = "dir" /\ mode = "write" => opened = "unnamed"
  \* APPEND, DIRECT, NO_ACCESS_TIME, TRUNCATE: in effect where they are asked for.
  /\ ~Has("PATH") => /\ InEffect("APPEND", "O_APPEND")
                     /\ InEffect("DIRECT", "O_DIRECT")
                     /\ InEffect("NO_ACCESS_TIME", "O_NOATIME")
                     /\ InEffect("TRUNCATE", "O_TRUNC")

\* Any combination of open flags, in whatever order the set is taken, does to
\* a path what the comments of FileOpenFlag say, as far as they agree.
OpensAsDocumented ==
  todo = {} => \A mode \in Modes, path \in Paths :
                 Documented(flags, final_flags, mode, path)

\* The flags the prep functions read back from the byte are those the client
\* asked for: the check for SKIP_SUCCESS sees it exactly when it is there.
FlagsArrive == from_bits_truncate(make_sqe_flags(request)) = request

\* On Linux 5.18 and every later version, any sizes within the kernel's
\* bounds give a ring: with the slots asked for, a completion queue that can
\* take all submissions, and a poller only for a positive idle time.  Older
\* kernels are refused, even if procfs does not tell their version.
SetupHonoured ==
  LET s == setup
      r == make_io_ring(s)
      recent == HasSubmitAll(s.kernel)
  IN  s.entries \in 1 .. MaxEntries /\ s.cq_size <= 2 * MaxEntries =>
        IF ~recent THEN r.error # "none"
        ELSE /\ r.error = "none"
             /\ r.sq >= s.entries /\ r.cq >= s.cq_size /\ r.cq >= r.sq
             /\ r.sqpoll <=> s.sqpoll_idle_ms > 0
=============================================================================
