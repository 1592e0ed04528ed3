-------------------------- MODULE Arguments_proofs --------------------------
(***************************************************************************)
(* Proofs about the conversions: the loop over the open flags ends with    *)
(* the same bits in whatever order it takes them, and submission flags     *)
(* survive the way through a byte.                                         *)
(***************************************************************************)
EXTENDS Arguments, TLAPS

(***************************************************************************)
(* enum_flags_to_int_flags: the bits of the flags that have been taken.    *)
(***************************************************************************)
Taken == UNION {Bits(f, flags) : f \in flags \ todo}

LoopInv ==
  /\ flags \subseteq FileOpenFlag
  /\ todo \subseteq flags
  /\ final_flags = {"O_CLOEXEC"} \cup Taken

\* The loop invariant holds.
LEMMA LoopInvariance == Spec => []LoopInv
<1>1. Init => LoopInv
  BY DEF Init, LoopInv, Taken
<1>2. ASSUME LoopInv, [Next]_vars
      PROVE  LoopInv'
  <2>1. CASE UNCHANGED vars
    BY <1>2, <2>1 DEF vars, LoopInv, Taken
  <2>2. CASE enum_flags_to_int_flags
    <3>1. PICK f \in todo : /\ final_flags' = final_flags \cup Bits(f, flags)
                            /\ todo' = todo \ {f}
      BY <2>2 DEF enum_flags_to_int_flags
    <3>2. UNCHANGED flags
      BY <2>2 DEF enum_flags_to_int_flags
    <3>3. flags \ todo' = (flags \ todo) \cup {f}
      BY <1>2, <3>1 DEF LoopInv
    <3>4. Taken' = Taken \cup Bits(f, flags)
      <4>1. Taken' = UNION {Bits(g, flags) : g \in (flags \ todo) \cup {f}}
        BY <3>2, <3>3 DEF Taken
      <4> QED  BY <4>1 DEF Taken
    <3> QED  BY <1>2, <3>1, <3>2, <3>4 DEF LoopInv
  <2> QED  BY <1>2, <2>1, <2>2 DEF Next
<1> QED  BY <1>1, <1>2, PTL DEF Spec

\* Each bit, by the flags that set it.
LEMMA BitsOf ==
  ASSUME NEW fs \in SUBSET FileOpenFlag
  PROVE  /\ "O_PATH" \in AllBits(fs) <=> "PATH" \in fs
         /\ "O_NOFOLLOW" \in AllBits(fs) <=> "NO_FOLLOW" \in fs
         /\ "__O_TMPFILE" \in AllBits(fs) <=> "TEMPORARY_FILE" \in fs
         /\ "O_DIRECTORY" \in AllBits(fs) <=>
              "TEMPORARY_FILE" \in fs \/ "MUST_BE_DIRECTORY" \in fs
         /\ "O_CREAT" \in AllBits(fs) <=>
              /\ "CREATE_IF_NOT_EXISTS" \in fs \/ "MUST_CREATE" \in fs
              /\ "TEMPORARY_FILE" \notin fs
         /\ "O_EXCL" \in AllBits(fs) <=> "MUST_CREATE" \in fs
         /\ "O_APPEND" \in AllBits(fs) <=> "APPEND" \in fs
         /\ "O_DIRECT" \in AllBits(fs) <=> "DIRECT" \in fs
         /\ "O_NOATIME" \in AllBits(fs) <=> "NO_ACCESS_TIME" \in fs
         /\ "O_TRUNC" \in AllBits(fs) <=> "TRUNCATE" \in fs
<1>1. \A b : b \in AllBits(fs)
               <=> b = "O_CLOEXEC" \/ \E f \in fs : b \in Bits(f, fs)
  BY DEF AllBits
<1>2. ASSUME NEW f \in FileOpenFlag
      PROVE  /\ "O_PATH" \in Bits(f, fs) <=> f = "PATH"
             /\ "O_NOFOLLOW" \in Bits(f, fs) <=> f = "NO_FOLLOW"
             /\ "__O_TMPFILE" \in Bits(f, fs) <=> f = "TEMPORARY_FILE"
             /\ "O_DIRECTORY" \in Bits(f, fs) <=>
                  f \in {"TEMPORARY_FILE", "MUST_BE_DIRECTORY"}
             /\ "O_CREAT" \in Bits(f, fs) <=>
                  /\ f \in {"CREATE_IF_NOT_EXISTS", "MUST_CREATE"}
                  /\ "TEMPORARY_FILE" \notin fs
             /\ "O_EXCL" \in Bits(f, fs) <=> f = "MUST_CREATE"
             /\ "O_APPEND" \in Bits(f, fs) <=> f = "APPEND"
             /\ "O_DIRECT" \in Bits(f, fs) <=> f = "DIRECT"
             /\ "O_NOATIME" \in Bits(f, fs) <=> f = "NO_ACCESS_TIME"
             /\ "O_TRUNC" \in Bits(f, fs) <=> f = "TRUNCATE"
  BY DEF FileOpenFlag, Bits, Creating
<1> QED  BY <1>1, <1>2

\* With PATH, what is there is opened, unless it has to be a directory.
LEMMA OpenedPath ==
  ASSUME NEW fs \in SUBSET FileOpenFlag, NEW mode \in Modes,
         NEW path \in Paths, "PATH" \in fs
  PROVE  LET there == IF path = "link" /\ "NO_FOLLOW" \notin fs THEN "file"
                      ELSE path
         IN  Opened(AllBits(fs), mode, path) =
               IF \/ there = "absent"
                  \/ /\ "TEMPORARY_FILE" \in fs \/ "MUST_BE_DIRECTORY" \in fs
                     /\ there # "dir"
               THEN "error" ELSE there
<1> DEFINE k == Kept(AllBits(fs))
<1>1. /\ "O_PATH" \in k /\ "O_CREAT" \notin k /\ "__O_TMPFILE" \notin k
      /\ "O_NOFOLLOW" \in k <=> "NO_FOLLOW" \in fs
      /\ "O_DIRECTORY" \in k <=>
           "TEMPORARY_FILE" \in fs \/ "MUST_BE_DIRECTORY" \in fs
  BY BitsOf DEF Kept
<1> HIDE DEF k
<1> QED  BY <1>1 DEF Opened, Refused, k

\* With TEMPORARY_FILE, a directory to write in gives an unnamed file.
LEMMA OpenedTemporary ==
  ASSUME NEW fs \in SUBSET FileOpenFlag, NEW mode \in Modes,
         NEW path \in Paths, "PATH" \notin fs, "TEMPORARY_FILE" \in fs
  PROVE  Opened(AllBits(fs), mode, path) =
           IF path = "dir" /\ mode = "write" THEN "unnamed" ELSE "error"
<1> DEFINE k == Kept(AllBits(fs))
<1>1. /\ "O_PATH" \notin k /\ "O_CREAT" \notin k /\ "__O_TMPFILE" \in k
      /\ "O_DIRECTORY" \in k
  BY BitsOf DEF Kept
<1> HIDE DEF k
<1> QED  BY <1>1 DEF Opened, Refused, k, Modes, Paths

\* With neither: the other flags, by what is there.
LEMMA OpenedPlain ==
  ASSUME NEW fs \in SUBSET FileOpenFlag, NEW mode \in Modes,
         NEW path \in Paths, "PATH" \notin fs, "TEMPORARY_FILE" \notin fs
  PROVE  LET o == Opened(AllBits(fs), mode, path)
             creates == "CREATE_IF_NOT_EXISTS" \in fs \/ "MUST_CREATE" \in fs
         IN  /\ path = "absent" =>
                  o = IF creates /\ "MUST_BE_DIRECTORY" \notin fs
                      THEN "created" ELSE "error"
             /\ path = "file" =>
                  o = IF "MUST_CREATE" \in fs \/ "MUST_BE_DIRECTORY" \in fs
                      THEN "error" ELSE "file"
             /\ path = "link" =>
                  o = IF \/ "NO_FOLLOW" \in fs
                         \/ "MUST_CREATE" \in fs \/ "MUST_BE_DIRECTORY" \in fs
                      THEN "error" ELSE "file"
             /\ path = "dir" =>
                  o = IF mode = "write" \/ creates \/ "TRUNCATE" \in fs
                           \/ "DIRECT" \in fs
                      THEN "error" ELSE "dir"
<1> DEFINE k == Kept(AllBits(fs))
<1>1. /\ "O_PATH" \notin k /\ "__O_TMPFILE" \notin k
      /\ "O_NOFOLLOW" \in k <=> "NO_FOLLOW" \in fs
      /\ "O_DIRECTORY" \in k <=> "MUST_BE_DIRECTORY" \in fs
      /\ "O_CREAT" \in k <=>
           "CREATE_IF_NOT_EXISTS" \in fs \/ "MUST_CREATE" \in fs
      /\ "O_EXCL" \in k <=> "MUST_CREATE" \in fs
      /\ "O_DIRECT" \in k <=> "DIRECT" \in fs
      /\ "O_TRUNC" \in k <=> "TRUNCATE" \in fs
  BY BitsOf DEF Kept
<1> HIDE DEF k
<1>2. CASE path = "absent"
  BY <1>1, <1>2 DEF Opened, Refused, k
<1>3. CASE path = "file"
  BY <1>1, <1>3 DEF Opened, Refused, k
<1>4. CASE path = "link"
  BY <1>1, <1>4 DEF Opened, Refused, k
<1>5. CASE path = "dir"
  BY <1>1, <1>5 DEF Opened, Refused, k
<1> QED  BY <1>2, <1>3, <1>4, <1>5 DEF Paths

\* What the flags of a set do to a path is what their comments say.
LEMMA BitsDocumented ==
  ASSUME NEW fs \in SUBSET FileOpenFlag, NEW mode \in Modes, NEW path \in Paths
  PROVE  Documented(fs, AllBits(fs), mode, path)
<1> DEFINE o == Opened(AllBits(fs), mode, path)
           less == fs \ {"CREATE_IF_NOT_EXISTS"}
           oless == Opened(AllBits(less), mode, path)
<1>1. less \in SUBSET FileOpenFlag
  OBVIOUS
<1>2. /\ "O_PATH" \in Kept(AllBits(fs)) <=> "PATH" \in fs
      /\ "PATH" \notin fs =>
           /\ "O_APPEND" \in Kept(AllBits(fs)) <=> "APPEND" \in fs
           /\ "O_DIRECT" \in Kept(AllBits(fs)) <=> "DIRECT" \in fs
           /\ "O_NOATIME" \in Kept(AllBits(fs)) <=> "NO_ACCESS_TIME" \in fs
           /\ "O_TRUNC" \in Kept(AllBits(fs)) <=> "TRUNCATE" \in fs
  BY BitsOf DEF Kept
<1>3. path \in {"absent", "file", "dir", "link"} /\ mode \in {"read", "write"}
  BY DEF Paths, Modes
<1>4. CASE "PATH" \in fs
  <2>1. LET there == IF path = "link" /\ "NO_FOLLOW" \notin fs THEN "file"
                     ELSE path
        IN  o = IF \/ there = "absent"
                   \/ /\ "TEMPORARY_FILE" \in fs \/ "MUST_BE_DIRECTORY" \in fs
                      /\ there # "dir"
                THEN "error" ELSE there
    BY <1>4, OpenedPath
  <2>2. oless = o
    BY <1>1, <1>4, <2>1, OpenedPath
  <2> HIDE DEF o, oless
  <2>3. Documented(fs, AllBits(fs), mode, path)
    BY <1>2, <1>3, <1>4, <2>1, <2>2 DEF Documented, o, oless, Creators
  <2> QED  BY <2>3
<1>5. CASE "PATH" \notin fs /\ "TEMPORARY_FILE" \in fs
  <2>1. o = IF path = "dir" /\ mode = "write" THEN "unnamed" ELSE "error"
    BY <1>5, OpenedTemporary
  <2>2. oless = o
    BY <1>1, <1>5, <2>1, OpenedTemporary
  <2> HIDE DEF o, oless
  <2> QED
    BY <1>2, <1>3, <1>5, <2>1, <2>2 DEF Documented, o, oless, Creators
<1>6. CASE "PATH" \notin fs /\ "TEMPORARY_FILE" \notin fs
  <2>1. LET creates == "CREATE_IF_NOT_EXISTS" \in fs \/ "MUST_CREATE" \in fs
        IN  /\ path = "absent" =>
                 o = IF creates /\ "MUST_BE_DIRECTORY" \notin fs
                     THEN "created" ELSE "error"
            /\ path = "file" =>
                 o = IF "MUST_CREATE" \in fs \/ "MUST_BE_DIRECTORY" \in fs
                     THEN "error" ELSE "file"
            /\ path = "link" =>
                 o = IF \/ "NO_FOLLOW" \in fs
                        \/ "MUST_CREATE" \in fs \/ "MUST_BE_DIRECTORY" \in fs
                     THEN "error" ELSE "file"
            /\ path = "dir" =>
                 o = IF mode = "write" \/ creates \/ "TRUNCATE" \in fs
                          \/ "DIRECT" \in fs
                     THEN "error" ELSE "dir"
    BY <1>6, OpenedPlain
  <2>2. path \in {"file", "link"} => oless = o
    BY <1>1, <1>6, <2>1, OpenedPlain
  <2> HIDE DEF o, oless
  <2> QED
    BY <1>2, <1>3, <1>6, <2>1, <2>2 DEF Documented, o, oless, Creators
<1> QED  BY <1>4, <1>5, <1>6

\* Any combination of open flags, taken in any order, does to a path what the
\* comments of FileOpenFlag say, as far as they agree.
THEOREM OpensRight == Spec => []OpensAsDocumented
<1>1. ASSUME LoopInv, todo = {}, NEW mode \in Modes, NEW path \in Paths
      PROVE  Documented(flags, final_flags, mode, path)
  <2>1. flags \in SUBSET FileOpenFlag /\ final_flags = AllBits(flags)
    BY <1>1 DEF LoopInv, Taken, AllBits
  <2> QED  BY <2>1, BitsDocumented
<1>2. LoopInv => OpensAsDocumented
  BY <1>1 DEF OpensAsDocumented
<1> QED  BY <1>2, LoopInvariance, PTL
-----------------------------------------------------------------------------
(***************************************************************************)
(* make_sqe_flags and from_bits_truncate.                                  *)
(***************************************************************************)

\* A bit of a number, between those below and those above it.
LEMMA BitAt ==
  ASSUME NEW w \in {1, 2, 4, 8, 16, 32, 64}, NEW low \in 0 .. (w - 1),
         NEW b \in {0, 1}, NEW high \in 0 .. 127
  PROVE  ((low + w * b + 2 * w * high) \div w) % 2 = b
<1>1. w * b + 2 * w * high = w * (b + 2 * high)
  OBVIOUS
<1>2. (low + w * (b + 2 * high)) \div w = b + 2 * high
  OBVIOUS
<1>3. (b + 2 * high) % 2 = b
  OBVIOUS
<1> QED  BY <1>1, <1>2, <1>3

\* The seven bits of a byte.
LEMMA SevenBits ==
  ASSUME NEW b1 \in {0, 1}, NEW b2 \in {0, 1}, NEW b3 \in {0, 1},
         NEW b4 \in {0, 1}, NEW b5 \in {0, 1}, NEW b6 \in {0, 1},
         NEW b7 \in {0, 1}, NEW n,
         n = b1 + 2 * b2 + 4 * b3 + 8 * b4 + 16 * b5 + 32 * b6 + 64 * b7
  PROVE  /\ (n \div 1) % 2 = b1 /\ (n \div 2) % 2 = b2
         /\ (n \div 4) % 2 = b3 /\ (n \div 8) % 2 = b4
         /\ (n \div 16) % 2 = b5 /\ (n \div 32) % 2 = b6
         /\ (n \div 64) % 2 = b7
<1>1. (n \div 1) % 2 = b1
  <2> DEFINE low == 0
             high == b2 + 2 * b3 + 4 * b4 + 8 * b5 + 16 * b6 + 32 * b7
  <2>1. /\ n = low + 1 * b1 + 2 * 1 * high
        /\ low \in 0 .. (1 - 1) /\ high \in 0 .. 127
    OBVIOUS
  <2> HIDE DEF low, high
  <2>2. ((low + 1 * b1 + 2 * 1 * high) \div 1) % 2 = b1
    BY <2>1, BitAt
  <2> QED  BY <2>1, <2>2
<1>2. (n \div 2) % 2 = b2
  <2> DEFINE low == b1
             high == b3 + 2 * b4 + 4 * b5 + 8 * b6 + 16 * b7
  <2>1. /\ n = low + 2 * b2 + 2 * 2 * high
        /\ low \in 0 .. (2 - 1) /\ high \in 0 .. 127
    OBVIOUS
  <2> HIDE DEF low, high
  <2>2. ((low + 2 * b2 + 2 * 2 * high) \div 2) % 2 = b2
    BY <2>1, BitAt
  <2> QED  BY <2>1, <2>2
<1>3. (n \div 4) % 2 = b3
  <2> DEFINE low == b1 + 2 * b2
             high == b4 + 2 * b5 + 4 * b6 + 8 * b7
  <2>1. /\ n = low + 4 * b3 + 2 * 4 * high
        /\ low \in 0 .. (4 - 1) /\ high \in 0 .. 127
    OBVIOUS
  <2> HIDE DEF low, high
  <2>2. ((low + 4 * b3 + 2 * 4 * high) \div 4) % 2 = b3
    BY <2>1, BitAt
  <2> QED  BY <2>1, <2>2
<1>4. (n \div 8) % 2 = b4
  <2> DEFINE low == b1 + 2 * b2 + 4 * b3
             high == b5 + 2 * b6 + 4 * b7
  <2>1. /\ n = low + 8 * b4 + 2 * 8 * high
        /\ low \in 0 .. (8 - 1) /\ high \in 0 .. 127
    OBVIOUS
  <2> HIDE DEF low, high
  <2>2. ((low + 8 * b4 + 2 * 8 * high) \div 8) % 2 = b4
    BY <2>1, BitAt
  <2> QED  BY <2>1, <2>2
<1>5. (n \div 16) % 2 = b5
  <2> DEFINE low == b1 + 2 * b2 + 4 * b3 + 8 * b4
             high == b6 + 2 * b7
  <2>1. /\ n = low + 16 * b5 + 2 * 16 * high
        /\ low \in 0 .. (16 - 1) /\ high \in 0 .. 127
    OBVIOUS
  <2> HIDE DEF low, high
  <2>2. ((low + 16 * b5 + 2 * 16 * high) \div 16) % 2 = b5
    BY <2>1, BitAt
  <2> QED  BY <2>1, <2>2
<1>6. (n \div 32) % 2 = b6
  <2> DEFINE low == b1 + 2 * b2 + 4 * b3 + 8 * b4 + 16 * b5
             high == b7
  <2>1. /\ n = low + 32 * b6 + 2 * 32 * high
        /\ low \in 0 .. (32 - 1) /\ high \in 0 .. 127
    OBVIOUS
  <2> HIDE DEF low, high
  <2>2. ((low + 32 * b6 + 2 * 32 * high) \div 32) % 2 = b6
    BY <2>1, BitAt
  <2> QED  BY <2>1, <2>2
<1>7. (n \div 64) % 2 = b7
  <2> DEFINE low == b1 + 2 * b2 + 4 * b3 + 8 * b4 + 16 * b5 + 32 * b6
             high == 0
  <2>1. /\ n = low + 64 * b7 + 2 * 64 * high
        /\ low \in 0 .. (64 - 1) /\ high \in 0 .. 127
    OBVIOUS
  <2> HIDE DEF low, high
  <2>2. ((low + 64 * b7 + 2 * 64 * high) \div 64) % 2 = b7
    BY <2>1, BitAt
  <2> QED  BY <2>1, <2>2
<1> QED  BY <1>1, <1>2, <1>3, <1>4, <1>5, <1>6, <1>7

\* The byte of a set of keywords gives back the set.
LEMMA RoundTrip ==
  ASSUME NEW r \in SUBSET DOMAIN Bit
  PROVE  from_bits_truncate(make_sqe_flags(r)) = r
<1> DEFINE B(k) == IF k \in r THEN 1 ELSE 0
           n == make_sqe_flags(r)
<1>1. \A k : B(k) \in {0, 1} /\ (B(k) = 1 <=> k \in r)
  OBVIOUS
<1>2. n = B("fixed_file") + 2 * B("io_drain") + 4 * B("io_link")
            + 8 * B("io_hardlink") + 16 * B("io_async")
            + 32 * B("buffer_select") + 64 * B("skip_success")
  <2> DEFINE asked == <<"fixed_file" \in r, "io_drain" \in r, "io_link" \in r,
                        "io_hardlink" \in r, "io_async" \in r,
                        "buffer_select" \in r, "skip_success" \in r>>
             Value(i) == IF asked[i] THEN Bit[Keywords[i]] ELSE 0
  <2>1. /\ Bit[Keywords[1]] = 1 /\ Bit[Keywords[2]] = 2
        /\ Bit[Keywords[3]] = 4 /\ Bit[Keywords[4]] = 8
        /\ Bit[Keywords[5]] = 16 /\ Bit[Keywords[6]] = 32
        /\ Bit[Keywords[7]] = 64
    BY DEF Bit, Keywords
  <2>2. /\ asked[1] <=> "fixed_file" \in r
        /\ asked[2] <=> "io_drain" \in r
        /\ asked[3] <=> "io_link" \in r
        /\ asked[4] <=> "io_hardlink" \in r
        /\ asked[5] <=> "io_async" \in r
        /\ asked[6] <=> "buffer_select" \in r
        /\ asked[7] <=> "skip_success" \in r
    BY Zenon
  <2>3. n = Value(1) + Value(2) + Value(3) + Value(4) + Value(5) + Value(6)
              + Value(7)
    BY DEF make_sqe_flags, make_uring_flags
  <2> HIDE DEF asked, n
  <2> QED  BY <2>1, <2>2, <2>3
<1> HIDE DEF B, n
<1>3. /\ (n \div 1) % 2 = B("fixed_file") /\ (n \div 2) % 2 = B("io_drain")
      /\ (n \div 4) % 2 = B("io_link") /\ (n \div 8) % 2 = B("io_hardlink")
      /\ (n \div 16) % 2 = B("io_async")
      /\ (n \div 32) % 2 = B("buffer_select")
      /\ (n \div 64) % 2 = B("skip_success")
  <2>1. /\ B("fixed_file") \in {0, 1} /\ B("io_drain") \in {0, 1}
        /\ B("io_link") \in {0, 1} /\ B("io_hardlink") \in {0, 1}
        /\ B("io_async") \in {0, 1} /\ B("buffer_select") \in {0, 1}
        /\ B("skip_success") \in {0, 1}
    BY <1>1
  <2> DEFINE c1 == B("fixed_file")
             c2 == B("io_drain")
             c3 == B("io_link")
             c4 == B("io_hardlink")
             c5 == B("io_async")
             c6 == B("buffer_select")
             c7 == B("skip_success")
  <2>2. /\ c1 \in {0, 1} /\ c2 \in {0, 1} /\ c3 \in {0, 1} /\ c4 \in {0, 1}
        /\ c5 \in {0, 1} /\ c6 \in {0, 1} /\ c7 \in {0, 1}
        /\ n = c1 + 2 * c2 + 4 * c3 + 8 * c4 + 16 * c5 + 32 * c6 + 64 * c7
    BY <1>2, <2>1
  <2> HIDE DEF c1, c2, c3, c4, c5, c6, c7
  <2>3. /\ (n \div 1) % 2 = c1 /\ (n \div 2) % 2 = c2
        /\ (n \div 4) % 2 = c3 /\ (n \div 8) % 2 = c4
        /\ (n \div 16) % 2 = c5 /\ (n \div 32) % 2 = c6
        /\ (n \div 64) % 2 = c7
    BY <2>2, SevenBits
  <2> QED  BY <2>3 DEF c1, c2, c3, c4, c5, c6, c7
<1>4. \A k \in DOMAIN Bit : (n \div Bit[k]) % 2 = B(k)
  BY <1>3 DEF Bit
<1> QED  BY <1>1, <1>4 DEF from_bits_truncate, n

\* The flags the prep functions read back are those the client asked for.
THEOREM FlagsSurvive == Spec => []FlagsArrive
<1> DEFINE Inv == request \subseteq DOMAIN Bit
<1>1. Init => Inv
  BY DEF Init
<1>2. Inv /\ [Next]_vars => Inv'
  BY DEF Next, enum_flags_to_int_flags, vars
<1>3. Inv => FlagsArrive
  BY RoundTrip DEF FlagsArrive
<1> QED  BY <1>1, <1>2, <1>3, PTL DEF Spec
-----------------------------------------------------------------------------
(***************************************************************************)
(* create_io_ring and io_uring_setup.                                      *)
(***************************************************************************)

\* A size within the bounds is rounded up to the least power of two.
LEMMA RoundedUp ==
  ASSUME NEW n \in Int, n <= 2 * MaxEntries
  PROVE  /\ RoundUp(n) \in Powers /\ n <= RoundUp(n)
         /\ \A q \in Powers : n <= q => RoundUp(n) <= q
<1>1. n <= 65536
  BY SizesAssumption DEF Powers
<1>2. \E p \in Powers : n <= p /\ \A q \in Powers : n <= q => p <= q
  BY <1>1 DEF Powers
<1> QED  BY <1>2 DEF RoundUp

\* The sizes create_io_ring asks for leave no submission without a slot for
\* its completion.
LEMMA QueueSizes ==
  ASSUME NEW entries \in Int, NEW cq_size \in Int,
         entries \in 1 .. MaxEntries, cq_size <= 2 * MaxEntries
  PROVE  LET cqsize == CqSize(entries, OrZero(cq_size))
             sq == RoundUp(entries)
             cq == IF cqsize = 0 THEN 2 * sq ELSE RoundUp(cqsize)
         IN  /\ sq \in Int /\ cq \in Int
             /\ entries <= sq /\ cq_size <= cq /\ sq <= cq
<1> DEFINE cqsize == CqSize(entries, OrZero(cq_size))
           sq == RoundUp(entries)
           cq == IF cqsize = 0 THEN 2 * sq ELSE RoundUp(cqsize)
<1> SUFFICES /\ sq \in Int /\ cq \in Int
             /\ entries <= sq /\ cq_size <= cq /\ sq <= cq
  OBVIOUS
<1>1. MaxEntries \in Nat /\ Powers \subseteq Nat
  BY SizesAssumption DEF Powers
<1>2. /\ sq \in Powers /\ entries <= sq
      /\ \A q \in Powers : entries <= q => sq <= q
  <2>1. entries <= 2 * MaxEntries
    BY <1>1
  <2> QED  BY <2>1, RoundedUp
<1>3. CASE cq_size > entries
  <2>1. cqsize = cq_size /\ cqsize # 0
    BY <1>3 DEF CqSize, OrZero
  <2>2. cq = RoundUp(cq_size)
    BY <2>1
  <2>3. cq \in Powers /\ cq_size <= cq
    BY <2>2, RoundedUp
  <2> HIDE DEF sq, cq
  <2>4. entries <= cq
    BY <1>1, <1>3, <2>3
  <2> QED  BY <1>1, <1>2, <2>3, <2>4
<1>4. CASE ~(cq_size > entries)
  <2>1. cqsize = 0
    BY <1>4 DEF CqSize, OrZero
  <2>2. cq = 2 * sq
    BY <2>1
  <2> HIDE DEF sq, cq
  <2>3. sq \in Nat
    BY <1>1, <1>2
  <2> QED  BY <1>1, <1>2, <1>4, <2>2, <2>3
<1> QED  BY <1>3, <1>4

\* Sizes within the bounds give a ring on a recent kernel, with room for all
\* that was asked for; an older kernel is refused.
THEOREM SetupWorks == Spec => []SetupHonoured
<1> DEFINE Inv == setup \in Setup
<1>1. Init => Inv
  <2>1. PICK n \in Sizes, v \in Versions : TRUE
    BY SizesAssumption, VersionsAssumption
  <2>2. [entries |-> n, cq_size |-> n, sqpoll_idle_ms |-> n,
         single_issuer |-> FALSE, kernel |-> v, readable |-> TRUE] \in Setup
    BY <2>1 DEF Setup
  <2>3. Defaults \in Setup
    BY <2>2 DEF Defaults
  <2> QED  BY <2>3 DEF Init
<1>2. Inv /\ [Next]_vars => Inv'
  BY DEF Next, enum_flags_to_int_flags, vars
<1>3. ASSUME Inv
      PROVE  SetupHonoured
  <2> DEFINE s == setup
             r == make_io_ring(s)
             recent == HasSubmitAll(s.kernel)
             cqsize == CqSize(s.entries, OrZero(s.cq_size))
             polled == OrZero(s.sqpoll_idle_ms) > 0
             single == s.single_issuer /\ Reported(s)[1] >= 6
  <2>1. /\ s.entries \in Int /\ s.cq_size \in Int /\ s.sqpoll_idle_ms \in Int
        /\ s.kernel[1] \in Nat /\ s.kernel[2] \in Nat /\ MaxEntries \in Nat
    <3>1. /\ s.entries \in Sizes /\ s.cq_size \in Sizes
          /\ s.sqpoll_idle_ms \in Sizes /\ s.kernel \in Versions
      BY <1>3 DEF Setup
    <3>2. Versions \subseteq Nat \X Nat /\ Sizes \subseteq Int
      BY SizesAssumption, VersionsAssumption
    <3>3. s.kernel \in Nat \X Nat
      BY <3>1, <3>2
    <3>4. MaxEntries \in Nat
      BY SizesAssumption DEF Powers
    <3> QED  BY <3>1, <3>2, <3>3, <3>4
  <2>2. SUFFICES ASSUME s.entries \in 1 .. MaxEntries,
                        s.cq_size <= 2 * MaxEntries
                 PROVE  IF ~recent THEN r.error # "none"
                        ELSE /\ r.error = "none"
                             /\ r.sq >= s.entries /\ r.cq >= s.cq_size
                             /\ r.cq >= r.sq
                             /\ r.sqpoll <=> s.sqpoll_idle_ms > 0
    BY DEF SetupHonoured
  <2> HIDE DEF s
  <2>3. recent => ~TooOld(Reported(s))
    BY <2>1 DEF TooOld, Reported, HasSubmitAll
  <2>4. r = IF TooOld(Reported(s)) THEN Fail("OSError")
            ELSE io_uring_setup(s.entries, cqsize, polled, single, s.kernel)
    BY <2>1, <2>2 DEF make_io_ring, create_io_ring
  <2>5. CASE ~recent
    <3>1. io_uring_setup(s.entries, cqsize, polled, single, s.kernel)
            = Fail("OSError")
      BY <2>5 DEF io_uring_setup
    <3>2. r = Fail("OSError")
      BY <2>4, <3>1
    <3>3. r.error = "OSError"
      BY <3>2 DEF Fail
    <3> QED  BY <2>5, <3>3
  <2>6. CASE recent
    <3> DEFINE sq == RoundUp(s.entries)
               cq == IF cqsize = 0 THEN 2 * sq ELSE RoundUp(cqsize)
    <3>1. cqsize \in Int /\ cqsize <= 2 * MaxEntries
      BY <2>1, <2>2 DEF CqSize, OrZero
    <3>2. /\ sq \in Int /\ cq \in Int
          /\ s.entries <= sq /\ s.cq_size <= cq /\ sq <= cq
      BY <2>1, <2>2, QueueSizes
    <3> HIDE DEF sq, cq, cqsize
    <3>3. r = [error |-> "none", sq |-> sq, cq |-> cq, sqpoll |-> polled,
               single |-> single]
      <4>1. ~(s.entries > MaxEntries \/ cqsize > 2 * MaxEntries \/ cq < sq)
        BY <2>1, <2>2, <3>1, <3>2
      <4> QED  BY <2>3, <2>4, <2>6, <4>1 DEF io_uring_setup, sq, cq
    <3>4. polled <=> s.sqpoll_idle_ms > 0
      BY <2>1 DEF OrZero
    <3> HIDE DEF polled, single, r, recent
    <3>5. /\ r.error = "none" /\ r.sq = sq /\ r.cq = cq /\ r.sqpoll = polled
      BY <3>3
    <3> QED  BY <2>1, <2>6, <3>2, <3>4, <3>5
  <2> QED  BY <2>5, <2>6
<1> QED  BY <1>1, <1>2, <1>3, PTL DEF Spec
=============================================================================
