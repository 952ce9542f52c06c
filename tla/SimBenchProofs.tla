---------------------------- MODULE SimBenchProofs ----------------------------
(***************************************************************************)
(* Proofs about SimBench, for every number of drives, images, sectors,     *)
(* words, files, delay and latency.                                        *)
(***************************************************************************)
EXTENDS SimBench, FiniteSetTheorems, WellFoundedInduction, TLAPS

USE BlockDeviceAssumption

-----------------------------------------------------------------------------
(* The walk over the drives *)

LEMMA NatOrder ==
  \E R : IsWellFoundedOn(R, Nat) /\ \A x, y \in Nat : x < y => <<x, y>> \in R
<1>1. \A x, y \in Nat : x < y => <<x, y>> \in OpToRel(<, Nat)
  BY DEF OpToRel
<1> QED
  BY <1>1, NatLessThanWellFounded, Zenon

LEMMA LeastNat ==
  ASSUME NEW T, T \subseteq Nat, T # {}
  PROVE  \E m \in T : \A n \in T : m <= n
<1>1. PICK R : IsWellFoundedOn(R, Nat) /\ \A x, y \in Nat : x < y => <<x, y>> \in R
  BY NatOrder
<1>2. PICK m \in T : \A n \in T : ~ (<<n, m>> \in R)
  <2>1. IsWellFoundedOn(R, Nat)
    BY <1>1, Zenon
  <2>2. T \subseteq Nat /\ T # {}
    OBVIOUS
  <2> QED
    BY <2>1, <2>2, WFMin, Zenon
<1>3. ASSUME NEW n \in T, n < m PROVE FALSE
  <2>1. n \in Nat /\ m \in Nat
    OBVIOUS
  <2>2. <<n, m>> \in R
    BY <1>1, <1>3, <2>1, Zenon
  <2> QED
    BY <1>2, <2>2, Zenon
<1> QED
  BY <1>3

LEMMA Upwards ==
  ASSUME NEW N \in Nat, NEW T, 0 \in T, \A n \in 0 .. N - 1 : n \in T => n + 1 \in T
  PROVE  0 .. N \subseteq T
<1> SUFFICES ASSUME (0 .. N) \ T # {} PROVE FALSE
  OBVIOUS
<1>1. (0 .. N) \ T \subseteq Nat
  OBVIOUS
<1>2. PICK m \in (0 .. N) \ T : \A n \in (0 .. N) \ T : m <= n
  BY <1>1, LeastNat
<1>3. m # 0 /\ m - 1 \in 0 .. N - 1 /\ m - 1 \in T
  BY <1>2
<1> QED
  BY <1>2, <1>3

\* f[k] holds what the first k visits of a call lead to.
Walk(s, c, n, f) ==
  f = [k \in 0 .. n |-> IF k = 0 THEN {s} ELSE UNION {Visit(t, k - 1, c) : t \in f[k - 1]}]

LEMMA WalkExists ==
  ASSUME NEW s, NEW c
  PROVE  \E f : Walk(s, c, Drives, f)
<1> DEFINE T == {n \in Nat : \E f : Walk(s, c, n, f)}
<1>1. 0 \in T
  <2>1. Walk(s, c, 0, [k \in 0 .. 0 |-> {s}])
    BY DEF Walk
  <2> QED
    BY <2>1
<1>2. ASSUME NEW n \in 0 .. Drives - 1, n \in T PROVE n + 1 \in T
  <2>1. PICK f : Walk(s, c, n, f)
    BY <1>2
  <2> DEFINE g == [k \in 0 .. n + 1 |->
                     IF k <= n THEN f[k] ELSE UNION {Visit(t, n, c) : t \in f[n]}]
  <2> DEFINE F(h, k) == IF k = 0 THEN {s} ELSE UNION {Visit(t, k - 1, c) : t \in h[k - 1]}
  <2>2. ASSUME NEW k \in 0 .. n + 1 PROVE g[k] = F(g, k)
    <3>1. CASE k = 0
      BY <2>1, <3>1 DEF Walk
    <3>2. CASE k \in 1 .. n
      <4>1. f[k] = UNION {Visit(t, k - 1, c) : t \in f[k - 1]}
        BY <2>1, <3>2 DEF Walk
      <4>2. g[k] = f[k] /\ g[k - 1] = f[k - 1] /\ k # 0
        BY <3>2
      <4> HIDE DEF g
      <4> QED
        BY <4>1, <4>2
    <3>3. CASE k = n + 1
      <4>1. g[k] = UNION {Visit(t, n, c) : t \in f[n]} /\ g[k - 1] = f[n] /\ k - 1 = n /\ k # 0
        BY <3>3
      <4> HIDE DEF g
      <4> QED
        BY <4>1
    <3> QED
      BY <3>1, <3>2, <3>3
  <2>3. g = [k \in 0 .. n + 1 |-> F(g, k)]
    <3>1. g = [k \in 0 .. n + 1 |-> g[k]]
      OBVIOUS
    <3> HIDE DEF g, F
    <3> QED
      BY <2>2, <3>1
  <2>4. Walk(s, c, n + 1, g)
    BY <2>3, Zenon DEF Walk
  <2> QED
    BY <2>4
<1>3. Drives \in T
  <2> HIDE DEF T
  <2> QED
    BY <1>1, <1>2, Upwards
<1> QED
  BY <1>3

\* What every visit carries on holds when the call is over.
LEMMA Walked ==
  ASSUME NEW s, NEW c, NEW D, s \in D[0],
         \A k \in 0 .. Drives - 1 : \A t \in D[k] : Visit(t, k, c) \subseteq D[k + 1]
  PROVE  BeforeEval(s, c) \subseteq D[Drives]
<1>1. PICK f : Walk(s, c, Drives, f) /\ BeforeEval(s, c) = f[Drives]
  <2>1. PICK f : Walk(s, c, Drives, f)
    BY WalkExists
  <2> DEFINE g == CHOOSE h : Walk(s, c, Drives, h)
  <2>2. Walk(s, c, Drives, g)
    BY <2>1, Zenon
  <2>3. BeforeEval(s, c) = g[Drives]
    BY DEF Walk, BeforeEval
  <2> QED
    BY <2>2, <2>3, Zenon
<1> DEFINE T == {k \in 0 .. Drives : f[k] \subseteq D[k]}
<1>2. 0 \in T
  BY <1>1 DEF Walk
<1>3. ASSUME NEW k \in 0 .. Drives - 1, k \in T PROVE k + 1 \in T
  <2>1. f[k + 1] = UNION {Visit(t, k, c) : t \in f[k]}
    <3>1. k + 1 \in 0 .. Drives /\ k + 1 # 0 /\ (k + 1) - 1 = k
      OBVIOUS
    <3>2. f[k + 1] = UNION {Visit(t, (k + 1) - 1, c) : t \in f[(k + 1) - 1]}
      BY <1>1, <3>1, Zenon DEF Walk
    <3> QED
      BY <3>1, <3>2
  <2>2. f[k] \subseteq D[k]
    BY <1>3
  <2> QED
    BY <2>1, <2>2
<1>4. Drives \in T
  <2> HIDE DEF T
  <2> QED
    BY <1>2, <1>3, Upwards
<1> QED
  BY <1>1, <1>4

-----------------------------------------------------------------------------
(* What the device and the targets keep *)

\* Nothing has been on the bus before the first word.
Data   == Image \cup {0}
Device ==
  [current_disk : Used \cup {None}, ack_delay : Nat, reading : BOOLEAN, writing : BOOLEAN,
   bytecnt : 0 .. Words, sd_ack : SUBSET Used, buff_addr : Word, buff_dout : Data,
   buff_wr : BOOLEAN, mountQueue : SUBSET Used, img_mounted : SUBSET Used,
   img_size : Used \cup {None}, pos : [Used -> Lba],
   disk : [Used -> [Lba -> [Word -> Data]]]]
Core == [rd : SUBSET Used, wr : SUBSET Used, lba : [Used -> Lba], din : [Used -> Data]]
TargetState ==
  [st : {"idle", "asked", "window", "done"}, op : {"read", "write"}, lba : Lba,
   write : 0 .. Requests, fill : Nat, q_a : Data, buf : [Word -> Data]]

DiskTypes ==
  /\ dev \in Device /\ q \in [Used -> TargetState]
  /\ requests \in 0 .. Requests /\ target \in Used \cup {None}

-----------------------------------------------------------------------------
(* The invariant behind the sectors.  s is the device in the middle of a    *)
(* call, k the drive whose visit is next; the targets stand still.          *)

\* A transfer is the current drive's, strobes are a read's; a drive becomes
\* the current one for a request.
Rules(s) ==
  /\ busy(s) => s.current_disk # None /\ s.ack_delay > 0
  /\ s.buff_wr => s.reading
  /\ s.reading => q[s.current_disk].op = "read"
  /\ s.writing => q[s.current_disk].op = "write"
  /\ s.current_disk \notin {None, dev.current_disk} => q[s.current_disk].st = "asked"

\* The n-th write of a sector up to one word, an older one from there.
part(d, l, n, m, b) == [w \in Word |-> IF w < b THEN image(d, l, n)[w] ELSE image(d, l, m)[w]]

\* A write under way: the target shows its own sector, the image holds the
\* words taken so far.
Written(s) ==
  LET d == s.current_disk
      l == s.pos[d]
  IN s.writing =>
       /\ q[d].buf = image(d, l, q[d].write) /\ q[d].write <= requests
       /\ s.bytecnt < Words => s.buff_addr = s.bytecnt
       /\ \E m \in 0 .. requests : s.disk[d][l] = part(d, l, q[d].write, m, s.bytecnt)

\* The word the target's buffer shows is the next of the write, before the
\* visit that takes it.
Shown(s, k) ==
  LET d == s.current_disk
  IN s.writing /\ d >= k /\ s.bytecnt < Words =>
       q[d].q_a = image(d, s.pos[d], q[d].write)[s.bytecnt]

Wholes(s) ==
  \A d \in Used, l \in Lba :
    ~(s.writing /\ s.current_disk = d /\ s.pos[d] = l) =>
      \E n \in 0 .. requests : s.disk[d][l] = image(d, l, n)

Sectors(s, k) == Rules(s) /\ Written(s) /\ Shown(s, k) /\ Wholes(s)

\* What a target gives to a write is ready when it asks.
Offered ==
  \A d \in Used :
    q[d].st = "asked" /\ q[d].op = "write" =>
      q[d].buf = image(d, q[d].lba, q[d].write) /\ q[d].write <= requests

DiskInv == DiskTypes /\ Sectors(dev, 0) /\ Offered

-----------------------------------------------------------------------------
(* One visit, register by register *)

LEMMA DrivesAreNumbers == Used \cup {None} \subseteq Int
<1>1. \A d \in Used : d \in 0 .. Drives - 1
  OBVIOUS
<1>2. None \in Int
  BY DEF None
<1> QED
  BY <1>1, <1>2

LEMMA VisitIs ==
  ASSUME NEW s, NEW i, NEW c
  PROVE  Visit(s, i, c) = {Acknowledge(Start(Mount(Transfer(s, i, c), i), i, c), i)}
  BY Zenon DEF Visit

LEMMA CoreType == ASSUME DiskTypes PROVE deviceSees \in Core
<1>1. asks("read") \in SUBSET Used /\ asks("write") \in SUBSET Used
  BY DEF asks
<1>2. [d \in Used |-> q[d].lba] \in [Used -> Lba] /\ [d \in Used |-> q[d].q_a] \in [Used -> Data]
  BY DEF DiskTypes, TargetState
<1> QED
  BY <1>1, <1>2 DEF deviceSees, Request, Core

\* Transfer leaves mounts, delays and who is served alone.
TransferKeeps(s, t) ==
  /\ t.current_disk = s.current_disk /\ t.ack_delay = s.ack_delay /\ t.sd_ack = s.sd_ack
  /\ t.mountQueue = s.mountQueue /\ t.img_mounted = s.img_mounted /\ t.img_size = s.img_size
  /\ t.pos = s.pos

LEMMA TransferMoves ==
  ASSUME NEW s \in Device, NEW i \in Drive, NEW c \in Core
  PROVE  /\ Transfer(s, i, c) \in Device
         /\ TransferKeeps(s, Transfer(s, i, c))
<1>1. CASE s.current_disk # i
  BY <1>1 DEF Transfer, TransferKeeps
<1>2. CASE s.current_disk = i
  <2>1. i \in Used /\ s.pos[i] \in Lba /\ c.din[i] \in Data
    BY <1>2 DEF Device, Core, Drive, None
  <2>2. s.bytecnt < Words => s.bytecnt \in Word /\ s.bytecnt + 1 \in 0 .. Words
    BY DEF Device, Word
  <2>3. 0 \in Word /\ (s.bytecnt + 1 < Words => s.bytecnt + 1 \in Word)
    BY DEF Device, Word
  <2>4. ASSUME s.bytecnt < Words
        PROVE  WriteWord(s, i, c) \in Device /\ TransferKeeps(s, WriteWord(s, i, c))
    <3> DEFINE nd == [s.disk EXCEPT ![i][s.pos[i]][s.bytecnt] = c.din[i]]
               na == IF s.bytecnt + 1 < Words THEN s.bytecnt + 1 ELSE 0
    <3>1. s.disk \in [Used -> [Lba -> [Word -> Data]]]
      BY DEF Device
    <3>2. nd \in [Used -> [Lba -> [Word -> Data]]]
      BY <2>1, <2>2, <2>4, <3>1
    <3>3. na \in Word /\ s.bytecnt + 1 \in 0 .. Words
      BY <2>2, <2>3, <2>4
    <3>4. WriteWord(s, i, c) = [s EXCEPT !.disk = nd, !.bytecnt = s.bytecnt + 1, !.buff_addr = na]
      BY DEF WriteWord, Device
    <3> HIDE DEF nd, na
    <3> QED
      BY <3>2, <3>3, <3>4 DEF Device, TransferKeeps
  <2>5. ASSUME s.bytecnt < Words
        PROVE  ReadWord(s, i) \in Device /\ TransferKeeps(s, ReadWord(s, i))
    <3>1. s.disk[i][s.pos[i]][s.bytecnt] \in Data
      BY <2>1, <2>2, <2>5 DEF Device
    <3> QED
      BY <2>2, <2>5, <3>1 DEF ReadWord, Device, TransferKeeps
  <2>6. CASE s.ack_delay # 1
    BY <1>2, <2>6 DEF Transfer, TransferKeeps, Device
  <2>7. CASE s.ack_delay = 1
    <3>1. \/ s.bytecnt < Words /\ Transfer(s, i, c) \in {ReadWord(s, i), WriteWord(s, i, c)}
          \/ Transfer(s, i, c) = [s EXCEPT !.buff_addr = 0, !.writing = FALSE]
          \/ Transfer(s, i, c) = [s EXCEPT !.buff_wr = FALSE,
                                           !.reading = s.reading /\ s.bytecnt < Words]
      BY <1>2, <2>7 DEF Transfer, Device
    <3>2. CASE s.bytecnt < Words /\ Transfer(s, i, c) \in {ReadWord(s, i), WriteWord(s, i, c)}
      BY <2>4, <2>5, <3>2
    <3>3. CASE Transfer(s, i, c) = [s EXCEPT !.buff_addr = 0, !.writing = FALSE]
      BY <2>3, <3>3 DEF Device, TransferKeeps
    <3>4. CASE Transfer(s, i, c) = [s EXCEPT !.buff_wr = FALSE,
                                             !.reading = s.reading /\ s.bytecnt < Words]
      BY <3>4 DEF Device, TransferKeeps
    <3> QED
      BY <3>1, <3>2, <3>3, <3>4
  <2> QED
    BY <2>6, <2>7
<1> QED
  BY <1>1, <1>2

\* What a visit does to a transfer.
stands(s, t) ==
  /\ t.reading = s.reading /\ t.writing = s.writing /\ t.bytecnt = s.bytecnt
  /\ t.disk = s.disk /\ t.buff_wr = s.buff_wr /\ t.buff_addr = s.buff_addr
  /\ t.buff_dout = s.buff_dout
pauses(s, t) ==
  /\ s.ack_delay # 1
  /\ t.reading = s.reading /\ t.writing = s.writing /\ t.bytecnt = s.bytecnt
  /\ t.disk = s.disk /\ t.buff_wr = FALSE /\ t.buff_addr = s.buff_addr
  /\ t.buff_dout = s.buff_dout
reads(s, t, i) ==
  /\ s.ack_delay = 1 /\ s.reading /\ ~s.buff_wr /\ s.bytecnt < Words
  /\ t.reading = s.reading /\ t.writing = s.writing /\ t.bytecnt = s.bytecnt + 1
  /\ t.disk = s.disk /\ t.buff_wr = TRUE /\ t.buff_addr = s.bytecnt
  /\ t.buff_dout = s.disk[i][s.pos[i]][s.bytecnt]
writes(s, t, i, c) ==
  /\ s.ack_delay = 1 /\ s.writing /\ s.bytecnt < Words
  /\ t.reading = s.reading /\ t.writing = s.writing /\ t.bytecnt = s.bytecnt + 1
  /\ t.disk = [s.disk EXCEPT ![i][s.pos[i]][s.bytecnt] = c.din[i]]
  /\ t.buff_wr = s.buff_wr
  /\ t.buff_addr = IF s.bytecnt + 1 < Words THEN s.bytecnt + 1 ELSE 0
  /\ t.buff_dout = s.buff_dout
writeEnds(s, t) ==
  /\ s.ack_delay = 1 /\ s.writing /\ s.bytecnt = Words
  /\ t.reading = s.reading /\ t.writing = FALSE /\ t.bytecnt = s.bytecnt
  /\ t.disk = s.disk /\ t.buff_wr = s.buff_wr /\ t.buff_addr = 0
  /\ t.buff_dout = s.buff_dout
strobeEnds(s, t) ==
  /\ s.ack_delay = 1 /\ ~s.writing
  /\ t.reading = (s.reading /\ s.bytecnt < Words) /\ t.writing = s.writing
  /\ t.bytecnt = s.bytecnt
  /\ t.disk = s.disk /\ t.buff_wr = FALSE /\ t.buff_addr = s.buff_addr
  /\ t.buff_dout = s.buff_dout

LEMMA TransferCases ==
  ASSUME NEW s \in Device, NEW i \in Drive, NEW c \in Core
  PROVE  LET t == Transfer(s, i, c)
         IN IF s.current_disk # i THEN t = s
            ELSE \/ pauses(s, t) \/ reads(s, t, i) \/ writes(s, t, i, c)
                 \/ writeEnds(s, t) \/ strobeEnds(s, t)
<1> DEFINE t == Transfer(s, i, c)
<1>1. CASE s.current_disk # i
  BY <1>1 DEF Transfer
<1>2. CASE s.current_disk = i /\ s.ack_delay # 1
  BY <1>2 DEF Transfer, pauses, Device
<1>3. CASE s.current_disk = i /\ s.ack_delay = 1
  <2>1. CASE s.reading /\ ~s.buff_wr /\ s.bytecnt < Words
    <3>1. t = ReadWord(s, i)
      BY <1>3, <2>1 DEF Transfer
    <3>2. reads(s, t, i)
      BY <1>3, <2>1, <3>1 DEF ReadWord, reads, Device
    <3> QED
      BY <1>3, <3>2
  <2>2. CASE ~(s.reading /\ ~s.buff_wr) /\ s.writing /\ s.bytecnt < Words
    <3>1. t = WriteWord(s, i, c)
      BY <1>3, <2>2 DEF Transfer
    <3>2. writes(s, t, i, c)
      BY <1>3, <2>2, <3>1 DEF WriteWord, writes, Device
    <3> QED
      BY <1>3, <3>2
  <2>3. CASE s.writing /\ s.bytecnt = Words
    <3>1. t = [s EXCEPT !.buff_addr = 0, !.writing = FALSE]
      BY <1>3, <2>3 DEF Transfer
    <3>2. writeEnds(s, t)
      BY <1>3, <2>3, <3>1 DEF writeEnds, Device
    <3> QED
      BY <1>3, <3>2
  <2>4. CASE /\ ~(s.reading /\ ~s.buff_wr /\ s.bytecnt < Words)
             /\ ~(~(s.reading /\ ~s.buff_wr) /\ s.writing /\ s.bytecnt < Words)
             /\ ~(s.writing /\ s.bytecnt = Words)
    <3>1. t = [s EXCEPT !.buff_wr = FALSE, !.reading = s.reading /\ s.bytecnt < Words]
      BY <1>3, <2>4 DEF Transfer, Device
    <3>2. ~s.writing
      BY <2>4 DEF Device
    <3>3. strobeEnds(s, t)
      BY <1>3, <3>1, <3>2 DEF strobeEnds, Device
    <3> QED
      BY <1>3, <3>3
  <2> QED
    BY <2>1, <2>2, <2>3, <2>4
<1> QED
  BY <1>1, <1>2, <1>3

\* A mount changes what is queued and announced, and the counter of an idle device.
LEMMA MountMoves ==
  ASSUME NEW s \in Device, NEW i \in Drive
  PROVE  LET t == Mount(s, i)
         IN /\ t \in Device /\ stands(s, t)
            /\ t.current_disk = s.current_disk /\ t.sd_ack = s.sd_ack /\ t.pos = s.pos
            /\ busy(s) => t.ack_delay = s.ack_delay
<1> DEFINE t == Mount(s, i)
           starts == ~busy(s) /\ i \in s.mountQueue /\ s.img_mounted = {}
           ends == s.ack_delay = 1 /\ i \in s.img_mounted
<1>1. CASE starts
  <2>1. t = [s EXCEPT !.mountQueue = s.mountQueue \ {i}, !.img_size = i,
                      !.img_mounted = s.img_mounted \cup {i}, !.ack_delay = MountDelay]
    BY <1>1 DEF Mount, Device
  <2>2. i \in Used
    BY <1>1 DEF Device
  <2> DEFINE queue == s.mountQueue \ {i}
             up    == s.img_mounted \cup {i}
  <2>3. queue \in SUBSET Used /\ up \in SUBSET Used /\ MountDelay \in Nat
    BY <2>2 DEF Device
  <2>4. t = [s EXCEPT !.mountQueue = queue, !.img_size = i, !.img_mounted = up,
                      !.ack_delay = MountDelay]
    BY <2>1
  <2> HIDE DEF queue, up, t
  <2>5. t \in Device /\ stands(s, t) /\ t.current_disk = s.current_disk
        /\ t.sd_ack = s.sd_ack /\ t.pos = s.pos
    BY <2>2, <2>3, <2>4 DEF Device, stands
  <2> QED
    BY <1>1, <2>5 DEF t
<1>2. CASE ~starts /\ ends
  <2>1. t = [s EXCEPT !.img_mounted = s.img_mounted \ {i}]
    BY <1>2 DEF Mount, Device
  <2> QED
    BY <1>2, <2>1 DEF Device, stands
<1>3. CASE ~starts /\ ~ends
  <2>1. t = [s EXCEPT !.ack_delay = IF ~busy(s) /\ s.ack_delay > 0 THEN s.ack_delay - 1
                                                                 ELSE s.ack_delay]
    BY <1>3 DEF Mount, Device
  <2>2. (IF ~busy(s) /\ s.ack_delay > 0 THEN s.ack_delay - 1 ELSE s.ack_delay) \in Nat
    BY DEF Device
  <2> QED
    BY <1>3, <2>1, <2>2 DEF Device, stands
<1> QED
  BY <1>1, <1>2, <1>3

\* A request is taken by a device that is free or the drive's, and begins when
\* the counter is free.
claims(s, i, c) == s.current_disk \in {None, i} /\ i \in c.rd \cup c.wr
begun(s, t, i, c) ==
  /\ t.reading <=> s.reading \/ i \in c.rd
  /\ t.writing <=> s.writing \/ i \in c.wr
  /\ t.bytecnt = 0 /\ t.buff_addr = 0 /\ t.ack_delay = Latency
  /\ t.pos = [s.pos EXCEPT ![i] = c.lba[i]]
  /\ t.disk = s.disk /\ t.buff_wr = s.buff_wr /\ t.buff_dout = s.buff_dout

LEMMA StartMoves ==
  ASSUME NEW s \in Device, NEW i \in Drive, NEW c \in Core
  PROVE  LET t == Start(s, i, c)
         IN /\ t \in Device
            /\ t.sd_ack = s.sd_ack /\ t.mountQueue = s.mountQueue
            /\ t.img_mounted = s.img_mounted /\ t.img_size = s.img_size
            /\ IF ~claims(s, i, c) THEN t = s
               ELSE /\ i \in Used /\ t.current_disk = i
                    /\ IF s.ack_delay = 0 THEN begun(s, t, i, c)
                       ELSE stands(s, t) /\ t.ack_delay = s.ack_delay /\ t.pos = s.pos
<1> DEFINE t == Start(s, i, c)
<1>1. CASE ~claims(s, i, c)
  BY <1>1 DEF Start, claims
<1>2. CASE claims(s, i, c)
  <2>1. i \in Used /\ c.lba[i] \in Lba
    BY <1>2 DEF claims, Core
  <2>2. CASE s.ack_delay = 0
    <3>1. t = [s EXCEPT !.current_disk = i, !.reading = s.reading \/ i \in c.rd,
                        !.writing = s.writing \/ i \in c.wr, !.pos[i] = c.lba[i],
                        !.bytecnt = 0, !.buff_addr = 0, !.ack_delay = Latency]
      BY <1>2, <2>2 DEF Start, claims, Device
    <3> DEFINE np == [s.pos EXCEPT ![i] = c.lba[i]]
               rd == s.reading \/ i \in c.rd
               wr == s.writing \/ i \in c.wr
    <3>2. 0 \in 0 .. Words /\ 0 \in Word
      BY DEF Word
    <3>3. np \in [Used -> Lba] /\ rd \in BOOLEAN /\ wr \in BOOLEAN
      BY <2>1 DEF Device
    <3>4. t = [s EXCEPT !.current_disk = i, !.reading = rd, !.writing = wr, !.pos = np,
                        !.bytecnt = 0, !.buff_addr = 0, !.ack_delay = Latency]
      BY <3>1 DEF Device
    <3>5. rd = (s.reading \/ i \in c.rd) /\ wr = (s.writing \/ i \in c.wr)
          /\ np = [s.pos EXCEPT ![i] = c.lba[i]]
      OBVIOUS
    <3> HIDE DEF np, rd, wr, t
    <3>6. /\ t \in Device
          /\ t.sd_ack = s.sd_ack /\ t.mountQueue = s.mountQueue
          /\ t.img_mounted = s.img_mounted /\ t.img_size = s.img_size
          /\ t.current_disk = i /\ t.reading = rd /\ t.writing = wr /\ t.pos = np
          /\ t.bytecnt = 0 /\ t.buff_addr = 0 /\ t.ack_delay = Latency
          /\ t.disk = s.disk /\ t.buff_wr = s.buff_wr /\ t.buff_dout = s.buff_dout
      BY <2>1, <3>2, <3>3, <3>4 DEF Device
    <3>7. begun(s, t, i, c)
      BY <3>5, <3>6 DEF begun
    <3> QED
      BY <1>2, <2>1, <2>2, <3>6, <3>7 DEF t
  <2>3. CASE s.ack_delay # 0
    <3>1. t = [s EXCEPT !.current_disk = i]
      BY <1>2, <2>3 DEF Start, claims, Device
    <3> QED
      BY <1>2, <2>1, <2>3, <3>1 DEF stands, Device
  <2> QED
    BY <2>2, <2>3
<1> QED
  BY <1>1, <1>2

LEMMA AcknowledgeMoves ==
  ASSUME NEW s \in Device, NEW i \in Drive
  PROVE  LET t == Acknowledge(s, i)
             left == IF s.ack_delay > 1 \/ (s.ack_delay = 1 /\ ~busy(s))
                     THEN s.ack_delay - 1 ELSE s.ack_delay
         IN /\ t \in Device
            /\ IF s.current_disk # i THEN t = s
               ELSE /\ stands(s, t) /\ t.ack_delay = left /\ t.pos = s.pos
                    /\ t.mountQueue = s.mountQueue /\ t.img_mounted = s.img_mounted
                    /\ t.img_size = s.img_size
                    /\ t.sd_ack = IF s.ack_delay = 1 THEN s.sd_ack \cup {i} ELSE s.sd_ack \ {i}
                    /\ t.current_disk = IF left = 0 /\ ~busy(s) THEN None ELSE i
<1> DEFINE t == Acknowledge(s, i)
           left == IF s.ack_delay > 1 \/ (s.ack_delay = 1 /\ ~busy(s))
                   THEN s.ack_delay - 1 ELSE s.ack_delay
           ack == IF s.ack_delay = 1 THEN s.sd_ack \cup {i} ELSE s.sd_ack \ {i}
           cur == IF left = 0 /\ ~busy(s) THEN None ELSE i
<1>1. CASE s.current_disk # i
  BY <1>1 DEF Acknowledge
<1>2. CASE s.current_disk = i
  <2>1. i \in Used
    BY <1>2 DEF Device, Drive, None
  <2>2. t = [s EXCEPT !.sd_ack = ack, !.ack_delay = left, !.current_disk = cur]
    BY <1>2 DEF Acknowledge, Device
  <2>3. left \in Nat /\ ack \in SUBSET Used /\ cur \in Used \cup {None}
    BY <2>1 DEF Device
  <2> HIDE DEF left, ack, cur
  <2>4. t \in Device /\ stands(s, t) /\ t.ack_delay = left /\ t.pos = s.pos
        /\ t.mountQueue = s.mountQueue /\ t.img_mounted = s.img_mounted
        /\ t.img_size = s.img_size /\ t.sd_ack = ack /\ t.current_disk = cur
    BY <2>2, <2>3 DEF stands, Device
  <2> QED
    BY <1>2, <2>4 DEF left, ack, cur
<1> QED
  BY <1>1, <1>2

-----------------------------------------------------------------------------
(* The sectors through a visit *)

\* A drive that is not asked for is not claimed.
LEMMA AskedFor ==
  ASSUME DiskTypes, NEW i \in Drive
  PROVE  /\ i \in deviceSees.rd <=> i \in Used /\ q[i].st = "asked" /\ q[i].op = "read"
         /\ i \in deviceSees.wr <=> i \in Used /\ q[i].st = "asked" /\ q[i].op = "write"
         /\ i \in Used => deviceSees.lba[i] = q[i].lba /\ deviceSees.din[i] = q[i].q_a
  BY DEF deviceSees, Request, asks

LEMMA Standing ==
  ASSUME DiskTypes, NEW s \in Device, NEW t \in Device, NEW k \in Int, Sectors(s, k),
         stands(s, t), t.pos = s.pos,
         busy(s) => t.current_disk = s.current_disk /\ t.ack_delay > 0,
         t.current_disk \notin {None, s.current_disk} => q[t.current_disk].st = "asked"
  PROVE  Sectors(t, k)
<1>1. Rules(t)
  BY DEF Sectors, Rules, stands, busy
<1>2. Written(t)
  BY DEF Sectors, Written, stands, busy
<1>3. Shown(t, k)
  BY DEF Sectors, Shown, stands, busy
<1>4. Wholes(t)
  BY DEF Sectors, Wholes, stands, busy
<1> QED
  BY <1>1, <1>2, <1>3, <1>4 DEF Sectors

LEMMA TransferSectors ==
  ASSUME DiskTypes, NEW s \in Device, NEW k \in Drive, Sectors(s, k)
  PROVE  Sectors(Transfer(s, k, deviceSees), k + 1)
<1> DEFINE c == deviceSees
           t == Transfer(s, k, c)
<1>1. c \in Core
  BY CoreType
<1>2. t \in Device /\ TransferKeeps(s, t)
  BY <1>1, TransferMoves
<1>3. k \in Int /\ k + 1 \in Int
  BY DEF Drive
<1>4. CASE s.current_disk # k
  <2>1. t = s
    BY <1>1, <1>4, TransferCases
  <2>2. Shown(s, k + 1)
    <3>1. s.current_disk \in Used \cup {None}
      BY DEF Device
    <3>2. s.current_disk \in Int
      BY <3>1, DrivesAreNumbers
    <3> QED
      BY <1>3, <1>4, <3>2 DEF Sectors, Shown
  <2> QED
    BY <2>1, <2>2 DEF Sectors
<1>5. CASE s.current_disk = k
  <2>0. k \in Used
    BY <1>5 DEF Device, Drive, None
  <2>1. Shown(t, k + 1)
    BY <1>2, <1>3, <1>5 DEF Shown, TransferKeeps
  <2>2. pauses(s, t) \/ reads(s, t, k) \/ writes(s, t, k, c) \/ writeEnds(s, t) \/ strobeEnds(s, t)
    BY <1>1, <1>5, TransferCases
  <2>3. Rules(t)
    BY <1>2, <2>2 DEF Sectors, Rules, TransferKeeps, busy, pauses, reads, writes, writeEnds, strobeEnds
  <2>4. CASE ~writes(s, t, k, c) /\ ~writeEnds(s, t)
    <3>1. t.disk = s.disk /\ t.writing = s.writing
          /\ (s.writing => t.bytecnt = s.bytecnt /\ t.buff_addr = s.buff_addr)
      BY <2>2, <2>4 DEF pauses, reads, strobeEnds, Sectors, Rules
    <3>2. Written(t)
      BY <1>2, <3>1 DEF Sectors, Written, TransferKeeps
    <3>3. Wholes(t)
      BY <1>2, <3>1 DEF Sectors, Wholes, TransferKeeps
    <3> QED
      BY <2>1, <2>3, <3>2, <3>3 DEF Sectors
  <2>5. CASE writes(s, t, k, c)
    <3> DEFINE l == s.pos[k]
               b == s.bytecnt
               n == q[k].write
    <3>1. l \in Lba /\ b \in Word /\ s.disk \in [Used -> [Lba -> [Word -> Data]]]
      BY <2>0, <2>5 DEF Device, Word, writes
    <3>2. PICK m \in 0 .. requests : s.disk[k][l] = part(k, l, n, m, b)
      BY <1>5, <2>5 DEF Sectors, Written, writes
    <3>3. c.din[k] = image(k, l, n)[b]
      BY <1>5, <2>0, <2>5, AskedFor DEF Sectors, Shown, writes, Drive
    <3>4. t.disk[k][l] = part(k, l, n, m, b + 1)
      <4>1. t.disk[k][l] = [part(k, l, n, m, b) EXCEPT ![b] = image(k, l, n)[b]]
        BY <2>0, <2>5, <3>1, <3>2, <3>3 DEF writes
      <4>2. ASSUME NEW w \in Word
            PROVE [part(k, l, n, m, b) EXCEPT ![b] = image(k, l, n)[b]][w]
                    = IF w < b + 1 THEN image(k, l, n)[w] ELSE image(k, l, m)[w]
        BY <3>1 DEF part, Word
      <4> QED
        BY <4>1, <4>2 DEF part
    <3>5. \A d \in Used, e \in Lba : d # k \/ e # l => t.disk[d][e] = s.disk[d][e]
      BY <2>0, <2>5, <3>1 DEF writes
    <3>6. Written(t)
      BY <1>2, <1>5, <2>5, <3>1, <3>4 DEF Sectors, Written, TransferKeeps, writes, Word
    <3>7. Wholes(t)
      BY <1>2, <1>5, <2>5, <3>5 DEF Sectors, Wholes, TransferKeeps, writes
    <3> QED
      BY <2>1, <2>3, <3>6, <3>7 DEF Sectors
  <2>6. CASE writeEnds(s, t)
    <3> DEFINE l == s.pos[k]
               n == q[k].write
    <3>1. PICK m \in 0 .. requests : s.disk[k][l] = part(k, l, n, m, Words)
      BY <1>5, <2>6 DEF Sectors, Written, writeEnds
    <3>2. part(k, l, n, m, Words) = image(k, l, n)
      BY DEF part, image, Word
    <3>3. n \in 0 .. requests
      <4>1. n <= requests
        BY <1>5, <2>6 DEF Sectors, Written, writeEnds
      <4> QED
        BY <2>0, <4>1 DEF DiskTypes, TargetState
    <3>4. Wholes(t)
      BY <1>2, <1>5, <2>6, <3>1, <3>2, <3>3 DEF Sectors, Wholes, TransferKeeps, writeEnds
    <3>5. Written(t)
      BY <2>6 DEF Written, writeEnds
    <3> QED
      BY <2>1, <2>3, <3>4, <3>5 DEF Sectors
  <2> QED
    BY <2>4, <2>5, <2>6
<1> QED
  BY <1>4, <1>5

LEMMA StartSectors ==
  ASSUME DiskTypes, Offered, NEW s \in Device, NEW k \in Drive, Sectors(s, k + 1)
  PROVE  Sectors(Start(s, k, deviceSees), k + 1)
<1> DEFINE c == deviceSees
           t == Start(s, k, c)
<1>1. c \in Core
  BY CoreType
<1>2. t \in Device
  BY <1>1, StartMoves
<1>3. k \in Int /\ k + 1 \in Int
  BY DEF Drive
<1>4. CASE ~claims(s, k, c)
  <2>1. t = s
    BY <1>1, <1>4, StartMoves
  <2> QED
    BY <2>1
<1>5. CASE claims(s, k, c) /\ s.ack_delay # 0
  <2>1. t.current_disk = k /\ stands(s, t) /\ t.ack_delay = s.ack_delay /\ t.pos = s.pos
    BY <1>1, <1>5, StartMoves
  <2>2. busy(s) => t.current_disk = s.current_disk /\ t.ack_delay > 0
    BY <1>5, <2>1 DEF claims, Sectors, Rules
  <2>3. q[k].st = "asked"
    BY <1>5, AskedFor DEF claims
  <2> QED
    BY <1>2, <1>3, <2>1, <2>2, <2>3, Standing
<1>6. CASE claims(s, k, c) /\ s.ack_delay = 0
  <2>1. k \in Used /\ t.current_disk = k /\ begun(s, t, k, c)
    BY <1>1, <1>6, StartMoves
  <2>2. q[k].st = "asked" /\ q[k].lba \in Lba /\ c.lba[k] = q[k].lba
    BY <1>6, <2>1, AskedFor DEF claims, DiskTypes, TargetState
  <2>3. ~s.reading /\ ~s.writing /\ ~s.buff_wr
    BY <1>6 DEF Sectors, Rules, busy
  <2>4. /\ t.reading <=> q[k].op = "read"
        /\ t.writing <=> q[k].op = "write"
    BY <1>6, <2>1, <2>2, <2>3, AskedFor DEF begun, claims
  <2>5. t.pos[k] = q[k].lba
    BY <2>1, <2>2 DEF begun, Device
  <2>6. k # None
    BY DEF Drive, None
  <2>7. Rules(t)
    BY <2>1, <2>2, <2>3, <2>4, <2>6 DEF Rules, begun, busy
  <2>8. \A d \in Used, l \in Lba : \E n \in 0 .. requests : t.disk[d][l] = image(d, l, n)
    BY <2>1, <2>3 DEF Sectors, Wholes, begun
  <2>9. Written(t)
    <3> SUFFICES ASSUME t.writing PROVE Written(t)
      BY DEF Written
    <3>1. q[k].buf = image(k, t.pos[k], q[k].write) /\ q[k].write <= requests
      BY <2>1, <2>2, <2>4, <2>5 DEF Offered
    <3>2. PICK m \in 0 .. requests : t.disk[k][t.pos[k]] = image(k, t.pos[k], m)
      BY <2>1, <2>2, <2>5, <2>8
    <3>3. image(k, t.pos[k], m) = part(k, t.pos[k], q[k].write, m, 0)
      BY DEF image, part, Word
    <3> QED
      BY <2>1, <3>1, <3>2, <3>3 DEF Written, begun
  <2>10. Shown(t, k + 1)
    BY <1>3, <2>1 DEF Shown
  <2>11. Wholes(t)
    BY <2>8 DEF Wholes
  <2> QED
    BY <2>7, <2>9, <2>10, <2>11 DEF Sectors
<1> QED
  BY <1>4, <1>5, <1>6

LEMMA VisitSectors ==
  ASSUME DiskTypes, Offered, NEW s \in Device, NEW k \in Drive, Sectors(s, k)
  PROVE  \A t \in Visit(s, k, deviceSees) : t \in Device /\ Sectors(t, k + 1)
<1> DEFINE c == deviceSees
           s1 == Transfer(s, k, c)
           s2 == Mount(s1, k)
           s3 == Start(s2, k, c)
           t == Acknowledge(s3, k)
<1>1. c \in Core /\ k + 1 \in Int
  BY CoreType DEF Drive
<1>2. s1 \in Device /\ Sectors(s1, k + 1)
  BY <1>1, TransferMoves, TransferSectors
<1> HIDE DEF s1
<1>3. s2 \in Device /\ stands(s1, s2) /\ s2.current_disk = s1.current_disk /\ s2.pos = s1.pos
      /\ (busy(s1) => s2.ack_delay = s1.ack_delay)
  BY <1>2, MountMoves
<1> HIDE DEF s2
<1>4. Sectors(s2, k + 1)
  <2>1. busy(s1) => s1.ack_delay > 0
    BY <1>2 DEF Sectors, Rules
  <2> QED
    BY <1>1, <1>2, <1>3, <2>1, Standing
<1>5. s3 \in Device /\ Sectors(s3, k + 1)
  BY <1>1, <1>3, <1>4, StartMoves, StartSectors
<1> HIDE DEF s3
<1>6. t \in Device /\ Sectors(t, k + 1)
  <2>1. CASE s3.current_disk # k
    <3>1. t = s3
      BY <1>5, <2>1, AcknowledgeMoves
    <3> QED
      BY <1>5, <3>1
  <2>2. CASE s3.current_disk = k
    <3>1. busy(s3) => s3.ack_delay > 0
      BY <1>5 DEF Sectors, Rules
    <3>2. /\ t \in Device /\ stands(s3, t) /\ t.pos = s3.pos
          /\ t.ack_delay = IF s3.ack_delay > 1 \/ (s3.ack_delay = 1 /\ ~busy(s3))
                           THEN s3.ack_delay - 1 ELSE s3.ack_delay
          /\ t.current_disk \in {None, k}
          /\ busy(s3) => t.current_disk = k
      BY <1>5, <2>2, AcknowledgeMoves
    <3>3. s3.ack_delay \in Nat
      BY <1>5 DEF Device
    <3>4. busy(s3) => t.ack_delay > 0
      BY <3>1, <3>2, <3>3
    <3> QED
      BY <1>1, <1>5, <2>2, <3>2, <3>4, Standing
  <2> QED
    BY <2>1, <2>2
<1> QED
  BY <1>6, VisitIs DEF s1, s2, s3

\* A clock of the device, running or not.
LEMMA CallSectors ==
  ASSUME DiskInv, NEW t
  PROVE  t \in BeforeEval(dev, deviceSees) \cup {dev} =>
           t \in Device /\ (Sectors(t, Drives) \/ t = dev)
<1> DEFINE D == [k \in 0 .. Drives |-> {s \in Device : Sectors(s, k)}]
<1>1. dev \in D[0]
  BY DEF DiskInv, DiskTypes
<1>2. \A k \in 0 .. Drives - 1 : \A s \in D[k] : Visit(s, k, deviceSees) \subseteq D[k + 1]
  <2> SUFFICES ASSUME NEW k \in 0 .. Drives - 1, NEW s \in D[k],
                      NEW u \in Visit(s, k, deviceSees)
               PROVE  u \in D[k + 1]
    OBVIOUS
  <2>1. s \in Device /\ Sectors(s, k) /\ k \in Drive /\ k + 1 \in 0 .. Drives
    BY DEF Drive
  <2>2. u \in Device /\ Sectors(u, k + 1)
    BY <2>1, VisitSectors DEF DiskInv
  <2> QED
    BY <2>1, <2>2
<1>3. D[Drives] = {s \in Device : Sectors(s, Drives)}
  OBVIOUS
<1> HIDE DEF D
<1>4. BeforeEval(dev, deviceSees) \subseteq D[Drives]
  BY <1>1, <1>2, Walked
<1> QED
  BY <1>3, <1>4 DEF DiskInv, DiskTypes

-----------------------------------------------------------------------------
(* A clock of the targets *)

\* What a clock does to a target that does not ask in it.
kept(d) ==
  /\ q'[d].op = q[d].op /\ q'[d].lba = q[d].lba /\ q'[d].write = q[d].write
  /\ q'[d].q_a = q[d].buf[dev'.buff_addr] /\ q'[d].buf = Buffer(d)

acked(d) == d \in dev'.sd_ack /\ q[d].st # "idle"

\* A step and a fill of it, or a bus reset that lets it go.
goesOn(d) ==
  /\ kept(d)
  /\ \/ /\ q'[d].st = CASE q[d].st = "asked" /\ acked(d) -> "window"
                        [] q[d].st = "window" /\ ~acked(d) -> "done"
                        [] q[d].st = "done" -> "idle" [] OTHER -> q[d].st
        /\ q'[d].fill = IF ~acked(d) THEN IF q[d].st = "window" THEN q[d].fill ELSE 0
                        ELSE IF dev'.buff_wr /\ q[d].fill < 2 * Words - 1 THEN q[d].fill + 1
                             ELSE q[d].fill
     \/ q'[d].st = "idle"

\* A request that begins now.
asksNow(d) ==
  /\ \A e \in Used : q[e].st = "idle"
  /\ capacity[d] # None /\ (n_reset \/ target = d) /\ dev.current_disk # d
  /\ requests' = requests + 1 /\ target' = d
  /\ q'[d].st = "asked" /\ q'[d].write = requests' /\ q'[d].fill = 0
  /\ q'[d].op = "write" => q'[d].buf = image(d, q'[d].lba, requests')

LEMMA BufferType ==
  ASSUME NEW d \in Used, q[d] \in TargetState, dev' \in Device
  PROVE  Buffer(d) \in [Word -> Data] /\ q[d].buf[dev'.buff_addr] \in Data
  BY DEF Buffer, TargetState, Device

LEMMA TargetFields ==
  ASSUME NEW d \in Used, q[d] \in TargetState, dev' \in Device
  PROVE  /\ Target(d) \in TargetState
         /\ Target(d).op = q[d].op /\ Target(d).lba = q[d].lba /\ Target(d).write = q[d].write
         /\ Target(d).q_a = q[d].buf[dev'.buff_addr] /\ Target(d).buf = Buffer(d)
         /\ Target(d).st = CASE q[d].st = "asked" /\ acked(d) -> "window"
                             [] q[d].st = "window" /\ ~acked(d) -> "done"
                             [] q[d].st = "done" -> "idle" [] OTHER -> q[d].st
         /\ Target(d).fill = IF ~acked(d) THEN IF q[d].st = "window" THEN q[d].fill ELSE 0
                             ELSE IF dev'.buff_wr /\ q[d].fill < 2 * Words - 1 THEN q[d].fill + 1
                                  ELSE q[d].fill
<1> DEFINE s == CASE q[d].st = "asked" /\ acked(d) -> "window"
                  [] q[d].st = "window" /\ ~acked(d) -> "done"
                  [] q[d].st = "done" -> "idle" [] OTHER -> q[d].st
           a == q[d].buf[dev'.buff_addr]
           f == IF ~acked(d) THEN IF q[d].st = "window" THEN q[d].fill ELSE 0
                ELSE IF dev'.buff_wr /\ q[d].fill < 2 * Words - 1 THEN q[d].fill + 1
                     ELSE q[d].fill
           b == Buffer(d)
<1>1. b \in [Word -> Data] /\ a \in Data
  BY BufferType
<1>2. s \in {"idle", "asked", "window", "done"}
  BY DEF TargetState
<1>3. f \in Nat
  BY DEF TargetState
<1>4. Target(d) = [q[d] EXCEPT !.st = s, !.buf = b, !.q_a = a, !.fill = f]
  BY DEF Target, acked, TargetState
<1> HIDE DEF s, a, f, b
<1>5. /\ Target(d) \in TargetState
      /\ Target(d).op = q[d].op /\ Target(d).lba = q[d].lba /\ Target(d).write = q[d].write
      /\ Target(d).q_a = a /\ Target(d).buf = b /\ Target(d).st = s /\ Target(d).fill = f
  BY <1>1, <1>2, <1>3, <1>4 DEF TargetState
<1> QED
  BY <1>5 DEF s, a, f, b

LEMMA ImageType ==
  ASSUME NEW d \in Used, NEW l \in Lba, NEW n \in 0 .. Requests
  PROVE  image(d, l, n) \in [Word -> Data] /\ \A w \in Word : image(d, l, n)[w] \in Image
  BY DEF image, Image, Data

LEMMA TargetsMove ==
  ASSUME DiskTypes, dev' \in Device, Next
  PROVE  /\ (DiskTypes)'
         /\ requests' >= requests
         /\ \A d \in Used : goesOn(d) \/ asksNow(d)
         /\ target' # target => target' = None \/ asksNow(target')
<1>1. Quiet \/ (\E d \in Used, op \in {"read", "write"}, l \in Lba : Ask(d, op, l)) \/ BusReset
  BY DEF Next, Tick, MenuReset, MenuLoad, Clock
<1>2. \A d \in Used : q[d] \in TargetState
  BY DEF DiskTypes
<1>3. requests \in 0 .. Requests /\ Requests \in Nat /\ target \in Used \cup {None}
  BY DEF DiskTypes
<1>4. CASE Quiet
  <2>1. ASSUME NEW d \in Used PROVE q'[d] = Target(d) /\ goesOn(d)
    BY <1>2, <1>4, TargetFields DEF Quiet, goesOn, kept
  <2>2. q' \in [Used -> TargetState]
    BY <1>2, <1>4, TargetFields DEF Quiet
  <2> QED
    BY <1>3, <1>4, <2>1, <2>2 DEF Quiet, DiskTypes
<1>5. ASSUME NEW e \in Used, NEW op \in {"read", "write"}, NEW l \in Lba, Ask(e, op, l)
      PROVE  /\ (DiskTypes)' /\ requests' >= requests
             /\ \A d \in Used : goesOn(d) \/ asksNow(d)
             /\ target' # target => asksNow(target')
  <2> DEFINE r == [st |-> "asked", op |-> op, lba |-> l, write |-> requests', fill |-> 0,
                   q_a |-> Target(e).q_a,
                   buf |-> IF op = "write" THEN image(e, l, requests') ELSE Target(e).buf]
  <2>1. requests' = requests + 1 /\ requests' \in 0 .. Requests
    BY <1>3, <1>5 DEF Ask
  <2>2. Target(e) \in TargetState
    BY <1>2, TargetFields
  <2>3. Target(e).q_a \in Data /\ Target(e).buf \in [Word -> Data]
    BY <2>2 DEF TargetState
  <2>4. r \in TargetState
    BY <2>1, <2>3, ImageType DEF TargetState
  <2>5. q' = [d \in Used |-> IF d # e THEN Target(d) ELSE r]
    BY <1>5, Zenon DEF Ask
  <2>6. q' \in [Used -> TargetState]
    <3>1. \A d \in Used : Target(d) \in TargetState
      BY <1>2, TargetFields
    <3> HIDE DEF r
    <3> QED
      BY <2>4, <2>5, <3>1
  <2>7. asksNow(e)
    <3>1. q'[e] = r
      BY <2>5
    <3> QED
      BY <1>5, <2>1, <3>1 DEF Ask, asksNow
  <2>8. ASSUME NEW d \in Used, d # e PROVE goesOn(d)
    <3>1. q'[d] = Target(d)
      BY <2>5, <2>8
    <3> QED
      BY <1>2, <3>1, TargetFields DEF goesOn, kept
  <2>9. target' = e
    BY <1>5 DEF Ask
  <2> QED
    BY <1>3, <2>1, <2>6, <2>7, <2>8, <2>9 DEF DiskTypes
<1>6. CASE BusReset
  <2>1. ASSUME NEW d \in Used PROVE q'[d] \in TargetState /\ goesOn(d)
    <3>1. q'[d] = [Target(d) EXCEPT !.st = "idle", !.fill = 0]
      BY <1>6 DEF BusReset
    <3>2. Target(d) \in TargetState
      BY <1>2, TargetFields
    <3>3. \A u \in TargetState :
            LET v == [u EXCEPT !.st = "idle", !.fill = 0]
            IN v \in TargetState /\ v.st = "idle" /\ v.op = u.op /\ v.lba = u.lba
               /\ v.write = u.write /\ v.q_a = u.q_a /\ v.buf = u.buf
      BY DEF TargetState
    <3>4. q'[d] \in TargetState /\ q'[d].st = "idle" /\ q'[d].op = Target(d).op
          /\ q'[d].lba = Target(d).lba /\ q'[d].write = Target(d).write
          /\ q'[d].q_a = Target(d).q_a /\ q'[d].buf = Target(d).buf
      BY <3>1, <3>2, <3>3, Zenon
    <3> QED
      BY <1>2, <3>4, TargetFields DEF goesOn, kept
  <2>2. q' \in [Used -> TargetState]
    <3>1. q' = [d \in Used |-> q'[d]]
      BY <1>6 DEF BusReset
    <3> QED
      BY <2>1, <3>1
  <2>3. requests' = requests /\ target' = None
    BY <1>6 DEF BusReset
  <2>4. (DiskTypes)'
    BY <1>3, <2>2, <2>3 DEF DiskTypes
  <2> QED
    BY <1>3, <2>1, <2>3, <2>4
<1> QED
  BY <1>1, <1>4, <1>5, <1>6

\* The drive the device is at work on does not ask.
LEMMA AtWork ==
  ASSUME DiskInv, NEW k \in Int, Sectors(dev', k), dev' \in Device,
         NEW d \in Used, asksNow(d)
  PROVE  dev'.current_disk # d
  BY DEF asksNow, Sectors, Rules, None

LEMMA DiskStep == ASSUME DiskInv, [Next]_vars PROVE (DiskInv)'
<1>1. CASE UNCHANGED vars
  <2>1. dev' = dev /\ q' = q /\ requests' = requests /\ target' = target
    BY <1>1 DEF vars, scsiVars
  <2> QED
    BY <2>1 DEF DiskInv, DiskTypes, Sectors, Rules, Written, Shown, Wholes, Offered
<1>2. CASE Next
  <2>1. dev' \in BeforeEval(dev, deviceSees) \cup {dev}
    BY <1>2 DEF Next, Tick, MenuReset, MenuLoad, Clock
  <2>2. dev' \in Device /\ (Sectors(dev', Drives) \/ dev' = dev)
    BY <2>1, CallSectors
  <2>3. PICK k \in Int : Sectors(dev', k)
    BY <2>2 DEF DiskInv
  <2>4. /\ (DiskTypes)' /\ requests' >= requests
        /\ \A d \in Used : goesOn(d) \/ asksNow(d)
    BY <1>2, <2>2, TargetsMove DEF DiskInv
  <2>5. requests \in Nat /\ requests' \in Nat /\ 0 .. requests \subseteq 0 .. requests'
    BY <2>4 DEF DiskInv, DiskTypes
  <2> DEFINE d == dev'.current_disk
  <2>6. busy(dev') => d \in Used /\ goesOn(d)
    <3> SUFFICES ASSUME busy(dev') PROVE d \in Used /\ goesOn(d)
      OBVIOUS
    <3>1. d \in Used
      BY <2>2, <2>3 DEF Sectors, Rules, Device
    <3>2. ~asksNow(d)
      BY <2>2, <2>3, <3>1, AtWork
    <3> QED
      BY <2>4, <3>1, <3>2
  <2>7. Rules(dev)'
    <3>1. /\ dev'.reading => q'[d].op = "read"
          /\ dev'.writing => q'[d].op = "write"
      BY <2>3, <2>6 DEF Sectors, Rules, goesOn, kept, busy
    <3>2. /\ busy(dev') => d # None /\ dev'.ack_delay > 0
          /\ dev'.buff_wr => dev'.reading
      BY <2>3 DEF Sectors, Rules
    <3> QED
      BY <3>1, <3>2 DEF Rules, busy
  <2>8. dev'.writing => q'[d].buf = q[d].buf /\ q'[d].write = q[d].write
    <3>1. dev'.writing => ~dev'.buff_wr
      BY <2>3 DEF Sectors, Rules
    <3> QED
      BY <2>6, <3>1 DEF goesOn, kept, busy, Buffer
  <2>9. Written(dev)'
    <3> SUFFICES ASSUME dev'.writing PROVE Written(dev)'
      BY DEF Written
    <3>1. d \in Used /\ q[d].write \in 0 .. Requests /\ dev'.pos[d] \in Lba
      BY <2>2, <2>6 DEF DiskInv, DiskTypes, TargetState, busy, Device
    <3>2. Written(dev')
      BY <2>3 DEF Sectors
    <3>3. /\ q[d].buf = image(d, dev'.pos[d], q[d].write) /\ q[d].write <= requests
          /\ dev'.bytecnt < Words => dev'.buff_addr = dev'.bytecnt
          /\ \E m \in 0 .. requests :
               dev'.disk[d][dev'.pos[d]] = part(d, dev'.pos[d], q[d].write, m, dev'.bytecnt)
      BY <3>2 DEF Written
    <3>4. q[d].write <= requests'
      BY <2>4, <2>5, <3>1, <3>3
    <3> QED
      BY <2>5, <2>8, <3>3, <3>4 DEF Written
  <2>10. Shown(dev, 0)'
    <3> SUFFICES ASSUME dev'.writing, dev'.bytecnt < Words
                 PROVE  q'[d].q_a = image(d, dev'.pos[d], q'[d].write)[dev'.bytecnt]
      BY DEF Shown
    <3>1. q'[d].q_a = q[d].buf[dev'.buff_addr]
      BY <2>6 DEF goesOn, kept, busy
    <3>2. q[d].buf = image(d, dev'.pos[d], q[d].write) /\ dev'.buff_addr = dev'.bytecnt
      BY <2>3 DEF Sectors, Written
    <3> QED
      BY <2>8, <3>1, <3>2
  <2>11. Wholes(dev)'
    <3>1. Wholes(dev')
      BY <2>3 DEF Sectors
    <3> QED
      BY <2>5, <3>1 DEF Wholes
  <2>12. (Offered)'
    <3> SUFFICES ASSUME NEW e \in Used, q'[e].st = "asked", q'[e].op = "write"
                 PROVE  q'[e].buf = image(e, q'[e].lba, q'[e].write) /\ q'[e].write <= requests'
      BY DEF Offered
    <3>1. CASE asksNow(e)
      <4>1. q'[e].write = requests' /\ q'[e].buf = image(e, q'[e].lba, requests')
        BY <3>1 DEF asksNow
      <4> QED
        BY <2>5, <4>1
    <3>2. CASE goesOn(e)
      <4>1. kept(e) /\ q[e].st = "asked" /\ ~acked(e)
        BY <3>2 DEF goesOn
      <4>2. q'[e].buf = q[e].buf /\ q'[e].lba = q[e].lba /\ q'[e].write = q[e].write
            /\ q[e].op = "write"
        BY <4>1 DEF kept, Buffer, acked
      <4>3. q[e].buf = image(e, q[e].lba, q[e].write) /\ q[e].write <= requests
        BY <4>1, <4>2 DEF DiskInv, Offered
      <4>4. q[e].write \in Nat
        BY DEF DiskInv, DiskTypes, TargetState
      <4> QED
        BY <2>4, <2>5, <4>2, <4>3, <4>4
    <3> QED
      BY <2>4, <3>1, <3>2
  <2> QED
    BY <2>2, <2>4, <2>7, <2>9, <2>10, <2>11, <2>12 DEF DiskInv, Sectors
<1> QED
  BY <1>1, <1>2

LEMMA DiskInit == ASSUME Init PROVE DiskInv
<1>1. 0 \in 0 .. Words /\ 0 \in Word /\ 0 \in Data /\ 0 \in 0 .. Requests
  BY DEF Word, Data
<1>2. \A d \in Used, l \in Lba : image(d, l, 0) \in [Word -> Data]
  BY <1>1, ImageType
<1>3. dev = DeviceInit /\ requests = 0 /\ target = None
      /\ q = [d \in Used |-> [st |-> "idle", op |-> "read", lba |-> 0, write |-> 0, fill |-> 0,
                              q_a |-> image(d, 0, 0)[0], buf |-> image(d, 0, 0)]]
  BY DEF Init
<1>4. dev \in Device
  BY <1>1, <1>2, <1>3 DEF DeviceInit, Device
<1>5. q \in [Used -> TargetState]
  BY <1>1, <1>2, <1>3 DEF TargetState
<1>6. DiskTypes
  BY <1>1, <1>3, <1>4, <1>5 DEF DiskTypes
<1>7. ~dev.reading /\ ~dev.writing /\ ~dev.buff_wr /\ dev.current_disk = None
  BY <1>3 DEF DeviceInit
<1>8. Wholes(dev)
  <2>1. \A d \in Used, l \in Lba : dev.disk[d][l] = image(d, l, 0)
    BY <1>3 DEF DeviceInit
  <2> QED
    BY <1>3, <2>1 DEF Wholes
<1>9. Rules(dev) /\ Written(dev) /\ Shown(dev, 0)
  BY <1>7 DEF Rules, Written, Shown, busy
<1>10. Offered
  BY <1>3 DEF Offered
<1> QED
  BY <1>6, <1>8, <1>9, <1>10 DEF DiskInv, Sectors

LEMMA DisksRight == Spec => []DiskInv
<1>1. Init => DiskInv
  BY DiskInit
<1>2. DiskInv /\ [Next]_vars => (DiskInv)'
  BY DiskStep
<1> QED
  BY <1>1, <1>2, PTL DEF Spec

\* A sector the bench's device is not at work on holds the words of one write,
\* each in its place: requests abandoned at a bus reset, pauses of the device
\* and other drives' transfers do not tear it (Transfer in sim_blkdevice.cpp).
THEOREM SectorsStayWhole == Spec => []NeverTorn
<1>1. DiskInv => NeverTorn
  <2> SUFFICES ASSUME DiskInv, NEW d \in Used, dev.current_disk # d, NEW l \in Lba
               PROVE  \E n \in 0 .. requests : dev.disk[d][l] = image(d, l, n)
    BY DEF NeverTorn
  <2> QED
    BY DEF DiskInv, Sectors, Wholes
<1> QED
  BY <1>1, DisksRight, PTL

-----------------------------------------------------------------------------
(* The disks are announced before the machine runs *)

\* Calls of the device between an image's announcement and its end.
Rounds == MountDelay \div Drives

\* A machine may be let go while an empty file is passing through the loader.
NoEmptyFiles == \A f \in Files : f.words > 0

\* A word of a file, or what the port drives before the first.
Driven == {word(f, k) : f \in File, k \in Nat} \cup {word(NoFile, 0)}
Loader ==
  [queue : Seq(Files), file : Files \cup {NoFile}, eof : BOOLEAN, next : Nat, addr : Nat,
   index : {ROM, NuBus, Internal, External}, dout : Driven, wr : BOOLEAN,
   download : BOOLEAN]

BenchTypes ==
  /\ bus \in Loader /\ slot \in 0 .. 15 /\ rst_cnt \in 0 .. Release /\ main_time \in Nat
  /\ {n_reset, reset, ioctl_wait, dio_write, dio_old_cyc} \subseteq BOOLEAN

\* A file that streams keeps the release counter at its start, from the first
\* tick of the 8 MHz enable on.
Pending == bus.download /\ ioctl_wait /\ slot # 12 /\ slot % 4 # 0
Held ==
  /\ bus.file # NoFile /\ ~bus.download => bus.next = 0 /\ ~bus.eof
  /\ bus.download => bus.file # NoFile
  /\ dio_old_cyc <=> slot \in 9 .. 12
  /\ dio_write /\ slot \in 8 .. 12 => ioctl_wait
  /\ bus.download => rst_cnt = Release \/ Pending

\* A device that has nothing to do but announcements.
Mounting(s) ==
  /\ ~s.reading /\ ~s.writing /\ ~s.buff_wr /\ s.current_disk = None /\ s.sd_ack = {}
  /\ s.img_mounted = {} \/ s.img_mounted = {s.img_size}

\* At most r calls until all images are announced.
Left(s, r) ==
  \/ s.img_mounted = {} /\ s.mountQueue = {} /\ s.ack_delay = r /\ r <= 1
  \/ /\ s.img_mounted = {} /\ s.mountQueue # {} /\ s.ack_delay <= 1
     /\ r = Cardinality(s.mountQueue) * (Rounds + 1) + 1
  \/ \E i \in Used, t \in 0 .. Rounds - 1 :
       /\ s.img_mounted = {i} /\ i \notin s.mountQueue /\ s.ack_delay = t * Drives + i + 1
       /\ r = Cardinality(s.mountQueue) * (Rounds + 1) + t + 2

\* All images are announced: the delay counter is the transfers'.  A window
\* opens when it has run down to one, and closes with the transfer; the strobe
\* on the bus is the last word read.
Settled(s) ==
  /\ s.mountQueue = {} /\ s.img_mounted = {}
  /\ ~busy(s) => s.ack_delay = 0 /\ s.current_disk = None /\ s.sd_ack = {} /\ ~s.buff_wr
  /\ s.sd_ack \subseteq {s.current_disk}
  /\ s.sd_ack # {} => s.ack_delay = 1
  /\ busy(s) /\ s.bytecnt > 0 => s.sd_ack # {}
  /\ s.buff_wr =>
       /\ s.bytecnt > 0 /\ s.buff_addr = s.bytecnt - 1
       /\ s.buff_dout = s.disk[s.current_disk][s.pos[s.current_disk]][s.bytecnt - 1]

\* Clocks until the device runs, until the machine may be let go, and a reset
\* that the enable will see.
toBoot == IF main_time < Boot THEN Boot - main_time ELSE 0
toRelease == 4 * rst_cnt + 3 - (slot % 4)
Resets == main_time + (3 - (slot % 4)) < InitialReset

Unsettled ==
  /\ ~n_reset /\ target = None /\ \A d \in Used : q[d].st = "idle"
  /\ Mounting(dev)
  /\ \E r \in 0 .. Drives * (Rounds + 2) :
       Left(dev, r) /\ (r + toBoot <= toRelease \/ Resets \/ Pending)

\* An image that is not queued has been seen by its target.
Announced == \A d \in Used : d \notin dev.mountQueue => capacity[d] = d

TimeInv == BenchTypes /\ Held /\ (Settled(dev) \/ Unsettled) /\ Announced

LEMMA RoundsFact == Rounds \in Nat /\ Rounds >= 1 /\ Rounds * Drives = MountDelay
<1>1. Drives \in Nat \ {0} /\ MountDelay \in Nat \ {0} /\ MountDelay % Drives = 0
  OBVIOUS
<1>2. MountDelay = Drives * (MountDelay \div Drives) + (MountDelay % Drives)
      /\ MountDelay \div Drives \in Int
  BY <1>1
<1>3. Drives * Rounds = MountDelay /\ Rounds \in Int
  BY <1>1, <1>2 DEF Rounds
<1>4. Rounds > 0
  <2> SUFFICES ASSUME Rounds <= 0 PROVE FALSE
    BY <1>3
  <2>1. Drives * Rounds <= 0
    BY <1>1, <1>3
  <2> QED
    BY <1>1, <1>3, <2>1
<1> QED
  BY <1>1, <1>3, <1>4

LEMMA MountIs ==
  ASSUME NEW s \in Device, NEW i \in Drive, ~busy(s)
  PROVE  LET t == Mount(s, i)
         IN IF i \in s.mountQueue /\ s.img_mounted = {}
            THEN /\ t.mountQueue = s.mountQueue \ {i} /\ t.img_size = i
                 /\ t.img_mounted = {i} /\ t.ack_delay = MountDelay
            ELSE /\ t.mountQueue = s.mountQueue /\ t.img_size = s.img_size
                 /\ IF s.ack_delay = 1 /\ i \in s.img_mounted
                    THEN t.img_mounted = s.img_mounted \ {i} /\ t.ack_delay = 1
                    ELSE /\ t.img_mounted = s.img_mounted
                         /\ t.ack_delay = IF s.ack_delay > 0 THEN s.ack_delay - 1 ELSE 0
<1> DEFINE t == Mount(s, i)
           starts == i \in s.mountQueue /\ s.img_mounted = {}
           ends == s.ack_delay = 1 /\ i \in s.img_mounted
<1>1. CASE starts
  <2>1. t = [s EXCEPT !.mountQueue = s.mountQueue \ {i}, !.img_size = i,
                      !.img_mounted = s.img_mounted \cup {i}, !.ack_delay = MountDelay]
    BY <1>1 DEF Mount, Device
  <2>2. t.mountQueue = s.mountQueue \ {i} /\ t.img_size = i
        /\ t.img_mounted = s.img_mounted \cup {i} /\ t.ack_delay = MountDelay
    BY <2>1 DEF Device
  <2> QED
    BY <1>1, <2>2
<1>2. CASE ~starts /\ ends
  <2>1. t = [s EXCEPT !.img_mounted = s.img_mounted \ {i}]
    BY <1>2 DEF Mount, Device
  <2> QED
    BY <1>2, <2>1 DEF Device
<1>3. CASE ~starts /\ ~ends
  <2>1. t = [s EXCEPT !.ack_delay = IF s.ack_delay > 0 THEN s.ack_delay - 1
                                                      ELSE s.ack_delay]
    BY <1>3 DEF Mount, Device
  <2>2. s.ack_delay \in Nat
    BY DEF Device
  <2> QED
    BY <1>3, <2>1, <2>2 DEF Device
<1> QED
  BY <1>1, <1>2, <1>3

LEMMA IdleVisit ==
  ASSUME DiskTypes, NEW s \in Device, Mounting(s), NEW k \in Drive,
         \A d \in Used : q[d].st = "idle"
  PROVE  /\ Visit(s, k, deviceSees) = {Mount(s, k)}
         /\ Mount(s, k) \in Device
         /\ stands(s, Mount(s, k)) /\ Mount(s, k).current_disk = None
         /\ Mount(s, k).sd_ack = {}
<1> DEFINE c == deviceSees
           t == Mount(s, k)
<1>1. c \in Core /\ k # None
  BY CoreType DEF Drive, None
<1>2. s.current_disk = None /\ s.sd_ack = {}
  BY DEF Mounting
<1>3. Transfer(s, k, c) = s
  BY <1>1, <1>2, TransferCases
<1>4. t \in Device /\ stands(s, t) /\ t.current_disk = None /\ t.sd_ack = {}
  BY <1>2, MountMoves
<1>5. ~claims(t, k, c)
  BY AskedFor DEF claims
<1>6. Start(t, k, c) = t
  BY <1>1, <1>4, <1>5, StartMoves
<1>7. Acknowledge(t, k) = t
  BY <1>1, <1>4, AcknowledgeMoves
<1> QED
  BY <1>3, <1>4, <1>6, <1>7, VisitIs

\* How far a call has come with the announcements after k visits.
same(s, k) ==
  /\ s.mountQueue = dev.mountQueue /\ s.img_mounted = dev.img_mounted
  /\ s.ack_delay = dev.ack_delay - k
  /\ \E i \in Used : dev.img_mounted = {i} /\ (k <= i \/ dev.ack_delay # i + 1)
over(s, k) ==
  /\ s.mountQueue = dev.mountQueue /\ s.img_mounted = {} /\ s.ack_delay <= 1
  /\ dev.img_mounted = {} => /\ \A j \in dev.mountQueue : j >= k
                             /\ k > 0 => s.ack_delay = 0
mounts(s, k) ==
  \E j \in dev.mountQueue :
    /\ s.mountQueue = dev.mountQueue \ {j} /\ s.img_mounted = {j} /\ j < k
    /\ s.ack_delay = MountDelay - (k - 1 - j)
announces(s, k) == Mounting(s) /\ (same(s, k) \/ over(s, k) \/ mounts(s, k))

LEMMA VisitMounts ==
  ASSUME DiskTypes, \A d \in Used : q[d].st = "idle",
         NEW r, Left(dev, r),
         NEW s \in Device, NEW k \in Drive, announces(s, k)
  PROVE  \A t \in Visit(s, k, deviceSees) : t \in Device /\ announces(t, k + 1)
<1> DEFINE t == Mount(s, k)
<1>1. Mounting(s) /\ ~busy(s)
  BY DEF announces, Mounting, busy
<1>2. /\ Visit(s, k, deviceSees) = {t} /\ t \in Device
      /\ stands(s, t) /\ t.current_disk = None /\ t.sd_ack = {}
  BY <1>1, IdleVisit
<1>3. IF k \in s.mountQueue /\ s.img_mounted = {}
      THEN /\ t.mountQueue = s.mountQueue \ {k} /\ t.img_size = k
           /\ t.img_mounted = {k} /\ t.ack_delay = MountDelay
      ELSE /\ t.mountQueue = s.mountQueue /\ t.img_size = s.img_size
           /\ IF s.ack_delay = 1 /\ k \in s.img_mounted
              THEN t.img_mounted = s.img_mounted \ {k} /\ t.ack_delay = 1
              ELSE /\ t.img_mounted = s.img_mounted
                   /\ t.ack_delay = IF s.ack_delay > 0 THEN s.ack_delay - 1 ELSE 0
  BY <1>1, MountIs
<1> HIDE DEF t
<1>4. Mounting(t)
  <2>1. t.img_mounted = {} \/ t.img_mounted = {t.img_size}
    BY <1>1, <1>3 DEF Mounting
  <2> QED
    BY <1>1, <1>2, <2>1 DEF Mounting, stands
<1>5. k \in Nat /\ k < Drives /\ s.ack_delay \in Nat /\ dev.ack_delay \in Nat
      /\ Used \subseteq 0 .. Drives - 1 /\ dev.mountQueue \subseteq Used
  BY DEF Drive, Device, DiskTypes
<1>6. MountDelay \in Nat /\ MountDelay >= Drives
  BY RoundsFact
<1>7. CASE same(s, k)
  <2>1. PICK i \in Used : dev.img_mounted = {i} /\ (k <= i \/ dev.ack_delay # i + 1)
    BY <1>7 DEF same
  <2>2. i \in 0 .. Drives - 1 /\ s.img_mounted = {i} /\ s.ack_delay = dev.ack_delay - k
        /\ s.mountQueue = dev.mountQueue
    BY <1>5, <1>7, <2>1 DEF same
  <2>3. PICK n \in 0 .. Rounds - 1 : dev.ack_delay = n * Drives + i + 1
    BY <2>1 DEF Left
  <2>4. n = 0 \/ n * Drives >= Drives
    BY <2>3, RoundsFact
  <2>5. CASE k = i /\ dev.ack_delay = i + 1
    <3>1. s.ack_delay = 1
      BY <1>5, <2>2, <2>5
    <3>2. over(t, k + 1)
      BY <1>3, <1>5, <2>1, <2>2, <2>5, <3>1 DEF over
    <3> QED
      BY <1>2, <1>4, <3>2 DEF announces
  <2>6. CASE ~(k = i /\ dev.ack_delay = i + 1)
    <3>0. n * Drives \in Nat
      BY <2>3, RoundsFact
    <3>1. s.ack_delay > 0 /\ (k = i => s.ack_delay # 1)
      BY <1>5, <2>1, <2>2, <2>3, <2>4, <2>6, <3>0
    <3>2. k + 1 <= i \/ dev.ack_delay # i + 1
      BY <1>5, <2>1, <2>2, <2>6
    <3>3. t.mountQueue = s.mountQueue /\ t.img_mounted = s.img_mounted
          /\ t.ack_delay = s.ack_delay - 1
      BY <1>3, <2>2, <3>1
    <3>4. t.ack_delay = dev.ack_delay - (k + 1)
      BY <1>5, <2>2, <3>3
    <3>5. same(t, k + 1)
      BY <2>1, <2>2, <3>2, <3>3, <3>4 DEF same
    <3> QED
      BY <1>2, <1>4, <3>5 DEF announces
  <2> QED
    BY <2>5, <2>6
<1>8. CASE over(s, k)
  <2>1. CASE k \in dev.mountQueue
    <3>1. mounts(t, k + 1)
      BY <1>3, <1>5, <1>6, <1>8, <2>1 DEF over, mounts
    <3> QED
      BY <1>2, <1>4, <3>1 DEF announces
  <2>2. CASE k \notin dev.mountQueue
    <3>1. t.mountQueue = dev.mountQueue /\ t.img_mounted = {} /\ t.ack_delay = 0
      BY <1>3, <1>5, <1>8, <2>2 DEF over
    <3>2. ASSUME NEW j \in dev.mountQueue PROVE j \in Int /\ j # k
      <4>1. j \in 0 .. Drives - 1
        BY <1>5
      <4> QED
        BY <2>2, <4>1
    <3>3. dev.img_mounted = {} => \A j \in dev.mountQueue : j >= k + 1
      BY <1>5, <1>8, <3>2 DEF over
    <3>4. over(t, k + 1)
      BY <3>1, <3>3 DEF over
    <3> QED
      BY <1>2, <1>4, <3>4 DEF announces
  <2> QED
    BY <2>1, <2>2
<1>9. CASE mounts(s, k)
  <2>1. PICK j \in dev.mountQueue :
          /\ s.mountQueue = dev.mountQueue \ {j} /\ s.img_mounted = {j} /\ j < k
          /\ s.ack_delay = MountDelay - (k - 1 - j)
    BY <1>9 DEF mounts
  <2>0. j \in 0 .. Drives - 1
    BY <1>5
  <2>2. j \in Nat /\ s.ack_delay > 0 /\ k \notin s.img_mounted /\ s.img_mounted # {}
    BY <1>5, <1>6, <2>0, <2>1
  <2>3. t.mountQueue = s.mountQueue /\ t.img_mounted = s.img_mounted
        /\ t.ack_delay = s.ack_delay - 1
    BY <1>3, <2>2
  <2>4. t.ack_delay = MountDelay - ((k + 1) - 1 - j) /\ j < k + 1
    BY <1>5, <1>6, <2>1, <2>2, <2>3
  <2>5. t.mountQueue = dev.mountQueue \ {j} /\ t.img_mounted = {j}
    BY <2>1, <2>3
  <2>6. mounts(t, k + 1)
    <3> SUFFICES \E i \in dev.mountQueue :
                   /\ t.mountQueue = dev.mountQueue \ {i} /\ t.img_mounted = {i} /\ i < k + 1
                   /\ t.ack_delay = MountDelay - ((k + 1) - 1 - i)
      BY DEF mounts
    <3> QED
      BY <1>5, <2>2, <2>4, <2>5
  <2> QED
    BY <1>2, <1>4, <2>6 DEF announces
<1> QED
  BY <1>7, <1>8, <1>9 DEF announces

\* A call of the device brings the announcements forward.
LEMMA CallMounts ==
  ASSUME DiskTypes, \A d \in Used : q[d].st = "idle", Mounting(dev),
         NEW r \in Nat, Left(dev, r), IsFiniteSet(Used), NEW t \in BeforeEval(dev, deviceSees)
  PROVE  /\ t \in Device /\ Mounting(t)
         /\ \E p \in 0 .. r : Left(t, p) /\ (r > 0 => p < r)
         /\ t.mountQueue \subseteq dev.mountQueue
         /\ \A d \in dev.mountQueue \ t.mountQueue : t.img_mounted = {d}
<1> DEFINE D == [k \in 0 .. Drives |-> {s \in Device : announces(s, k)}]
<1>1. dev \in D[0]
  <2>1. dev.ack_delay \in Nat /\ dev.mountQueue \subseteq 0 .. Drives - 1
    BY DEF DiskTypes, Device
  <2>2. same(dev, 0) \/ over(dev, 0)
    <3>1. CASE dev.img_mounted = {}
      <4>1. dev.ack_delay <= 1
        BY <3>1 DEF Left
      <4> QED
        BY <2>1, <3>1, <4>1 DEF over
    <3>2. CASE dev.img_mounted # {}
      <4>1. PICK i \in Used : dev.img_mounted = {i}
        BY <3>2 DEF Left
      <4>2. 0 <= i /\ dev.ack_delay - 0 = dev.ack_delay
        BY <2>1, <4>1
      <4> QED
        BY <4>1, <4>2 DEF same
    <3> QED
      BY <3>1, <3>2
  <2> QED
    BY <2>2 DEF announces, DiskTypes
<1>2. \A k \in 0 .. Drives - 1 : \A s \in D[k] : Visit(s, k, deviceSees) \subseteq D[k + 1]
  <2> SUFFICES ASSUME NEW k \in 0 .. Drives - 1, NEW s \in D[k],
                      NEW u \in Visit(s, k, deviceSees)
               PROVE  u \in D[k + 1]
    OBVIOUS
  <2>1. s \in Device /\ announces(s, k) /\ k \in Drive /\ k + 1 \in 0 .. Drives
    BY DEF Drive
  <2>2. u \in Device /\ announces(u, k + 1)
    BY <2>1, VisitMounts
  <2> QED
    BY <2>1, <2>2
<1>3. D[Drives] = {s \in Device : announces(s, Drives)}
  <2>1. Drives \in 0 .. Drives
    OBVIOUS
  <2> QED
    BY <2>1
<1> HIDE DEF D
<1>4. t \in Device /\ announces(t, Drives)
  BY <1>1, <1>2, <1>3, Walked
<1> DEFINE c == Cardinality(dev.mountQueue)
           w == c * (Rounds + 1)
<1>5. /\ Drives \in Nat /\ Drives >= 1 /\ dev.ack_delay \in Nat /\ t.ack_delay \in Nat
      /\ Used \subseteq 0 .. Drives - 1 /\ dev.mountQueue \subseteq Used
  BY <1>4 DEF Device, DiskTypes
<1>6. /\ IsFiniteSet(dev.mountQueue) /\ c \in Nat
      /\ \A j \in dev.mountQueue : c > 0 /\ Cardinality(dev.mountQueue \ {j}) = c - 1
  <2>1. IsFiniteSet(dev.mountQueue)
    BY <1>5, FS_Subset
  <2>2. c \in Nat /\ (c = 0 <=> dev.mountQueue = {})
    BY <2>1, FS_CardinalityType, FS_EmptySet
  <2>3. \A j \in dev.mountQueue : Cardinality(dev.mountQueue \ {j}) = c - 1
    BY <2>1, FS_RemoveElement
  <2> QED
    BY <2>1, <2>2, <2>3
<1>7. Rounds \in Nat /\ Rounds >= 1 /\ Rounds * Drives = MountDelay
  BY RoundsFact
<1>8. w \in Nat /\ (c > 0 => w - (Rounds + 1) = (c - 1) * (Rounds + 1))
  BY <1>6, <1>7
<1>9. CASE same(t, Drives)
  <2>1. PICK i \in Used : dev.img_mounted = {i} /\ (Drives <= i \/ dev.ack_delay # i + 1)
    BY <1>9 DEF same
  <2>2. i \in 0 .. Drives - 1 /\ dev.ack_delay # i + 1
    BY <1>5, <2>1
  <2>3. PICK n \in 0 .. Rounds - 1 :
          dev.ack_delay = n * Drives + i + 1 /\ r = w + n + 2 /\ i \notin dev.mountQueue
    BY <2>1 DEF Left
  <2>4. n # 0 /\ (n - 1) * Drives = n * Drives - Drives /\ n * Drives \in Nat
    BY <1>5, <1>7, <2>2, <2>3
  <2>5. t.ack_delay = (n - 1) * Drives + i + 1 /\ t.img_mounted = {i}
        /\ t.mountQueue = dev.mountQueue
    BY <1>5, <1>9, <2>1, <2>2, <2>3, <2>4 DEF same
  <2>6. r - 1 = w + (n - 1) + 2 /\ n - 1 \in 0 .. Rounds - 1 /\ r - 1 \in 0 .. r
    BY <1>7, <1>8, <2>3, <2>4
  <2>7. Left(t, r - 1)
    BY <2>3, <2>5, <2>6 DEF Left
  <2> QED
    BY <1>4, <2>5, <2>6, <2>7 DEF announces
<1>10. CASE over(t, Drives)
  <2>1. t.mountQueue = dev.mountQueue /\ t.img_mounted = {} /\ t.ack_delay <= 1
    BY <1>10 DEF over
  <2>2. CASE dev.img_mounted = {}
    <3>1. dev.mountQueue = {} /\ t.ack_delay = 0
      <4>1. \A j \in dev.mountQueue : j >= Drives
        BY <1>10, <2>2 DEF over
      <4>2. \A j \in dev.mountQueue : j \in 0 .. Drives - 1
        BY <1>5
      <4>3. dev.mountQueue = {}
        BY <1>5, <4>1, <4>2
      <4> QED
        BY <1>5, <1>10, <2>2, <4>3 DEF over
    <3>2. Left(t, 0)
      BY <2>1, <3>1 DEF Left
    <3> QED
      BY <1>4, <2>1, <3>2 DEF announces
  <2>3. CASE dev.img_mounted # {}
    <3>1. PICK n \in 0 .. Rounds - 1 : r = w + n + 2
      BY <2>3 DEF Left
    <3>2. CASE dev.mountQueue = {}
      <4>1. Left(t, t.ack_delay) /\ t.ack_delay \in 0 .. r /\ t.ack_delay < r
        BY <1>5, <1>8, <2>1, <3>1, <3>2 DEF Left
      <4> QED
        BY <1>4, <2>1, <4>1 DEF announces
    <3>3. CASE dev.mountQueue # {}
      <4>1. Left(t, w + 1) /\ w + 1 \in 0 .. r /\ w + 1 < r
        BY <1>5, <1>8, <2>1, <3>1, <3>3 DEF Left
      <4> QED
        BY <1>4, <2>1, <4>1 DEF announces
    <3> QED
      BY <3>2, <3>3
  <2> QED
    BY <2>2, <2>3
<1>11. CASE mounts(t, Drives)
  <2>1. PICK j \in dev.mountQueue :
          /\ t.mountQueue = dev.mountQueue \ {j} /\ t.img_mounted = {j}
          /\ t.ack_delay = MountDelay - (Drives - 1 - j)
    BY <1>11 DEF mounts
  <2>2. j \in Used /\ j \in 0 .. Drives - 1
    BY <1>5
  <2>3. (Rounds - 1) * Drives = MountDelay - Drives /\ MountDelay \in Nat
    BY <1>5, <1>7
  <2>4. t.ack_delay = (Rounds - 1) * Drives + j + 1
    BY <1>5, <2>1, <2>2, <2>3
  <2>5. w = Cardinality(t.mountQueue) * (Rounds + 1) + (Rounds - 1) + 2
    <3>1. Cardinality(t.mountQueue) = c - 1 /\ c > 0
      BY <1>6, <2>1
    <3>2. w - (Rounds + 1) = Cardinality(t.mountQueue) * (Rounds + 1)
      BY <1>8, <3>1
    <3> QED
      BY <1>6, <1>7, <1>8, <3>1, <3>2
  <2>6. w < r
    <3>1. r = w + 1 \/ \E n \in 0 .. Rounds - 1 : r = w + n + 2
      BY DEF Left
    <3> QED
      BY <1>7, <1>8, <3>1
  <2>7. Left(t, w)
    <3>1. Rounds - 1 \in 0 .. Rounds - 1 /\ j \notin t.mountQueue
      BY <1>7, <2>1
    <3> QED
      BY <2>1, <2>2, <2>4, <2>5, <3>1 DEF Left
  <2>8. t.mountQueue \subseteq dev.mountQueue
        /\ \A d \in dev.mountQueue \ t.mountQueue : t.img_mounted = {d}
    BY <2>1
  <2> QED
    BY <1>4, <1>8, <2>6, <2>7, <2>8 DEF announces
<1> QED
  BY <1>4, <1>9, <1>10, <1>11 DEF announces

-----------------------------------------------------------------------------
(* The loader and the release counter *)

LEMMA FilesAreFiles ==
  /\ Files \subseteq File /\ NoFile \notin Files
  /\ \A k \in 1 .. Len(Startup) : Startup[k] \in Files
  /\ Startup \in Seq(Files) /\ Menu \subseteq Files
<1>1. Startup \in Seq(File) /\ Menu \subseteq File
  BY FileAssumption
<1>2. \A k \in 1 .. Len(Startup) : Startup[k] \in File
  BY <1>1
<1>3. Files \subseteq File
  BY <1>1, <1>2 DEF Files
<1>4. NoFile \notin File
  BY DEF NoFile, File
<1>5. \A k \in 1 .. Len(Startup) : Startup[k] \in Files
  BY DEF Files
<1>6. Startup \in Seq(Files)
  BY <1>1, <1>5
<1> QED
  BY <1>1, <1>3, <1>4, <1>5, <1>6 DEF Files

LEMMA TakeMoves ==
  ASSUME NEW b \in Loader
  PROVE  LET o == Take(b)
         IN /\ o \in Loader /\ o.download = b.download /\ o.wr = b.wr /\ o.dout = b.dout
            /\ IF b.file = NoFile /\ b.queue # <<>>
               THEN /\ o.queue = Tail(b.queue) /\ o.next = 0 /\ o.addr = 0 /\ ~o.eof
                    /\ o.index = Head(b.queue).index /\ Head(b.queue) \in Files
                    /\ o.file = IF Head(b.queue).opens THEN Head(b.queue) ELSE NoFile
               ELSE o = b
<1>1. CASE b.file = NoFile /\ b.queue # <<>>
  <2> DEFINE f == Head(b.queue)
             g == IF f.opens THEN f ELSE NoFile
             rest == Tail(b.queue)
  <2>1. b.queue \in Seq(Files)
    BY DEF Loader
  <2>2. f \in Files /\ rest \in Seq(Files)
    BY <1>1, <2>1
  <2>3. g \in Files \cup {NoFile}
    BY <2>2
  <2>4. f.index \in {ROM, NuBus, Internal, External}
    BY <2>2, FilesAreFiles DEF File
  <2>5. Take(b) = [b EXCEPT !.queue = rest, !.next = 0, !.addr = 0, !.index = f.index,
                            !.eof = FALSE, !.file = g]
    BY <1>1 DEF Take, Loader
  <2> DEFINE i == f.index
  <2>6. ASSUME NEW o, o = [b EXCEPT !.queue = rest, !.next = 0, !.addr = 0, !.index = i,
                                    !.eof = FALSE, !.file = g],
               rest \in Seq(Files), g \in Files \cup {NoFile},
               i \in {ROM, NuBus, Internal, External}
        PROVE  /\ o \in Loader /\ o.download = b.download /\ o.wr = b.wr
               /\ o.dout = b.dout /\ o.queue = rest /\ o.next = 0
               /\ o.addr = 0 /\ ~o.eof /\ o.index = i /\ o.file = g
    <3> HIDE DEF f, g, rest, i
    <3> QED
      BY <2>6 DEF Loader
  <2>7. /\ Take(b) \in Loader /\ Take(b).download = b.download /\ Take(b).wr = b.wr
        /\ Take(b).dout = b.dout /\ Take(b).queue = rest /\ Take(b).next = 0
        /\ Take(b).addr = 0 /\ ~Take(b).eof /\ Take(b).index = f.index /\ Take(b).file = g
    <3> HIDE DEF f, g, rest
    <3> QED
      BY <2>2, <2>3, <2>4, <2>5, <2>6
  <2> QED
    BY <1>1, <2>2, <2>7
<1>2. CASE ~(b.file = NoFile /\ b.queue # <<>>)
  BY <1>2 DEF Take
<1> QED
  BY <1>1, <1>2

\* What a call does with the file taken: nothing to do, held back by the core,
\* the end, a word, or the read that meets the end.
idles(o, t)   == o.file = NoFile /\ t.file = NoFile /\ ~t.download /\ ~t.wr
waits(o, t, w) == o.file # NoFile /\ w /\ t = o
closes(o, t, w) ==
  o.file # NoFile /\ ~w /\ o.eof /\ t.file = NoFile /\ ~t.download /\ ~t.wr
words(o, t, w) ==
  /\ o.file # NoFile /\ ~w /\ ~o.eof /\ o.next < o.file.words
  /\ t.file = o.file /\ t.download /\ t.wr /\ t.addr = o.next /\ t.next = o.next + 1
  /\ t.dout = word(o.file, o.next)
  /\ t.eof <=> o.file.odd /\ o.next + 1 = o.file.words
meetsEnd(o, t, w) ==
  /\ o.file # NoFile /\ ~w /\ ~o.eof /\ o.next >= o.file.words
  /\ t.file = o.file /\ t.download /\ t.wr = o.wr /\ t.addr = o.addr /\ t.next = o.next
  /\ t.dout = o.dout /\ t.eof

LEMMA StreamMoves ==
  ASSUME NEW o \in Loader, NEW w \in BOOLEAN
  PROVE  LET t == Stream(o, w)
         IN /\ t \in Loader /\ t.queue = o.queue /\ t.index = o.index
            /\ ~words(o, t, w) => t.addr = o.addr /\ t.next = o.next /\ t.dout = o.dout
            /\ \/ idles(o, t) \/ waits(o, t, w) \/ closes(o, t, w)
               \/ words(o, t, w) \/ meetsEnd(o, t, w)
<1> DEFINE t == Stream(o, w)
<1>1. CASE o.file = NoFile
  <2>1. t = [o EXCEPT !.download = FALSE, !.wr = FALSE]
    BY <1>1 DEF Stream
  <2> QED
    BY <1>1, <2>1 DEF Loader, idles
<1>2. CASE o.file # NoFile /\ w
  <2>1. t = o
    BY <1>2 DEF Stream
  <2> QED
    BY <1>2, <2>1 DEF waits
<1>3. CASE o.file # NoFile /\ ~w /\ o.eof
  <2>1. t = [o EXCEPT !.file = NoFile, !.download = FALSE, !.wr = FALSE]
    BY <1>3 DEF Stream, Close
  <2> QED
    BY <1>3, <2>1 DEF Loader, closes
<1>4. CASE o.file # NoFile /\ ~w /\ ~o.eof
  <2>1. t = ReadFile(o)
    BY <1>4 DEF Stream
  <2>2. o.file \in Files /\ o.file \in File /\ o.file.words \in Nat
        /\ o.file.odd \in BOOLEAN /\ o.next \in Nat
    BY <1>4, FilesAreFiles DEF Loader, File
  <2>3. CASE o.next < o.file.words
    <3> DEFINE d == word(o.file, o.next)
               e == o.file.odd /\ o.next + 1 = o.file.words
    <3>1. d \in Driven /\ e \in BOOLEAN /\ o.next + 1 \in Nat
      BY <2>2 DEF Driven
    <3>2. t = [o EXCEPT !.download = TRUE, !.addr = o.next, !.dout = d, !.wr = TRUE,
                        !.next = o.next + 1, !.eof = e]
      BY <2>1, <2>3 DEF ReadFile, Loader
    <3> HIDE DEF d, e, t
    <3>3. /\ t \in Loader /\ t.queue = o.queue /\ t.index = o.index /\ t.file = o.file
          /\ t.download /\ t.wr /\ t.addr = o.next /\ t.next = o.next + 1 /\ t.dout = d
          /\ t.eof = e
      BY <2>2, <3>1, <3>2 DEF Loader
    <3>4. words(o, t, w)
      BY <1>4, <2>3, <3>3 DEF words, d, e
    <3> QED
      BY <3>3, <3>4 DEF t
  <2>4. CASE o.next >= o.file.words
    <3>1. t = [o EXCEPT !.download = TRUE, !.eof = TRUE]
      BY <2>1, <2>2, <2>4 DEF ReadFile
    <3>2. t \in Loader /\ t.queue = o.queue /\ t.index = o.index /\ t.addr = o.addr
          /\ t.next = o.next /\ t.dout = o.dout /\ meetsEnd(o, t, w)
      BY <1>4, <2>4, <3>1 DEF Loader, meetsEnd
    <3> QED
      BY <3>2
  <2> QED
    BY <2>2, <2>3, <2>4
<1> QED
  BY <1>1, <1>2, <1>3, <1>4

LEMMA QueueMoves ==
  ASSUME NEW b \in Loader, NEW f \in Menu
  PROVE  LET t == QueueDownload(b, f)
         IN /\ t \in Loader /\ t.queue = Append(b.queue, f)
            /\ t.file = b.file /\ t.eof = b.eof /\ t.next = b.next /\ t.addr = b.addr
            /\ t.index = b.index /\ t.dout = b.dout /\ t.wr = b.wr /\ t.download = b.download
<1>1. Append(b.queue, f) \in Seq(Files)
  BY FilesAreFiles DEF Loader
<1> QED
  BY <1>1 DEF QueueDownload, Loader

LEMMA NextIs ==
  ASSUME Next, bus \in Loader
  PROVE  \E t \in {main_time, 0}, b \in Loader :
           /\ Clock(t, b)
           /\ \/ b.queue = bus.queue /\ loads' = loads
              \/ \E f \in Menu : b.queue = Append(bus.queue, f) /\ loads' = loads + 1
           /\ b.file = bus.file /\ b.eof = bus.eof /\ b.next = bus.next /\ b.download = bus.download
           /\ b.wr = bus.wr /\ b.addr = bus.addr /\ b.index = bus.index /\ b.dout = bus.dout
<1>1. CASE Tick
  BY <1>1 DEF Tick, Nothing
<1>2. CASE MenuReset
  BY <1>2 DEF MenuReset, ResetSim
<1>3. CASE MenuLoad
  <2>1. PICK f \in Menu : Clock(main_time, QueueDownload(bus, f)) /\ loads' = loads + 1
    BY <1>3 DEF MenuLoad, LoadRom
  <2> QED
    BY <2>1, QueueMoves
<1> QED
  BY <1>1, <1>2, <1>3 DEF Next

\* The core's side of the download port in one clock.
LEMMA PortMoves ==
  ASSUME BenchTypes, Held, NEW t, NEW b, Clock(t, b)
  PROVE  /\ slot' \in 0 .. 15 /\ slot' = (slot + 1) % 16
         /\ dio_old_cyc' <=> slot' \in 9 .. 12
         /\ dio_write' /\ slot' \in 8 .. 12 => ioctl_wait'
         /\ ioctl_wait /\ slot # 12 => ioctl_wait'
         /\ ~ioctl_wait => (ioctl_wait' <=> bus'.wr)
<1>1. slot \in 0 .. 15 /\ slot' = (slot + 1) % 16
  BY DEF BenchTypes, Clock
<1>2. slot' \in 0 .. 15 /\ (slot < 15 => slot' = slot + 1) /\ (slot = 15 => slot' = 0)
  BY <1>1
<1>3. dioBusControl <=> slot \in 8 .. 11
  BY <1>1 DEF dioBusControl
<1>4. /\ dio_old_cyc' = dioBusControl
      /\ dio_write' = IF dioBusControl THEN dio_write ELSE ioctl_wait
      /\ ioctl_wait' = ((ioctl_wait \/ bus'.wr) /\ ~(dio_old_cyc /\ ~dioBusControl /\ dio_write))
  BY DEF Clock, DownloadPort
<1>5. /\ dio_old_cyc <=> slot \in 9 .. 12
      /\ dio_write /\ slot \in 8 .. 12 => ioctl_wait
  BY DEF Held
<1>6. dio_old_cyc /\ ~dioBusControl <=> slot = 12
  BY <1>1, <1>3, <1>5
<1>7. dio_old_cyc' <=> slot' \in 9 .. 12
  BY <1>1, <1>2, <1>3, <1>4
<1>8. ioctl_wait /\ slot # 12 => ioctl_wait'
  BY <1>4, <1>6
<1>9. ~ioctl_wait => (ioctl_wait' <=> bus'.wr)
  <2> SUFFICES ASSUME ~ioctl_wait PROVE ioctl_wait' <=> bus'.wr
    OBVIOUS
  <2>1. ~(dio_old_cyc /\ ~dioBusControl /\ dio_write)
    BY <1>1, <1>5, <1>6
  <2> QED
    BY <1>4, <2>1, Zenon
<1>10. ASSUME dio_write', slot' \in 8 .. 12 PROVE ioctl_wait'
  <2>1. slot \in 7 .. 11
    BY <1>1, <1>2, <1>10
  <2>2. CASE slot = 7
    BY <1>3, <1>4, <1>8, <1>10, <2>2
  <2>3. CASE slot # 7
    <3>1. dioBusControl /\ slot \in 8 .. 12 /\ slot # 12
      BY <1>1, <1>3, <2>1, <2>3
    <3>2. dio_write
      BY <1>4, <1>10, <3>1, Zenon
    <3> QED
      BY <1>5, <1>8, <3>1, <3>2
  <2> QED
    BY <2>2, <2>3
<1> QED
  BY <1>1, <1>2, <1>7, <1>8, <1>9, <1>10, Zenon

\* The loader's side.  A file that begins to stream drives a word at once.
LEMMA FileMoves ==
  ASSUME NoEmptyFiles, BenchTypes, Held, NEW t, NEW b \in Loader, Clock(t, b),
         b.file = bus.file, b.eof = bus.eof, b.next = bus.next, b.download = bus.download
  PROVE  /\ bus' \in Loader
         /\ bus'.file # NoFile /\ ~bus'.download => bus'.next = 0 /\ ~bus'.eof
         /\ bus'.download => bus'.file # NoFile
         /\ bus'.download /\ ~bus.download => ~ioctl_wait /\ bus'.wr
         /\ bus.download /\ ioctl_wait => bus'.download
<1> DEFINE o == Take(b)
<1>1. ioctl_wait \in BOOLEAN /\ bus \in Loader
  BY DEF BenchTypes
<1>2. bus' = Stream(o, ioctl_wait)
  BY DEF Clock, LoaderStep
<1>3. /\ o \in Loader /\ o.download = b.download
      /\ IF b.file = NoFile /\ b.queue # <<>>
         THEN /\ o.next = 0 /\ ~o.eof
              /\ o.file = IF Head(b.queue).opens THEN Head(b.queue) ELSE NoFile
         ELSE o = b
  BY TakeMoves
<1> HIDE DEF o
<1>4. /\ bus' \in Loader
      /\ \/ idles(o, bus') \/ waits(o, bus', ioctl_wait) \/ closes(o, bus', ioctl_wait)
         \/ words(o, bus', ioctl_wait) \/ meetsEnd(o, bus', ioctl_wait)
  BY <1>1, <1>2, <1>3, StreamMoves
<1>5. bus.download => o.file = bus.file /\ o.file # NoFile
  BY <1>3 DEF Held
<1>6. o.file # NoFile /\ ~o.download => o.next = 0 /\ ~o.eof
  BY <1>3 DEF Held
<1>7. o.file # NoFile => o.file.words \in Nat /\ o.file.words > 0
  BY <1>3, FilesAreFiles DEF Loader, File, NoEmptyFiles
<1>8. CASE idles(o, bus')
  BY <1>4, <1>5, <1>8 DEF idles
<1>9. CASE waits(o, bus', ioctl_wait)
  BY <1>3, <1>4, <1>5, <1>6, <1>9 DEF waits
<1>10. CASE closes(o, bus', ioctl_wait)
  BY <1>4, <1>5, <1>10 DEF closes
<1>11. CASE words(o, bus', ioctl_wait)
  BY <1>4, <1>5, <1>11 DEF words
<1>12. CASE meetsEnd(o, bus', ioctl_wait)
  <2>1. o.next \in Nat
    BY <1>3 DEF Loader
  <2>2. bus.download
    BY <1>3, <1>6, <1>7, <1>12, <2>1 DEF meetsEnd
  <2> QED
    BY <1>4, <1>5, <1>12, <2>2 DEF meetsEnd
<1> QED
  BY <1>4, <1>8, <1>9, <1>10, <1>11, <1>12

LEMMA HeldStep ==
  ASSUME NoEmptyFiles, BenchTypes, Held, BenchAssumption,
         NEW t \in {main_time, 0}, NEW b \in Loader, Clock(t, b),
         b.file = bus.file, b.eof = bus.eof, b.next = bus.next, b.download = bus.download
  PROVE  (BenchTypes)' /\ (Held)' /\ (Pending => bus'.download /\ (slot % 4 # 3 => (Pending)'))
<1>1. /\ slot' \in 0 .. 15 /\ slot' = (slot + 1) % 16
      /\ dio_old_cyc' <=> slot' \in 9 .. 12
      /\ dio_write' /\ slot' \in 8 .. 12 => ioctl_wait'
      /\ ioctl_wait /\ slot # 12 => ioctl_wait'
      /\ ~ioctl_wait => (ioctl_wait' <=> bus'.wr)
  BY PortMoves
<1>2. /\ bus' \in Loader
      /\ bus'.file # NoFile /\ ~bus'.download => bus'.next = 0 /\ ~bus'.eof
      /\ bus'.download => bus'.file # NoFile
      /\ bus'.download /\ ~bus.download => ~ioctl_wait /\ bus'.wr
      /\ bus.download /\ ioctl_wait => bus'.download
  BY FileMoves
<1>3. slot \in 0 .. 15 /\ rst_cnt \in 0 .. Release /\ main_time \in Nat /\ Release \in Nat
      /\ n_reset \in BOOLEAN /\ reset \in BOOLEAN /\ ioctl_wait \in BOOLEAN /\ dio_write \in BOOLEAN
      /\ dio_old_cyc \in BOOLEAN
  BY DEF BenchTypes, BenchAssumption
<1>4. slot % 4 # 3 => slot' % 4 # 0 /\ slot' # 12
  BY <1>1, <1>3
<1>5. Pending => bus'.download /\ (slot % 4 # 3 => (Pending)')
  BY <1>1, <1>2, <1>4 DEF Pending
<1>6. /\ slot % 4 # 3 => rst_cnt' = rst_cnt /\ n_reset' = n_reset
      /\ slot % 4 = 3 =>
           /\ rst_cnt' = IF reset' \/ bus'.download THEN Release
                         ELSE IF rst_cnt > 0 THEN rst_cnt - 1 ELSE 0
           /\ n_reset' = (~reset' /\ ~bus'.download /\ (n_reset \/ rst_cnt = 0))
  BY DEF Clock, MachineReset, clk8_en_p
<1>7. (BenchTypes)'
  <2>1. rst_cnt' \in 0 .. Release
    BY <1>3, <1>6
  <2>2. n_reset' \in BOOLEAN
    BY <1>3, <1>6
  <2>3. main_time' \in Nat
    <3>1. main_time' = IF t <= Boot THEN t + 1 ELSE t
      BY DEF Clock, Reset
    <3> QED
      BY <1>3, <3>1
  <2>4. reset' \in BOOLEAN
    <3>1. reset' = CASE t < InitialReset -> TRUE [] t = InitialReset -> FALSE [] OTHER -> reset
      BY DEF Clock, Reset
    <3> QED
      BY <1>3, <3>1
  <2>5. ioctl_wait' \in BOOLEAN /\ dio_write' \in BOOLEAN /\ dio_old_cyc' \in BOOLEAN
    BY <1>3 DEF Clock, DownloadPort, dioBusControl
  <2> QED
    BY <1>1, <1>2, <2>1, <2>2, <2>3, <2>4, <2>5 DEF BenchTypes
<1>8. ASSUME bus'.download PROVE rst_cnt' = Release \/ (Pending)'
  <2>1. CASE slot % 4 = 3
    BY <1>6, <1>8, <2>1
  <2>2. CASE slot % 4 # 3 /\ bus.download
    BY <1>5, <1>6, <2>2 DEF Held
  <2>3. CASE slot % 4 # 3 /\ ~bus.download
    <3>1. ioctl_wait'
      BY <1>1, <1>2, <1>8, <2>3
    <3> QED
      BY <1>4, <1>8, <2>3, <3>1 DEF Pending
  <2> QED
    BY <2>1, <2>2, <2>3
<1>9. (Held)'
  BY <1>1, <1>2, <1>8, Zenon DEF Held
<1> QED
  BY <1>5, <1>7, <1>9

LEMMA DrivesFinite ==
  /\ IsFiniteSet(Used) /\ Cardinality(Used) \in Nat /\ Cardinality(Used) <= Drives
<1>1. IsFiniteSet(0 .. Drives - 1) /\ Cardinality(0 .. Drives - 1) = Drives
  <2>1. 0 \in Int /\ Drives - 1 \in Int /\ ~(0 > Drives - 1) /\ (Drives - 1) - 0 + 1 = Drives
    OBVIOUS
  <2> QED
    BY <2>1, FS_Interval
<1>2. IsFiniteSet(Used) /\ Cardinality(Used) <= Cardinality(0 .. Drives - 1)
  BY <1>1, FS_Subset
<1>3. Cardinality(Used) \in Nat
  BY <1>2, FS_CardinalityType
<1> QED
  BY <1>1, <1>2, <1>3

\* What a clock of the bench does to the times.
LEMMA TimesMove ==
  ASSUME BenchTypes, BenchAssumption, NEW t \in {main_time, 0}, NEW b, Clock(t, b)
  PROVE  /\ t < InitialReset => reset'
         /\ t >= Boot => toBoot = 0 \/ t = 0
         /\ t = main_time => toBoot' = IF t < Boot THEN toBoot - 1 ELSE 0
         /\ t = main_time /\ t < InitialReset => main_time' = t + 1
         /\ t = 0 => main_time' = 1
         /\ toBoot' \in 0 .. Boot /\ toBoot \in 0 .. Boot
<1>1. main_time \in Nat /\ Boot \in Nat /\ InitialReset \in Nat /\ InitialReset <= Boot
      /\ InitialReset >= 5
  BY DEF BenchTypes, BenchAssumption
<1>2. main_time' = IF t <= Boot THEN t + 1 ELSE t
  BY DEF Clock, Reset
<1>3. reset' = CASE t < InitialReset -> TRUE [] t = InitialReset -> FALSE [] OTHER -> reset
  BY DEF Clock, Reset
<1>4. t < InitialReset => reset'
  BY <1>1, <1>3
<1>5. toBoot = IF main_time < Boot THEN Boot - main_time ELSE 0
  BY DEF toBoot
<1>6. toBoot' = IF main_time' < Boot THEN Boot - main_time' ELSE 0
  BY DEF toBoot
<1> QED
  BY <1>1, <1>2, <1>4, <1>5, <1>6

LEMMA UnsettledStep ==
  ASSUME NoEmptyFiles, BenchTypes, Held, BenchAssumption, DiskTypes, (DiskTypes)', Unsettled,
         NEW t \in {main_time, 0}, NEW b \in Loader, Clock(t, b),
         b.file = bus.file, b.eof = bus.eof, b.next = bus.next, b.download = bus.download,
         \A d \in Used : goesOn(d) \/ asksNow(d),
         target' # target => target' = None \/ asksNow(target')
  PROVE  /\ Settled(dev') \/ (Unsettled)'
         /\ dev'.img_mounted = {} \/ dev'.img_mounted = {dev'.img_size}
         /\ \A d \in dev.mountQueue \ dev'.mountQueue : dev'.img_mounted = {d}
<1>0. Drives * (Rounds + 2) \in Nat
  BY RoundsFact
<1>1. PICK r \in Nat : /\ r <= Drives * (Rounds + 2) /\ Left(dev, r)
                       /\ r + toBoot <= toRelease \/ Resets \/ Pending
  BY <1>0 DEF Unsettled
<1>9. r \in Nat /\ Left(dev, r)
  BY <1>1
<1>2. /\ ~n_reset /\ target = None /\ \A d \in Used : q[d].st = "idle"
      /\ Mounting(dev)
  BY DEF Unsettled
<1>3. r \in Nat /\ Drives * (Rounds + 2) \in Nat /\ 4 * Release > Boot + Drives * (Rounds + 2)
  BY <1>0, Zenon DEF BenchAssumption, Rounds
<1>4. /\ dev' \in Device /\ Mounting(dev')
      /\ dev'.mountQueue \subseteq dev.mountQueue
      /\ \A d \in dev.mountQueue \ dev'.mountQueue : dev'.img_mounted = {d}
  <2>1. CASE DeviceRuns(t)
    <3>1. dev' \in BeforeEval(dev, deviceSees)
      BY <2>1 DEF Clock
    <3> QED
      BY <1>2, <1>9, <3>1, DrivesFinite, CallMounts
  <2>2. CASE ~DeviceRuns(t)
    BY <1>2, <2>2 DEF Clock, DiskTypes
  <2> QED
    BY <2>1, <2>2
<1>5. \E p \in 0 .. r : Left(dev', p) /\ (DeviceRuns(t) /\ r > 0 => p < r)
  <2>1. CASE DeviceRuns(t)
    <3>1. dev' \in BeforeEval(dev, deviceSees)
      BY <2>1 DEF Clock
    <3> QED
      BY <1>2, <1>9, <2>1, <3>1, DrivesFinite, CallMounts
  <2>2. CASE ~DeviceRuns(t)
    BY <1>9, <2>2 DEF Clock
  <2> QED
    BY <2>1, <2>2
<1>8. PICK p \in Nat : p <= r /\ Left(dev', p) /\ (DeviceRuns(t) /\ r > 0 => p < r)
  BY <1>5
<1>6. ASSUME p = 0 PROVE Settled(dev')
  <2>1. dev'.img_mounted = {} /\ dev'.mountQueue = {} /\ dev'.ack_delay = 0
    <3> DEFINE w == Cardinality(dev'.mountQueue) * (Rounds + 1)
    <3>1. w \in Nat
      <4>1. dev'.mountQueue \subseteq Used
        BY <1>4 DEF Device
      <4>2. Cardinality(dev'.mountQueue) \in Nat
        BY <4>1, DrivesFinite, FS_Subset, FS_CardinalityType
      <4> QED
        BY <4>2, RoundsFact
    <3>2. \/ dev'.img_mounted = {} /\ dev'.mountQueue = {} /\ dev'.ack_delay = p
          \/ p = w + 1
          \/ \E n \in 0 .. Rounds - 1 : p = w + n + 2
      BY <1>8 DEF Left
    <3> HIDE DEF w
    <3>3. p # w + 1 /\ \A n \in 0 .. Rounds - 1 : p # w + n + 2
      BY <1>6, <3>1
    <3> QED
      BY <1>6, <3>2, <3>3
  <2> QED
    BY <1>4, <2>1 DEF Settled, Mounting, busy
<1>7. ASSUME p > 0 PROVE (Unsettled)'
  <2>1. /\ (BenchTypes)' /\ (Held)' /\ (Pending => bus'.download /\ (slot % 4 # 3 => (Pending)'))
    BY HeldStep
  <2>2. /\ t < InitialReset => reset'
        /\ t >= Boot => toBoot = 0 \/ t = 0
        /\ t = main_time => toBoot' = IF t < Boot THEN toBoot - 1 ELSE 0
        /\ t = main_time /\ t < InitialReset => main_time' = t + 1
        /\ t = 0 => main_time' = 1
        /\ toBoot' \in 0 .. Boot /\ toBoot \in 0 .. Boot
    BY TimesMove
  <2>3. /\ slot % 4 # 3 => rst_cnt' = rst_cnt /\ n_reset' = n_reset
        /\ slot % 4 = 3 =>
             /\ rst_cnt' = IF reset' \/ bus'.download THEN Release
                           ELSE IF rst_cnt > 0 THEN rst_cnt - 1 ELSE 0
             /\ n_reset' = (~reset' /\ ~bus'.download /\ (n_reset \/ rst_cnt = 0))
    BY DEF Clock, MachineReset, clk8_en_p
  <2>4. /\ slot \in 0 .. 15 /\ slot' = (slot + 1) % 16 /\ rst_cnt \in 0 .. Release
        /\ main_time \in Nat /\ Release \in Nat /\ Boot \in Nat /\ InitialReset \in 5 .. Boot
    BY PortMoves DEF BenchTypes, BenchAssumption
  <2>5. DeviceRuns(t) <=> t >= Boot /\ ~bus.download
    BY DEF DeviceRuns
  <2>6. r > 0 /\ p <= r /\ p \in Nat /\ r <= Drives * (Rounds + 2)
    <3>1. r > 0 /\ p <= r
      BY <1>7, <1>8
    <3> QED
      BY <1>1, <3>1, Zenon
  <2>7. /\ toRelease = 4 * rst_cnt + 3 - (slot % 4)
        /\ toRelease' = 4 * rst_cnt' + 3 - (slot' % 4)
        /\ Resets <=> main_time + (3 - (slot % 4)) < InitialReset
        /\ (Resets)' <=> main_time' + (3 - (slot' % 4)) < InitialReset
    BY DEF toRelease, Resets
  <2>8. bus.download => rst_cnt = Release \/ Pending
    BY DEF Held
  <2>14. PICK n \in Nat : n = 4 * Release
    BY <2>4
  <2>12. PICK m \in Nat : r <= m /\ n > Boot + m
    BY <1>3, <2>6, <2>14
  <2>13. t >= Boot /\ ~bus.download => p < r
    BY <1>8, <2>5, <2>6
  <2> HIDE DEF Pending, Held, BenchTypes
  <2>9. ~n_reset' /\ (p + toBoot' <= toRelease' \/ (Resets)' \/ (Pending)')
    <3>1. CASE slot % 4 = 3
      <4>1. slot' % 4 = 0
        BY <2>4, <3>1
      <4>2. CASE reset' \/ bus'.download
        <5>1. rst_cnt' = Release /\ ~n_reset'
          BY <2>3, <3>1, <4>2, Zenon
        <5>2. toRelease' = n + 3
          BY <2>4, <2>7, <2>14, <4>1, <5>1
        <5>3. p + toBoot' <= toRelease'
          <6>1. toBoot' \in 0 .. Boot /\ p \in Nat /\ p <= r /\ Boot \in Nat /\ Release \in Nat
            BY <2>2, <2>4, <2>6
          <6> HIDE BlockDeviceAssumption
          <6>2. p <= m /\ n > Boot + m
            BY <2>12, <6>1
          <6>3. PICK u \in Nat : u = toBoot' /\ u <= Boot
            BY <6>1
          <6>5. u <= Boot
            BY <6>3
          <6>4. p + u <= n
            <7>1. Boot \in Nat
              BY <6>1
            <7>2. p + u <= m + u
              BY <6>2
            <7>3. m + u <= Boot + m
              BY <6>5, <7>1
            <7>4. Boot + m < n
              BY <6>2, <7>1
            <7>5. p + u \in Int /\ m + u \in Int /\ Boot + m \in Int
              BY <7>1
            <7> QED
              BY <7>2, <7>3, <7>4, <7>5
          <6>6. p + toBoot' = p + u
            BY <6>3, Zenon
          <6>7. toRelease' \in Int /\ n <= toRelease' /\ p + u \in Int
            BY <5>2
          <6>8. p + u <= toRelease'
            BY <6>4, <6>7
          <6> QED
            BY <6>6, <6>8, Zenon
        <5> QED
          BY <5>1, <5>3, Zenon
      <4>3. CASE ~reset' /\ ~bus'.download
        <5>1. t = main_time /\ t >= InitialReset /\ ~Pending
          BY <2>1, <2>2, <2>4, <4>3
        <5>2. r + toBoot <= 4 * rst_cnt
          BY <1>1, <2>4, <2>7, <3>1, <5>1
        <5>3. rst_cnt > 0 /\ rst_cnt' = rst_cnt - 1
          BY <2>2, <2>3, <2>4, <2>6, <3>1, <4>3, <5>2
        <5>4. ~n_reset'
          <6>1. rst_cnt # 0
            BY <2>4, <5>3
          <6> QED
            BY <1>2, <2>3, <3>1, <6>1, Zenon
        <5>5. toRelease' = 4 * rst_cnt - 1 /\ (rst_cnt = Release => toRelease' = n - 1)
          BY <2>4, <2>7, <2>14, <4>1, <5>3
        <5>8. p \in Nat /\ p <= r /\ toBoot \in Nat
              /\ toBoot' = IF t < Boot THEN toBoot - 1 ELSE 0
          BY <2>2, <2>6, <5>1
        <5>6. ASSUME bus.download PROVE p + toBoot' <= toRelease'
          <6>1. rst_cnt = Release
            BY <2>8, <5>1, <5>6
          <6>2. toBoot' \in 0 .. Boot
            BY <2>2
          <6> QED
            BY <2>4, <2>12, <5>5, <5>8, <6>1, <6>2
        <5>7. ASSUME ~bus.download PROVE p + toBoot' <= toRelease'
          BY <2>4, <2>12, <2>13, <5>1, <5>2, <5>5, <5>7, <5>8
        <5> QED
          BY <5>4, <5>6, <5>7, Zenon
      <4> QED
        BY <4>2, <4>3
    <3>2. CASE slot % 4 # 3
      <4>1. slot' % 4 = (slot % 4) + 1 /\ slot % 4 \in 0 .. 2
        BY <2>4, <3>2
      <4>2. ~n_reset' /\ toRelease' = toRelease - 1
        BY <1>2, <2>3, <2>4, <2>7, <3>2, <4>1
      <4>3. CASE Pending
        BY <2>1, <3>2, <4>2, <4>3
      <4>4. ASSUME t = 0 PROVE (Resets)'
        BY <2>2, <2>4, <2>7, <4>1, <4>4
      <4>5. ASSUME t = main_time, Resets PROVE (Resets)'
        BY <2>2, <2>4, <2>7, <4>1, <4>5
      <4>6. ASSUME t = main_time, ~Pending, r + toBoot <= toRelease
            PROVE  p + toBoot' <= toRelease'
        <5>4. /\ p \in Nat /\ p <= r /\ toBoot \in Nat
              /\ toBoot' = IF t < Boot THEN toBoot - 1 ELSE 0
              /\ t \in Nat /\ Boot \in Nat /\ t >= Boot /\ t # 0 => toBoot = 0
          BY <2>2, <2>4, <2>6, <4>6
        <5>5. t \in Nat /\ Boot \in 5 .. Boot /\ Release \in Nat
          BY <2>4, <4>6
        <5>6. toRelease \in Int
          BY <2>4, <2>7, <4>1
        <5>1. CASE t >= Boot /\ bus.download
          <6>1. rst_cnt = Release /\ toBoot' = 0
            BY <2>4, <2>8, <4>6, <5>1, <5>4
          <6>2. toRelease' = n + 3 - (slot % 4) - 1
            BY <2>4, <2>7, <2>14, <4>1, <4>2, <6>1
          <6> HIDE BlockDeviceAssumption
          <6>3. p + toBoot' <= n - 1 /\ p + toBoot' \in Int
            BY <2>12, <5>4, <5>5, <6>1
          <6> QED
            BY <4>1, <5>5, <6>2, <6>3
        <5>2. CASE t < Boot
          BY <4>2, <4>6, <5>2, <5>4, <5>5, <5>6, <2>12
        <5>3. CASE t >= Boot /\ ~bus.download
          <6>1. toBoot = 0 /\ toBoot' = 0 /\ p < r
            BY <2>13, <5>3, <5>4, <5>5
          <6> QED
            BY <2>12, <4>2, <4>6, <5>4, <5>6, <6>1
        <5> QED
          BY <5>1, <5>2, <5>3, <5>5
      <4> QED
        BY <1>1, <4>2, <4>3, <4>4, <4>5, <4>6, Zenon
    <3> QED
      BY <3>1, <3>2
  <2>10. target' = None /\ \A d \in Used : q'[d].st = "idle"
    <3>1. ASSUME NEW d \in Used PROVE ~asksNow(d)
      <4>1. d # None
        BY DEF None
      <4> QED
        BY <1>2, <4>1 DEF asksNow
    <3>2. target' = None
      BY <1>2, <3>1 DEF DiskTypes
    <3> QED
      BY <1>2, <3>1, <3>2 DEF goesOn
  <2>11. p \in 0 .. Drives * (Rounds + 2)
    BY <1>3, <2>6
  <2> QED
    BY <1>4, <1>8, <2>9, <2>10, <2>11 DEF Unsettled, Mounting, Left
<1> QED
  BY <1>4, <1>6, <1>7 DEF Mounting

-----------------------------------------------------------------------------
(* A visit of a device whose images are announced *)

LEMMA QuietMount ==
  ASSUME NEW s \in Device, NEW i \in Drive, s.mountQueue = {}, s.img_mounted = {}
  PROVE  LET t == Mount(s, i)
         IN /\ t \in Device /\ stands(s, t) /\ t.current_disk = s.current_disk
            /\ t.sd_ack = s.sd_ack /\ t.pos = s.pos
            /\ t.mountQueue = {} /\ t.img_mounted = {}
            /\ t.ack_delay = IF ~busy(s) /\ s.ack_delay > 0 THEN s.ack_delay - 1 ELSE s.ack_delay
            /\ busy(s) \/ s.ack_delay = 0 => t = s
<1> DEFINE t == Mount(s, i)
           left == IF ~busy(s) /\ s.ack_delay > 0 THEN s.ack_delay - 1 ELSE s.ack_delay
<1>1. t = [s EXCEPT !.ack_delay = left]
  BY DEF Mount, Device
<1>2. left \in Nat
  BY DEF Device
<1>3. busy(s) \/ s.ack_delay = 0 => left = s.ack_delay
  BY DEF Device
<1> HIDE DEF left, t
<1>4. /\ t \in Device /\ stands(s, t) /\ t.current_disk = s.current_disk
      /\ t.sd_ack = s.sd_ack /\ t.pos = s.pos
      /\ t.mountQueue = s.mountQueue /\ t.img_mounted = s.img_mounted
      /\ t.ack_delay = left
  BY <1>1, <1>2 DEF Device, stands
<1>5. busy(s) \/ s.ack_delay = 0 => t = s
  BY <1>1, <1>3 DEF Device
<1> QED
  BY <1>4, <1>5 DEF t, left

\* The visit is another drive's, or the drive asks for nothing.
rests(s, t, k) == t = s /\ s.current_disk # k
\* The drive's request is taken.
opens(s, t, k) ==
  /\ s.current_disk = None /\ k \in Used /\ q[k].st = "asked" /\ t.current_disk = k
  /\ busy(t) /\ t.bytecnt = 0 /\ t.pos = [s.pos EXCEPT ![k] = q[k].lba]
  /\ t.disk = s.disk /\ t.sd_ack = {} /\ ~t.buff_wr
\* The counter runs.
delays(s, t, k) ==
  /\ s.current_disk = k /\ t.current_disk = k /\ s.ack_delay # 1 /\ t.sd_ack = {}
  /\ pauses(s, t) /\ t.pos = s.pos
\* The window is open.
moves(s, t, k) ==
  /\ s.current_disk = k /\ t.current_disk = k /\ s.ack_delay = 1 /\ t.sd_ack = {k}
  /\ t.pos = s.pos /\ busy(t)
  /\ reads(s, t, k) \/ writes(s, t, k, deviceSees) \/ strobeEnds(s, t)
\* The window closes.
ends(s, t, k) ==
  /\ s.current_disk = k /\ t.current_disk = None /\ t.sd_ack = {}
  /\ s.bytecnt = Words /\ t.disk = s.disk /\ ~busy(t)

LEMMA VisitSettled ==
  ASSUME DiskTypes, NEW s \in Device, NEW k \in Drive, Settled(s), Rules(s),
         s.current_disk = k /\ q[k].st = "asked" => s.bytecnt = 0
  PROVE  \A t \in Visit(s, k, deviceSees) :
           /\ Settled(t)
           /\ rests(s, t, k) \/ opens(s, t, k) \/ delays(s, t, k) \/ moves(s, t, k) \/ ends(s, t, k)
<1> DEFINE c == deviceSees
           s1 == Transfer(s, k, c)
           s2 == Mount(s1, k)
           s3 == Start(s2, k, c)
           t == Acknowledge(s3, k)
<1>1. c \in Core /\ k # None /\ k \in Int
  BY CoreType DEF Drive, None
<1>10. Visit(s, k, c) = {t}
  BY VisitIs
<1>2. s1 \in Device /\ TransferKeeps(s, s1)
  BY <1>1, TransferMoves
<1>11. IF s.current_disk # k THEN s1 = s
       ELSE pauses(s, s1) \/ reads(s, s1, k) \/ writes(s, s1, k, c) \/ writeEnds(s, s1)
            \/ strobeEnds(s, s1)
  BY <1>1, TransferCases
<1> HIDE DEF s1
<1>3. /\ claims(s2, k, c) <=> s2.current_disk \in {None, k} /\ k \in Used /\ q[k].st = "asked"
      /\ k \in Used => c.lba[k] = q[k].lba
  <2>1. k \in Used => q[k].op \in {"read", "write"}
    BY DEF DiskTypes, TargetState
  <2> QED
    BY <2>1, AskedFor DEF claims
<1>4. /\ s.mountQueue = {} /\ s.img_mounted = {}
      /\ ~busy(s) => s.ack_delay = 0 /\ s.current_disk = None /\ s.sd_ack = {} /\ ~s.buff_wr
      /\ s.sd_ack \subseteq {s.current_disk}
  BY DEF Settled
<1>5. /\ s2 \in Device /\ stands(s1, s2) /\ s2.current_disk = s.current_disk
      /\ s2.sd_ack = s.sd_ack /\ s2.pos = s.pos
      /\ s2.mountQueue = {} /\ s2.img_mounted = {}
      /\ s2.ack_delay = IF ~busy(s1) /\ s.ack_delay > 0 THEN s.ack_delay - 1 ELSE s.ack_delay
      /\ busy(s1) \/ s1.ack_delay = 0 => s2 = s1
  BY <1>2, <1>4, QuietMount DEF TransferKeeps
<1> HIDE DEF s2
<1>14. s2 \in Device
  BY <1>5
<1>6. /\ s3 \in Device
      /\ s3.sd_ack = s2.sd_ack /\ s3.mountQueue = s2.mountQueue
      /\ s3.img_mounted = s2.img_mounted
      /\ IF ~claims(s2, k, c) THEN s3 = s2
         ELSE /\ s3.current_disk = k
              /\ IF s2.ack_delay = 0 THEN begun(s2, s3, k, c)
                 ELSE stands(s2, s3) /\ s3.ack_delay = s2.ack_delay /\ s3.pos = s2.pos
  <2>1. /\ s3 \in Device
        /\ s3.sd_ack = s2.sd_ack /\ s3.mountQueue = s2.mountQueue
        /\ s3.img_mounted = s2.img_mounted
    BY <1>1, <1>14, StartMoves
  <2>2. ASSUME ~claims(s2, k, c) PROVE s3 = s2
    BY <1>1, <1>14, <2>2, StartMoves
  <2>3. ASSUME claims(s2, k, c) PROVE s3.current_disk = k
    BY <1>1, <1>14, <2>3, StartMoves
  <2>4. ASSUME claims(s2, k, c), s2.ack_delay = 0 PROVE begun(s2, s3, k, c)
    BY <1>1, <1>14, <2>4, StartMoves
  <2>5. ASSUME claims(s2, k, c), s2.ack_delay # 0
        PROVE  stands(s2, s3) /\ s3.ack_delay = s2.ack_delay /\ s3.pos = s2.pos
    BY <1>1, <1>14, <2>5, StartMoves
  <2> HIDE DEF s3
  <2> QED
    BY <2>1, <2>2, <2>3, <2>4, <2>5
<1> HIDE DEF s3
<1>15. s3 \in Device
  BY <1>6
<1>7. IF s3.current_disk # k THEN t = s3
      ELSE /\ stands(s3, t) /\ t.pos = s3.pos
           /\ t.ack_delay = IF s3.ack_delay > 1 \/ (s3.ack_delay = 1 /\ ~busy(s3))
                            THEN s3.ack_delay - 1 ELSE s3.ack_delay
           /\ t.mountQueue = s3.mountQueue /\ t.img_mounted = s3.img_mounted
           /\ t.sd_ack = IF s3.ack_delay = 1 THEN s3.sd_ack \cup {k} ELSE s3.sd_ack \ {k}
           /\ t.current_disk = IF t.ack_delay = 0 /\ ~busy(s3) THEN None ELSE k
  <2>1. CASE s3.current_disk # k
    BY <1>15, <2>1, AcknowledgeMoves
  <2>2. CASE s3.current_disk = k
    <3>1. /\ stands(s3, t) /\ t.pos = s3.pos
          /\ t.mountQueue = s3.mountQueue /\ t.img_mounted = s3.img_mounted
      BY <1>15, <2>2, AcknowledgeMoves
    <3>2. t.ack_delay = IF s3.ack_delay > 1 \/ (s3.ack_delay = 1 /\ ~busy(s3))
                        THEN s3.ack_delay - 1 ELSE s3.ack_delay
      BY <1>15, <2>2, AcknowledgeMoves
    <3>3. t.sd_ack = IF s3.ack_delay = 1 THEN s3.sd_ack \cup {k} ELSE s3.sd_ack \ {k}
      BY <1>15, <2>2, AcknowledgeMoves
    <3>4. t.current_disk = IF t.ack_delay = 0 /\ ~busy(s3) THEN None ELSE k
      BY <1>15, <2>2, <3>2, AcknowledgeMoves
    <3> HIDE DEF t
    <3> QED
      BY <2>2, <3>1, <3>2, <3>3, <3>4
  <2> QED
    BY <2>1, <2>2
<1> HIDE DEF t
<1>8. CASE s.current_disk # k
  <2>1. s1 = s
    BY <1>8, <1>11
  <2>2. s2 = s
    <3>1. busy(s1) \/ s1.ack_delay = 0
      BY <1>4, <2>1, Zenon
    <3> QED
      BY <1>5, <2>1, <3>1, Zenon
  <2>3. CASE ~claims(s2, k, c)
    <3>1. s3 = s
      BY <1>6, <2>2, <2>3
    <3>2. t = s
      BY <1>7, <1>8, <3>1
    <3>3. Settled(t) /\ rests(s, t, k)
      BY <1>8, <3>2 DEF rests
    <3> QED
      BY <1>10, <3>3
  <2>4. CASE claims(s2, k, c)
    <3>1. s.current_disk = None /\ k \in Used /\ q[k].st = "asked"
      BY <1>3, <1>8, <2>2, <2>4
    <3>2. ~busy(s) /\ s.ack_delay = 0 /\ s.sd_ack = {} /\ ~s.buff_wr
      BY <1>4, <3>1 DEF Rules
    <3>3. /\ s3.sd_ack = {} /\ s3.mountQueue = {} /\ s3.img_mounted = {}
          /\ s3.current_disk = k /\ begun(s, s3, k, c)
      <4>1. /\ s3.sd_ack = s2.sd_ack /\ s3.mountQueue = s2.mountQueue
            /\ s3.img_mounted = s2.img_mounted
            /\ s3.current_disk = k
            /\ s2.ack_delay = 0 => begun(s2, s3, k, c)
        BY <1>6, <2>4
      <4> QED
        BY <1>4, <2>2, <3>2, <4>1
    <3>4. busy(s3)
      <4>1. k \in c.rd \cup c.wr
        BY <2>4 DEF claims
      <4> QED
        BY <3>3, <4>1 DEF begun, busy
    <3>5. /\ s3.bytecnt = 0 /\ s3.ack_delay = Latency /\ s3.disk = s.disk /\ ~s3.buff_wr
          /\ s3.pos = [s.pos EXCEPT ![k] = q[k].lba]
      BY <1>3, <3>1, <3>2, <3>3 DEF begun
    <3>6. /\ stands(s3, t) /\ t.ack_delay = Latency - 1 /\ t.pos = s3.pos
          /\ t.mountQueue = {} /\ t.img_mounted = {} /\ t.sd_ack = {} /\ t.current_disk = k
      <4>1. Latency > 1 /\ Latency # 1 /\ Latency - 1 # 0
        OBVIOUS
      <4> QED
        BY <1>7, <3>3, <3>4, <3>5, <4>1
    <3>7. busy(t) /\ t.bytecnt = 0 /\ t.disk = s.disk /\ ~t.buff_wr
      BY <3>4, <3>5, <3>6 DEF stands, busy
    <3>8. Settled(t) /\ opens(s, t, k)
      BY <3>1, <3>5, <3>6, <3>7 DEF Settled, opens
    <3> QED
      BY <1>10, <3>8
  <2> QED
    BY <2>3, <2>4
<1>9. CASE s.current_disk = k
  <2>1. busy(s) /\ k \in Used /\ s.ack_delay \in Nat \ {0}
    BY <1>1, <1>4, <1>9 DEF Rules, Device
  <2>2. pauses(s, s1) \/ reads(s, s1, k) \/ writes(s, s1, k, c) \/ writeEnds(s, s1) \/ strobeEnds(s, s1)
    BY <1>9, <1>11
  <2>3. ASSUME busy(s1)
        PROVE  /\ stands(s1, t) /\ t.current_disk = k /\ t.pos = s.pos
               /\ t.mountQueue = {} /\ t.img_mounted = {}
               /\ t.ack_delay = IF s.ack_delay = 1 THEN 1 ELSE s.ack_delay - 1
               /\ t.sd_ack = IF s.ack_delay = 1 THEN {k} ELSE {}
    <3>1. s2 = s1
      BY <1>5, <2>3
    <3>2. /\ stands(s1, s3) /\ s3.current_disk = k /\ s3.pos = s.pos /\ s3.ack_delay = s.ack_delay
          /\ s3.mountQueue = {} /\ s3.img_mounted = {} /\ s3.sd_ack = s.sd_ack
      <4>1. s1.ack_delay = s.ack_delay /\ s.ack_delay # 0
        BY <1>2, <2>1 DEF TransferKeeps
      <4>2. CASE ~claims(s2, k, c)
        <5>1. s3 = s1
          BY <1>6, <3>1, <4>2
        <5> QED
          BY <1>5, <1>9, <3>1, <4>1, <5>1 DEF stands
      <4>3. CASE claims(s2, k, c)
        <5>1. /\ s3.sd_ack = s2.sd_ack /\ s3.mountQueue = s2.mountQueue
              /\ s3.img_mounted = s2.img_mounted /\ s3.current_disk = k
              /\ s2.ack_delay # 0 =>
                   stands(s2, s3) /\ s3.ack_delay = s2.ack_delay /\ s3.pos = s2.pos
          BY <1>6, <4>3
        <5> QED
          BY <1>5, <3>1, <4>1, <5>1
      <4> QED
        BY <4>2, <4>3
    <3>3. busy(s3)
      BY <2>3, <3>2 DEF stands, busy
    <3>4. /\ stands(s3, t) /\ t.pos = s.pos /\ t.mountQueue = {} /\ t.img_mounted = {}
          /\ t.ack_delay = IF s.ack_delay > 1 THEN s.ack_delay - 1 ELSE s.ack_delay
          /\ t.sd_ack = IF s.ack_delay = 1 THEN s.sd_ack \cup {k} ELSE s.sd_ack \ {k}
          /\ t.current_disk = k
      <4>1. s.ack_delay - 1 # 0 \/ s.ack_delay = 1
        BY <2>1
      <4> QED
        BY <1>7, <2>1, <3>2, <3>3, <4>1
    <3>5. stands(s1, t)
      BY <3>2, <3>4 DEF stands
    <3>6. t.sd_ack = IF s.ack_delay = 1 THEN {k} ELSE {}
      BY <1>4, <1>9, <3>4
    <3> QED
      BY <2>1, <3>4, <3>5, <3>6
  <2>4. CASE s.ack_delay # 1
    <3>1. pauses(s, s1) /\ busy(s1)
      BY <2>1, <2>2, <2>4 DEF pauses, reads, writes, writeEnds, strobeEnds, busy
    <3>2. delays(s, t, k)
      BY <1>9, <2>3, <2>4, <3>1 DEF delays, pauses, stands
    <3>3. s.bytecnt = 0
      BY <2>1, <2>4 DEF Settled, Device
    <3>4. t.bytecnt = 0 /\ ~t.buff_wr /\ busy(t)
      BY <3>2, <3>3, <2>1 DEF delays, pauses, busy
    <3>5. Settled(t)
      BY <2>3, <2>4, <3>1, <3>4 DEF Settled
    <3> QED
      BY <3>2, <3>5, <1>10
  <2>5. CASE s.ack_delay = 1 /\ busy(s1)
    <3>1. stands(s1, t) /\ t.current_disk = k /\ t.pos = s.pos /\ t.ack_delay = 1
          /\ t.sd_ack = {k} /\ t.mountQueue = {} /\ t.img_mounted = {} /\ busy(t)
      BY <2>3, <2>5 DEF stands, busy
    <3>2. reads(s, s1, k) \/ writes(s, s1, k, c) \/ strobeEnds(s, s1)
      <4>1. s.writing => ~s.reading
        BY DEF Rules
      <4> QED
        BY <2>2, <2>5, <4>1 DEF pauses, writeEnds, busy
    <3>3. moves(s, t, k)
      BY <1>9, <2>5, <3>1, <3>2 DEF moves, reads, writes, strobeEnds, stands
    <3>4. Settled(t)
      <4>1. s.bytecnt \in Nat /\ (s.writing => ~s.buff_wr)
        BY DEF Rules, Device
      <4>2. t.buff_wr =>
              /\ t.bytecnt > 0 /\ t.buff_addr = t.bytecnt - 1
              /\ t.buff_dout = t.disk[k][t.pos[k]][t.bytecnt - 1]
        <5>1. s1.bytecnt = t.bytecnt /\ s1.disk = t.disk /\ s1.buff_wr = t.buff_wr
              /\ s1.buff_addr = t.buff_addr /\ s1.buff_dout = t.buff_dout
          BY <3>1 DEF stands
        <5>2. CASE reads(s, s1, k)
          BY <3>1, <4>1, <5>1, <5>2 DEF reads
        <5>3. CASE writes(s, s1, k, c) \/ strobeEnds(s, s1)
          BY <4>1, <5>1, <5>3 DEF writes, strobeEnds
        <5> QED
          BY <3>2, <5>2, <5>3
      <4> QED
        BY <3>1, <4>2 DEF Settled
    <3> QED
      BY <3>3, <3>4, <1>10
  <2>6. CASE s.ack_delay = 1 /\ ~busy(s1)
    <3>1. s.bytecnt = Words /\ s1.disk = s.disk /\ ~s1.buff_wr
      <4>1. (s.writing => ~s.reading) /\ (s.buff_wr => s.reading)
        BY DEF Rules
      <4> QED
        <5>1. CASE writeEnds(s, s1)
          BY <4>1, <5>1 DEF writeEnds
        <5>2. CASE strobeEnds(s, s1)
          <6>1. s.reading /\ ~s1.reading
            BY <2>1, <2>6, <5>2 DEF strobeEnds, busy
          <6>2. ~(s.bytecnt < Words) /\ s.bytecnt \in 0 .. Words
            BY <5>2, <6>1 DEF strobeEnds, Device
          <6> QED
            BY <5>2, <6>2 DEF strobeEnds
        <5>3. ~(pauses(s, s1) \/ reads(s, s1, k) \/ writes(s, s1, k, c))
          BY <2>1, <2>6 DEF pauses, reads, writes, busy
        <5> QED
          BY <2>2, <5>1, <5>2, <5>3
    <3>2. ~claims(s2, k, c)
      BY <1>3, <1>9, <3>1
    <3>3. s3 = s2 /\ s2.ack_delay = 0 /\ stands(s1, s3) /\ ~busy(s3)
      BY <1>5, <1>6, <2>6, <3>2 DEF stands, busy
    <3>4. /\ stands(s3, t) /\ t.ack_delay = 0 /\ t.mountQueue = {} /\ t.img_mounted = {}
          /\ t.sd_ack = s.sd_ack \ {k} /\ t.current_disk = None
      BY <1>5, <1>7, <1>9, <3>3
    <3>5. t.sd_ack = {} /\ ~busy(t) /\ ~t.buff_wr /\ t.disk = s.disk
      BY <1>4, <1>9, <3>1, <3>3, <3>4 DEF stands, busy
    <3>6. Settled(t) /\ ends(s, t, k)
      BY <1>9, <3>1, <3>4, <3>5 DEF Settled, ends
    <3> QED
      BY <3>6, <1>10
  <2> QED
    BY <2>4, <2>5, <2>6
<1> QED
  BY <1>8, <1>9

-----------------------------------------------------------------------------
(* The windows through a call.  The targets stand still in it. *)

\* The first n words of the sector a target asked for are in its buffer.
holds(s, d, n) ==
  q[d].fill >= n /\ \A w \in Word : w < n => q[d].buf[w] = s.disk[d][q[d].lba][w]

Moved(s, d) ==
  IF q[d].op = "read" THEN q[d].fill >= Words /\ q[d].buf = s.disk[d][q[d].lba]
                      ELSE s.disk[d][q[d].lba] = image(d, q[d].lba, q[d].write)

serves(s, d) == q[d].st \in {"asked", "window"} /\ s.current_disk = d

\* The visits before k have been made: a strobe one of them left is still to
\* be taken, and a window it closed is still to be seen.
Follows(s, k) ==
  \A d \in Used :
    /\ serves(s, d) =>
         /\ s.pos[d] = q[d].lba
         /\ s.reading => holds(s, d, IF d < k /\ s.buff_wr THEN s.bytecnt - 1 ELSE s.bytecnt)
    /\ q[d].st = "asked" => q[d].fill = 0 /\ (d >= k /\ s.current_disk = d => s.bytecnt = 0)
    /\ q[d].st = "window" =>
         \/ s.current_disk = d /\ d \in s.sd_ack
         \/ d < k /\ d \notin s.sd_ack /\ s.current_disk # d /\ Moved(s, d)

Windows ==
  \A d \in Used :
    /\ serves(dev, d) =>
         dev.pos[d] = q[d].lba /\ (dev.reading => holds(dev, d, dev.bytecnt))
    /\ q[d].st = "asked" => q[d].fill = 0 /\ d \notin dev.sd_ack
    /\ q[d].st = "window" => dev.current_disk = d /\ d \in dev.sd_ack
    /\ q[d].st = "done" => Moved(dev, d)

LEMMA CallBegins ==
  ASSUME DiskTypes, Settled(dev), Windows
  PROVE  Follows(dev, 0)
<1> SUFFICES ASSUME NEW d \in Used
             PROVE  /\ serves(dev, d) =>
                         /\ dev.pos[d] = q[d].lba
                         /\ dev.reading =>
                              holds(dev, d, IF d < 0 /\ dev.buff_wr THEN dev.bytecnt - 1
                                                                    ELSE dev.bytecnt)
                    /\ q[d].st = "asked" =>
                         q[d].fill = 0 /\ (d >= 0 /\ dev.current_disk = d => dev.bytecnt = 0)
                    /\ q[d].st = "window" => dev.current_disk = d /\ d \in dev.sd_ack
  BY DEF Follows
<1>1. d \in 0 .. Drives - 1 /\ d # None /\ ~(d < 0)
  BY DEF None
<1>2. ASSUME q[d].st = "asked", dev.current_disk = d PROVE dev.bytecnt = 0
  <2>1. dev.sd_ack = {} /\ busy(dev) /\ dev.bytecnt \in Nat
    BY <1>1, <1>2 DEF Settled, Windows, DiskTypes, Device
  <2> QED
    BY <2>1 DEF Settled
<1> QED
  BY <1>1, <1>2 DEF Windows

LEMMA LastWord ==
  ASSUME DiskTypes, NEW s \in Device, NEW k \in Int, Sectors(s, k),
         NEW d \in Used, serves(s, d), s.pos[d] = q[d].lba,
         busy(s), s.bytecnt = Words, s.reading => holds(s, d, Words)
  PROVE  Moved(s, d)
<1>1. Rules(s) /\ Written(s)
  BY DEF Sectors
<1>2. s.current_disk = d /\ q[d] \in TargetState
  BY DEF serves, DiskTypes
<1>3. CASE s.reading
  <2>1. q[d].op = "read" /\ q[d].fill >= Words
    BY <1>1, <1>2, <1>3 DEF Rules, holds
  <2>2. s.disk[d][q[d].lba] \in [Word -> Data] /\ q[d].buf \in [Word -> Data]
    BY <1>2 DEF Device, TargetState
  <2>3. \A w \in Word : q[d].buf[w] = s.disk[d][q[d].lba][w]
    BY <1>3 DEF holds, Word
  <2> QED
    BY <2>1, <2>2, <2>3 DEF Moved
<1>4. CASE s.writing
  <2>1. q[d].op = "write"
    BY <1>1, <1>2, <1>4 DEF Rules
  <2>2. PICK m \in 0 .. requests :
          s.disk[d][q[d].lba] = part(d, q[d].lba, q[d].write, m, Words)
    BY <1>1, <1>2, <1>4 DEF Written
  <2>3. part(d, q[d].lba, q[d].write, m, Words) = image(d, q[d].lba, q[d].write)
    BY DEF part, image, Word
  <2> QED
    BY <2>1, <2>2, <2>3 DEF Moved
<1> QED
  BY <1>3, <1>4 DEF busy

LEMMA VisitFollows ==
  ASSUME DiskTypes, NEW s \in Device, NEW t \in Device, NEW k \in Drive,
         Settled(s), Sectors(s, k), Follows(s, k), Settled(t), Sectors(t, k + 1),
         rests(s, t, k) \/ opens(s, t, k) \/ delays(s, t, k) \/ moves(s, t, k) \/ ends(s, t, k)
  PROVE  Follows(t, k + 1)
<1>1. k \in Nat /\ k # None /\ k + 1 \in Int
  BY DEF Drive, None
<1>2. \A d \in Used : d \in 0 .. Drives - 1 /\ d # None /\ d \in Int /\ q[d] \in TargetState
  BY DEF None, DiskTypes
<1> SUFFICES ASSUME NEW d \in Used
             PROVE  /\ serves(t, d) =>
                         /\ t.pos[d] = q[d].lba
                         /\ t.reading =>
                              holds(t, d, IF d < k + 1 /\ t.buff_wr THEN t.bytecnt - 1
                                                                    ELSE t.bytecnt)
                    /\ q[d].st = "asked" =>
                         q[d].fill = 0 /\ (d >= k + 1 /\ t.current_disk = d => t.bytecnt = 0)
                    /\ q[d].st = "window" =>
                         \/ t.current_disk = d /\ d \in t.sd_ack
                         \/ d < k + 1 /\ d \notin t.sd_ack /\ t.current_disk # d /\ Moved(t, d)
  BY DEF Follows
<1>3. d \in Nat /\ d # None /\ q[d] \in TargetState
  BY <1>2
<1>4. /\ serves(s, d) =>
           /\ s.pos[d] = q[d].lba
           /\ s.reading => holds(s, d, IF d < k /\ s.buff_wr THEN s.bytecnt - 1 ELSE s.bytecnt)
      /\ q[d].st = "asked" => q[d].fill = 0 /\ (d >= k /\ s.current_disk = d => s.bytecnt = 0)
      /\ q[d].st = "window" =>
           \/ s.current_disk = d /\ d \in s.sd_ack
           \/ d < k /\ d \notin s.sd_ack /\ s.current_disk # d /\ Moved(s, d)
  BY DEF Follows
<1>5. d < k => d < k + 1
  BY <1>1, <1>3
<1>6. d >= k + 1 => d >= k /\ d # k
  BY <1>1, <1>3
<1>7. CASE rests(s, t, k)
  <2>1. t = s /\ s.current_disk # k
    BY <1>7 DEF rests
  <2>2. serves(s, d) => (d < k + 1 <=> d < k)
    BY <1>1, <1>3, <2>1 DEF serves
  <2> QED
    BY <1>4, <1>5, <1>6, <2>1, <2>2
<1>8. CASE opens(s, t, k)
  <2>1. /\ s.current_disk = None /\ q[k].st = "asked" /\ k \in Used /\ t.current_disk = k
        /\ t.bytecnt = 0 /\ t.pos = [s.pos EXCEPT ![k] = q[k].lba]
        /\ t.disk = s.disk /\ t.sd_ack = {} /\ ~t.buff_wr
    BY <1>8 DEF opens
  <2>2. t.pos[k] = q[k].lba
    BY <2>1 DEF Device
  <2>3. holds(t, d, 0)
    BY <1>3 DEF holds, TargetState, Word
  <2>4. Moved(s, d) => Moved(t, d)
    BY <2>1 DEF Moved
  <2>5. q[d].st = "window" => d # k
    BY <2>1
  <2> QED
    BY <1>3, <1>4, <1>5, <1>6, <2>1, <2>2, <2>3, <2>4, <2>5 DEF serves
<1>9. CASE delays(s, t, k)
  <2>1. /\ s.current_disk = k /\ t.current_disk = k /\ s.ack_delay # 1 /\ t.sd_ack = {}
        /\ t.pos = s.pos /\ t.bytecnt = s.bytecnt /\ t.disk = s.disk /\ ~t.buff_wr
    BY <1>9 DEF delays, pauses
  <2>2. s.bytecnt = 0 /\ s.sd_ack = {}
    BY <1>1, <2>1 DEF Settled, Device
  <2>3. holds(t, d, 0)
    BY <1>3 DEF holds, TargetState, Word
  <2>4. Moved(s, d) => Moved(t, d)
    BY <2>1 DEF Moved
  <2> QED
    BY <1>3, <1>4, <1>5, <1>6, <2>1, <2>2, <2>3, <2>4 DEF serves
<1>10. CASE moves(s, t, k)
  <2>1. /\ s.current_disk = k /\ t.current_disk = k /\ t.sd_ack = {k} /\ t.pos = s.pos
        /\ reads(s, t, k) \/ writes(s, t, k, deviceSees) \/ strobeEnds(s, t)
    BY <1>10 DEF moves
  <2>2. CASE d = k
    <3>1. serves(s, d) <=> serves(t, d)
      BY <2>1 DEF serves
    <3>2. ASSUME serves(t, d), t.reading
          PROVE  holds(t, d, IF d < k + 1 /\ t.buff_wr THEN t.bytecnt - 1 ELSE t.bytecnt)
      <4>1. ~t.writing
        BY <3>2 DEF Sectors, Rules
      <4>2. reads(s, t, k) \/ strobeEnds(s, t)
        <5>1. ~writes(s, t, k, deviceSees)
          BY <4>1 DEF writes
        <5> QED
          BY <2>1, <5>1
      <4>3. s.reading /\ t.disk = s.disk /\ s.bytecnt \in Int
            /\ (IF d < k + 1 /\ t.buff_wr THEN t.bytecnt - 1 ELSE t.bytecnt) = s.bytecnt
        <5>1. s.bytecnt \in Int /\ d < k + 1
          BY <1>1, <2>2 DEF Device
        <5>2. CASE reads(s, t, k)
          BY <5>1, <5>2 DEF reads
        <5>3. CASE strobeEnds(s, t)
          BY <3>2, <5>1, <5>3 DEF strobeEnds
        <5> QED
          BY <4>2, <5>2, <5>3
      <4>4. ~(d < k) /\ holds(s, d, s.bytecnt)
        BY <1>1, <1>4, <2>2, <3>1, <3>2, <4>3
      <4>5. holds(t, d, s.bytecnt)
        BY <4>3, <4>4 DEF holds
      <4> QED
        BY <4>3, <4>5
    <3>3. ~(d >= k + 1) /\ t.current_disk = d /\ d \in t.sd_ack
      BY <1>6, <2>1, <2>2
    <3> QED
      BY <1>4, <2>1, <3>1, <3>2, <3>3
  <2>3. CASE d # k
    <3>1. t.disk[d] = s.disk[d]
      BY <2>1, <2>3 DEF reads, writes, strobeEnds, Device
    <3>2. Moved(s, d) => Moved(t, d)
      BY <3>1 DEF Moved
    <3> QED
      BY <1>4, <1>5, <2>1, <2>3, <3>2 DEF serves
  <2> QED
    BY <2>2, <2>3
<1>11. CASE ends(s, t, k)
  <2>1. /\ s.current_disk = k /\ t.current_disk = None /\ t.sd_ack = {}
        /\ s.bytecnt = Words /\ t.disk = s.disk
    BY <1>11 DEF ends
  <2>2. Moved(s, d) => Moved(t, d)
    BY <2>1 DEF Moved
  <2>3. ASSUME d = k, q[d].st = "window" PROVE Moved(s, d)
    <3>1. serves(s, d) /\ busy(s) /\ ~(d < k)
      BY <1>1, <2>1, <2>3 DEF serves, Settled
    <3>2. s.pos[d] = q[d].lba /\ (s.reading => holds(s, d, Words))
      BY <1>4, <2>1, <3>1
    <3> QED
      BY <1>1, <2>1, <3>1, <3>2, LastWord
  <2>4. d = k => d < k + 1
    BY <1>1
  <2> QED
    BY <1>3, <1>4, <1>5, <2>1, <2>2, <2>3, <2>4 DEF serves
<1> QED
  BY <1>7, <1>8, <1>9, <1>10, <1>11

\* A clock of a device whose images are announced.
LEMMA CallFollows ==
  ASSUME DiskInv, Settled(dev), Windows, NEW t \in BeforeEval(dev, deviceSees) \cup {dev}
  PROVE  t \in Device /\ Settled(t) /\ \E k \in Int : Sectors(t, k) /\ Follows(t, k)
<1> DEFINE D == [k \in 0 .. Drives |-> {s \in Device : Settled(s) /\ Sectors(s, k) /\ Follows(s, k)}]
<1>1. dev \in Device /\ Settled(dev) /\ Sectors(dev, 0) /\ Follows(dev, 0)
  BY CallBegins DEF DiskInv, DiskTypes
<1>2. dev \in D[0]
  BY <1>1
<1>3. \A k \in 0 .. Drives - 1 : \A s \in D[k] : Visit(s, k, deviceSees) \subseteq D[k + 1]
  <2> SUFFICES ASSUME NEW k \in 0 .. Drives - 1, NEW s \in D[k],
                      NEW u \in Visit(s, k, deviceSees)
               PROVE  u \in D[k + 1]
    OBVIOUS
  <2>1. /\ s \in Device /\ Settled(s) /\ Sectors(s, k) /\ Follows(s, k)
        /\ k \in Drive /\ k + 1 \in 0 .. Drives
    BY DEF Drive
  <2> HIDE DEF D
  <2>2. u \in Device /\ Sectors(u, k + 1)
    BY <2>1, VisitSectors DEF DiskInv
  <2>3. s.current_disk = k /\ q[k].st = "asked" => s.bytecnt = 0
    <3>1. k # None /\ k >= k
      BY DEF None
    <3>2. s.current_disk = k => k \in Used
      BY <2>1, <3>1 DEF Device
    <3> QED
      BY <2>1, <3>1, <3>2 DEF Follows
  <2>4. /\ Settled(u)
        /\ rests(s, u, k) \/ opens(s, u, k) \/ delays(s, u, k) \/ moves(s, u, k) \/ ends(s, u, k)
    BY <2>1, <2>3, VisitSettled DEF DiskInv, Sectors
  <2>5. Follows(u, k + 1)
    BY <2>1, <2>2, <2>4, VisitFollows DEF DiskInv
  <2> QED
    BY <2>1, <2>2, <2>4, <2>5 DEF D
<1>4. D[Drives] = {s \in Device : Settled(s) /\ Sectors(s, Drives) /\ Follows(s, Drives)}
  <2>1. Drives \in 0 .. Drives
    OBVIOUS
  <2> QED
    BY <2>1
<1> HIDE DEF D
<1>5. BeforeEval(dev, deviceSees) \subseteq D[Drives]
  BY <1>2, <1>3, Walked
<1> QED
  BY <1>1, <1>4, <1>5

\* What the targets make of it in the same clock.
LEMMA WindowsStep ==
  ASSUME DiskInv, Windows, dev' \in Device, Settled(dev'),
         NEW k \in Int, Sectors(dev', k), Follows(dev', k),
         \A d \in Used : goesOn(d) \/ asksNow(d)
  PROVE  (Windows)'
<1> SUFFICES ASSUME NEW d \in Used
             PROVE  /\ q'[d].st \in {"asked", "window"} /\ dev'.current_disk = d =>
                         /\ dev'.pos[d] = q'[d].lba
                         /\ dev'.reading =>
                              /\ q'[d].fill >= dev'.bytecnt
                              /\ \A w \in Word : w < dev'.bytecnt =>
                                   q'[d].buf[w] = dev'.disk[d][q'[d].lba][w]
                    /\ q'[d].st = "asked" => q'[d].fill = 0 /\ d \notin dev'.sd_ack
                    /\ q'[d].st = "window" => dev'.current_disk = d /\ d \in dev'.sd_ack
                    /\ q'[d].st = "done" =>
                         IF q'[d].op = "read"
                         THEN q'[d].fill >= Words /\ q'[d].buf = dev'.disk[d][q'[d].lba]
                         ELSE dev'.disk[d][q'[d].lba] = image(d, q'[d].lba, q'[d].write)
  BY Zenon DEF Windows, serves, holds, Moved
<1>1. q[d] \in TargetState /\ d # None
  BY DEF DiskInv, DiskTypes, None
<1>2. /\ serves(dev', d) =>
           /\ dev'.pos[d] = q[d].lba
           /\ dev'.reading =>
                holds(dev', d, IF d < k /\ dev'.buff_wr THEN dev'.bytecnt - 1 ELSE dev'.bytecnt)
      /\ q[d].st = "asked" => q[d].fill = 0
      /\ q[d].st = "window" =>
           \/ dev'.current_disk = d /\ d \in dev'.sd_ack
           \/ d \notin dev'.sd_ack /\ Moved(dev', d)
  BY DEF Follows
<1>3. dev'.sd_ack \subseteq {dev'.current_disk} /\ dev'.bytecnt \in 0 .. Words
  BY DEF Settled, Device
<1>4. CASE asksNow(d)
  <2>1. dev'.current_disk # d
    BY <1>4, AtWork
  <2> QED
    BY <1>3, <1>4, <2>1 DEF asksNow
<1>5. CASE q'[d].st = "idle"
  BY <1>5
<1>6. CASE /\ kept(d)
           /\ q'[d].st = CASE q[d].st = "asked" /\ acked(d) -> "window"
                           [] q[d].st = "window" /\ ~acked(d) -> "done"
                           [] q[d].st = "done" -> "idle" [] OTHER -> q[d].st
           /\ q'[d].fill = IF ~acked(d) THEN IF q[d].st = "window" THEN q[d].fill ELSE 0
                           ELSE IF dev'.buff_wr /\ q[d].fill < 2 * Words - 1 THEN q[d].fill + 1
                                ELSE q[d].fill
  <2>1. /\ q'[d].op = q[d].op /\ q'[d].lba = q[d].lba /\ q'[d].write = q[d].write
        /\ q'[d].buf = Buffer(d)
    BY <1>6 DEF kept
  <2>2. q[d].st # "idle" => (acked(d) <=> d \in dev'.sd_ack)
    BY DEF acked
  <2>3. CASE q[d].st \in {"asked", "window"} /\ d \in dev'.sd_ack
    <3>1. q'[d].st = "window" /\ dev'.current_disk = d /\ serves(dev', d)
          /\ q'[d].fill = IF dev'.buff_wr /\ q[d].fill < 2 * Words - 1 THEN q[d].fill + 1
                          ELSE q[d].fill
      BY <1>3, <1>6, <2>2, <2>3 DEF serves
    <3>2. dev'.pos[d] = q[d].lba
      BY <1>2, <3>1
    <3>3. ASSUME dev'.reading
          PROVE  /\ q'[d].fill >= dev'.bytecnt
                 /\ \A w \in Word : w < dev'.bytecnt => q'[d].buf[w] = dev'.disk[d][q[d].lba][w]
      <4>1. q[d].fill \in Nat /\ q[d].buf \in [Word -> Data] /\ Words \in Nat \ {0}
        BY <1>1 DEF TargetState
      <4>2. CASE dev'.buff_wr
        <5>1. /\ dev'.bytecnt > 0 /\ dev'.buff_addr = dev'.bytecnt - 1
              /\ dev'.buff_dout = dev'.disk[d][q[d].lba][dev'.bytecnt - 1]
          BY <3>1, <3>2, <4>2 DEF Settled
        <5>2. q'[d].buf = [q[d].buf EXCEPT ![dev'.bytecnt - 1] =
                                             dev'.disk[d][q[d].lba][dev'.bytecnt - 1]]
          BY <2>1, <2>3, <4>2, <5>1 DEF Buffer
        <5>3. holds(dev', d, dev'.bytecnt) \/ holds(dev', d, dev'.bytecnt - 1)
          BY <1>2, <3>1, <3>3
        <5>4. q[d].fill >= dev'.bytecnt - 1
          BY <1>3, <4>1, <5>3 DEF holds
        <5>5. \A w \in Word : w < dev'.bytecnt - 1 => q[d].buf[w] = dev'.disk[d][q[d].lba][w]
          BY <1>3, <5>3 DEF holds, Word
        <5>6. q'[d].fill >= dev'.bytecnt
          BY <1>3, <3>1, <4>1, <4>2, <5>1, <5>4
        <5>7. ASSUME NEW w \in Word, w < dev'.bytecnt
              PROVE  q'[d].buf[w] = dev'.disk[d][q[d].lba][w]
          <6>1. w = dev'.bytecnt - 1 \/ w < dev'.bytecnt - 1
            BY <1>3, <5>7 DEF Word
          <6>2. w < dev'.bytecnt - 1 => w # dev'.bytecnt - 1
            BY <1>3 DEF Word
          <6> QED
            BY <4>1, <5>2, <5>5, <6>1, <6>2
        <5> QED
          BY <5>6, <5>7
      <4>3. CASE ~dev'.buff_wr
        <5>1. q'[d].buf = q[d].buf /\ q'[d].fill = q[d].fill
          BY <2>1, <3>1, <4>3 DEF Buffer
        <5>2. holds(dev', d, dev'.bytecnt)
          BY <1>2, <3>1, <3>3, <4>3
        <5> QED
          BY <5>1, <5>2 DEF holds
      <4> QED
        BY <4>2, <4>3
    <3> QED
      BY <2>1, <2>3, <3>1, <3>2, <3>3
  <2>4. CASE q[d].st = "asked" /\ d \notin dev'.sd_ack
    <3>1. q'[d].st = "asked" /\ q'[d].fill = 0 /\ q'[d].buf = q[d].buf /\ q[d].fill = 0
      BY <1>2, <1>6, <2>1, <2>2, <2>4 DEF Buffer
    <3>2. ASSUME dev'.current_disk = d
          PROVE  dev'.pos[d] = q[d].lba /\ dev'.bytecnt = 0
      <4>1. dev'.sd_ack = {} /\ busy(dev') /\ serves(dev', d)
        BY <1>1, <1>3, <2>4, <3>2 DEF Settled, serves
      <4> QED
        BY <1>2, <1>3, <4>1 DEF Settled
    <3>3. \A w \in Word : ~(w < 0)
      BY DEF Word
    <3> QED
      BY <2>1, <2>4, <3>1, <3>2, <3>3
  <2>5. CASE q[d].st = "window" /\ d \notin dev'.sd_ack
    <3>1. q'[d].st = "done" /\ q'[d].fill = q[d].fill /\ q'[d].buf = q[d].buf
      BY <1>6, <2>1, <2>2, <2>5 DEF Buffer
    <3>2. Moved(dev', d)
      BY <1>2, <2>5
    <3> QED
      BY <2>1, <3>1, <3>2 DEF Moved
  <2>6. CASE q[d].st \in {"idle", "done"}
    <3>1. q'[d].st = "idle"
      BY <1>6, <2>6
    <3> QED
      BY <3>1
  <2> QED
    BY <1>1, <2>3, <2>4, <2>5, <2>6 DEF TargetState
<1> QED
  BY <1>4, <1>5, <1>6 DEF goesOn

-----------------------------------------------------------------------------
(* The bench *)

BenchInv == DiskInv /\ TimeInv /\ Windows

LEMMA BenchInit == ASSUME BenchAssumption, Init PROVE BenchInv
<1>1. DiskInv
  BY DiskInit
<1>2. /\ dev = DeviceInit /\ bus = LoaderInit /\ main_time = 0 /\ slot = 0 /\ rst_cnt = 0
      /\ reset = FALSE /\ n_reset = FALSE /\ ioctl_wait = FALSE /\ dio_write = FALSE
      /\ dio_old_cyc = FALSE /\ target = None
      /\ \A d \in Used : q[d].st = "idle"
  BY DEF Init
<1>3. BenchTypes
  <2>1. word(NoFile, 0) \in Driven
    BY DEF Driven
  <2>2. bus \in Loader
    BY <1>2, <2>1, FilesAreFiles DEF LoaderInit, Loader, ROM
  <2>3. Release \in Nat
    BY DEF BenchAssumption
  <2>4. rst_cnt \in 0 .. Release
    BY <1>2, <2>3
  <2>5. slot \in 0 .. 15 /\ main_time \in Nat
    BY <1>2
  <2>6. {n_reset, reset, ioctl_wait, dio_write, dio_old_cyc} \subseteq BOOLEAN
    BY <1>2
  <2> QED
    BY <2>2, <2>4, <2>5, <2>6 DEF BenchTypes
<1>4. Held
  BY <1>2 DEF Held, LoaderInit, NoFile
<1>5. Unsettled
  <2>1. Mounting(dev)
    BY <1>2 DEF Mounting, DeviceInit
  <2>2. \E r \in 0 .. Drives * (Rounds + 2) : Left(dev, r)
    <3> DEFINE c == Cardinality(Used)
    <3>1. dev.img_mounted = {} /\ dev.mountQueue = Used /\ dev.ack_delay = 0
      BY <1>2 DEF DeviceInit
    <3>2. c \in Nat /\ c <= Drives /\ Rounds \in Nat
      BY DrivesFinite, RoundsFact
    <3>3. CASE Used = {}
      <4>1. 0 \in 0 .. Drives * (Rounds + 2)
        BY <3>2
      <4> QED
        BY <3>1, <3>3, <4>1 DEF Left
    <3>4. CASE Used # {}
      <4> HIDE DEF c
      <4>1. c * (Rounds + 1) \in Nat /\ c * (Rounds + 1) <= Drives * (Rounds + 1)
        BY <3>2
      <4>2. Drives * (Rounds + 2) = Drives * (Rounds + 1) + Drives /\ Drives * (Rounds + 1) \in Nat
        BY <3>2
      <4>3. c * (Rounds + 1) + 1 \in 0 .. Drives * (Rounds + 2)
        BY <4>1, <4>2
      <4> QED
        BY <3>1, <3>4, <4>3 DEF Left, c
    <3> QED
      BY <3>3, <3>4
  <2>3. Resets
    BY <1>2 DEF Resets, BenchAssumption
  <2> QED
    BY <1>2, <2>1, <2>2, <2>3 DEF Unsettled
<1>6. Announced
  BY <1>2 DEF Announced, DeviceInit
<1>7. Windows
  BY <1>2 DEF Windows, serves
<1> QED
  BY <1>1, <1>3, <1>4, <1>5, <1>6, <1>7 DEF BenchInv, TimeInv

LEMMA BenchStep ==
  ASSUME BenchAssumption, NoEmptyFiles, BenchInv, [Next]_vars
  PROVE  (BenchInv)'
<1>1. (DiskInv)'
  BY DiskStep DEF BenchInv
<1>2. CASE UNCHANGED vars
  <2>1. /\ dev' = dev /\ q' = q /\ target' = target /\ capacity' = capacity /\ bus' = bus
        /\ main_time' = main_time /\ slot' = slot /\ reset' = reset /\ rst_cnt' = rst_cnt
        /\ n_reset' = n_reset /\ ioctl_wait' = ioctl_wait /\ dio_write' = dio_write
        /\ dio_old_cyc' = dio_old_cyc
    BY <1>2 DEF vars, coreVars, dioVars, scsiVars
  <2>2. (BenchTypes)' /\ (Held)' /\ (Announced)'
    BY <2>1 DEF BenchInv, TimeInv, BenchTypes, Held, Pending, Announced
  <2>3. (Settled(dev))' \/ (Unsettled)'
    <3>1. CASE Settled(dev)
      BY <2>1, <3>1 DEF Settled, busy
    <3>2. CASE Unsettled
      BY <2>1, <3>2 DEF Unsettled, Mounting, Left, toBoot, toRelease, Resets, Pending
    <3> QED
      BY <3>1, <3>2 DEF BenchInv, TimeInv
  <2>4. (Windows)'
    BY <2>1 DEF BenchInv, Windows, serves, holds, Moved
  <2> QED
    BY <1>1, <2>2, <2>3, <2>4 DEF BenchInv, TimeInv
<1>3. CASE Next
  <2>1. PICK t \in {main_time, 0}, b \in Loader :
          /\ Clock(t, b) /\ b.file = bus.file /\ b.eof = bus.eof /\ b.next = bus.next
          /\ b.download = bus.download
    BY <1>3, NextIs DEF BenchInv, TimeInv, BenchTypes
  <2>2. BenchTypes /\ Held /\ DiskInv /\ DiskTypes /\ Windows /\ Announced
        /\ (Settled(dev) \/ Unsettled)
    BY DEF BenchInv, TimeInv, DiskInv
  <2>3. (BenchTypes)' /\ (Held)'
    BY <2>1, <2>2, HeldStep
  <2>4. dev' \in Device /\ (DiskTypes)'
    BY <1>1 DEF DiskInv, DiskTypes
  <2>5. /\ \A d \in Used : goesOn(d) \/ asksNow(d)
        /\ target' # target => target' = None \/ asksNow(target')
    BY <1>3, <2>2, <2>4, TargetsMove
  <2>6. dev' \in BeforeEval(dev, deviceSees) \cup {dev}
    BY <2>1 DEF Clock
  <2>7. capacity' = [d \in Used |-> IF d \in dev'.img_mounted THEN dev'.img_size ELSE capacity[d]]
    BY <2>1 DEF Clock, Capacities
  <2>8. CASE Settled(dev)
    <3>1. Settled(dev') /\ \E k \in Int : Sectors(dev', k) /\ Follows(dev', k)
      BY <2>2, <2>6, <2>8, CallFollows
    <3>2. (Windows)'
      BY <2>2, <2>4, <2>5, <3>1, WindowsStep
    <3>3. (Announced)'
      BY <2>2, <2>7, <2>8, <3>1 DEF Announced, Settled
    <3>4. (Settled(dev))'
      BY <3>1 DEF Settled, busy
    <3> QED
      BY <1>1, <2>3, <3>2, <3>3, <3>4 DEF BenchInv, TimeInv
  <2>9. CASE Unsettled
    <3>1. /\ Settled(dev') \/ (Unsettled)'
          /\ dev'.img_mounted = {} \/ dev'.img_mounted = {dev'.img_size}
          /\ \A d \in dev.mountQueue \ dev'.mountQueue : dev'.img_mounted = {d}
      BY <2>1, <2>2, <2>3, <2>4, <2>5, <2>9, UnsettledStep
    <3>2. \A d \in Used : q'[d].st = "idle"
      <4>1. \A d \in Used : d # None /\ q[d].st = "idle" /\ ~n_reset /\ target = None
        BY <2>9 DEF Unsettled, None
      <4> QED
        BY <2>5, <4>1 DEF asksNow, goesOn
    <3>3. (Windows)'
      BY <3>2 DEF Windows, serves
    <3>4. (Announced)'
      BY <2>2, <2>7, <3>1 DEF Announced
    <3>5. Settled(dev') => (Settled(dev))'
      BY DEF Settled, busy
    <3> QED
      BY <1>1, <2>3, <3>1, <3>3, <3>4, <3>5 DEF BenchInv, TimeInv
  <2> QED
    BY <2>2, <2>8, <2>9
<1> QED
  BY <1>2, <1>3

\* The disks, the loader and the release counter, together.
LEMMA BenchRight ==
  ASSUME NoEmptyFiles
  PROVE  Spec => []BenchInv
<1>1. Init => BenchInv
  BY BenchAssumption, BenchInit
<1>2. BenchInv /\ [Next]_vars => (BenchInv)'
  BY BenchAssumption, BenchStep
<1> QED
  BY <1>1, <1>2, PTL DEF Spec

\* When the window of a read ends, the target has counted a sector's strobes
\* and holds the sector it asked for; when that of a write ends, the image
\* holds what the target was given, whatever abandoned requests, the other
\* drives and pauses of the device came between (Transfer, Start and
\* Acknowledge in sim_blkdevice.cpp, the I/O of sim.v's targets).
THEOREM WindowsMove ==
  ASSUME NoEmptyFiles
  PROVE  Spec => []WindowMoves
<1>1. BenchInv => WindowMoves
  BY DEF BenchInv, Windows, WindowMoves, Moved
<1>2. Spec => []BenchInv
  BY BenchRight
<1> QED
  BY <1>1, <1>2, PTL

-----------------------------------------------------------------------------
(* The files in memory when the machine runs *)

\* Two files whose words lie apart.
Apart(f, g) ==
  \A j \in 0 .. f.words - 1, k \in 0 .. g.words - 1 : place(f.index, j) # place(g.index, k)
floppy(f) == f.index \in {Internal, External}

\* Files that do not open are dropped one a clock, and the release counter
\* must not run out meanwhile.
ReleaseOutlastsQueue == Len(Startup) <= 4 * Release

\* There is a ROM to start on.
BootRom == \E k \in 1 .. Len(Startup) : Startup[k].opens /\ Startup[k].index = ROM

\* No file is written over by a later one, but for the NuBus ROM, in whose
\* window a large floppy ends, and a ROM by another.
Layout ==
  /\ \A k, j \in 1 .. Len(Startup) :
       k < j /\ Startup[j].opens /\ Startup[k].index # NuBus => Apart(Startup[k], Startup[j])
  /\ \A k \in 1 .. Len(Startup), g \in Menu :
       floppy(Startup[k]) /\ g.opens => Apart(Startup[k], g)

\* The queue after n of the startup files: the others, then the menu's.
Queued(n) ==
  /\ Len(bus.queue) >= Len(Startup) - n /\ (loads = 0 => Len(bus.queue) = Len(Startup) - n)
  /\ \A k \in 1 .. Len(bus.queue) :
       IF k <= Len(Startup) - n THEN bus.queue[k] = Startup[n + k] ELSE bus.queue[k] \in Menu

\* A file that streams is in memory up to the word on the port.
Streaming ==
  IF bus.file = NoFile THEN ~bus.download /\ ~bus.wr /\ ~ioctl_wait
  ELSE /\ bus.download /\ bus.wr /\ bus.index = bus.file.index
       /\ bus.next = bus.addr + 1 /\ bus.next <= bus.file.words
       /\ bus.dout = word(bus.file, bus.addr)
       /\ bus.eof => bus.next = bus.file.words
       /\ \A k \in 0 .. bus.addr : mem[place(bus.index, k)] = word(bus.file, k)

LoadTypes ==
  /\ DOMAIN mem = Cells /\ loads \in Nat
  /\ old_down <=> bus.download

\* A startup file that is through.
Loaded(f) ==
  f.opens => /\ f.index # NuBus => InMemory(f)
             /\ floppy(f) => f.index \in inserted
FloppiesLoaded == \A f \in Opened({Internal, External}) : InMemory(f) /\ f.index \in inserted

\* Between two startup files, in one, between two of the menu, in one.
Between(n) ==
  /\ n < Len(Startup) /\ bus.file = NoFile /\ \A k \in 1 .. n : Loaded(Startup[k])
  /\ ~n_reset /\ (Len(Startup) - n <= toRelease \/ Resets)
InStartup(n) ==
  /\ n > 0 /\ bus.file = Startup[n] /\ bus.file.opens /\ ~n_reset
  /\ \A k \in 1 .. n - 1 : Loaded(Startup[k])
AtRest(n) ==
  /\ n = Len(Startup) /\ bus.file = NoFile /\ FloppiesLoaded
  /\ \E f \in Opened({ROM}) : InMemory(f)
InMenu(n) ==
  n = Len(Startup) /\ loads > 0 /\ bus.file \in Menu /\ bus.file.opens /\ FloppiesLoaded

Progress ==
  \E n \in 0 .. Len(Startup) :
    Queued(n) /\ (Between(n) \/ InStartup(n) \/ AtRest(n) \/ InMenu(n))

LoadInv == LoadTypes /\ Streaming /\ Progress

HIDE BlockDeviceAssumption

LEMMA PlacesAreCells ==
  ASSUME NEW f \in Files, NEW k \in 0 .. f.words - 1
  PROVE  place(f.index, k) \in Cells
BY DEF Cells

\* Words of one file have places of their own.
LEMMA PlacesDiffer ==
  ASSUME NEW f \in Files, NEW j \in Nat, NEW k \in Nat, place(f.index, j) = place(f.index, k)
  PROVE  j = k
<1>1. f.index \in {0, 1, 2, 3}
  BY FilesAreFiles DEF File, ROM, NuBus, Internal, External
<1>2. Base(f.index) * HalfMega \in Int
  BY <1>1 DEF Base, HalfMega, ROM, NuBus, Internal, External
<1> QED
  BY <1>2 DEF place

\* Memory changes only where a word of the file lies.
WritesOnly(f) ==
  \A p \in Cells : (\A k \in 0 .. f.words - 1 : p # place(f.index, k)) => mem'[p] = mem[p]

LEMMA OthersStay ==
  ASSUME NEW f \in Files, NEW g \in Files, Apart(f, g), WritesOnly(g), InMemory(f)
  PROVE  InMemory(f)'
<1> SUFFICES ASSUME NEW k \in 0 .. f.words - 1
             PROVE  mem'[place(f.index, k)] = word(f, k)
  BY DEF InMemory, place, Base, HalfMega, word
<1>1. place(f.index, k) \in Cells
  BY PlacesAreCells
<1>2. \A j \in 0 .. g.words - 1 : place(f.index, k) # place(g.index, j)
  BY DEF Apart
<1>3. mem'[place(f.index, k)] = mem[place(f.index, k)]
  BY <1>1, <1>2 DEF WritesOnly
<1> QED
  BY <1>3 DEF InMemory

LEMMA ClockQueues ==
  ASSUME BenchTypes, NEW b \in Loader, NEW n \in 0 .. Len(Startup), Queued(n), loads \in Nat,
         \/ b.queue = bus.queue /\ loads' = loads
         \/ \E f \in Menu : b.queue = Append(bus.queue, f) /\ loads' = loads + 1
  PROVE  /\ loads' \in Nat /\ loads' >= loads
         /\ Len(b.queue) >= Len(Startup) - n /\ (loads' = 0 => Len(b.queue) = Len(Startup) - n)
         /\ \A k \in 1 .. Len(b.queue) :
              IF k <= Len(Startup) - n THEN b.queue[k] = Startup[n + k] ELSE b.queue[k] \in Menu
<1>1. bus.queue \in Seq(Files) /\ Len(Startup) \in Nat
  BY FileAssumption DEF BenchTypes, Loader
<1>2. CASE b.queue = bus.queue /\ loads' = loads
  BY <1>2 DEF Queued
<1>3. ASSUME NEW f \in Menu, b.queue = Append(bus.queue, f), loads' = loads + 1
      PROVE  /\ loads' \in Nat /\ loads' >= loads /\ loads' # 0
             /\ Len(b.queue) >= Len(Startup) - n
             /\ \A k \in 1 .. Len(b.queue) :
                  IF k <= Len(Startup) - n THEN b.queue[k] = Startup[n + k] ELSE b.queue[k] \in Menu
  <2>1. Len(b.queue) = Len(bus.queue) + 1 /\ b.queue[Len(bus.queue) + 1] = f
        /\ \A k \in 1 .. Len(bus.queue) : b.queue[k] = bus.queue[k]
    BY <1>1, <1>3
  <2>2. Len(bus.queue) >= Len(Startup) - n /\ Len(bus.queue) \in Nat
    BY <1>1 DEF Queued
  <2>3. ASSUME NEW k \in 1 .. Len(b.queue)
        PROVE  IF k <= Len(Startup) - n THEN b.queue[k] = Startup[n + k] ELSE b.queue[k] \in Menu
    <3>1. CASE k = Len(bus.queue) + 1
      BY <1>1, <1>3, <2>1, <2>2, <3>1
    <3>2. CASE k \in 1 .. Len(bus.queue)
      BY <2>1, <3>2 DEF Queued
    <3> QED
      BY <2>1, <2>2, <3>1, <3>2
  <2> QED
    BY <1>1, <1>3, <2>1, <2>2, <2>3
<1> QED
  BY <1>2, <1>3

\* The word on the port lands in the clock in which it is driven.
LEMMA WordLands ==
  ASSUME NEW f \in Files, NEW a \in 0 .. f.words - 1, DOMAIN mem = Cells, DownloadPort,
         bus'.download, bus'.wr, bus'.index = f.index, bus'.addr = a, bus'.dout = word(f, a),
         \A k \in 0 .. a - 1 : mem[place(f.index, k)] = word(f, k)
  PROVE  /\ DOMAIN mem' = Cells /\ WritesOnly(f)
         /\ \A k \in 0 .. a : mem'[place(f.index, k)] = word(f, k)
<1>1. mem' = [mem EXCEPT ![place(f.index, a)] = word(f, a)]
  BY DEF DownloadPort
<1>2. DOMAIN mem' = Cells
  BY <1>1
<1>3. place(f.index, a) \in Cells
  BY PlacesAreCells
<1>4. f.words \in Nat /\ a \in Nat
  BY FilesAreFiles DEF File
<1>5. WritesOnly(f)
  BY <1>1 DEF WritesOnly
<1>6. ASSUME NEW k \in 0 .. a PROVE mem'[place(f.index, k)] = word(f, k)
  <2>1. CASE k = a
    BY <1>1, <1>3, <2>1
  <2>2. CASE k # a
    <3>3. k \in Nat
      BY <1>4
    <3>1. place(f.index, k) # place(f.index, a)
      BY <1>4, <2>2, <3>3, PlacesDiffer
    <3>2. place(f.index, k) \in Cells /\ k \in 0 .. a - 1
      BY <1>4, <2>2, PlacesAreCells
    <3> QED
      BY <1>1, <3>1, <3>2
  <2> QED
    BY <2>1, <2>2
<1> QED
  BY <1>2, <1>5, <1>6

\* A clock of the loader with its port: nothing streams, a file begins, goes
\* on, or ends and is whole.
loaderRests(b) ==
  /\ bus.file = NoFile /\ bus'.file = NoFile /\ mem' = mem /\ inserted' = inserted
  /\ IF b.queue = <<>> THEN bus'.queue = b.queue
                       ELSE bus'.queue = Tail(b.queue) /\ ~Head(b.queue).opens
fileBegins(b) ==
  /\ bus.file = NoFile /\ b.queue # <<>> /\ bus'.queue = Tail(b.queue)
  /\ bus'.file = Head(b.queue) /\ bus'.file.opens /\ WritesOnly(bus'.file) /\ inserted' = inserted
fileGoesOn(b) ==
  /\ bus.file # NoFile /\ bus'.file = bus.file /\ bus'.queue = b.queue
  /\ WritesOnly(bus.file) /\ inserted' = inserted
fileEnds(b) ==
  /\ bus.file # NoFile /\ bus'.file = NoFile /\ bus'.queue = b.queue /\ ~ioctl_wait
  /\ mem' = mem /\ InMemory(bus.file)
  /\ inserted' = IF floppy(bus.file) THEN inserted \cup {bus.file.index} ELSE inserted

LEMMA LoadMoves ==
  ASSUME NoEmptyFiles, BenchTypes, Held, LoadTypes, Streaming, NEW t, NEW b \in Loader, Clock(t, b),
         b.file = bus.file, b.eof = bus.eof, b.next = bus.next, b.download = bus.download,
         b.wr = bus.wr, b.addr = bus.addr, b.index = bus.index, b.dout = bus.dout
  PROVE  /\ DOMAIN mem' = Cells /\ (old_down' <=> bus'.download) /\ (Streaming)'
         /\ loaderRests(b) \/ fileBegins(b) \/ fileGoesOn(b) \/ fileEnds(b)
<1> DEFINE o == Take(b)
<1>1. ioctl_wait \in BOOLEAN /\ bus \in Loader /\ DOMAIN mem = Cells /\ (old_down <=> bus.download)
  BY DEF BenchTypes, LoadTypes
<1>2. bus' = Stream(o, ioctl_wait)
  BY DEF Clock, LoaderStep
<1>3. /\ o \in Loader /\ o.download = b.download /\ o.wr = b.wr /\ o.dout = b.dout
      /\ IF b.file = NoFile /\ b.queue # <<>>
         THEN /\ o.queue = Tail(b.queue) /\ o.next = 0 /\ o.addr = 0 /\ ~o.eof
              /\ o.index = Head(b.queue).index /\ Head(b.queue) \in Files
              /\ o.file = IF Head(b.queue).opens THEN Head(b.queue) ELSE NoFile
         ELSE o = b
  BY TakeMoves
<1> HIDE DEF o
<1>4. /\ bus' \in Loader /\ bus'.queue = o.queue /\ bus'.index = o.index
      /\ ~words(o, bus', ioctl_wait) => bus'.addr = o.addr /\ bus'.next = o.next /\ bus'.dout = o.dout
      /\ \/ idles(o, bus') \/ waits(o, bus', ioctl_wait) \/ closes(o, bus', ioctl_wait)
         \/ words(o, bus', ioctl_wait) \/ meetsEnd(o, bus', ioctl_wait)
  BY <1>1, <1>2, <1>3, StreamMoves
<1>5. ~ioctl_wait => (ioctl_wait' <=> bus'.wr)
  BY PortMoves
<1>6. DownloadPort /\ FloppyDrives
  BY DEF Clock
<1>7. old_down' <=> bus'.download
  BY <1>6 DEF FloppyDrives
<1>8. ~bus'.download => mem' = mem /\ DOMAIN mem' = Cells
  BY <1>1, <1>6 DEF DownloadPort
<1>9. bus'.download \/ ~bus.download => inserted' = inserted
  BY <1>1, <1>6 DEF FloppyDrives
<1>10. CASE idles(o, bus')
  <2>1. bus'.file = NoFile /\ ~bus'.download /\ ~bus'.wr /\ o.file = NoFile
    BY <1>10 DEF idles
  <2>2. bus.file = NoFile
    BY <1>3, <2>1
  <2>3. ~bus.download /\ ~ioctl_wait /\ ~ioctl_wait'
    BY <1>5, <2>1, <2>2 DEF Streaming
  <2>4. (Streaming)'
    BY <2>1, <2>3 DEF Streaming
  <2>5. loaderRests(b)
    <3>1. IF b.queue = <<>> THEN bus'.queue = b.queue
                            ELSE bus'.queue = Tail(b.queue) /\ ~Head(b.queue).opens
      <4>1. CASE b.queue = <<>>
        BY <1>3, <1>4, <4>1
      <4>2. CASE b.queue # <<>>
        <5>1. Head(b.queue) # NoFile
          BY <1>3, <2>2, <4>2, FilesAreFiles
        <5> QED
          BY <1>3, <1>4, <2>1, <2>2, <4>2, <5>1
      <4> QED
        BY <4>1, <4>2
    <3> QED
      BY <1>8, <1>9, <2>1, <2>2, <2>3, <3>1 DEF loaderRests
  <2> QED
    BY <1>7, <1>8, <2>1, <2>4, <2>5
<1>11. CASE o.file # NoFile /\ bus.file = NoFile
  <2>1. /\ b.queue # <<>> /\ o.queue = Tail(b.queue) /\ o.next = 0 /\ o.addr = 0 /\ ~o.eof
        /\ o.index = Head(b.queue).index /\ Head(b.queue) \in Files
        /\ o.file = Head(b.queue) /\ Head(b.queue).opens
    BY <1>3, <1>11
  <2>2. ~bus.download /\ ~bus.wr /\ ~ioctl_wait
    BY <1>11 DEF Streaming
  <2>3. o.file \in Files /\ o.file.words \in Nat /\ o.file.words > 0
    BY <2>1, FilesAreFiles DEF File, NoEmptyFiles
  <2>4. words(o, bus', ioctl_wait)
    BY <1>4, <1>11, <2>1, <2>2, <2>3 DEF idles, waits, closes, meetsEnd
  <2>5. /\ bus'.file = o.file /\ bus'.download /\ bus'.wr /\ bus'.addr = 0 /\ bus'.next = 1
        /\ bus'.dout = word(o.file, 0) /\ (bus'.eof => 1 = o.file.words)
    BY <2>1, <2>4 DEF words
  <2>6. bus'.index = o.file.index /\ 0 \in 0 .. o.file.words - 1
    BY <1>4, <2>1, <2>3
  <2>7. /\ DOMAIN mem' = Cells /\ WritesOnly(o.file)
        /\ \A k \in 0 .. 0 : mem'[place(o.file.index, k)] = word(o.file, k)
    <3>1. \A k \in 0 .. 0 - 1 : mem[place(o.file.index, k)] = word(o.file, k)
      OBVIOUS
    <3> QED
      BY <1>1, <1>6, <2>3, <2>5, <2>6, <3>1, WordLands
  <2>8. (Streaming)'
    <3>1. \A k \in 0 .. bus'.addr : mem'[place(bus'.index, k)] = word(bus'.file, k)
      BY <2>5, <2>6, <2>7
    <3>2. bus'.next = bus'.addr + 1 /\ bus'.next <= bus'.file.words
          /\ bus'.dout = word(bus'.file, bus'.addr) /\ (bus'.eof => bus'.next = bus'.file.words)
      BY <2>3, <2>5
    <3> QED
      BY <1>11, <2>5, <2>6, <3>1, <3>2 DEF Streaming, word, place, Base, HalfMega
  <2>9. fileBegins(b)
    BY <1>4, <1>9, <1>11, <2>1, <2>5, <2>7 DEF fileBegins
  <2> QED
    BY <1>7, <2>7, <2>8, <2>9
<1>12. CASE o.file # NoFile /\ bus.file # NoFile
  <2>1. o = b
    BY <1>3, <1>12
  <2>2. /\ bus.download /\ bus.wr /\ bus.index = bus.file.index
        /\ bus.next = bus.addr + 1 /\ bus.next <= bus.file.words
        /\ bus.dout = word(bus.file, bus.addr)
        /\ bus.eof => bus.next = bus.file.words
        /\ \A k \in 0 .. bus.addr : mem[place(bus.index, k)] = word(bus.file, k)
    BY <1>12 DEF Streaming
  <2>3. bus.file \in Files /\ bus.file.words \in Nat /\ bus.addr \in Nat /\ bus.next \in Nat
    <3>1. bus.file \in Files /\ bus.addr \in Nat /\ bus.next \in Nat
      BY <1>1, <1>12 DEF Loader
    <3> QED
      BY <3>1, FilesAreFiles DEF File
  <2>4. bus'.queue = b.queue /\ bus'.index = bus.file.index
    BY <1>4, <2>1, <2>2
  <2>5. CASE closes(o, bus', ioctl_wait)
    <3>1. bus'.file = NoFile /\ ~bus'.download /\ ~bus'.wr /\ ~ioctl_wait /\ bus.eof
      BY <2>1, <2>5 DEF closes
    <3>2. (Streaming)'
      BY <1>5, <3>1 DEF Streaming
    <3>3. InMemory(bus.file)
      <4> SUFFICES ASSUME NEW k \in 0 .. bus.file.words - 1
                   PROVE  mem[place(bus.file.index, k)] = word(bus.file, k)
        BY DEF InMemory
      <4>1. k \in 0 .. bus.addr
        BY <2>2, <2>3, <3>1
      <4> QED
        BY <2>2, <4>1
    <3>4. sizeFits(bus')
      <4>1. bus'.addr = bus.addr
        <5>1. ~words(o, bus', ioctl_wait)
          BY <2>5 DEF closes, words
        <5> QED
          BY <1>4, <2>1, <5>1
      <4>2. bus.file.index = bus'.index /\ bus'.addr + 1 = bus.file.words
        BY <2>2, <2>4, <3>1, <4>1
      <4> QED
        BY <2>3, <4>2 DEF sizeFits
    <3>5. inserted' = IF floppy(bus.file) THEN inserted \cup {bus.file.index} ELSE inserted
      BY <1>1, <1>6, <2>2, <2>4, <3>1, <3>4 DEF FloppyDrives, floppy
    <3>6. fileEnds(b)
      BY <1>8, <1>12, <2>4, <3>1, <3>3, <3>5 DEF fileEnds
    <3> QED
      BY <1>7, <1>8, <3>1, <3>2, <3>6
  <2>6. CASE words(o, bus', ioctl_wait)
    <3>1. /\ bus'.file = bus.file /\ bus'.download /\ bus'.wr /\ bus'.addr = bus.next
          /\ bus'.next = bus.next + 1 /\ bus.next < bus.file.words
          /\ bus'.dout = word(bus.file, bus.next) /\ (bus'.eof => bus.next + 1 = bus.file.words)
      BY <2>1, <2>6 DEF words
    <3>2. /\ DOMAIN mem' = Cells /\ WritesOnly(bus.file)
          /\ \A k \in 0 .. bus.next : mem'[place(bus.file.index, k)] = word(bus.file, k)
      <4>1. bus.next \in 0 .. bus.file.words - 1
        BY <2>3, <3>1
      <4>2. \A k \in 0 .. bus.next - 1 : mem[place(bus.file.index, k)] = word(bus.file, k)
        BY <2>2, <2>3
      <4> QED
        BY <1>1, <1>6, <2>3, <2>4, <3>1, <4>1, <4>2, WordLands
    <3>3. (Streaming)'
      <4>1. \A k \in 0 .. bus'.addr : mem'[place(bus'.index, k)] = word(bus'.file, k)
        BY <2>4, <3>1, <3>2
      <4>2. bus'.next = bus'.addr + 1 /\ bus'.next <= bus'.file.words
            /\ bus'.dout = word(bus'.file, bus'.addr) /\ (bus'.eof => bus'.next = bus'.file.words)
        BY <2>3, <3>1
      <4> QED
        BY <1>12, <2>4, <3>1, <4>1, <4>2 DEF Streaming, word, place, Base, HalfMega
    <3>4. fileGoesOn(b)
      BY <1>9, <1>12, <2>4, <3>1, <3>2 DEF fileGoesOn
    <3> QED
      BY <1>7, <3>2, <3>3, <3>4
  <2>7. CASE waits(o, bus', ioctl_wait) \/ meetsEnd(o, bus', ioctl_wait)
    <3>1. /\ bus'.file = bus.file /\ bus'.download /\ bus'.wr /\ bus'.addr = bus.addr
          /\ bus'.next = bus.next /\ bus'.dout = bus.dout /\ (bus'.eof => bus.next = bus.file.words)
      <4>1. CASE waits(o, bus', ioctl_wait)
        BY <2>1, <2>2, <4>1 DEF waits
      <4>2. CASE meetsEnd(o, bus', ioctl_wait)
        BY <2>1, <2>2, <2>3, <4>2 DEF meetsEnd
      <4> QED
        BY <2>7, <4>1, <4>2
    <3>2. /\ DOMAIN mem' = Cells /\ WritesOnly(bus.file)
          /\ \A k \in 0 .. bus.addr : mem'[place(bus.file.index, k)] = word(bus.file, k)
      <4>1. bus.addr \in 0 .. bus.file.words - 1
        BY <2>2, <2>3
      <4>2. \A k \in 0 .. bus.addr - 1 : mem[place(bus.file.index, k)] = word(bus.file, k)
        BY <2>2, <2>3
      <4> QED
        BY <1>1, <1>6, <2>2, <2>3, <2>4, <3>1, <4>1, <4>2, WordLands
    <3>3. (Streaming)'
      <4>1. \A k \in 0 .. bus'.addr : mem'[place(bus'.index, k)] = word(bus'.file, k)
        BY <2>4, <3>1, <3>2
      <4>2. bus'.next = bus'.addr + 1 /\ bus'.next <= bus'.file.words
            /\ bus'.dout = word(bus'.file, bus'.addr) /\ (bus'.eof => bus'.next = bus'.file.words)
        BY <2>2, <3>1
      <4> QED
        BY <1>12, <2>4, <3>1, <4>1, <4>2 DEF Streaming, word, place, Base, HalfMega
    <3>4. fileGoesOn(b)
      BY <1>9, <1>12, <2>4, <3>1, <3>2 DEF fileGoesOn
    <3> QED
      BY <1>7, <3>2, <3>3, <3>4
  <2> QED
    BY <1>4, <1>12, <2>5, <2>6, <2>7 DEF idles
<1> QED
  BY <1>4, <1>10, <1>11, <1>12 DEF idles, waits, closes, words, meetsEnd

\* The machine stays in reset while a file streams, and for as long as the
\* release counter says once one has ended.
LEMMA ResetLasts ==
  ASSUME BenchAssumption, BenchTypes, Held, NEW t \in {main_time, 0}, NEW b, Clock(t, b),
         ~n_reset, NEW x \in Nat, x < 4 * Release
  PROVE  /\ bus'.download => ~n_reset'
         /\ bus.download /\ ~bus'.download /\ ~ioctl_wait =>
              ~n_reset' /\ (x <= toRelease' \/ (Resets)')
         /\ ~bus'.download /\ (x + 1 <= toRelease \/ Resets) =>
              ~n_reset' /\ (x <= toRelease' \/ (Resets)')
<1>1. /\ t < InitialReset => reset'
      /\ t = main_time /\ t < InitialReset => main_time' = t + 1
      /\ t = 0 => main_time' = 1
  BY TimesMove
<1>2. /\ slot % 4 # 3 => rst_cnt' = rst_cnt /\ n_reset' = n_reset
      /\ slot % 4 = 3 =>
           /\ rst_cnt' = IF reset' \/ bus'.download THEN Release
                         ELSE IF rst_cnt > 0 THEN rst_cnt - 1 ELSE 0
           /\ n_reset' = (~reset' /\ ~bus'.download /\ (n_reset \/ rst_cnt = 0))
  BY DEF Clock, MachineReset, clk8_en_p
<1>3. /\ slot \in 0 .. 15 /\ slot' = (slot + 1) % 16 /\ rst_cnt \in 0 .. Release
      /\ main_time \in Nat /\ Release \in Nat /\ InitialReset \in Nat /\ InitialReset >= 5
  BY PortMoves DEF BenchTypes, BenchAssumption
<1>4. /\ toRelease = 4 * rst_cnt + 3 - (slot % 4)
      /\ toRelease' = 4 * rst_cnt' + 3 - (slot' % 4)
      /\ Resets <=> main_time + (3 - (slot % 4)) < InitialReset
      /\ (Resets)' <=> main_time' + (3 - (slot' % 4)) < InitialReset
  BY DEF toRelease, Resets
<1>5. bus.download /\ ~ioctl_wait => rst_cnt = Release
  BY DEF Held, Pending
<1>6. CASE slot % 4 = 3
  <2>1. slot' % 4 = 0 /\ (Resets <=> main_time < InitialReset) /\ toRelease = 4 * rst_cnt
    BY <1>3, <1>4, <1>6
  <2>2. CASE reset' \/ bus'.download
    <3>1. rst_cnt' = Release /\ ~n_reset'
      BY <1>2, <1>6, <2>2, Zenon
    <3>2. x <= toRelease'
      BY <1>3, <1>4, <2>1, <3>1
    <3> QED
      BY <3>1, <3>2
  <2>3. CASE ~reset' /\ ~bus'.download
    <3>1. t = main_time /\ ~(main_time < InitialReset)
      BY <1>1, <1>3, <2>3
    <3>2. ASSUME 4 * rst_cnt >= x + 1
          PROVE  ~n_reset' /\ x <= toRelease'
      <4>1. rst_cnt > 0
        BY <1>3, <3>2
      <4>2. rst_cnt # 0
        BY <4>1
      <4>3. rst_cnt' = rst_cnt - 1
        BY <1>2, <1>6, <2>3, <4>1, Zenon
      <4>4. ~n_reset'
        BY <1>2, <1>6, <4>2, Zenon
      <4> QED
        BY <1>3, <1>4, <2>1, <3>2, <4>3, <4>4
    <3>3. rst_cnt = Release => 4 * rst_cnt >= x + 1
      BY <1>3
    <3> QED
      BY <1>5, <2>1, <2>3, <3>1, <3>2, <3>3, <1>3
  <2> QED
    BY <2>2, <2>3
<1>7. CASE slot % 4 # 3
  <2>1. slot' % 4 = (slot % 4) + 1 /\ slot % 4 \in 0 .. 2
    BY <1>3, <1>7
  <2>2. ~n_reset' /\ rst_cnt' = rst_cnt /\ toRelease' = toRelease - 1 /\ toRelease \in Int
    BY <1>2, <1>3, <1>4, <1>7, <2>1
  <2>3. Resets => (Resets)'
    BY <1>1, <1>3, <1>4, <2>1
  <2>4. rst_cnt = Release => x + 1 <= toRelease
    BY <1>3, <1>4, <2>1
  <2> QED
    BY <1>5, <2>2, <2>3, <2>4
<1> QED
  BY <1>6, <1>7

\* The queue in the next clock, its head taken or not.
LEMMA QueueAfter ==
  ASSUME BenchTypes, NEW b \in Loader, NEW n \in 0 .. Len(Startup), Queued(n), loads \in Nat,
         \/ b.queue = bus.queue /\ loads' = loads
         \/ \E f \in Menu : b.queue = Append(bus.queue, f) /\ loads' = loads + 1
  PROVE  /\ loads' \in Nat /\ loads' >= loads
         /\ bus'.queue = b.queue => (Queued(n))'
         /\ b.queue = <<>> => n = Len(Startup)
         /\ b.queue # <<>> /\ bus'.queue = Tail(b.queue) =>
              IF n < Len(Startup)
              THEN Head(b.queue) = Startup[n + 1] /\ (Queued(n + 1))'
              ELSE Head(b.queue) \in Menu /\ loads' > 0 /\ (Queued(n))'
<1>1. /\ loads' \in Nat /\ loads' >= loads
      /\ Len(b.queue) >= Len(Startup) - n /\ (loads' = 0 => Len(b.queue) = Len(Startup) - n)
      /\ \A k \in 1 .. Len(b.queue) :
           IF k <= Len(Startup) - n THEN b.queue[k] = Startup[n + k] ELSE b.queue[k] \in Menu
  BY ClockQueues
<1>2. b.queue \in Seq(Files) /\ Len(Startup) \in Nat /\ n \in Nat /\ n <= Len(Startup)
  BY FileAssumption DEF Loader
<1>3. bus'.queue = b.queue => (Queued(n))'
  BY <1>1 DEF Queued
<1>4. b.queue = <<>> => n = Len(Startup)
  BY <1>1, <1>2
<1>5. ASSUME b.queue # <<>>, bus'.queue = Tail(b.queue)
      PROVE  IF n < Len(Startup)
             THEN Head(b.queue) = Startup[n + 1] /\ (Queued(n + 1))'
             ELSE Head(b.queue) \in Menu /\ loads' > 0 /\ (Queued(n))'
  <2>1. /\ Len(b.queue) \in Nat /\ Len(b.queue) >= 1 /\ Head(b.queue) = b.queue[1]
        /\ Len(bus'.queue) = Len(b.queue) - 1
        /\ \A k \in 1 .. Len(b.queue) - 1 : bus'.queue[k] = b.queue[k + 1]
    BY <1>2, <1>5
  <2>2. CASE n < Len(Startup)
    <3>1. Head(b.queue) = Startup[n + 1]
      BY <1>1, <1>2, <2>1, <2>2
    <3>2. \A k \in 1 .. Len(bus'.queue) :
            IF k <= Len(Startup) - (n + 1) THEN bus'.queue[k] = Startup[(n + 1) + k]
                                          ELSE bus'.queue[k] \in Menu
      <4> SUFFICES ASSUME NEW k \in 1 .. Len(b.queue) - 1
                   PROVE  IF k <= Len(Startup) - (n + 1) THEN bus'.queue[k] = Startup[(n + 1) + k]
                                                        ELSE bus'.queue[k] \in Menu
        BY <2>1
      <4>1. bus'.queue[k] = b.queue[k + 1] /\ k + 1 \in 1 .. Len(b.queue)
        BY <2>1
      <4>2. n + (k + 1) = (n + 1) + k
        BY <1>2
      <4> QED
        BY <1>1, <1>2, <4>1, <4>2
    <3>3. (Queued(n + 1))'
      BY <1>1, <1>2, <2>1, <3>2 DEF Queued
    <3> QED
      BY <2>2, <3>1, <3>3
  <2>3. CASE n = Len(Startup)
    <3>1. Head(b.queue) \in Menu /\ loads' > 0
      BY <1>1, <1>2, <2>1, <2>3
    <3>2. \A k \in 1 .. Len(bus'.queue) : bus'.queue[k] \in Menu
      BY <1>1, <1>2, <2>1, <2>3
    <3>3. (Queued(n))'
      BY <1>1, <1>2, <2>1, <2>3, <3>1, <3>2 DEF Queued
    <3> QED
      BY <2>3, <3>1, <3>3
  <2> QED
    BY <1>2, <2>2, <2>3
<1> QED
  BY <1>1, <1>3, <1>4, <1>5

\* Files in memory stay there while others are loaded.
LEMMA SameMemory ==
  ASSUME NEW f \in Files, mem' = mem, inserted \subseteq inserted'
  PROVE  /\ InMemory(f) => InMemory(f)'
         /\ Loaded(f) => Loaded(f)'
BY DEF Loaded, InMemory, floppy, word, place, Base, HalfMega

LEMMA LoadedStay ==
  ASSUME NEW f \in Files, NEW g \in Files, f.index # NuBus => Apart(f, g), WritesOnly(g),
         inserted' = inserted, Loaded(f)
  PROVE  Loaded(f)'
<1>1. f.index # NuBus /\ InMemory(f) => InMemory(f)'
  BY OthersStay
<1> QED
  BY <1>1 DEF Loaded, floppy

\* A floppy is one of the startup files.
LEMMA FloppyFiles ==
  ASSUME NEW f \in Opened({Internal, External})
  PROVE  f \in Files /\ f.opens /\ floppy(f) /\ \E k \in 1 .. Len(Startup) : f = Startup[k]
BY FileAssumption DEF Opened, Files, floppy, Internal, External, ROM

LEMMA AllLoaded ==
  ASSUME BootRom, \A k \in 1 .. Len(Startup) : Loaded(Startup[k])'
  PROVE  (FloppiesLoaded)' /\ (\E f \in Opened({ROM}) : InMemory(f))'
<1>1. ASSUME NEW f \in Opened({Internal, External}) PROVE InMemory(f)' /\ f.index \in inserted'
  <2>1. Loaded(f)' /\ f.opens /\ floppy(f)
    BY FloppyFiles
  <2> QED
    BY <2>1 DEF Loaded, floppy, Internal, External, NuBus
<1>2. PICK k \in 1 .. Len(Startup) : Startup[k].opens /\ Startup[k].index = ROM
  BY DEF BootRom
<1>3. Startup[k] \in Opened({ROM})
  BY <1>2, FilesAreFiles DEF Opened
<1>4. InMemory(Startup[k])'
  <2>1. Loaded(Startup[k])'
    OBVIOUS
  <2> QED
    BY <1>2, <2>1 DEF Loaded, ROM, NuBus
<1>5. (FloppiesLoaded)'
  BY <1>1 DEF FloppiesLoaded, Opened
<1>6. (\E f \in Opened({ROM}) : InMemory(f))'
  BY <1>3, <1>4 DEF Opened
<1> QED
  BY <1>5, <1>6

LEMMA FloppiesStay ==
  ASSUME FloppiesLoaded, inserted \subseteq inserted',
         \/ mem' = mem
         \/ \E g \in Menu : g.opens /\ WritesOnly(g) /\ Layout
  PROVE  (FloppiesLoaded)'
<1>1. ASSUME NEW f \in Opened({Internal, External}) PROVE InMemory(f)' /\ f.index \in inserted'
  <2>1. InMemory(f) /\ f.index \in inserted /\ f \in Files /\ floppy(f)
    BY FloppyFiles DEF FloppiesLoaded
  <2>2. CASE mem' = mem
    BY <2>1, <2>2, SameMemory
  <2>3. ASSUME NEW g \in Menu, g.opens, WritesOnly(g), Layout PROVE InMemory(f)'
    <3>1. PICK k \in 1 .. Len(Startup) : f = Startup[k]
      BY FloppyFiles
    <3>2. Apart(f, g) /\ g \in Files
      BY <2>1, <2>3, <3>1, FilesAreFiles DEF Layout
    <3> QED
      BY <2>1, <2>3, <3>2, OthersStay
  <2> QED
    BY <2>1, <2>2, <2>3
<1> QED
  BY <1>1 DEF FloppiesLoaded, Opened

LEMMA ProgressStep ==
  ASSUME BenchAssumption, NoEmptyFiles, ReleaseOutlastsQueue, BootRom, Layout,
         BenchTypes, Held, LoadInv, Next
  PROVE  (LoadInv)'
<1>1. PICK t \in {main_time, 0}, b \in Loader :
        /\ Clock(t, b)
        /\ \/ b.queue = bus.queue /\ loads' = loads
           \/ \E f \in Menu : b.queue = Append(bus.queue, f) /\ loads' = loads + 1
        /\ b.file = bus.file /\ b.eof = bus.eof /\ b.next = bus.next /\ b.download = bus.download
        /\ b.wr = bus.wr /\ b.addr = bus.addr /\ b.index = bus.index /\ b.dout = bus.dout
  BY NextIs DEF BenchTypes
<1>2. LoadTypes /\ Streaming /\ Progress /\ loads \in Nat /\ bus \in Loader
  BY DEF LoadInv, LoadTypes, BenchTypes
<1>3. /\ DOMAIN mem' = Cells /\ (old_down' <=> bus'.download) /\ (Streaming)'
      /\ loaderRests(b) \/ fileBegins(b) \/ fileGoesOn(b) \/ fileEnds(b)
  BY <1>1, <1>2, LoadMoves
<1>4. bus'.file = NoFile => ~bus'.download
  BY <1>3 DEF Streaming
<1>5. bus'.file # NoFile => bus'.download
  BY <1>3 DEF Streaming
<1>6. bus.file # NoFile => bus.download
  BY <1>2 DEF Streaming
<1>7. PICK n \in 0 .. Len(Startup) :
        Queued(n) /\ (Between(n) \/ InStartup(n) \/ AtRest(n) \/ InMenu(n))
  BY <1>2 DEF Progress
<1>8. /\ loads' \in Nat /\ loads' >= loads
      /\ bus'.queue = b.queue => (Queued(n))'
      /\ b.queue = <<>> => n = Len(Startup)
      /\ b.queue # <<>> /\ bus'.queue = Tail(b.queue) =>
           IF n < Len(Startup)
           THEN Head(b.queue) = Startup[n + 1] /\ (Queued(n + 1))'
           ELSE Head(b.queue) \in Menu /\ loads' > 0 /\ (Queued(n))'
  BY <1>1, <1>2, <1>7, QueueAfter
<1>9. /\ Len(Startup) \in Nat /\ n \in Nat /\ n <= Len(Startup) /\ Len(Startup) <= 4 * Release
      /\ Release \in Nat
  BY FileAssumption DEF ReleaseOutlastsQueue, BenchAssumption
<1>10. \A k \in 1 .. Len(Startup) : Startup[k] \in Files /\ Startup[k] # NoFile
  BY FilesAreFiles
<1>11. \A g \in Menu : g \in Files /\ g # NoFile
  BY FilesAreFiles
<1>12. ASSUME ~n_reset, NEW x \in Nat, x < 4 * Release
       PROVE  /\ bus'.download => ~n_reset'
              /\ bus.download /\ ~bus'.download /\ ~ioctl_wait =>
                   ~n_reset' /\ (x <= toRelease' \/ (Resets)')
              /\ ~bus'.download /\ (x + 1 <= toRelease \/ Resets) =>
                   ~n_reset' /\ (x <= toRelease' \/ (Resets)')
  BY <1>1, <1>12, ResetLasts
<1>13. ASSUME ~n_reset, bus'.download PROVE ~n_reset'
  <2>1. 0 \in Nat /\ 0 < 4 * Release
    <3>1. Drives * (Rounds + 2) \in Nat
      BY RoundsFact, BlockDeviceAssumption
    <3>2. 4 * Release > Boot + Drives * (Rounds + 2) /\ Boot \in Nat
      BY Zenon DEF BenchAssumption, Rounds
    <3> QED
      BY <1>9, <3>1, <3>2
  <2> QED
    BY <1>12, <1>13, <2>1
<1>14. ASSUME NEW m \in 0 .. Len(Startup), (Queued(m))',
              (Between(m))' \/ (InStartup(m))' \/ (AtRest(m))' \/ (InMenu(m))'
       PROVE  (LoadInv)'
  <2>1. (Progress)'
    BY <1>14 DEF Progress
  <2>2. (LoadTypes)'
    BY <1>3, <1>8 DEF LoadTypes
  <2> QED
    BY <1>3, <2>1, <2>2 DEF LoadInv
<1>15. CASE Between(n)
  <2>1. /\ n < Len(Startup) /\ bus.file = NoFile /\ (\A k \in 1 .. n : Loaded(Startup[k]))
        /\ ~n_reset /\ (Len(Startup) - n <= toRelease \/ Resets)
    BY <1>15 DEF Between
  <2>2. b.queue # <<>> /\ n + 1 \in 1 .. Len(Startup) /\ n + 1 \in 0 .. Len(Startup)
    BY <1>8, <1>9, <2>1
  <2>3. CASE loaderRests(b)
    <3>1. /\ bus'.file = NoFile /\ mem' = mem /\ inserted \subseteq inserted'
          /\ bus'.queue = Tail(b.queue) /\ ~Head(b.queue).opens
      BY <2>2, <2>3 DEF loaderRests
    <3>2. ~Startup[n + 1].opens /\ (Queued(n + 1))'
      BY <1>8, <2>1, <2>2, <3>1
    <3>3. ASSUME NEW k \in 1 .. n + 1 PROVE Loaded(Startup[k])'
      <4>1. CASE k = n + 1
        BY <3>2, <4>1 DEF Loaded
      <4>2. CASE k \in 1 .. n
        <5>1. Startup[k] \in Files
          BY <1>9, <1>10, <4>2
        <5> QED
          BY <2>1, <3>1, <4>2, <5>1, SameMemory
      <4> QED
        BY <1>9, <4>1, <4>2
    <3>4. CASE n + 1 < Len(Startup)
      <4>1. ~n_reset' /\ (Len(Startup) - (n + 1) <= toRelease' \/ (Resets)')
        <5> DEFINE x == Len(Startup) - (n + 1)
        <5>1. x \in Nat /\ x < 4 * Release /\ x + 1 = Len(Startup) - n
          BY <1>9, <3>4
        <5> HIDE DEF x
        <5>2. ~n_reset' /\ (x <= toRelease' \/ (Resets)')
          BY <1>4, <1>12, <2>1, <3>1, <5>1
        <5> QED
          BY <5>2 DEF x
      <4>2. (Between(n + 1))'
        BY <3>1, <3>3, <3>4, <4>1 DEF Between
      <4> QED
        BY <1>14, <2>2, <3>2, <4>2
    <3>5. CASE n + 1 = Len(Startup)
      <4>1. \A k \in 1 .. Len(Startup) : Loaded(Startup[k])'
        BY <3>3, <3>5
      <4>2. (AtRest(n + 1))'
        BY <3>1, <3>5, <4>1, AllLoaded DEF AtRest
      <4> QED
        BY <1>14, <2>2, <3>2, <4>2
    <3> QED
      BY <2>2, <3>4, <3>5, <1>9
  <2>4. CASE fileBegins(b)
    <3>1. /\ bus'.queue = Tail(b.queue) /\ bus'.file = Startup[n + 1] /\ bus'.file.opens
          /\ (Queued(n + 1))' /\ WritesOnly(Startup[n + 1]) /\ inserted' = inserted
      BY <1>8, <2>1, <2>2, <2>4 DEF fileBegins
    <3>2. ~n_reset'
      BY <1>5, <1>10, <1>13, <2>1, <2>2, <3>1
    <3>3. ASSUME NEW k \in 1 .. n PROVE Loaded(Startup[k])'
      <4>1. k \in 1 .. Len(Startup) /\ k < n + 1
        BY <1>9
      <4>2. Startup[k].index # NuBus => Apart(Startup[k], Startup[n + 1])
        BY <2>2, <3>1, <4>1 DEF Layout
      <4> QED
        BY <1>10, <2>1, <2>2, <3>1, <4>1, <4>2, LoadedStay
    <3>4. (InStartup(n + 1))'
      <4>1. \A k \in 1 .. (n + 1) - 1 : Loaded(Startup[k])'
        BY <1>9, <3>3
      <4>2. n + 1 > 0
        BY <1>9
      <4> QED
        BY <3>1, <3>2, <4>1, <4>2 DEF InStartup
    <3> QED
      BY <1>14, <2>2, <3>1, <3>4
  <2> QED
    BY <1>3, <2>1, <2>3, <2>4 DEF fileGoesOn, fileEnds
<1>16. CASE InStartup(n)
  <2>1. /\ n > 0 /\ bus.file = Startup[n] /\ bus.file.opens /\ ~n_reset
        /\ \A k \in 1 .. n - 1 : Loaded(Startup[k])
    BY <1>16 DEF InStartup
  <2>2. n \in 1 .. Len(Startup) /\ bus.file # NoFile /\ bus.download /\ Startup[n] \in Files
    BY <1>6, <1>9, <1>10, <2>1
  <2>3. CASE fileGoesOn(b)
    <3>1. bus'.file = bus.file /\ bus'.queue = b.queue /\ WritesOnly(bus.file) /\ inserted' = inserted
      BY <2>3 DEF fileGoesOn
    <3>2. ~n_reset'
      BY <1>5, <1>13, <2>1, <2>2, <3>1
    <3>3. ASSUME NEW k \in 1 .. n - 1 PROVE Loaded(Startup[k])'
      <4>1. k \in 1 .. Len(Startup) /\ k < n
        BY <1>9
      <4>2. Startup[k].index # NuBus => Apart(Startup[k], Startup[n])
        BY <2>1, <2>2, <4>1 DEF Layout
      <4> QED
        BY <1>10, <2>1, <2>2, <3>1, <4>1, <4>2, LoadedStay
    <3>4. (InStartup(n))'
      BY <2>1, <3>1, <3>2, <3>3 DEF InStartup
    <3> QED
      BY <1>8, <1>14, <3>1, <3>4
  <2>4. CASE fileEnds(b)
    <3>1. /\ bus'.file = NoFile /\ bus'.queue = b.queue /\ ~ioctl_wait /\ mem' = mem
          /\ InMemory(Startup[n]) /\ inserted \subseteq inserted'
          /\ floppy(Startup[n]) => Startup[n].index \in inserted'
      BY <2>1, <2>4 DEF fileEnds
    <3>2. ASSUME NEW k \in 1 .. n PROVE Loaded(Startup[k])'
      <4>1. CASE k = n
        <5>1. InMemory(Startup[n])'
          BY <2>2, <3>1, SameMemory
        <5> QED
          BY <3>1, <4>1, <5>1 DEF Loaded, floppy
      <4>2. CASE k # n
        <5>1. k \in 1 .. n - 1 /\ Startup[k] \in Files
          BY <1>9, <1>10, <4>2
        <5> QED
          BY <2>1, <3>1, <5>1, SameMemory
      <4> QED
        BY <4>1, <4>2
    <3>3. CASE n < Len(Startup)
      <4>1. ~n_reset' /\ (Len(Startup) - n <= toRelease' \/ (Resets)')
        <5> DEFINE x == Len(Startup) - n
        <5>1. x \in Nat /\ x < 4 * Release
          BY <1>9, <2>1
        <5> HIDE DEF x
        <5>2. ~n_reset' /\ (x <= toRelease' \/ (Resets)')
          BY <1>4, <1>12, <2>1, <2>2, <3>1, <5>1
        <5> QED
          BY <5>2 DEF x
      <4>2. (Between(n))'
        BY <3>1, <3>2, <3>3, <4>1 DEF Between
      <4> QED
        BY <1>8, <1>14, <3>1, <4>2
    <3>4. CASE n = Len(Startup)
      <4>1. \A k \in 1 .. Len(Startup) : Loaded(Startup[k])'
        BY <3>2, <3>4
      <4>2. (AtRest(n))'
        BY <3>1, <3>4, <4>1, AllLoaded DEF AtRest
      <4> QED
        BY <1>8, <1>14, <3>1, <4>2
    <3> QED
      BY <1>9, <3>3, <3>4
  <2> QED
    BY <1>3, <2>2, <2>3, <2>4 DEF loaderRests, fileBegins
<1>17. CASE AtRest(n)
  <2>1. n = Len(Startup) /\ bus.file = NoFile /\ FloppiesLoaded
    BY <1>17 DEF AtRest
  <2>2. CASE loaderRests(b)
    <3>1. bus'.file = NoFile /\ mem' = mem /\ inserted \subseteq inserted'
          /\ (bus'.queue = b.queue \/ (b.queue # <<>> /\ bus'.queue = Tail(b.queue)))
      BY <2>2 DEF loaderRests
    <3>2. (Queued(n))'
      BY <1>8, <2>1, <3>1
    <3>3. PICK f \in Opened({ROM}) : InMemory(f)
      BY <1>17 DEF AtRest
    <3>4. InMemory(f)'
      BY <3>1, <3>3, SameMemory DEF Opened
    <3>5. (FloppiesLoaded)'
      BY <2>1, <3>1, FloppiesStay
    <3>6. (AtRest(n))'
      BY <2>1, <3>1, <3>4, <3>5 DEF AtRest, Opened
    <3> QED
      BY <1>14, <3>2, <3>6
  <2>3. CASE fileBegins(b)
    <3>1. /\ bus'.queue = Tail(b.queue) /\ b.queue # <<>> /\ bus'.file = Head(b.queue)
          /\ bus'.file.opens /\ WritesOnly(bus'.file) /\ inserted' = inserted
      BY <2>3 DEF fileBegins
    <3>2. bus'.file \in Menu /\ loads' > 0 /\ (Queued(n))'
      BY <1>8, <2>1, <3>1
    <3>3. (FloppiesLoaded)'
      BY <2>1, <3>1, <3>2, FloppiesStay
    <3>4. (InMenu(n))'
      BY <2>1, <3>1, <3>2, <3>3 DEF InMenu
    <3> QED
      BY <1>14, <3>2, <3>4
  <2> QED
    BY <1>3, <2>1, <2>2, <2>3 DEF fileGoesOn, fileEnds
<1>18. CASE InMenu(n)
  <2>1. /\ n = Len(Startup) /\ loads > 0 /\ bus.file \in Menu /\ bus.file.opens /\ FloppiesLoaded
        /\ bus.file # NoFile /\ bus.file \in Files
    BY <1>11, <1>18 DEF InMenu
  <2>2. loads' > 0
    BY <1>2, <1>8, <2>1
  <2>3. CASE fileGoesOn(b)
    <3>1. bus'.file = bus.file /\ bus'.queue = b.queue /\ WritesOnly(bus.file) /\ inserted' = inserted
      BY <2>3 DEF fileGoesOn
    <3>2. (FloppiesLoaded)'
      BY <2>1, <3>1, FloppiesStay
    <3>3. (InMenu(n))'
      BY <2>1, <2>2, <3>1, <3>2 DEF InMenu
    <3> QED
      BY <1>8, <1>14, <3>1, <3>3
  <2>4. CASE fileEnds(b)
    <3>1. /\ bus'.file = NoFile /\ bus'.queue = b.queue /\ mem' = mem
          /\ InMemory(bus.file) /\ inserted \subseteq inserted'
      BY <2>4 DEF fileEnds
    <3>2. (FloppiesLoaded)'
      BY <2>1, <3>1, FloppiesStay
    <3>3. PICK f \in Menu : f = bus.file
      BY <2>1
    <3>4. InMemory(f)'
      BY <2>1, <3>1, <3>3, SameMemory
    <3>5. f \in Opened({ROM})
      BY <2>1, <3>3, FileAssumption DEF Opened
    <3>6. (AtRest(n))'
      BY <2>1, <3>1, <3>2, <3>4, <3>5 DEF AtRest, Opened
    <3> QED
      BY <1>8, <1>14, <3>1, <3>6
  <2> QED
    BY <1>3, <2>1, <2>3, <2>4 DEF loaderRests, fileBegins
<1> QED
  BY <1>7, <1>15, <1>16, <1>17, <1>18

LEMMA ProgressInit ==
  ASSUME BenchAssumption, BootRom, Init PROVE LoadInv
<1>1. /\ bus = LoaderInit /\ main_time = 0 /\ slot = 0 /\ n_reset = FALSE /\ ioctl_wait = FALSE
      /\ mem = [p \in Cells |-> word(NoFile, 0)] /\ old_down = FALSE /\ loads = 0
  BY DEF Init
<1>2. LoadTypes
  BY <1>1 DEF LoadTypes, LoaderInit
<1>3. Streaming
  BY <1>1 DEF Streaming, LoaderInit
<1>4. Len(Startup) \in Nat /\ Len(Startup) > 0
  BY FileAssumption DEF BootRom
<1>5. Queued(0)
  BY <1>1, <1>4 DEF Queued, LoaderInit
<1>6. Resets
  BY <1>1 DEF Resets, BenchAssumption
<1>7. Between(0)
  BY <1>1, <1>4, <1>6 DEF Between, LoaderInit
<1> QED
  BY <1>2, <1>3, <1>4, <1>5, <1>7 DEF LoadInv, Progress

LEMMA LoadsRight ==
  ASSUME NoEmptyFiles, ReleaseOutlastsQueue, BootRom, Layout
  PROVE  Spec => []LoadInv
<1>1. Init => LoadInv
  BY BenchAssumption, ProgressInit
<1>2. BenchInv /\ LoadInv /\ [Next]_vars => (LoadInv)'
  <2> SUFFICES ASSUME BenchInv, LoadInv, [Next]_vars PROVE (LoadInv)'
    OBVIOUS
  <2>1. BenchTypes /\ Held
    BY DEF BenchInv, TimeInv
  <2>2. CASE Next
    BY <2>1, <2>2, BenchAssumption, ProgressStep
  <2>3. CASE UNCHANGED vars
    <3>1. /\ bus' = bus /\ main_time' = main_time /\ slot' = slot /\ rst_cnt' = rst_cnt
          /\ n_reset' = n_reset /\ ioctl_wait' = ioctl_wait /\ mem' = mem /\ old_down' = old_down
          /\ inserted' = inserted /\ loads' = loads
      BY <2>3 DEF vars, coreVars, dioVars
    <3>2. (LoadTypes)' /\ (Streaming)'
      BY <3>1 DEF LoadInv, LoadTypes, Streaming, word, place, Base, HalfMega
    <3>3. (FloppiesLoaded <=> (FloppiesLoaded)') /\ (\A f \in Files : InMemory(f) <=> InMemory(f)')
          /\ (\A k \in 1 .. Len(Startup) : Loaded(Startup[k]) <=> Loaded(Startup[k])')
      BY <3>1 DEF FloppiesLoaded, Loaded, InMemory, Opened, floppy, word, place, Base, HalfMega
    <3>4. PICK n \in 0 .. Len(Startup) :
            Queued(n) /\ (Between(n) \/ InStartup(n) \/ AtRest(n) \/ InMenu(n))
      BY DEF LoadInv, Progress
    <3>5. (Queued(n))'
      BY <3>1, <3>4 DEF Queued
    <3>6. \A k \in 1 .. n : k \in 1 .. Len(Startup)
      BY FileAssumption
    <3>7. ASSUME Between(n) PROVE (Between(n))'
      BY <3>1, <3>3, <3>6, <3>7 DEF Between, toRelease, Resets
    <3>8. ASSUME InStartup(n) PROVE (InStartup(n))'
      <4>1. \A k \in 1 .. n - 1 : k \in 1 .. Len(Startup)
        BY FileAssumption
      <4> QED
        BY <3>1, <3>3, <3>8, <4>1 DEF InStartup
    <3>9. ASSUME AtRest(n) PROVE (AtRest(n))'
      BY <3>1, <3>3, <3>9 DEF AtRest, Opened
    <3>10. ASSUME InMenu(n) PROVE (InMenu(n))'
      BY <3>1, <3>3, <3>10 DEF InMenu
    <3>11. (Between(n))' \/ (InStartup(n))' \/ (AtRest(n))' \/ (InMenu(n))'
      BY <3>4, <3>7, <3>8, <3>9, <3>10
    <3> QED
      BY <3>2, <3>5, <3>11 DEF LoadInv, Progress
  <2> QED
    BY <2>2, <2>3
<1>3. Spec => []BenchInv
  BY BenchRight
<1> QED
  BY <1>1, <1>2, <1>3, PTL DEF Spec

\* The machine is let go with every startup file that opens whole in memory
\* where a later one has not taken its place, the floppies in their drives, a
\* ROM to start on, and every image announced to its target with its size.
THEOREM ReleasedOnReady ==
  ASSUME NoEmptyFiles, ReleaseOutlastsQueue, BootRom, Layout
  PROVE  Spec => []ReleasedReady
<1>1. BenchInv /\ LoadInv => ReleasedReady
  <2> SUFFICES ASSUME BenchInv, LoadInv, n_reset
               PROVE  /\ loads = 0 => loaderIdle
                      /\ loaderIdle => \E f \in Opened({ROM}) : InMemory(f)
                      /\ \A f \in Opened({Internal, External}) : InMemory(f) /\ f.index \in inserted
                      /\ \A d \in Used : capacity[d] = d
    BY DEF ReleasedReady
  <2>1. \A d \in Used : capacity[d] = d
    <3>1. Settled(dev) /\ Announced
      BY DEF BenchInv, TimeInv, Unsettled
    <3> QED
      BY <3>1 DEF Settled, Announced
  <2>2. PICK n \in 0 .. Len(Startup) : Queued(n) /\ (AtRest(n) \/ InMenu(n))
    BY DEF LoadInv, Progress, Between, InStartup
  <2>3. n = Len(Startup) /\ FloppiesLoaded
    BY <2>2 DEF AtRest, InMenu
  <2>4. ASSUME loads = 0 PROVE loaderIdle
    <3>1. bus.file = NoFile
      BY <2>2, <2>4 DEF AtRest, InMenu
    <3>2. bus.queue \in Seq(Files) /\ Len(Startup) \in Nat
      BY FileAssumption DEF BenchInv, TimeInv, BenchTypes, Loader
    <3>3. bus.queue = <<>>
      BY <2>2, <2>3, <2>4, <3>2 DEF Queued
    <3> QED
      BY <3>1, <3>3 DEF loaderIdle
  <2>5. ASSUME loaderIdle PROVE \E f \in Opened({ROM}) : InMemory(f)
    <3>1. bus.file \notin Menu
      BY <2>5, FilesAreFiles DEF loaderIdle
    <3> QED
      BY <2>2, <3>1 DEF AtRest, InMenu
  <2> QED
    BY <2>1, <2>3, <2>4, <2>5 DEF FloppiesLoaded
<1>2. Spec => []BenchInv
  BY BenchRight
<1>3. Spec => []LoadInv
  BY LoadsRight
<1> QED
  BY <1>1, <1>2, <1>3, PTL
=============================================================================
