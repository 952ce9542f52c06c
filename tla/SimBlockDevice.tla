---------------------------- MODULE SimBlockDevice ----------------------------
(***************************************************************************)
(* The disks of the Verilator bench (verilator/sim/sim_blkdevice.cpp).     *)
(* BeforeEval runs once before every rising clock; it visits the drives in *)
(* turn, and every visit reads and changes one set of registers: one delay *)
(* counter serves the mounts and the transfers of all drives.              *)
(*                                                                         *)
(* A sector is Words words, a word the record of the drive, the sector and *)
(* the place it belongs to and of the write that made it.                  *)
(***************************************************************************)
EXTENDS Integers

CONSTANTS
  Drives,       \* kVDNUM: the drives are 0 .. Drives - 1
  Used,         \* drives with an image
  Lba, Words,   \* sectors of an image, words of a sector
  MountDelay,   \* ticks of ack_delay a mount is announced for (1200)
  Latency,      \* ticks between a request and its window (16000)
  Requests      \* bound: requests

ASSUME BlockDeviceAssumption ==
  /\ Drives \in Nat \ {0} /\ Used \subseteq 0 .. Drives - 1 /\ Words \in Nat \ {0}
  /\ Requests \in Nat /\ Latency \in Nat /\ Latency > 1 /\ 0 \in Lba
  \* an announcement is only ever withdrawn by the visit that meets the count
  \* of one: 1200 is a multiple of the ten drives
  /\ MountDelay \in Nat \ {0} /\ MountDelay % Drives = 0

Drive == 0 .. Drives - 1
Word  == 0 .. Words - 1
Image == [drive : Used, lba : Lba, word : Word, write : 0 .. Requests]
image(d, l, n) == [w \in Word |-> [drive |-> d, lba |-> l, word |-> w, write |-> n]]
None == -1

\* What the device sees of the core in a tick
Request(rd, wr, lba, din) == [rd |-> rd, wr |-> wr, lba |-> lba, din |-> din]

--------------------------------------------------------------------------------
(* One visit.  s is the device, i the drive, c the core's requests. *)

\* mutant: the next address is driven one word early
WriteWordEarly(s, i, c) ==
  [s EXCEPT !.disk[i][s.pos[i]][s.bytecnt] = c.din[i], !.bytecnt = @ + 1,
            !.buff_addr = IF s.bytecnt + 2 < Words THEN s.bytecnt + 2 ELSE 0]
\* The word the core's buffer shows goes to the image; the address of the
\* next is driven after it is consumed
WriteWord(s, i, c) ==
  [s EXCEPT !.disk[i][s.pos[i]][s.bytecnt] = c.din[i], !.bytecnt = @ + 1,
            !.buff_addr = IF s.bytecnt + 1 < Words THEN s.bytecnt + 1 ELSE 0]

ReadWord(s, i) ==
  [s EXCEPT !.buff_dout = s.disk[i][s.pos[i]][s.bytecnt], !.buff_addr = s.bytecnt,
            !.bytecnt = @ + 1, !.buff_wr = TRUE]

\* A word of a read takes two visits, one of a write takes one
Transfer(s, i, c) ==
  CASE s.current_disk # i -> s
    [] s.current_disk = i /\ s.ack_delay # 1 -> [s EXCEPT !.buff_wr = FALSE]
    [] OTHER ->
         CASE s.reading /\ ~s.buff_wr /\ s.bytecnt < Words -> ReadWord(s, i)
           [] ~(s.reading /\ ~s.buff_wr) /\ s.writing /\ s.bytecnt < Words -> WriteWord(s, i, c)
           [] s.writing /\ s.bytecnt = Words -> [s EXCEPT !.buff_addr = 0, !.writing = FALSE]
           [] OTHER -> [s EXCEPT !.buff_wr = FALSE, !.reading = @ /\ s.bytecnt < Words]

busy(s) == s.reading \/ s.writing

\* mutant: a mount is announced without looking for another
MountOver(s, i) ==
  CASE ~busy(s) /\ i \in s.mountQueue ->
         [s EXCEPT !.mountQueue = @ \ {i}, !.img_size = i, !.img_mounted = @ \cup {i},
                   !.ack_delay = MountDelay]
    [] ~(~busy(s) /\ i \in s.mountQueue) /\ s.ack_delay = 1 /\ i \in s.img_mounted ->
         [s EXCEPT !.img_mounted = @ \ {i}]
    [] OTHER -> [s EXCEPT !.ack_delay = IF ~busy(s) /\ @ > 0 THEN @ - 1 ELSE @]
\* A queued image is announced when nothing else is; its drive's visit ends it
Mount(s, i) ==
  LET starts == ~busy(s) /\ i \in s.mountQueue /\ s.img_mounted = {}
      ends   == s.ack_delay = 1 /\ i \in s.img_mounted
  IN CASE starts ->
            [s EXCEPT !.mountQueue = @ \ {i}, !.img_size = i, !.img_mounted = @ \cup {i},
                      !.ack_delay = MountDelay]
       [] ~starts /\ ends -> [s EXCEPT !.img_mounted = @ \ {i}]
       [] OTHER -> [s EXCEPT !.ack_delay = IF ~busy(s) /\ @ > 0 THEN @ - 1 ELSE @]

\* mutant: the request is taken although another drive's is under way
StartOver(s, i, c) ==
  IF i \in c.rd \cup c.wr
  THEN [s EXCEPT !.current_disk = i, !.reading = @ \/ i \in c.rd, !.writing = @ \/ i \in c.wr,
                 !.pos[i] = c.lba[i], !.bytecnt = 0, !.buff_addr = 0, !.ack_delay = Latency]
  ELSE s
\* A request is taken when no drive's is, and begins when the counter is free
Start(s, i, c) ==
  IF s.current_disk \in {None, i} /\ i \in c.rd \cup c.wr
  THEN IF s.ack_delay = 0
       THEN [s EXCEPT !.current_disk = i, !.reading = @ \/ i \in c.rd, !.writing = @ \/ i \in c.wr,
                      !.pos[i] = c.lba[i], !.bytecnt = 0, !.buff_addr = 0, !.ack_delay = Latency]
       ELSE [s EXCEPT !.current_disk = i]
  ELSE s

\* The window is open while the count is one; the count runs down to it, and
\* to zero once the transfer is over
Acknowledge(s, i) ==
  IF s.current_disk # i THEN s
  ELSE LET left == IF s.ack_delay > 1 \/ (s.ack_delay = 1 /\ ~busy(s))
                   THEN s.ack_delay - 1 ELSE s.ack_delay
       IN [s EXCEPT !.sd_ack = IF s.ack_delay = 1 THEN @ \cup {i} ELSE @ \ {i},
                    !.ack_delay = left,
                    !.current_disk = IF left = 0 /\ ~busy(s) THEN None ELSE @]

\* A visit, and a call of BeforeEval, as the set of the outcomes they lead to
Visit(s, i, c) ==
  {Acknowledge(started, i) : started \in {Start(mounted, i, c) :
     mounted \in {Mount(moved, i) : moved \in {Transfer(s, i, c)}}}}

BeforeEval(s, c) ==
  LET after[k \in 0 .. Drives] == IF k = 0 THEN {s}
                                  ELSE UNION {Visit(t, k - 1, c) : t \in after[k - 1]}
  IN after[Drives]

\* The images given on the command line wait to be mounted (MountDisk)
DeviceInit ==
  [current_disk |-> None, ack_delay |-> 0, reading |-> FALSE, writing |-> FALSE, bytecnt |-> 0,
   sd_ack |-> {}, buff_addr |-> 0, buff_dout |-> 0, buff_wr |-> FALSE,
   mountQueue |-> Used, img_mounted |-> {}, img_size |-> None,
   pos |-> [d \in Used |-> 0], disk |-> [d \in Used |-> [l \in Lba |-> image(d, l, 0)]]]
=============================================================================
