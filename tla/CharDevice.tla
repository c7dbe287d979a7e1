----------------------------- MODULE CharDevice -----------------------------
(***************************************************************************)
(* The character drivers of src/driver and the programs that use them.     *)
(* All keep one buffer of BufSize bytes and a position per open file, and  *)
(* cut a transfer that begins inside the buffer off at its end.  One that  *)
(* begins beyond it is not cut off; the memory behind the buffer is not    *)
(* modelled, and a transfer that is to go there goes no further.           *)
(* The drivers differ in what they protect with their one semaphore:       *)
(*   "seq_file"   every call; a write first clears the whole buffer, and   *)
(*                after it has released the semaphore it notes the number  *)
(*                of bytes for the file in /proc (seq_file_interface;      *)
(*                char_driver and proc_read_char_driver have the same read *)
(*                and write without that note);                            *)
(*   "exclusive"  the whole time from open to close (online_char_driver,   *)
(*                online_sample/online_driver); it has an lseek, and its   *)
(*                writes clear nothing.                                    *)
(* Init is the state after the load; DriverModule adds load and unload.    *)
(***************************************************************************)
EXTENDS Integers, Sequences, FiniteSets

CONSTANTS Readers,     (* programs that read until read returns 0           *)
          Writers,     (* programs that write one message                   *)
          ProcReaders, (* programs that read the file in /proc              *)
          BufSize,     (* MAX_BUFF_SIZE, BUFFER_SIZE                        *)
          Counts,      (* byte counts a program passes to one call          *)
          MaxMessage,  (* longest message a writer sends                    *)
          MaxOffset,   (* largest offset, either way, of a reader's lseek   *)
          Placers,     (* programs that use pread() and pwrite() instead    *)
          Offsets,     (* the offsets these name, all below 2^31            *)
          None         (* a byte that is zero                               *)

Clients == Readers \cup Writers
Users   == Clients \cup ProcReaders
Cells   == 0..(BufSize - 1)

ASSUME CharDeviceAssumption ==
  /\ BufSize \in Nat \ {0} /\ MaxMessage \in 1..BufSize
  /\ Counts \subseteq Nat \ {0} /\ Counts # {}
  /\ MaxOffset \in Nat /\ Offsets \subseteq Nat
  /\ Readers \cap Writers = {} /\ ProcReaders \cap Clients = {}
  /\ None \notin Writers

VARIABLES
  driver,  (* which of the drivers is loaded                                *)
  buf,     (* drv_buff: of each byte, who wrote it, or None                 *)
  sem,     (* the count of the semaphore                                    *)
  queue,   (* its wait_list: up() wakes the first                           *)
  pc,      (* where each program is                                         *)
  pos,     (* *offp of the call, and of the open file between calls; for    *)
           (* ProcReaders m->index                                          *)
  todo,    (* bytes_to_read, bytes_to_write of the call                     *)
  done,    (* bytes copied so far                                           *)
  got,     (* whose bytes a read has copied so far                          *)
  left,    (* of a writer, the rest of its message; of a reader, its seeks  *)
  count    (* "byte Count=" in the node of the list                         *)

vars == <<driver, buf, sem, queue, pc, pos, todo, done, got, left, count>>

file == <<pos, todo, done, got, left>>

Init ==
  /\ driver \in {"seq_file", "exclusive"}
  /\ buf = [i \in Cells |-> None]
  /\ sem = 1 /\ queue = <<>>
  /\ pc = [u \in Users |-> "closed"]
  /\ pos = [u \in Users |-> 0]
  /\ todo = [c \in Clients |-> 0] /\ done = [c \in Clients |-> 0]
  /\ got = [r \in Readers |-> {}]
  /\ left = [c \in Clients |-> 0]
  /\ count = 0

Least(m, n) == IF m < n THEN m ELSE n

-----------------------------------------------------------------------------
(* The semaphore of the kernel, <linux/semaphore.h>.                       *)

(* down(): take the semaphore and go to next, or wait.                     *)
Down(c, waiting, next) ==
  \/ /\ sem > 0 /\ sem' = sem - 1
     /\ pc' = [pc EXCEPT ![c] = next] /\ UNCHANGED queue
  \/ /\ sem = 0 /\ queue' = Append(queue, c)
     /\ pc' = [pc EXCEPT ![c] = waiting] /\ UNCHANGED sem

(* Where a waiter goes on.                                                 *)
Granted(c) ==
  CASE pc[c] = "opening"                   -> "open"
    [] pc[c] = "waiting" /\ c \in Writers  -> "clear"
    [] pc[c] = "waiting" /\ c \in Readers  -> "copy"

(* Mutant: the semaphore is given back and no waiter woken.                *)
Up_WakesNobody(c, next) ==
  sem' = sem + 1 /\ pc' = [pc EXCEPT ![c] = next] /\ UNCHANGED queue

(* up(): hand the semaphore to the first waiter, or give it back.          *)
Up(c, next) ==
  \/ /\ queue = <<>> /\ sem' = sem + 1
     /\ pc' = [pc EXCEPT ![c] = next] /\ UNCHANGED queue
  \/ /\ queue # <<>> /\ queue' = Tail(queue)
     /\ pc' = [pc EXCEPT ![c] = next, ![Head(queue)] = Granted(Head(queue))]
     /\ UNCHANGED sem

-----------------------------------------------------------------------------
(* Open and close.                                                         *)

(* A writer has a message to send, a reader may seek once; one of Placers  *)
(* reads once.                                                             *)
NewFile(c) ==
  /\ \E n \in IF c \in Writers THEN 1..MaxMessage ELSE {1} :
       left' = [left EXCEPT ![c] = n]
  /\ UNCHANGED <<driver, buf, pos, todo, done, got, count>>

(* Mutant: the exclusive driver's open takes no semaphore.                 *)
Open_TakesNothing(c) ==
  /\ pc[c] = "closed" /\ NewFile(c)
  /\ pc' = [pc EXCEPT ![c] = "open"] /\ UNCHANGED <<sem, queue>>

ScullOpen(c) ==
  /\ driver = "seq_file"
  /\ pc' = [pc EXCEPT ![c] = "open"] /\ UNCHANGED <<sem, queue>>

DeviceOpen(c) == driver = "exclusive" /\ Down(c, "opening", "open")

Open(c) ==
  pc[c] = "closed" /\ NewFile(c) /\ (ScullOpen(c) \/ DeviceOpen(c))

(* A signal ends down_interruptible(); device_open() then fails.           *)
OpenInterrupted(c) ==
  /\ pc[c] = "opening"
  /\ \E i \in 1..Len(queue) :
       /\ queue[i] = c
       /\ queue' = [j \in 1..(Len(queue) - 1) |-> queue[IF j < i THEN j ELSE j + 1]]
  /\ pc' = [pc EXCEPT ![c] = "closed"] /\ left' = [left EXCEPT ![c] = 0]
  /\ UNCHANGED <<driver, buf, sem, pos, todo, done, got, count>>

ScullRelease(c) ==
  /\ driver = "seq_file"
  /\ pc' = [pc EXCEPT ![c] = "closed"] /\ UNCHANGED <<sem, queue>>

DeviceClose(c) == driver = "exclusive" /\ Up(c, "closed")

(* The open file goes, and its position with it.                           *)
Close(c) ==
  /\ pc[c] = "finished" /\ (ScullRelease(c) \/ DeviceClose(c))
  /\ pos' = [pos EXCEPT ![c] = 0] /\ left' = [left EXCEPT ![c] = 0]
  /\ UNCHANGED <<driver, buf, todo, done, got, count>>

-----------------------------------------------------------------------------
(* read() and write().                                                     *)

(* What the program asks for, cut off at the end of the buffer.  *offp is  *)
(* the call's own copy of the position: nobody changes it during the call. *)
(* The rest of the buffer is an int and compared with a size_t: when it is *)
(* negative it counts as larger than what is asked for, and nothing is cut.*)
(* Mutant: the count is cut off at BufSize instead of at the rest.         *)
BytesTo_WholeBuffer(at, n) == Least(n, BufSize)

BytesTo(at, n) == IF at > BufSize THEN n ELSE Least(n, BufSize - at)

(* scull_read() and scull_write() take the semaphore; a write goes on with *)
(* its memset().  device_read() and device_write() copy at once.           *)
ScullCall(c) ==
  /\ driver = "seq_file"
  /\ Down(c, "waiting", IF c \in Writers THEN "clear" ELSE "copy")

DeviceCall(c) ==
  /\ driver = "exclusive"
  /\ pc' = [pc EXCEPT ![c] = "copy"] /\ UNCHANGED <<sem, queue>>

(* read() and write() go on from the position of the file; pread() and    *)
(* pwrite() from the offset they are given, in a copy of their own.        *)
Call(c) ==
  /\ pc[c] = "open" /\ (ScullCall(c) \/ DeviceCall(c))
  /\ \E at \in IF c \in Placers THEN Offsets ELSE {pos[c]}, n \in Counts :
       /\ pos' = [pos EXCEPT ![c] = at]
       /\ todo' = [todo EXCEPT ![c] =
                     BytesTo(at, IF c \in Writers THEN Least(n, left[c]) ELSE n)]
  /\ UNCHANGED <<driver, buf, done, got, left, count>>

(* memset() of the whole buffer before copy_from_user().                   *)
(* Mutant: the old bytes stay.                                             *)
Clear_Nothing(c) ==
  /\ pc[c] = "clear"
  /\ pc' = [pc EXCEPT ![c] = "copy"]
  /\ UNCHANGED <<driver, buf, sem, queue, file, count>>

Clear(c) ==
  /\ pc[c] = "clear"
  /\ buf' = [i \in Cells |-> None]
  /\ pc' = [pc EXCEPT ![c] = "copy"]
  /\ UNCHANGED <<driver, sem, queue, file, count>>

(* copy_from_user() and copy_to_user(), byte by byte.                      *)
CopyByte(c) ==
  /\ pc[c] = "copy" /\ done[c] < todo[c] /\ pos[c] + done[c] \in Cells
  /\ done' = [done EXCEPT ![c] = @ + 1]
  /\ \/ /\ c \in Writers
        /\ buf' = [buf EXCEPT ![pos[c] + done[c]] = c] /\ UNCHANGED got
     \/ /\ c \in Readers
        /\ got' = [got EXCEPT ![c] = (@ \cup {buf[pos[c] + done[c]]}) \ {None}]
        /\ UNCHANGED buf
  /\ UNCHANGED <<driver, sem, queue, pc, pos, todo, left, count>>

(* All is copied, or as much as the memory of the program has room for (at *)
(* least a byte): the position moves on by what was copied, and            *)
(* scull_read() and scull_write() release the semaphore.                   *)
ScullEnds(c) ==
  driver = "seq_file" /\ Up(c, IF c \in Writers THEN "count" ELSE "return")

DeviceEnds(c) ==
  /\ driver = "exclusive"
  /\ pc' = [pc EXCEPT ![c] = "return"] /\ UNCHANGED <<sem, queue>>

Copied(c) == pc[c] = "copy" /\ (done[c] = todo[c] \/ done[c] > 0)

(* Mutant: the position is not moved on.                                   *)
CopyEnds_PositionStays(c) ==
  /\ Copied(c) /\ (ScullEnds(c) \/ DeviceEnds(c))
  /\ UNCHANGED <<driver, buf, pos, todo, done, got, left, count>>

CopyEnds(c) ==
  /\ Copied(c) /\ (ScullEnds(c) \/ DeviceEnds(c))
  /\ pos' = [pos EXCEPT ![c] = @ + done[c]]
  /\ UNCHANGED <<driver, buf, todo, done, got, left, count>>

(* The semaphore is free again when the node of the list is written; a     *)
(* write of nothing, or of the whole buffer, leaves it as it was.          *)
SetCount(c) ==
  /\ pc[c] = "count"
  /\ count' = IF done[c] \in 1..(BufSize - 1) THEN done[c] ELSE count
  /\ pc' = [pc EXCEPT ![c] = "return"]
  /\ UNCHANGED <<driver, buf, sem, queue, file>>

(* Back in the program: a reader stops at 0 bytes, or when it has enough;  *)
(* a writer goes on with the rest of its message.  One of Placers stops    *)
(* also when nothing was written, and its file is still at its beginning.  *)
Over(c) ==
  \/ c \in Writers /\ left[c] = done[c]
  \/ (c \in Readers \/ c \in Placers) /\ done[c] = 0
  \/ c \in Readers \cap Placers

Return(c) ==
  /\ pc[c] = "return"
  /\ \/ ~Over(c) /\ pc' = [pc EXCEPT ![c] = "open"]
     \/ (Over(c) \/ c \in Readers) /\ pc' = [pc EXCEPT ![c] = "finished"]
  /\ left' = [left EXCEPT ![c] = IF c \in Writers THEN @ - done[c] ELSE @]
  /\ pos' = [pos EXCEPT ![c] = IF c \in Placers THEN 0 ELSE @]
  /\ done' = [done EXCEPT ![c] = 0] /\ todo' = [todo EXCEPT ![c] = 0]
  /\ got' = [r \in Readers |-> IF r = c THEN {} ELSE got[r]]
  /\ UNCHANGED <<driver, buf, sem, queue, count>>

(* device_lseek(): SEEK_SET, SEEK_CUR and SEEK_END, clamped to the buffer. *)
(* Mutant: a negative position stays.                                     *)
Clamp_NoFloor(n) == IF n > BufSize THEN BufSize ELSE n

Clamp(n) == IF n > BufSize THEN BufSize ELSE IF n < 0 THEN 0 ELSE n

Seek(c) ==
  /\ driver = "exclusive" /\ c \in Readers \ Placers /\ pc[c] = "open" /\ left[c] > 0
  /\ \E n \in -MaxOffset..MaxOffset : \E new \in {n, pos[c] + n, BufSize - n} :
       pos' = [pos EXCEPT ![c] = Clamp(new)]
  /\ left' = [left EXCEPT ![c] = @ - 1]
  /\ UNCHANGED <<driver, buf, sem, queue, pc, todo, done, got, count>>

-----------------------------------------------------------------------------
(* The file in /proc.  One read() of it is one seq_read(), which calls     *)
(* start, show, next and stop under the lock of the open file.  The list   *)
(* has one node.  mydrv_seq_next() leaves the index as it is; the seq_file *)
(* layer of the kernel moves it on when the data has been read.            *)
SeqOpen(r) ==
  /\ driver = "seq_file" /\ pc[r] = "closed"
  /\ pc' = [pc EXCEPT ![r] = "open"]
  /\ UNCHANGED <<driver, buf, sem, queue, file, count>>

(* start finds the node for index 0, and show prints it; for any other     *)
(* index it finds nothing: the program has the end of the file, and closes.*)
SeqRead(r) ==
  /\ driver = "seq_file" /\ pc[r] = "open"
  /\ \/ pos[r] = 0 /\ pos' = [pos EXCEPT ![r] = 1] /\ UNCHANGED pc
     \/ /\ pos[r] # 0 /\ pos' = [pos EXCEPT ![r] = 0]
        /\ pc' = [pc EXCEPT ![r] = "closed"]
  /\ UNCHANGED <<driver, buf, sem, queue, todo, done, got, left, count>>

(* The driver is unloaded under the open file: the kernel fails the read.  *)
SeqGone(r) ==
  /\ driver = "seq_file" /\ r \in ProcReaders /\ pc[r] = "open"
  /\ pos' = [pos EXCEPT ![r] = 0] /\ pc' = [pc EXCEPT ![r] = "closed"]
  /\ UNCHANGED <<driver, buf, sem, queue, todo, done, got, left, count>>

-----------------------------------------------------------------------------
InCall(c) == Clear(c) \/ CopyByte(c) \/ CopyEnds(c) \/ SetCount(c) \/ Return(c)
Use(c)    == Call(c) \/ InCall(c) \/ Close(c)

Next ==
  \/ \E c \in Clients : Open(c) \/ OpenInterrupted(c) \/ Use(c) \/ Seek(c)
  \/ \E r \in ProcReaders : SeqOpen(r) \/ SeqRead(r) \/ SeqGone(r)

Spec == Init /\ [][Next]_vars

(* A program that has opened its file goes on; none need open one.         *)
Fairness ==
  /\ \A c \in Clients : WF_vars(Use(c))
  /\ \A r \in ProcReaders : WF_vars(SeqRead(r))

FairSpec == Spec /\ Fairness

-----------------------------------------------------------------------------
(* Properties.                                                             *)

Places == {"closed", "opening", "open", "waiting", "clear", "copy", "count",
           "return", "finished"}

(* The type invariant: every variable holds what its declaration says.     *)
TypeOK ==
  /\ driver \in {"seq_file", "exclusive"}
  /\ buf \in [Cells -> Writers \cup {None}]
  /\ sem \in Nat /\ queue \in Seq(Clients)
  /\ pc \in [Users -> Places]
  /\ pos \in [Users -> Nat]
  /\ todo \in [Clients -> Nat] /\ done \in [Clients -> Nat]
  /\ got \in [Readers -> SUBSET Writers]
  /\ left \in [Clients -> Nat] /\ count \in Nat

(* Who has the semaphore.                                                  *)
Holds(c) ==
  \/ driver = "seq_file" /\ pc[c] \in {"clear", "copy"}
  \/ driver = "exclusive" /\ pc[c] \in {"open", "copy", "return", "finished"}

(* A transfer that begins inside the buffer stays inside it: the bytes are *)
(* counted before the semaphore is taken, and other programs write, or     *)
(* seek, meanwhile.  Only pread() and pwrite() begin one elsewhere, and    *)
(* that one is cut off nowhere (see BytesTo).                              *)
CopiesStayInside ==
  \A c \in Clients :
    pc[c] \in {"waiting", "clear", "copy"} /\ (c \in Placers => pos[c] <= BufSize)
      => pos[c] + todo[c] \in 0..BufSize

(* No wake-up is lost: while somebody waits, somebody else has the         *)
(* semaphore and will hand it on; nobody waits twice.                      *)
WaitersHaveHolder ==
  /\ queue # <<>> => sem = 0 /\ \E c \in Clients : Holds(c)
  /\ \A i, j \in 1..Len(queue) : queue[i] = queue[j] => i = j
  /\ \A c \in Clients : pc[c] \in {"opening", "waiting"}
       <=> \E i \in 1..Len(queue) : queue[i] = c

(* What one read returns was put there by one writer: the buffer is        *)
(* cleared and filled under the semaphore, so that a reader meets neither  *)
(* the middle of a write nor the rest of another one.                      *)
ReadsAreWhole ==
  driver = "seq_file" => \A r \in Readers : Cardinality(got[r]) <= 1

(* At most one program has the semaphore, through any order of signals,    *)
(* hand-overs and closes: the exclusive driver's buffer changes only by    *)
(* the one program that has the device open, also between its calls, and   *)
(* no two calls of the other driver meet.                                  *)
OneHolder == \A c, d \in Clients : Holds(c) /\ Holds(d) => c = d

(* Some transfer is to go on behind the buffer.                            *)
Outside ==
  \E c \in Clients : pc[c] = "copy" /\ done[c] < todo[c] /\ pos[c] + done[c] \notin Cells

(* Every program that has opened the device, or waits in open() or in a    *)
(* call, ends: no wait is for ever, a reader meets the end of the buffer,  *)
(* a message that fits is written, the list in /proc has an end; unless a  *)
(* transfer beyond the buffer is under way, of which nothing is claimed.   *)
ClientsEnd == \A u \in Users : pc[u] # "closed" ~> pc[u] = "closed" \/ Outside

(* seq_file_interface_char_driver.c:16 "In the proc File current number of *)
(* bytes written in kernel buffer count will be there": with no call under *)
(* way the file in /proc tells how many bytes were last written.           *)
CountDescribesBuffer ==
  driver = "seq_file" /\ (\A c \in Clients : pc[c] \in {"closed", "open", "finished"})
    => count = Cardinality({i \in Cells : buf[i] # None})
=============================================================================
