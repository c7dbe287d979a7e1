---------------------------- MODULE DriverProofs ----------------------------
(***************************************************************************)
(* For every set of programs, every size of the buffer and every count a   *)
(* program asks for: transfers that begin inside the buffer stay inside    *)
(* it, at most one program has the semaphore, no wake-up of a waiter is    *)
(* lost, and a read returns the bytes of one writer.                       *)
(* The drivers with their load and unload do nothing that CharDevice does  *)
(* not allow, so that all this holds of them too; no program has open a    *)
(* device whose driver is not there, an unloaded driver leaves in the      *)
(* kernel only what is known, and the file in /proc never shows rubbish    *)
(* while the driver is loaded.                                             *)
(***************************************************************************)
EXTENDS DriverModule, FiniteSetTheorems, TLAPS

(* The position of a file never leaves the buffer, and what a call that    *)
(* begins inside it has counted fits in; a writer counts no more than is   *)
(* left of its message.                                                    *)
RoomOf(c) ==
  /\ c \notin Placers => pos[c] <= BufSize
  /\ pc[c] \in {"waiting", "clear", "copy"} /\ pos[c] <= BufSize
       => pos[c] + todo[c] <= BufSize
  /\ done[c] <= todo[c]
  /\ pc[c] \notin {"copy", "count", "return"} => done[c] = 0
  /\ c \in Writers /\ pc[c] \in {"waiting", "clear", "copy", "count", "return"}
       => todo[c] <= left[c]

Room == \A c \in Clients : RoomOf(c)

(* Where a program can be with each driver.                                *)
Stages ==
  \A c \in Clients :
    /\ driver = "exclusive" => pc[c] \notin {"waiting", "clear", "count"}
    /\ driver = "seq_file" => pc[c] # "opening"
    /\ c \in Readers => pc[c] # "clear"

(* The queue holds the programs that wait, each once.                      *)
Line ==
  /\ \A i \in 1..Len(queue) : pc[queue[i]] \in {"opening", "waiting"}
  /\ \A i, j \in 1..Len(queue) : queue[i] = queue[j] => i = j
  /\ \A c \in Clients : pc[c] \in {"opening", "waiting"}
       => \E i \in 1..Len(queue) : queue[i] = c

(* The semaphore is free just when nobody has it, and then nobody waits.   *)
Lock ==
  /\ sem \in 0..1
  /\ sem = 0 => \E c \in Clients : Holds(c)
  /\ sem = 1 => queue = <<>> /\ \A c \in Clients : ~Holds(c)
  /\ OneHolder

Sync == Stages /\ Line /\ Lock
IInv == TypeOK /\ Room /\ Sync

-----------------------------------------------------------------------------
(* The steps of the semaphore.                                             *)

(* A program moves on without touching the semaphore.                      *)
LEMMA MoveKeeps ==
  ASSUME IInv, NEW c \in Clients, NEW p \in Places \ {"opening", "waiting"},
         pc' = [pc EXCEPT ![c] = p], pc[c] \notin {"opening", "waiting"},
         UNCHANGED <<driver, sem, queue>>, Holds(c)' <=> Holds(c),
         driver = "exclusive" => p \notin {"clear", "count"},
         c \in Readers => p # "clear"
  PROVE  Sync' /\ pc' \in [Users -> Places]
<1>1. pc' \in [Users -> Places] /\ pc'[c] = p
  BY DEF IInv, TypeOK, Users
<1>2. \A d \in Clients : d # c => pc'[d] = pc[d] /\ (Holds(d)' <=> Holds(d))
  BY DEF IInv, TypeOK, Users, Holds
<1>3. Stages'
  BY <1>1, <1>2 DEF IInv, Sync, Stages
<1>4. \A i \in 1..Len(queue) : queue[i] \in Clients
  BY DEF IInv, TypeOK
<1>5. Line'
  BY <1>1, <1>2, <1>4 DEF IInv, Sync, Line
<1>6. Lock'
  BY <1>2 DEF IInv, Sync, Lock, OneHolder
<1> QED BY <1>1, <1>3, <1>5, <1>6 DEF Sync

(* down(): the semaphore is taken, or the program joins the line.          *)
LEMMA DownKeeps ==
  ASSUME IInv, NEW c \in Clients, ~Holds(c), pc[c] \in {"closed", "open"},
         NEW w, NEW n, Down(c, w, n), UNCHANGED driver,
         driver = "exclusive" => w = "opening" /\ n = "open",
         driver = "seq_file" => w = "waiting" /\ n = IF c \in Writers THEN "clear" ELSE "copy"
  PROVE  /\ Sync' /\ pc' \in [Users -> Places] /\ queue' \in Seq(Clients)
         /\ \E p \in {w, n} : pc' = [pc EXCEPT ![c] = p]
<1>1. \A d \in Clients : d # c => pc'[d] = pc[d] /\ (Holds(d)' <=> Holds(d))
  BY DEF IInv, TypeOK, Users, Holds, Down
<1>a. w \in Places /\ n \in Places
  BY DEF IInv, TypeOK, Places
<1>b. queue \in Seq(Clients)
  BY DEF IInv, TypeOK
<1>2. pc' \in [Users -> Places] /\ queue' \in Seq(Clients)
  <2>1. CASE sem > 0
    <3>1. queue' = queue /\ pc' = [pc EXCEPT ![c] = n]
      BY <2>1 DEF Down
    <3>2. pc' \in [Users -> Places]
      BY <1>a, <3>1 DEF IInv, TypeOK
    <3> QED BY <1>b, <3>1, <3>2
  <2>2. CASE sem = 0
    <3>1. queue' = Append(queue, c) /\ pc' = [pc EXCEPT ![c] = w]
      BY <2>2 DEF Down
    <3>2. queue' \in Seq(Clients)
      BY <1>b, <3>1
    <3>3. pc' \in [Users -> Places]
      BY <1>a, <3>1 DEF IInv, TypeOK
    <3> QED BY <3>2, <3>3
  <2> QED BY <2>1, <2>2 DEF IInv, Sync, Lock
<1>c. \A i \in 1..Len(queue) : queue[i] \in Clients
  BY <1>b
<1>d. \A i \in 1..Len(queue) : pc[queue[i]] \in {"opening", "waiting"}
  BY DEF IInv, Sync, Line
<1>3. \A i \in 1..Len(queue) : queue[i] \in Clients /\ queue[i] # c
  BY <1>c, <1>d
<1>4. Readers \cap Writers = {}
  BY CharDeviceAssumption
<1>5. CASE sem > 0
  <2>1. sem' = sem - 1 /\ pc' = [pc EXCEPT ![c] = n] /\ queue' = queue
    BY <1>5 DEF Down
  <2>2. pc'[c] = n /\ Holds(c)'
    BY <2>1 DEF IInv, TypeOK, Users, Holds
  <2>3. Stages'
    BY <1>1, <2>2, <1>4 DEF IInv, TypeOK, Sync, Stages
  <2>4. Line'
    BY <1>1, <1>3, <2>1, <2>2 DEF IInv, TypeOK, Sync, Line
  <2>5. Lock'
    BY <1>1, <1>5, <2>1, <2>2 DEF IInv, Sync, Lock, OneHolder
  <2> QED BY <1>2, <2>1, <2>3, <2>4, <2>5 DEF Sync
<1>6. CASE sem = 0
  <2>1. sem' = sem /\ pc' = [pc EXCEPT ![c] = w] /\ queue' = Append(queue, c)
    BY <1>6 DEF Down
  <2>2. pc'[c] = w /\ ~Holds(c)'
    BY <2>1 DEF IInv, TypeOK, Users, Holds
  <2>3. Stages'
    BY <1>1, <2>2, <1>4 DEF IInv, TypeOK, Sync, Stages
  <2>4. /\ Len(queue') = Len(queue) + 1 /\ queue'[Len(queue) + 1] = c
        /\ \A i \in 1..Len(queue) : queue'[i] = queue[i]
    BY <2>1 DEF IInv, TypeOK
  <2>5. Len(queue) \in Nat
    BY DEF IInv, TypeOK
  <2>6. Line'
    <3>1. \A i \in 1..Len(queue)' : pc'[queue'[i]] \in {"opening", "waiting"}
      <4> SUFFICES ASSUME NEW i \in 1..Len(queue)'
                   PROVE  pc'[queue'[i]] \in {"opening", "waiting"}
        OBVIOUS
      <4>1. CASE i \in 1..Len(queue)
        BY <1>1, <1>3, <1>d, <2>4, <4>1
      <4>2. CASE i = Len(queue) + 1
        <5>1. w \in {"opening", "waiting"}
          BY DEF IInv, TypeOK
        <5> QED BY <2>2, <2>4, <4>2, <5>1
      <4> QED BY <2>4, <2>5, <4>1, <4>2
    <3>2. \A i, j \in 1..Len(queue)' : queue'[i] = queue'[j] => i = j
      BY <1>3, <2>4, <2>5 DEF IInv, Sync, Line
    <3>3. \A d \in Clients : pc'[d] \in {"opening", "waiting"}
            => \E i \in 1..Len(queue)' : queue'[i] = d
      BY <1>1, <2>4, <2>5 DEF IInv, Sync, Line
    <3> QED BY <3>1, <3>2, <3>3 DEF Line
  <2>7. Lock'
    BY <1>1, <1>6, <2>1, <2>2 DEF IInv, Sync, Lock, OneHolder
  <2> QED BY <1>2, <2>1, <2>3, <2>6, <2>7 DEF Sync
<1> QED BY <1>5, <1>6 DEF IInv, Sync, Lock

(* What up() does to the places of the programs other than c.              *)
Woken(d) ==
  \/ pc'[d] = pc[d]
  \/ pc[d] = "opening" /\ pc'[d] = "open"
  \/ pc[d] = "waiting" /\ pc'[d] = IF d \in Writers THEN "clear" ELSE "copy"

(* up(): the first of the line has the semaphore, or it is free.           *)
LEMMA UpKeeps ==
  ASSUME IInv, NEW c \in Clients, Holds(c), NEW n, Up(c, n), UNCHANGED driver,
         driver = "exclusive" => n = "closed",
         driver = "seq_file" => n \in {"count", "return"}
  PROVE  /\ Sync' /\ pc' \in [Users -> Places] /\ queue' \in Seq(Clients)
         /\ sem' \in Nat /\ pc'[c] = n
         /\ \A d \in Clients : d # c => Woken(d)
<1>1. sem = 0 /\ \A d \in Clients : d # c => ~Holds(d)
  BY DEF IInv, Sync, Lock, OneHolder
<1>2. pc[c] \notin {"opening", "waiting"} /\ n \in Places \ {"opening", "waiting", "clear"}
  BY DEF Holds, Places, IInv, TypeOK
<1>3. Readers \cap Writers = {}
  BY CharDeviceAssumption
<1>4. CASE queue = <<>>
  <2>1. sem' = 1 /\ queue' = queue /\ pc' = [pc EXCEPT ![c] = n]
    BY <1>1, <1>4 DEF Up
  <2>2. pc'[c] = n /\ ~Holds(c)' /\ pc' \in [Users -> Places]
    BY <1>2, <2>1 DEF IInv, TypeOK, Users, Holds
  <2>3. \A d \in Clients : d # c => pc'[d] = pc[d] /\ (Holds(d)' <=> Holds(d))
    BY <2>1 DEF IInv, TypeOK, Users, Holds
  <2>4. Stages'
    BY <2>2, <2>3, <1>2 DEF IInv, TypeOK, Sync, Stages
  <2>5. Line'
    BY <1>2, <1>4, <2>1, <2>2, <2>3 DEF IInv, Sync, Line
  <2>6. Lock'
    BY <1>1, <1>4, <2>1, <2>2, <2>3 DEF Lock, OneHolder
  <2> QED BY <2>1, <2>2, <2>3, <2>4, <2>5, <2>6 DEF Sync, Woken, IInv, TypeOK
<1>5. CASE queue # <<>>
  <2>a. Len(queue) \in Nat \ {0} /\ \A i \in 1..Len(queue) : queue[i] \in Clients
    BY <1>5 DEF IInv, TypeOK
  <2>1. PICK h \in Clients : h = Head(queue) /\ h = queue[1]
    BY <1>5, <2>a DEF IInv, TypeOK
  <2>2. pc[h] \in {"opening", "waiting"} /\ h # c
    BY <1>2, <2>a, <2>1 DEF IInv, Sync, Line
  <2>3. /\ sem' = sem /\ queue' = Tail(queue)
        /\ pc' = [pc EXCEPT ![c] = n, ![h] = Granted(h)]
    BY <1>5, <2>1 DEF Up
  <2>4. /\ Granted(h) \in {"open", "clear", "copy"}
        /\ pc[h] = "opening" => Granted(h) = "open"
        /\ pc[h] = "waiting" => Granted(h) = IF h \in Writers THEN "clear" ELSE "copy"
    BY <1>3, <2>2 DEF Granted, Clients
  <2>5. pc'[c] = n /\ pc'[h] = Granted(h) /\ pc' \in [Users -> Places]
    BY <1>2, <2>2, <2>3, <2>4 DEF IInv, TypeOK, Users, Places
  <2>6. \A d \in Clients : d # c /\ d # h => pc'[d] = pc[d] /\ (Holds(d)' <=> Holds(d))
    BY <2>3 DEF IInv, TypeOK, Users, Holds
  <2>7. Holds(h)' /\ ~Holds(c)'
    <3>1. driver' = driver /\ driver \in {"seq_file", "exclusive"}
      BY DEF IInv, TypeOK
    <3>2. CASE driver = "exclusive"
      <4>1. pc[h] = "opening"
        BY <2>2, <3>2 DEF IInv, Sync, Stages
      <4> QED BY <2>4, <2>5, <3>1, <3>2, <4>1 DEF Holds
    <3>3. CASE driver = "seq_file"
      <4>1. pc[h] = "waiting"
        BY <2>2, <3>3 DEF IInv, Sync, Stages
      <4> QED BY <2>4, <2>5, <3>1, <3>3, <4>1 DEF Holds
    <3> QED BY <3>1, <3>2, <3>3
  <2>8. Stages'
    BY <1>2, <1>3, <2>2, <2>4, <2>5, <2>6 DEF IInv, TypeOK, Sync, Stages
  <2>9. /\ Len(queue') = Len(queue) - 1 /\ queue' \in Seq(Clients)
        /\ \A i \in 1..(Len(queue) - 1) : queue'[i] = queue[i + 1]
    BY <1>5, <2>3 DEF IInv, TypeOK
  <2>10. Line'
    <3>1. \A i \in 1..Len(queue)' : pc'[queue'[i]] \in {"opening", "waiting"}
      <4> SUFFICES ASSUME NEW i \in 1..Len(queue)'
                   PROVE  pc'[queue'[i]] \in {"opening", "waiting"}
        OBVIOUS
      <4>1. i \in 1..(Len(queue) - 1) /\ i + 1 \in 1..Len(queue) /\ i + 1 # 1
        BY <2>a, <2>1, <2>9
      <4>2. queue'[i] = queue[i + 1] /\ queue[i + 1] \in Clients
        BY <2>a, <2>1, <2>9, <4>1
      <4>3. queue[i + 1] # h /\ queue[i + 1] # c
        BY <1>2, <2>a, <2>1, <4>1 DEF IInv, Sync, Line
      <4> QED BY <2>6, <4>1, <4>2, <4>3 DEF IInv, Sync, Line
    <3>2. \A i, j \in 1..Len(queue)' : queue'[i] = queue'[j] => i = j
      BY <2>a, <2>1, <2>9 DEF IInv, Sync, Line
    <3>3. \A d \in Clients : pc'[d] \in {"opening", "waiting"}
            => \E i \in 1..Len(queue)' : queue'[i] = d
      <4> SUFFICES ASSUME NEW d \in Clients, pc'[d] \in {"opening", "waiting"}
                   PROVE  \E i \in 1..Len(queue)' : queue'[i] = d
        OBVIOUS
      <4>1. d # c /\ d # h
        BY <1>2, <2>4, <2>5
      <4>2. PICK k \in 1..Len(queue) : queue[k] = d
        BY <2>6, <4>1 DEF IInv, Sync, Line
      <4>3. k # 1 /\ k - 1 \in 1..(Len(queue) - 1)
        BY <2>a, <2>1, <4>1, <4>2
      <4>4. queue'[k - 1] = d
        BY <2>a, <2>1, <2>9, <4>2, <4>3
      <4> QED BY <2>a, <2>1, <2>9, <4>3, <4>4
    <3> QED BY <3>1, <3>2, <3>3 DEF Line
  <2>11. Lock'
    <3>1. \A d \in Clients : Holds(d)' <=> d = h
      BY <1>1, <2>6, <2>7
    <3>2. OneHolder'
      BY <3>1 DEF OneHolder
    <3> QED BY <1>1, <2>2, <2>3, <3>1, <3>2 DEF Lock
  <2>12. \A d \in Clients : d # c => Woken(d)
    BY <2>2, <2>4, <2>5, <2>6 DEF Woken
  <2> QED BY <1>1, <2>3, <2>5, <2>8, <2>9, <2>10, <2>11, <2>12 DEF Sync, IInv, TypeOK
<1> QED BY <1>4, <1>5
-----------------------------------------------------------------------------
(* The steps of the programs.                                              *)

(* Every other program has room as before.                                 *)
LEMMA OthersKeepRoom ==
  ASSUME IInv, NEW c \in Clients, RoomOf(c)',
         \A d \in Clients : d # c =>
           /\ Woken(d) /\ pos'[d] = pos[d] /\ todo'[d] = todo[d]
           /\ done'[d] = done[d] /\ left'[d] = left[d]
  PROVE  Room'
BY DEF IInv, Room, RoomOf, Woken

LEMMA OpenKeeps ==
  ASSUME IInv, NEW c \in Clients, Open(c)
  PROVE  IInv'
<1>1. /\ pc[c] = "closed" /\ UNCHANGED <<driver, buf, pos, todo, done, got, count>>
      /\ \E n \in Nat : left' = [left EXCEPT ![c] = n]
  <2>1. \A n \in (IF c \in Writers THEN 1..MaxMessage ELSE {1}) : n \in Nat
    BY CharDeviceAssumption
  <2> QED BY <2>1 DEF Open, NewFile
<1>2. PICK p \in {"open", "opening"} : pc' = [pc EXCEPT ![c] = p]
  BY DEF Open, ScullOpen, DeviceOpen, Down
<1>3. Sync' /\ pc' \in [Users -> Places] /\ queue' \in Seq(Clients) /\ sem' \in Nat
  <2>1. CASE driver = "seq_file" /\ pc' = [pc EXCEPT ![c] = "open"] /\ UNCHANGED <<sem, queue>>
    <3>1. Holds(c)' <=> Holds(c)
      BY <1>1, <2>1 DEF Holds, IInv, TypeOK, Users
    <3> QED BY <1>1, <2>1, <3>1, MoveKeeps DEF Places, IInv, TypeOK
  <2>2. CASE driver = "exclusive" /\ Down(c, "opening", "open")
    <3>1. ~Holds(c) BY <1>1 DEF Holds
    <3> QED BY <1>1, <2>2, <3>1, DownKeeps DEF Sync, Lock
  <2> QED BY <2>1, <2>2 DEF Open, ScullOpen, DeviceOpen
<1>4. TypeOK'
  BY <1>1, <1>3 DEF IInv, TypeOK
<1>5. Room'
  <2>1. RoomOf(c)'
    BY <1>1, <1>2 DEF IInv, TypeOK, Users, Room, RoomOf
  <2>2. \A d \in Clients : d # c => Woken(d) /\ left'[d] = left[d]
    BY <1>1, <1>2 DEF IInv, TypeOK, Users, Woken
  <2> QED BY <1>1, <2>1, <2>2, OthersKeepRoom
<1> QED BY <1>3, <1>4, <1>5 DEF IInv

LEMMA CloseKeeps ==
  ASSUME IInv, NEW c \in Clients, Close(c)
  PROVE  IInv'
<1>1. /\ pc[c] = "finished" /\ UNCHANGED <<driver, buf, todo, done, got, count>>
      /\ left' = [left EXCEPT ![c] = 0] /\ pos' = [pos EXCEPT ![c] = 0]
  BY DEF Close
<1>2. /\ Sync' /\ pc' \in [Users -> Places] /\ queue' \in Seq(Clients) /\ sem' \in Nat
      /\ pc'[c] = "closed" /\ \A d \in Clients : d # c => Woken(d)
  <2>1. CASE driver = "seq_file" /\ pc' = [pc EXCEPT ![c] = "closed"] /\ UNCHANGED <<sem, queue>>
    <3>1. Holds(c)' <=> Holds(c)
      BY <1>1, <2>1 DEF Holds, IInv, TypeOK, Users
    <3>2. pc'[c] = "closed" /\ \A d \in Clients : d # c => Woken(d)
      BY <2>1 DEF Woken, IInv, TypeOK, Users
    <3> QED BY <1>1, <2>1, <3>1, <3>2, MoveKeeps DEF Places, IInv, TypeOK
  <2>2. CASE driver = "exclusive" /\ Up(c, "closed")
    <3>1. Holds(c) BY <1>1, <2>2 DEF Holds
    <3> QED BY <1>1, <2>2, <3>1, UpKeeps
  <2> QED BY <2>1, <2>2 DEF Close, ScullRelease, DeviceClose
<1>3. TypeOK'
  BY <1>1, <1>2 DEF IInv, TypeOK
<1>4. Room'
  <2>1. RoomOf(c)'
    <3>1. pos'[c] = 0 /\ left'[c] = 0
      BY <1>1 DEF IInv, TypeOK, Users
    <3>2. done[c] = 0 /\ todo[c] \in Nat /\ BufSize \in Nat
      BY <1>1, CharDeviceAssumption DEF IInv, TypeOK, Room, RoomOf
    <3> QED BY <1>1, <1>2, <3>1, <3>2 DEF RoomOf
  <2>2. \A d \in Clients : d # c => pos'[d] = pos[d] /\ left'[d] = left[d]
    BY <1>1 DEF IInv, TypeOK, Users
  <2> QED BY <1>1, <1>2, <2>1, <2>2, OthersKeepRoom
<1> QED BY <1>2, <1>3, <1>4 DEF IInv

LEMMA CallKeeps ==
  ASSUME IInv, NEW c \in Clients, Call(c)
  PROVE  IInv'
<1>1. pc[c] = "open" /\ UNCHANGED <<driver, buf, done, got, left, count>>
  BY DEF Call
<1>2. PICK at \in IF c \in Placers THEN Offsets ELSE {pos[c]}, n \in Counts :
        /\ pos' = [pos EXCEPT ![c] = at]
        /\ todo' = [todo EXCEPT ![c] = BytesTo(at, IF c \in Writers THEN Least(n, left[c]) ELSE n)]
  BY DEF Call
<1>3. /\ n \in Nat /\ at \in Nat /\ left[c] \in Nat /\ BufSize \in Nat /\ done[c] = 0
      /\ c \notin Placers => at <= BufSize
  BY <1>1, CharDeviceAssumption DEF IInv, TypeOK, Users, Room, RoomOf
<1>a. /\ pos' \in [Users -> Nat] /\ pos'[c] = at
      /\ \A d \in Clients : d # c => pos'[d] = pos[d]
  BY <1>2, <1>3 DEF IInv, TypeOK, Users
<1>4. /\ todo' \in [Clients -> Nat] /\ (at <= BufSize => at + todo'[c] <= BufSize)
      /\ c \in Writers => todo'[c] <= left[c]
      /\ \A d \in Clients : d # c => todo'[d] = todo[d]
  <2>1. /\ todo'[c] = BytesTo(at, IF c \in Writers THEN Least(n, left[c]) ELSE n)
        /\ \A d \in Clients : d # c => todo'[d] = todo[d]
    BY <1>2 DEF IInv, TypeOK
  <2>2. /\ todo'[c] \in Nat /\ (at <= BufSize => at + todo'[c] <= BufSize)
        /\ c \in Writers => todo'[c] <= left[c]
    BY <1>3, <2>1 DEF BytesTo, Least
  <2>3. todo' \in [Clients -> Nat]
    BY <1>2, <2>1, <2>2 DEF IInv, TypeOK
  <2> QED BY <2>1, <2>2, <2>3
<1>5. /\ Sync' /\ pc' \in [Users -> Places] /\ queue' \in Seq(Clients) /\ sem' \in Nat
      /\ \E p \in {"waiting", "clear", "copy"} : pc' = [pc EXCEPT ![c] = p]
  <2>1. CASE driver = "seq_file" /\ Down(c, "waiting", IF c \in Writers THEN "clear" ELSE "copy")
    <3>1. ~Holds(c) BY <1>1, <2>1 DEF Holds
    <3> QED BY <1>1, <2>1, <3>1, DownKeeps DEF Sync, Lock
  <2>2. CASE driver = "exclusive" /\ pc' = [pc EXCEPT ![c] = "copy"] /\ UNCHANGED <<sem, queue>>
    <3>1. Holds(c)' <=> Holds(c)
      BY <1>1, <2>2 DEF Holds, IInv, TypeOK, Users
    <3> QED BY <1>1, <2>2, <3>1, MoveKeeps DEF Places, IInv, TypeOK
  <2> QED BY <2>1, <2>2 DEF Call, ScullCall, DeviceCall
<1>6. TypeOK'
  BY <1>1, <1>4, <1>5, <1>a DEF IInv, TypeOK
<1>7. Room'
  <2>1. pc'[c] \in {"waiting", "clear", "copy"} /\ \A d \in Clients : d # c => Woken(d)
    BY <1>5 DEF IInv, TypeOK, Users, Woken
  <2>2. RoomOf(c)'
    BY <1>1, <1>3, <1>4, <1>a, <2>1 DEF RoomOf, TypeOK
  <2> QED BY <1>1, <1>4, <1>a, <2>1, <2>2, OthersKeepRoom
<1> QED BY <1>5, <1>6, <1>7 DEF IInv

LEMMA ClearKeeps ==
  ASSUME IInv, NEW c \in Clients, Clear(c)
  PROVE  IInv'
<1>1. /\ pc[c] = "clear" /\ pc' = [pc EXCEPT ![c] = "copy"]
      /\ UNCHANGED <<driver, sem, queue, pos, todo, done, got, left, count>>
      /\ buf' = [i \in Cells |-> None]
  BY DEF Clear, file
<1>2. Holds(c)' <=> Holds(c)
  BY <1>1 DEF Holds, IInv, TypeOK, Users, Sync, Stages
<1>3. Sync' /\ pc' \in [Users -> Places]
  BY <1>1, <1>2, MoveKeeps DEF Places
<1>4. TypeOK'
  BY <1>1, <1>3 DEF IInv, TypeOK
<1>5. Room'
  <2>1. RoomOf(c)' /\ \A d \in Clients : d # c => Woken(d)
    BY <1>1 DEF IInv, TypeOK, Users, Room, RoomOf, Woken
  <2> QED BY <1>1, <2>1, OthersKeepRoom
<1> QED BY <1>3, <1>4, <1>5 DEF IInv

LEMMA SetCountKeeps ==
  ASSUME IInv, NEW c \in Clients, SetCount(c)
  PROVE  IInv'
<1>1. /\ pc[c] = "count" /\ pc' = [pc EXCEPT ![c] = "return"]
      /\ UNCHANGED <<driver, buf, sem, queue, pos, todo, done, got, left>>
      /\ count' \in Nat
  BY DEF SetCount, file, IInv, TypeOK
<1>2. Holds(c)' <=> Holds(c)
  BY <1>1 DEF Holds, IInv, TypeOK, Users, Sync, Stages
<1>3. Sync' /\ pc' \in [Users -> Places]
  BY <1>1, <1>2, MoveKeeps DEF Places
<1>4. TypeOK'
  BY <1>1, <1>3 DEF IInv, TypeOK
<1>5. Room'
  <2>1. RoomOf(c)' /\ \A d \in Clients : d # c => Woken(d)
    BY <1>1 DEF IInv, TypeOK, Users, Room, RoomOf, Woken
  <2> QED BY <1>1, <2>1, OthersKeepRoom
<1> QED BY <1>3, <1>4, <1>5 DEF IInv

LEMMA CopyByteKeeps ==
  ASSUME IInv, NEW c \in Clients, CopyByte(c)
  PROVE  IInv'
<1>1. /\ pc[c] = "copy" /\ done[c] < todo[c] /\ done' = [done EXCEPT ![c] = @ + 1]
      /\ UNCHANGED <<driver, sem, queue, pc, pos, todo, left, count>>
  BY DEF CopyByte
<1>2. done' \in [Clients -> Nat] /\ done'[c] = done[c] + 1 /\ done'[c] <= todo[c]
  BY <1>1 DEF IInv, TypeOK
<1>3. pos[c] + done[c] \in Cells
  BY DEF CopyByte
<1>4. buf' \in [Cells -> Writers \cup {None}] /\ got' \in [Readers -> SUBSET Writers]
  <2>1. CASE c \in Writers /\ buf' = [buf EXCEPT ![pos[c] + done[c]] = c] /\ UNCHANGED got
    BY <2>1 DEF IInv, TypeOK
  <2>2. CASE /\ c \in Readers /\ UNCHANGED buf
             /\ got' = [got EXCEPT ![c] = (@ \cup {buf[pos[c] + done[c]]}) \ {None}]
    <3>1. buf[pos[c] + done[c]] \in Writers \cup {None} /\ got[c] \in SUBSET Writers
      BY <1>3, <2>2 DEF IInv, TypeOK
    <3>2. (got[c] \cup {buf[pos[c] + done[c]]}) \ {None} \in SUBSET Writers
      BY <3>1
    <3> QED BY <2>2, <3>2 DEF IInv, TypeOK
  <2> QED BY <2>1, <2>2 DEF CopyByte
<1>5. TypeOK' /\ Sync'
  BY <1>1, <1>2, <1>4 DEF IInv, TypeOK, Sync, Stages, Line, Lock, OneHolder, Holds
<1>6. Room'
  <2>1. RoomOf(c)' /\ \A d \in Clients : d # c => Woken(d) /\ done'[d] = done[d]
    BY <1>1, <1>2 DEF IInv, TypeOK, Room, RoomOf, Woken
  <2> QED BY <1>1, <2>1, OthersKeepRoom
<1> QED BY <1>5, <1>6 DEF IInv

LEMMA CopyEndsKeeps ==
  ASSUME IInv, NEW c \in Clients, CopyEnds(c)
  PROVE  IInv'
<1>1. /\ pc[c] = "copy" /\ pos' = [pos EXCEPT ![c] = @ + done[c]]
      /\ UNCHANGED <<driver, buf, todo, done, got, left, count>>
  BY DEF CopyEnds, Copied
<1>2. /\ pos' \in [Users -> Nat] /\ pos'[c] = pos[c] + done[c]
      /\ \A d \in Clients : d # c => pos'[d] = pos[d]
  BY <1>1 DEF IInv, TypeOK, Users
<1>3. /\ Sync' /\ pc' \in [Users -> Places] /\ queue' \in Seq(Clients) /\ sem' \in Nat
      /\ pc'[c] \in {"count", "return"} /\ \A d \in Clients : d # c => Woken(d)
  <2>1. CASE driver = "seq_file" /\ Up(c, IF c \in Writers THEN "count" ELSE "return")
    <3>1. Holds(c) BY <1>1, <2>1 DEF Holds
    <3> QED BY <1>1, <2>1, <3>1, UpKeeps
  <2>2. CASE driver = "exclusive" /\ pc' = [pc EXCEPT ![c] = "return"] /\ UNCHANGED <<sem, queue>>
    <3>1. Holds(c)' <=> Holds(c)
      BY <1>1, <2>2 DEF Holds, IInv, TypeOK, Users
    <3>2. pc'[c] = "return" /\ \A d \in Clients : d # c => Woken(d)
      BY <2>2 DEF Woken, IInv, TypeOK, Users
    <3> QED BY <1>1, <2>2, <3>1, <3>2, MoveKeeps DEF Places, IInv, TypeOK
  <2> QED BY <2>1, <2>2 DEF CopyEnds, ScullEnds, DeviceEnds
<1>4. TypeOK'
  BY <1>1, <1>2, <1>3 DEF IInv, TypeOK
<1>5. Room'
  <2>1. pos[c] \in Nat /\ todo[c] \in Nat /\ done[c] \in Nat /\ BufSize \in Nat
    BY CharDeviceAssumption DEF IInv, TypeOK, Users
  <2>2. RoomOf(c)'
    BY <1>1, <1>2, <1>3, <2>1 DEF IInv, Room, RoomOf
  <2> QED BY <1>1, <1>2, <1>3, <2>2, OthersKeepRoom
<1> QED BY <1>3, <1>4, <1>5 DEF IInv

LEMMA ReturnKeeps ==
  ASSUME IInv, NEW c \in Clients, Return(c)
  PROVE  IInv'
<1>1. /\ pc[c] = "return" /\ UNCHANGED <<driver, buf, sem, queue, count>>
      /\ pos' = [pos EXCEPT ![c] = IF c \in Placers THEN 0 ELSE @]
      /\ done' = [done EXCEPT ![c] = 0] /\ todo' = [todo EXCEPT ![c] = 0]
      /\ got' = [r \in Readers |-> IF r = c THEN {} ELSE got[r]]
      /\ left' = [left EXCEPT ![c] = IF c \in Writers THEN left[c] - done[c] ELSE left[c]]
  BY DEF Return
<1>2. PICK p \in {"open", "finished"} : pc' = [pc EXCEPT ![c] = p]
  BY DEF Return
<1>3. Holds(c)' <=> Holds(c)
  BY <1>1, <1>2 DEF Holds, IInv, TypeOK, Users
<1>4. Sync' /\ pc' \in [Users -> Places]
  BY <1>1, <1>2, <1>3, MoveKeeps DEF Places
<1>5. TypeOK'
  <2>1. c \in Writers => left[c] - done[c] \in Nat
    BY <1>1 DEF IInv, TypeOK, Room, RoomOf
  <2>2. left' \in [Clients -> Nat]
    BY <1>1, <2>1 DEF IInv, TypeOK
  <2>4. pos' \in [Users -> Nat]
    BY <1>1 DEF IInv, TypeOK, Users
  <2>3. done' \in [Clients -> Nat] /\ todo' \in [Clients -> Nat] /\ got' \in [Readers -> SUBSET Writers]
    BY <1>1 DEF IInv, TypeOK
  <2> QED BY <1>1, <1>4, <2>2, <2>3, <2>4 DEF IInv, TypeOK
<1>6. Room'
  <2>1. RoomOf(c)'
    BY <1>1, <1>2 DEF IInv, TypeOK, Users, Room, RoomOf
  <2>2. \A d \in Clients : d # c =>
          /\ Woken(d) /\ pos'[d] = pos[d] /\ todo'[d] = todo[d]
          /\ done'[d] = done[d] /\ left'[d] = left[d]
    BY <1>1, <1>2 DEF IInv, TypeOK, Users, Woken
  <2> QED BY <1>1, <2>1, <2>2, OthersKeepRoom
<1> QED BY <1>4, <1>5, <1>6 DEF IInv

LEMMA SeekKeeps ==
  ASSUME IInv, NEW c \in Clients, Seek(c)
  PROVE  IInv'
<1>1. /\ pc[c] = "open" /\ left[c] > 0 /\ left' = [left EXCEPT ![c] = @ - 1] /\ c \in Readers
      /\ UNCHANGED <<driver, buf, sem, queue, pc, todo, done, got, count>>
  BY DEF Seek
<1>a. PICK n \in -MaxOffset..MaxOffset : \E new \in {n, pos[c] + n, BufSize - n} :
        pos' = [pos EXCEPT ![c] = Clamp(new)]
  BY DEF Seek
<1>2. PICK new \in {n, pos[c] + n, BufSize - n} : pos' = [pos EXCEPT ![c] = Clamp(new)]
  BY <1>a
<1>3. Clamp(new) \in Nat /\ Clamp(new) <= BufSize
  <2>1. n \in Int /\ pos[c] \in Nat /\ BufSize \in Nat
    BY CharDeviceAssumption DEF IInv, TypeOK, Users
  <2>2. new \in Int
    BY <2>1
  <2> QED BY <2>1, <2>2 DEF Clamp
<1>4. TypeOK' /\ Sync'
  <2>1. left' \in [Clients -> Nat]
    BY <1>1 DEF IInv, TypeOK
  <2>2. pos' \in [Users -> Nat]
    BY <1>2, <1>3 DEF IInv, TypeOK
  <2> QED BY <1>1, <2>1, <2>2 DEF IInv, TypeOK, Sync, Stages, Line, Lock, OneHolder, Holds
<1>5. Room'
  <2>1. RoomOf(c)'
    BY <1>1, <1>2, <1>3, CharDeviceAssumption DEF IInv, TypeOK, Users, Room, RoomOf, Clients
  <2>2. \A d \in Clients : d # c => Woken(d) /\ pos'[d] = pos[d] /\ left'[d] = left[d]
    BY <1>1, <1>2 DEF IInv, TypeOK, Users, Woken
  <2> QED BY <1>1, <2>1, <2>2, OthersKeepRoom
<1> QED BY <1>4, <1>5 DEF IInv

LEMMA OpenInterruptedKeeps ==
  ASSUME IInv, NEW c \in Clients, OpenInterrupted(c)
  PROVE  IInv'
<1>1. /\ pc[c] = "opening" /\ pc' = [pc EXCEPT ![c] = "closed"] /\ left' = [left EXCEPT ![c] = 0]
      /\ UNCHANGED <<driver, buf, sem, pos, todo, done, got, count>>
  BY DEF OpenInterrupted
<1>2. PICK i \in 1..Len(queue) :
        /\ queue[i] = c
        /\ queue' = [j \in 1..(Len(queue) - 1) |-> queue[IF j < i THEN j ELSE j + 1]]
  BY DEF OpenInterrupted
<1>3. Len(queue) \in Nat \ {0} /\ \A j \in 1..Len(queue) : queue[j] \in Clients
  BY <1>2 DEF IInv, TypeOK
<1>4. /\ \A j \in 1..(Len(queue) - 1) : (IF j < i THEN j ELSE j + 1) \in 1..Len(queue) \ {i}
      /\ Len(queue) - 1 \in Nat
  BY <1>3
<1>5. queue' \in Seq(Clients) /\ Len(queue') = Len(queue) - 1
  BY <1>2, <1>3, <1>4
<1>6. pc' \in [Users -> Places] /\ pc'[c] = "closed" /\ \A d \in Clients : d # c => pc'[d] = pc[d]
  BY <1>1 DEF IInv, TypeOK, Users, Places
<1>7. \A d \in Clients : Holds(d)' <=> Holds(d)
  BY <1>1, <1>6 DEF Holds
<1>8. Stages'
  BY <1>1, <1>6 DEF IInv, Sync, Stages
<1>9. Line'
  <2>1. \A j \in 1..Len(queue) : j # i => queue[j] # c
    BY <1>2 DEF IInv, Sync, Line
  <2>2. \A j \in 1..Len(queue)' : pc'[queue'[j]] \in {"opening", "waiting"}
    BY <1>2, <1>3, <1>4, <1>5, <1>6, <2>1 DEF IInv, Sync, Line
  <2>3. \A j, k \in 1..Len(queue)' : queue'[j] = queue'[k] => j = k
    <3> SUFFICES ASSUME NEW j \in 1..Len(queue)', NEW k \in 1..Len(queue)', queue'[j] = queue'[k]
                 PROVE  j = k
      OBVIOUS
    <3>1. queue[IF j < i THEN j ELSE j + 1] = queue[IF k < i THEN k ELSE k + 1]
      BY <1>2, <1>5
    <3>2. (IF j < i THEN j ELSE j + 1) = (IF k < i THEN k ELSE k + 1)
      BY <1>4, <1>5, <3>1 DEF IInv, Sync, Line
    <3> QED BY <1>5, <1>3, <3>2
  <2>4. \A d \in Clients : pc'[d] \in {"opening", "waiting"}
          => \E j \in 1..Len(queue)' : queue'[j] = d
    <3> SUFFICES ASSUME NEW d \in Clients, pc'[d] \in {"opening", "waiting"}
                 PROVE  \E j \in 1..Len(queue)' : queue'[j] = d
      OBVIOUS
    <3>1. d # c
      BY <1>6
    <3>2. PICK k \in 1..Len(queue) : queue[k] = d
      BY <1>6, <3>1 DEF IInv, Sync, Line
    <3>3. k # i
      BY <1>2, <3>1, <3>2
    <3>4. CASE k < i
      <4>1. k \in 1..(Len(queue) - 1)
        BY <1>3, <3>4
      <4>2. queue'[k] = d
        BY <1>2, <3>2, <3>4, <4>1
      <4> QED BY <1>5, <4>1, <4>2
    <3>5. CASE k > i
      <4>1. k - 1 \in 1..(Len(queue) - 1) /\ ~(k - 1 < i) /\ (k - 1) + 1 = k
        BY <1>3, <3>5
      <4>2. queue'[k - 1] = d
        BY <1>2, <3>2, <4>1
      <4> QED BY <1>5, <4>1, <4>2
    <3> QED BY <1>3, <3>3, <3>4, <3>5
  <2> QED BY <2>2, <2>3, <2>4 DEF Line
<1>10. Lock'
  BY <1>1, <1>2, <1>3, <1>7 DEF IInv, Sync, Lock, OneHolder
<1>11. TypeOK'
  BY <1>1, <1>5, <1>6 DEF IInv, TypeOK
<1>12. Room'
  <2>1. RoomOf(c)' /\ \A d \in Clients : d # c => Woken(d) /\ left'[d] = left[d]
    BY <1>1, <1>6 DEF IInv, TypeOK, Room, RoomOf, Woken
  <2> QED BY <1>1, <2>1, OthersKeepRoom
<1> QED BY <1>8, <1>9, <1>10, <1>11, <1>12 DEF IInv, Sync

(* The file in /proc: the places of the programs with the device stay.     *)
LEMMA SeqKeeps ==
  ASSUME IInv, NEW r \in ProcReaders, SeqOpen(r) \/ SeqRead(r) \/ SeqGone(r)
  PROVE  IInv'
<1>1. /\ UNCHANGED <<driver, buf, sem, queue, todo, done, got, left, count>>
      /\ \E p \in {"open", "closed"} : pc' = [pc EXCEPT ![r] = p]
      /\ \E n \in Nat : pos' = [pos EXCEPT ![r] = n]
  <2>1. pc = [pc EXCEPT ![r] = pc[r]] /\ pos = [pos EXCEPT ![r] = pos[r]]
    BY DEF IInv, TypeOK
  <2>2. CASE SeqOpen(r)
    <3>1. /\ UNCHANGED <<driver, buf, sem, queue, pos, todo, done, got, left, count>>
          /\ pc' = [pc EXCEPT ![r] = "open"]
      BY <2>2 DEF SeqOpen, file
    <3>2. pos[r] \in Nat
      BY DEF IInv, TypeOK, Users
    <3>3. pos' = [pos EXCEPT ![r] = pos[r]]
      BY <2>1, <3>1
    <3> QED BY <3>1, <3>2, <3>3
  <2>3. CASE SeqRead(r)
    <3>1. CASE pos' = [pos EXCEPT ![r] = 1] /\ UNCHANGED pc
      BY <2>1, <2>3, <3>1 DEF SeqRead
    <3>2. CASE pos' = [pos EXCEPT ![r] = 0] /\ pc' = [pc EXCEPT ![r] = "closed"]
      BY <2>3, <3>2 DEF SeqRead
    <3> QED BY <2>3, <3>1, <3>2 DEF SeqRead
  <2>4. CASE SeqGone(r)
    BY <2>4 DEF SeqGone
  <2> QED BY <2>2, <2>3, <2>4
<1>2. /\ pc' \in [Users -> Places] /\ pos' \in [Users -> Nat]
      /\ \A d \in Clients : pc'[d] = pc[d] /\ pos'[d] = pos[d]
  BY <1>1, CharDeviceAssumption DEF IInv, TypeOK, Users, Places
<1>3. TypeOK'
  BY <1>1, <1>2 DEF IInv, TypeOK
<1>4. \A i \in 1..Len(queue) : queue[i] \in Clients
  BY DEF IInv, TypeOK
<1>5. Room' /\ Stages' /\ Line'
  BY <1>1, <1>2, <1>4 DEF IInv, Sync, Room, RoomOf, Stages, Line
<1>6. Lock'
  <2>1. \A d \in Clients : Holds(d)' <=> Holds(d)
    BY <1>1, <1>2 DEF Holds
  <2> QED BY <1>1, <2>1 DEF IInv, Sync, Lock, OneHolder
<1> QED BY <1>3, <1>5, <1>6 DEF IInv, Sync

-----------------------------------------------------------------------------
LEMMA Starts == Init => IInv
<1> SUFFICES ASSUME Init PROVE IInv
  OBVIOUS
<1>1. TypeOK
  BY CharDeviceAssumption DEF Init, TypeOK, Places
<1>2. Room
  BY CharDeviceAssumption DEF Init, Room, RoomOf, Users
<1>3. Stages /\ Line /\ Lock
  BY DEF Init, Stages, Line, Lock, OneHolder, Holds, Users
<1> QED BY <1>1, <1>2, <1>3 DEF IInv, Sync

LEMMA Steps == IInv /\ [Next]_vars => IInv'
<1> SUFFICES ASSUME IInv, [Next]_vars PROVE IInv'
  OBVIOUS
<1>1. CASE \E c \in Clients : Open(c) \/ OpenInterrupted(c) \/ Use(c) \/ Seek(c)
  BY <1>1, OpenKeeps, OpenInterruptedKeeps, CallKeeps, ClearKeeps, CopyByteKeeps,
     CopyEndsKeeps,
     SetCountKeeps, ReturnKeeps, CloseKeeps, SeekKeeps DEF Use, InCall
<1>2. CASE \E r \in ProcReaders : SeqOpen(r) \/ SeqRead(r) \/ SeqGone(r)
  BY <1>2, SeqKeeps
<1>3. CASE UNCHANGED vars
  BY <1>3 DEF vars, IInv, TypeOK, Room, RoomOf, Sync, Stages, Line, Lock, OneHolder, Holds
<1> QED BY <1>1, <1>2, <1>3 DEF Next

LEMMA Inductive == Spec => []IInv
BY Starts, Steps, PTL DEF Spec

(* Every variable of the drivers and their programs keeps its type.        *)
THEOREM DeviceTypeCorrect == Spec => []TypeOK
<1>1. IInv => TypeOK
  BY DEF IInv
<1> QED BY <1>1, Inductive, PTL

(* No transfer that begins inside the buffer reaches beyond its end, for   *)
(* every count that is asked for, although its bytes are counted before    *)
(* the semaphore is taken; and read() and write() begin none elsewhere.    *)
(* Of a pread() or pwrite() at an offset beyond the buffer nothing is      *)
(* said: the code does not cut it off.                                     *)
THEOREM TransfersStayInside == Spec => []CopiesStayInside
<1>1. IInv => CopiesStayInside
  <2> SUFFICES ASSUME IInv, NEW c \in Clients, pc[c] \in {"waiting", "clear", "copy"},
                      c \in Placers => pos[c] <= BufSize
               PROVE  pos[c] + todo[c] \in 0..BufSize
    BY DEF CopiesStayInside
  <2>1. pos[c] \in Nat /\ todo[c] \in Nat /\ BufSize \in Nat
    BY CharDeviceAssumption DEF IInv, TypeOK, Users
  <2>2. pos[c] + todo[c] <= BufSize
    BY DEF IInv, Room, RoomOf
  <2> QED BY <2>1, <2>2
<1> QED BY <1>1, Inductive, PTL

(* At most one program has the semaphore: the calls of the seq_file driver *)
(* exclude one another, and so do the open files of the exclusive one.     *)
THEOREM HoldersExclude == Spec => []OneHolder
<1>1. IInv => OneHolder
  BY DEF IInv, Sync, Lock
<1> QED BY <1>1, Inductive, PTL

(* While somebody waits somebody else has the semaphore, and the queue has *)
(* every waiting program once: an up() never misses a waiter.              *)
THEOREM NoWakeUpLost == Spec => []WaitersHaveHolder
<1>1. IInv => WaitersHaveHolder
  <2> SUFFICES ASSUME IInv PROVE WaitersHaveHolder
    OBVIOUS
  <2>1. queue # <<>> => sem = 0 /\ \E c \in Clients : Holds(c)
    BY DEF IInv, Sync, Lock
  <2>2. \A c \in Clients : pc[c] \in {"opening", "waiting"}
          <=> \E i \in 1..Len(queue) : queue[i] = c
    BY DEF IInv, Sync, Line
  <2> QED BY <2>1, <2>2 DEF WaitersHaveHolder, IInv, Sync, Line
<1> QED BY <1>1, Inductive, PTL

-----------------------------------------------------------------------------
(* Reads are whole: with the seq_file driver all bytes in the buffer are   *)
(* one writer's, and while a writer copies they are its own, because it    *)
(* has cleared the buffer; what a reader has so far is still there.        *)
Whole ==
  driver = "seq_file" =>
    /\ \A i, j \in Cells : buf[i] # None /\ buf[j] # None => buf[i] = buf[j]
    /\ \A c \in Writers : pc[c] = "copy" => \A i \in Cells : buf[i] \in {c, None}
    /\ \A r \in Readers :
         /\ \A x, y \in got[r] : x = y
         /\ pc[r] = "copy" => \A x \in got[r] : x # None /\ \E i \in Cells : buf[i] = x
         /\ pc[r] \notin {"copy", "return"} => got[r] = {}

(* Steps that leave the buffer and the bytes read alone, and begin or end  *)
(* no copy but a reader's.                                                 *)
LEMMA WholeStays ==
  ASSUME IInv, Whole, UNCHANGED <<driver, buf, got>>, driver = "seq_file",
         \A c \in Writers : pc'[c] = "copy" => pc[c] = "copy",
         \A r \in Readers : \/ pc'[r] = pc[r]
                            \/ pc[r] \notin {"copy", "return"} /\ pc'[r] # "return"
                            \/ pc[r] = "copy" /\ pc'[r] = "return"
  PROVE  Whole'
BY DEF Whole

LEMMA WholeStep ==
  ASSUME IInv, Whole, [Next]_vars, driver = "seq_file"
  PROVE  Whole'
<1> USE DEF Clients
<1>0. Readers \cap Writers = {} /\ None \notin Writers /\ ProcReaders \cap Clients = {}
  BY CharDeviceAssumption
<1>p. pc \in [Users -> Places] /\ Clients \subseteq Users /\ got \in [Readers -> SUBSET Writers]
  BY DEF IInv, TypeOK, Users
<1>1. CASE UNCHANGED vars
  BY <1>1, WholeStays DEF vars
<1>2. ASSUME NEW r \in ProcReaders, SeqOpen(r) \/ SeqRead(r) \/ SeqGone(r)
      PROVE  Whole'
  <2>1. UNCHANGED <<driver, buf, got>>
    BY <1>2 DEF SeqOpen, SeqRead, SeqGone, file
  <2>2. \A d \in Clients : pc'[d] = pc[d]
    BY <1>0, <1>2, <1>p DEF SeqOpen, SeqRead, SeqGone
  <2> QED BY <2>1, <2>2, WholeStays
<1>3. ASSUME NEW c \in Clients, Open(c) \/ Close(c)
      PROVE  Whole'
  <2>1. /\ UNCHANGED <<driver, buf, got>> /\ pc[c] \in {"closed", "finished"}
        /\ \E q \in {"open", "closed"} : pc' = [pc EXCEPT ![c] = q]
    BY <1>3 DEF Open, ScullOpen, Close, ScullRelease, DeviceOpen, DeviceClose, NewFile
  <2> QED BY <1>p, <2>1, WholeStays
<1>4. ASSUME NEW c \in Clients, OpenInterrupted(c)
      PROVE  Whole'
  BY <1>4 DEF OpenInterrupted, IInv, Sync, Stages
<1>5. ASSUME NEW c \in Clients, Call(c)
      PROVE  Whole'
  <2>1. /\ UNCHANGED <<driver, buf, got>> /\ pc[c] = "open"
        /\ \E q \in {"waiting", IF c \in Writers THEN "clear" ELSE "copy"} : pc' = [pc EXCEPT ![c] = q]
    BY <1>5 DEF Call, ScullCall, DeviceCall, Down
  <2> QED BY <1>0, <1>p, <2>1, WholeStays
<1>6. ASSUME NEW c \in Clients, Clear(c)
      PROVE  Whole'
  <2>1. /\ UNCHANGED <<driver, got>> /\ pc[c] = "clear" /\ pc' = [pc EXCEPT ![c] = "copy"]
        /\ buf' = [i \in Cells |-> None]
    BY <1>6 DEF Clear, file
  <2>2. c \in Writers /\ \A d \in Clients : d # c => pc[d] \notin {"clear", "copy"}
    BY <2>1 DEF IInv, Sync, Stages, Lock, OneHolder, Holds
  <2>3. \A r \in Readers : pc'[r] = pc[r] /\ pc[r] # "copy"
    BY <1>0, <1>p, <2>1, <2>2
  <2> QED BY <2>1, <2>3 DEF Whole
<1>7. ASSUME NEW c \in Clients, CopyByte(c)
      PROVE  Whole'
  <2>1. pc[c] = "copy" /\ UNCHANGED <<driver, pc>> /\ done[c] < todo[c]
    BY <1>7 DEF CopyByte
  <2>2. \A d \in Clients : d # c => pc[d] # "copy"
    BY <2>1 DEF IInv, Sync, Lock, OneHolder, Holds
  <2>3. pos[c] + done[c] \in Cells
    BY <1>7 DEF CopyByte
  <2>4. buf \in [Cells -> Writers \cup {None}]
    BY DEF IInv, TypeOK
  <2>5. CASE c \in Writers /\ buf' = [buf EXCEPT ![pos[c] + done[c]] = c] /\ UNCHANGED got
    <3>1. \A i \in Cells : buf'[i] \in {c, None}
      BY <2>1, <2>4, <2>5 DEF Whole
    <3>2. \A r \in Readers : pc[r] # "copy"
      BY <1>0, <2>2, <2>5
    <3>3. \A d \in Writers : pc[d] = "copy" => d = c
      BY <2>2
    <3> QED BY <2>1, <2>5, <3>1, <3>2, <3>3 DEF Whole
  <2>6. CASE /\ c \in Readers /\ UNCHANGED buf
             /\ got' = [got EXCEPT ![c] = (@ \cup {buf[pos[c] + done[c]]}) \ {None}]
    <3>1. /\ got'[c] = (got[c] \cup {buf[pos[c] + done[c]]}) \ {None}
          /\ \A r \in Readers : r # c => got'[r] = got[r]
      BY <1>p, <2>6
    <3>2. \A x \in got'[c] : x # None /\ \E i \in Cells : buf[i] = x
      BY <2>1, <2>3, <2>6, <3>1 DEF Whole
    <3>3. \A x, y \in got'[c] : x = y
      BY <3>2 DEF Whole
    <3> QED BY <2>1, <2>6, <3>1, <3>2, <3>3 DEF Whole
  <2> QED BY <1>7, <2>5, <2>6 DEF CopyByte
<1>8. ASSUME NEW c \in Clients, CopyEnds(c)
      PROVE  Whole'
  <2>1. pc[c] = "copy" /\ UNCHANGED <<driver, buf, got>> /\ Up(c, IF c \in Writers THEN "count" ELSE "return")
    BY <1>8 DEF CopyEnds, Copied, ScullEnds, DeviceEnds
  <2>2. Holds(c)
    BY <2>1 DEF Holds
  <2>3. pc'[c] = (IF c \in Writers THEN "count" ELSE "return") /\ \A d \in Clients : d # c => Woken(d)
    BY <2>1, <2>2, UpKeeps
  <2>4. \A d \in Writers : pc'[d] = "copy" => pc[d] = "copy"
    BY <2>3 DEF Woken
  <2>5. \A r \in Readers : r # c =>
          \/ pc'[r] = pc[r]
          \/ pc[r] \notin {"copy", "return"} /\ pc'[r] # "return"
    BY <2>3 DEF Woken
  <2> QED BY <1>0, <2>1, <2>3, <2>4, <2>5, WholeStays
<1>9. ASSUME NEW c \in Clients, SetCount(c)
      PROVE  Whole'
  <2>1. UNCHANGED <<driver, buf, got>> /\ pc[c] = "count" /\ pc' = [pc EXCEPT ![c] = "return"]
    BY <1>9 DEF SetCount, file
  <2>2. c \in Readers => got[c] = {}
    BY <2>1 DEF Whole
  <2>3. \A d \in Clients : d # c => pc'[d] = pc[d]
    BY <1>p, <2>1
  <2> QED BY <1>p, <2>1, <2>2, <2>3 DEF Whole
<1>10. ASSUME NEW c \in Clients, Return(c)
       PROVE  Whole'
  <2>1. /\ UNCHANGED <<driver, buf>> /\ pc[c] = "return"
        /\ \E q \in {"open", "finished"} : pc' = [pc EXCEPT ![c] = q]
        /\ got' = [r \in Readers |-> IF r = c THEN {} ELSE got[r]]
    BY <1>10 DEF Return
  <2>2. pc'[c] # "copy" /\ \A d \in Clients : d # c => pc'[d] = pc[d]
    BY <1>p, <2>1
  <2> QED BY <1>p, <2>1, <2>2 DEF Whole
<1>11. ASSUME NEW c \in Clients, Seek(c)
       PROVE  Whole'
  BY <1>11 DEF Seek
<1> QED BY <1>1, <1>2, <1>3, <1>4, <1>5, <1>6, <1>7, <1>8, <1>9, <1>10, <1>11
   DEF Next, Use, InCall

(* What one read returns was put there by one writer, for any number of    *)
(* readers and writers.                                                    *)
THEOREM ReadsAreWholeHolds == Spec => []ReadsAreWhole
<1>1. Init => Whole
  BY DEF Init, Whole
<1>2. IInv /\ Whole /\ [Next]_vars => Whole'
  <2>1. CASE driver = "seq_file"
    BY <2>1, WholeStep
  <2>2. ASSUME driver # "seq_file", [Next]_vars
        PROVE  driver' = driver
    BY <2>2 DEF Next, vars, Use, InCall, Open, OpenInterrupted, NewFile, Call, Clear,
       CopyByte, CopyEnds, SetCount, Return, Close, Seek, SeqOpen, SeqRead, SeqGone
  <2> QED BY <2>1, <2>2 DEF Whole
<1>3. IInv /\ Whole => ReadsAreWhole
  <2> SUFFICES ASSUME IInv, Whole, driver = "seq_file", NEW r \in Readers
               PROVE  Cardinality(got[r]) <= 1
    BY DEF ReadsAreWhole
  <2>1. \A x, y \in got[r] : x = y
    BY DEF Whole
  <2>2. CASE got[r] = {}
    BY <2>2, FS_EmptySet
  <2>3. CASE got[r] # {}
    <3>1. PICK x \in got[r] : TRUE
      BY <2>3
    <3>2. got[r] = {x}
      BY <2>1, <3>1
    <3>3. Cardinality({x}) = 1
      BY FS_Singleton
    <3> QED BY <3>2, <3>3
  <2> QED BY <2>2, <2>3
<1> QED BY <1>1, <1>2, <1>3, Inductive, PTL DEF Spec

-----------------------------------------------------------------------------
(* The drivers with their load and unload.                                 *)

(* Every step is one of CharDevice, or leaves its variables alone.         *)
LEMMA LoadStepMaps == [LoadNext]_allVars => [Next]_vars
<1> SUFFICES ASSUME [LoadNext]_allVars PROVE [Next]_vars
  OBVIOUS
<1>1. CASE Load \/ Unload
  BY <1>1 DEF Load, Unload, Insmod, LoadStep, SetupFails, InitFails, ProcFails,
     InsmodReturns, MakeNodes, Rmmod, LeaveStep, RmmodReturns
<1>2. CASE \E c \in Clients : OpenNode(c) \/ UseNode(c)
  BY <1>2 DEF OpenNode, UseNode, Next
<1>3. CASE \E r \in ProcReaders : OpenProc(r) \/ ProcStep(r)
  BY <1>3 DEF OpenProc, ProcStep, ReadProc, ReadProcFails, Next
<1>4. CASE UNCHANGED allVars
  BY <1>4 DEF allVars
<1> QED BY <1>1, <1>2, <1>3, <1>4 DEF LoadNext

(* The drivers with their load and unload implement CharDevice: every      *)
(* theorem about its Spec is one about LoadSpec.                           *)
THEOREM LoadImplementsDevice == LoadSpec => Spec
<1>1. LoadInit => Init
  BY DEF LoadInit
<1> QED BY <1>1, LoadStepMaps, PTL DEF LoadSpec, Spec

-----------------------------------------------------------------------------
Ready == phase = "loaded" /\ {"region", "device", "sema"} \subseteq held

AllClosed == \A c \in Clients : pc[c] = "closed"

(* What the load has made when it is under way, and when it is over: who   *)
(* finds a major number finds a device and a semaphore.                    *)
Made ==
  /\ step \in Nat
  /\ phase = "out" => held = {} /\ step = 0
  /\ phase = "loading" => /\ step = 0 => held = {}
                          /\ step >= 2 /\ "region" \in held => "device" \in held
                          /\ step >= 3 => "sema" \in held
  /\ phase = "loaded" => "sema" \in held /\ ("region" \in held => "device" \in held)

LInv == /\ module \in {"seq_file_interface", "proc_read", "online"}
        /\ Made /\ (nodes => Ready) /\ (AllClosed \/ Ready)

LEMMA LoadStarts == LoadInit => LInv
BY DEF LoadInit, LInv, Made, AllClosed, Init, Users, Ready

(* Loading and unloading: no program moves.                                *)
LEMMA LoadKeeps ==
  ASSUME LInv, Load
  PROVE  LInv'
<1> USE DEF LInv, Made, Ready, AllClosed
<1>1. CASE Insmod
  BY <1>1 DEF Insmod, vars
<1>2. CASE LoadStep
  BY <1>2 DEF LoadStep, NextIs, LoadSteps, StepSet, vars
<1>3. CASE SetupFails
  BY <1>3 DEF SetupFails, NextIs, LoadSteps, ExitSteps, StepSet, vars
<1>4. CASE InitFails
  BY <1>4 DEF InitFails, NextIs, vars
<1>5. CASE ProcFails
  BY <1>5 DEF ProcFails, NextIs, LoadSteps, vars
<1>6. CASE InsmodReturns
  BY <1>6 DEF InsmodReturns, LoadSteps, vars
<1>7. CASE MakeNodes
  BY <1>7 DEF MakeNodes, vars
<1> QED BY <1>1, <1>2, <1>3, <1>4, <1>5, <1>6, <1>7 DEF Load

LEMMA UnloadKeeps ==
  ASSUME LInv, Unload
  PROVE  LInv'
<1> USE DEF LInv, Made, Ready, AllClosed
<1>1. CASE Rmmod
  BY <1>1 DEF Rmmod, vars
<1>2. CASE LeaveStep
  BY <1>2 DEF LeaveStep, vars
<1>3. CASE RmmodReturns
  BY <1>3 DEF RmmodReturns, vars
<1> QED BY <1>1, <1>2, <1>3 DEF Unload

(* Programs with the device: who has nothing open only opens.              *)
LEMMA ClientKeeps ==
  ASSUME LInv, NEW c \in Clients, OpenNode(c) \/ UseNode(c)
  PROVE  LInv'
<1>1. UNCHANGED <<module, phase, step, held, nodes>>
  BY DEF OpenNode, UseNode, lifeVars
<1>2. Ready
  <2>1. CASE OpenNode(c)
    BY <2>1 DEF OpenNode, LInv
  <2>2. CASE UseNode(c)
    <3>1. pc[c] # "closed"
      BY <2>2 DEF UseNode, OpenInterrupted, Use, InCall, Call, Clear, CopyByte, CopyEnds,
         Copied, SetCount, Return, Close, Seek
    <3> QED BY <3>1 DEF LInv, AllClosed
  <2> QED BY <2>1, <2>2
<1> QED BY <1>1, <1>2 DEF LInv, Made, Ready

(* Programs that read the file in /proc have no device open.               *)
LEMMA ProcKeeps ==
  ASSUME IInv, LInv, NEW r \in ProcReaders, OpenProc(r) \/ ProcStep(r)
  PROVE  LInv'
<1>1. UNCHANGED <<module, phase, step, held, nodes>>
  BY DEF OpenProc, ProcStep, ReadProc, ReadProcFails, lifeVars
<1>2. \A c \in Clients : pc'[c] = pc[c]
  <2>1. pc \in [Users -> Places] /\ r \notin Clients /\ Clients \subseteq Users
    BY CharDeviceAssumption DEF IInv, TypeOK, Users
  <2> QED BY <2>1 DEF OpenProc, ProcStep, ReadProc, ReadProcFails, SeqOpen, SeqRead, SeqGone
<1> QED BY <1>1, <1>2 DEF LInv, Made, Ready, AllClosed

LEMMA LifeStep == IInv /\ LInv /\ [LoadNext]_allVars => LInv'
<1> SUFFICES ASSUME IInv, LInv, [LoadNext]_allVars PROVE LInv'
  OBVIOUS
<1>1. CASE UNCHANGED allVars
  BY <1>1 DEF allVars, lifeVars, vars, LInv, Made, Ready, AllClosed
<1> QED BY <1>1, LoadKeeps, UnloadKeeps, ClientKeeps, ProcKeeps DEF LoadNext

LEMMA DeviceInductive == LoadSpec => []IInv
BY LoadImplementsDevice, Inductive, PTL

(* Whoever waits in open(), or has the device open, finds device numbers,  *)
(* device and an initialised semaphore, whichever steps of the load had    *)
(* failed and whenever somebody tries to unload the driver.                *)
THEOREM OpenNeedsDriverHolds == LoadSpec => []OpenNeedsDriver
<1>1. LInv => OpenNeedsDriver
  BY DEF LInv, Ready, AllClosed, OpenNeedsDriver
<1> QED BY <1>1, LoadStarts, LifeStep, DeviceInductive, PTL DEF LoadSpec

-----------------------------------------------------------------------------
(* What is left of a driver: its exit function has released what its steps *)
(* so far name, and the exclusive driver fails only before it has more     *)
(* than its device numbers.                                                *)
Traces ==
  /\ held \subseteq StepSet(LoadSteps(module))
  /\ phase \in {"out", "loading", "loaded", "leaving", "gone"}
  /\ module = "online" /\ phase # "gone" => ~failed
  /\ phase = "loading" /\ step <= 1 => held \subseteq {"region"}
  /\ phase = "loaded" => step = 0
  /\ phase = "leaving" => /\ step \in 0..Len(ExitSteps(module))
                          /\ \A i \in 1..step : ExitSteps(module)[i] \notin held
  /\ LeavesOnlyKnown

LEMMA LoadTraces ==
  ASSUME LInv, Traces, Load
  PROVE  Traces'
<1> USE DEF LInv, Made, Traces, LoadSteps, StepSet
<1>1. CASE Insmod
  BY <1>1 DEF Insmod, LeavesOnlyKnown
<1>2. CASE LoadStep
  BY <1>2 DEF LoadStep, NextIs, LeavesOnlyKnown
<1>3. CASE SetupFails
  BY <1>3 DEF SetupFails, NextIs, LeavesOnlyKnown
<1>4. CASE InitFails
  <2>1. step <= 1
    BY <1>4 DEF InitFails, NextIs
  <2> QED BY <1>4, <2>1 DEF InitFails, NextIs, LeavesOnlyKnown
<1>5. CASE ProcFails
  BY <1>5 DEF ProcFails, NextIs, LeavesOnlyKnown
<1>6. CASE InsmodReturns
  BY <1>6 DEF InsmodReturns, LeavesOnlyKnown
<1>7. CASE MakeNodes
  BY <1>7 DEF MakeNodes, LeavesOnlyKnown
<1> QED BY <1>1, <1>2, <1>3, <1>4, <1>5, <1>6, <1>7 DEF Load

LEMMA UnloadTraces ==
  ASSUME LInv, Traces, Unload
  PROVE  Traces'
<1> USE DEF LInv, Made, Traces
<1>1. CASE Rmmod
  BY <1>1 DEF Rmmod, LeavesOnlyKnown, ExitSteps
<1>2. CASE LeaveStep
  <2>1. /\ held' = held \ {ExitSteps(module)[step + 1]} /\ step' = step + 1
        /\ phase = "leaving" /\ step < Len(ExitSteps(module))
        /\ UNCHANGED <<module, phase, failed>>
    BY <1>2 DEF LeaveStep
  <2>2. Len(ExitSteps(module)) \in Nat
    BY DEF ExitSteps
  <2>3. step' \in 0..Len(ExitSteps(module)) /\ \A i \in 1..step' : ExitSteps(module)[i] \notin held'
    BY <2>1, <2>2
  <2> QED BY <2>1, <2>3 DEF LeavesOnlyKnown
<1>3. CASE RmmodReturns
  <2>1. phase = "leaving" /\ phase' = "gone" /\ UNCHANGED <<module, held, failed>>
    BY <1>3 DEF RmmodReturns
  <2>2. \A i \in 1..Len(ExitSteps(module)) : ExitSteps(module)[i] \notin held
    BY <1>3 DEF RmmodReturns
  <2>3. held \subseteq {"region", "device", "sema", "proc", "node"}
    BY DEF LoadSteps, StepSet
  <2>4. CASE module = "seq_file_interface"
    <3>1. "node" \notin held /\ "region" \notin held /\ "device" \notin held /\ "proc" \notin held
      BY <2>2, <2>4 DEF ExitSteps
    <3> QED BY <2>1, <2>3, <2>4, <3>1 DEF LeavesOnlyKnown
  <2>5. CASE module = "proc_read"
    <3>1. "region" \notin held /\ "device" \notin held
      BY <2>2, <2>5 DEF ExitSteps
    <3>2. "node" \notin held
      BY <2>5 DEF LoadSteps, StepSet
    <3> QED BY <2>1, <2>3, <2>5, <3>1, <3>2 DEF LeavesOnlyKnown
  <2>6. CASE module = "online"
    <3>1. "region" \notin held /\ "device" \notin held
      BY <2>2, <2>6 DEF ExitSteps
    <3>2. "node" \notin held /\ "proc" \notin held
      BY <2>6 DEF LoadSteps, StepSet
    <3> QED BY <2>1, <2>3, <2>6, <3>1, <3>2 DEF LeavesOnlyKnown
  <2> QED BY <2>4, <2>5, <2>6
<1> QED BY <1>1, <1>2, <1>3 DEF Unload

LEMMA TracesStart == LoadInit => Traces
BY DEF LoadInit, Traces, LeavesOnlyKnown

LEMMA TracesStep == LInv /\ Traces /\ [LoadNext]_allVars => Traces'
<1> SUFFICES ASSUME LInv, Traces, [LoadNext]_allVars PROVE Traces'
  OBVIOUS
<1>1. CASE UNCHANGED lifeVars
  BY <1>1 DEF lifeVars, Traces, LeavesOnlyKnown
<1>2. CASE UNCHANGED allVars
  BY <1>1, <1>2 DEF allVars
<1>3. CASE \E c \in Clients : OpenNode(c) \/ UseNode(c)
  BY <1>1, <1>3 DEF OpenNode, UseNode
<1>4. CASE \E r \in ProcReaders : OpenProc(r) \/ ProcStep(r)
  BY <1>1, <1>4 DEF OpenProc, ProcStep, ReadProc, ReadProcFails
<1> QED BY <1>2, <1>3, <1>4, LoadTraces, UnloadTraces DEF LoadNext

(* Of an unloaded driver nothing stays in the kernel but the file of       *)
(* proc_read and the device numbers of an exclusive driver that failed.    *)
THEOREM LeavesOnlyKnownHolds == LoadSpec => []LeavesOnlyKnown
<1>1. Traces => LeavesOnlyKnown
  BY DEF Traces
<1> QED BY <1>1, LoadStarts, LifeStep, TracesStart, TracesStep, DeviceInductive, PTL
   DEF LoadSpec

-----------------------------------------------------------------------------
(* The list has its node from the last step of the load to the first of    *)
(* the unload, and only that driver's file is ever opened.                 *)
NodeListed ==
  /\ shown \in [ProcReaders -> {"nothing", "node", "rubbish"}]
  /\ module = "seq_file_interface" =>
       /\ phase = "loading" /\ step = 5 => "node" \in held
       /\ phase = "loaded" => "node" \in held
  /\ module # "seq_file_interface" => \A r \in ProcReaders : pc[r] = "closed"

LEMMA ClientsKeepReaders ==
  ASSUME IInv, NEW c \in Clients, OpenNode(c) \/ UseNode(c), NEW r \in ProcReaders
  PROVE  pc'[r] = pc[r]
<1>1. pc \in [Users -> Places] /\ queue \in Seq(Clients)
  BY DEF IInv, TypeOK
<1>2. r # c /\ r \in Users /\ (queue # <<>> => Head(queue) # r)
  <2>1. r \notin Clients
    BY CharDeviceAssumption
  <2>2. queue # <<>> => Head(queue) \in Clients
    BY <1>1
  <2> QED BY <2>1, <2>2 DEF Users
<1>3. ASSUME NEW p, Up(c, p) PROVE pc'[r] = pc[r]
  BY <1>1, <1>2, <1>3 DEF Up
<1>4. ASSUME NEW p, NEW q, Down(c, p, q) PROVE pc'[r] = pc[r]
  BY <1>1, <1>2, <1>4 DEF Down
<1> QED BY <1>1, <1>2, <1>3, <1>4 DEF OpenNode, UseNode, Open, ScullOpen, DeviceOpen,
       OpenInterrupted, Use, InCall, Call, ScullCall, DeviceCall, Clear, CopyByte,
       CopyEnds, ScullEnds, DeviceEnds, SetCount, Return, Close, ScullRelease, DeviceClose,
       Seek

LEMMA ListedStart == LoadInit => NodeListed
<1> SUFFICES ASSUME LoadInit PROVE NodeListed
  OBVIOUS
<1>1. phase = "out" /\ \A r \in ProcReaders : pc[r] = "closed"
  BY DEF LoadInit, Init, Users
<1>2. shown \in [ProcReaders -> {"nothing", "node", "rubbish"}]
  BY DEF LoadInit
<1> QED BY <1>1, <1>2 DEF NodeListed

LEMMA ListedStep == IInv /\ LInv /\ NodeListed /\ [LoadNext]_allVars => NodeListed'
<1> SUFFICES ASSUME IInv, LInv, NodeListed, [LoadNext]_allVars PROVE NodeListed'
  OBVIOUS
<1>1. CASE Load \/ Unload
  <2>1. UNCHANGED <<pc, module, shown>>
    BY <1>1 DEF Load, Unload, Insmod, LoadStep, SetupFails, InitFails, ProcFails,
       InsmodReturns, MakeNodes, Rmmod, LeaveStep, RmmodReturns, vars
  <2>2. CASE module = "seq_file_interface"
    <3>1. LoadSteps(module) = <<"region", "device", "sema", "proc", "node">>
      BY <2>2 DEF LoadSteps
    <3>2. CASE LoadStep
      BY <2>1, <2>2, <3>1, <3>2 DEF LoadStep, NextIs, StepSet, NodeListed, LInv, Made
    <3>3. CASE SetupFails
      BY <2>1, <2>2, <3>1, <3>3 DEF SetupFails, NextIs, NodeListed, LInv, Made
    <3>4. CASE ProcFails
      BY <2>1, <2>2, <3>1, <3>4 DEF ProcFails, NextIs, NodeListed, LInv, Made
    <3>5. CASE InsmodReturns
      BY <2>1, <2>2, <3>1, <3>5 DEF InsmodReturns, NodeListed
    <3> QED BY <1>1, <2>1, <2>2, <3>2, <3>3, <3>4, <3>5 DEF Load, Unload, Insmod,
       InitFails, MakeNodes, Rmmod, LeaveStep, RmmodReturns, NodeListed, LInv, Made
  <2> QED BY <2>1, <2>2 DEF NodeListed
<1>2. CASE \E c \in Clients : OpenNode(c) \/ UseNode(c)
  <2>1. UNCHANGED <<lifeVars, shown>>
    BY <1>2 DEF OpenNode, UseNode
  <2> QED BY <1>2, <2>1, ClientsKeepReaders DEF lifeVars, NodeListed
<1>3. CASE \E r \in ProcReaders : OpenProc(r) \/ ProcStep(r)
  <2>1. UNCHANGED lifeVars
    BY <1>3 DEF OpenProc, ProcStep, ReadProc, ReadProcFails
  <2>2. module = "seq_file_interface"
    BY <1>3 DEF OpenProc, ProcStep, ReadProc, ReadProcFails, SeqRead, SeqGone, NodeListed
  <2>3. shown' \in [ProcReaders -> {"nothing", "node", "rubbish"}]
    BY <1>3 DEF OpenProc, ProcStep, ReadProc, ReadProcFails, NodeListed
  <2> QED BY <2>1, <2>2, <2>3 DEF lifeVars, NodeListed
<1>4. CASE UNCHANGED allVars
  BY <1>4 DEF allVars, lifeVars, vars, NodeListed
<1> QED BY <1>1, <1>2, <1>3, <1>4 DEF LoadNext

(* While the driver is loaded, a read of its file in /proc never shows     *)
(* anything but the node of the list.                                      *)
THEOREM ProcShowsNodeHolds == LoadSpec => ProcShowsNode
<1> DEFINE Shows == phase = "loaded" =>
             \A r \in ProcReaders : shown'[r] = "rubbish" => shown[r] = "rubbish"
<1>1. NodeListed /\ [LoadNext]_allVars => [Shows]_allVars
  <2> SUFFICES ASSUME NodeListed, LoadNext, phase = "loaded", NEW r \in ProcReaders,
                      shown'[r] = "rubbish", shown[r] # "rubbish"
               PROVE  FALSE
    OBVIOUS
  <2>1. CASE UNCHANGED shown
    BY <2>1
  <2>2. ~Load /\ ~Unload /\ \A c \in Clients : ~OpenNode(c) /\ ~UseNode(c)
    BY <2>1 DEF Load, Unload, Insmod, LoadStep, SetupFails, InitFails, ProcFails,
       InsmodReturns, MakeNodes, Rmmod, LeaveStep, RmmodReturns, OpenNode, UseNode
  <2>3. PICK q \in ProcReaders : ReadProc(q) \/ ReadProcFails(q)
    BY <2>1, <2>2 DEF LoadNext, OpenProc, ProcStep
  <2>4. module = "seq_file_interface"
    BY <2>3 DEF ReadProc, ReadProcFails, SeqRead, SeqGone, NodeListed
  <2>5. shown'[q] \in {"nothing", "node"} /\ \A p \in ProcReaders : p # q => shown'[p] = shown[p]
    BY <2>3, <2>4 DEF ReadProc, ReadProcFails, NodeListed
  <2> QED BY <2>5
<1> QED BY <1>1, LoadStarts, LifeStep, ListedStart, ListedStep, DeviceInductive, PTL
        DEF LoadSpec, ProcShowsNode
=============================================================================
