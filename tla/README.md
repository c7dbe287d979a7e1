# A TLA+ verification project for BAsic-Linux-OS-programs

The repository is a collection of small Linux programs. One of them, the sensor
based door bell of `src/linux_task/door_bell_system_sw_design`, is an embedded
system with several threads, pipes, a message queue and timers; the others are
exercises about one mechanism each: character drivers, System V semaphores and
shared memory, sockets, condition variables, timers. This directory keeps, per
program, TLA+ modules that model it, TLC configurations that check them, and
proofs for TLAPS.

## 1. Inventory

### 1.1 The door bell (modelled)

| part | state it keeps | operations | talks to |
|---|---|---|---|
| `main()` (door_bell.c 123-248) | pipe descriptors, queue id, timer ids, `thread_list[]`, `g_*Thread_running` | make three pipes, remove and make the queue, create four threads, set their flags, create three timers, then `check_thread_dead()` once a second | all |
| motion thread (256-341) | the last reading | read `pipe_t1`; poll the sensor file every 2 s until it reports motion or a failure | queue |
| distance thread (349-427) | | read `pipe_t2`; one reading, judged against 4..8 | queue |
| door bell thread (435-518) | bell timer | read `pipe_t3`; start the bell's timer, later report that it has run out | queue, timer |
| monitor thread (526-730) | the event being handled | read the queue, write to the pipes, look at the door, start timers, reboot | pipes, timers |
| timers (door_timer.h) | three one-shot POSIX timers, `SIGEV_THREAD` | create, start, stop, delete | handlers |
| expiry handlers (738-825) | `door_wait_expiry_count` | stop the timer, count, post an event | pipe, queue |
| helpers (door_bell_func.c) | | `get_value`, `post_event`, `post_messageToQ`, `read_event`, `get_messageFromQ`, `process_reboot`, `shutdown` | kernel |

There are no locks. What is hard: eight flows of control (main, four threads,
three handlers) share the timers, the retry count and the channels; blocking
writes and reads; a reboot (`execl`) that cancels threads wherever they are; a
queue that outlives the process; sensor files, `ps`, `execl` and `pthread_create`
that fail; a descriptor leak. What makes it correct: only one of the flows is
ever active; every event reaches a thread that knows it; a visit moves through
its phases in order, ends, and is never silently lost; the bell is rung a bounded
number of times; a reboot interrupts nobody and leads back to the scan.

### 1.2 The other programs

| program | state | operations | what is hard | what makes it correct | |
|---|---|---|---|---|---|
| `driver/seq_file_interface`, `driver/proc_read_char_driver`, `driver/char_driver` | one 1 KiB buffer, a semaphore, a position per open file; the first one also the "byte Count" line of a `/proc` file | open, read, write, `/proc` read, load, unload | calls of several programs interleave; the bytes are counted before the wait for the semaphore and used after it; the count is written outside it; every write clears the whole buffer; a load goes on after a failed step | a read returns bytes of one writer; transfers that begin in the buffer stay in it; no wake-up is lost; the count describes the buffer when nobody writes; nobody has a device open that is not whole | modelled |
| `driver/online_char_driver` (= `online_sample/online_driver.c`) | buffer, a semaphore taken for as long as the device is open | open, read, write, lseek, close, load, unload | a signal may end the wait in open; offsets of any sign; the device is there before its semaphore | one user at a time; the position is clamped; everybody is served | modelled |
| `ipc_mechanisms/cpp_linux_code` (= `linux_task/shared_mem_process_sema_thread_mutex`) | three counters in shared memory, a System V semaphore with `SEM_UNDO`, a mutex per process | fork, lock, create and join threads, count, unlock, wait, destroy | two processes with two threads; any of them may fail or be killed | changes exclude each other; the values end as they began; the semaphore is never lost; `main()` is last | modelled |
| `ipc_mechanisms/semaphore` (two programs) | the same, without threads | begin, assign, lock, count, unlock | started by hand in any order; what an earlier session left | as above; the value is not assigned under a user | modelled |
| `other/semaphore.c`, `other/sharedMem.c`, `ipc_mechanisms/mutex`, `thread/thread_mutex.c`, `linux_task/race_condition_thread`, `thread_mutex_lock_avoid_race_condition`, `shared_memory_process` | a few counters, and a semaphore without `SEM_UNDO`, a mutex, or nothing | create or fork, lock, count, unlock, wait, print, remove the segment | a process killed between lock and unlock; changes that are lost; a segment removed by the other process | with a lock nothing is lost; without one no more than the rounds done; a printed result is final; all ends but where a lock's owner was killed | modelled |
| `socket/*` (five servers and their clients) | a listening socket, descriptors, the last message read; in `multi_client_rec` a thread for each client and a pipe | connect, send, accept, read, print, post, close | the accept loop hands a pointer to its own variable to the thread it starts; the end of a connection is not noticed | what is sent is printed in order and once; a silent client holds up nobody; every client has its own thread | modelled |
| `linux_task/two_thread_synchronization`, `three_thread_synchronization`, `thread_synchronization_using-semaphore` | mutex and condition variables, or a ring of semaphores | signal, wait, print, leave | lost and spurious wake-ups, the last signal | the threads alternate and all of them end | modelled |
| `software_timer`, `process_rebooting` | a periodic timer; two idle threads and `execl` | start, expire, exec | | the door bell's timers and reboot are their grown versions | not modelled |
| `driver/online_sample/online_char.c` | how often it is open, under a mutex | open, release | | read and write do nothing | not modelled |
| FIFO, queue, pipe, thread, signal, fork, dlopen demonstrations | none worth a model | one system call each | | | not modelled |

PROJECT.json lists all of them, the copies and the generated files included.

## 2. Plan

Modules are written to be proved about: parameters are CONSTANTS with named
assumptions, one action per operation, invariants made of named parts, no
RECURSIVE operators.

1. **Door bell** (done): `DoorBell` (the program), `VisitCycle` (what it promises),
   `DoorBellCycle` (refinement and liveness), `DoorBellClaims` (what its comments
   say), `DoorBellProofs`, `DoorBellEvents`, `DoorBellCycleProofs` (theorems, each building on
   the one before).
2. **Drivers** (done): `CharDevice` (the loaded drivers and their programs);
   `DriverModule` (load, nodes, use, unload), which extends it; `DriverProofs` (theorems of both).
3. **Shared values** (done): `SharedCounters` and `SharedCountersProofs`; `SharedLoops` (the smaller
   programs) and `SharedLoopsProofs`.
4. **Turns and sockets** (done): `Turns` and `TurnsProofs`; `Servers` and `ServersProofs`.
5. **Proofs**: every invariant, every action property and the refinement that the passing runs check has its
   theorem. What is left to TLC is liveness (end of section 8). Open: that the claims of section 7 fail is shown by TLC's
   counterexamples and not refuted by a proof.

## 3. The modules of the door bell

### DoorBell

One variable per piece of state that outlives a call:

- `thread[t]` says where thread `t` is: `sleep` (its first `sleep()`), `loop` (in
  `read()` or `msgrcv()`), `busy` (inside the `switch`, with `event[t]`), `sampled`
  (motion: between the reading and its judgement two seconds later), `reply` (about
  to post), `door`, `open`, `closed` (monitor: looking at the door, polling it,
  about to ask for a scan), `cancel`, `exec` (monitor: inside
  `process_reboot()`), `dead`.
- `inbox[t]` is the pipe (for the monitor, the queue) that `t` reads. A post to a
  full pipe or queue is disabled, which is how `write()` and `msgsnd()` block.
- `timer[tm]`, `handler[tm]`: a timer is not there, idle or armed; its handler is
  not running, about to stop the timer, or about to post.
- `count` is `door_wait_expiry_count`, which the code only ever compares with 3 and
  never resets; it saturates there (bound `MaxRetry`).
- `fds` counts open descriptors: the pipes of every image (nothing is
  close-on-exec) and the `ps_cmd.txt` of every round of `check_thread_dead()`.
- `main`, `running`, `up`, `queueOk`, `reading`: see the comments in the module.

One action per step that another thread can come between. A run of statements
without a blocking call or a shared access is one step; each post, each timer
call, each sensor reading is a step of its own. Sensor files are written by
somebody else, so every reading is chosen anew. `Faults` says which failures may
happen: a file cannot be read (the code exits), `execl` fails, the queue is removed
by a second instance, `main()` is slower than the threads' first `sleep()`,
`msgget`, `pthread_create` or `timer_create` fails, `ps` prints nothing.

Abstracted: durations (only their order: a handler is over before its timer runs
out again, and, without the fault `slowstart`, the start is over before the
threads wake), the text of messages, the format of the files, and in
`check_thread_dead()` the listing of `ps` (see finding 2: the code never looks at it).

`pthread_cancel()` is modelled as immediate: by `QuietReboot` every worker is then
waiting in `read()`, a cancellation point.

### VisitCycle, DoorBellCycle

`VisitCycle` is the promise: one phase (`scan`, `measure`, `ring`, ..., `rest`) and the
number of waits so far. `DoorBellCycle` maps the program to it: the phase is read off
the one event, running timer or running handler there is, the number is `count`.
`ImplementsCycle` says that every step of the program is a move of the cycle or
none. The liveness properties are stated over the same phases.

### DoorBellClaims

Adds the history variable `rings` (how often the bell rang since the last scan
began) and states what comments promise.

### DoorBellProofs, DoorBellEvents, DoorBellCycleProofs

The theorems, see section 8.

## 4. The modules of the drivers

### CharDevice

One variable, `driver`, says which driver is loaded: `"seq_file"` (the drivers that take
the semaphore in every read and write) or `"exclusive"` (the one that takes it from open
to close). The others are the state both have:

- `sem`, `queue`: the kernel's semaphore. `Down` takes it or joins the wait list, `Up` hands
  it to the first that waits; both are written after `<linux/semaphore.h>` as the code uses
  it and are marked external. A program that sleeps in `down_interruptible()` may be woken
  by a signal (`OpenInterrupted`), which takes it off the list; the other drivers call
  `down()` and are not interrupted.
- `buf` is `drv_buff`: of each byte, who wrote it, or `None` after a clear. `pos`, `todo`,
  `done`, `got`, `left` are the position of a file, the bytes counted for the call, those already
  copied, whose bytes they were, and what remains of a program's message; `count` is the "byte Count"
  line.
- `pc` says where a program is. The drivers' handlers are one step up to the semaphore
  (`ScullCall`, in which the bytes are counted, as the code does, before the wait), one step per
  byte copied, the clearing of the buffer, the end of the copy with the release of the
  semaphore, and the note of the count in the list behind the `/proc` file after it.

The programs are those of `user_process.c`: one opens the device, writes one message in as
many calls as it takes or reads until it gets nothing, or stops before, and closes. For the
exclusive driver a program may also move the position (`Seek`). A copy may be short (`Copied`): the drivers
subtract what `copy_to_user()` and `copy_from_user()` leave over and move the position on by the rest. A program that passes no
valid memory at all, and would call `write()` again for ever, is left out.

`Placers` are programs that use `pread()` and `pwrite()`, with an offset of their own for each call
(`Offsets`), as the kernel lets any program do with these devices, although none of the repository does. No driver limits this offset, and the test of the count does not
either: the rest of the buffer, `MAX_BUFF_SIZE - *offp`, is an `int`, negative beyond the buffer, and is compared with
a `size_t`, for which it is converted to a number larger than any count. `BytesTo` is that comparison: what begins inside the buffer is
cut off at its end, what begins beyond it is not cut off. What lies in memory behind the buffer is not modelled;
a transfer that is to go there (`Outside`) goes no further, and nothing is claimed of it.

The initial state is the one after a load of the module that succeeded; how it comes to it is
the next module.

### DriverModule

Extends `CharDevice` by the life of the driver: `module` is which of the drivers, `phase` how far
it is (`out`, `loading`, `loaded`, `leaving`, `gone`), `held` what the kernel has of it (device
numbers, device, semaphore, `/proc` file, list node). The init and exit functions are sequences of
steps (`LoadSteps`, `ExitSteps`), one action per step, since programs may come between. A step whose
result is checked may fail: `setup_char_module()` then calls `char_module_exit()` and goes on
(`SetupFails`), `chardev_init()` returns (`InitFails`). `load_driver.sh` makes the device nodes when it
finds a major number. `rmmod` is refused while a program has the device open, or waits in `open()`
(`.owner`); an open `/proc` file does not hold it, and reads of it that come between the steps
of load or unload see a list without its node: `shown` is what a program has read last. Of the two branches
on the kernel's version in the load of the seq_file driver the older one is modelled, the only one whose
fields exist.

Every step is one of `CharDevice` or leaves its variables alone, so that what is proved of
the loaded driver holds of its whole life (`LoadImplementsDevice`).

### DriverProofs

The theorems, see section 8.

## 5. The modules of the smaller programs

### SharedCounters

`program` chooses between the two families. A worker is a child of `semaphore_linux.cpp`
or one of the programs `sema_proc1`, `sema_proc2`; `pc[w]` is where its own thread is, `at[w][t]`
where its loop `t` is (`"inc"` counts up, `"dec"` down). `Load` and `Store` are separate
steps, as `var++` on shared memory is; the three counters of a program change together
between the same locks and are one variable, counted from the value the program stores
first. `adj` is the kernel's adjustment for `SEM_UNDO`: every `semop()` moves it the other
way, `SETVAL` clears it, the end of a process adds it to the semaphore (`Ends`, external).

`Faults`: a `fork()` or a `pthread_create()` fails, a worker is killed anywhere. `Left` is
what an earlier session of a pair may have left: neither program removes the semaphore.
`main()` itself is not killed.

### SharedCountersProofs

The theorems, see section 8.

### SharedLoops

`program` says which: `"semaphore"`, `"sharedMem"` (a parent and its child), `"mutex"`, `"race"`
(threads), `"processes"` (two programs). A loop makes its rounds through `top`, `load`, `store` and, where
there is a lock, `unlock`; the two or three variables of a program are always changed together and
are one. `ups` and `downs` count the stores made so far in each direction, for the properties. A parent or a child may
be killed anywhere; without `SEM_UNDO` the semaphore it has becomes `Lost`. The two programs of
`shared_memory_process` get the segment of their key or make one (`Get`), attach it (`Attach`), which fails when the
other has removed it and gone (`AttachFails`), and remove it in the end (`Remove`, `Detach`); `seg`, `key` and `made` keep the segments apart.

### SharedLoopsProofs

The theorems, see section 8.

### Turns

`pc[t]` says where thread `t` is in its loop: `print`, `signal`, `wait` under the mutex, `waiting` on
a condition, `relock` after a wake-up, `unlock`; with semaphores only `top`, `print`, `signal`.
`pthread_cond_signal()` (`Signalled`) moves one waiting thread, or nobody. Two choices are made at the start: `slow`, a
thread may not get to its first wait within the `usleep(100)` after its creation; `restless`, a wait may end
without a signal, as POSIX allows.

### TurnsProofs

The theorems, see section 8.

### Servers

The clients connect, send, send "end", close, or are killed; a message is its sender and its number,
`ends` are those that are "end". `pending` is the backlog of the socket, `file` the server's
descriptors, of which `accept()` takes the lowest that is free. `read()` is `Got` with `Takes`: the next message
of the connection, or, at its end and on a descriptor that is closed, nothing: the buffer keeps what it held. `main`,
`fd` and `buffer` are `main()`'s place, `cl_soc_fd` and `soc_payload`; `thread`, `tfd`, `tbuffer` the same of each
`read_thread()`, which first copies `fd` (`CopyArgument`) and begins with whatever is on its stack. `shown` is the last
message of each client that was printed, `again` that one was printed twice. `trouble` chooses what goes wrong in a behaviour: a thread
that starts late (`quick`: `accept()` is quicker), calls that fail, or clients that are killed.

### ServersProofs

The theorems, see section 8.

## 6. Runs

| run | what it shows |
|---|---|
| `DoorBell_safety` | With every fault but the removal of the queue: `SingleToken`, `RestIsEarned`, `QuietReboot`, `AtMostThreeRings`, and the refinement `ImplementsCycle`. |
| `DoorBell_faults` | With every fault, `EventsUnderstood`. |
| `DoorBell_live` | Without faults and with doors that are open or closed: `NeverStalls`, and under fairness `VisitEnds`, `ValidDistanceRings`, `RingLooksAtDoor`, `FailureRestarts`, `BootScans`. |
| `DoorBell_rest`, `_deadthread` | Findings 1 and 2 of section 7. |
| `DriverModule_all` | All drivers, from `insmod` to `rmmod`, with a reader, two writers and a reader of the `/proc` file: `CopiesStayInside` (of transfers that begin inside the buffer), `WaitersHaveHolder`, `ReadsAreWhole`, `OneHolder`, `OpenNeedsDriver`, `LeavesOnlyKnown`, `ProcShowsNode`, and under fairness `ClientsEnd` (as long as no transfer is to go behind the buffer). |
| `CharDevice_count` | Finding 3. |
| `SharedCounters_all` | Both families, every fault, no semaphore left over: `Exclusive`, `ResultKept`, `FreeWhenUnused`, `PrintsLast`, and under fairness `MainEnds`. |
| `SharedLoops_all` | All five programs: `LosesNothing` where there is a lock or nobody else, `DriftBounded` everywhere, `PrintedIsFinal`, and under fairness `EndsUnlessOwnerKilled`. |
| `Turns_all` | All three programs with late and restless threads: `NotAllWait`; without those `TurnsInOrder` and, under fairness, `AllEnd`. |
| `Servers_all` | All servers and troubles: `InOrder`, and under fairness `Served`. |
| `Servers_threads` | Finding 4. |

`CHECK_DEADLOCK` is off in all of them: the programs end (in the door bell by `exit()` in
`get_value()`, in `shutdown()`, in `main()`), and without the fault-free assumptions a
visit may stall, which is the behaviour of the code.

**Bounds.** *Door bell*: motion values {0, 1}, distances {3, 4} and in the safety run
{3, 4, 8, 9} (both sides of both limits), door values {0, 1, 2} (open, closed, neither),
statuses {0, 1}: every branch on a reading is taken. Pipes and queue hold two
events, or one: since the token is single, more is never used.
`FdLimit` 10 to 16 instead of 1024 leaves room for two or three images' pipes and a few
rounds of the watch, and makes the exhaustion of descriptors happen. `count` stops at 3.
*Drivers*: a buffer of two cells; a call asks for one byte or for three, so that it ends
inside the buffer, at its end, or is cut off there; a message is at most as long as
the buffer, because `write()` returns 0 at its end and `user_process.c` would call it
again for ever; offsets up to 3 on either side reach beyond both ends. Two writers
and one reader are what a mixture needs; with the reader they also make a queue of two. One of the
writers uses `pwrite()`, at the last cell or beyond the buffer.
*Shared counters*: two rounds (a loop goes back to its top and ends), two workers, which is what
the programs have.
*Drivers' life*: one life of one driver, any of its checked steps failing.
*Shared loops*: two rounds, which is what a lost update needs; two threads up and one down (the programs have two and two,
or one and one): with a second one down the state space grows, not the kinds of meeting. *Turns*: three rounds: a first, one in the
middle, a last. *Servers*: two clients with two messages each and a pipe of one: the second connection meets a thread that
has not started, a descriptor is used again, the pipe is full. One kind of trouble a behaviour; one call fails.

**Fairness.** Weak fairness of each thread (the scheduler runs it), of each timer
with its handler (the kernel delivers it), and of the start of `main()`. No fairness is
asked of the sensors: motion may never come, the door may stay open for ever, which is
why `VisitEnds` accepts `open` and nothing is said about leaving `scan`. None is asked of
the watch loop either: it uses up descriptors, and its end is the process's.
In the drivers each program goes on (weak fairness of each), and the wait list is served in order;
no program need open the device, no signal need come, and nobody need load or unload a driver. In the shared counters and
loops each process and thread goes on; nobody need begin, and no fault need happen. A loop that
wants the lock needs only weak fairness, since the others' loops are finite; the same holds of the threads that take turns. In the servers
`main()` and the threads go on; a client sends when somebody types, and is asked for nothing, but the
client of `normal_socket`, which sends its argument by itself. `Served` is not claimed of `multi_client_rec` once a client was killed: its
thread then fills the pipe for ever, and whether the others get in between is up to the kernel.

`NeverStalls` and the liveness properties need the assumption of the run that a door
is open or closed: with a third value the `if` at door_bell.c:645 has no `else` and the
visit stalls (move `Stall` of `VisitCycle`).

## 7. Findings

1. `RestAfterThreeRings`: `door_wait_expiry_count` (door_bell.c:771) is never reset, so
   the ten minutes' rest that door_timer.h:11 announces "after 3 times ringing" follows
   the first ring of later visits.
2. `DeadThreadShutsDown`: `strstr()` (door_bell.c:871) has its arguments swapped; a dead
   thread is not noticed.
3. `CountDescribesBuffer`: `scull_write()` notes its count after it has released the
   semaphore (seq_file_interface_char_driver.c:422); of two writers the first may note last, and
   the `/proc` file that line 16 describes as the count of the bytes written tells the wrong one.
4. `EachItsThread`: `multi_client_rec/socket_server.c:101` gives each thread the address of one variable, which the next
   `accept()` overwrites: two threads may read one client and nobody the other, against line 109, "After Every connection we need to
   create thread and paassing argument as client_id".

Seen while modelling, described by the modules, without a run of their own: the working
status of the door sensor is read and ignored (door_bell.c:616, against the handling of the
other sensors); a failed `msgrcv()` is handled as MOTION_DETECTED (door_bell.c:551); the
flags of the threads are set after the threads are created (door_bell.c:182-217), so
that a late `main()` finds them gone; the success of the bell is never checked, which
the ReadMe asks for; the pipes stay open over `execl()`; `ps_cmd.txt` (door_bell.c:850) is opened every second and
never closed, until `fopen()` fails and the process exits; the test of `execl()` (door_bell_func.c:256) is for "not -1", so that
a failed reboot leaves a process without workers. In the drivers: a write of the
whole buffer is not counted (seq_file_interface_char_driver.c:422); a message written in two calls keeps only
the second part, since each write clears the buffer; after a failed step the load goes on with
what it has just released; the unload frees the list before it removes the `/proc` file that reads
it; `proc_read_char_driver.c` never removes its `/proc` entry; `online_char_driver.c` adds the device before it initialises the semaphore, and
keeps its device numbers when `cdev_add()` fails, so that an open through a node left over from an earlier load may meet a semaphore that is not
initialised; all drivers compare the rest of the buffer, an `int`, with a `size_t` (seq_file_interface_char_driver.c:352 and 386,
online_char_driver.c:48 and 69), so that a `pread()` or `pwrite()` beyond the buffer is not cut off and reaches memory behind
it. In the other programs: `sema_proc1.c:115` assigns the semaphore's
value on every start, so that in a second session both programs can be in their loops; `other/semaphore.c` takes its semaphore
without `SEM_UNDO`; `other/sharedMem.c` prints before it waits; the three threads' order rests on `usleep(100)`, and their waits
test no condition: with a late or a spuriously woken thread TLC finds the order lost and, for the ones with conditions, threads that
wait for ever; no socket server looks at the length `read()` returns, so that after a killed client the last message is
printed for ever, or, in `normal_socket`, the one of the client before once more.

## 8. Proofs

**Door bell.** All from `DoorBellAssumption` (sensor values and statuses are non-empty sets of
integers, capacities positive), for every value of the constants.

`DoorBellProofs`: `TypeCorrect == Spec => []TypeOK`. The typing of each helper (`Goto`,
`Post`, `PostToQ`, the timer calls, `Get`) is a lemma; one lemma per group of actions
cites them; `NextType` puts the groups together. `TypeOK` is inductive as it stands.

Its second part: `SingleTokenHolds` and `QuietRebootHolds`, for every `Faults` without
`"queue"`. The invariant is `TokenInv == TypeOK /\ StartOk /\ SingleToken`; `StartOk`
(no threads before they are launched, no timers while booting, a queue after that) is
what `SingleToken` lacks to be inductive: without it a thread or a timer could be there
before `main()` made it, or `msgrcv()` fail and invent an event. The argument is local:
`Only(I, W, A, H)` says where a token may be; from `SingleToken` and the guard of an
action it is known where it is before (`InboxAlone`, `ThreadAlone`, `TimerAlone`,
`HandlerAlone`), the effect of the action says where it is afterwards
(`FromThread`, `FromInbox`, `FromTimer`, `FromHandler`), and `AloneIsSingle` leads back.

`DoorBellEvents`: `EventsUnderstoodHolds` and `RestIsEarnedHolds`, for every `Faults`.
`EventInv` adds what a thread may be about to post (`Replies`) and what the motion
thread returns to after its sleep. `RestInv` adds that a booting program has no
threads and timers (an armed timer would otherwise meet the count of 0), and rests on
`EventInv`: nobody but `door_open_wait_expiry()` posts DOOR_WAIT_RETRY_END.

`DoorBellCycleProofs`: `CycleImplemented`, for every `Faults` without `"queue"`: every step of the program is a
move of `VisitCycle` or none. The invariant is `CycleInv == TokenInv /\ EventInv /\ TimersLate /\ MonitorEvent`.
The phase is defined by looking through all threads, channels and timers; `PhaseReads` says that it can be read off the one token,
wherever that is, and so each action is one of a few: the token goes from one place to another, and the lemma of that pair of
places names the move. `TimersLate` (no timer before `main()` makes them) is needed because a thread that wakes early
starts a timer that is not there; `MonitorEvent` says which event the monitor has in hand while it
waits for the door or reboots, which the phase after it depends on.

`AtMostThreeRingsHolds`, for every `Faults` without `"queue"`. `RingsInv` ties `rings` to `count` in each phase: in
one visit the bell has rung no more often than waits have been counted, and once more while it rings or the wait for the door is on; a second ring needs
a count below three. It is proved over the moves of the cycle, not
over the actions of the program.

`NeverStallsHolds`, for `Faults = {}` and `DoorValues \subseteq {DOOR_OPEN, DOOR_CLOSED}`. Both conditions are needed: with a third door value or a
failure the code does stall. `LiveInv` adds to `CycleInv` that threads are awake only when the timers exist (`Made`) and that
what the monitor read of the door is one of the two values (`DoorRead`).

**Drivers.** `DriverProofs` has two parts. The loaded driver, from `CharDeviceAssumption` (readers, writers and readers of the
`/proc` file are disjoint sets, the buffer has at least one cell, counts are positive, a message fits the buffer, offsets are not negative): `DeviceTypeCorrect`,
`TransfersStayInside`, `HoldersExclude`, `NoWakeUpLost` and `ReadsAreWholeHolds`, for every set of programs,
every size of the buffer and every count. The invariant is `IInv == TypeOK /\ Room /\ Sync`.
`Room` keeps what was counted before the wait true after it: the position is
the program's own, and that of a file never leaves the buffer, also after a short copy and an `lseek()`. `TransfersStayInside` says
that a transfer stays inside when it begins there, as every `read()` and `write()` does; of a `pread()` or `pwrite()`
at an offset beyond the buffer it says nothing. `Sync` is about the semaphore: `Stages` (which steps a driver has), `Line` (the
wait list holds exactly those that wait, each once) and `Lock` (the semaphore is free just when
nobody has it, and then nobody waits). None of the three is inductive alone: the
first of the list may be given the semaphore only because it is known to wait and because the one
that releases it was the only holder. `DownKeeps`, `UpKeeps` and `MoveKeeps` prove
this once for every step; each action has a lemma that cites them. `ReadsAreWhole` needs
`Whole` besides: the bytes in the buffer are one writer's, a writer that copies has cleared the others'
away, and what a reader has copied is still in the buffer, which no other program can change meanwhile, by
`OneHolder`.

The drivers with their load and unload: `LoadImplementsDevice`, every step of `DriverModule` is
one of `CharDevice` or leaves its variables alone, so that all of the above holds of a driver that is loaded and unloaded;
and `OpenNeedsDriverHolds`. Its invariant `LInv` says what the load has made so far (`Made`: who has a major number in the end
has a device and a semaphore, although `setup_char_module()` goes on over a failed step), that
there are nodes only of such a driver, and that either nobody has a device open or the driver is complete (`Ready`). `Rmmod`
keeps it by its guard (`THIS_MODULE`), everything else because no program opens without a node.

`LeavesOnlyKnownHolds`: after the unload the kernel has of the driver no more than what the code forgets. `Traces` says what the steps of the load and
unload have to do with what is held: only what the steps of the load make is held, what a step
of the exit function gives back is not held after it, and the exclusive driver fails while it has no more than its device numbers. `ProcShowsNodeHolds` (an action property): while the module is
loaded, a read of the `/proc` file finds its node (`NodeListed`), since the list has its node before the load is over
and loses it only in the unload.

**Shared counters.** `SharedCountersProofs`, from `SharedCountersAssumption` (at least one round) and for
`Left \subseteq {0, Gone}` (no semaphore was left at 1: see the end of section 7): `CountersTypeCorrect`, `LoopsExclude`, `SemaphoreNeverLost`, `MainPrintsLast`, `NoUpdateLost`, for every
number of rounds and every choice of faults. The invariant joins what `main()` knows of its children (`MainOk`), where a worker
and its loops can be (`WorkerOk`, `LoopOk`), `Semaphore` (its value and the kernel's adjustments make 1:
this is what a kill preserves) and `Sum` (the counter is the sum of the rounds made, and what a loop has
loaded is still the counter's value). `Sum` is kept by `Store` because of `Exclusive`, which
follows from the invariant; `ResultKept` follows from `Sum` when all rounds are made.

`SharedLoopsProofs`, from `SharedLoopsAssumption` (a thread each way at least, no one in both sets): `LoopsTypeCorrect`,
`DriftBoundedHolds`, `LosesNothingHolds`, `PrintedIsFinalHolds`, for every number of threads and rounds and every value to start
from. `Control` says where everybody is (`RoundLeft`, `Outsiders`, `Memory`: the two programs make at most one segment each;
`HasLock`, which excludes a second loop in a round and survives a kill because the semaphore is then lost;
`Final`). The value is changed by `Store` alone: for every other step (`HarmlessSteps`) it is enough that a loop that is to
store has just loaded or has kept what it had. `Drift` and `Fresh` add to the properties what they say of a value that has
been loaded but not stored, without which they are not inductive.

**Turns.** `TurnsProofs`, from `TurnsAssumption` (at least one round): `TurnsTypeCorrect`, `NotAllWaitHolds` and
`TurnsInOrderHolds`, for all three programs. `NotAllWait` needs `LeavesOne`: who is about to wait has somebody beside it that does
not, either the thread it has just woken, or the next in the ring, which did not wait; the mutex (`HasMutex`) keeps that one
from waiting first. The order of the semaphores is one token (`TurnAt`): all semaphores are 0 but the one whose
turn it is, or that one is in its round. With conditions the threads are `Turning`, in one of three ways: they
make their first round, where a signal may find nobody to wake (`Starting`, with the places that two or three threads can be in);
or it is the turn of one of them and the others wait, their rounds ordered by their
distance from it (`InTurn`); or the last rounds are printed and they leave (`Ending`). Like the property, this assumes that nobody wakes up
unasked and, of three threads, that none is late (`Calm`).

**Servers.** `ServersProofs`, from `ServersAssumption`, for every number of clients and messages, every size of the pipe and
every kind of trouble (of `quick`, where the order is lost, `InOrder` says nothing). `ServersTypeCorrect`: `TypeOK` is inductive only with `Apart`, a client is in the line of connections
or behind one descriptor, never in two places; then the line is no longer than there are clients, and by counting there is a
free descriptor for `accept()`. `InOrderHolds` (an action property: each client's messages are printed one after the other, none left
out, and again only what the code is known to repeat). `FlowInv` has a part for each kind of server. `ClientsOk`: what a client has sent and
what is on its way. `MainOk`, where `main()` reads itself: what it took is printed or about to be, and the buffer
repeats a message only at the end of a client that was killed. `ManyOk`, for the threads: one thread starts at a time and
no two share a descriptor (`OneEach`, which is what finding 4 violates), each message in the pipe follows what
is shown and what is before it there (`PipeOk`), and what a thread has in hand follows that (`ThreadOk`).

Model-checked only: liveness, for which fairness and ENABLED are beyond the prover (`VisitEnds`, `ValidDistanceRings`, `RingLooksAtDoor`,
`FailureRestarts`, `BootScans`, `ClientsEnd`, `MainEnds`, `EndsUnlessOwnerKilled`, `AllEnd`, `Served`).

## 9. Not modelled

`software_timer` and `process_rebooting`: one timer, or two idle threads, and a handler that prints or calls `execl()`;
the door bell has both, and there they are modelled. The programs with a FIFO, a message queue, a pipe, a signal handler or a
`fork()`: one call each, whose behaviour is the kernel's. `online_char.c` and `hello.c`: no state but a
printed counter. The copies (`back_up`, `linux_task/software_timer`, `online_driver.c`) are not modelled a second time; `server_publish` and
`diff_machine_socket` differ from `socket_server.c` in a missing `close()` and in the address family, and are special cases of
`Servers`. Generated
`*.mod.c` files, archives and editor files.
