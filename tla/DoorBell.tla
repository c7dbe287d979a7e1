------------------------------ MODULE DoorBell ------------------------------
(***************************************************************************)
(* The sensor based door bell of                                           *)
(* src/linux_task/door_bell_system_sw_design: one process whose main       *)
(* thread creates three pipes, a System V message queue, four threads and  *)
(* three one-shot timers, and then watches the threads.                    *)
(*                                                                         *)
(* The monitor thread reads the message queue and writes to the pipes of   *)
(* the motion, distance and door bell threads; these, and the expiry       *)
(* handlers of the timers, write to the queue or to a pipe.  A sensor is a *)
(* file that somebody else writes, so a reading is chosen anew each time.  *)
(***************************************************************************)
EXTENDS Integers, Sequences

CONSTANTS MotionValues,   (* values the motion sensor file may hold         *)
          DistanceValues, (* values the distance sensor file may hold       *)
          DoorValues,     (* values the door status file may hold           *)
          Statuses,       (* working states a sensor file may hold          *)
          PipeCap,        (* 20-byte events a pipe holds before write blocks*)
          QueueCap,       (* messages the queue holds before msgsnd blocks  *)
          FdLimit,        (* descriptors the process may have open          *)
          Faults          (* the faults the environment may inject          *)

FaultKinds ==
  { "file",       (* a sensor file or ps_cmd.txt cannot be read             *)
    "exec",       (* execl of the new image fails                           *)
    "queue",      (* somebody removes the message queue (ipcrm -Q 2000)     *)
    "slowstart",  (* main is still starting when the threads' sleep is over *)
    "create",     (* msgget, pthread_create or timer_create fails           *)
    "ps" }        (* the ps command prints nothing                          *)

ASSUME DoorBellAssumption ==
  /\ MotionValues # {} /\ DistanceValues # {} /\ DoorValues # {}
  /\ MotionValues \cup DistanceValues \cup DoorValues \subseteq Int
  /\ Statuses \subseteq Int /\ Statuses # {}
  /\ PipeCap \in Nat \ {0} /\ QueueCap \in Nat \ {0}
  /\ FdLimit \in Nat
  /\ Faults \subseteq FaultKinds

(* The threads of thread_list[].  An inbox is named after its only reader: *)
(* pipe_t1, pipe_t2, pipe_t3, and for the monitor the message queue.       *)
Workers == {"motion", "distance", "doorbell"}
Threads == {"monitor"} \cup Workers

Timers == {"door_bell", "door_open_wait", "reset_states"}

MaxRetry      == 3      (* door_wait_expiry_count >= 3                      *)
PipesFds      == 6      (* descriptors of the three pipes                   *)
StdFds        == 3
ECU_WORKING   == 0
DOOR_OPEN     == 0
DOOR_CLOSED   == 1
ValidDistance == 4..8   (* MIN_DISTANCE..MAX_DISTANCE                       *)

Readings == [value : MotionValues \cup DistanceValues \cup DoorValues,
             status : Statuses]
NoReading == [value |-> -1, status |-> -1]

(* The events the switch of each thread has a case for.                    *)
Understood(t) ==
  CASE t = "motion"   -> {"MOTION_SCAN_ON"}
    [] t = "distance" -> {"CALC_DISTANCE"}
    [] t = "doorbell" -> {"RING_BELL", "RING_BELL_EXPIRY"}
    [] t = "monitor"  -> {"MOTION_DETECTED", "VALID_DISTANCE",
                          "INVALID_DISTANCE", "RING_BELL_EXPIRY",
                          "ECU_NOT_WORKING", "DOOR_WAIT_EXPIRY",
                          "DOOR_WAIT_RETRY_END"}

Events == {"INVALID", "MOTION_DETECTED", "CALC_DISTANCE", "MOTION_SCAN_ON",
           "INVALID_DISTANCE", "VALID_DISTANCE", "RING_BELL",
           "RING_BELL_EXPIRY", "ECU_NOT_WORKING", "DOOR_WAIT_EXPIRY",
           "DOOR_WAIT_RETRY_END"}

(* The events the monitor only passes on: whose pipe it writes to, and     *)
(* what.                                                                   *)
(* Mutant: an invalid distance is answered on the distance thread's pipe.  *)
Forward_WrongPipe == { <<"MOTION_DETECTED",  "distance", "CALC_DISTANCE">>,
                       <<"VALID_DISTANCE",   "doorbell", "RING_BELL">>,
                       <<"INVALID_DISTANCE", "distance", "MOTION_SCAN_ON">>,
                       <<"DOOR_WAIT_EXPIRY", "doorbell", "RING_BELL">> }

Forward == { <<"MOTION_DETECTED",  "distance", "CALC_DISTANCE">>,
             <<"VALID_DISTANCE",   "doorbell", "RING_BELL">>,
             <<"INVALID_DISTANCE", "motion",   "MOTION_SCAN_ON">>,
             <<"DOOR_WAIT_EXPIRY", "doorbell", "RING_BELL">> }

VARIABLES
  up,       (* the process exists: no exit() so far                         *)
  main,     (* where main() is                                              *)
  running,  (* g_*Thread_running, set together after the threads exist      *)
  thread,   (* where each thread is                                         *)
  event,    (* the event each thread is handling or about to post           *)
  reading,  (* motion_data and door_data while they are in scope            *)
  inbox,    (* the pipes and the message queue, by reader                   *)
  queueOk,  (* msgQ_Id names an existing queue                              *)
  timer,    (* "none" (not created or deleted), "idle" or "armed"           *)
  handler,  (* where the expiry handler of each timer is                    *)
  count,    (* door_wait_expiry_count, saturated at MaxRetry                *)
  fds       (* open descriptors                                             *)

vars == <<up, main, running, thread, event, reading, inbox, queueOk, timer,
          handler, count, fds>>

process == <<up, main, running, fds>>      (* main() and what it alone sets *)
locals  == <<thread, event, reading>>      (* the threads' own variables     *)
timing  == <<timer, handler, count>>

(* A process image that has just been started, except for what outlives    *)
(* it: the descriptors and the queue in the kernel.                        *)
FreshImage(mainV, runningV, threadV, eventV, readingV, timerV, handlerV, countV) ==
  /\ mainV = "boot" /\ runningV = FALSE
  /\ threadV = [t \in Threads |-> "none"]
  /\ eventV = [t \in Threads |-> "INVALID"]
  /\ readingV = [t \in Threads |-> NoReading]
  /\ timerV = [tm \in Timers |-> "none"]
  /\ handlerV = [tm \in Timers |-> "none"]
  /\ countV = 0

(* The queue has a fixed key and outlives its process: it may hold a       *)
(* message of an earlier run that ended without reading it.                *)
Init ==
  /\ up = TRUE /\ fds = StdFds /\ queueOk = FALSE
  /\ FreshImage(main, running, thread, event, reading, timer, handler, count)
  /\ \E left \in {<<>>} \cup {<<e>> : e \in Understood("monitor")} :
       inbox = [t \in Threads |-> IF t = "monitor" THEN left ELSE <<>>]

-----------------------------------------------------------------------------
(* Calls the threads and handlers share.                                   *)

(* exit(): every thread stops where it is.                                 *)
Exit == up' = FALSE /\ UNCHANGED <<main, running, fds, locals, inbox, queueOk, timing>>

(* get_value(): one reading of a sensor file, which needs a descriptor for *)
(* as long as the file is open.                                            *)
Get(values) == {r \in [value : values, status : Statuses] : fds < FdLimit}

(* post_event(): write() to a pipe blocks while the pipe is full.          *)
Post(t, e) ==
  /\ Len(inbox[t]) < PipeCap
  /\ inbox' = [inbox EXCEPT ![t] = Append(@, e)]

(* post_messageToQ(): msgsnd() blocks while the queue is full; it fails if *)
(* the queue is gone, which the comparison with FAIL (1) does not notice.  *)
PostToQ(e) ==
  \/ /\ queueOk /\ Len(inbox["monitor"]) < QueueCap
     /\ inbox' = [inbox EXCEPT !["monitor"] = Append(@, e)]
  \/ ~queueOk /\ UNCHANGED inbox

(* timer_start() and timer_stop(): timer_settime() fails, with a warning   *)
(* only, on a timer that does not exist.                                   *)
StartTimer(tm) ==
  timer' = [timer EXCEPT ![tm] = IF @ = "none" THEN @ ELSE "armed"]
StopTimer(tm) ==
  timer' = [timer EXCEPT ![tm] = IF @ = "none" THEN @ ELSE "idle"]

Goto(t, pc, e, r) ==
  /\ thread' = [thread EXCEPT ![t] = pc]
  /\ event' = [event EXCEPT ![t] = e]
  /\ reading' = [reading EXCEPT ![t] = r]

(* Back to the read at the top of the loop; g_*Thread_running is never     *)
(* cleared.  The locals are overwritten before they are used again.        *)
Loop(t) == Goto(t, "loop", "INVALID", NoReading)

-----------------------------------------------------------------------------
(* main(): lines 123-248, and check_thread_dead().                         *)

(* Three pipe() calls; then ipcrm removes the queue of an earlier run and  *)
(* msgget() makes a new, empty one.                                        *)
(* Mutant: no ipcrm before msgget(), so that an old queue is opened.       *)
CreateResources_OldQueue ==
  /\ main = "boot" /\ fds + PipesFds <= FdLimit
  /\ main' = "launch" /\ fds' = fds + PipesFds
  /\ queueOk' = TRUE
  /\ UNCHANGED <<up, running, locals, inbox, timing>>

CreateResources ==
  /\ main = "boot" /\ fds + PipesFds <= FdLimit
  /\ main' = "launch" /\ fds' = fds + PipesFds
  /\ inbox' = [t \in Threads |-> <<>>] /\ queueOk' = TRUE
  /\ UNCHANGED <<up, running, locals, timing>>

(* pipe() finds no descriptor, or msgget() fails.                          *)
CreateResourcesFails ==
  main = "boot" /\ (fds + PipesFds > FdLimit \/ "create" \in Faults) /\ Exit

LaunchThreads ==
  /\ main = "launch" /\ main' = "flags"
  /\ thread' = [t \in Threads |-> "sleep"]
  /\ UNCHANGED <<up, running, fds, event, reading, inbox, queueOk, timing>>

LaunchThreadsFails ==
  main = "launch" /\ "create" \in Faults /\ Exit

(* The flags the threads test are set only now that the threads exist.     *)
SetRunning ==
  /\ main = "flags" /\ main' = "timers" /\ running' = TRUE
  /\ UNCHANGED <<up, fds, locals, inbox, queueOk, timing>>

(* A timer_create() that fails leaves an id of 0 behind, and a warning.    *)
CreateTimers ==
  /\ main = "timers" /\ main' = "watch"
  /\ timer' \in IF "create" \in Faults THEN [Timers -> {"none", "idle"}]
                                       ELSE {[tm \in Timers |-> "idle"]}
  /\ UNCHANGED <<up, running, fds, locals, inbox, queueOk, handler, count>>

(* One round of check_thread_dead(): ps_cmd.txt is opened and never closed.*)
(* The arguments of strstr() are swapped, so that a thread is called dead  *)
(* only when what ps printed occurs in the name of a thread, that is, when *)
(* ps printed nothing; the listing itself is never looked at.              *)
(* Mutant: ps_cmd.txt is closed twice.                                     *)
CheckThreadDead_ClosesTwice ==
  /\ main = "watch" /\ fds < FdLimit
  /\ fds' = fds - 1
  /\ UNCHANGED <<up, main, running, locals, inbox, queueOk, timing>>

CheckThreadDead ==
  /\ main = "watch" /\ fds < FdLimit
  /\ fds' = fds + 1
  /\ \/ UNCHANGED main
     \/ "ps" \in Faults /\ main' = "shutdown"
  /\ UNCHANGED <<up, running, locals, inbox, queueOk, timing>>

CheckThreadDeadFails ==
  main = "watch" /\ (fds >= FdLimit \/ "file" \in Faults) /\ Exit

(* shutdown() deletes the timers, cancels the threads and ends in exit().  *)
Shutdown == main = "shutdown" /\ Exit

Startup == CreateResources \/ LaunchThreads \/ SetRunning \/ CreateTimers
Watch   == CheckThreadDead \/ CheckThreadDeadFails \/ Shutdown
Main    == Startup \/ CreateResourcesFails \/ LaunchThreadsFails \/ Watch

-----------------------------------------------------------------------------
(* What every thread does: sleep, read the next event, answer.             *)

(* The end of the first sleep() of thread t.  The monitor posts the first  *)
(* MOTION_SCAN_ON before it looks at its flag.                             *)
(* Mutant: the monitor does not post the first MOTION_SCAN_ON.             *)
Wake_NoFirstScan(t) ==
  /\ thread[t] = "sleep" /\ main = "watch"
  /\ Goto(t, IF running THEN "loop" ELSE "dead", "INVALID", NoReading)
  /\ UNCHANGED <<process, inbox, queueOk, timing>>

Wake(t) ==
  /\ thread[t] = "sleep"
  /\ main \in {"watch", "shutdown"} \/ "slowstart" \in Faults
  /\ Goto(t, IF running THEN "loop" ELSE "dead", "INVALID", NoReading)
  /\ IF t = "monitor" THEN Post("motion", "MOTION_SCAN_ON") ELSE UNCHANGED inbox
  /\ UNCHANGED <<process, queueOk, timing>>

(* read_event(), and get_messageFromQ() while there is a queue.            *)
Receive(t) ==
  /\ thread[t] = "loop" /\ inbox[t] # <<>>
  /\ Goto(t, "busy", Head(inbox[t]), NoReading)
  /\ inbox' = [inbox EXCEPT ![t] = Tail(@)]
  /\ UNCHANGED <<process, queueOk, timing>>

(* post_messageToQ() of the event the thread has made of its input.        *)
(* Mutant: no break after the motion thread has posted its event.          *)
Reply_NoBreak(t) ==
  /\ thread[t] = "reply" /\ PostToQ(event[t])
  /\ IF t = "motion" THEN Goto(t, "busy", "MOTION_SCAN_ON", NoReading) ELSE Loop(t)
  /\ UNCHANGED <<process, queueOk, timing>>

Reply(t) ==
  /\ thread[t] = "reply"
  /\ PostToQ(event[t]) /\ Loop(t)
  /\ UNCHANGED <<process, queueOk, timing>>

(* get_value() calls exit() when the file cannot be opened or read.        *)
ReadsSensor(t) ==
  \/ t = "motion" /\ thread[t] = "busy" /\ event[t] = "MOTION_SCAN_ON"
  \/ t = "distance" /\ thread[t] = "busy" /\ event[t] = "CALC_DISTANCE"
  \/ t = "monitor" /\ thread[t] = "busy" /\ event[t] = "RING_BELL_EXPIRY"
  \/ t = "monitor" /\ thread[t] = "open"

SensorFails(t) ==
  ReadsSensor(t) /\ (fds >= FdLimit \/ "file" \in Faults) /\ Exit

-----------------------------------------------------------------------------
(* motion_detector_thread(): the sensor is read, and judged after sleep(2).*)
SampleMotion ==
  /\ ReadsSensor("motion")
  /\ \E data \in Get(MotionValues) : Goto("motion", "sampled", event["motion"], data)
  /\ UNCHANGED <<process, inbox, queueOk, timing>>

JudgeMotion ==
  /\ thread["motion"] = "sampled"
  /\ \/ /\ reading["motion"].status # ECU_WORKING
        /\ Goto("motion", "reply", "ECU_NOT_WORKING", NoReading)
     \/ /\ reading["motion"].status = ECU_WORKING /\ reading["motion"].value = 1
        /\ Goto("motion", "reply", "MOTION_DETECTED", NoReading)
     \/ /\ reading["motion"].status = ECU_WORKING /\ reading["motion"].value # 1
        /\ Goto("motion", "busy", event["motion"], NoReading)
  /\ UNCHANGED <<process, inbox, queueOk, timing>>

(* distance_calculator_thread(): one reading, judged at once.              *)
DistanceEvent(data) ==
  IF data.status # ECU_WORKING THEN "ECU_NOT_WORKING"
  ELSE IF data.value \in ValidDistance THEN "VALID_DISTANCE"
                                       ELSE "INVALID_DISTANCE"

CalcDistance ==
  /\ ReadsSensor("distance")
  /\ \E data \in Get(DistanceValues) :
       Goto("distance", "reply", DistanceEvent(data), NoReading)
  /\ UNCHANGED <<process, inbox, queueOk, timing>>

(* door_bell_thread(): the bell rings for as long as its 3 s timer runs.   *)
(* Mutant: the bell's timer is not started.                                *)
RingBell_NoTimer ==
  /\ thread["doorbell"] = "busy" /\ event["doorbell"] = "RING_BELL"
  /\ Loop("doorbell")
  /\ UNCHANGED <<process, inbox, queueOk, timing>>

RingBell ==
  /\ thread["doorbell"] = "busy" /\ event["doorbell"] = "RING_BELL"
  /\ StartTimer("door_bell") /\ Loop("doorbell")
  /\ UNCHANGED <<process, inbox, queueOk, handler, count>>

(* Mutant: the expiry is not reported to the monitor.                      *)
RingBellExpired_Silent ==
  /\ thread["doorbell"] = "busy" /\ event["doorbell"] = "RING_BELL_EXPIRY"
  /\ Loop("doorbell")
  /\ UNCHANGED <<process, inbox, queueOk, timing>>

RingBellExpired ==
  /\ thread["doorbell"] = "busy" /\ event["doorbell"] = "RING_BELL_EXPIRY"
  /\ Goto("doorbell", "reply", event["doorbell"], NoReading)
  /\ UNCHANGED <<process, inbox, queueOk, timing>>

-----------------------------------------------------------------------------
(* monitor_thread()                                                        *)
Handling(e) == thread["monitor"] = "busy" /\ event["monitor"] = e

(* msgrcv() fails on a removed queue.  The event was zeroed before, and    *)
(* zero is MOTION_DETECTED: the monitor warns and handles that.            *)
ReceiveFails ==
  /\ thread["monitor"] = "loop" /\ ~queueOk
  /\ Goto("monitor", "busy", "MOTION_DETECTED", NoReading)
  /\ UNCHANGED <<process, inbox, queueOk, timing>>

ForwardEvent ==
  /\ \E row \in Forward : Handling(row[1]) /\ Post(row[2], row[3])
  /\ Loop("monitor")
  /\ UNCHANGED <<process, queueOk, timing>>

(* RING_BELL_EXPIRY: the door's value is looked at, its status is not.     *)
ReadDoor ==
  /\ Handling("RING_BELL_EXPIRY")
  /\ \E data \in Get(DoorValues) : Goto("monitor", "door", event["monitor"], data)
  /\ UNCHANGED <<process, inbox, queueOk, timing>>

DoorIsOpen ==
  /\ thread["monitor"] = "door" /\ reading["monitor"].value = DOOR_OPEN
  /\ Goto("monitor", "open", event["monitor"], NoReading)
  /\ UNCHANGED <<process, inbox, queueOk, timing>>

(* Mutant: a closed door makes the bell ring at once, without a wait.      *)
DoorIsClosed_RingsAtOnce ==
  /\ thread["monitor"] = "door" /\ reading["monitor"].value = DOOR_CLOSED
  /\ Post("doorbell", "RING_BELL") /\ Loop("monitor")
  /\ UNCHANGED <<process, queueOk, timing>>

DoorIsClosed ==
  /\ thread["monitor"] = "door" /\ reading["monitor"].value = DOOR_CLOSED
  /\ StartTimer("door_open_wait") /\ Loop("monitor")
  /\ UNCHANGED <<process, inbox, queueOk, handler, count>>

(* Neither open nor closed: the if has no else.                            *)
DoorIsUnknown ==
  /\ thread["monitor"] = "door"
  /\ reading["monitor"].value \notin {DOOR_OPEN, DOOR_CLOSED}
  /\ Loop("monitor")
  /\ UNCHANGED <<process, inbox, queueOk, timing>>

(* do { get_value(); sleep(1); } while the door is open.                   *)
PollDoor ==
  /\ thread["monitor"] = "open"
  /\ \E data \in Get(DoorValues) :
       Goto("monitor", IF data.value = DOOR_OPEN THEN "open" ELSE "closed",
            event["monitor"], NoReading)
  /\ UNCHANGED <<process, inbox, queueOk, timing>>

ScanAgain ==
  /\ thread["monitor"] = "closed"
  /\ Post("motion", "MOTION_SCAN_ON") /\ Loop("monitor")
  /\ UNCHANGED <<process, queueOk, timing>>

RetryEnd ==
  /\ Handling("DOOR_WAIT_RETRY_END")
  /\ StartTimer("reset_states") /\ Loop("monitor")
  /\ UNCHANGED <<process, inbox, queueOk, handler, count>>

(* process_reboot(), on ECU_NOT_WORKING: the timers are deleted, then the  *)
(* other threads cancelled (each was about to make a call that is a        *)
(* cancellation point), then the program is executed anew.                 *)
(* Mutant: ECU_NOT_WORKING is logged and nothing else.                     *)
RebootTimers_Ignored ==
  /\ Handling("ECU_NOT_WORKING") /\ Loop("monitor")
  /\ UNCHANGED <<process, inbox, queueOk, timing>>

RebootTimers ==
  /\ Handling("ECU_NOT_WORKING")
  /\ timer' = [tm \in Timers |-> "none"]
  /\ Goto("monitor", "cancel", event["monitor"], NoReading)
  /\ UNCHANGED <<process, inbox, queueOk, handler, count>>

RebootCancel ==
  /\ thread["monitor"] = "cancel"
  /\ thread' = [t \in Threads |-> IF t = "monitor" THEN "exec" ELSE "dead"]
  /\ UNCHANGED <<process, event, reading, inbox, queueOk, timing>>

(* No descriptor is close-on-exec; the old pipes become unreachable.       *)
RebootExec ==
  /\ thread["monitor"] = "exec"
  /\ FreshImage(main', running', thread', event', reading', timer', handler', count')
  /\ queueOk' = FALSE
  /\ inbox' = [t \in Threads |-> IF t = "monitor" THEN inbox[t] ELSE <<>>]
  /\ UNCHANGED <<up, fds>>

(* execl() returns only when it failed; the test for -1 is negated, so the *)
(* exit() behind it is not reached and the monitor goes on.                *)
RebootFails ==
  /\ thread["monitor"] = "exec" /\ "exec" \in Faults
  /\ Loop("monitor")
  /\ UNCHANGED <<process, inbox, queueOk, timing>>

Door   == ReadDoor \/ DoorIsOpen \/ DoorIsClosed \/ DoorIsUnknown \/ PollDoor \/ ScanAgain
Reboot == RebootTimers \/ RebootCancel \/ RebootExec \/ RebootFails

-----------------------------------------------------------------------------
(* Timers.  All are one-shot; the handler runs in a thread of its own.     *)

(* The shortest timer runs for 3 s, a handler for a few calls: a timer     *)
(* does not expire again while its handler runs.                           *)
Expire(tm) ==
  /\ timer[tm] = "armed" /\ handler[tm] = "none"
  /\ timer' = [timer EXCEPT ![tm] = "idle"]
  /\ handler' = [handler EXCEPT ![tm] = "stop"]
  /\ UNCHANGED <<process, locals, inbox, queueOk, count>>

(* Each handler first stops its timer; door_open_wait_expiry() counts.     *)
(* Mutant: door_open_wait_expiry() does not count.                         *)
HandlerStop_NoCount(tm) ==
  /\ handler[tm] = "stop"
  /\ StopTimer(tm)
  /\ handler' = [handler EXCEPT ![tm] = "post"]
  /\ UNCHANGED <<process, locals, inbox, queueOk, count>>

HandlerStop(tm) ==
  /\ handler[tm] = "stop"
  /\ StopTimer(tm)
  /\ handler' = [handler EXCEPT ![tm] = "post"]
  /\ count' = IF tm = "door_open_wait" /\ count < MaxRetry THEN count + 1 ELSE count
  /\ UNCHANGED <<process, locals, inbox, queueOk>>

(* Mutant: the retries end one wait too early.                             *)
HandlerPost_OneEarly(tm) ==
  /\ handler[tm] = "post"
  /\ handler' = [handler EXCEPT ![tm] = "none"]
  /\ \/ tm = "door_bell" /\ Post("doorbell", "RING_BELL_EXPIRY")
     \/ tm = "reset_states" /\ Post("motion", "MOTION_SCAN_ON")
     \/ tm = "door_open_wait" /\ count >= MaxRetry - 1 /\ PostToQ("DOOR_WAIT_RETRY_END")
     \/ tm = "door_open_wait" /\ count < MaxRetry - 1 /\ PostToQ("DOOR_WAIT_EXPIRY")
  /\ UNCHANGED <<process, locals, queueOk, timer, count>>

HandlerPost(tm) ==
  /\ handler[tm] = "post"
  /\ handler' = [handler EXCEPT ![tm] = "none"]
  /\ \/ tm = "door_bell" /\ Post("doorbell", "RING_BELL_EXPIRY")
     \/ tm = "reset_states" /\ Post("motion", "MOTION_SCAN_ON")
     \/ tm = "door_open_wait" /\ count >= MaxRetry /\ PostToQ("DOOR_WAIT_RETRY_END")
     \/ tm = "door_open_wait" /\ count < MaxRetry /\ PostToQ("DOOR_WAIT_EXPIRY")
  /\ UNCHANGED <<process, locals, queueOk, timer, count>>

-----------------------------------------------------------------------------
(* Another instance of the program, started while this one runs, removes   *)
(* the queue with ipcrm and makes one with a new id.                       *)
RemoveQueue ==
  /\ "queue" \in Faults /\ queueOk
  /\ queueOk' = FALSE
  /\ inbox' = [inbox EXCEPT !["monitor"] = <<>>]
  /\ UNCHANGED <<process, locals, timing>>

MotionStep   == SampleMotion \/ JudgeMotion
DoorBellStep == RingBell \/ RingBellExpired
MonitorStep  == ReceiveFails \/ ForwardEvent \/ Door \/ RetryEnd \/ Reboot

Step(t) ==
  \/ Wake(t) \/ Receive(t) \/ Reply(t) \/ SensorFails(t)
  \/ t = "motion" /\ MotionStep
  \/ t = "distance" /\ CalcDistance
  \/ t = "doorbell" /\ DoorBellStep
  \/ t = "monitor" /\ MonitorStep

(* Mutant: the bell's handler stops its timer after it has posted.         *)
Handler_StopsLast(tm) ==
  \/ tm # "door_bell" /\ (HandlerStop(tm) \/ HandlerPost(tm))
  \/ /\ tm = "door_bell" /\ handler[tm] = "stop"
     /\ handler' = [handler EXCEPT ![tm] = "post"]
     /\ Post("doorbell", "RING_BELL_EXPIRY")
     /\ UNCHANGED <<process, locals, queueOk, timer, count>>
  \/ /\ tm = "door_bell" /\ handler[tm] = "post"
     /\ handler' = [handler EXCEPT ![tm] = "none"]
     /\ StopTimer(tm)
     /\ UNCHANGED <<process, locals, inbox, queueOk, count>>

Handler(tm) == HandlerStop(tm) \/ HandlerPost(tm)

Next ==
  /\ up
  /\ \/ Main
     \/ \E t \in Threads : Step(t)
     \/ \E tm \in Timers : Expire(tm) \/ Handler(tm)
     \/ RemoveQueue

Spec == Init /\ [][Next]_vars

(* Threads are scheduled and timers expire; main() finishes its start but  *)
(* need not go on watching (its rounds use up descriptors, and a process   *)
(* that has run out of them exits).  Nothing is asked of the sensors.      *)
Fairness ==
  /\ WF_vars(up /\ (Startup \/ CreateResourcesFails))
  /\ \A t \in Threads : WF_vars(up /\ Step(t))
  /\ \A tm \in Timers : WF_vars(up /\ (Expire(tm) \/ Handler(tm)))

FairSpec == Spec /\ Fairness

-----------------------------------------------------------------------------
(* Properties.                                                             *)

Pcs == {"none", "sleep", "loop", "busy", "sampled", "reply", "door", "open",
        "closed", "cancel", "exec", "dead"}

(* The type invariant: every variable holds what its declaration says.     *)
TypeOK ==
  /\ up \in BOOLEAN /\ running \in BOOLEAN /\ queueOk \in BOOLEAN
  /\ main \in {"boot", "launch", "flags", "timers", "watch", "shutdown"}
  /\ thread \in [Threads -> Pcs]
  /\ event \in [Threads -> Events]
  /\ reading \in [Threads -> Readings \cup {NoReading}]
  /\ inbox \in [Threads -> Seq(Events)]
  /\ timer \in [Timers -> {"none", "idle", "armed"}]
  /\ handler \in [Timers -> {"none", "stop", "post"}]
  /\ count \in 0..MaxRetry
  /\ fds \in Nat

(* The places where the progress of a visit can be: an event waits in an   *)
(* inbox, a thread is at work on one (the monitor also from its creation   *)
(* to its first post), a timer runs, or a handler runs.                    *)
AtWork(t) ==
  /\ thread[t] \notin {"loop", "dead"}
  /\ t = "monitor" \/ thread[t] \notin {"none", "sleep"}

Tokens ==
       {<<"inbox", t>>    : t  \in {t \in Threads : inbox[t] # <<>>}}
  \cup {<<"thread", t>>   : t  \in {t \in Threads : AtWork(t)}}
  \cup {<<"timer", tm>>   : tm \in {tm \in Timers : timer[tm] = "armed"}}
  \cup {<<"handler", tm>> : tm \in {tm \in Timers : handler[tm] # "none"}}

(* At most one thing is going on: of all pipes, the queue, the threads,    *)
(* the timers and the handlers, one at most is active, and never two       *)
(* events wait for the same reader.  The threads share timers, the retry   *)
(* count and the queue without a lock, and nothing but this keeps them     *)
(* apart: no timer is re-armed under a running handler, no reboot cancels  *)
(* a thread that holds an event, no write blocks.  It needs the ipcrm      *)
(* before msgget (a message of an earlier run would be a second token) and *)
(* handlers that stop their timer before they post.                        *)
SingleToken ==
  main # "boot" => /\ \A t \in Threads : Len(inbox[t]) <= 1
                   /\ \A a, b \in Tokens : a = b

(* No thread is ever sent an event its switch has no case for: each of the *)
(* six places that write to a pipe or the queue agrees with the switch of  *)
(* the reader.  (The default branches of the switches are unreachable.)    *)
EventsUnderstood ==
  \A t \in Threads :
    /\ \A i \in 1..Len(inbox[t]) : inbox[t][i] \in Understood(t)
    /\ thread[t] = "busy" => event[t] \in Understood(t)

(* The ten minutes' rest (reset_states) begins only when three waits for   *)
(* the door have run out (since the start of the process).                 *)
RestIsEarned ==
  main # "boot" /\ count < MaxRetry =>
    /\ timer["reset_states"] # "armed" /\ handler["reset_states"] = "none"
    /\ ~Handling("DOOR_WAIT_RETRY_END")
    /\ \A i \in 1..Len(inbox["monitor"]) : inbox["monitor"][i] # "DOOR_WAIT_RETRY_END"

(* Without faults and with a door that is open or closed, an event is      *)
(* always under way somewhere: no branch of a handler ends a visit without *)
(* passing it on, and no timer_stop() hits a timer that was just started.  *)
NeverStalls == up => Tokens # {}

(* The monitor, woken to reboot, reaches execl() with nothing left over:   *)
(* no timer runs, no handler is about to post to a pipe, no worker         *)
(* is between a read and a post when it is cancelled.                      *)
QuietReboot ==
  up /\ thread["monitor"] = "cancel" =>
    /\ \A t \in Workers : ~AtWork(t) /\ inbox[t] = <<>>
    /\ \A tm \in Timers : timer[tm] # "armed" /\ handler[tm] = "none"
=============================================================================
