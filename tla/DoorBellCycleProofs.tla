------------------------ MODULE DoorBellCycleProofs -------------------------
(***************************************************************************)
(* The door bell goes through the phases of VisitCycle, and what follows   *)
(* from that: nobody is rung for more than three times, and without faults *)
(* a visit never stalls.                                                   *)
(*                                                                         *)
(* The phase is read off the one token there is (DoorBellProofs), whose    *)
(* event is one its holder understands (DoorBellEvents).  So every step is *)
(* one of a few: it moves the token, and the lemmas of the second part say *)
(* what the phase is where the token then is.                              *)
(***************************************************************************)
EXTENDS DoorBellClaims, DoorBellEvents

(* No timer exists before main() makes them: what a thread that is early   *)
(* starts is not there, and CreateTimers takes nothing away.               *)
TimersLate ==
  main \in {"boot", "launch", "flags", "timers"} =>
    \A tm \in Timers : timer[tm] = "none" /\ handler[tm] = "none"

(* The event the monitor handles while it waits for the door, and while it *)
(* reboots.                                                                *)
MonitorEvent ==
  /\ thread["monitor"] = "door" => event["monitor"] = "RING_BELL_EXPIRY"
  /\ thread["monitor"] \in {"cancel", "exec"} => event["monitor"] = "ECU_NOT_WORKING"

CycleInv == TokenInv /\ EventInv /\ TimersLate /\ MonitorEvent

-----------------------------------------------------------------------------
(* What the phase is where the token is.                                   *)

Awake == up /\ thread["monitor"] \notin {"none", "sleep"}

LEMMA EventPhases ==
  /\ EventPhase("MOTION_SCAN_ON") = "scan" /\ EventPhase("INVALID_DISTANCE") = "scan"
  /\ EventPhase("MOTION_DETECTED") = "measure" /\ EventPhase("CALC_DISTANCE") = "measure"
  /\ EventPhase("VALID_DISTANCE") = "ring" /\ EventPhase("RING_BELL") = "ring"
  /\ EventPhase("DOOR_WAIT_EXPIRY") = "ring" /\ EventPhase("RING_BELL_EXPIRY") = "door"
  /\ EventPhase("DOOR_WAIT_RETRY_END") = "rest" /\ EventPhase("ECU_NOT_WORKING") = "failed"
BY DEF EventPhase

LEMMA TimerPhases ==
  /\ TimerPhase("door_bell") = "ringing" /\ TimerPhase("door_open_wait") = "wait"
  /\ TimerPhase("reset_states") = "rest"
BY DEF TimerPhase

PhaseOfInbox ==
  \A t \in Threads : Awake /\ Only({t}, {}, {}, {}) /\ inbox[t] # <<>> =>
    Phase = EventPhase(Head(inbox[t]))
PhaseOfThread ==
  \A t \in Threads : Awake /\ Only({}, {t}, {}, {}) /\ AtWork(t) => Phase = ThreadPhase(t)
PhaseOfTimer ==
  \A tm \in Timers : Awake /\ Only({}, {}, {tm}, {}) /\ timer[tm] = "armed" =>
    Phase = TimerPhase(tm)
PhaseOfHandler ==
  \A tm \in Timers : Awake /\ Only({}, {}, {}, {tm}) /\ handler[tm] # "none" =>
    Phase = HandlerPhase(tm)
PhaseOfNothing == Awake /\ Only({}, {}, {}, {}) => Phase = "stalled"
PhaseAsleep == ~Awake => Phase = IF up THEN "boot" ELSE "off"

PhaseRead == /\ PhaseOfInbox /\ PhaseOfThread /\ PhaseOfTimer /\ PhaseOfHandler
             /\ PhaseOfNothing /\ PhaseAsleep

LEMMA PhaseIsOf ==
  ASSUME Awake, NEW p, CurrentPhases = {p}
  PROVE  Phase = p
BY DEF Awake, Phase

LEMMA PhaseReads == PhaseRead
<1>1. PhaseOfInbox
  <2> SUFFICES ASSUME NEW t \in Threads, Awake, Only({t}, {}, {}, {}), inbox[t] # <<>>
               PROVE  Phase = EventPhase(Head(inbox[t]))
    BY DEF PhaseOfInbox
  <2>1. CurrentPhases = {EventPhase(Head(inbox[t]))}
    BY DEF CurrentPhases, Only
  <2> QED BY <2>1, PhaseIsOf
<1>2. PhaseOfThread
  <2> SUFFICES ASSUME NEW t \in Threads, Awake, Only({}, {t}, {}, {}), AtWork(t)
               PROVE  Phase = ThreadPhase(t)
    BY DEF PhaseOfThread
  <2>1. CurrentPhases = {ThreadPhase(t)}
    BY DEF CurrentPhases, Only
  <2> QED BY <2>1, PhaseIsOf
<1>3. PhaseOfTimer
  <2> SUFFICES ASSUME NEW tm \in Timers, Awake, Only({}, {}, {tm}, {}), timer[tm] = "armed"
               PROVE  Phase = TimerPhase(tm)
    BY DEF PhaseOfTimer
  <2>1. CurrentPhases = {TimerPhase(tm)}
    BY DEF CurrentPhases, Only
  <2> QED BY <2>1, PhaseIsOf
<1>4. PhaseOfHandler
  <2> SUFFICES ASSUME NEW tm \in Timers, Awake, Only({}, {}, {}, {tm}), handler[tm] # "none"
               PROVE  Phase = HandlerPhase(tm)
    BY DEF PhaseOfHandler
  <2>1. CurrentPhases = {HandlerPhase(tm)}
    BY DEF CurrentPhases, Only
  <2> QED BY <2>1, PhaseIsOf
<1>5. PhaseOfNothing
  <2> SUFFICES ASSUME Awake, Only({}, {}, {}, {}) PROVE Phase = "stalled"
    BY DEF PhaseOfNothing
  <2>1. CurrentPhases = {}
    BY DEF CurrentPhases, Only
  <2> QED BY <2>1 DEF Phase, Awake
<1>6. PhaseAsleep
  BY DEF PhaseAsleep, Awake, Phase
<1> QED BY <1>1, <1>2, <1>3, <1>4, <1>5, <1>6 DEF PhaseRead

(* The same in the next state.                                             *)
LEMMA PhaseReadsNext == PhaseRead'
BY PhaseReads, PTL

-----------------------------------------------------------------------------
(* Where a step takes the token, and what the phase then is.               *)

(* A thread that has the token keeps it, ...                               *)
LEMMA ThreadKeepsToken ==
  ASSUME TypeOK, up, up', NEW t \in Threads, Only({}, {t}, {}, {}),
         NEW pc, NEW e, NEW r, Goto(t, pc, e, r), pc \notin {"loop", "dead", "none", "sleep"},
         t = "monitor" \/ Awake, UNCHANGED <<inbox, timer, handler>>
  PROVE  Phase' = IF pc = "open" THEN "open"
                  ELSE IF pc = "closed" THEN "scan" ELSE EventPhase(e)
<1>1. /\ thread'[t] = pc /\ event'[t] = e
      /\ \A u \in Threads : u # t => thread'[u] = thread[u]
  BY DEF TypeOK, Goto
<1>2. Awake'
  BY <1>1, Members DEF Awake
<1>3. Only({}, {t}, {}, {})' /\ AtWork(t)'
  BY <1>1 DEF Only, AtWork
<1>4. Phase' = ThreadPhase(t)'
  BY <1>2, <1>3, PhaseReadsNext DEF PhaseRead, PhaseOfThread
<1> QED BY <1>1, <1>4 DEF ThreadPhase

(* ... passes it on as an event, ...                                       *)
LEMMA ThreadDelivers ==
  ASSUME TypeOK, up, up', NEW t \in Threads, Only({}, {t}, {}, {}),
         NEW pc \in {"loop", "dead"}, NEW e, NEW r, Goto(t, pc, e, r), t = "monitor" \/ Awake,
         NEW u \in Threads, NEW x \in Events, Deliver(u, x), UNCHANGED <<timer, handler>>
  PROVE  Phase' = EventPhase(x)
<1>1. /\ thread'[t] = pc /\ \A v \in Threads : v # t => thread'[v] = thread[v]
  BY DEF TypeOK, Goto
<1>2. Awake'
  BY <1>1, Members DEF Awake
<1>3. inbox \in [Threads -> Seq(Events)] /\ inbox[u] = <<>>
  BY DEF TypeOK, Only
<1>4. inbox'[u] = <<x>> /\ \A v \in Threads : v # u => inbox'[v] = <<>>
  BY <1>3 DEF Deliver, Only
<1>5. Only({u}, {}, {}, {})' /\ inbox'[u] # <<>> /\ Head(inbox'[u]) = x
  BY <1>1, <1>4 DEF Only, AtWork
<1> QED BY <1>2, <1>5, PhaseReadsNext DEF PhaseRead, PhaseOfInbox

(* ... or starts a timer, if there is that timer, ...                      *)
LEMMA ThreadStartsTimer ==
  ASSUME TypeOK, up, up', NEW t \in Threads, Only({}, {t}, {}, {}), Loop(t),
         t = "monitor" \/ Awake, NEW tm \in Timers, StartTimer(tm), UNCHANGED <<inbox, handler>>
  PROVE  Phase' = IF timer[tm] = "none" THEN "stalled" ELSE TimerPhase(tm)
<1>1. /\ thread'[t] = "loop" /\ \A v \in Threads : v # t => thread'[v] = thread[v]
  BY DEF TypeOK, Loop, Goto
<1>2. Awake'
  BY <1>1, Members DEF Awake
<1>3. timer'[tm] = IF timer[tm] = "none" THEN "none" ELSE "armed"
  BY DEF TypeOK, StartTimer
<1>4. \A tn \in Timers : tn # tm => timer'[tn] = timer[tn]
  BY DEF TypeOK, StartTimer
<1>5. CASE timer[tm] = "none"
  <2>1. Only({}, {}, {}, {})'
    BY <1>1, <1>3, <1>4, <1>5 DEF Only, AtWork
  <2> QED BY <1>2, <1>5, <2>1, PhaseReadsNext DEF PhaseRead, PhaseOfNothing
<1>6. CASE timer[tm] # "none"
  <2>1. Only({}, {}, {tm}, {})' /\ timer'[tm] = "armed"
    BY <1>1, <1>3, <1>4, <1>6 DEF Only, AtWork
  <2>2. Phase' = TimerPhase(tm)'
    BY <1>2, <2>1, PhaseReadsNext DEF PhaseRead, PhaseOfTimer
  <2> QED BY <1>6, <2>2
<1> QED BY <1>5, <1>6

(* ... or drops it.                                                        *)
LEMMA ThreadDrops ==
  ASSUME TypeOK, up, up', Only({}, {"monitor"}, {}, {}), Loop("monitor"),
         UNCHANGED <<inbox, timer, handler>>
  PROVE  Phase' = "stalled"
<1>1. /\ thread'["monitor"] = "loop"
      /\ \A v \in Threads : v # "monitor" => thread'[v] = thread[v]
  BY Members DEF TypeOK, Loop, Goto
<1>2. Awake' /\ Only({}, {}, {}, {})'
  BY <1>1 DEF Awake, Only, AtWork
<1> QED BY <1>2, PhaseReadsNext DEF PhaseRead, PhaseOfNothing

(* A step that leaves the token where it is.                               *)
LEMMA TokenStays ==
  ASSUME UNCHANGED <<up, inbox, handler, count>>,
         thread'["monitor"] \in {"none", "sleep"} <=> thread["monitor"] \in {"none", "sleep"},
         \A tm \in Timers : timer'[tm] = "armed" <=> timer[tm] = "armed",
         \A t \in Threads : /\ AtWork(t)' <=> AtWork(t)
                            /\ AtWork(t) => thread'[t] = thread[t] /\ event'[t] = event[t]
  PROVE  Phase' = Phase
<1>1. \A t \in Threads : AtWork(t) => ThreadPhase(t)' = ThreadPhase(t)
  BY DEF ThreadPhase
<1>2. \A tm \in Timers : HandlerPhase(tm)' = HandlerPhase(tm)
  BY DEF HandlerPhase
<1>3. CurrentPhases' = CurrentPhases
  BY <1>1, <1>2 DEF CurrentPhases
<1> QED BY <1>3 DEF Phase

-----------------------------------------------------------------------------
(* The two invariants that are new.                                        *)

LEMMA MonitorEventGoto ==
  ASSUME TypeOK, MonitorEvent, NEW t \in Threads, NEW pc, NEW e, NEW r, Goto(t, pc, e, r),
         t = "monitor" /\ pc = "door" => e = "RING_BELL_EXPIRY",
         t = "monitor" /\ pc \in {"cancel", "exec"} => e = "ECU_NOT_WORKING"
  PROVE  MonitorEvent'
BY Members DEF TypeOK, MonitorEvent, Goto

LEMMA StepMonitorEvent ==
  ASSUME TypeOK, MonitorEvent, NEW t \in Threads, Step(t)
  PROVE  MonitorEvent'
<1> USE Members DEF Loop
<1>1. CASE Wake(t) \/ Receive(t) \/ Reply(t)
  <2>1. \E pc \in {"loop", "dead", "busy"} : \E e, r : Goto(t, pc, e, r)
    BY <1>1 DEF Wake, Receive, Reply
  <2> QED BY <2>1, MonitorEventGoto
<1>2. CASE SensorFails(t)
  BY <1>2 DEF SensorFails, Exit, locals, MonitorEvent
<1>3. CASE MotionStep \/ CalcDistance \/ DoorBellStep
  <2>1. \E u \in Workers : \E pc, e, r : Goto(u, pc, e, r)
    BY <1>3 DEF MotionStep, SampleMotion, JudgeMotion, CalcDistance, DoorBellStep, RingBell,
                RingBellExpired, Workers
  <2>2. "monitor" \notin Workers /\ Workers \subseteq Threads
    BY DEF Workers, Threads
  <2> QED BY <2>1, <2>2, MonitorEventGoto
<1>4. CASE ReceiveFails \/ ForwardEvent \/ RetryEnd
  <2>1. \E pc \in {"loop", "busy"} : \E e, r : Goto("monitor", pc, e, r)
    BY <1>4 DEF ReceiveFails, ForwardEvent, RetryEnd
  <2> QED BY <2>1, MonitorEventGoto
<1>5. CASE Door
  <2>1. CASE ReadDoor
    BY <2>1, MonitorEventGoto DEF ReadDoor, Handling
  <2>2. CASE ~ReadDoor
    <3>1. \E pc \in {"loop", "open", "closed"} : \E e, r : Goto("monitor", pc, e, r)
      BY <1>5, <2>2 DEF Door, DoorIsOpen, DoorIsClosed, DoorIsUnknown, PollDoor, ScanAgain
    <3> QED BY <3>1, MonitorEventGoto
  <2> QED BY <2>1, <2>2
<1>6. CASE Reboot
  <2>1. CASE RebootTimers
    BY <2>1, MonitorEventGoto DEF RebootTimers, Handling
  <2>2. CASE RebootCancel
    BY <2>2 DEF RebootCancel, MonitorEvent
  <2>3. CASE RebootExec
    BY <2>3 DEF RebootExec, FreshImage, MonitorEvent
  <2>4. CASE RebootFails
    BY <2>4, MonitorEventGoto DEF RebootFails
  <2> QED BY <1>6, <2>1, <2>2, <2>3, <2>4 DEF Reboot
<1> QED BY <1>1, <1>2, <1>3, <1>4, <1>5, <1>6 DEF Step, MonitorStep

(* Whatever a thread or a handler does, it makes no timer.                 *)
LEMMA StepMakesNoTimer ==
  ASSUME TypeOK,
         (\E t \in Threads : Step(t)) \/ (\E tm \in Timers : Expire(tm) \/ Handler(tm)),
         NEW tm \in Timers, timer[tm] = "none"
  PROVE  timer'[tm] = "none"
<1>1. \A tn \in Timers : StartTimer(tn) \/ StopTimer(tn) => timer'[tm] = "none"
  BY DEF StartTimer, StopTimer, TypeOK
<1>2. ASSUME NEW t \in Threads, Wake(t) \/ Receive(t) \/ Reply(t) \/ SensorFails(t)
      PROVE  UNCHANGED timer
  BY <1>2 DEF Wake, Receive, Reply, SensorFails, Exit, timing
<1>3. CASE MotionStep \/ CalcDistance \/ DoorBellStep \/ MonitorStep
  BY <1>1, <1>3, Members DEF MotionStep, SampleMotion, JudgeMotion, CalcDistance,
     DoorBellStep, RingBell, RingBellExpired, MonitorStep, ReceiveFails, ForwardEvent,
     Door, ReadDoor, DoorIsOpen, DoorIsClosed, DoorIsUnknown, PollDoor, ScanAgain,
     RetryEnd, Reboot, RebootTimers, RebootCancel, RebootExec, RebootFails, FreshImage,
     timing
<1>4. ASSUME NEW tn \in Timers, Expire(tn) \/ Handler(tn) PROVE timer'[tm] = "none"
  BY <1>1, <1>4 DEF Expire, Handler, HandlerStop, HandlerPost, TypeOK
<1> QED BY <1>2, <1>3, <1>4 DEF Step

LEMMA TimersLateKeeps ==
  ASSUME TypeOK, StartOk, TimersLate, [Next]_vars, "queue" \notin Faults
  PROVE  TimersLate'
<1>1. CASE Main
  BY <1>1 DEF TimersLate, Main, Startup, Watch, CreateResources, CreateResourcesFails,
     LaunchThreads, LaunchThreadsFails, SetRunning, CreateTimers, CheckThreadDead,
     CheckThreadDeadFails, Shutdown, Exit, timing
<1>2. ASSUME NEW t \in Threads, Step(t), ~(t = "monitor" /\ RebootExec) PROVE TimersLate'
  <2>1. UNCHANGED <<main, handler>>
    BY <1>2 DEF Step, Wake, Receive, Reply, SensorFails, Exit, MotionStep,
         SampleMotion, JudgeMotion, CalcDistance, DoorBellStep, RingBell,
         RingBellExpired, MonitorStep, ReceiveFails, ForwardEvent, Door,
         ReadDoor, DoorIsOpen, DoorIsClosed, DoorIsUnknown, PollDoor, ScanAgain,
         RetryEnd, Reboot, RebootTimers, RebootCancel, RebootFails, process, timing
  <2> QED BY <1>2, <2>1, StepMakesNoTimer DEF TimersLate
<1>3. CASE RebootExec
  BY <1>3 DEF RebootExec, FreshImage, TimersLate
<1>4. ASSUME NEW tm \in Timers, Expire(tm) \/ Handler(tm) PROVE TimersLate'
  <2>1. UNCHANGED main
    BY <1>4 DEF Expire, Handler, HandlerStop, HandlerPost, process
  <2>2. ~ main \in {"boot", "launch", "flags", "timers"}
    BY <1>4 DEF TimersLate, Expire, Handler, HandlerStop, HandlerPost
  <2> QED BY <2>1, <2>2 DEF TimersLate
<1>5. CASE UNCHANGED vars
  BY <1>5 DEF vars, TimersLate
<1> QED BY <1>1, <1>2, <1>3, <1>4, <1>5 DEF Next, RemoveQueue

LEMMA CycleInvInit == Init => CycleInv
<1> SUFFICES ASSUME Init PROVE CycleInv
  OBVIOUS
<1>1. /\ thread["monitor"] = "none" /\ main = "boot"
      /\ \A tm \in Timers : timer[tm] = "none" /\ handler[tm] = "none"
  BY Members DEF Init, FreshImage
<1>2. TimersLate /\ MonitorEvent
  BY <1>1 DEF TimersLate, MonitorEvent
<1> QED BY <1>2, TokenInvInit, EventInvInit DEF CycleInv

LEMMA CycleInvNext ==
  ASSUME "queue" \notin Faults, CycleInv, [Next]_vars
  PROVE  CycleInv'
<1> USE DEF CycleInv
<1>1. TokenInv' /\ EventInv'
  BY TokenInvNext, EventInvNext
<1>2. TimersLate'
  BY TimersLateKeeps DEF TokenInv
<1>3. MonitorEvent'
  <2>1. CASE \E t \in Threads : Step(t)
    BY <2>1, StepMonitorEvent DEF TokenInv
  <2>2. CASE Main
    BY <2>2, Members DEF MonitorEvent, Main, Startup, Watch, CreateResources,
       CreateResourcesFails, LaunchThreads, LaunchThreadsFails, SetRunning, CreateTimers,
       CheckThreadDead, CheckThreadDeadFails, Shutdown, Exit, locals
  <2>3. CASE (\E tm \in Timers : Expire(tm) \/ Handler(tm)) \/ RemoveQueue \/ UNCHANGED vars
    BY <2>3 DEF MonitorEvent, Expire, Handler, HandlerStop, HandlerPost, RemoveQueue,
       locals, vars
  <2> QED BY <2>1, <2>2, <2>3 DEF Next
<1> QED BY <1>1, <1>2, <1>3

-----------------------------------------------------------------------------
(* Where the token is, the phase is read.                                  *)

LEMMA TokenThread ==
  ASSUME CycleInv, up, NEW t \in Threads, AtWork(t), thread[t] \notin {"none", "sleep"}
  PROVE  Awake /\ queueOk /\ Single /\ Only({}, {t}, {}, {}) /\ Phase = ThreadPhase(t)
<1>1. queueOk /\ Single
  BY DEF CycleInv, TokenInv, StartOk, SingleToken, Single
<1>2. Only({}, {t}, {}, {})
  BY <1>1, ThreadAlone
<1>3. Awake
  BY <1>2, Members DEF Only, AtWork, Awake
<1> QED BY <1>1, <1>2, <1>3, PhaseReads DEF PhaseRead, PhaseOfThread

LEMMA TokenInbox ==
  ASSUME CycleInv, up, NEW t \in Threads, inbox[t] # <<>>, thread[t] \notin {"none", "sleep"}
  PROVE  Awake /\ Single /\ Only({t}, {}, {}, {}) /\ Phase = EventPhase(Head(inbox[t]))
<1>1. Single
  BY DEF CycleInv, TokenInv, StartOk, SingleToken, Single
<1>2. Only({t}, {}, {}, {})
  BY <1>1, InboxAlone
<1>3. Awake
  BY <1>2, Members DEF Only, AtWork, Awake
<1> QED BY <1>1, <1>2, <1>3, PhaseReads DEF PhaseRead, PhaseOfInbox

LEMMA TokenTimer ==
  ASSUME CycleInv, up, NEW tm \in Timers, timer[tm] = "armed"
  PROVE  Awake /\ Only({}, {}, {tm}, {}) /\ Phase = TimerPhase(tm)
<1>1. Single
  BY DEF CycleInv, TimersLate, TokenInv, SingleToken, Single
<1>2. Only({}, {}, {tm}, {})
  BY <1>1, TimerAlone
<1>3. Awake
  BY <1>2, Members DEF Only, AtWork, Awake
<1> QED BY <1>1, <1>2, <1>3, PhaseReads DEF PhaseRead, PhaseOfTimer

LEMMA TokenHandler ==
  ASSUME CycleInv, up, NEW tm \in Timers, handler[tm] # "none"
  PROVE  Awake /\ queueOk /\ Only({}, {}, {}, {tm}) /\ Phase = HandlerPhase(tm)
<1>1. Single /\ queueOk
  BY DEF CycleInv, TimersLate, TokenInv, StartOk, SingleToken, Single
<1>2. Only({}, {}, {}, {tm})
  BY <1>1, HandlerAlone
<1>3. Awake
  BY <1>2, Members DEF Only, AtWork, Awake
<1> QED BY <1>1, <1>2, <1>3, PhaseReads DEF PhaseRead, PhaseOfHandler

LEMMA PhaseType == up => Phase \in Cycle!Phases \ {"off"}
<1>1. \A e : EventPhase(e) \in Cycle!Phases \ {"off"}
  BY DEF EventPhase, Cycle!Phases
<1>2. \A t \in Threads : ThreadPhase(t) \in Cycle!Phases \ {"off"}
  BY <1>1 DEF ThreadPhase, Cycle!Phases
<1>3. \A tm \in Timers : TimerPhase(tm) \in Cycle!Phases \ {"off"}
  BY TimerPhases DEF Timers, Cycle!Phases
<1>4. \A tm \in Timers : HandlerPhase(tm) \in Cycle!Phases \ {"off"}
  BY <1>3 DEF HandlerPhase, Cycle!Phases
<1>5. CurrentPhases \subseteq Cycle!Phases \ {"off"}
  BY <1>1, <1>2, <1>3, <1>4 DEF CurrentPhases
<1> QED BY <1>5 DEF Phase, Cycle!Phases

-----------------------------------------------------------------------------
(* The move of VisitCycle each step makes.                                 *)

(* The process ends.                                                       *)
LEMMA ExitPhase == ASSUME up, Exit PROVE Cycle!Leave
BY PhaseType, PhaseReadsNext DEF Exit, timing, PhaseRead, PhaseAsleep, Awake, Cycle!Leave,
   Cycle!Move

(* A thread that wakes, reads an event or passes on what it has made of it *)
(* does not move the visit on; the monitor, woken, starts it.              *)
LEMMA WakePhase ==
  ASSUME CycleInv, up, NEW t \in Threads, Wake(t)
  PROVE  IF t = "monitor" THEN Cycle!Move({"boot"}, {"scan"}) ELSE UNCHANGED <<Phase, count>>
<1>0. TypeOK /\ Single
  BY DEF CycleInv, TokenInv, StartOk, SingleToken, Single, Wake
<1>1. PICK pc \in {"loop", "dead"} : Goto(t, pc, "INVALID", NoReading)
  BY DEF Wake
<1>2. CASE t = "monitor"
  <2>1. Phase = "boot"
    BY <1>2, PhaseReads DEF Wake, PhaseRead, PhaseAsleep, Awake
  <2>2. Only({}, {t}, {}, {})
    BY <1>0, <1>2, ThreadAlone DEF Wake, AtWork
  <2>3. Deliver("motion", "MOTION_SCAN_ON") /\ UNCHANGED <<timer, handler, count>> /\ up'
    BY <1>2 DEF Wake, Post, Deliver, timing, process
  <2>4. Phase' = "scan"
    BY <1>0, <1>1, <1>2, <2>2, <2>3, ThreadDelivers, EventPhases, Members
  <2> QED BY <1>2, <2>1, <2>3, <2>4 DEF Cycle!Move
<1>3. CASE t # "monitor"
  <2>1. UNCHANGED <<up, inbox, timer, handler, count>>
    BY <1>3 DEF Wake, process, timing
  <2>2. thread' = [thread EXCEPT ![t] = pc] /\ event' = [event EXCEPT ![t] = "INVALID"]
    BY <1>1 DEF Goto
  <2>3. \A u \in Threads : u # t => thread'[u] = thread[u] /\ event'[u] = event[u]
    BY <1>0, <2>2 DEF TypeOK
  <2>4. ~AtWork(t) /\ ~AtWork(t)'
    BY <1>0, <1>3, <2>2 DEF Wake, AtWork, TypeOK
  <2>5. \A u \in Threads : /\ AtWork(u)' <=> AtWork(u)
                           /\ AtWork(u) => thread'[u] = thread[u] /\ event'[u] = event[u]
    BY <2>3, <2>4 DEF AtWork
  <2>6. thread'["monitor"] = thread["monitor"]
    BY <1>3, <2>3, Members
  <2> QED BY <1>3, <2>1, <2>5, <2>6, TokenStays
<1> QED BY <1>2, <1>3

LEMMA ReceivePhase ==
  ASSUME CycleInv, up, NEW t \in Threads, Receive(t)
  PROVE  UNCHANGED <<Phase, count>>
<1>0. TypeOK
  BY DEF CycleInv, TokenInv
<1>1. Awake /\ Single /\ Only({t}, {}, {}, {}) /\ Phase = EventPhase(Head(inbox[t]))
  BY TokenInbox DEF Receive
<1>2. inbox'[t] = <<>> /\ \A u \in Threads : u # t => inbox'[u] = <<>>
  BY <1>0, <1>1 DEF Receive, Only, Single, TypeOK
<1>3. /\ thread'[t] = "busy" /\ event'[t] = Head(inbox[t])
      /\ \A u \in Threads : u # t => thread'[u] = thread[u]
  BY <1>0 DEF Receive, Goto, TypeOK
<1>4. UNCHANGED <<up, timer, handler, count>>
  BY DEF Receive, process, timing
<1>5. Awake'
  BY <1>1, <1>3, <1>4, Members DEF Awake
<1>6. Only({}, {t}, {}, {})' /\ AtWork(t)'
  BY <1>1, <1>2, <1>3, <1>4 DEF Only, AtWork
<1>7. Phase' = ThreadPhase(t)'
  BY <1>5, <1>6, PhaseReadsNext DEF PhaseRead, PhaseOfThread
<1> QED BY <1>1, <1>3, <1>4, <1>7 DEF ThreadPhase

LEMMA ReplyPhase ==
  ASSUME CycleInv, up, NEW t \in Threads, Reply(t)
  PROVE  UNCHANGED <<Phase, count>>
<1>0. TypeOK /\ event[t] \in Events
  BY DEF CycleInv, TokenInv, TypeOK
<1>1. Awake /\ queueOk /\ Only({}, {t}, {}, {}) /\ Phase = ThreadPhase(t)
  BY TokenThread DEF Reply, AtWork
<1>2. Phase = EventPhase(event[t])
  BY <1>1 DEF Reply, ThreadPhase
<1>3. Deliver("monitor", event[t]) /\ UNCHANGED <<timer, handler, count>> /\ up'
  BY <1>1 DEF Reply, PostToQ, Deliver, timing, process
<1>4. Goto(t, "loop", "INVALID", NoReading)
  BY DEF Reply, Loop
<1>5. Phase' = EventPhase(event[t])
  BY <1>0, <1>1, <1>3, <1>4, ThreadDelivers, Members
<1> QED BY <1>2, <1>3, <1>5

(* A step of a visit; Stalls is what it is when the timer it starts does   *)
(* not exist.                                                              *)
Same == UNCHANGED <<Phase, count>>
Starts(tm, from, to) ==
  Cycle!Move({from}, IF timer[tm] = "none" THEN {"stalled"} ELSE {to})

LEMMA MotionPhase ==
  ASSUME CycleInv, up, MotionStep
  PROVE  Same \/ Cycle!Move({"scan"}, {"measure"}) \/ Cycle!SensorFailed
<1> USE DEF Cycle!SensorFailed, Cycle!Move, Same
<1>0. TypeOK /\ "motion" \in Threads /\ event["motion"] = "MOTION_SCAN_ON"
  BY UnderstoodSets, Members DEF CycleInv, TokenInv, EventInv, WorkUnderstood, MotionStep,
     SampleMotion, ReadsSensor, JudgeMotion
<1>1. thread["motion"] \in {"busy", "sampled"} /\ AtWork("motion")
  BY DEF MotionStep, SampleMotion, ReadsSensor, JudgeMotion, AtWork
<1>2. Awake /\ Only({}, {"motion"}, {}, {}) /\ Phase = ThreadPhase("motion")
  BY <1>0, <1>1, TokenThread
<1>3. Phase = "scan"
  BY <1>0, <1>1, <1>2, EventPhases DEF ThreadPhase
<1>4. UNCHANGED <<inbox, timer, handler, count>> /\ up'
  BY DEF MotionStep, SampleMotion, JudgeMotion, process, timing
<1>5. PICK pc \in {"sampled", "reply", "busy"},
           e \in {"ECU_NOT_WORKING", "MOTION_DETECTED", "MOTION_SCAN_ON"},
           r \in Readings \cup {NoReading} : Goto("motion", pc, e, r)
  BY <1>0 DEF MotionStep, SampleMotion, JudgeMotion, Get, Readings
<1>6. Phase' = EventPhase(e)
  BY <1>0, <1>2, <1>4, <1>5, ThreadKeepsToken
<1>7. Phase' \in {"failed", "measure", "scan"}
  BY <1>6, EventPhases
<1> QED BY <1>3, <1>4, <1>7

LEMMA DistancePhase ==
  ASSUME CycleInv, up, CalcDistance
  PROVE  Cycle!Move({"measure"}, {"scan", "ring"}) \/ Cycle!SensorFailed
<1> USE DEF Cycle!SensorFailed, Cycle!Move
<1>0. TypeOK /\ "distance" \in Threads /\ event["distance"] = "CALC_DISTANCE"
      /\ thread["distance"] = "busy"
  BY Members DEF CycleInv, TokenInv, CalcDistance, ReadsSensor
<1>2. Awake /\ Only({}, {"distance"}, {}, {}) /\ Phase = ThreadPhase("distance")
  BY <1>0, TokenThread DEF AtWork
<1>3. Phase = "measure"
  BY <1>0, <1>2, EventPhases DEF ThreadPhase
<1>4. UNCHANGED <<inbox, timer, handler, count>> /\ up'
  BY DEF CalcDistance, process, timing
<1>5. PICK data \in Get(DistanceValues) :
        Goto("distance", "reply", DistanceEvent(data), NoReading)
  BY DEF CalcDistance
<1>6. Phase' = EventPhase(DistanceEvent(data))
  BY <1>0, <1>2, <1>4, <1>5, ThreadKeepsToken
<1>7. Phase' \in {"failed", "scan", "ring"}
  BY <1>6, EventPhases DEF DistanceEvent
<1> QED BY <1>3, <1>4, <1>7

LEMMA BellPhase ==
  ASSUME CycleInv, up
  PROVE  /\ RingBell => Starts("door_bell", "ring", "ringing")
         /\ RingBellExpired => Same
<1> USE DEF Same
<1>0. TypeOK /\ "doorbell" \in Threads /\ "door_bell" \in Timers
  BY Members DEF CycleInv, TokenInv
<1>1. ASSUME RingBell PROVE Starts("door_bell", "ring", "ringing")
  <2>1. Awake /\ Only({}, {"doorbell"}, {}, {}) /\ Phase = ThreadPhase("doorbell")
    BY <1>0, <1>1, TokenThread DEF AtWork, RingBell
  <2>2. Phase = "ring"
    BY <1>1, <2>1, EventPhases DEF ThreadPhase, RingBell
  <2>3. UNCHANGED <<inbox, handler, count>> /\ up'
    BY <1>1 DEF RingBell, process
  <2>4. Phase' = IF timer["door_bell"] = "none" THEN "stalled" ELSE TimerPhase("door_bell")
    BY <1>0, <1>1, <2>1, <2>3, ThreadStartsTimer DEF RingBell
  <2> QED BY <2>2, <2>3, <2>4, TimerPhases DEF Starts, Cycle!Move
<1>2. ASSUME RingBellExpired PROVE Same
  <2>1. Awake /\ Only({}, {"doorbell"}, {}, {}) /\ Phase = ThreadPhase("doorbell")
    BY <1>0, <1>2, TokenThread DEF AtWork, RingBellExpired
  <2>2. Phase = EventPhase("RING_BELL_EXPIRY")
    BY <1>2, <2>1 DEF ThreadPhase, RingBellExpired
  <2>3. UNCHANGED <<inbox, timer, handler, count>> /\ up'
    BY <1>2 DEF RingBellExpired, process, timing
  <2>4. Goto("doorbell", "reply", "RING_BELL_EXPIRY", NoReading)
    BY <1>2 DEF RingBellExpired
  <2>5. Phase' = EventPhase("RING_BELL_EXPIRY")
    BY <1>0, <2>1, <2>3, <2>4, ThreadKeepsToken
  <2> QED BY <2>2, <2>3, <2>5
<1> QED BY <1>1, <1>2

(* The monitor passes on an event that belongs to the same phase.          *)
LEMMA ForwardPhase == ASSUME CycleInv, up, ForwardEvent PROVE Same
<1>0. TypeOK /\ "monitor" \in Threads
  BY Members DEF CycleInv, TokenInv
<1>1. PICK row \in Forward : Handling(row[1]) /\ Post(row[2], row[3])
  BY DEF ForwardEvent
<1>2. Awake /\ Only({}, {"monitor"}, {}, {}) /\ Phase = EventPhase(row[1])
  BY <1>0, <1>1, TokenThread DEF AtWork, Handling, ThreadPhase
<1>3. row[2] \in Threads /\ row[3] \in Events /\ EventPhase(row[3]) = EventPhase(row[1])
  BY EventPhases, Members DEF Forward
<1>4. Deliver(row[2], row[3]) /\ UNCHANGED <<timer, handler, count>> /\ up'
      /\ Goto("monitor", "loop", "INVALID", NoReading)
  BY <1>1 DEF ForwardEvent, Post, Deliver, timing, process, Loop
<1>5. Phase' = EventPhase(row[3])
  BY <1>0, <1>2, <1>3, <1>4, ThreadDelivers
<1> QED BY <1>2, <1>3, <1>4, <1>5 DEF Same

(* After the bell has rung the monitor looks at the door.                  *)
LEMMA DoorPhase ==
  ASSUME CycleInv, up, Door
  PROVE  \/ Same \/ Cycle!Move({"door"}, {"open"}) \/ Cycle!Move({"open"}, {"scan"})
         \/ DoorIsClosed /\ Starts("door_open_wait", "door", "wait")
         \/ DoorIsUnknown /\ Cycle!Move({"door"}, {"stalled"})
<1> USE DEF Same, Cycle!Move
<1>0. TypeOK /\ "monitor" \in Threads /\ "door_open_wait" \in Timers
  BY Members DEF CycleInv, TokenInv
<1>1. AtWork("monitor") /\ thread["monitor"] \notin {"none", "sleep"}
  BY DEF Door, ReadDoor, DoorIsOpen, DoorIsClosed, DoorIsUnknown, PollDoor, ScanAgain,
     Handling, AtWork
<1>2. Awake /\ Only({}, {"monitor"}, {}, {}) /\ Phase = ThreadPhase("monitor")
  BY <1>0, <1>1, TokenThread
<1>3. up' /\ UNCHANGED <<handler, count>>
  BY DEF Door, ReadDoor, DoorIsOpen, DoorIsClosed, DoorIsUnknown, PollDoor, ScanAgain,
     process, timing
<1>4. CASE ReadDoor
  <2>1. PICK r : Goto("monitor", "door", "RING_BELL_EXPIRY", r)
    BY <1>4 DEF ReadDoor, Handling
  <2>2. UNCHANGED <<inbox, timer>>
    BY <1>4 DEF ReadDoor, timing
  <2>3. Phase' = EventPhase("RING_BELL_EXPIRY")
    BY <1>0, <1>2, <1>3, <2>1, <2>2, ThreadKeepsToken
  <2>4. Phase = EventPhase("RING_BELL_EXPIRY")
    BY <1>2, <1>4 DEF ReadDoor, Handling, ThreadPhase
  <2> QED BY <1>3, <2>3, <2>4
<1>5. ASSUME thread["monitor"] = "door" PROVE Phase = "door"
  BY <1>2, <1>5, EventPhases DEF ThreadPhase, CycleInv, MonitorEvent
<1>6. CASE DoorIsOpen
  <2>1. Goto("monitor", "open", event["monitor"], NoReading) /\ UNCHANGED <<inbox, timer>>
    BY <1>6 DEF DoorIsOpen, timing
  <2>2. Phase' = "open"
    BY <1>0, <1>2, <1>3, <2>1, ThreadKeepsToken
  <2> QED BY <1>3, <1>5, <1>6, <2>2 DEF DoorIsOpen
<1>7. CASE DoorIsClosed
  <2>1. Loop("monitor") /\ StartTimer("door_open_wait") /\ UNCHANGED inbox
    BY <1>7 DEF DoorIsClosed
  <2>2. Phase' = IF timer["door_open_wait"] = "none" THEN "stalled"
                 ELSE TimerPhase("door_open_wait")
    BY <1>0, <1>2, <1>3, <2>1, ThreadStartsTimer
  <2> QED BY <1>3, <1>5, <1>7, <2>2, TimerPhases DEF DoorIsClosed, Starts
<1>8. CASE DoorIsUnknown
  <2>1. Loop("monitor") /\ UNCHANGED <<inbox, timer>>
    BY <1>8 DEF DoorIsUnknown, timing
  <2>2. Phase' = "stalled"
    BY <1>0, <1>2, <1>3, <2>1, ThreadDrops
  <2> QED BY <1>3, <1>5, <1>8, <2>2 DEF DoorIsUnknown
<1>9. CASE PollDoor
  <2>1. PICK pc \in {"open", "closed"} : Goto("monitor", pc, event["monitor"], NoReading)
    BY <1>9 DEF PollDoor
  <2>2. UNCHANGED <<inbox, timer>>
    BY <1>9 DEF PollDoor, timing
  <2>3. Phase' = IF pc = "open" THEN "open" ELSE "scan"
    BY <1>0, <1>2, <1>3, <2>1, <2>2, ThreadKeepsToken
  <2>4. Phase = "open"
    BY <1>2, <1>9 DEF PollDoor, ThreadPhase
  <2> QED BY <1>3, <2>3, <2>4
<1>10. CASE ScanAgain
  <2>1. Goto("monitor", "loop", "INVALID", NoReading) /\ UNCHANGED timer
    BY <1>10 DEF ScanAgain, Loop, timing
  <2>2. Deliver("motion", "MOTION_SCAN_ON")
    BY <1>10 DEF ScanAgain, Post, Deliver
  <2>3. Phase' = EventPhase("MOTION_SCAN_ON")
    BY <1>0, <1>2, <1>3, <2>1, <2>2, ThreadDelivers, Members
  <2>4. Phase = "scan"
    BY <1>2, <1>10 DEF ScanAgain, ThreadPhase
  <2> QED BY <1>3, <2>3, <2>4, EventPhases
<1> QED BY <1>4, <1>6, <1>7, <1>8, <1>9, <1>10 DEF Door

LEMMA RetryPhase ==
  ASSUME CycleInv, up, RetryEnd
  PROVE  Starts("reset_states", "rest", "rest")
<1>0. TypeOK /\ "monitor" \in Threads /\ "reset_states" \in Timers
  BY Members DEF CycleInv, TokenInv
<1>1. Awake /\ Only({}, {"monitor"}, {}, {}) /\ Phase = ThreadPhase("monitor")
  BY <1>0, TokenThread DEF AtWork, RetryEnd, Handling
<1>2. Phase = "rest"
  BY <1>1, EventPhases DEF RetryEnd, Handling, ThreadPhase
<1>3. Loop("monitor") /\ StartTimer("reset_states") /\ up'
      /\ UNCHANGED <<inbox, handler, count>>
  BY DEF RetryEnd, process
<1>4. Phase' = IF timer["reset_states"] = "none" THEN "stalled" ELSE TimerPhase("reset_states")
  BY <1>0, <1>1, <1>3, ThreadStartsTimer
<1> QED BY <1>2, <1>3, <1>4, TimerPhases DEF Starts, Cycle!Move

(* The reboot.                                                             *)
LEMMA RebootPhase ==
  ASSUME CycleInv, up, Reboot
  PROVE  \/ Same \/ Cycle!Restart
         \/ RebootFails /\ Cycle!Move({"failed"}, {"stalled"})
<1> USE DEF Same
<1>0. TypeOK /\ "monitor" \in Threads
  BY Members DEF CycleInv, TokenInv
<1>1. /\ thread["monitor"] \in {"busy", "cancel", "exec"}
      /\ event["monitor"] = "ECU_NOT_WORKING"
  BY DEF CycleInv, MonitorEvent, Reboot, RebootTimers, RebootCancel, RebootExec,
     RebootFails, Handling
<1>2. Awake /\ Only({}, {"monitor"}, {}, {}) /\ Phase = ThreadPhase("monitor")
  BY <1>0, <1>1, TokenThread DEF AtWork
<1>3. Phase = "failed"
  BY <1>1, <1>2, EventPhases DEF ThreadPhase
<1>4. ASSUME up', Only({}, {"monitor"}, {}, {})', thread'["monitor"] \in {"cancel", "exec"},
             event'["monitor"] = "ECU_NOT_WORKING"
      PROVE  Phase' = "failed"
  <2>1. Awake' /\ AtWork("monitor")'
    BY <1>4 DEF Awake, AtWork
  <2>2. Phase' = ThreadPhase("monitor")'
    BY <1>0, <1>4, <2>1, PhaseReadsNext DEF PhaseRead, PhaseOfThread
  <2> QED BY <1>4, <2>2, EventPhases DEF ThreadPhase
<1>5. CASE RebootTimers
  <2>1. /\ thread'["monitor"] = "cancel" /\ event'["monitor"] = "ECU_NOT_WORKING"
        /\ \A t \in Threads : t # "monitor" => thread'[t] = thread[t]
    BY <1>0, <1>1, <1>5 DEF RebootTimers, Goto, TypeOK
  <2>2. /\ UNCHANGED <<inbox, handler, count>> /\ up'
        /\ \A tm \in Timers : timer'[tm] = "none"
    BY <1>5 DEF RebootTimers, process
  <2>3. Only({}, {"monitor"}, {}, {})'
    BY <1>2, <2>1, <2>2 DEF Only, AtWork
  <2> QED BY <1>3, <1>4, <2>1, <2>2, <2>3
<1>6. CASE RebootCancel
  <2>1. /\ thread'["monitor"] = "exec" /\ event'["monitor"] = "ECU_NOT_WORKING"
        /\ \A t \in Threads : t # "monitor" => thread'[t] = "dead"
    BY <1>0, <1>1, <1>6 DEF RebootCancel
  <2>2. UNCHANGED <<inbox, timer, handler, count>> /\ up'
    BY <1>6 DEF RebootCancel, process, timing
  <2>3. Only({}, {"monitor"}, {}, {})'
    BY <1>2, <2>1, <2>2 DEF Only, AtWork
  <2> QED BY <1>3, <1>4, <2>1, <2>2, <2>3
<1>7. CASE RebootExec
  <2>1. up' /\ ~Awake' /\ count' = 0
    BY <1>0, <1>7 DEF RebootExec, FreshImage, Awake
  <2>2. Phase' = "boot"
    BY <2>1, PhaseReadsNext DEF PhaseRead, PhaseAsleep
  <2> QED BY <1>3, <2>1, <2>2 DEF Cycle!Restart
<1>8. CASE RebootFails
  <2>1. Loop("monitor") /\ UNCHANGED <<inbox, timer, handler, count>> /\ up'
    BY <1>8 DEF RebootFails, process, timing
  <2>2. Phase' = "stalled"
    BY <1>0, <1>2, <2>1, ThreadDrops
  <2> QED BY <1>3, <1>8, <2>1, <2>2 DEF Cycle!Move
<1> QED BY <1>5, <1>6, <1>7, <1>8 DEF Reboot

-----------------------------------------------------------------------------
(* A timer that runs out hands the visit to its handler, the handler to    *)
(* the next thread; a wait that is over is counted in between.             *)
LEMMA ExpirePhase ==
  ASSUME CycleInv, up, NEW tm \in Timers, Expire(tm)
  PROVE  Same
<1>0. TypeOK
  BY DEF CycleInv, TokenInv
<1>1. Awake /\ Only({}, {}, {tm}, {}) /\ Phase = TimerPhase(tm)
  BY TokenTimer DEF Expire
<1>2. /\ timer'[tm] = "idle" /\ \A tn \in Timers : tn # tm => timer'[tn] = timer[tn]
      /\ handler'[tm] = "stop" /\ \A tn \in Timers : tn # tm => handler'[tn] = handler[tn]
      /\ UNCHANGED <<up, thread, inbox, count>>
  BY <1>0 DEF Expire, TypeOK, process, locals
<1>3. Awake' /\ Only({}, {}, {}, {tm})'
  BY <1>1, <1>2 DEF Awake, Only, AtWork
<1>4. Phase' = HandlerPhase(tm)'
  BY <1>2, <1>3, PhaseReadsNext DEF PhaseRead, PhaseOfHandler
<1> QED BY <1>1, <1>2, <1>4 DEF HandlerPhase, Same

LEMMA StopPhase ==
  ASSUME CycleInv, up, NEW tm \in Timers, HandlerStop(tm)
  PROVE  IF tm = "door_open_wait" THEN Cycle!WaitOver ELSE Same
<1>0. TypeOK
  BY DEF CycleInv, TokenInv
<1>1. Awake /\ Only({}, {}, {}, {tm}) /\ Phase = HandlerPhase(tm)
  BY TokenHandler DEF HandlerStop
<1>2. Phase = TimerPhase(tm)
  BY <1>1 DEF HandlerStop, HandlerPhase
<1>3. /\ handler'[tm] = "post" /\ \A tn \in Timers : tn # tm => handler'[tn] = handler[tn]
      /\ \A tn \in Timers : timer[tn] # "armed" => timer'[tn] # "armed"
      /\ UNCHANGED <<up, thread, inbox>>
  BY <1>0 DEF HandlerStop, StopTimer, TypeOK, process, locals
<1>4. Awake' /\ Only({}, {}, {}, {tm})'
  BY <1>1, <1>3 DEF Awake, Only, AtWork
<1>5. Phase' = HandlerPhase(tm)'
  BY <1>3, <1>4, PhaseReadsNext DEF PhaseRead, PhaseOfHandler
<1>6. CASE tm = "door_open_wait"
  <2>1. Phase' = IF count' < MaxRetry THEN "ring" ELSE "rest"
    BY <1>3, <1>5, <1>6 DEF HandlerPhase
  <2>2. count' = IF count < MaxRetry THEN count + 1 ELSE count
    BY <1>6 DEF HandlerStop
  <2> QED BY <1>2, <1>6, <2>1, <2>2, TimerPhases DEF Cycle!WaitOver
<1>7. CASE tm # "door_open_wait"
  BY <1>2, <1>5, <1>7 DEF HandlerStop, HandlerPhase, Same
<1> QED BY <1>6, <1>7

LEMMA PostPhase ==
  ASSUME CycleInv, up, NEW tm \in Timers, HandlerPost(tm)
  PROVE  \/ tm = "door_bell" /\ Cycle!Move({"ringing"}, {"door"})
         \/ tm = "reset_states" /\ Cycle!Move({"rest"}, {"scan"})
         \/ tm = "door_open_wait" /\ Same
<1>0. TypeOK
  BY DEF CycleInv, TokenInv
<1>1. Awake /\ queueOk /\ Only({}, {}, {}, {tm}) /\ Phase = HandlerPhase(tm)
  BY TokenHandler DEF HandlerPost
<1>2. /\ handler'[tm] = "none" /\ \A tn \in Timers : tn # tm => handler'[tn] = handler[tn]
      /\ UNCHANGED <<up, thread, timer, count>>
  BY <1>0 DEF HandlerPost, TypeOK, process, locals
<1>3. ASSUME NEW u \in Threads, NEW x \in Events, Deliver(u, x) PROVE Phase' = EventPhase(x)
  <2>1. inbox \in [Threads -> Seq(Events)] /\ inbox[u] = <<>>
    BY <1>0, <1>1 DEF TypeOK, Only
  <2>2. inbox'[u] = <<x>> /\ \A v \in Threads : v # u => inbox'[v] = <<>>
    BY <1>1, <1>3, <2>1 DEF Deliver, Only
  <2>3. Only({u}, {}, {}, {})' /\ inbox'[u] # <<>> /\ Head(inbox'[u]) = x /\ Awake'
    BY <1>1, <1>2, <2>2 DEF Only, AtWork, Awake
  <2> QED BY <2>3, PhaseReadsNext DEF PhaseRead, PhaseOfInbox
<1>4. CASE tm = "door_bell"
  <2>1. Deliver("doorbell", "RING_BELL_EXPIRY")
    BY <1>4 DEF HandlerPost, Post, Deliver
  <2>2. Phase' = "door" /\ Phase = "ringing"
    BY <1>1, <1>3, <1>4, <2>1, EventPhases, TimerPhases, Members DEF HandlerPhase
  <2> QED BY <1>2, <1>4, <2>2 DEF Cycle!Move
<1>5. CASE tm = "reset_states"
  <2>1. Deliver("motion", "MOTION_SCAN_ON")
    BY <1>5 DEF HandlerPost, Post, Deliver
  <2>2. Phase' = "scan" /\ Phase = "rest"
    BY <1>1, <1>3, <1>5, <2>1, EventPhases, TimerPhases, Members DEF HandlerPhase
  <2> QED BY <1>2, <1>5, <2>2 DEF Cycle!Move
<1>6. CASE tm = "door_open_wait"
  <2>1. Deliver("monitor", IF count < MaxRetry THEN "DOOR_WAIT_EXPIRY"
                           ELSE "DOOR_WAIT_RETRY_END")
    BY <1>0, <1>1, <1>6 DEF HandlerPost, PostToQ, Deliver, TypeOK, MaxRetry
  <2>2. Phase' = IF count < MaxRetry THEN "ring" ELSE "rest"
    BY <1>3, <2>1, EventPhases, Members
  <2>3. Phase = IF count < MaxRetry THEN "ring" ELSE "rest"
    BY <1>1, <1>6 DEF HandlerPhase, HandlerPost
  <2> QED BY <1>2, <1>6, <2>2, <2>3 DEF Same
<1> QED BY <1>4, <1>5, <1>6 DEF Timers

(* main() ends the process, or leaves the visit alone.                     *)
LEMMA MainPhase == ASSUME CycleInv, up, Main PROVE Same \/ Cycle!Leave
<1> USE DEF CycleInv, TokenInv
<1>1. CASE CreateResources \/ LaunchThreads
  <2>1. ~Awake /\ ~Awake' /\ UNCHANGED <<up, count>>
    BY <1>1, Members DEF CreateResources, LaunchThreads, StartOk, Awake, locals, timing
  <2>2. Phase' = Phase
    BY <2>1, PhaseReads, PhaseReadsNext DEF PhaseRead, PhaseAsleep
  <2> QED BY <2>1, <2>2 DEF Same
<1>2. CASE SetRunning \/ CreateTimers \/ CheckThreadDead
  <2>1. UNCHANGED <<up, inbox, handler, count, thread, event>>
    BY <1>2 DEF SetRunning, CreateTimers, CheckThreadDead, locals, timing
  <2>2. \A tm \in Timers : timer'[tm] = "armed" <=> timer[tm] = "armed"
    BY <1>2 DEF SetRunning, CreateTimers, CheckThreadDead, timing, TimersLate
  <2>3. Phase' = Phase
    BY <2>1, <2>2, TokenStays DEF AtWork
  <2> QED BY <2>1, <2>3 DEF Same
<1>3. CASE CreateResourcesFails \/ LaunchThreadsFails \/ CheckThreadDeadFails \/ Shutdown
  BY <1>3, ExitPhase DEF CreateResourcesFails, LaunchThreadsFails, CheckThreadDeadFails,
     Shutdown
<1> QED BY <1>1, <1>2, <1>3 DEF Main, Startup, Watch

-----------------------------------------------------------------------------
(* Every step.  A visit stalls for one of three reasons only: a timer that *)
(* does not exist, a door that is neither open nor closed, a program that  *)
(* could not be started over.                                              *)
Progress == \/ Cycle!Visit \/ Cycle!WaitOver \/ Cycle!SensorFailed
            \/ Cycle!Restart \/ Cycle!Leave \/ Same

TimerMissing ==
  /\ \E t \in Threads : thread[t] \notin {"none", "sleep"}
  /\ thread["monitor"] \notin {"cancel", "exec"}
  /\ \E tm \in Timers : timer[tm] = "none"

MeasureBegins == Phase' = "measure" /\ Phase # "measure"
RingBegins    == Phase' = "ringing" /\ Phase # "ringing"

LEMMA StartsMoves ==
  ASSUME NEW tm \in Timers, NEW t \in Threads, thread[t] \notin {"none", "sleep"},
         thread["monitor"] \notin {"cancel", "exec"},
         \/ tm = "door_bell" /\ Starts(tm, "ring", "ringing")
         \/ tm = "door_open_wait" /\ Starts(tm, "door", "wait")
         \/ tm = "reset_states" /\ Starts(tm, "rest", "rest")
  PROVE  /\ Progress \/ (Cycle!Stall /\ TimerMissing)
         /\ ~MeasureBegins
         /\ RingBegins => tm = "door_bell"
BY DEF Starts, Progress, Cycle!Visit, Cycle!Move, Cycle!Stall, TimerMissing, MeasureBegins,
   RingBegins, Same

LEMMA StepMoves ==
  ASSUME "queue" \notin Faults, CycleInv, [Next]_vars
  PROVE  /\ \/ Progress
            \/ Cycle!Stall /\ (TimerMissing \/ DoorIsUnknown \/ RebootFails)
         /\ MeasureBegins => MotionStep
         /\ RingBegins => RingBell
<1> DEFINE Goal == /\ \/ Progress
                      \/ Cycle!Stall /\ (TimerMissing \/ DoorIsUnknown \/ RebootFails)
                   /\ MeasureBegins => MotionStep
                   /\ RingBegins => RingBell
<1> SUFFICES Goal
  OBVIOUS
<1>1. ASSUME Same \/ (up /\ Exit) PROVE Goal
  BY <1>1, ExitPhase DEF Same, Progress, MeasureBegins, RingBegins, Cycle!Leave, Cycle!Move
<1>2. CASE UNCHANGED vars
  <2>1. Phase' = Phase /\ count' = count
    BY <1>2, TokenStays DEF vars, AtWork
  <2> QED BY <1>1, <2>1 DEF Same
<1>3. CASE up /\ Main
  BY <1>3, MainPhase DEF Progress, MeasureBegins, RingBegins, Same, Cycle!Leave, Cycle!Move
<1>4. ASSUME up, NEW t \in Threads, Wake(t) \/ Receive(t) \/ Reply(t) \/ SensorFails(t)
      PROVE  Goal
  <2>1. Same \/ Cycle!Move({"boot"}, {"scan"}) \/ Exit
    BY <1>4, WakePhase, ReceivePhase, ReplyPhase DEF SensorFails, Same
  <2>2. CASE Cycle!Move({"boot"}, {"scan"})
    BY <2>2 DEF Progress, MeasureBegins, RingBegins, Cycle!Visit, Cycle!Move
  <2> QED BY <1>1, <1>4, <2>1, <2>2
<1>5. CASE up /\ MotionStep
  BY <1>5, MotionPhase DEF Progress, RingBegins, Same, Cycle!Visit, Cycle!SensorFailed,
     Cycle!Move
<1>6. CASE up /\ CalcDistance
  BY <1>6, DistancePhase DEF Progress, MeasureBegins, RingBegins, Cycle!Visit,
     Cycle!SensorFailed, Cycle!Move
<1>7. CASE up /\ DoorBellStep
  <2>1. CASE RingBell
    <3>1. Only({}, {"doorbell"}, {}, {})
      BY <1>7, <2>1, Members, TokenThread DEF RingBell, AtWork
    <3>2. thread["monitor"] \notin {"cancel", "exec"}
      BY <3>1, Members DEF Only, AtWork
    <3>3. Starts("door_bell", "ring", "ringing") /\ thread["doorbell"] = "busy"
      BY <1>7, <2>1, BellPhase DEF RingBell
    <3> QED BY <2>1, <3>2, <3>3, Members, StartsMoves
  <2> QED BY <1>1, <1>7, <2>1, BellPhase DEF DoorBellStep
<1>8. CASE up /\ MonitorStep
  <2>0. "monitor" \in Threads /\ "door_open_wait" \in Timers /\ "reset_states" \in Timers
    BY Members
  <2>1. ~ReceiveFails
    BY <2>0 DEF ReceiveFails, CycleInv, TokenInv, StartOk
  <2>2. CASE ForwardEvent
    BY <1>1, <1>8, <2>2, ForwardPhase
  <2>3. CASE Door
    <3>1. DoorIsClosed => thread["monitor"] = "door"
      BY DEF DoorIsClosed
    <3>2. CASE DoorIsClosed /\ Starts("door_open_wait", "door", "wait")
      BY <2>0, <3>1, <3>2, StartsMoves
    <3>3. CASE DoorIsUnknown /\ Cycle!Move({"door"}, {"stalled"})
      BY <3>3 DEF Cycle!Stall, Cycle!Move, MeasureBegins, RingBegins
    <3>4. CASE Cycle!Move({"door"}, {"open"}) \/ Cycle!Move({"open"}, {"scan"})
      BY <3>4 DEF Progress, Cycle!Visit, Cycle!Move, MeasureBegins, RingBegins
    <3> QED BY <1>1, <1>8, <2>3, <3>2, <3>3, <3>4, DoorPhase
  <2>4. CASE RetryEnd
    <3>1. Starts("reset_states", "rest", "rest") /\ thread["monitor"] = "busy"
      BY <1>8, <2>4, RetryPhase DEF RetryEnd, Handling
    <3> QED BY <2>0, <3>1, StartsMoves
  <2>5. CASE Reboot
    <3>1. CASE Cycle!Restart
      BY <3>1 DEF Progress, MeasureBegins, RingBegins, Cycle!Restart
    <3>2. CASE RebootFails /\ Cycle!Move({"failed"}, {"stalled"})
      BY <3>2 DEF Cycle!Stall, Cycle!Move, MeasureBegins, RingBegins
    <3> QED BY <1>1, <1>8, <2>5, <3>1, <3>2, RebootPhase
  <2> QED BY <1>8, <2>1, <2>2, <2>3, <2>4, <2>5 DEF MonitorStep
<1>9. ASSUME up, NEW tm \in Timers, Expire(tm) \/ Handler(tm) PROVE Goal
  <2>1. CASE Expire(tm)
    BY <1>1, <1>9, <2>1, ExpirePhase
  <2>2. CASE HandlerStop(tm)
    <3>1. Same \/ Cycle!WaitOver
      BY <1>9, <2>2, StopPhase
    <3> QED BY <1>1, <3>1 DEF Progress, MeasureBegins, RingBegins, Cycle!WaitOver
  <2>3. CASE HandlerPost(tm)
    <3>1. Same \/ Cycle!Move({"ringing"}, {"door"}) \/ Cycle!Move({"rest"}, {"scan"})
      BY <1>9, <2>3, PostPhase
    <3> QED BY <1>1, <3>1 DEF Progress, MeasureBegins, RingBegins, Cycle!Visit, Cycle!Move
  <2> QED BY <1>9, <2>1, <2>2, <2>3 DEF Handler
<1> HIDE DEF Goal
<1>10. CASE \E t \in Threads : up /\ Step(t)
  BY <1>4, <1>5, <1>6, <1>7, <1>8, <1>10 DEF Step
<1> QED BY <1>2, <1>3, <1>9, <1>10 DEF Next, RemoveQueue

(* Whatever the sensors say and whichever of its calls fail, the program   *)
(* makes only the moves of VisitCycle, as long as nobody removes its queue.*)
THEOREM CycleImplemented == "queue" \notin Faults /\ Spec => ImplementsCycle
<1> SUFFICES ASSUME "queue" \notin Faults PROVE Spec => ImplementsCycle
  OBVIOUS
<1>1. CycleInv /\ [Next]_vars => CycleInv'
  BY CycleInvNext
<1>2. Init => Cycle!CycleInit
  <2> SUFFICES ASSUME Init PROVE Cycle!CycleInit
    OBVIOUS
  <2>1. ~Awake /\ up /\ count = 0
    BY Members DEF Init, FreshImage, Awake
  <2> QED BY <2>1, PhaseReads DEF PhaseRead, PhaseAsleep, Cycle!CycleInit
<1>3. CycleInv /\ [Next]_vars => [Cycle!CycleNext]_(Cycle!cycleVars)
  BY StepMoves DEF Progress, Same, Cycle!CycleNext, Cycle!cycleVars
<1> QED BY <1>1, <1>2, <1>3, CycleInvInit, PTL DEF Spec, ImplementsCycle, Cycle!CycleSpec

-----------------------------------------------------------------------------
(* No visit stalls when nothing fails.                                     *)

(* Threads go to work only after the timers are made, which are deleted    *)
(* only by a reboot that then takes place.                                 *)
Made ==
  /\ (\E t \in Threads : thread[t] \notin {"none", "sleep"}) => main \in {"watch", "shutdown"}
  /\ main \in {"watch", "shutdown"} /\ thread["monitor"] \notin {"cancel", "exec"} =>
       \A tm \in Timers : timer[tm] # "none"

(* What the monitor judges is what the door's file held.                   *)
DoorRead == thread["monitor"] = "door" => reading["monitor"].value \in DoorValues

LiveInv == CycleInv /\ Made /\ DoorRead /\ Phase # "stalled"

LEMMA StepKeepsTimers ==
  ASSUME TypeOK,
         \/ (\E t \in Threads : Step(t)) /\ ~RebootTimers /\ ~RebootExec
         \/ \E tm \in Timers : Expire(tm) \/ Handler(tm),
         NEW tm \in Timers, timer[tm] # "none"
  PROVE  timer'[tm] # "none"
<1>1. \A tn \in Timers : StartTimer(tn) \/ StopTimer(tn) => timer'[tm] # "none"
  BY DEF StartTimer, StopTimer, TypeOK
<1>2. ASSUME NEW t \in Threads, Wake(t) \/ Receive(t) \/ Reply(t) \/ SensorFails(t)
      PROVE  UNCHANGED timer
  BY <1>2 DEF Wake, Receive, Reply, SensorFails, Exit, timing
<1>3. CASE /\ MotionStep \/ CalcDistance \/ DoorBellStep \/ MonitorStep
           /\ ~RebootTimers /\ ~RebootExec
  BY <1>1, <1>3, Members DEF MotionStep, SampleMotion, JudgeMotion, CalcDistance,
     DoorBellStep, RingBell, RingBellExpired, MonitorStep, ReceiveFails, ForwardEvent,
     Door, ReadDoor, DoorIsOpen, DoorIsClosed, DoorIsUnknown, PollDoor, ScanAgain,
     RetryEnd, Reboot, RebootCancel, RebootFails, timing
<1>4. ASSUME NEW tn \in Timers, Expire(tn) \/ Handler(tn) PROVE timer'[tm] # "none"
  BY <1>1, <1>4 DEF Expire, Handler, HandlerStop, HandlerPost, TypeOK
<1> QED BY <1>2, <1>3, <1>4 DEF Step

(* The monitor leaves a reboot only by execl().                            *)
LEMMA RebootGoesOn ==
  ASSUME TypeOK, NEW t \in Threads, Step(t), ~RebootExec, ~RebootFails,
         thread["monitor"] \in {"cancel", "exec"}
  PROVE  thread'["monitor"] \in {"cancel", "exec"}
<1>1. CASE t = "monitor"
  <2>1. RebootCancel
    BY <1>1, Members DEF Step, Wake, Receive, Reply, SensorFails, ReadsSensor, MonitorStep,
       ReceiveFails, ForwardEvent, Handling, Door, ReadDoor, DoorIsOpen, DoorIsClosed,
       DoorIsUnknown, PollDoor, ScanAgain, RetryEnd, Reboot, RebootTimers
  <2> QED BY <2>1, Members DEF RebootCancel
<1>2. CASE t # "monitor"
  <2>1. (\E pc, e, r : Goto(t, pc, e, r)) \/ UNCHANGED thread
    BY <1>2 DEF Step, Wake, Receive, Reply, Loop, SensorFails, Exit, locals, MotionStep,
       SampleMotion, JudgeMotion, CalcDistance, DoorBellStep, RingBell, RingBellExpired
  <2> QED BY <1>2, <2>1, Members DEF Goto, TypeOK
<1> QED BY <1>1, <1>2

LEMMA MadeNext ==
  ASSUME Faults = {}, TypeOK, Made, [Next]_vars
  PROVE  Made'
<1>1. CASE Main
  <2>1. CASE CreateTimers
    BY <1>1, <2>1 DEF Made, CreateTimers, locals
  <2>2. CASE LaunchThreads
    BY <2>2 DEF Made, LaunchThreads
  <2>3. CASE ~CreateTimers /\ ~LaunchThreads
    BY <1>1, <2>3 DEF Made, Main, Startup, Watch, CreateResources, CreateResourcesFails,
       LaunchThreadsFails, SetRunning, CheckThreadDead, CheckThreadDeadFails, Shutdown,
       Exit, locals, timing
  <2> QED BY <2>1, <2>2, <2>3
<1>2. ASSUME NEW t \in Threads, Step(t), ~RebootExec PROVE Made'
  <2>1. UNCHANGED main
    BY <1>2 DEF Step, Wake, Receive, Reply, SensorFails, Exit, MotionStep,
         SampleMotion, JudgeMotion, CalcDistance, DoorBellStep, RingBell,
         RingBellExpired, MonitorStep, ReceiveFails, ForwardEvent, Door,
         ReadDoor, DoorIsOpen, DoorIsClosed, DoorIsUnknown, PollDoor, ScanAgain,
         RetryEnd, Reboot, RebootTimers, RebootCancel, RebootFails, process, timing
  <2>2. thread[t] = "sleep" => main \in {"watch", "shutdown"}
    BY <1>2 DEF Step, Wake, Receive, Reply, SensorFails, ReadsSensor, MotionStep,
         SampleMotion, JudgeMotion, CalcDistance, DoorBellStep, RingBell,
         RingBellExpired, MonitorStep, ReceiveFails, ForwardEvent, Door, Handling,
         ReadDoor, DoorIsOpen, DoorIsClosed, DoorIsUnknown, PollDoor, ScanAgain,
         RetryEnd, Reboot, RebootTimers, RebootCancel, RebootFails
  <2>3. thread[t] # "none"
    BY <1>2 DEF Step, Wake, Receive, Reply, SensorFails, ReadsSensor, MotionStep,
         SampleMotion, JudgeMotion, CalcDistance, DoorBellStep, RingBell,
         RingBellExpired, MonitorStep, ReceiveFails, ForwardEvent, Door, Handling,
         ReadDoor, DoorIsOpen, DoorIsClosed, DoorIsUnknown, PollDoor, ScanAgain,
         RetryEnd, Reboot, RebootTimers, RebootCancel, RebootFails
  <2>4. main \in {"watch", "shutdown"}
    BY <2>2, <2>3 DEF Made
  <2>5. ~RebootFails
    BY DEF RebootFails
  <2>6. CASE RebootTimers
    BY <2>1, <2>4, <2>6, Members DEF Made, RebootTimers, Goto, TypeOK
  <2>7. CASE ~RebootTimers
    BY <1>2, <2>1, <2>4, <2>5, <2>7, StepKeepsTimers, RebootGoesOn DEF Made
  <2> QED BY <2>6, <2>7
<1>3. CASE RebootExec
  BY <1>3 DEF RebootExec, FreshImage, Made
<1>4. ASSUME NEW tm \in Timers, Expire(tm) \/ Handler(tm) PROVE Made'
  <2>1. UNCHANGED <<main, thread>>
    BY <1>4 DEF Expire, Handler, HandlerStop, HandlerPost, process, locals
  <2> QED BY <1>4, <2>1, StepKeepsTimers DEF Made
<1>5. CASE UNCHANGED vars
  BY <1>5 DEF vars, Made
<1> QED BY <1>1, <1>2, <1>3, <1>4, <1>5 DEF Next, RemoveQueue

LEMMA DoorReadNext ==
  ASSUME TypeOK, DoorRead, [Next]_vars
  PROVE  DoorRead'
<1>0. "monitor" \in Threads /\ Workers \subseteq Threads /\ "monitor" \notin Workers
  BY Members DEF Threads, Workers
<1>1. ASSUME NEW t \in Threads, NEW pc, NEW e, NEW r, Goto(t, pc, e, r),
             t = "monitor" => pc # "door"
      PROVE  DoorRead'
  BY <1>0, <1>1 DEF Goto, TypeOK, DoorRead
<1>2. CASE UNCHANGED locals
  BY <1>2 DEF locals, DoorRead
<1>3. CASE LaunchThreads \/ RebootCancel \/ RebootExec
  BY <1>0, <1>3 DEF LaunchThreads, RebootCancel, RebootExec, FreshImage, DoorRead
<1>4. CASE Main
  BY <1>2, <1>3, <1>4 DEF Main, Startup, Watch, CreateResources, CreateResourcesFails,
     LaunchThreadsFails, SetRunning, CreateTimers, CheckThreadDead, CheckThreadDeadFails,
     Shutdown, Exit
<1>5. ASSUME NEW t \in Threads, Wake(t) \/ Receive(t) \/ Reply(t) \/ SensorFails(t)
      PROVE  DoorRead'
  <2>1. UNCHANGED locals \/ \E pc \in {"loop", "dead", "busy"} : \E e, r : Goto(t, pc, e, r)
    BY <1>5 DEF Wake, Receive, Reply, Loop, SensorFails, Exit
  <2> QED BY <1>1, <1>2, <2>1
<1>6. CASE MotionStep \/ CalcDistance \/ DoorBellStep
  <2>1. \E t \in Workers : \E pc, e, r : Goto(t, pc, e, r)
    BY <1>6 DEF MotionStep, SampleMotion, JudgeMotion, CalcDistance, DoorBellStep, RingBell,
                RingBellExpired, Workers, Loop
  <2> QED BY <1>0, <1>1, <2>1
<1>7. CASE ReadDoor
  <2>1. PICK data \in Get(DoorValues) : Goto("monitor", "door", event["monitor"], data)
    BY <1>7 DEF ReadDoor
  <2>2. reading'["monitor"] = data /\ data.value \in DoorValues
    BY <1>0, <2>1 DEF Goto, TypeOK, Get
  <2> QED BY <2>2 DEF DoorRead
<1>8. CASE MonitorStep /\ ~ReadDoor
  <2>1. \/ RebootCancel \/ RebootExec
        \/ \E pc \in {"loop", "busy", "open", "closed", "cancel"} :
             \E e, r : Goto("monitor", pc, e, r)
    BY <1>8 DEF MonitorStep, ReceiveFails, ForwardEvent, Door, DoorIsOpen, DoorIsClosed,
       DoorIsUnknown, PollDoor, ScanAgain, RetryEnd, Reboot, RebootTimers, RebootFails, Loop
  <2> QED BY <1>0, <1>1, <1>3, <2>1
<1>9. CASE (\E tm \in Timers : Expire(tm) \/ Handler(tm)) \/ RemoveQueue \/ UNCHANGED vars
  BY <1>2, <1>9 DEF Expire, Handler, HandlerStop, HandlerPost, RemoveQueue, vars, locals
<1> QED BY <1>4, <1>5, <1>6, <1>7, <1>8, <1>9 DEF Next, Step

LEMMA LiveInvNext ==
  ASSUME Faults = {}, DoorValues \subseteq {DOOR_OPEN, DOOR_CLOSED}, LiveInv, [Next]_vars
  PROVE  LiveInv'
<1>1. CycleInv' /\ TypeOK
  BY CycleInvNext DEF LiveInv, CycleInv, TokenInv
<1>2. Made' /\ DoorRead'
  BY <1>1, MadeNext, DoorReadNext DEF LiveInv
<1>3. ~TimerMissing /\ ~DoorIsUnknown /\ ~RebootFails
  BY DEF LiveInv, Made, DoorRead, TimerMissing, DoorIsUnknown, RebootFails
<1>4. Progress
  BY <1>3, StepMoves DEF LiveInv
<1>5. Phase' # "stalled"
  BY <1>4 DEF LiveInv, Progress, Cycle!Visit, Cycle!WaitOver, Cycle!SensorFailed,
     Cycle!Restart, Cycle!Leave, Cycle!Move, Same
<1> QED BY <1>1, <1>2, <1>5 DEF LiveInv

LEMMA NotStalled == CycleInv /\ Phase # "stalled" => NeverStalls
<1> SUFFICES ASSUME CycleInv, Phase # "stalled", up, Tokens = {} PROVE FALSE
  BY DEF NeverStalls
<1>1. Only({}, {}, {}, {})
  BY DEF Tokens, Only
<1>2. Awake
  BY <1>1, Members DEF Only, AtWork, Awake
<1> QED BY <1>1, <1>2, PhaseReads DEF PhaseRead, PhaseOfNothing

(* When nothing fails and the door is open or closed, something always     *)
(* goes on: no branch of a handler drops a visit, no timer is missing, and *)
(* no event is lost on the way from one thread to the next.                *)
THEOREM NeverStallsHolds ==
  Faults = {} /\ DoorValues \subseteq {DOOR_OPEN, DOOR_CLOSED} /\ Spec => []NeverStalls
<1> SUFFICES ASSUME Faults = {}, DoorValues \subseteq {DOOR_OPEN, DOOR_CLOSED}
             PROVE  Spec => []NeverStalls
  OBVIOUS
<1>1. Init => LiveInv
  <2> SUFFICES ASSUME Init PROVE LiveInv
    OBVIOUS
  <2>1. ~Awake /\ up /\ main = "boot" /\ \A t \in Threads : thread[t] = "none"
    BY Members DEF Init, FreshImage, Awake
  <2>2. Phase = "boot"
    BY <2>1, PhaseReads DEF PhaseRead, PhaseAsleep
  <2> QED BY <2>1, <2>2, CycleInvInit, Members DEF LiveInv, Made, DoorRead
<1>2. LiveInv /\ [Next]_vars => LiveInv'
  BY LiveInvNext
<1>3. LiveInv => NeverStalls
  BY NotStalled DEF LiveInv
<1> QED BY <1>1, <1>2, <1>3, PTL DEF Spec

-----------------------------------------------------------------------------
(* How often the bell rings for one visitor.                               *)

(* Before the bell rings again it has either not rung, or a wait for the   *)
(* door has been counted for every time it has.                            *)
RingsInv ==
  /\ rings \in 0..MaxRetry
  /\ Phase = "measure" \/ AtWork("motion") => rings = 0
  /\ Phase = "ring" => rings = 0 \/ (rings <= count /\ count < MaxRetry)
  /\ Phase \in {"ringing", "door", "wait"} =>
       rings <= 1 \/ (rings <= count + 1 /\ count < MaxRetry)

LEMMA OnlyRingBellRings ==
  ASSUME TypeOK, [Next]_vars, BellStarts
  PROVE  RingBell
<1>1. "door_bell" \in Timers /\ timer["door_bell"] # "armed" /\ timer'["door_bell"] = "armed"
  BY Members DEF BellStarts
<1>2. timer' # timer
  BY <1>1
<1>3. ASSUME NEW tm \in Timers, tm # "door_bell", StartTimer(tm) PROVE FALSE
  BY <1>1, <1>3 DEF StartTimer, TypeOK
<1>4. ~Main
  BY <1>1 DEF Main, Startup, Watch, CreateResources, CreateResourcesFails, LaunchThreads,
     LaunchThreadsFails, SetRunning, CreateTimers, CheckThreadDead, CheckThreadDeadFails,
     Shutdown, Exit, timing
<1>5. \A tm \in Timers : ~Expire(tm) /\ ~Handler(tm)
  BY <1>1 DEF Expire, Handler, HandlerStop, HandlerPost, StopTimer, TypeOK
<1>6. \A t \in Threads : ~(Wake(t) \/ Receive(t) \/ Reply(t) \/ SensorFails(t))
  BY <1>2 DEF Wake, Receive, Reply, SensorFails, Exit, timing
<1>7. ~MotionStep /\ ~CalcDistance /\ ~RingBellExpired
  BY <1>2 DEF MotionStep, SampleMotion, JudgeMotion, CalcDistance, RingBellExpired, timing
<1>8. ~MonitorStep
  BY <1>1, <1>2, <1>3, Members DEF MonitorStep, ReceiveFails, ForwardEvent, Door, ReadDoor,
     DoorIsOpen, DoorIsClosed, DoorIsUnknown, PollDoor, ScanAgain, RetryEnd, Reboot,
     RebootTimers, RebootCancel, RebootExec, RebootFails, FreshImage, timing
<1> QED BY <1>2, <1>4, <1>5, <1>6, <1>7, <1>8
   DEF Next, Step, DoorBellStep, RemoveQueue, timing, vars

(* The motion thread goes to work only when it reads MOTION_SCAN_ON.       *)
LEMMA MotionBegins ==
  ASSUME TypeOK, [Next]_vars, AtWork("motion")', ~AtWork("motion")
  PROVE  ScanBegins
<1>0. "motion" \in Threads /\ "motion" \in Workers /\ "motion" # "monitor"
  BY Members DEF Workers
<1>1. /\ thread["motion"] \in {"none", "sleep", "loop", "dead"}
      /\ thread'["motion"] \notin {"none", "sleep", "loop", "dead"}
  BY DEF AtWork
<1>2. ASSUME NEW t \in Threads, t # "motion", NEW pc, NEW e, NEW r, Goto(t, pc, e, r)
      PROVE  FALSE
  BY <1>0, <1>1, <1>2 DEF Goto, TypeOK
<1>3. ASSUME NEW pc \in {"loop", "dead"}, NEW e, NEW r, Goto("motion", pc, e, r) PROVE FALSE
  BY <1>0, <1>1, <1>3 DEF Goto, TypeOK
<1>4. CASE UNCHANGED thread
  BY <1>1, <1>4
<1>5. CASE Main
  <2>1. CASE LaunchThreads
    BY <1>0, <1>1, <2>1 DEF LaunchThreads
  <2>2. CASE ~LaunchThreads
    BY <1>4, <1>5, <2>2 DEF Main, Startup, Watch, CreateResources, CreateResourcesFails,
       LaunchThreadsFails, SetRunning, CreateTimers, CheckThreadDead, CheckThreadDeadFails,
       Shutdown, Exit, locals
  <2> QED BY <2>1, <2>2
<1>6. ASSUME NEW t \in Threads, Wake(t) \/ Receive(t) \/ Reply(t) \/ SensorFails(t)
      PROVE  ScanBegins
  <2>1. CASE Receive(t)
    <3>1. t = "motion"
      BY <1>2, <2>1 DEF Receive
    <3> QED BY <1>0, <2>1, <3>1 DEF Receive, Goto, TypeOK, ScanBegins
  <2>2. CASE ~Receive(t)
    <3>1. (\E pc \in {"loop", "dead"} : \E e, r : Goto(t, pc, e, r)) \/ UNCHANGED thread
      BY <1>6, <2>2 DEF Wake, Reply, Loop, SensorFails, Exit, locals
    <3> QED BY <1>2, <1>3, <1>4, <3>1
  <2> QED BY <2>1, <2>2
<1>7. ~MotionStep
  BY <1>1 DEF MotionStep, SampleMotion, ReadsSensor, JudgeMotion
<1>8. CASE CalcDistance \/ DoorBellStep
  <2>1. \E t \in {"distance", "doorbell"} : \E pc, e, r : Goto(t, pc, e, r)
    BY <1>8 DEF CalcDistance, DoorBellStep, RingBell, RingBellExpired, Loop
  <2> QED BY <1>2, <2>1, Members
<1>9. CASE MonitorStep
  <2>1. CASE RebootCancel \/ RebootExec
    BY <1>0, <1>1, <2>1 DEF RebootCancel, RebootExec, FreshImage
  <2>2. CASE ~RebootCancel /\ ~RebootExec
    <3>1. \E pc, e, r : Goto("monitor", pc, e, r)
      BY <1>9, <2>2 DEF MonitorStep, ReceiveFails, ForwardEvent, Door, ReadDoor, DoorIsOpen,
         DoorIsClosed, DoorIsUnknown, PollDoor, ScanAgain, RetryEnd, Reboot, RebootTimers,
         RebootFails, Loop
    <3> QED BY <1>0, <1>2, <3>1, Members
  <2> QED BY <2>1, <2>2
<1>10. CASE (\E tm \in Timers : Expire(tm) \/ Handler(tm)) \/ RemoveQueue \/ UNCHANGED vars
  BY <1>4, <1>10 DEF Expire, Handler, HandlerStop, HandlerPost, RemoveQueue, locals, vars
<1> QED BY <1>5, <1>6, <1>7, <1>8, <1>9, <1>10 DEF Next, Step

LEMMA RingsNext ==
  ASSUME "queue" \notin Faults, CycleInv, RingsInv, [ClaimsNext]_claimVars
  PROVE  RingsInv'
<1>0. TypeOK /\ [Next]_vars /\ count \in 0..MaxRetry /\ rings \in 0..MaxRetry
  BY DEF ClaimsNext, claimVars, vars, CycleInv, TokenInv, TypeOK, RingsInv
<1>1. rings' = (IF ScanBegins THEN 0 ELSE IF BellStarts THEN rings + 1 ELSE rings)
  BY DEF ClaimsNext, claimVars, vars, ScanBegins, BellStarts
<1>2. /\ Progress \/ Cycle!Stall
      /\ MeasureBegins => MotionStep
      /\ RingBegins => RingBell
  BY <1>0, StepMoves
<1>3. CASE ScanBegins
  BY <1>0, <1>1, <1>3, NextType DEF RingsInv, TypeOK, MaxRetry
<1>4. CASE ~ScanBegins /\ BellStarts
  <2>1. RingBell /\ up
    BY <1>0, <1>4, OnlyRingBellRings DEF Next, vars, BellStarts
  <2>2. Starts("door_bell", "ring", "ringing") /\ timer["door_bell"] # "none"
    BY <1>0, <1>4, <2>1, BellPhase, Members DEF RingBell, StartTimer, TypeOK, BellStarts
  <2>3. Phase = "ring" /\ Phase' = "ringing" /\ count' = count
    BY <2>2 DEF Starts, Cycle!Move
  <2>4. ~AtWork("motion")'
    <3>1. ~AtWork("motion")
      BY <2>1, TokenThread, Members DEF RingBell, AtWork, Only
    <3> QED BY <1>0, <1>4, <3>1, MotionBegins
  <2>5. rings = 0 \/ (rings <= count /\ count < MaxRetry)
    BY <2>3 DEF RingsInv
  <2> QED BY <1>0, <1>1, <1>4, <2>3, <2>4, <2>5 DEF RingsInv, MaxRetry
<1>5. CASE ~ScanBegins /\ ~BellStarts
  <2>1. rings' = rings
    BY <1>1, <1>5
  <2>2. AtWork("motion")' => AtWork("motion")
    BY <1>0, <1>5, MotionBegins
  <2>3. MeasureBegins => rings = 0
    BY <1>2 DEF RingsInv, MotionStep, SampleMotion, ReadsSensor, JudgeMotion, AtWork
  <2>4. ~RingBegins
    <3> SUFFICES ASSUME RingBegins PROVE FALSE
      OBVIOUS
    <3>1. RingBell /\ up
      <4>1. RingBell
        BY <1>2
      <4>2. thread["doorbell"] = "busy" /\ thread'["doorbell"] = "loop"
        BY <1>0, <4>1, Members DEF RingBell, Loop, Goto, TypeOK
      <4> QED BY <1>0, <4>1, <4>2 DEF Next, vars
    <3>2. Starts("door_bell", "ring", "ringing")
      BY <3>1, BellPhase
    <3>3. timer["door_bell"] # "none"
      BY <3>2 DEF Starts, Cycle!Move, RingBegins
    <3>4. timer["door_bell"] # "armed"
      BY <3>1, TokenThread, Members DEF RingBell, AtWork, Only
    <3> QED BY <1>0, <1>5, <3>1, <3>3, <3>4, Members
       DEF RingBell, StartTimer, TypeOK, BellStarts
  <2>5. \/ Same /\ ~MeasureBegins
        \/ Phase' \notin {"measure", "ring", "ringing", "door", "wait"}
        \/ Phase' = "measure" /\ MeasureBegins
        \/ Phase' = "ring" /\ Phase = "measure"
        \/ Phase' = "ring" /\ Phase = "wait" /\ count' = count + 1 /\ count' < MaxRetry
        \/ Phase' \in {"door", "wait"} /\ Phase \in {"ringing", "door"} /\ count' = count
    BY <1>0, <1>2, <2>4 DEF Progress, Same, Cycle!Visit, Cycle!WaitOver,
       Cycle!SensorFailed, Cycle!Restart, Cycle!Leave, Cycle!Stall, Cycle!Move,
       MeasureBegins, RingBegins, MaxRetry
  <2> QED BY <1>0, <2>1, <2>2, <2>3, <2>5 DEF RingsInv, Same, MaxRetry
<1> QED BY <1>3, <1>4, <1>5

(* Whatever the sensors say and whatever fails, the bell rings at most     *)
(* three times before the motion sensor is told to scan again.             *)
THEOREM AtMostThreeRingsHolds == "queue" \notin Faults /\ ClaimsSpec => []AtMostThreeRings
<1> SUFFICES ASSUME "queue" \notin Faults PROVE ClaimsSpec => []AtMostThreeRings
  OBVIOUS
<1>1. ClaimsInit => CycleInv /\ RingsInv
  <2> SUFFICES ASSUME Init, rings = 0 PROVE CycleInv /\ RingsInv
    BY DEF ClaimsInit
  <2>1. ~Awake /\ up /\ ~AtWork("motion")
    BY Members DEF Init, FreshImage, Awake, AtWork
  <2>2. Phase = "boot"
    BY <2>1, PhaseReads DEF PhaseRead, PhaseAsleep
  <2> QED BY <2>1, <2>2, CycleInvInit DEF RingsInv, MaxRetry
<1>2. CycleInv /\ RingsInv /\ [ClaimsNext]_claimVars => CycleInv' /\ RingsInv'
  <2>1. [ClaimsNext]_claimVars => [Next]_vars
    BY DEF ClaimsNext, claimVars
  <2> QED BY <2>1, CycleInvNext, RingsNext
<1>3. RingsInv => AtMostThreeRings
  BY DEF RingsInv, AtMostThreeRings, MaxRetry
<1> QED BY <1>1, <1>2, <1>3, PTL DEF ClaimsSpec
=============================================================================
