--------------------------- MODULE DoorBellProofs ---------------------------
(***************************************************************************)
(* Theorems about DoorBell, for every choice of sensor values, capacities, *)
(* descriptor limit and faults: type correctness, and that one thing at    *)
(* most is going on as long as nobody removes the queue of the running     *)
(* program.                                                                *)
(***************************************************************************)
EXTENDS DoorBellCycle, TLAPS

LEMMA InitType == Init => TypeOK
<1> SUFFICES ASSUME Init PROVE TypeOK
  OBVIOUS
<1> USE DEF Init, FreshImage
<1>1. inbox \in [Threads -> Seq(Events)]
  <2>1. \A e \in Understood("monitor") : <<e>> \in Seq(Events)
    BY DEF Understood, Events
  <2>2. <<>> \in Seq(Events)
    OBVIOUS
  <2>3. PICK left \in Seq(Events) :
          inbox = [t \in Threads |-> IF t = "monitor" THEN left ELSE <<>>]
    BY <2>1, <2>2
  <2>4. QED
    BY <2>2, <2>3
<1>2. /\ up \in BOOLEAN /\ running \in BOOLEAN /\ queueOk \in BOOLEAN
      /\ main \in {"boot", "launch", "flags", "timers", "watch", "shutdown"}
      /\ thread \in [Threads -> Pcs]
      /\ event \in [Threads -> Events]
      /\ reading \in [Threads -> Readings \cup {NoReading}]
  BY DEF Pcs, Events
<1>3. /\ timer \in [Timers -> {"none", "idle", "armed"}]
      /\ handler \in [Timers -> {"none", "stop", "post"}]
      /\ count \in 0..MaxRetry
      /\ fds \in Nat
  BY DEF StdFds, MaxRetry
<1>4. QED
  BY <1>1, <1>2, <1>3 DEF TypeOK

(* A program that has exited keeps its types.                              *)
LEMMA ExitType == TypeOK /\ Exit => TypeOK'
BY DEF TypeOK, Exit, locals, timing

LEMMA MainType == TypeOK /\ up /\ Main => TypeOK'
<1> SUFFICES ASSUME TypeOK, up, Main PROVE TypeOK'
  OBVIOUS
<1>1. CASE CreateResources
  BY <1>1 DEF CreateResources, TypeOK, locals, timing, PipesFds
<1>2. CASE LaunchThreads
  BY <1>2 DEF LaunchThreads, TypeOK, Pcs, timing
<1>3. CASE SetRunning
  BY <1>3 DEF SetRunning, TypeOK, locals, timing
<1>4. CASE CreateTimers
  BY <1>4 DEF CreateTimers, TypeOK, locals
<1>5. CASE CheckThreadDead
  BY <1>5 DEF CheckThreadDead, TypeOK, locals, timing
<1>6. CASE Exit
  BY <1>6, ExitType
<1>7. QED
  BY <1>1, <1>2, <1>3, <1>4, <1>5, <1>6
     DEF Main, Startup, Watch, CreateResourcesFails, LaunchThreadsFails,
         CheckThreadDeadFails, Shutdown

LEMMA Members ==
  /\ \A x \in {"loop", "busy", "sampled", "reply", "door", "open", "closed",
               "cancel", "exec", "dead"} : x \in Pcs
  /\ \A x \in {"INVALID", "MOTION_DETECTED", "CALC_DISTANCE",
               "MOTION_SCAN_ON", "INVALID_DISTANCE", "VALID_DISTANCE",
               "RING_BELL", "RING_BELL_EXPIRY", "ECU_NOT_WORKING",
               "DOOR_WAIT_EXPIRY", "DOOR_WAIT_RETRY_END"} : x \in Events
  /\ NoReading \in Readings \cup {NoReading}
  /\ \A x \in {"monitor", "motion", "distance", "doorbell"} : x \in Threads
  /\ \A x \in {"door_bell", "door_open_wait", "reset_states"} : x \in Timers
BY DEF Pcs, Events, Threads, Workers, Timers

(* A thread step moves one thread on, and may post or set a timer.         *)
LEMMA GotoType ==
  ASSUME TypeOK, NEW t \in Threads, NEW pc \in Pcs, NEW e \in Events,
         NEW r \in Readings \cup {NoReading}, Goto(t, pc, e, r),
         inbox' \in [Threads -> Seq(Events)],
         timer' \in [Timers -> {"none", "idle", "armed"}],
         UNCHANGED <<process, queueOk, handler, count>>
  PROVE  TypeOK'
BY DEF TypeOK, Goto, process

LEMMA PostType ==
  ASSUME TypeOK, NEW t \in Threads, NEW e \in Events, Post(t, e)
  PROVE  inbox' \in [Threads -> Seq(Events)]
BY DEF TypeOK, Post

LEMMA PostToQType ==
  ASSUME TypeOK, NEW e \in Events, PostToQ(e)
  PROVE  inbox' \in [Threads -> Seq(Events)]
<1>1. "monitor" \in Threads
  BY DEF Threads
<1>2. CASE queueOk
  <2>1. inbox["monitor"] \in Seq(Events)
    BY <1>1 DEF TypeOK
  <2>2. Append(inbox["monitor"], e) \in Seq(Events)
    BY <2>1
  <2>3. QED
    BY <1>2, <2>2 DEF PostToQ, TypeOK
<1>3. CASE ~queueOk
  BY <1>3 DEF PostToQ, TypeOK
<1>4. QED
  BY <1>2, <1>3 DEF TypeOK

LEMMA TimerType ==
  ASSUME TypeOK, NEW tm \in Timers, StartTimer(tm) \/ StopTimer(tm)
  PROVE  timer' \in [Timers -> {"none", "idle", "armed"}]
BY DEF TypeOK, StartTimer, StopTimer

LEMMA GetType ==
  /\ Get(MotionValues) \subseteq Readings
  /\ Get(DistanceValues) \subseteq Readings
  /\ Get(DoorValues) \subseteq Readings
BY DEF Get, Readings

LEMMA CommonStepType ==
  ASSUME TypeOK, NEW t \in Threads,
         Wake(t) \/ Receive(t) \/ Reply(t) \/ SensorFails(t)
  PROVE  TypeOK'
<1> USE DEF timing
<1>1. /\ event[t] \in Events /\ inbox[t] \in Seq(Events)
      /\ timer \in [Timers -> {"none", "idle", "armed"}]
      /\ inbox \in [Threads -> Seq(Events)]
  BY DEF TypeOK
<1>2. CASE Wake(t)
  <2>1. inbox' \in [Threads -> Seq(Events)]
    BY <1>1, <1>2, Members, PostType DEF Wake
  <2>2. CASE running
    <3>1. Goto(t, "loop", "INVALID", NoReading)
      BY <1>2, <2>2 DEF Wake
    <3>2. QED
      BY <1>1, <1>2, <2>1, <3>1, Members, GotoType DEF Wake
  <2>3. CASE ~running
    <3>1. Goto(t, "dead", "INVALID", NoReading)
      BY <1>2, <2>3 DEF Wake
    <3>2. QED
      BY <1>1, <1>2, <2>1, <3>1, Members, GotoType DEF Wake
  <2>4. QED
    BY <2>2, <2>3
<1>3. CASE Receive(t)
  <2>1. Head(inbox[t]) \in Events /\ Tail(inbox[t]) \in Seq(Events)
    BY <1>1, <1>3 DEF Receive
  <2>2. inbox' \in [Threads -> Seq(Events)]
    BY <1>1, <1>3, <2>1 DEF Receive
  <2>3. QED
    BY <1>1, <1>3, <2>1, <2>2, Members, GotoType DEF Receive
<1>4. CASE Reply(t)
  <2>1. inbox' \in [Threads -> Seq(Events)]
    BY <1>1, <1>4, PostToQType DEF Reply
  <2>2. QED
    BY <1>1, <1>4, <2>1, Members, GotoType DEF Reply, Loop
<1>5. CASE SensorFails(t)
  BY <1>5, ExitType DEF SensorFails
<1>6. QED
  BY <1>2, <1>3, <1>4, <1>5

LEMMA WorkerStepType ==
  ASSUME TypeOK, MotionStep \/ CalcDistance \/ DoorBellStep
  PROVE  TypeOK'
<1> USE DEF timing
<1>1. /\ \A t \in Threads : event[t] \in Events
      /\ timer \in [Timers -> {"none", "idle", "armed"}]
      /\ inbox \in [Threads -> Seq(Events)]
  BY DEF TypeOK
<1>2. CASE SampleMotion
  <2>1. PICK data \in Get(MotionValues) : Goto("motion", "sampled", event["motion"], data)
    BY <1>2 DEF SampleMotion
  <2>2. data \in Readings \cup {NoReading}
    BY GetType
  <2>3. QED
    BY <1>1, <1>2, <2>1, <2>2, Members, GotoType DEF SampleMotion
<1>3. CASE JudgeMotion
  BY <1>1, <1>3, Members, GotoType DEF JudgeMotion
<1>4. CASE CalcDistance
  <2>1. PICK data \in Get(DistanceValues) :
          Goto("distance", "reply", DistanceEvent(data), NoReading)
    BY <1>4 DEF CalcDistance
  <2>2. DistanceEvent(data) \in Events
    BY Members DEF DistanceEvent
  <2>3. QED
    BY <1>1, <1>4, <2>1, <2>2, Members, GotoType DEF CalcDistance
<1>5. CASE RingBell
  BY <1>1, <1>5, Members, TimerType, GotoType DEF RingBell, Loop
<1>6. CASE RingBellExpired
  BY <1>1, <1>6, Members, GotoType DEF RingBellExpired
<1>7. QED
  BY <1>2, <1>3, <1>4, <1>5, <1>6 DEF MotionStep, DoorBellStep

LEMMA MonitorStepType ==
  ASSUME TypeOK, MonitorStep
  PROVE  TypeOK'
<1> USE DEF timing
<1>1. /\ event["monitor"] \in Events
      /\ timer \in [Timers -> {"none", "idle", "armed"}]
      /\ inbox \in [Threads -> Seq(Events)]
  BY Members DEF TypeOK
<1>2. CASE ReceiveFails
  BY <1>1, <1>2, Members, GotoType DEF ReceiveFails
<1>3. CASE ForwardEvent
  <2>1. PICK row \in Forward : Post(row[2], row[3])
    BY <1>3 DEF ForwardEvent
  <2>2. row[2] \in Threads /\ row[3] \in Events
    BY Members DEF Forward
  <2>3. inbox' \in [Threads -> Seq(Events)]
    BY <2>1, <2>2, PostType
  <2>4. QED
    BY <1>1, <1>3, <2>3, Members, GotoType DEF ForwardEvent, Loop
<1>4. CASE ReadDoor
  <2>1. PICK data \in Get(DoorValues) : Goto("monitor", "door", event["monitor"], data)
    BY <1>4 DEF ReadDoor
  <2>2. data \in Readings \cup {NoReading}
    BY GetType
  <2>3. QED
    BY <1>1, <1>4, <2>1, <2>2, Members, GotoType DEF ReadDoor
<1>5. CASE PollDoor
  <2>1. PICK pc \in {"open", "closed"} : Goto("monitor", pc, event["monitor"], NoReading)
    BY <1>5 DEF PollDoor
  <2>2. QED
    BY <1>1, <1>5, <2>1, Members, GotoType DEF PollDoor
<1>6. CASE DoorIsOpen \/ DoorIsUnknown
  BY <1>1, <1>6, Members, GotoType DEF DoorIsOpen, DoorIsUnknown, Loop
<1>7. CASE DoorIsClosed \/ RetryEnd
  BY <1>1, <1>7, Members, TimerType, GotoType DEF DoorIsClosed, RetryEnd, Loop
<1>8. CASE ScanAgain
  <2>1. inbox' \in [Threads -> Seq(Events)]
    BY <1>8, Members, PostType DEF ScanAgain
  <2>2. QED
    BY <1>1, <1>8, <2>1, Members, GotoType DEF ScanAgain, Loop
<1>9. CASE RebootTimers
  BY <1>1, <1>9, Members, GotoType DEF RebootTimers
<1>10. CASE RebootCancel
  BY <1>10, Members DEF RebootCancel, TypeOK, process
<1>11. CASE RebootExec
  <2>1. /\ thread' \in [Threads -> Pcs]
        /\ event' \in [Threads -> Events]
        /\ reading' \in [Threads -> Readings \cup {NoReading}]
        /\ timer' \in [Timers -> {"none", "idle", "armed"}]
        /\ handler' \in [Timers -> {"none", "stop", "post"}]
    BY <1>11 DEF RebootExec, FreshImage, Pcs, Events
  <2>2. inbox' \in [Threads -> Seq(Events)]
    BY <1>1, <1>11 DEF RebootExec
  <2>3. /\ main' = "boot" /\ running' = FALSE /\ count' = 0 /\ queueOk' = FALSE
        /\ UNCHANGED <<up, fds>>
    BY <1>11 DEF RebootExec, FreshImage
  <2>4. up' \in BOOLEAN /\ running' \in BOOLEAN /\ queueOk' \in BOOLEAN /\ fds' \in Nat
    BY <2>3 DEF TypeOK
  <2>5. count' \in 0..MaxRetry
    BY <2>3 DEF MaxRetry
  <2>6. QED
    BY <2>1, <2>2, <2>3, <2>4, <2>5 DEF TypeOK
<1>12. CASE RebootFails
  BY <1>1, <1>12, Members, GotoType DEF RebootFails, Loop
<1>13. QED
  BY <1>2, <1>3, <1>4, <1>5, <1>6, <1>7, <1>8, <1>9, <1>10, <1>11, <1>12
     DEF MonitorStep, Door, Reboot

LEMMA TimerStepType ==
  ASSUME TypeOK, NEW tm \in Timers, Expire(tm) \/ Handler(tm)
  PROVE  TypeOK'
<1> USE DEF process, locals
<1>1. CASE Expire(tm)
  BY <1>1 DEF Expire, TypeOK
<1>2. CASE HandlerStop(tm)
  BY <1>2, TimerType DEF HandlerStop, TypeOK, MaxRetry
<1>3. CASE HandlerPost(tm)
  <2>1. inbox' \in [Threads -> Seq(Events)]
    BY <1>3, Members, PostType, PostToQType DEF HandlerPost
  <2>2. QED
    BY <1>3, <2>1 DEF HandlerPost, TypeOK
<1>4. QED
  BY <1>1, <1>2, <1>3 DEF Handler

LEMMA NextType == TypeOK /\ [Next]_vars => TypeOK'
<1> SUFFICES ASSUME TypeOK, [Next]_vars PROVE TypeOK'
  OBVIOUS
<1>1. CASE up /\ Main
  BY <1>1, MainType
<1>2. ASSUME NEW t \in Threads, Step(t) PROVE TypeOK'
  BY <1>2, CommonStepType, WorkerStepType, MonitorStepType DEF Step
<1>3. ASSUME NEW tm \in Timers, Expire(tm) \/ Handler(tm) PROVE TypeOK'
  BY <1>3, TimerStepType
<1>4. CASE RemoveQueue
  <2>1. inbox' \in [Threads -> Seq(Events)]
    <3>1. <<>> \in Seq(Events)
      OBVIOUS
    <3>2. QED
      BY <1>4, <3>1 DEF RemoveQueue, TypeOK
  <2>2. queueOk' = FALSE /\ UNCHANGED <<process, locals, timing>>
    BY <1>4 DEF RemoveQueue
  <2>3. QED
    BY <2>1, <2>2 DEF TypeOK, process, locals, timing
<1>5. CASE UNCHANGED vars
  BY <1>5 DEF vars, TypeOK
<1>6. QED
  BY <1>1, <1>2, <1>3, <1>4, <1>5 DEF Next

(* Every variable keeps its type, whatever fails.                          *)
THEOREM TypeCorrect == Spec => []TypeOK
BY InitType, NextType, PTL DEF Spec

-----------------------------------------------------------------------------
(* SingleToken is almost inductive: a step takes the token from one place  *)
(* and leaves it, or drops it, at another.  What has to be added is how    *)
(* the program starts: a second token could come from a thread or a timer  *)
(* that is there before main() made it, or from a msgrcv() that fails.     *)

(* Threads exist from LaunchThreads on, timers and handlers after boot,    *)
(* and the queue exists once main() has made it.                           *)
StartOk ==
  /\ main \in {"boot", "launch"} => \A t \in Threads : thread[t] = "none"
  /\ main = "boot" => \A tm \in Timers : timer[tm] = "none" /\ handler[tm] = "none"
  /\ main # "boot" => queueOk

Single ==
  /\ \A t \in Threads : Len(inbox[t]) <= 1
  /\ \A a, b \in Tokens : a = b

TokenInv == TypeOK /\ StartOk /\ SingleToken

(* A token is nowhere but in the inboxes I, the threads W, the timers A    *)
(* and the handlers H.                                                     *)
Only(I, W, A, H) ==
  /\ \A t \in Threads : t \notin I => inbox[t] = <<>>
  /\ \A t \in Threads : t \notin W => ~AtWork(t)
  /\ \A tm \in Timers : tm \notin A => timer[tm] # "armed"
  /\ \A tm \in Timers : tm \notin H => handler[tm] = "none"

(* Where one token is, there is no other.                                  *)
LEMMA InboxAlone ==
  ASSUME Single, NEW t \in Threads, inbox[t] # <<>>
  PROVE  Only({t}, {}, {}, {})
<1>1. <<"inbox", t>> \in Tokens
  BY DEF Tokens
<1>2. \A a \in Tokens : a = <<"inbox", t>>
  BY <1>1 DEF Single
<1>3. QED
  BY <1>2 DEF Only, Tokens

LEMMA ThreadAlone ==
  ASSUME Single, NEW t \in Threads, AtWork(t)
  PROVE  Only({}, {t}, {}, {})
<1>1. <<"thread", t>> \in Tokens
  BY DEF Tokens
<1>2. \A a \in Tokens : a = <<"thread", t>>
  BY <1>1 DEF Single
<1>3. QED
  BY <1>2 DEF Only, Tokens

LEMMA TimerAlone ==
  ASSUME Single, NEW tm \in Timers, timer[tm] = "armed"
  PROVE  Only({}, {}, {tm}, {})
<1>1. <<"timer", tm>> \in Tokens
  BY DEF Tokens
<1>2. \A a \in Tokens : a = <<"timer", tm>>
  BY <1>1 DEF Single
<1>3. QED
  BY <1>2 DEF Only, Tokens

LEMMA HandlerAlone ==
  ASSUME Single, NEW tm \in Timers, handler[tm] # "none"
  PROVE  Only({}, {}, {}, {tm})
<1>1. <<"handler", tm>> \in Tokens
  BY DEF Tokens
<1>2. \A a \in Tokens : a = <<"handler", tm>>
  BY <1>1 DEF Single
<1>3. QED
  BY <1>2 DEF Only, Tokens

(* And conversely, in the next state, if it is in one place at most.       *)
LEMMA AloneIsSingle ==
  ASSUME NEW t \in Threads, NEW tm \in Timers,
         \/ Only({t}, {}, {}, {})' /\ Len(inbox'[t]) <= 1
         \/ Only({}, {t}, {}, {})'
         \/ Only({}, {}, {tm}, {})'
         \/ Only({}, {}, {}, {tm})'
  PROVE  Single'
<1> USE DEF Only, Tokens, Single
<1>1. Len(<<>>) = 0
  OBVIOUS
<1>2. CASE Only({t}, {}, {}, {})' /\ Len(inbox'[t]) <= 1
  <2>1. \A a \in Tokens' : a = <<"inbox", t>>
    BY <1>2
  <2>2. \A u \in Threads : Len(inbox'[u]) <= 1
    BY <1>1, <1>2
  <2>3. QED
    BY <2>1, <2>2
<1>3. CASE Only({}, {t}, {}, {})'
  <2>1. \A a \in Tokens' : a = <<"thread", t>>
    BY <1>3
  <2>2. \A u \in Threads : Len(inbox'[u]) <= 1
    BY <1>1, <1>3
  <2>3. QED
    BY <2>1, <2>2
<1>4. CASE Only({}, {}, {tm}, {})'
  <2>1. \A a \in Tokens' : a = <<"timer", tm>>
    BY <1>4
  <2>2. \A u \in Threads : Len(inbox'[u]) <= 1
    BY <1>1, <1>4
  <2>3. QED
    BY <2>1, <2>2
<1>5. CASE Only({}, {}, {}, {tm})'
  <2>1. \A a \in Tokens' : a = <<"handler", tm>>
    BY <1>5
  <2>2. \A u \in Threads : Len(inbox'[u]) <= 1
    BY <1>1, <1>5
  <2>3. QED
    BY <2>1, <2>2
<1>6. QED
  BY <1>2, <1>3, <1>4, <1>5

-----------------------------------------------------------------------------
(* The moves of a token.                                                   *)

(* What a write to a pipe and a msgsnd() have in common.                   *)
Deliver(u, x) == inbox' = [inbox EXCEPT ![u] = Append(@, x)]

LEMMA FromThread ==
  ASSUME TypeOK, NEW t \in Threads, Only({}, {t}, {}, {}),
         NEW pc, NEW e, NEW r, Goto(t, pc, e, r),
         UNCHANGED handler,
         \/ UNCHANGED <<inbox, timer>>
         \/ /\ pc \in {"loop", "dead"} /\ UNCHANGED timer
            /\ \E u \in Threads, x \in Events : Deliver(u, x)
         \/ /\ pc = "loop" /\ UNCHANGED inbox
            /\ \E tm \in Timers : StartTimer(tm)
  PROVE  Single'
<1> USE DEF Only, AtWork, Goto
<1>0. thread \in [Threads -> Pcs] /\ inbox \in [Threads -> Seq(Events)]
      /\ timer \in [Timers -> {"none", "idle", "armed"}]
  BY DEF TypeOK
<1>1. \A u \in Threads : u # t => thread'[u] = thread[u]
  BY <1>0
<1>2. CASE UNCHANGED <<inbox, timer>>
  BY <1>1, <1>2, Members, AloneIsSingle
<1>3. ASSUME pc \in {"loop", "dead"}, UNCHANGED timer,
             NEW u \in Threads, NEW x \in Events, Deliver(u, x)
      PROVE  Single'
  <2>1. inbox[u] = <<>>
    OBVIOUS
  <2>2. inbox'[u] = Append(inbox[u], x) /\ \A v \in Threads : v # u => inbox'[v] = <<>>
    BY <1>0, <1>3 DEF Deliver
  <2>3. Len(inbox'[u]) <= 1
    BY <2>1, <2>2
  <2>4. Only({u}, {}, {}, {})'
    BY <1>0, <1>1, <1>3, <2>2
  <2>5. QED
    BY <2>3, <2>4, Members, AloneIsSingle
<1>4. ASSUME pc = "loop", UNCHANGED inbox, NEW tm \in Timers, StartTimer(tm)
      PROVE  Single'
  <2>1. Only({}, {}, {tm}, {})'
    BY <1>0, <1>1, <1>4 DEF StartTimer
  <2>2. QED
    BY <2>1, Members, AloneIsSingle
<1>5. QED
  BY <1>2, <1>3, <1>4

LEMMA FromInbox ==
  ASSUME TypeOK, Single, NEW t \in Threads, Receive(t)
  PROVE  Single'
<1>0. thread \in [Threads -> Pcs] /\ inbox \in [Threads -> Seq(Events)]
  BY DEF TypeOK
<1>1. Only({t}, {}, {}, {}) /\ Len(inbox[t]) <= 1
  BY InboxAlone DEF Receive, Single
<1>2. inbox'[t] = <<>> /\ \A u \in Threads : u # t => inbox'[u] = inbox[u]
  BY <1>0, <1>1 DEF Receive
<1>3. \A u \in Threads : u # t => thread'[u] = thread[u]
  BY <1>0 DEF Receive, Goto
<1>4. Only({}, {t}, {}, {})'
  BY <1>1, <1>2, <1>3 DEF Only, AtWork, Receive, timing
<1>5. QED
  BY <1>4, Members, AloneIsSingle

LEMMA FromTimer ==
  ASSUME TypeOK, Single, NEW tm \in Timers, Expire(tm)
  PROVE  Single'
<1>0. timer \in [Timers -> {"none", "idle", "armed"}]
      /\ handler \in [Timers -> {"none", "stop", "post"}]
  BY DEF TypeOK
<1>1. Only({}, {}, {tm}, {})
  BY TimerAlone DEF Expire
<1>2. Only({}, {}, {}, {tm})'
  BY <1>0, <1>1 DEF Expire, Only, AtWork, locals
<1>3. QED
  BY <1>2, Members, AloneIsSingle

LEMMA FromHandler ==
  ASSUME TypeOK, Single, queueOk, NEW tm \in Timers, Handler(tm)
  PROVE  Single'
<1>0. /\ timer \in [Timers -> {"none", "idle", "armed"}]
      /\ handler \in [Timers -> {"none", "stop", "post"}]
      /\ inbox \in [Threads -> Seq(Events)]
  BY DEF TypeOK
<1>1. Only({}, {}, {}, {tm})
  BY HandlerAlone DEF Handler, HandlerStop, HandlerPost
<1>2. CASE HandlerStop(tm)
  <2>1. Only({}, {}, {}, {tm})'
    BY <1>0, <1>1, <1>2 DEF HandlerStop, StopTimer, Only, AtWork, locals
  <2>2. QED
    BY <2>1, Members, AloneIsSingle
<1>3. CASE HandlerPost(tm)
  <2>1. PICK u \in Threads, x \in Events : Deliver(u, x)
    BY <1>3, Members DEF HandlerPost, Post, PostToQ, Deliver
  <2>2. inbox[u] = <<>>
    BY <1>1 DEF Only
  <2>3. inbox'[u] = Append(inbox[u], x) /\ \A v \in Threads : v # u => inbox'[v] = <<>>
    BY <1>0, <1>1, <2>1 DEF Only, Deliver
  <2>4. Len(inbox'[u]) <= 1
    BY <2>2, <2>3
  <2>5. Only({u}, {}, {}, {})'
    BY <1>0, <1>1, <1>3, <2>3 DEF HandlerPost, Only, AtWork, locals
  <2>6. QED
    BY <2>4, <2>5, Members, AloneIsSingle
<1>4. QED
  BY <1>2, <1>3 DEF Handler

(* A step after which there are no tokens but those there were.            *)
LEMMA NoNewToken ==
  ASSUME Single, Tokens' \subseteq Tokens, UNCHANGED inbox
  PROVE  Single'
BY DEF Single

LEMMA CommonStepToken ==
  ASSUME TypeOK, Single, queueOk, NEW t \in Threads,
         Wake(t) \/ Receive(t) \/ Reply(t) \/ SensorFails(t)
  PROVE  Single'
<1>0. thread \in [Threads -> Pcs] /\ event \in [Threads -> Events]
  BY DEF TypeOK
<1>1. CASE Wake(t)
  <2>1. PICK pc \in {"loop", "dead"} : Goto(t, pc, "INVALID", NoReading)
    BY <1>1 DEF Wake
  <2>2. CASE t = "monitor"
    <3>1. Only({}, {t}, {}, {})
      BY <1>1, <2>2, ThreadAlone DEF Wake, AtWork
    <3>2. Deliver("motion", "MOTION_SCAN_ON") /\ UNCHANGED <<timer, handler>>
      BY <1>1, <2>2 DEF Wake, Post, Deliver, timing
    <3>3. QED
      BY <2>1, <3>1, <3>2, Members, FromThread
  <2>3. CASE t # "monitor"
    <3>1. UNCHANGED <<inbox, timer, handler>>
      BY <1>1, <2>3 DEF Wake, timing
    <3>2. \A u \in Threads : AtWork(u)' => AtWork(u)
      BY <1>0, <2>1 DEF Goto, AtWork
    <3>3. QED
      BY <3>1, <3>2, NoNewToken DEF Tokens
  <2>4. QED
    BY <2>2, <2>3
<1>2. CASE Receive(t)
  BY <1>2, FromInbox
<1>3. CASE Reply(t)
  <2>1. Only({}, {t}, {}, {})
    BY <1>3, ThreadAlone DEF Reply, AtWork
  <2>2. Deliver("monitor", event[t]) /\ UNCHANGED <<timer, handler>>
    BY <1>3 DEF Reply, PostToQ, Deliver, timing
  <2>3. QED
    BY <1>0, <1>3, <2>1, <2>2, Members, FromThread DEF Reply, Loop
<1>4. CASE SensorFails(t)
  BY <1>4, NoNewToken DEF SensorFails, Exit, Tokens, AtWork, locals, timing
<1>5. QED
  BY <1>1, <1>2, <1>3, <1>4

LEMMA WorkerStepToken ==
  ASSUME TypeOK, Single, MotionStep \/ CalcDistance \/ DoorBellStep
  PROVE  Single'
<1> USE Members DEF Loop, timing
<1>1. CASE MotionStep
  <2>1. Only({}, {"motion"}, {}, {})
    BY <1>1, ThreadAlone DEF MotionStep, SampleMotion, JudgeMotion, ReadsSensor, AtWork
  <2>2. \E pc, e, r : Goto("motion", pc, e, r)
    BY <1>1 DEF MotionStep, SampleMotion, JudgeMotion
  <2>3. UNCHANGED <<inbox, timer, handler>>
    BY <1>1 DEF MotionStep, SampleMotion, JudgeMotion
  <2>4. QED
    BY <2>1, <2>2, <2>3, FromThread
<1>2. CASE CalcDistance
  <2>1. Only({}, {"distance"}, {}, {})
    BY <1>2, ThreadAlone DEF CalcDistance, ReadsSensor, AtWork
  <2>2. \E pc, e, r : Goto("distance", pc, e, r)
    BY <1>2 DEF CalcDistance
  <2>3. UNCHANGED <<inbox, timer, handler>>
    BY <1>2 DEF CalcDistance
  <2>4. QED
    BY <2>1, <2>2, <2>3, FromThread
<1>3. CASE DoorBellStep
  <2>1. Only({}, {"doorbell"}, {}, {})
    BY <1>3, ThreadAlone DEF DoorBellStep, RingBell, RingBellExpired, AtWork
  <2>2. CASE RingBell
    BY <2>1, <2>2, FromThread DEF RingBell
  <2>3. CASE RingBellExpired
    BY <2>1, <2>3, FromThread DEF RingBellExpired
  <2>4. QED
    BY <1>3, <2>2, <2>3 DEF DoorBellStep
<1>4. QED
  BY <1>1, <1>2, <1>3

LEMMA MonitorStepToken ==
  ASSUME TypeOK, Single, queueOk, MonitorStep, ~RebootExec
  PROVE  Single'
<1> USE Members DEF Loop, timing
<1>1. Only({}, {"monitor"}, {}, {})
  BY ThreadAlone
     DEF MonitorStep, ReceiveFails, ForwardEvent, Door, ReadDoor, DoorIsOpen,
         DoorIsClosed, DoorIsUnknown, PollDoor, ScanAgain, RetryEnd, Reboot,
         RebootTimers, RebootCancel, RebootFails, ReadsSensor, Handling, AtWork
<1>2. CASE ForwardEvent
  <2>1. PICK row \in Forward : Post(row[2], row[3])
    BY <1>2 DEF ForwardEvent
  <2>2. row[2] \in Threads /\ row[3] \in Events
    BY DEF Forward
  <2>3. Deliver(row[2], row[3])
    BY <2>1 DEF Post, Deliver
  <2>4. QED
    BY <1>1, <1>2, <2>2, <2>3, FromThread DEF ForwardEvent
<1>3. CASE ReadDoor \/ PollDoor
  <2>1. \E pc, e, r : Goto("monitor", pc, e, r)
    BY <1>3 DEF ReadDoor, PollDoor
  <2>2. UNCHANGED <<inbox, timer, handler>>
    BY <1>3 DEF ReadDoor, PollDoor
  <2>3. QED
    BY <1>1, <2>1, <2>2, FromThread
<1>4. CASE DoorIsOpen \/ DoorIsUnknown \/ RebootFails
  BY <1>1, <1>4, FromThread DEF DoorIsOpen, DoorIsUnknown, RebootFails
<1>5. CASE DoorIsClosed \/ RetryEnd
  BY <1>1, <1>5, FromThread DEF DoorIsClosed, RetryEnd
<1>6. CASE ScanAgain
  BY <1>1, <1>6, FromThread DEF ScanAgain, Post, Deliver
<1>7. CASE RebootTimers
  <2>1. \A tm \in Timers : timer'[tm] # "armed"
    BY <1>7 DEF RebootTimers
  <2>2. \A u \in Threads : AtWork(u)' => u = "monitor"
    BY <1>1, <1>7 DEF RebootTimers, Goto, Only, AtWork, TypeOK
  <2>3. Only({}, {"monitor"}, {}, {})'
    BY <1>1, <1>7, <2>1, <2>2 DEF RebootTimers, Only
  <2>4. QED
    BY <2>3, AloneIsSingle
<1>8. CASE RebootCancel
  <2>1. Only({}, {"monitor"}, {}, {})'
    BY <1>1, <1>8 DEF RebootCancel, Only, AtWork
  <2>2. QED
    BY <2>1, AloneIsSingle
<1>9. QED
  BY <1>2, <1>3, <1>4, <1>5, <1>6, <1>7, <1>8
     DEF MonitorStep, ReceiveFails, Door, Reboot

-----------------------------------------------------------------------------
(* The start of the program.                                               *)

LEMMA MainToken ==
  ASSUME TypeOK, StartOk, SingleToken, Main
  PROVE  StartOk' /\ SingleToken'
<1> USE DEF timing, locals
<1>1. CASE CreateResources
  <2>1. Only({}, {"monitor"}, {}, {})'
    BY <1>1 DEF CreateResources, StartOk, Only, AtWork
  <2>2. Single'
    BY <2>1, Members, AloneIsSingle
  <2>3. QED
    BY <1>1, <2>2 DEF CreateResources, StartOk, SingleToken, Single
<1>2. CASE LaunchThreads
  <2>1. Only({}, {"monitor"}, {}, {})
    BY <1>2, Members, ThreadAlone DEF LaunchThreads, StartOk, SingleToken, Single, AtWork
  <2>2. Only({}, {"monitor"}, {}, {})'
    BY <1>2, <2>1 DEF LaunchThreads, Only, AtWork
  <2>3. Single'
    BY <2>2, Members, AloneIsSingle
  <2>4. QED
    BY <1>2, <2>3 DEF LaunchThreads, StartOk, SingleToken, Single
<1>3. CASE SetRunning \/ CheckThreadDead \/ Exit
  <2>1. UNCHANGED <<thread, inbox, timer, handler, queueOk>>
    BY <1>3 DEF SetRunning, CheckThreadDead, Exit
  <2>2. /\ main' \in {"boot", "launch"} => main' = main
        /\ main' # "boot" => main # "boot"
    BY <1>3 DEF SetRunning, CheckThreadDead, Exit
  <2>3. QED
    BY <2>1, <2>2 DEF StartOk, SingleToken, Tokens, AtWork
<1>4. CASE CreateTimers
  <2>1. \A tm \in Timers : timer'[tm] # "armed"
    BY <1>4 DEF CreateTimers
  <2>2. Tokens' \subseteq Tokens
    BY <1>4, <2>1 DEF CreateTimers, Tokens, AtWork
  <2>3. Single'
    BY <1>4, <2>2, NoNewToken DEF CreateTimers, SingleToken, Single
  <2>4. QED
    BY <1>4, <2>3 DEF CreateTimers, StartOk, SingleToken, Single
<1>5. QED
  BY <1>1, <1>2, <1>3, <1>4
     DEF Main, Startup, Watch, CreateResourcesFails, LaunchThreadsFails,
         CheckThreadDeadFails, Shutdown

(* Threads and handlers do not touch main, except for a reboot.            *)
LEMMA StepStart ==
  ASSUME TypeOK, StartOk, SingleToken, NEW t \in Threads, Step(t)
  PROVE  StartOk' /\ SingleToken'
<1>1. thread[t] # "none"
  BY DEF Step, Wake, Receive, Reply, SensorFails, ReadsSensor, MotionStep,
         SampleMotion, JudgeMotion, CalcDistance, DoorBellStep, RingBell,
         RingBellExpired, MonitorStep, ReceiveFails, ForwardEvent, Door,
         ReadDoor, DoorIsOpen, DoorIsClosed, DoorIsUnknown, PollDoor, ScanAgain,
         RetryEnd, Reboot, RebootTimers, RebootCancel, RebootExec, RebootFails,
         Handling
<1>2. main \notin {"boot", "launch"} /\ queueOk /\ Single
  BY <1>1 DEF StartOk, SingleToken, Single
<1>3. CASE t = "monitor" /\ RebootExec
  BY <1>3 DEF RebootExec, FreshImage, StartOk, SingleToken
<1>4. CASE ~(t = "monitor" /\ RebootExec)
  <2>1. Single'
    <3>1. CASE Wake(t) \/ Receive(t) \/ Reply(t) \/ SensorFails(t)
      BY <1>2, <3>1, CommonStepToken
    <3>2. CASE MotionStep \/ CalcDistance \/ DoorBellStep
      BY <1>2, <3>2, WorkerStepToken
    <3>3. CASE MonitorStep /\ ~RebootExec
      BY <1>2, <3>3, MonitorStepToken
    <3>4. QED
      BY <1>4, <3>1, <3>2, <3>3 DEF Step
  <2>2. UNCHANGED <<main, queueOk>>
    BY <1>4 DEF Step, Wake, Receive, Reply, SensorFails, Exit, MotionStep,
         SampleMotion, JudgeMotion, CalcDistance, DoorBellStep, RingBell,
         RingBellExpired, MonitorStep, ReceiveFails, ForwardEvent, Door,
         ReadDoor, DoorIsOpen, DoorIsClosed, DoorIsUnknown, PollDoor, ScanAgain,
         RetryEnd, Reboot, RebootTimers, RebootCancel, RebootFails, process
  <2>3. QED
    BY <1>2, <2>1, <2>2 DEF StartOk, SingleToken, Single
<1>5. QED
  BY <1>3, <1>4

LEMMA TimerStart ==
  ASSUME TypeOK, StartOk, SingleToken,
         NEW tm \in Timers, Expire(tm) \/ Handler(tm)
  PROVE  StartOk' /\ SingleToken'
<1>1. main # "boot"
  BY DEF StartOk, Expire, Handler, HandlerStop, HandlerPost
<1>2. queueOk /\ Single
  BY <1>1 DEF StartOk, SingleToken, Single
<1>3. Single'
  BY <1>2, FromTimer, FromHandler
<1>4. UNCHANGED <<main, thread, queueOk>>
  BY DEF Expire, Handler, HandlerStop, HandlerPost, process, locals
<1>5. QED
  BY <1>1, <1>2, <1>3, <1>4 DEF StartOk, SingleToken, Single

LEMMA TokenInvInit == Init => TokenInv
<1> SUFFICES ASSUME Init PROVE TokenInv
  OBVIOUS
<1>1. TypeOK
  BY InitType
<1>2. StartOk /\ SingleToken
  BY DEF Init, FreshImage, StartOk, SingleToken
<1>3. QED
  BY <1>1, <1>2 DEF TokenInv

LEMMA TokenInvNext ==
  ASSUME "queue" \notin Faults, TokenInv, [Next]_vars
  PROVE  TokenInv'
<1> USE DEF TokenInv
<1>1. TypeOK'
  BY NextType
<1>2. CASE UNCHANGED vars
  BY <1>1, <1>2 DEF vars, StartOk, SingleToken, Tokens, AtWork
<1>3. CASE Next
  BY <1>1, <1>3, MainToken, StepStart, TimerStart DEF Next, RemoveQueue
<1>4. QED
  BY <1>1, <1>2, <1>3

(* Of all pipes, the queue, threads, timers and handlers one at most is    *)
(* active, whatever the sensors say and whatever fails, as long as nobody  *)
(* removes the queue of the running program.                               *)
THEOREM SingleTokenHolds == "queue" \notin Faults /\ Spec => []SingleToken
<1> SUFFICES ASSUME "queue" \notin Faults PROVE Spec => []SingleToken
  OBVIOUS
<1>1. TokenInv /\ [Next]_vars => TokenInv'
  BY TokenInvNext
<1>2. TokenInv => SingleToken
  BY DEF TokenInv
<1>3. QED
  BY <1>1, <1>2, TokenInvInit, PTL DEF Spec

(* A reboot finds nothing left over: no event under way, no worker between *)
(* a read and a post, no timer and no handler.                             *)
THEOREM QuietRebootHolds == "queue" \notin Faults /\ Spec => []QuietReboot
<1> SUFFICES ASSUME "queue" \notin Faults PROVE Spec => []QuietReboot
  OBVIOUS
<1>1. TokenInv /\ [Next]_vars => TokenInv'
  BY TokenInvNext
<1>2. TokenInv => QuietReboot
  <2> SUFFICES ASSUME TokenInv, thread["monitor"] = "cancel" PROVE QuietReboot
    BY DEF QuietReboot
  <2>1. main # "boot"
    BY Members DEF TokenInv, StartOk
  <2>2. Only({}, {"monitor"}, {}, {})
    BY <2>1, Members, ThreadAlone DEF TokenInv, SingleToken, Single, AtWork
  <2>3. "monitor" \notin Workers /\ Workers \subseteq Threads
    BY DEF Workers, Threads
  <2>4. QED
    BY <2>2, <2>3 DEF QuietReboot, Only
<1>3. QED
  BY <1>1, <1>2, TokenInvInit, PTL DEF Spec
=============================================================================
