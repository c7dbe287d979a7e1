--------------------------- MODULE DoorBellEvents ---------------------------
(***************************************************************************)
(* EventsUnderstood and RestIsEarned, for every choice of the constants.   *)
(*                                                                         *)
(* EventsUnderstood is strengthened by what a thread may be about to post  *)
(* (Replies) and by what the motion thread goes back to after its sleep.   *)
(* RestIsEarned rests on it: nobody but door_open_wait_expiry() posts      *)
(* DOOR_WAIT_RETRY_END.                                                    *)
(***************************************************************************)
EXTENDS DoorBellProofs

(* What the motion, distance and door bell threads post to the queue.      *)
Replies == {"ECU_NOT_WORKING", "MOTION_DETECTED", "VALID_DISTANCE",
            "INVALID_DISTANCE", "RING_BELL_EXPIRY"}

InboxesUnderstood ==
  \A t \in Threads : \A i \in 1..Len(inbox[t]) : inbox[t][i] \in Understood(t)

WorkUnderstood ==
  \A t \in Threads : /\ thread[t] = "busy"  => event[t] \in Understood(t)
                     /\ thread[t] = "reply" => event[t] \in Replies
                     /\ thread[t] = "sampled" /\ t = "motion" => event[t] \in Understood(t)

EventInv == TypeOK /\ InboxesUnderstood /\ WorkUnderstood

LEMMA UnderstoodSets ==
  /\ Understood("motion") = {"MOTION_SCAN_ON"}
  /\ Understood("distance") = {"CALC_DISTANCE"}
  /\ Understood("doorbell") = {"RING_BELL", "RING_BELL_EXPIRY"}
  /\ Understood("monitor") = {"MOTION_DETECTED", "VALID_DISTANCE",
        "INVALID_DISTANCE", "RING_BELL_EXPIRY", "ECU_NOT_WORKING",
        "DOOR_WAIT_EXPIRY", "DOOR_WAIT_RETRY_END"}
  /\ Replies \subseteq Understood("monitor")
BY DEF Understood, Replies

-----------------------------------------------------------------------------
(* What a thread step has to show.                                         *)

LEMMA PostUnderstood ==
  ASSUME TypeOK, InboxesUnderstood, NEW u \in Threads, NEW x \in Understood(u),
         x \in Events, inbox' = [inbox EXCEPT ![u] = Append(@, x)]
  PROVE  InboxesUnderstood'
<1>1. inbox \in [Threads -> Seq(Events)]
  BY DEF TypeOK
<1>2. inbox'[u] = Append(inbox[u], x) /\ \A v \in Threads : v # u => inbox'[v] = inbox[v]
  BY <1>1
<1>3. inbox[u] \in Seq(Events) /\ \A i \in 1..Len(inbox[u]) : inbox[u][i] \in Understood(u)
  BY <1>1 DEF InboxesUnderstood
<1>4. ASSUME NEW i \in 1..Len(Append(inbox[u], x))
      PROVE  Append(inbox[u], x)[i] \in Understood(u)
  <2>1. CASE i \in 1..Len(inbox[u])
    BY <1>3, <2>1
  <2>2. CASE i = Len(inbox[u]) + 1
    BY <1>3, <2>2
  <2>3. QED
    BY <1>3, <2>1, <2>2
<1>5. QED
  BY <1>2, <1>4 DEF InboxesUnderstood

LEMMA GotoUnderstood ==
  ASSUME TypeOK, WorkUnderstood,
         NEW t \in Threads, NEW pc, NEW e, NEW r, Goto(t, pc, e, r),
         pc = "busy" => e \in Understood(t),
         pc = "reply" => e \in Replies,
         pc = "sampled" => e \in Understood(t)
  PROVE  WorkUnderstood'
<1>1. thread'[t] = pc /\ event'[t] = e
  BY DEF TypeOK, Goto
<1>2. \A u \in Threads : u # t => thread'[u] = thread[u] /\ event'[u] = event[u]
  BY DEF TypeOK, Goto
<1>3. QED
  BY <1>1, <1>2 DEF WorkUnderstood

-----------------------------------------------------------------------------
LEMMA MainUnderstood ==
  ASSUME EventInv, Main
  PROVE  InboxesUnderstood' /\ WorkUnderstood'
<1> USE DEF EventInv, locals
<1>1. CASE CreateResources
  <2>1. \A t \in Threads : inbox'[t] = <<>>
    BY <1>1 DEF CreateResources
  <2>2. QED
    BY <1>1, <2>1 DEF CreateResources, InboxesUnderstood, WorkUnderstood
<1>2. CASE LaunchThreads
  BY <1>2 DEF LaunchThreads, InboxesUnderstood, WorkUnderstood
<1>3. CASE SetRunning \/ CreateTimers \/ CheckThreadDead \/ Exit
  BY <1>3 DEF SetRunning, CreateTimers, CheckThreadDead, Exit,
              InboxesUnderstood, WorkUnderstood
<1>4. QED
  BY <1>1, <1>2, <1>3
     DEF Main, Startup, Watch, CreateResourcesFails, LaunchThreadsFails,
         CheckThreadDeadFails, Shutdown

LEMMA CommonStepUnderstood ==
  ASSUME EventInv, NEW t \in Threads,
         Wake(t) \/ Receive(t) \/ Reply(t) \/ SensorFails(t)
  PROVE  InboxesUnderstood' /\ WorkUnderstood'
<1>0. TypeOK /\ InboxesUnderstood /\ WorkUnderstood
  BY DEF EventInv
<1>1. CASE Wake(t)
  <2>1. PICK pc \in {"loop", "dead"} : Goto(t, pc, "INVALID", NoReading)
    BY <1>1 DEF Wake
  <2>2. WorkUnderstood'
    BY <1>0, <2>1, GotoUnderstood
  <2>3. CASE t = "monitor"
    <3>1. inbox' = [inbox EXCEPT !["motion"] = Append(@, "MOTION_SCAN_ON")]
      BY <1>1, <2>3 DEF Wake, Post
    <3>2. QED
      BY <1>0, <2>2, <3>1, Members, UnderstoodSets, PostUnderstood
  <2>4. CASE t # "monitor"
    BY <1>0, <1>1, <2>2, <2>4 DEF Wake, InboxesUnderstood
  <2>5. QED
    BY <2>3, <2>4
<1>2. CASE Receive(t)
  <2>1. inbox \in [Threads -> Seq(Events)] /\ inbox[t] # <<>>
    BY <1>0, <1>2 DEF TypeOK, Receive
  <2>2. inbox[t] \in Seq(Events) /\ \A i \in 1..Len(inbox[t]) : inbox[t][i] \in Understood(t)
    BY <1>0, <2>1 DEF InboxesUnderstood
  <2>3. Head(inbox[t]) \in Understood(t)
    BY <2>1, <2>2
  <2>4. \A i \in 1..Len(Tail(inbox[t])) : Tail(inbox[t])[i] \in Understood(t)
    BY <2>1, <2>2
  <2>5. InboxesUnderstood'
    BY <1>0, <1>2, <2>1, <2>4 DEF Receive, InboxesUnderstood
  <2>6. WorkUnderstood'
    BY <1>0, <1>2, <2>3, GotoUnderstood DEF Receive
  <2>7. QED
    BY <2>5, <2>6
<1>3. CASE Reply(t)
  <2>1. event[t] \in Understood("monitor") /\ event[t] \in Events
    BY <1>0, <1>3, UnderstoodSets DEF Reply, WorkUnderstood, TypeOK
  <2>2. InboxesUnderstood'
    <3>1. CASE ~queueOk
      BY <1>0, <1>3, <3>1 DEF Reply, PostToQ, InboxesUnderstood
    <3>2. CASE queueOk
      BY <1>0, <1>3, <2>1, <3>2, Members, PostUnderstood DEF Reply, PostToQ
    <3>3. QED
      BY <3>1, <3>2
  <2>3. WorkUnderstood'
    BY <1>0, <1>3, GotoUnderstood DEF Reply, Loop
  <2>4. QED
    BY <2>2, <2>3
<1>4. CASE SensorFails(t)
  BY <1>0, <1>4 DEF SensorFails, Exit, locals, InboxesUnderstood, WorkUnderstood
<1>5. QED
  BY <1>1, <1>2, <1>3, <1>4

LEMMA WorkerStepUnderstood ==
  ASSUME EventInv, MotionStep \/ CalcDistance \/ DoorBellStep
  PROVE  InboxesUnderstood' /\ WorkUnderstood'
<1> USE Members DEF Replies
<1>0. TypeOK /\ InboxesUnderstood /\ WorkUnderstood
  BY DEF EventInv
<1>1. UNCHANGED inbox
  BY DEF MotionStep, SampleMotion, JudgeMotion, CalcDistance, DoorBellStep,
         RingBell, RingBellExpired
<1>2. CASE SampleMotion
  <2>1. \E r : Goto("motion", "sampled", event["motion"], r)
    BY <1>2 DEF SampleMotion
  <2>2. event["motion"] \in Understood("motion")
    BY <1>0, <1>2 DEF SampleMotion, ReadsSensor, WorkUnderstood
  <2>3. WorkUnderstood'
    BY <1>0, <2>1, <2>2, GotoUnderstood
  <2>4. QED
    BY <1>0, <1>1, <2>3 DEF InboxesUnderstood
<1>3. CASE JudgeMotion
  <2>1. event["motion"] \in Understood("motion")
    BY <1>0, <1>3 DEF JudgeMotion, WorkUnderstood
  <2>2. WorkUnderstood'
    BY <1>0, <1>3, <2>1, GotoUnderstood DEF JudgeMotion
  <2>3. QED
    BY <1>0, <1>1, <2>2 DEF InboxesUnderstood
<1>4. CASE CalcDistance
  <2>1. PICK data \in Get(DistanceValues) :
          Goto("distance", "reply", DistanceEvent(data), NoReading)
    BY <1>4 DEF CalcDistance
  <2>2. DistanceEvent(data) \in Replies
    BY DEF DistanceEvent
  <2>3. WorkUnderstood'
    BY <1>0, <2>1, <2>2, GotoUnderstood
  <2>4. QED
    BY <1>0, <1>1, <2>3 DEF InboxesUnderstood
<1>5. CASE DoorBellStep
  <2>1. WorkUnderstood'
    BY <1>0, <1>5, GotoUnderstood DEF DoorBellStep, RingBell, RingBellExpired, Loop
  <2>2. QED
    BY <1>0, <1>1, <2>1 DEF InboxesUnderstood
<1>6. QED
  BY <1>2, <1>3, <1>4, <1>5 DEF MotionStep

LEMMA MonitorStepUnderstood ==
  ASSUME EventInv, MonitorStep
  PROVE  InboxesUnderstood' /\ WorkUnderstood'
<1> USE Members, UnderstoodSets DEF Loop
<1>0. TypeOK /\ InboxesUnderstood /\ WorkUnderstood
  BY DEF EventInv
<1>1. CASE RebootExec
  <2>1. \A t \in Threads : thread'[t] = "none"
    BY <1>1 DEF RebootExec, FreshImage
  <2>2. \A t \in Threads : inbox'[t] \in {inbox[t], <<>>}
    BY <1>1 DEF RebootExec
  <2>3. QED
    BY <1>0, <2>1, <2>2 DEF InboxesUnderstood, WorkUnderstood
<1>2. CASE RebootCancel
  <2>1. \A t \in Threads : thread'[t] \in {"exec", "dead"}
    BY <1>2 DEF RebootCancel
  <2>2. QED
    BY <1>0, <1>2, <2>1 DEF RebootCancel, InboxesUnderstood, WorkUnderstood
<1>3. CASE ForwardEvent
  <2>1. PICK row \in Forward : Post(row[2], row[3])
    BY <1>3 DEF ForwardEvent
  <2>2. row[2] \in Threads /\ row[3] \in Understood(row[2]) /\ row[3] \in Events
    BY DEF Forward
  <2>3. InboxesUnderstood'
    BY <1>0, <2>1, <2>2, PostUnderstood DEF Post
  <2>4. WorkUnderstood'
    BY <1>0, <1>3, GotoUnderstood DEF ForwardEvent
  <2>5. QED
    BY <2>3, <2>4
<1>4. CASE ScanAgain
  <2>1. InboxesUnderstood'
    BY <1>0, <1>4, PostUnderstood DEF ScanAgain, Post
  <2>2. WorkUnderstood'
    BY <1>0, <1>4, GotoUnderstood DEF ScanAgain
  <2>3. QED
    BY <2>1, <2>2
<1>5. CASE ReceiveFails
  <2>1. WorkUnderstood'
    BY <1>0, <1>5, GotoUnderstood DEF ReceiveFails
  <2>2. QED
    BY <1>0, <1>5, <2>1 DEF ReceiveFails, InboxesUnderstood
<1>6. CASE \E pc \in {"loop", "door", "open", "closed", "cancel"} : \E e, r :
             Goto("monitor", pc, e, r) /\ UNCHANGED inbox
  <2>1. WorkUnderstood'
    BY <1>0, <1>6, GotoUnderstood
  <2>2. QED
    BY <1>0, <1>6, <2>1 DEF InboxesUnderstood
<1>7. CASE DoorIsOpen \/ DoorIsClosed \/ DoorIsUnknown \/ RetryEnd
           \/ RebootTimers \/ RebootFails
  BY <1>6, <1>7 DEF DoorIsOpen, DoorIsClosed, DoorIsUnknown, RetryEnd,
                    RebootTimers, RebootFails
<1>8. CASE ReadDoor \/ PollDoor
  <2>1. \E pc \in {"door", "open", "closed"} : \E e, r : Goto("monitor", pc, e, r)
    BY <1>8 DEF ReadDoor, PollDoor
  <2>2. UNCHANGED inbox
    BY <1>8 DEF ReadDoor, PollDoor
  <2>3. QED
    BY <1>6, <2>1, <2>2
<1>9. QED
  BY <1>1, <1>2, <1>3, <1>4, <1>5, <1>7, <1>8 DEF MonitorStep, Door, Reboot

LEMMA TimerStepUnderstood ==
  ASSUME EventInv, NEW tm \in Timers, Expire(tm) \/ Handler(tm)
  PROVE  InboxesUnderstood' /\ WorkUnderstood'
<1> USE Members, UnderstoodSets
<1>0. TypeOK /\ InboxesUnderstood /\ WorkUnderstood
  BY DEF EventInv
<1>1. WorkUnderstood'
  BY <1>0 DEF Expire, Handler, HandlerStop, HandlerPost, locals, WorkUnderstood
<1>2. CASE UNCHANGED inbox
  BY <1>0, <1>1, <1>2 DEF InboxesUnderstood
<1>3. ASSUME NEW u \in Threads, NEW x \in Understood(u), x \in Events,
             inbox' = [inbox EXCEPT ![u] = Append(@, x)]
      PROVE  InboxesUnderstood'
  BY <1>0, <1>3, PostUnderstood
<1>4. CASE HandlerPost(tm)
  BY <1>1, <1>2, <1>3, <1>4 DEF HandlerPost, Post, PostToQ
<1>5. QED
  BY <1>2, <1>4 DEF Expire, Handler, HandlerStop

LEMMA EventInvInit == Init => EventInv
<1> SUFFICES ASSUME Init PROVE EventInv
  OBVIOUS
<1>1. WorkUnderstood
  BY DEF Init, FreshImage, WorkUnderstood
<1>2. InboxesUnderstood
  <2>1. PICK left \in {<<>>} \cup {<<e>> : e \in Understood("monitor")} :
          inbox = [t \in Threads |-> IF t = "monitor" THEN left ELSE <<>>]
    BY DEF Init
  <2>2. \A i \in 1..Len(left) : left[i] \in Understood("monitor")
    OBVIOUS
  <2>3. QED
    BY <2>1, <2>2 DEF InboxesUnderstood
<1>3. QED
  BY <1>1, <1>2, InitType DEF EventInv

LEMMA EventInvNext == EventInv /\ [Next]_vars => EventInv'
<1> SUFFICES ASSUME EventInv, [Next]_vars PROVE EventInv'
  OBVIOUS
<1>1. TypeOK'
  BY NextType DEF EventInv
<1>2. InboxesUnderstood' /\ WorkUnderstood'
  <2>1. CASE Main
    BY <2>1, MainUnderstood
  <2>2. ASSUME NEW t \in Threads, Step(t)
        PROVE  InboxesUnderstood' /\ WorkUnderstood'
    BY <2>2, CommonStepUnderstood, WorkerStepUnderstood, MonitorStepUnderstood DEF Step
  <2>3. ASSUME NEW tm \in Timers, Expire(tm) \/ Handler(tm)
        PROVE  InboxesUnderstood' /\ WorkUnderstood'
    BY <2>3, TimerStepUnderstood
  <2>4. CASE RemoveQueue
    <3>1. \A t \in Threads : inbox'[t] \in {inbox[t], <<>>}
      BY <2>4 DEF RemoveQueue, EventInv, TypeOK
    <3>2. QED
      BY <2>4, <3>1 DEF RemoveQueue, EventInv, locals, InboxesUnderstood, WorkUnderstood
  <2>5. CASE UNCHANGED vars
    BY <2>5 DEF vars, EventInv, InboxesUnderstood, WorkUnderstood
  <2>6. QED
    BY <2>1, <2>2, <2>3, <2>4, <2>5 DEF Next
<1>3. QED
  BY <1>1, <1>2 DEF EventInv

(* No thread is ever sent an event its switch has no case for, whatever    *)
(* fails, the removal of the queue included.                               *)
THEOREM EventsUnderstoodHolds == Spec => []EventsUnderstood
<1>1. EventInv => EventsUnderstood
  BY DEF EventInv, InboxesUnderstood, WorkUnderstood, EventsUnderstood
<1>2. QED
  BY <1>1, EventInvInit, EventInvNext, PTL DEF Spec

-----------------------------------------------------------------------------
(* RestIsEarned.                                                           *)

(* Nothing is under way from the third expired wait to the long rest.      *)
NoRest ==
  /\ timer["reset_states"] # "armed" /\ handler["reset_states"] = "none"
  /\ ~Handling("DOOR_WAIT_RETRY_END")
  /\ \A i \in 1..Len(inbox["monitor"]) : inbox["monitor"][i] # "DOOR_WAIT_RETRY_END"

(* A program that is booting has no threads and no timers yet.             *)
BootOk ==
  main = "boot" => /\ \A t \in Threads : thread[t] = "none"
                   /\ \A tm \in Timers : timer[tm] = "none" /\ handler[tm] = "none"

RestInv == EventInv /\ BootOk /\ RestIsEarned

LEMMA PostNoRest ==
  ASSUME TypeOK, NoRest, NEW u \in Threads, NEW x \in Events,
         inbox' = [inbox EXCEPT ![u] = Append(@, x)],
         u = "monitor" => x # "DOOR_WAIT_RETRY_END"
  PROVE  \A i \in 1..Len(inbox'["monitor"]) : inbox'["monitor"][i] # "DOOR_WAIT_RETRY_END"
<1>1. inbox \in [Threads -> Seq(Events)] /\ inbox["monitor"] \in Seq(Events)
  BY Members DEF TypeOK
<1>2. CASE u # "monitor"
  BY <1>1, <1>2 DEF NoRest
<1>3. CASE u = "monitor"
  <2>1. inbox'["monitor"] = Append(inbox["monitor"], x)
    BY <1>1, <1>3
  <2>2. ASSUME NEW i \in 1..Len(Append(inbox["monitor"], x))
        PROVE  Append(inbox["monitor"], x)[i] # "DOOR_WAIT_RETRY_END"
    <3>1. CASE i \in 1..Len(inbox["monitor"])
      BY <1>1, <3>1 DEF NoRest
    <3>2. CASE i = Len(inbox["monitor"]) + 1
      BY <1>1, <1>3, <3>2
    <3>3. QED
      BY <1>1, <3>1, <3>2
  <2>3. QED
    BY <2>1, <2>2
<1>4. QED
  BY <1>2, <1>3

LEMMA CommonStepNoRest ==
  ASSUME EventInv, NoRest, NEW t \in Threads,
         Wake(t) \/ Receive(t) \/ Reply(t) \/ SensorFails(t)
  PROVE  NoRest'
<1>0. TypeOK /\ WorkUnderstood /\ thread \in [Threads -> Pcs]
      /\ event \in [Threads -> Events] /\ inbox \in [Threads -> Seq(Events)]
  BY DEF EventInv, TypeOK
<1>1. UNCHANGED <<timer, handler>>
  BY DEF Wake, Receive, Reply, SensorFails, Exit, timing
<1>2. CASE Wake(t)
  <2>1. ~Handling("DOOR_WAIT_RETRY_END")'
    BY <1>0, <1>2, Members DEF Wake, Goto, Handling, NoRest
  <2>2. inbox' = inbox \/ inbox' = [inbox EXCEPT !["motion"] = Append(@, "MOTION_SCAN_ON")]
    BY <1>2 DEF Wake, Post
  <2>3. \A i \in 1..Len(inbox'["monitor"]) : inbox'["monitor"][i] # "DOOR_WAIT_RETRY_END"
    BY <1>0, <2>2, Members, PostNoRest DEF NoRest
  <2>4. QED
    BY <1>1, <2>1, <2>3 DEF NoRest
<1>3. CASE Receive(t)
  <2>1. CASE t # "monitor"
    BY <1>0, <1>1, <1>3, <2>1, Members DEF Receive, Goto, Handling, NoRest
  <2>2. CASE t = "monitor"
    <3>1. inbox["monitor"] \in Seq(Events) /\ inbox["monitor"] # <<>>
      BY <1>0, <1>3, <2>2, Members DEF Receive
    <3>2. Head(inbox["monitor"]) # "DOOR_WAIT_RETRY_END"
      BY <3>1 DEF NoRest
    <3>3. \A i \in 1..Len(Tail(inbox["monitor"])) :
            Tail(inbox["monitor"])[i] # "DOOR_WAIT_RETRY_END"
      BY <3>1 DEF NoRest
    <3>4. event'["monitor"] # "DOOR_WAIT_RETRY_END"
      BY <1>0, <1>3, <2>2, <3>2, Members DEF Receive, Goto
    <3>5. inbox'["monitor"] = Tail(inbox["monitor"])
      BY <1>0, <1>3, <2>2, Members DEF Receive
    <3>6. QED
      BY <1>1, <3>3, <3>4, <3>5 DEF Handling, NoRest
  <2>3. QED
    BY <2>1, <2>2
<1>4. CASE Reply(t)
  <2>1. ~Handling("DOOR_WAIT_RETRY_END")'
    BY <1>0, <1>4, Members DEF Reply, Loop, Goto, Handling, NoRest
  <2>2. event[t] \in Events /\ event[t] # "DOOR_WAIT_RETRY_END"
    BY <1>0, <1>4 DEF Reply, WorkUnderstood, Replies
  <2>3. inbox' = inbox \/ inbox' = [inbox EXCEPT !["monitor"] = Append(@, event[t])]
    BY <1>4 DEF Reply, PostToQ
  <2>4. \A i \in 1..Len(inbox'["monitor"]) : inbox'["monitor"][i] # "DOOR_WAIT_RETRY_END"
    BY <1>0, <2>2, <2>3, Members, PostNoRest DEF NoRest
  <2>5. QED
    BY <1>1, <2>1, <2>4 DEF NoRest
<1>5. CASE SensorFails(t)
  BY <1>5 DEF SensorFails, Exit, locals, timing, Handling, NoRest
<1>6. QED
  BY <1>2, <1>3, <1>4, <1>5

LEMMA OwnStepNoRest ==
  ASSUME EventInv, NoRest, ~RebootExec,
         MotionStep \/ CalcDistance \/ DoorBellStep \/ MonitorStep
  PROVE  NoRest'
<1> USE Members DEF Loop, timing
<1>0. /\ TypeOK /\ thread \in [Threads -> Pcs] /\ event \in [Threads -> Events]
      /\ inbox \in [Threads -> Seq(Events)]
      /\ timer \in [Timers -> {"none", "idle", "armed"}]
  BY DEF EventInv, TypeOK
<1>1. UNCHANGED handler
  BY DEF MotionStep, SampleMotion, JudgeMotion, CalcDistance, DoorBellStep,
         RingBell, RingBellExpired, MonitorStep, ReceiveFails, ForwardEvent,
         Door, ReadDoor, DoorIsOpen, DoorIsClosed, DoorIsUnknown, PollDoor,
         ScanAgain, RetryEnd, Reboot, RebootTimers, RebootCancel, RebootFails
<1>2. ~RetryEnd
  BY DEF RetryEnd, NoRest
<1>3. timer'["reset_states"] # "armed"
  BY <1>0, <1>2
     DEF MotionStep, SampleMotion, JudgeMotion, CalcDistance, DoorBellStep,
         RingBell, RingBellExpired, MonitorStep, ReceiveFails, ForwardEvent,
         Door, ReadDoor, DoorIsOpen, DoorIsClosed, DoorIsUnknown, PollDoor,
         ScanAgain, Reboot, RebootTimers, RebootCancel, RebootFails,
         StartTimer, NoRest
<1>4. ~Handling("DOOR_WAIT_RETRY_END")'
  <2>1. CASE MotionStep \/ CalcDistance \/ DoorBellStep
    BY <1>0, <2>1
       DEF MotionStep, SampleMotion, JudgeMotion, CalcDistance, DoorBellStep,
           RingBell, RingBellExpired, Goto, Handling, NoRest
  <2>2. CASE MonitorStep
    BY <1>0, <2>2
       DEF MonitorStep, ReceiveFails, ForwardEvent, Door, ReadDoor, DoorIsOpen,
           DoorIsClosed, DoorIsUnknown, PollDoor, ScanAgain, RetryEnd, Reboot,
           RebootTimers, RebootCancel, RebootFails, Goto, Handling, NoRest
  <2>3. QED
    BY <2>1, <2>2
<1>5. \A i \in 1..Len(inbox'["monitor"]) : inbox'["monitor"][i] # "DOOR_WAIT_RETRY_END"
  <2>1. CASE ForwardEvent
    <3>1. PICK row \in Forward : Post(row[2], row[3])
      BY <2>1 DEF ForwardEvent
    <3>2. row[2] \in Threads /\ row[3] \in Events /\ row[2] # "monitor"
      BY DEF Forward
    <3>3. QED
      BY <1>0, <3>1, <3>2, PostNoRest DEF Post
  <2>2. CASE ScanAgain
    BY <1>0, <2>2, PostNoRest DEF ScanAgain, Post
  <2>3. CASE ~ForwardEvent /\ ~ScanAgain
    <3>1. UNCHANGED inbox
      BY <2>3
         DEF MotionStep, SampleMotion, JudgeMotion, CalcDistance, DoorBellStep,
             RingBell, RingBellExpired, MonitorStep, ReceiveFails, Door,
             ReadDoor, DoorIsOpen, DoorIsClosed, DoorIsUnknown, PollDoor,
             RetryEnd, Reboot, RebootTimers, RebootCancel, RebootFails
    <3>2. QED
      BY <3>1 DEF NoRest
  <2>4. QED
    BY <2>1, <2>2, <2>3
<1>6. QED
  BY <1>1, <1>3, <1>4, <1>5 DEF NoRest

(* Only here is the count needed: the third wait is what ends in           *)
(* DOOR_WAIT_RETRY_END.                                                    *)
LEMMA TimerStepNoRest ==
  ASSUME EventInv, NoRest, NEW tm \in Timers, Expire(tm) \/ Handler(tm),
         count < MaxRetry
  PROVE  NoRest'
<1> USE Members
<1>0. /\ TypeOK /\ inbox \in [Threads -> Seq(Events)]
      /\ timer \in [Timers -> {"none", "idle", "armed"}]
      /\ handler \in [Timers -> {"none", "stop", "post"}] /\ count \in 0..MaxRetry
  BY DEF EventInv, TypeOK
<1>1. UNCHANGED <<thread, event>>
  BY DEF Expire, Handler, HandlerStop, HandlerPost, locals
<1>2. CASE Expire(tm) \/ HandlerStop(tm)
  BY <1>0, <1>1, <1>2 DEF Expire, HandlerStop, StopTimer, Handling, NoRest
<1>3. CASE HandlerPost(tm)
  <2>1. ~(count >= MaxRetry)
    BY <1>0 DEF MaxRetry
  <2>2. \/ UNCHANGED inbox
        \/ \E u \in Threads, x \in Events :
             x # "DOOR_WAIT_RETRY_END" /\ inbox' = [inbox EXCEPT ![u] = Append(@, x)]
    BY <1>3, <2>1 DEF HandlerPost, Post, PostToQ
  <2>3. \A i \in 1..Len(inbox'["monitor"]) : inbox'["monitor"][i] # "DOOR_WAIT_RETRY_END"
    BY <1>0, <2>2, PostNoRest DEF NoRest
  <2>4. QED
    BY <1>0, <1>1, <1>3, <2>3 DEF HandlerPost, Handling, NoRest
<1>4. QED
  BY <1>2, <1>3 DEF Handler

LEMMA MainRest ==
  ASSUME RestInv, Main
  PROVE  BootOk' /\ RestIsEarned'
<1> USE Members DEF RestInv, locals
<1>1. CASE CreateResources
  <2>1. \A t \in Threads : inbox'[t] = <<>> /\ thread'[t] = "none"
    BY <1>1 DEF CreateResources, BootOk
  <2>2. \A tm \in Timers : timer'[tm] = "none" /\ handler'[tm] = "none"
    BY <1>1 DEF CreateResources, BootOk, timing
  <2>3. NoRest'
    BY <2>1, <2>2 DEF NoRest, Handling
  <2>4. QED
    BY <1>1, <2>3 DEF CreateResources, BootOk, RestIsEarned, NoRest
<1>2. CASE ~CreateResources
  <2>1. main' # "boot" => main # "boot"
    BY <1>2 DEF Main, Startup, Watch, LaunchThreads, SetRunning, CreateTimers,
         CheckThreadDead, CreateResourcesFails, LaunchThreadsFails,
         CheckThreadDeadFails, Shutdown, Exit
  <2>2. main' = "boot" => UNCHANGED <<main, thread, timer, handler>>
    BY <1>2 DEF Main, Startup, Watch, LaunchThreads, SetRunning, CreateTimers,
         CheckThreadDead, CreateResourcesFails, LaunchThreadsFails,
         CheckThreadDeadFails, Shutdown, Exit, timing
  <2>3. UNCHANGED <<event, inbox, handler, count>>
    BY <1>2 DEF Main, Startup, Watch, LaunchThreads, SetRunning, CreateTimers,
         CheckThreadDead, CreateResourcesFails, LaunchThreadsFails,
         CheckThreadDeadFails, Shutdown, Exit, timing
  <2>4. timer'["reset_states"] = "armed" => timer["reset_states"] = "armed"
    BY <1>2 DEF Main, Startup, Watch, LaunchThreads, SetRunning, CreateTimers,
         CheckThreadDead, CreateResourcesFails, LaunchThreadsFails,
         CheckThreadDeadFails, Shutdown, Exit, timing
  <2>5. thread'["monitor"] = "busy" => thread["monitor"] = "busy"
    BY <1>2 DEF Main, Startup, Watch, LaunchThreads, SetRunning, CreateTimers,
         CheckThreadDead, CreateResourcesFails, LaunchThreadsFails,
         CheckThreadDeadFails, Shutdown, Exit
  <2>6. QED
    BY <2>1, <2>2, <2>3, <2>4, <2>5 DEF BootOk, RestIsEarned, Handling
<1>3. QED
  BY <1>1, <1>2

LEMMA StepRest ==
  ASSUME RestInv, NEW t \in Threads, Step(t)
  PROVE  BootOk' /\ RestIsEarned'
<1> USE DEF RestInv
<1>1. main # "boot"
  BY DEF BootOk, Step, Wake, Receive, Reply, SensorFails, ReadsSensor, MotionStep,
         SampleMotion, JudgeMotion, CalcDistance, DoorBellStep, RingBell,
         RingBellExpired, MonitorStep, ReceiveFails, ForwardEvent, Door,
         ReadDoor, DoorIsOpen, DoorIsClosed, DoorIsUnknown, PollDoor, ScanAgain,
         RetryEnd, Reboot, RebootTimers, RebootCancel, RebootExec, RebootFails,
         Handling
<1>2. CASE t = "monitor" /\ RebootExec
  BY <1>2 DEF RebootExec, FreshImage, BootOk, RestIsEarned
<1>3. CASE ~(t = "monitor" /\ RebootExec)
  <2>1. UNCHANGED <<main, count>>
    BY <1>3 DEF Step, Wake, Receive, Reply, SensorFails, Exit, MotionStep,
         SampleMotion, JudgeMotion, CalcDistance, DoorBellStep, RingBell,
         RingBellExpired, MonitorStep, ReceiveFails, ForwardEvent, Door,
         ReadDoor, DoorIsOpen, DoorIsClosed, DoorIsUnknown, PollDoor, ScanAgain,
         RetryEnd, Reboot, RebootTimers, RebootCancel, RebootFails, process, timing
  <2>2. NoRest => NoRest'
    <3>1. CASE Wake(t) \/ Receive(t) \/ Reply(t) \/ SensorFails(t)
      BY <3>1, CommonStepNoRest
    <3>2. CASE ~RebootExec /\ (MotionStep \/ CalcDistance \/ DoorBellStep \/ MonitorStep)
      BY <3>2, OwnStepNoRest
    <3>3. RebootExec => thread["monitor"] = "exec"
      BY DEF RebootExec
    <3>4. CASE RebootExec /\ (MotionStep \/ CalcDistance \/ DoorBellStep) /\ t # "monitor"
      BY <2>1, <3>4, <1>1 DEF RebootExec, FreshImage
    <3>5. QED
      BY <1>3, <3>1, <3>2, <3>4 DEF Step
  <2>3. QED
    BY <1>1, <2>1, <2>2 DEF BootOk, RestIsEarned, NoRest
<1>4. QED
  BY <1>2, <1>3

LEMMA TimerRest ==
  ASSUME RestInv, NEW tm \in Timers, Expire(tm) \/ Handler(tm)
  PROVE  BootOk' /\ RestIsEarned'
<1> USE DEF RestInv
<1>1. main # "boot"
  BY DEF BootOk, Expire, Handler, HandlerStop, HandlerPost
<1>2. UNCHANGED main
  BY DEF Expire, Handler, HandlerStop, HandlerPost, process
<1>3. count' < MaxRetry => count < MaxRetry
  BY DEF Expire, Handler, HandlerStop, HandlerPost, EventInv, TypeOK, MaxRetry
<1>4. count < MaxRetry => NoRest'
  BY <1>1, TimerStepNoRest DEF RestIsEarned, NoRest
<1>5. QED
  BY <1>1, <1>2, <1>3, <1>4 DEF BootOk, RestIsEarned, NoRest

LEMMA RestInvNext == RestInv /\ [Next]_vars => RestInv'
<1> SUFFICES ASSUME RestInv, [Next]_vars PROVE RestInv'
  OBVIOUS
<1>1. EventInv'
  BY EventInvNext DEF RestInv
<1>2. BootOk' /\ RestIsEarned'
  <2>1. CASE RemoveQueue
    <3>1. inbox'["monitor"] = <<>>
      BY <2>1, Members DEF RemoveQueue, RestInv, EventInv, TypeOK
    <3>2. QED
      BY <2>1, <3>1 DEF RemoveQueue, process, locals, timing, RestInv, BootOk,
                        RestIsEarned, Handling
  <2>2. CASE UNCHANGED vars
    BY <2>2 DEF vars, RestInv, BootOk, RestIsEarned, Handling
  <2>3. QED
    BY <2>1, <2>2, MainRest, StepRest, TimerRest DEF Next
<1>3. QED
  BY <1>1, <1>2 DEF RestInv

(* The ten minutes' rest is never under way before three waits for the     *)
(* door have run out, whatever fails.                                      *)
THEOREM RestIsEarnedHolds == Spec => []RestIsEarned
<1>1. Init => RestInv
  BY EventInvInit DEF Init, FreshImage, RestInv, BootOk, RestIsEarned
<1>2. RestInv => RestIsEarned
  BY DEF RestInv
<1>3. QED
  BY <1>1, <1>2, RestInvNext, PTL DEF Spec
=============================================================================
