--------------------------- MODULE DoorBellCycle ----------------------------
(***************************************************************************)
(* The door bell program goes through the phases of VisitCycle: the phase  *)
(* is read off the one event, running timer or running handler there is.   *)
(***************************************************************************)
EXTENDS DoorBell

(* The phase of a visit whose progress is event e, on its way or at work.  *)
EventPhase(e) ==
  CASE e \in {"MOTION_SCAN_ON", "INVALID_DISTANCE"}            -> "scan"
    [] e \in {"MOTION_DETECTED", "CALC_DISTANCE"}              -> "measure"
    [] e \in {"VALID_DISTANCE", "RING_BELL", "DOOR_WAIT_EXPIRY"} -> "ring"
    [] e = "RING_BELL_EXPIRY"                                  -> "door"
    [] e = "DOOR_WAIT_RETRY_END"                               -> "rest"
    [] e = "ECU_NOT_WORKING"                                   -> "failed"
    [] OTHER                                                   -> "stalled"

ThreadPhase(t) ==
  CASE thread[t] \in {"none", "sleep"} -> "boot"
    [] thread[t] = "open"              -> "open"
    [] thread[t] = "closed"            -> "scan"
    [] OTHER                           -> EventPhase(event[t])

TimerPhase(tm) ==
  CASE tm = "door_bell"      -> "ringing"
    [] tm = "door_open_wait" -> "wait"
    [] tm = "reset_states"   -> "rest"

(* door_open_wait_expiry() has counted before it posts.                    *)
HandlerPhase(tm) ==
  IF tm = "door_open_wait" /\ handler[tm] = "post"
  THEN IF count < MaxRetry THEN "ring" ELSE "rest"
  ELSE TimerPhase(tm)

CurrentPhases ==
       {EventPhase(Head(inbox[t])) : t \in {t \in Threads : inbox[t] # <<>>}}
  \cup {ThreadPhase(t)   : t  \in {t \in Threads : AtWork(t)}}
  \cup {TimerPhase(tm)   : tm \in {tm \in Timers : timer[tm] = "armed"}}
  \cup {HandlerPhase(tm) : tm \in {tm \in Timers : handler[tm] # "none"}}

(* While the program starts, the queue may still hold an old message.      *)
Phase ==
  IF ~up THEN "off"
  ELSE IF thread["monitor"] \in {"none", "sleep"} THEN "boot"
  ELSE IF CurrentPhases = {} THEN "stalled"
  ELSE CHOOSE p \in CurrentPhases : TRUE

Cycle == INSTANCE VisitCycle WITH phase <- Phase, tries <- count, MaxTries <- MaxRetry

(* The program, whatever its sensors say and whichever of its calls fail,  *)
(* makes only the moves of VisitCycle, as long as its queue exists.        *)
ImplementsCycle == Cycle!CycleSpec

-----------------------------------------------------------------------------
(* A visit, once the motion sensor has reported it, ends: the system scans *)
(* again, or a person stands in the open door, or a sensor has failed, or  *)
(* the process is gone.  A door that stays closed is no obstacle: the      *)
(* waits are counted and the last one is followed by the rest and a scan.  *)
VisitEnds ==
  Phase \in {"measure", "ring", "ringing", "door", "wait", "rest"}
    ~> Phase \in {"scan", "open", "failed", "off"}

(* A valid distance makes the bell ring, and the bell makes the monitor    *)
(* look at the door.                                                       *)
ValidDistanceRings ==
  event["monitor"] = "VALID_DISTANCE" ~> timer["door_bell"] = "armed" \/ ~up
RingLooksAtDoor ==
  timer["door_bell"] = "armed" ~> thread["monitor"] = "door" \/ ~up

(* A sensor that does not work makes the program start over, and the new   *)
(* image scans again.                                                      *)
FailureRestarts == Phase = "failed" ~> Phase \in {"boot", "off"}
BootScans       == Phase = "boot" ~> Phase \in {"scan", "off"}
=============================================================================
