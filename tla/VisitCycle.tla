----------------------------- MODULE VisitCycle -----------------------------
(***************************************************************************)
(* What the door bell of src/linux_task/door_bell_system_sw_design         *)
(* promises, without its threads, pipes, queue and timers: the cycle a     *)
(* visit goes through, one phase at a time.                                *)
(*                                                                         *)
(*   boot -> scan -> measure -> ring -> ringing -> door -> open -> scan    *)
(*             ^       |         ^                  |                      *)
(*             |<------'         |<-- wait <--------'                      *)
(*             |                       |                                   *)
(*             '-------- rest <--------'                                   *)
(*                                                                         *)
(* A sensor that does not work leads through "failed" back to boot.        *)
(***************************************************************************)
EXTENDS Naturals

CONSTANT MaxTries   (* waits for the door before the bell is given a rest   *)

VARIABLES phase,    (* where the visit is                                   *)
          tries     (* waits that have run out since the start, at most MaxTries *)

cycleVars == <<phase, tries>>

Phases == {"boot", "scan", "measure", "ring", "ringing", "door", "open",
           "wait", "rest", "failed", "stalled", "off"}

CycleTypeOK == phase \in Phases /\ tries \in 0..MaxTries

CycleInit == phase = "boot" /\ tries = 0

Move(from, to) == phase \in from /\ phase' \in to /\ UNCHANGED tries

(* The bell is asked to ring only by a valid distance or by a wait that    *)
(* has run out, and the door is looked at only after the bell has rung.    *)
Visit ==
  \/ Move({"boot"}, {"scan"})
  \/ Move({"scan"}, {"measure"})
  \/ Move({"measure"}, {"scan", "ring"})
  \/ Move({"ring"}, {"ringing"})
  \/ Move({"ringing"}, {"door"})
  \/ Move({"door"}, {"open", "wait"})
  \/ Move({"open"}, {"scan"})
  \/ Move({"rest"}, {"scan"})

(* A wait that has run out is counted; the last one is not followed by     *)
(* another ring but by the long rest.                                      *)
WaitOver ==
  /\ phase = "wait"
  /\ tries' = IF tries < MaxTries THEN tries + 1 ELSE tries
  /\ phase' = IF tries' < MaxTries THEN "ring" ELSE "rest"

(* A sensor reports that it does not work: the program starts over.        *)
SensorFailed == Move({"scan", "measure"}, {"failed"})
Restart == phase = "failed" /\ phase' = "boot" /\ tries' = 0

(* The visit goes nowhere: the door is neither open nor closed, a timer    *)
(* was never created, or the program could not be started over.            *)
Stall == Move({"ring", "door", "rest", "failed"}, {"stalled"})

(* The process ends.                                                       *)
Leave == Move(Phases \ {"off"}, {"off"})

CycleNext == Visit \/ WaitOver \/ SensorFailed \/ Restart \/ Stall \/ Leave

CycleSpec == CycleInit /\ [][CycleNext]_cycleVars
=============================================================================
