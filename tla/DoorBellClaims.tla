--------------------------- MODULE DoorBellClaims ---------------------------
(***************************************************************************)
(* What the comments and the ReadMe of the door bell say of it, stated     *)
(* over DoorBell with one history variable: how often the bell has rung    *)
(* since the motion sensor was last told to scan.                          *)
(***************************************************************************)
EXTENDS DoorBellCycle

VARIABLE rings

claimVars == <<vars, rings>>

ScanBegins == thread["motion"] = "loop" /\ thread'["motion"] = "busy"
BellStarts == timer["door_bell"] # "armed" /\ timer'["door_bell"] = "armed"

ClaimsInit == Init /\ rings = 0
ClaimsNext ==
  /\ Next
  /\ rings' = IF ScanBegins THEN 0 ELSE IF BellStarts THEN rings + 1 ELSE rings

ClaimsSpec == ClaimsInit /\ [][ClaimsNext]_claimVars

(* One visitor is never rung for more than three times: the retry count    *)
(* bounds the rings of every single visit, also after sensor failures,     *)
(* rests and restarts.                                                     *)
AtMostThreeRings == rings <= MaxRetry

-----------------------------------------------------------------------------
(* door_timer.h:11 "10 Min timer if Door Doesn't Open after 3 times        *)
(* ringing".  door_wait_expiry_count is never set back when a visit ends   *)
(* or the rest begins (door_bell.c:813 "Need to reset the states"), so     *)
(* the rest of later visits begins after their first ring.                 *)
RestAfterThreeRings ==
  timer["reset_states"] = "armed" => rings >= MaxRetry

(* door_bell.c:239 "If any thread Dies then system will shutdown".         *)
DeadThreadShutsDown ==
  [][CheckThreadDead /\ (\E t \in Threads : thread[t] = "dead")
       => main' = "shutdown"]_claimVars
=============================================================================
