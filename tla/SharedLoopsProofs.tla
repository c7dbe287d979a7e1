-------------------------- MODULE SharedLoopsProofs --------------------------
(***************************************************************************)
(* What the loops of SharedLoops keep, for every number of rounds, every   *)
(* set of threads and every value to start from.                           *)
(***************************************************************************)
EXTENDS SharedLoops, TLAPS

(* A round is begun only while there is one left.                          *)
RoundLeft == \A w \in Workers : pc[w] \in {"load", "store"} => round[w] < Total

(* Who is not of the program at hand does nothing.                         *)
Outsiders == \A w \in Workers \ Team : pc[w] \in {"idle", "dead"}

(* The two programs make at most one segment each; the others have theirs  *)
(* from the start.                                                         *)
Memory ==
  /\ ~Pair => /\ made = 1 /\ key = 1 /\ seg = [w \in Workers |-> 1]
              /\ \A w \in Workers : pc[w] # "remove"
  /\ Pair => /\ made \in 0..2 /\ key <= made
             /\ made = 1 => pc[A] # "idle" \/ pc[B] # "idle"
             /\ made = 2 => pc[A] # "idle" /\ pc[B] # "idle"

(* In a round one has the lock.                                            *)
HasLock == Locked =>
  \A w \in Workers : pc[w] \in {"load", "store", "unlock"} => owner = w

(* What a loop has loaded was no further off than what is there now, ...   *)
Drift == /\ DriftBounded
         /\ \A w \in Workers : pc[w] = "store" =>
              reg[w] \in (Base - downs[seg[w]])..(Base + ups[seg[w]])

(* ... and with the lock, or alone on a segment, it is what is there now.  *)
Alone(w, s) == \A v \in Team \ {w} : pc[v] = "idle" \/ seg[v] # s

Fresh ==
  \A s \in Segments : \A w \in Team :
    Locked \/ (Pair /\ Alone(w, s)) =>
      /\ val[s] = Base + ups[s] - downs[s]
      /\ pc[w] = "store" /\ seg[w] = s => reg[w] = val[s]

(* When the result is printed no loop runs, and none can start.            *)
Final == printed /\ program # "sharedMem" =>
  /\ program \in {"semaphore", "mutex"} /\ main \in {"ended", "failed"}
  /\ \A w \in Workers : pc[w] \in {"idle", "done", "dead"}

Control == TypeOK /\ RoundLeft /\ Outsiders /\ Memory /\ HasLock /\ Final
IInv == Control /\ Drift /\ Fresh

LEMMA Starts == Init => IInv
<1> SUFFICES ASSUME Init PROVE IInv
  OBVIOUS
<1> USE SharedLoopsAssumption DEF Init
<1>1. TypeOK
  <2>1. /\ program \in {"semaphore", "sharedMem", "mutex", "race", "processes"}
        /\ main = "start" /\ printed \in BOOLEAN /\ owner \in Workers \cup {Nobody, Lost}
    OBVIOUS
  <2>2. /\ val \in [Segments -> Int] /\ ups \in [Segments -> Nat] /\ downs \in [Segments -> Nat]
        /\ seg \in [Workers -> Segments] /\ key \in {0, 1, 2} /\ made \in {0, 1, 2}
    BY DEF Pair, Segments
  <2>3. round \in [Workers -> 0..Total] /\ reg \in [Workers -> Int]
    BY DEF Total
  <2> QED BY <2>1, <2>2, <2>3 DEF TypeOK
<1>2. RoundLeft /\ Outsiders /\ Memory /\ HasLock /\ Final
  <2>1. RoundLeft /\ Outsiders /\ HasLock
    BY DEF RoundLeft, Outsiders, HasLock
  <2>2. Memory
    BY DEF Memory, Pair
  <2>3. Final
    BY DEF Final
  <2> QED BY <2>1, <2>2, <2>3
<1>3. Drift
  BY DEF Drift, DriftBounded, Base, Segments
<1>4. Fresh
  BY DEF Fresh, Base, Pair, Segments, Workers, Team
<1> QED BY <1>1, <1>2, <1>3, <1>4 DEF IInv, Control

-----------------------------------------------------------------------------
(* Control: where everybody is.                                            *)

LEMMA MainControl ==
  ASSUME Control, Main
  PROVE  Control'
<1> USE SharedLoopsAssumption DEF Control, TypeOK, RoundLeft, Outsiders, Memory, HasLock, Final,
       Total, Pair, Locked, Workers, Team, Forks, work, space
<1>1. CASE Fork
  BY <1>1 DEF Fork
<1>2. CASE ForkFails
  BY <1>2 DEF ForkFails
<1>3. ASSUME NEW w \in Workers, CreateThread(w) PROVE Control'
  BY <1>3 DEF CreateThread, Move
<1>4. CASE CreateFails
  BY <1>4 DEF CreateFails
<1>5. CASE PrintResult
  BY <1>5 DEF PrintResult, Over
<1>6. CASE PrintEarly
  BY <1>6 DEF PrintEarly
<1>7. CASE WaitChild
  BY <1>7 DEF WaitChild
<1> QED BY <1>1, <1>2, <1>3, <1>4, <1>5, <1>6, <1>7 DEF Main

LEMMA LoopControl ==
  ASSUME Control, NEW w \in Workers, Loop(w)
  PROVE  Control'
<1> USE SharedLoopsAssumption DEF Control, TypeOK, RoundLeft, Outsiders, Memory, HasLock, Final,
       Total, Pair, Locked, Workers, Team, space, Move
<1>1. CASE Lock(w)
  BY <1>1 DEF Lock
<1>2. CASE Load(w)
  BY <1>2 DEF Load
<1>3. CASE Store(w)
  BY <1>3 DEF Store
<1>4. CASE Unlock(w)
  BY <1>4 DEF Unlock
<1>5. CASE LoopEnds(w)
  BY <1>5 DEF LoopEnds
<1> QED BY <1>1, <1>2, <1>3, <1>4, <1>5 DEF Loop

LEMMA SegmentControl ==
  ASSUME Control, NEW w \in Workers, Segment(w)
  PROVE  Control'
<1> USE SharedLoopsAssumption DEF Control, TypeOK, RoundLeft, Outsiders, Memory, HasLock, Final,
       Total, Pair, Locked, Workers, Team, space, Move, Segments
<1>1. CASE Get(w)
  BY <1>1 DEF Get
<1>2. CASE Attach(w)
  BY <1>2 DEF Attach
<1>3. CASE AttachFails(w)
  BY <1>3 DEF AttachFails
<1>4. CASE Remove(w)
  BY <1>4 DEF Remove
<1>5. CASE Detach(w)
  BY <1>5 DEF Detach
<1> QED BY <1>1, <1>2, <1>3, <1>4, <1>5 DEF Segment

LEMMA KilledControl ==
  ASSUME Control, NEW w \in Workers, Killed(w)
  PROVE  Control'
BY SharedLoopsAssumption DEF Control, TypeOK, RoundLeft, Outsiders, Memory, HasLock, Final,
   Total, Pair, Locked, Workers, Team, Forks, space, Killed

-----------------------------------------------------------------------------
(* The value.  Every step but Store leaves it alone.                       *)

(* A step that leaves the value and its counts alone, and after which a    *)
(* loop that is to store either was to store before, or has just loaded.   *)
Harmless ==
  /\ UNCHANGED <<program, val, ups, downs>>
  /\ \A w \in Workers :
       /\ pc'[w] = "store" =>
            /\ seg'[w] = seg[w]
            /\ (pc[w] = "store" /\ reg'[w] = reg[w]) \/ reg'[w] = val[seg[w]]
       /\ pc[w] # "idle" => pc'[w] # "idle" /\ seg'[w] = seg[w]

LEMMA HarmlessSteps ==
  ASSUME Control, Main \/ \E w \in Workers : Lock(w) \/ Load(w) \/ Unlock(w) \/ LoopEnds(w)
                                             \/ Segment(w) \/ Killed(w)
  PROVE  Harmless
<1> USE SharedLoopsAssumption DEF Harmless, Move, space, work, Workers
<1>1. CASE Main
  BY <1>1 DEF Main, Fork, ForkFails, CreateThread, CreateFails, PrintResult, PrintEarly,
     WaitChild,
     Control, TypeOK
<1>2. ASSUME NEW w \in Workers, Lock(w) \/ Load(w) \/ Unlock(w) \/ LoopEnds(w) PROVE Harmless
  BY <1>2 DEF Lock, Load, Unlock, LoopEnds, Control, TypeOK
<1>3. ASSUME NEW w \in Workers, Segment(w) PROVE Harmless
  BY <1>3 DEF Segment, Get, Attach, AttachFails, Remove, Detach, Control, TypeOK
<1>4. ASSUME NEW w \in Workers, Killed(w) PROVE Harmless
  BY <1>4 DEF Killed, Control, TypeOK
<1> QED BY <1>1, <1>2, <1>3, <1>4

LEMMA HarmlessKeeps ==
  ASSUME Control, Drift, Fresh, Harmless
  PROVE  Drift' /\ Fresh'
<1>1. Drift'
  BY DEF Harmless, Drift, DriftBounded, Base, Pair, Control, TypeOK, Segments
<1>2. ASSUME NEW s \in Segments, NEW w \in Team, Alone(w, s)' PROVE Alone(w, s)
  BY <1>2, SharedLoopsAssumption DEF Alone, Harmless, Team, Workers
<1>3. Fresh'
  BY <1>2, SharedLoopsAssumption DEF Fresh, Harmless, Base, Pair, Locked, Team, Workers
<1> QED BY <1>1, <1>3

(* Store.                                                                  *)
LEMMA StoreKeepsDrift ==
  ASSUME Control, Drift, NEW w \in Workers, Store(w)
  PROVE  Drift'
BY SharedLoopsAssumption DEF Control, TypeOK, Drift, DriftBounded, Store, Move, Base,
   Pair, Segments, space

(* Who stores was not passed by: the others are out of their rounds, or    *)
(* on another segment.                                                     *)
LEMMA StoreKeepsFresh ==
  ASSUME Control, Fresh, NEW w \in Workers, Store(w)
  PROVE  Fresh'
<1>1. UNCHANGED <<program, seg, reg>> /\ w \in Team /\ pc[w] = "store"
  BY DEF Store, Move, space, Control, Outsiders
<1>2. SUFFICES ASSUME NEW s \in Segments, NEW u \in Team,
                      Locked \/ (Pair /\ Alone(u, s)')
               PROVE  (/\ val[s] = Base + ups[s] - downs[s]
                       /\ pc[u] = "store" /\ seg[u] = s => reg[u] = val[s])'
  BY <1>1 DEF Fresh, Locked, Pair, Team
<1>3. Locked \/ (Pair /\ Alone(u, s))
  BY <1>1, <1>2, SharedLoopsAssumption DEF Alone, Store, Move, Control, TypeOK, Team, Workers
<1>4. /\ val[s] = Base + ups[s] - downs[s]
      /\ pc[u] = "store" /\ seg[u] = s => reg[u] = val[s]
  BY <1>3 DEF Fresh
<1>5. CASE seg[w] # s
  BY <1>1, <1>4, <1>5 DEF Store, Move, Control, TypeOK, Base, Pair, Team, Workers
<1>6. CASE seg[w] = s
  <2>1. reg[w] = val[s] /\ (u # w => pc[u] # "store")
    <3>1. CASE Locked
      <4>1. reg[w] = val[s]
        BY <1>1, <1>6, <3>1 DEF Fresh
      <4>2. u \in Workers /\ owner = w
        BY <1>1, <3>1, SharedLoopsAssumption DEF Control, HasLock, Team, Workers
      <4> QED BY <3>1, <4>1, <4>2 DEF Control, HasLock
    <3>2. CASE Pair /\ Alone(u, s)
      BY <1>1, <1>3, <1>4, <1>6, <3>2 DEF Alone
    <3> QED BY <1>3, <3>1, <3>2
  <2>2. pc'[u] # "store"
    BY <1>1, <2>1 DEF Store, Move, Control, TypeOK, Team, Workers
  <2>3. (val[s] = Base + ups[s] - downs[s])'
    BY <1>1, <1>4, <1>6, <2>1, SharedLoopsAssumption DEF Store, Control, TypeOK, Base, Pair
  <2> QED BY <2>2, <2>3
<1> QED BY <1>5, <1>6

-----------------------------------------------------------------------------
LEMMA StepKeeps == IInv /\ [Next]_vars => IInv'
<1> SUFFICES ASSUME IInv, [Next]_vars PROVE IInv'
  OBVIOUS
<1>1. CASE UNCHANGED vars
  BY <1>1 DEF vars, work, space, IInv, Control, TypeOK, RoundLeft, Outsiders, Memory,
     HasLock, Final,
     Drift, DriftBounded, Fresh, Alone, Base, Total, Pair, Locked, Team
<1>2. CASE \E w \in Workers : Store(w)
  BY <1>2, LoopControl, StoreKeepsDrift, StoreKeepsFresh DEF IInv, Loop
<1>3. CASE Main \/ \E w \in Workers : Lock(w) \/ Load(w) \/ Unlock(w) \/ LoopEnds(w)
                                      \/ Segment(w) \/ Killed(w)
  <2>1. Control'
    BY <1>3, MainControl, LoopControl, SegmentControl, KilledControl DEF IInv, Loop
  <2> QED BY <1>3, <2>1, HarmlessSteps, HarmlessKeeps DEF IInv
<1> QED BY <1>1, <1>2, <1>3 DEF Next, Loop

LEMMA Inductive == Spec => []IInv
BY Starts, StepKeeps, PTL DEF Spec

(* Every variable holds what its declaration says: no loop does more       *)
(* rounds than it should, and there are never more than two segments.      *)
THEOREM LoopsTypeCorrect == Spec => []TypeOK
BY Inductive, PTL DEF IInv, Control

(* Without a lock the value is never further off than the rounds done up   *)
(* and the rounds done down.                                               *)
THEOREM DriftBoundedHolds == Spec => []DriftBounded
BY Inductive, PTL DEF IInv, Drift

(* With the semaphore or mutex in every round, or alone on its segment, no *)
(* change is lost, also when a process is killed in a round.               *)
THEOREM LosesNothingHolds == Spec => []LosesNothing
<1>1. IInv => LosesNothing
  BY SharedLoopsAssumption DEF IInv, Fresh, LosesNothing, Alone, Team, Workers
<1> QED BY <1>1, Inductive, PTL

(* What main() has printed is final.                                       *)
THEOREM PrintedIsFinalHolds == Spec => PrintedIsFinal
<1>1. IInv /\ [Next]_vars => [printed /\ program # "sharedMem" => val' = val]_vars
  BY DEF IInv, Control, Final, vars, Next, Main, Fork, ForkFails, CreateThread, CreateFails,
     PrintResult, PrintEarly, WaitChild, work, space, Loop, Lock, Load, Store, Unlock, LoopEnds,
     Segment, Get, Attach, AttachFails, Remove, Detach, Killed, Move
<1> QED BY <1>1, Inductive, PTL DEF Spec, PrintedIsFinal
=============================================================================
