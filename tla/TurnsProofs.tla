----------------------------- MODULE TurnsProofs -----------------------------
(***************************************************************************)
(* For every number of rounds: the threads of Turns never all wait, and    *)
(* print one after the other.                                              *)
(***************************************************************************)
EXTENDS Turns, TLAPS

(* Who is in a round has a round left.                                     *)
RoundLeft == \A t \in 1..3 :
  pc[t] \notin {"new", "top", "leave2", "leave3", "done"} => round[t] < Rounds

(* The places of the loops with conditions, and the threads that are not.  *)
Places ==
  /\ ~Conds => \A t \in 1..3 : pc[t] \in {"new", "top", "print", "signal", "done"}
  /\ \A t \in (1..3) \ Threads : pc[t] = "new"

(* From the lock to the unlock, and not in the wait, one has the mutex.    *)
HasMutex == Conds =>
  \A t \in 1..3 : pc[t] \in {"print", "signal", "wait", "unlock"} => owner = t

(* Who is about to wait has left somebody that does not.                   *)
LeavesOne == \A t \in 1..3 :
  pc[t] = "wait" => \E u \in Threads \ {t} : pc[u] # "waiting"

Control == TypeOK /\ RoundLeft /\ Places /\ HasMutex
IInv == Control /\ LeavesOne /\ NotAllWait

LEMMA NextThread == \A t \in Threads : Next1(t) \in Threads \ {t}
BY DEF Next1, Threads

LEMMA Starts == Init => IInv
<1> SUFFICES ASSUME Init PROVE IInv
  OBVIOUS
<1> USE TurnsAssumption DEF Init
<1>1. TypeOK
  <2>1. sem \in [1..3 -> Nat]
    BY DEF SemInit
  <2>2. /\ round \in [1..3 -> 0..Rounds]
        /\ pc \in [1..3 -> {"new", "top", "print", "signal", "wait", "waiting", "relock",
                            "unlock", "leave2", "leave3", "done"}]
    OBVIOUS
  <2>3. program \in {"two", "three", "sems"} /\ last \in 0..3 /\ owner \in {1, 2, 3, Nobody}
    OBVIOUS
  <2>4. slow \in BOOLEAN /\ restless \in BOOLEAN /\ joined \in BOOLEAN
    OBVIOUS
  <2> QED BY ONLY <2>1, <2>2, <2>3, <2>4 DEF TypeOK
<1>2. RoundLeft /\ Places /\ HasMutex /\ LeavesOne
  BY DEF RoundLeft, Places, HasMutex, LeavesOne
<1>3. NotAllWait
  BY DEF NotAllWait, Threads
<1> QED BY <1>1, <1>2, <1>3 DEF IInv, Control

-----------------------------------------------------------------------------
(* Control, one action after the other.                                    *)

LEMMA SignalledControl ==
  ASSUME Control, NEW t \in 1..3, NEW c \in 1..3, NEW to \in {"wait", "done", "leave2", "leave3"},
         Conds, t \in Threads, pc[t] \in {"top", "signal", "leave2", "leave3"},
         to = "wait" => pc[t] = "signal",
         Signalled(c, t, to), UNCHANGED <<kind, round, last, owner, sem, joined>>
  PROVE  Control'
BY DEF Control, TypeOK, RoundLeft, Places, HasMutex, Signalled, Waiting, Threads, Conds,
   kind

LEMMA CondControl ==
  ASSUME Control, NEW t \in 1..3,
         Lock(t) \/ PrintTurn(t) \/ Signal(t) \/ Wait(t) \/ Relock(t) \/ Unlock(t)
           \/ Leave(t) \/ WakesUp(t)
  PROVE  Control'
<1> USE TurnsAssumption DEF Control, TypeOK, RoundLeft, Places, HasMutex, Threads, Conds, Move, kind
<1>1. CASE Lock(t)
  BY <1>1 DEF Lock
<1>2. CASE PrintTurn(t)
  BY <1>2 DEF PrintTurn
<1>3. CASE Signal(t) \/ Leave(t)
  <2>1. t \in Threads /\ SignalsTo(t) \in 1..3
    BY <1>3 DEF Signal, Leave, SignalsTo, Next1
  <2> QED BY <1>3, <2>1, SignalledControl DEF Signal, Leave
<1>4. CASE Wait(t)
  BY <1>4 DEF Wait
<1>5. CASE Relock(t)
  BY <1>5 DEF Relock
<1>6. CASE Unlock(t)
  BY <1>6 DEF Unlock
<1>7. CASE WakesUp(t)
  BY <1>7 DEF WakesUp
<1> QED BY <1>1, <1>2, <1>3, <1>4, <1>5, <1>6, <1>7

LEMMA OtherControl ==
  ASSUME Control,
         Join \/ \E t \in 1..3 : Create(t) \/ SemWait(t) \/ SemPost(t) \/ SemLeave(t)
  PROVE  Control'
<1> USE TurnsAssumption DEF Control, TypeOK, RoundLeft, Places, HasMutex, Threads, Conds, Move, kind
<1>1. CASE Join
  BY <1>1 DEF Join
<1>2. ASSUME NEW t \in 1..3, Create(t) PROVE Control'
  BY <1>2 DEF Create
<1>3. ASSUME NEW t \in 1..3, SemWait(t) PROVE Control'
  BY <1>3 DEF SemWait
<1>4. ASSUME NEW t \in 1..3, SemPost(t) PROVE Control'
  BY <1>4 DEF SemPost, Next1
<1>5. ASSUME NEW t \in 1..3, SemLeave(t) PROVE Control'
  BY <1>5 DEF SemLeave
<1> QED BY <1>1, <1>2, <1>3, <1>4, <1>5

-----------------------------------------------------------------------------
(* Not everybody waits.                                                    *)

(* A step after which nobody waits who did not before, or is about to wait *)
(* who was not before.                                                     *)
Harmless ==
  /\ UNCHANGED program
  /\ \A t \in 1..3 : pc'[t] \in {"waiting", "wait"} => pc'[t] = pc[t]

LEMMA HarmlessKeeps ==
  ASSUME IInv, Harmless
  PROVE  LeavesOne' /\ NotAllWait'
BY DEF Harmless, IInv, LeavesOne, NotAllWait, Threads

LEMMA HarmlessSteps ==
  ASSUME Control, 
         Join \/ \E t \in 1..3 : \/ Lock(t) \/ PrintTurn(t) \/ Relock(t) \/ Unlock(t)
                                 \/ WakesUp(t) \/ Leave(t) \/ Create(t)
                                 \/ SemWait(t) \/ SemPost(t) \/ SemLeave(t)
  PROVE  Harmless
<1> USE DEF Harmless, Control, TypeOK, kind, Move
<1>1. CASE Join
  BY <1>1 DEF Join
<1>2. ASSUME NEW t \in 1..3, Lock(t) \/ PrintTurn(t) \/ Relock(t) \/ Unlock(t) \/ WakesUp(t)
      PROVE  Harmless
  BY <1>2 DEF Lock, PrintTurn, Relock, Unlock, WakesUp
<1>3. ASSUME NEW t \in 1..3, Leave(t) PROVE Harmless
  BY <1>3 DEF Leave, Signalled
<1>4. ASSUME NEW t \in 1..3, Create(t) \/ SemWait(t) \/ SemPost(t) \/ SemLeave(t)
      PROVE  Harmless
  BY <1>4 DEF Create, SemWait, SemPost, SemLeave
<1> QED BY <1>1, <1>2, <1>3, <1>4

(* A signal wakes a thread, or its receiver did not wait.                  *)
LEMMA SignalKeeps ==
  ASSUME IInv, NEW t \in 1..3, Signal(t)
  PROVE  LeavesOne' /\ NotAllWait'
<1>1. t \in Threads /\ pc[t] = "signal" /\ program' = program
  BY DEF Signal, IInv, Control, Places, kind
<1>2. PICK u \in Threads \ {t} : pc'[u] # "waiting"
  <2>1. CASE Waiting(SignalsTo(t)) = {}
    <3>1. pc[Next1(t)] # "waiting" /\ Next1(t) \in Threads \ {t}
      BY <1>1, <2>1, NextThread DEF Waiting, WaitsFor, SignalsTo
    <3> QED BY <1>1, <2>1, <3>1 DEF Signal, Signalled, IInv, Control, TypeOK, Threads
  <2>2. CASE Waiting(SignalsTo(t)) # {}
    BY <1>1, <2>2 DEF Signal, Signalled, Waiting, IInv, Control, TypeOK, Threads
  <2> QED BY <2>1, <2>2
<1>3. \A v \in 1..3 : pc'[v] = "wait" => v = t \/ pc[v] = "wait"
  BY DEF Signal, Signalled, IInv, Control, TypeOK
<1>4. \A v \in 1..3 : pc[v] # "wait"
  BY <1>1, TurnsAssumption DEF IInv, Control, HasMutex, Signal
<1>5. LeavesOne'
  BY <1>1, <1>2, <1>3, <1>4 DEF LeavesOne, Threads
<1>6. NotAllWait'
  BY <1>1, <1>2 DEF NotAllWait, Threads
<1> QED BY <1>5, <1>6

LEMMA WaitKeeps ==
  ASSUME IInv, NEW t \in 1..3, Wait(t)
  PROVE  LeavesOne' /\ NotAllWait'
<1>1. pc[t] = "wait" /\ program' = program /\ Conds
  BY DEF Wait, Move, kind, IInv, Control, Places
<1>2. \A v \in 1..3 : v # t => pc[v] # "wait" /\ pc'[v] = pc[v]
  BY <1>1 DEF IInv, Control, HasMutex, Wait, Move, TypeOK
<1>3. pc'[t] = "waiting"
  BY DEF Wait, Move, IInv, Control, TypeOK
<1>4. PICK u \in Threads \ {t} : pc[u] # "waiting"
  BY <1>1 DEF IInv, LeavesOne
<1> QED BY <1>1, <1>2, <1>3, <1>4 DEF LeavesOne, NotAllWait, Threads

LEMMA StepKeeps == IInv /\ [Next]_vars => IInv'
<1> SUFFICES ASSUME IInv, [Next]_vars PROVE IInv'
  OBVIOUS
<1>1. CASE UNCHANGED vars
  BY <1>1 DEF vars, IInv, Control, TypeOK, RoundLeft, Places, HasMutex, LeavesOne,
     NotAllWait, Threads, Conds
<1>2. CASE Next
  <2>1. Control'
    BY <1>2, CondControl, OtherControl DEF IInv, Next, Step
  <2> QED BY <1>2, <2>1, SignalKeeps, WaitKeeps, HarmlessSteps, HarmlessKeeps
     DEF IInv, Next, Step
<1> QED BY <1>1, <1>2

LEMMA Inductive == Spec => []IInv
BY Starts, StepKeeps, PTL DEF Spec

(* Every variable holds what its declaration says: no thread goes round    *)
(* more often than it should, and no semaphore falls below 0.              *)
THEOREM TurnsTypeCorrect == Spec => []TypeOK
BY Inductive, PTL DEF IInv, Control

(* Never do all threads wait for a signal, whenever they start and         *)
(* whatever wakes them.                                                    *)
THEOREM NotAllWaitHolds == Spec => []NotAllWait
BY Inductive, PTL DEF IInv

-----------------------------------------------------------------------------
(* The semaphores: the turn is at one thread, which may start its round or *)
(* is in it.                                                               *)
TurnAt(h) ==
  /\ \A t \in (1..3) \ {h} : sem[t] = 0 /\ pc[t] \notin {"print", "signal"}
  /\ sem[h] = IF pc[h] \in {"print", "signal"} THEN 0 ELSE 1
  /\ IF pc[h] = "signal" THEN last = h
     ELSE (last = 0 /\ h = 1) \/ (last # 0 /\ h = Next1(last))

OneTurn == ~Conds => \E h \in 1..3 : TurnAt(h)

LEMMA OneTurnStarts == Init => OneTurn
BY DEF Init, OneTurn, TurnAt, SemInit

LEMMA OneTurnStep == IInv /\ OneTurn /\ [Next]_vars => OneTurn'
<1> SUFFICES ASSUME IInv, OneTurn, ~Conds, [Next]_vars PROVE \E h \in 1..3 : TurnAt(h)'
  BY DEF OneTurn, Conds, vars, kind, Next, Join, Create, Step, Lock, PrintTurn, Signal,
     Wait, Relock, Unlock, Leave, SemWait, SemPost, SemLeave, WakesUp
<1>1. PICK h \in 1..3 : TurnAt(h)
  BY DEF OneTurn
<1> USE DEF IInv, Control, TypeOK, Places, TurnAt, Next1, Move, kind
<1>2. CASE UNCHANGED vars \/ Join
  <2>1. TurnAt(h)'
    BY <1>1, <1>2 DEF vars, Join
  <2> QED BY <2>1
<1>3. ASSUME NEW t \in 1..3, Create(t) \/ SemLeave(t) PROVE TurnAt(h)'
  BY <1>1, <1>3 DEF Create, SemLeave
<1>4. ASSUME NEW t \in 1..3, SemWait(t) \/ PrintTurn(t) PROVE TurnAt(h)'
  BY <1>1, <1>4 DEF SemWait, PrintTurn
<1>5. ASSUME NEW t \in 1..3, SemPost(t) PROVE \E g \in 1..3 : TurnAt(g)'
  <2>1. PICK g \in 1..3 : g = Next1(h)
    BY DEF Conds
  <2>2. TurnAt(g)'
    BY <1>1, <1>5, <2>1 DEF SemPost, Conds
  <2> QED BY <2>2
<1>6. ASSUME NEW t \in 1..3, Step(t) \/ WakesUp(t)
      PROVE  SemWait(t) \/ PrintTurn(t) \/ SemPost(t) \/ SemLeave(t)
  BY <1>6 DEF Step, Lock, Signal, Wait, Relock, Unlock, Leave, WakesUp
<1> HIDE DEF IInv, Control, TypeOK, Places, TurnAt, Next1, Move, kind
<1>7. CASE \E t \in 1..3 : Create(t) \/ Step(t) \/ WakesUp(t)
  BY <1>3, <1>4, <1>5, <1>6, <1>7
<1> QED BY <1>2, <1>7 DEF Next

-----------------------------------------------------------------------------
(* The conditions: the first round, in which each signal but the last is   *)
(* given to nobody; the rounds that follow; and the end.                   *)
Before(t) == IF program = "two" THEN 3 - t ELSE ((t + 1) % 3) + 1

StartsThree(h) ==
  /\ \A u \in 1..3 : (u < h => pc[u] = "waiting") /\ (u > h => pc[u] = "new")
  /\ pc[h] \in {"new", "top", "print", "signal"} \/ (h < 3 /\ pc[h] = "wait")
  /\ last = IF pc[h] \in {"signal", "wait"} THEN h ELSE h - 1

(* Of two threads the one that is late may be first.                       *)
StartsTwo(a) ==
  \/ last = 0 /\ \A t \in 1..2 : pc[t] \in {"new", "top", "print"}
  \/ last = a /\ pc[a] \in {"signal", "wait", "waiting"} /\ pc[3 - a] \in {"new", "top", "print"}
  \/ last = 3 - a /\ pc[a] = "waiting" /\ pc[3 - a] = "signal"

Starting ==
  /\ \A t \in Threads : round[t] = 0
  /\ \E h \in Threads : IF program = "two" THEN StartsTwo(h) ELSE StartsThree(h)

(* It is the turn of h: the others wait, and as h has signalled its wait   *)
(* is over before the next can have the mutex.                             *)
Ahead(h)  == /\ round[h] >= round[Before(h)] /\ round[Before(h)] >= round[Next1(h)]
             /\ round[Next1(h)] >= round[h] - 1
Behind(h) == /\ round[Before(h)] >= round[Next1(h)] /\ round[Next1(h)] >= round[h]
             /\ round[h] >= round[Before(h)] - 1

InTurn(h) ==
  /\ pc[h] \in {"relock", "unlock", "top", "print", "signal"}
  /\ \A u \in Threads \ {h} :
       pc[u] = "waiting" \/ (u = Before(h) /\ pc[u] = "wait" /\ pc[h] = "relock")
  /\ last = IF pc[h] = "signal" THEN h ELSE Before(h)
  /\ IF pc[h] \in {"relock", "unlock"} THEN Behind(h) ELSE Ahead(h)

(* Who is not past its last round has printed in it.                       *)
Ending == \A t \in Threads :
  \/ pc[t] \in {"top", "leave2", "leave3", "done"} /\ round[t] = Rounds
  \/ pc[t] \in {"waiting", "relock", "unlock"} /\ round[t] = Rounds - 1

Turning == Starting \/ (\E h \in Threads : InTurn(h)) \/ Ending

CondsTurn == Calm /\ Conds => Turning

LEMMA Ring ==
  ASSUME IInv, Conds, NEW h \in Threads
  PROVE  /\ Next1(h) \in Threads \ {h} /\ Before(h) \in Threads \ {h}
         /\ \A u \in Threads \ {h} : u = Next1(h) \/ u = Before(h)
         /\ Before(Next1(h)) = h /\ Next1(Before(h)) = h
         /\ program = "two" => Next1(h) = Before(h)
         /\ program = "three" => Before(Before(h)) = Next1(h) /\ Next1(Next1(h)) = Before(h)
         /\ Threads \subseteq 1..3 /\ program \in {"two", "three"}
BY DEF Next1, Before, Threads, IInv, Control, TypeOK, Conds

(* At the end nobody prints any more.                                      *)
LEMMA EndingStep ==
  ASSUME IInv, Ending, Conds, NEW t \in 1..3, Create(t) \/ Step(t)
  PROVE  Ending'
<1>0. /\ pc \in [1..3 -> {"new", "top", "print", "signal", "wait", "waiting", "relock",
                          "unlock", "leave2", "leave3", "done"}]
      /\ round \in [1..3 -> 0..Rounds] /\ Rounds \in Nat \ {0} /\ Threads \subseteq 1..3
      /\ \A u \in (1..3) \ Threads : pc[u] = "new"
  BY TurnsAssumption DEF IInv, Control, TypeOK, Places, Threads
<1>1. Threads' = Threads
  BY DEF Create, Step, Lock, PrintTurn, Signal, Wait, Relock, Unlock, Leave, SemWait,
     SemPost, SemLeave, kind, Threads
<1>2. CASE Relock(t)
  BY <1>0, <1>1, <1>2 DEF Relock, Move, Ending
<1>3. CASE Unlock(t)
  BY <1>0, <1>1, <1>3 DEF Unlock, Move, Ending
<1>4. CASE Leave(t)
  BY <1>0, <1>1, <1>4 DEF Leave, Signalled, Waiting, Ending
<1>5. Relock(t) \/ Unlock(t) \/ Leave(t)
  BY <1>0 DEF Ending, Create, Step, Lock, PrintTurn, Signal, Wait, SemWait, SemPost,
     SemLeave, Move
<1> QED BY <1>2, <1>3, <1>4, <1>5

(* Who has its last round behind it is the first who has: the others wait  *)
(* in theirs.                                                              *)
LEMMA LastRound ==
  ASSUME IInv, Conds, NEW h \in Threads, InTurn(h), pc[h] = "top", round[h] = Rounds
  PROVE  Ending
<1>1. round \in [1..3 -> 0..Rounds] /\ Rounds \in Nat \ {0}
  BY TurnsAssumption DEF IInv, Control, TypeOK
<1>2. \A u \in Threads \ {h} : pc[u] = "waiting"
  BY DEF InTurn
<1>3. \A u \in Threads \ {h} : round[u] < Rounds
  BY <1>2, Ring DEF IInv, Control, RoundLeft
<1>4. \A u \in Threads \ {h} : round[u] >= Rounds - 1
  BY <1>1, Ring DEF InTurn, Ahead
<1>5. \A u \in Threads \ {h} : round[u] = Rounds - 1
  BY <1>1, <1>3, <1>4, Ring
<1> QED BY <1>2, <1>5 DEF Ending

(* The turn goes round.                                                    *)
LEMMA InTurnStep ==
  ASSUME IInv, Conds, NEW h \in Threads, InTurn(h), NEW t \in 1..3, Create(t) \/ Step(t)
  PROVE  Turning'
<1>0. /\ pc \in [1..3 -> {"new", "top", "print", "signal", "wait", "waiting", "relock",
                          "unlock", "leave2", "leave3", "done"}]
      /\ round \in [1..3 -> 0..Rounds] /\ Rounds \in Nat \ {0} /\ Nobody \notin 1..3
      /\ \A u \in (1..3) \ Threads : pc[u] = "new"
  BY TurnsAssumption DEF IInv, Control, TypeOK, Places
<1>1. Threads' = Threads /\ program' = program /\ \A u : Next1(u)' = Next1(u) /\ Before(u)' = Before(u)
  BY DEF Create, Step, Lock, PrintTurn, Signal, Wait, Relock, Unlock, Leave, SemWait,
     SemPost, SemLeave, kind, Threads, Next1, Before
<1>2. ASSUME InTurn(h)' PROVE Turning'
  BY <1>1, <1>2 DEF Turning
<1>3. CASE Lock(t)
  <2>1. t = h /\ pc' = [pc EXCEPT ![h] = "print"] /\ pc[h] = "top" /\ UNCHANGED <<round, last>>
    BY <1>0, <1>3, Ring DEF Lock, Move, InTurn
  <2>2. InTurn(h)'
    BY <1>0, <1>1, <2>1, Ring DEF InTurn, Ahead
  <2> QED BY <1>2, <2>2
<1>4. CASE PrintTurn(t)
  <2>1. t = h /\ pc' = [pc EXCEPT ![h] = "signal"] /\ pc[h] = "print" /\ last' = h /\ round' = round
    BY <1>0, <1>4, Ring DEF PrintTurn, Move, InTurn
  <2>2. InTurn(h)'
    BY <1>0, <1>1, <2>1, Ring DEF InTurn, Ahead
  <2> QED BY <1>2, <2>2
<1>5. CASE Signal(t)
  <2>1. t = h /\ pc[h] = "signal" /\ Signalled(SignalsTo(h), h, "wait") /\ UNCHANGED <<round, last>>
    BY <1>0, <1>5, Ring DEF Signal, InTurn
  <2>2. \A u \in Threads \ {h} : pc[u] = "waiting"
    BY <2>1 DEF InTurn
  <2>3. Waiting(SignalsTo(h)) = {Next1(h)}
    BY <2>1, <2>2, Ring DEF Waiting, SignalsTo, WaitsFor, Threads
  <2>4. pc' = [pc EXCEPT ![h] = "wait", ![Next1(h)] = "relock"]
    BY <2>1, <2>3 DEF Signalled
  <2>5. PICK n \in Threads : n = Next1(h)
    BY Ring
  <2>6. /\ n # h /\ Before(n) = h /\ Next1(n) \in {h, Before(h)}
        /\ \A u \in Threads : u \in 1..3
    BY <2>5, Ring
  <2>7. /\ pc'[n] = "relock" /\ pc'[h] = "wait"
        /\ \A u \in Threads \ {h, n} : pc'[u] = "waiting"
    BY <1>0, <2>2, <2>4, <2>5, <2>6
  <2>8. Behind(n)
    <3>1. Ahead(h) /\ \A u \in Threads : round[u] \in Int
      BY <1>0, <2>1, <2>6 DEF InTurn
    <3>2. /\ round[h] >= round[Before(h)] /\ round[Before(h)] >= round[n] /\ round[n] >= round[h] - 1
          /\ round[h] \in Int /\ round[Before(h)] \in Int /\ round[n] \in Int
      BY <2>5, <3>1, Ring DEF Ahead
    <3> QED BY <2>6, <3>2 DEF Behind
  <2>9. Behind(n)'
    BY <1>1, <2>1, <2>8 DEF Behind
  <2>10. last' = Before(n)
    BY <2>1, <2>6 DEF InTurn
  <2>11. InTurn(n)'
    BY <1>1, <2>6, <2>7, <2>9, <2>10 DEF InTurn
  <2> QED BY <1>1, <2>11 DEF Turning
<1>6. CASE Wait(t)
  <2>1. /\ t \in Threads \ {h} /\ t = Before(h) /\ pc[h] = "relock" /\ pc[t] = "wait"
        /\ pc' = [pc EXCEPT ![t] = "waiting"] /\ UNCHANGED <<round, last>>
    BY <1>0, <1>6, Ring DEF Wait, Move, InTurn
  <2>2. InTurn(h)'
    BY <1>0, <1>1, <2>1, Ring DEF InTurn, Behind
  <2> QED BY <1>2, <2>2
<1>7. CASE Relock(t)
  <2>1. /\ t = h /\ pc' = [pc EXCEPT ![h] = "unlock"] /\ pc[h] = "relock" /\ owner = Nobody
        /\ UNCHANGED <<round, last>>
    BY <1>0, <1>7, Ring DEF Relock, Move, InTurn
  <2>2. \A u \in Threads \ {h} : pc[u] = "waiting"
    BY <1>0, <2>1, Ring DEF InTurn, IInv, Control, HasMutex
  <2>3. InTurn(h)'
    BY <1>0, <1>1, <2>1, <2>2, Ring DEF InTurn, Behind
  <2> QED BY <1>2, <2>3
<1>8. CASE Unlock(t)
  <2>1. /\ t = h /\ pc' = [pc EXCEPT ![h] = "top"] /\ pc[h] = "unlock" /\ last' = last
        /\ round' = [round EXCEPT ![h] = @ + 1]
    BY <1>0, <1>8, Ring DEF Unlock, Move, InTurn
  <2>2. Behind(h) /\ Next1(h) # h /\ Before(h) # h
    BY <2>1, Ring DEF InTurn
  <2>3. Ahead(h)'
    <3>1. /\ round'[h] = round[h] + 1 /\ round'[Before(h)] = round[Before(h)]
          /\ round'[Next1(h)] = round[Next1(h)]
          /\ round[h] \in Int /\ round[Before(h)] \in Int /\ round[Next1(h)] \in Int
      <4>1. PICK b \in 1..3, n \in 1..3 : b = Before(h) /\ n = Next1(h) /\ b # h /\ n # h /\ h \in 1..3
        BY Ring
      <4>2. round'[h] = round[h] + 1 /\ round'[b] = round[b] /\ round'[n] = round[n]
            /\ round[h] \in Int /\ round[b] \in Int /\ round[n] \in Int
        BY <1>0, <2>1, <4>1
      <4> QED BY <4>1, <4>2
    <3>2. /\ round[h] + 1 >= round[Before(h)] /\ round[Before(h)] >= round[Next1(h)]
          /\ round[Next1(h)] >= (round[h] + 1) - 1
      BY <2>2, <3>1 DEF Behind
    <3> QED BY <1>1, <3>1, <3>2 DEF Ahead
  <2>4. InTurn(h)'
    BY <1>0, <1>1, <2>1, <2>3, Ring DEF InTurn
  <2> QED BY <1>2, <2>4
<1>9. CASE Leave(t)
  <2>1. t = h /\ pc[h] = "top" /\ round[h] = Rounds
    BY <1>0, <1>9, Ring DEF Leave, InTurn
  <2>2. Ending
    BY <2>1, LastRound
  <2> QED BY <1>9, <2>2, EndingStep DEF Turning, Step
<1>10. \A u \in 1..3 : ~Create(u) /\ ~SemWait(u) /\ ~SemPost(u) /\ ~SemLeave(u)
  BY <1>0, Ring DEF Create, SemWait, SemPost, SemLeave, Move, InTurn
<1> QED BY <1>3, <1>4, <1>5, <1>6, <1>7, <1>8, <1>9, <1>10 DEF Step

(* The first round.                                                        *)
LEMMA StartsThreeStep ==
  ASSUME IInv, program = "three", ~slow, Starting, NEW t \in 1..3, Create(t) \/ Step(t)
  PROVE  Turning'
<1>0. /\ pc \in [1..3 -> {"new", "top", "print", "signal", "wait", "waiting", "relock",
                          "unlock", "leave2", "leave3", "done"}]
      /\ round \in [1..3 -> 0..Rounds] /\ Rounds \in Nat \ {0} /\ Threads = 1..3 /\ Conds
  BY TurnsAssumption DEF IInv, Control, TypeOK, Threads, Conds
<1>1. PICK h \in 1..3 : StartsThree(h)
  BY <1>0 DEF Starting
<1>2. \A u \in 1..3 : round[u] = 0
  BY <1>0 DEF Starting
<1>3. program' = "three" /\ Threads' = 1..3
  BY <1>0 DEF Create, Step, Lock, PrintTurn, Signal, Wait, Relock, Unlock, Leave, SemWait,
     SemPost, SemLeave, kind, Threads
<1>4. ASSUME NEW g \in 1..3, StartsThree(g)', round' = round PROVE Turning'
  BY <1>2, <1>3, <1>4 DEF Turning, Starting
<1>a. \A u \in 1..3 : u # h => pc[u] \in {"new", "waiting"}
  BY <1>1 DEF StartsThree
<1>5. CASE Create(t)
  <2>3. t > 1 => pc[t - 1] = "waiting"
    BY <1>0, <1>5 DEF Create
  <2>4. ~(t > h)
    <3>1. t = h + 1 => t - 1 = h
      OBVIOUS
    <3>2. t > h /\ t # h + 1 => t - 1 \in 1..3 /\ t - 1 > h
      OBVIOUS
    <3> QED BY <1>1, <2>3, <3>1, <3>2 DEF StartsThree
  <2>5. ~(t < h) /\ pc[t] = "new" /\ pc' = [pc EXCEPT ![t] = "top"]
    BY <1>1, <1>5 DEF StartsThree, Create, Move
  <2>1. t = h /\ pc' = [pc EXCEPT ![h] = "top"] /\ pc[h] = "new" /\ UNCHANGED <<round, last>>
    <3>1. t = h
      BY <2>4, <2>5
    <3> QED BY <1>5, <2>5, <3>1 DEF Create
  <2>2. StartsThree(h)'
    BY <1>0, <1>1, <2>1 DEF StartsThree
  <2> QED BY <1>4, <2>1, <2>2
<1>6. CASE Lock(t)
  <2>1. t = h /\ pc' = [pc EXCEPT ![h] = "print"] /\ pc[h] = "top" /\ UNCHANGED <<round, last>>
    BY <1>6, <1>a DEF Lock, Move
  <2>2. StartsThree(h)'
    BY <1>0, <1>1, <2>1 DEF StartsThree
  <2> QED BY <1>4, <2>1, <2>2
<1>7. CASE PrintTurn(t)
  <2>1. t = h /\ pc' = [pc EXCEPT ![h] = "signal"] /\ pc[h] = "print" /\ last' = h /\ round' = round
    BY <1>7, <1>a DEF PrintTurn, Move
  <2>2. StartsThree(h)'
    BY <1>0, <1>1, <2>1 DEF StartsThree
  <2> QED BY <1>4, <2>1, <2>2
<1>8. CASE Signal(t)
  <2>1. /\ t = h /\ pc[h] = "signal" /\ Signalled(SignalsTo(h), h, "wait")
        /\ UNCHANGED <<round, last>>
    BY <1>0, <1>1, <1>8 DEF StartsThree, Signal
  <2>2. CASE h < 3
    <3>1. SignalsTo(h) = h + 1 /\ Waiting(h + 1) = {}
      BY <1>0, <1>1, <2>1, <2>2 DEF StartsThree, Waiting, WaitsFor, SignalsTo, Next1
    <3>2. pc' = [pc EXCEPT ![h] = "wait"]
      BY <2>1, <3>1 DEF Signalled
    <3>3. StartsThree(h)'
      BY <1>0, <1>1, <2>1, <2>2, <3>2 DEF StartsThree
    <3> QED BY <1>4, <2>1, <3>3
  <2>3. CASE h = 3
    <3>1. SignalsTo(h) = 1 /\ Waiting(1) = {1}
      BY <1>0, <1>1, <2>1, <2>3 DEF StartsThree, Waiting, WaitsFor, SignalsTo, Next1
    <3>2. pc' = [pc EXCEPT ![3] = "wait", ![1] = "relock"]
      BY <2>1, <2>3, <3>1 DEF Signalled
    <3>3. pc'[1] = "relock" /\ pc'[2] = "waiting" /\ pc'[3] = "wait" /\ last' = 3
      BY <1>0, <1>1, <2>1, <2>3, <3>2 DEF StartsThree
    <3>4. InTurn(1)'
      BY <1>0, <1>2, <1>3, <2>1, <3>3 DEF InTurn, Behind, Before, Next1
    <3> QED BY <1>3, <3>4 DEF Turning
  <2> QED BY <2>2, <2>3
<1>9. CASE Wait(t)
  <2>1. /\ t = h /\ pc' = [pc EXCEPT ![h] = "waiting"] /\ pc[h] = "wait" /\ h < 3
        /\ UNCHANGED <<round, last>>
    <3>1. t = h /\ pc' = [pc EXCEPT ![h] = "waiting"] /\ pc[h] = "wait" /\ UNCHANGED <<round, last>>
      BY <1>9, <1>a DEF Wait, Move
    <3> QED BY <1>1, <3>1 DEF StartsThree
  <2>2. PICK g \in 1..3 : g = h + 1
    BY <2>1
  <2>3. /\ \A u \in 1..3 : (u < g => pc'[u] = "waiting") /\ (u > g => pc'[u] = "new")
        /\ pc'[g] = "new" /\ last' = g - 1
    BY <1>0, <1>1, <2>1, <2>2 DEF StartsThree
  <2>4. StartsThree(g)'
    BY <2>3 DEF StartsThree
  <2> QED BY <1>4, <2>1, <2>4
<1>10. ~Relock(t) /\ ~Unlock(t) /\ ~Leave(t) /\ ~SemWait(t) /\ ~SemPost(t) /\ ~SemLeave(t)
  <2>1. pc[t] \notin {"relock", "unlock"}
    BY <1>1 DEF StartsThree
  <2> QED BY <1>0, <1>2, <2>1 DEF Relock, Unlock, Leave, SemWait, SemPost, SemLeave, Move
<1> QED BY <1>5, <1>6, <1>7, <1>8, <1>9, <1>10 DEF Step

LEMMA StartsTwoStep ==
  ASSUME IInv, program = "two", Starting, NEW t \in 1..3, Create(t) \/ Step(t)
  PROVE  Turning'
<1>0. /\ pc \in [1..3 -> {"new", "top", "print", "signal", "wait", "waiting", "relock",
                          "unlock", "leave2", "leave3", "done"}]
      /\ round \in [1..3 -> 0..Rounds] /\ Rounds \in Nat \ {0} /\ Threads = 1..2 /\ Conds
      /\ pc[3] = "new"
  BY TurnsAssumption DEF IInv, Control, TypeOK, Threads, Conds, Places
<1>1. PICK a \in 1..2 : StartsTwo(a)
  BY <1>0 DEF Starting
<1>2. round[1] = 0 /\ round[2] = 0
  BY <1>0 DEF Starting
<1>3. program' = "two" /\ Threads' = 1..2
  BY <1>0 DEF Create, Step, Lock, PrintTurn, Signal, Wait, Relock, Unlock, Leave, SemWait,
     SemPost, SemLeave, kind, Threads
<1>4. ASSUME NEW g \in 1..2, StartsTwo(g)', round' = round PROVE Turning'
  BY <1>2, <1>3, <1>4 DEF Turning, Starting
<1>5. CASE Create(t) \/ Lock(t)
  <2>1. /\ t \in 1..2 /\ UNCHANGED <<round, last>>
        /\ \/ pc[t] = "new" /\ pc' = [pc EXCEPT ![t] = "top"]
           \/ pc[t] = "top" /\ pc' = [pc EXCEPT ![t] = "print"]
    BY <1>0, <1>5 DEF Create, Lock, Move
  <2>2. StartsTwo(a)'
    BY <1>0, <1>1, <2>1 DEF StartsTwo
  <2> QED BY <1>4, <2>1, <2>2
<1>6. CASE PrintTurn(t)
  <2>1. /\ t \in 1..2 /\ pc[t] = "print" /\ pc' = [pc EXCEPT ![t] = "signal"]
        /\ last' = t /\ round' = round
    BY <1>0, <1>6 DEF PrintTurn, Move
  <2>2. \A u \in 1..2 : u # t => pc[u] \notin {"print", "signal", "wait"}
    BY <1>0, <2>1 DEF IInv, Control, HasMutex
  <2>3. CASE last = 0
    <3>1. StartsTwo(t)'
      BY <1>0, <1>1, <2>1, <2>2, <2>3 DEF StartsTwo
    <3> QED BY <1>4, <2>1, <3>1
  <2>4. CASE last # 0
    <3>1. StartsTwo(a)'
      BY <1>0, <1>1, <2>1, <2>2, <2>4 DEF StartsTwo
    <3> QED BY <1>4, <2>1, <3>1
  <2> QED BY <2>3, <2>4
<1>7. CASE Signal(t)
  <2>1. t \in 1..2 /\ pc[t] = "signal" /\ Signalled(1, t, "wait") /\ UNCHANGED <<round, last>>
    BY <1>0, <1>7 DEF Signal, SignalsTo
  <2>2. Waiting(1) = {u \in 1..2 : pc[u] = "waiting"}
    BY <1>0 DEF Waiting, WaitsFor
  <2>3. CASE t = a
    <3>1. Waiting(1) = {} /\ last = a /\ pc[3 - a] \in {"new", "top", "print"}
      BY <1>0, <1>1, <2>1, <2>2, <2>3 DEF StartsTwo
    <3>2. pc' = [pc EXCEPT ![a] = "wait"]
      BY <2>1, <2>3, <3>1 DEF Signalled
    <3>3. StartsTwo(a)'
      BY <1>0, <2>1, <3>1, <3>2 DEF StartsTwo
    <3> QED BY <1>4, <2>1, <3>3
  <2>4. CASE t # a
    <3>1. t = 3 - a /\ Waiting(1) = {a} /\ last = t
      BY <1>0, <1>1, <2>1, <2>2, <2>4 DEF StartsTwo
    <3>2. pc' = [pc EXCEPT ![t] = "wait", ![a] = "relock"]
      BY <2>1, <3>1 DEF Signalled
    <3>3. pc'[a] = "relock" /\ pc'[t] = "wait" /\ last' = 3 - a
      BY <1>0, <2>1, <2>4, <3>1, <3>2
    <3>4. InTurn(a)'
      BY <1>0, <1>2, <1>3, <2>1, <3>1, <3>3 DEF InTurn, Behind, Before, Next1
    <3> QED BY <1>3, <3>4 DEF Turning
  <2> QED BY <2>3, <2>4
<1>8. CASE Wait(t)
  <2>1. t \in 1..2 /\ pc[t] = "wait" /\ pc' = [pc EXCEPT ![t] = "waiting"] /\ UNCHANGED <<round, last>>
    BY <1>0, <1>8 DEF Wait, Move
  <2>2. StartsTwo(a)'
    BY <1>0, <1>1, <2>1 DEF StartsTwo
  <2> QED BY <1>4, <2>1, <2>2
<1>9. ~Relock(t) /\ ~Unlock(t) /\ ~Leave(t) /\ ~SemWait(t) /\ ~SemPost(t) /\ ~SemLeave(t)
  <2>1. pc[t] \notin {"relock", "unlock", "leave2", "leave3"}
    BY <1>0, <1>1 DEF StartsTwo
  <2>2. ~Leave(t)
    BY <1>0, <1>2 DEF Leave
  <2> QED BY <1>0, <2>1, <2>2 DEF Relock, Unlock, SemWait, SemPost, SemLeave, Move
<1> QED BY <1>5, <1>6, <1>7, <1>8, <1>9 DEF Step

LEMMA CondsTurnStarts == Init => CondsTurn
<1> SUFFICES ASSUME Init, Conds PROVE Starting
  BY DEF CondsTurn, Turning
<1>1. /\ \A t \in 1..3 : round[t] = 0 /\ pc[t] = "new"
      /\ last = 0 /\ Threads \subseteq 1..3 /\ 1 \in Threads
  BY DEF Init, Threads
<1>2. StartsThree(1) /\ StartsTwo(1)
  BY <1>1 DEF StartsThree, StartsTwo
<1> QED BY <1>1, <1>2 DEF Starting

LEMMA KindStays == [Next]_vars => UNCHANGED kind
<1> SUFFICES ASSUME [Next]_vars PROVE UNCHANGED kind
  OBVIOUS
<1>1. CASE UNCHANGED vars \/ Join
  BY <1>1 DEF vars, kind, Join
<1>2. ASSUME NEW t \in 1..3, Create(t) \/ Step(t) \/ WakesUp(t) PROVE UNCHANGED kind
  BY <1>2 DEF Create, Step, Lock, PrintTurn, Signal, Wait, Relock, Unlock, Leave, SemWait,
     SemPost, SemLeave, WakesUp
<1> QED BY <1>1, <1>2 DEF Next

LEMMA CondsTurnStep == IInv /\ CondsTurn /\ [Next]_vars => CondsTurn'
<1> SUFFICES ASSUME IInv, CondsTurn, [Next]_vars, Calm, Conds PROVE Turning'
  BY KindStays DEF CondsTurn, Calm, Conds, kind
<1>1. Turning
  BY DEF CondsTurn
<1>2. CASE UNCHANGED <<kind, pc, round, last>>
  BY <1>1, <1>2 DEF kind, Turning, Starting, StartsThree, StartsTwo, InTurn, Ahead, Behind,
     Ending, Before, Next1, Threads
<1>3. ASSUME NEW t \in 1..3, Create(t) \/ Step(t) PROVE Turning'
  <2>1. program \in {"two", "three"}
    BY DEF Conds, IInv, Control, TypeOK
  <2>2. CASE Starting
    BY <1>3, <2>1, <2>2, StartsThreeStep, StartsTwoStep DEF Calm
  <2>3. CASE \E h \in Threads : InTurn(h)
    BY <1>3, <2>3, InTurnStep
  <2>4. CASE Ending
    BY <1>3, <2>4, EndingStep DEF Turning
  <2> QED BY <1>1, <2>2, <2>3, <2>4 DEF Turning
<1>4. ~ \E t \in 1..3 : WakesUp(t)
  BY DEF WakesUp, Calm
<1> QED BY <1>2, <1>3, <1>4 DEF Next, Join, vars, kind

(* The threads print one after the other although nothing but the signals  *)
(* says whose turn it is: with two threads whenever they start, with three *)
(* if they start in order, and with semaphores in any case, as long as     *)
(* pthread_cond_wait() does not return without a signal.                   *)
THEOREM TurnsInOrderHolds == Spec => []TurnsInOrder
<1>1. IInv /\ CondsTurn /\ Conds => TurnsInOrder
  <2> SUFFICES ASSUME IInv, Turning, Conds, NEW t \in Threads, pc[t] = "print", last # 0
               PROVE  t = Next1(last)
    BY DEF CondsTurn, TurnsInOrder
  <2>1. program \in {"two", "three"} /\ t \in 1..3
    BY Ring DEF Conds, IInv, Control, TypeOK
  <2>2. CASE Starting
    BY <2>1, <2>2 DEF Starting, StartsThree, StartsTwo, Next1, Threads
  <2>3. ASSUME NEW h \in Threads, InTurn(h) PROVE t = Next1(last)
    BY <2>3, Ring DEF InTurn
  <2>4. ~Ending
    BY DEF Ending
  <2> QED BY <2>2, <2>3, <2>4 DEF Turning
<1>2. IInv /\ OneTurn /\ ~Conds => TurnsInOrder
  BY DEF OneTurn, Conds, TurnAt, TurnsInOrder, Threads, IInv, Control, TypeOK
<1> QED BY <1>1, <1>2, Inductive, OneTurnStarts, OneTurnStep, CondsTurnStarts,
   CondsTurnStep, PTL
        DEF Spec
=============================================================================
