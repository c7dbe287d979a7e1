-------------------------------- MODULE Turns --------------------------------
(***************************************************************************)
(* Threads that print in turn (src/linux_task):                            *)
(*   "two"    two_thread_synchronization: a mutex and one condition;       *)
(*   "three"  three_thread_synchronization: a mutex and three conditions;  *)
(*   "sems"   thread_synchronization_using-semaphore: three semaphores.    *)
(* No wait has a condition to test again, and the turn is whatever the     *)
(* signals make it: a signal that finds nobody waiting is lost.            *)
(***************************************************************************)
EXTENDS Integers

CONSTANTS Rounds, (* how often each thread prints: 10                       *)
          Nobody  (* the mutex is free                                      *)

ASSUME TurnsAssumption == Rounds \in Nat \ {0} /\ Nobody \notin 1..3

VARIABLES
  program, (* which of the programs                                         *)
  slow,    (* a thread may start later than usleep(100) after its creation  *)
  restless,(* pthread_cond_wait() may return without a signal, as POSIX     *)
           (* allows                                                        *)
  pc,      (* where each thread is                                          *)
  round,   (* how often it has been round its loop                          *)
  last,    (* who printed last, or 0                                        *)
  owner,   (* of the mutex                                                  *)
  sem,     (* the three semaphores                                          *)
  joined   (* main() has joined all threads                                 *)

vars == <<program, slow, restless, pc, round, last, owner, sem, joined>>
kind == <<program, slow, restless>>

Threads == IF program = "two" THEN 1..2 ELSE 1..3
Next1(t) == IF program = "two" THEN 3 - t ELSE (t % 3) + 1

(* Mutant: every semaphore starts with 1.                                  *)
SemInit_AllFree(t) == IF t \in 1..3 THEN 1 ELSE 0

SemInit(t) == IF t = 1 THEN 1 ELSE 0

Init ==
  /\ program \in {"two", "three", "sems"}
  /\ slow \in BOOLEAN /\ restless \in BOOLEAN
  /\ (program = "sems" => ~restless)
  /\ pc = [t \in 1..3 |-> "new"] /\ round = [t \in 1..3 |-> 0]
  /\ last = 0 /\ owner = Nobody /\ joined = FALSE
  /\ sem = [t \in 1..3 |-> SemInit(t)]

Conds == program # "sems"

Move(t, from, to) == pc[t] = from /\ pc' = [pc EXCEPT ![t] = to]

-----------------------------------------------------------------------------
(* main() makes the threads one after the other.  Usually a thread gets to *)
(* its first wait within the usleep(100) that follows.                     *)
Create(t) ==
  /\ t \in Threads /\ Move(t, "new", "top")
  /\ t > 1 => \/ slow /\ pc[t - 1] # "new"
              \/ pc[t - 1] = IF Conds THEN "waiting" ELSE "top"
  /\ UNCHANGED <<kind, round, last, owner, sem, joined>>

Join ==
  /\ ~joined /\ \A t \in Threads : pc[t] = "done"
  /\ joined' = TRUE
  /\ UNCHANGED <<kind, pc, round, last, owner, sem>>

-----------------------------------------------------------------------------
(* With conditions: lock, print, signal the next, wait, unlock.            *)

(* The condition a thread waits for, and the one that means the next.      *)
WaitsFor(t) == IF program = "two" THEN 1 ELSE t

(* Mutant: in the ring of three everyone signals its predecessor.          *)
SignalsTo_Back(t) == IF program = "two" THEN 1 ELSE ((t + 1) % 3) + 1

SignalsTo(t) == IF program = "two" THEN 1 ELSE Next1(t)

Waiting(c) == {u \in Threads : pc[u] = "waiting" /\ WaitsFor(u) = c}

(* pthread_cond_signal(): somebody who waits goes for the mutex.           *)
Signalled(c, t, to) ==
  \/ Waiting(c) = {} /\ pc' = [pc EXCEPT ![t] = to]
  \/ \E u \in Waiting(c) : pc' = [pc EXCEPT ![t] = to, ![u] = "relock"]

(* Mutant: a loop with "<=".                                               *)
Lock_OneMore(t) ==
  /\ Conds /\ round[t] <= Rounds /\ owner = Nobody /\ owner' = t
  /\ Move(t, "top", "print")
  /\ UNCHANGED <<kind, round, last, sem, joined>>

Lock(t) ==
  /\ Conds /\ round[t] < Rounds /\ owner = Nobody /\ owner' = t
  /\ Move(t, "top", "print")
  /\ UNCHANGED <<kind, round, last, sem, joined>>

PrintTurn(t) ==
  /\ Move(t, "print", "signal") /\ last' = t
  /\ UNCHANGED <<kind, round, owner, sem, joined>>

(* Mutant: the first round signals nobody.                                 *)
Signal_NotFirst(t) ==
  /\ Conds /\ pc[t] = "signal"
  /\ IF round[t] = 0 THEN pc' = [pc EXCEPT ![t] = "wait"]
                     ELSE Signalled(SignalsTo(t), t, "wait")
  /\ UNCHANGED <<kind, round, last, owner, sem, joined>>

Signal(t) ==
  /\ Conds /\ pc[t] = "signal" /\ Signalled(SignalsTo(t), t, "wait")
  /\ UNCHANGED <<kind, round, last, owner, sem, joined>>

(* pthread_cond_wait(): give the mutex back and wait, in one step.         *)
Wait(t) ==
  /\ Move(t, "wait", "waiting") /\ owner' = Nobody
  /\ UNCHANGED <<kind, round, last, sem, joined>>

WakesUp(t) ==
  /\ restless /\ Move(t, "waiting", "relock")
  /\ UNCHANGED <<kind, round, last, owner, sem, joined>>

Relock(t) ==
  /\ owner = Nobody /\ owner' = t /\ Move(t, "relock", "unlock")
  /\ UNCHANGED <<kind, round, last, sem, joined>>

Unlock(t) ==
  /\ Move(t, "unlock", "top") /\ owner' = Nobody
  /\ round' = [round EXCEPT ![t] = @ + 1]
  /\ UNCHANGED <<kind, last, sem, joined>>

(* After the loop the thread signals every condition, without the mutex.   *)
(* Mutant: it returns at once.                                             *)
Leave_Silent(t) ==
  /\ Conds /\ round[t] = Rounds
  /\ Move(t, "top", "done")
  /\ UNCHANGED <<kind, round, last, owner, sem, joined>>

Leave(t) ==
  /\ Conds /\ round[t] = Rounds
  /\ \/ pc[t] = "top" /\ Signalled(1, t, IF program = "two" THEN "done" ELSE "leave2")
     \/ pc[t] = "leave2" /\ Signalled(2, t, "leave3")
     \/ pc[t] = "leave3" /\ Signalled(3, t, "done")
  /\ UNCHANGED <<kind, round, last, owner, sem, joined>>

-----------------------------------------------------------------------------
(* With semaphores: wait for one's own, print, post the next one's.        *)
SemWait(t) ==
  /\ ~Conds /\ round[t] < Rounds /\ sem[t] > 0 /\ Move(t, "top", "print")
  /\ sem' = [sem EXCEPT ![t] = @ - 1]
  /\ UNCHANGED <<kind, round, last, owner, joined>>

SemPost(t) ==
  /\ ~Conds /\ Move(t, "signal", "top")
  /\ sem' = [sem EXCEPT ![Next1(t)] = @ + 1]
  /\ round' = [round EXCEPT ![t] = @ + 1]
  /\ UNCHANGED <<kind, last, owner, joined>>

SemLeave(t) ==
  /\ ~Conds /\ round[t] = Rounds /\ Move(t, "top", "done")
  /\ UNCHANGED <<kind, round, last, owner, sem, joined>>

-----------------------------------------------------------------------------
Step(t) == \/ Lock(t) \/ PrintTurn(t) \/ Signal(t) \/ Wait(t) \/ Relock(t) \/ Unlock(t)
           \/ Leave(t) \/ SemWait(t) \/ SemPost(t) \/ SemLeave(t)

Next == \/ Join
        \/ \E t \in 1..3 : Create(t) \/ Step(t) \/ WakesUp(t)

Spec == Init /\ [][Next]_vars

(* Threads run.  Before a thread that wants the mutex is passed over by    *)
(* another one again, that one has to wait for a signal: the weak fairness *)
(* of each thread is enough.                                               *)
FairSpec == Spec /\ WF_vars(Join) /\ \A t \in 1..3 : WF_vars(Create(t)) /\ WF_vars(Step(t))

-----------------------------------------------------------------------------
(* Properties.                                                             *)

(* The type invariant: every variable holds what its declaration says.     *)
TypeOK ==
  /\ program \in {"two", "three", "sems"} /\ slow \in BOOLEAN /\ restless \in BOOLEAN
  /\ pc \in [1..3 -> {"new", "top", "print", "signal", "wait", "waiting", "relock",
                      "unlock", "leave2", "leave3", "done"}]
  /\ round \in [1..3 -> 0..Rounds]
  /\ last \in 0..3 /\ owner \in {1, 2, 3, Nobody}
  /\ sem \in [1..3 -> Nat] /\ joined \in BOOLEAN

(* Without a wake-up nobody asked for, and in the ring of three conditions *)
(* with threads that start in order, ...                                   *)
Calm == ~restless /\ (program = "three" => ~slow)

(* ... the threads print one after the other, round and round, although    *)
(* nothing but the signals says whose turn it is; ...                      *)
TurnsInOrder ==
  Calm => \A t \in Threads : pc[t] = "print" /\ last # 0 => t = Next1(last)

(* ... and nobody waits for ever: the signals a thread gives when it       *)
(* leaves find the others waiting.                                         *)
AllEnd == Calm => <>joined

(* With late threads and with wake-ups nobody asked for the order may be   *)
(* lost, but as long as no thread has left its loop the threads do not all *)
(* wait: who waits has just signalled another.                             *)
NotAllWait ==
  ~ \A t \in Threads : pc[t] = "waiting"
=============================================================================
