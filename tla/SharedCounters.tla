--------------------------- MODULE SharedCounters ---------------------------
(***************************************************************************)
(* Counters in shared memory under a System V semaphore with SEM_UNDO.     *)
(*   "tree"  semaphore_linux.cpp: main() sets the semaphore to 1, forks    *)
(*           two children, waits for both and removes the semaphore.  A    *)
(*           child takes the semaphore and starts two threads, which count *)
(*           up and down under a mutex of their process.                   *)
(*   "pair"  sema_proc1.c, which sets the semaphore to 1 and counts up,    *)
(*           and sema_proc2.c, which counts down; each is started by hand  *)
(*           and takes the semaphore for its whole loop.                   *)
(* The three counters of each program change together and are one here,    *)
(* counted from what the program stores first.                             *)
(***************************************************************************)
EXTENDS Integers

CONSTANTS Rounds,   (* rounds of a loop: 60000, 65300                      *)
          Faults,   (* what may fail: "fork", "create" (of a thread),      *)
                    (* "kill" (a worker, anywhere)                         *)
          Left,     (* what an earlier run of a pair may have left of the  *)
                    (* semaphore: its value, or Gone                       *)
          Gone      (* there is no semaphore                               *)

ASSUME SharedCountersAssumption ==
  /\ Rounds \in Nat \ {0} /\ Gone \notin Int
  /\ Left \subseteq {0, 1, Gone}

Workers == 1..2                  (* child 1, child 2; sema_proc1, sema_proc2 *)
Jobs    == {"inc", "dec"}

VARIABLES
  program, (* "tree" or "pair"                                             *)
  sem,     (* semval of the semaphore with the key 3333                    *)
  adj,     (* semadj: what the kernel adds when the worker ends            *)
  counter, (* global_var1..3, val1..3                                      *)
  main,    (* where main() of a tree is                                    *)
  pc,      (* where each worker's own thread is                            *)
  at,      (* where each loop is                                           *)
  reg,     (* the value a loop has loaded and not stored                   *)
  round,   (* i of each loop                                               *)
  mutex,   (* who has the m_lock of each worker                            *)
  failed   (* workers that were killed, or ended with exit(EXIT_FAILURE)   *)

vars  == <<program, sem, adj, counter, main, pc, at, reg, round, mutex, failed>>
loops == <<counter, at, reg, round, mutex>>

(* The loops a worker runs.                                                *)
JobsOf(w) ==
  IF program = "tree" THEN Jobs ELSE IF w = 1 THEN {"inc"} ELSE {"dec"}

Init ==
  /\ \/ program = "tree" /\ sem \in {0, 1, Gone} /\ main = "start"
     \/ program = "pair" /\ sem \in Left /\ main = "end"
  /\ adj = [w \in Workers |-> 0] /\ counter = 0
  /\ pc = [w \in Workers |-> "none"]
  /\ at = [w \in Workers |-> [t \in Jobs |-> "none"]]
  /\ reg = [w \in Workers |-> [t \in Jobs |-> 0]]
  /\ round = [w \in Workers |-> [t \in Jobs |-> 0]]
  /\ mutex = [w \in Workers |-> "free"]
  /\ failed = {}

Goto(w, p) == pc' = [pc EXCEPT ![w] = p]

(* SETVAL also clears every process's adjustment.                          *)
SetVal == sem' = 1 /\ adj' = [w \in Workers |-> 0]

-----------------------------------------------------------------------------
(* main() of semaphore_linux.cpp.                                          *)

Construct ==
  /\ main = "start" /\ main' = "fork1"
  /\ SetVal /\ counter' = 0
  /\ UNCHANGED <<program, pc, at, reg, round, mutex, failed>>

(* A fork() that fails leaves the parent where a successful one does.      *)
Fork(w) ==
  /\ main = (IF w = 1 THEN "fork1" ELSE "fork2")
  /\ main' = (IF w = 1 THEN "fork2" ELSE "wait1")
  /\ \/ Goto(w, "lock")
     \/ "fork" \in Faults /\ UNCHANGED pc
  /\ UNCHANGED <<program, sem, adj, loops, failed>>

(* wait() returns with a child that has ended, or when there is none left. *)
Reap ==
  \/ \E w \in Workers : pc[w] = "ended" /\ Goto(w, "reaped")
  \/ (\A w \in Workers : pc[w] \in {"none", "reaped"}) /\ UNCHANGED pc

(* Mutant: one wait() for two children.                                    *)
Wait_Once ==
  /\ main = "wait1" /\ main' = "print" /\ Reap
  /\ UNCHANGED <<program, sem, adj, loops, failed>>

Wait ==
  /\ \/ main = "wait1" /\ main' = "wait2"
     \/ main = "wait2" /\ main' = "print"
  /\ Reap
  /\ UNCHANGED <<program, sem, adj, loops, failed>>

(* The values are printed, then sem_destroy() and destory_shared_mem().    *)
PrintAndDestroy ==
  /\ main = "print" /\ main' = "end" /\ sem' = Gone
  /\ UNCHANGED <<program, adj, loops, pc, failed>>

-----------------------------------------------------------------------------
(* The workers.                                                            *)

(* A pair's program begins: semget() makes a semaphore of value 0 if there *)
(* is none.                                                                *)
Begin(w) ==
  /\ program = "pair" /\ pc[w] = "none"
  /\ sem' = (IF sem = Gone THEN 0 ELSE sem)
  /\ Goto(w, IF w = 1 THEN "assign" ELSE "lock")
  /\ UNCHANGED <<program, adj, loops, main, failed>>

(* sema_proc1 sets the value, whether or not it has made the semaphore.    *)
Assign(w) ==
  /\ pc[w] = "assign" /\ SetVal /\ Goto(w, "lock")
  /\ UNCHANGED <<program, loops, main, failed>>

(* semop(-1): wait until it is positive.                                   *)
Lock(w) ==
  /\ pc[w] = "lock" /\ sem # Gone /\ sem > 0
  /\ sem' = sem - 1 /\ adj' = [adj EXCEPT ![w] = @ + 1]
  /\ \/ program = "tree" /\ Goto(w, "create1") /\ UNCHANGED at
     \/ /\ program = "pair" /\ Goto(w, "join")
        /\ at' = [at EXCEPT ![w] = [t \in Jobs |-> IF t \in JobsOf(w) THEN "top" ELSE "none"]]
  /\ UNCHANGED <<program, counter, reg, round, mutex, main, failed>>

(* pthread_create() of the two threads.                                    *)
Create(w) ==
  /\ \/ /\ pc[w] = "create1" /\ Goto(w, "create2")
        /\ at' = [at EXCEPT ![w]["inc"] = "top"]
     \/ /\ pc[w] = "create2" /\ Goto(w, "join")
        /\ at' = [at EXCEPT ![w]["dec"] = "top"]
  /\ UNCHANGED <<program, sem, adj, counter, reg, round, mutex, main, failed>>

(* pthread_join() of both, or the end of the loop.                         *)
Join(w) ==
  /\ pc[w] = "join" /\ \A t \in JobsOf(w) : at[w][t] = "done"
  /\ Goto(w, "unlock")
  /\ UNCHANGED <<program, sem, adj, loops, main, failed>>

(* Mutant: the lock is made with SEM_UNDO and the unlock without.          *)
Unlock_KeepsUndo(w) ==
  /\ pc[w] = "unlock" /\ Goto(w, "exit") /\ sem # Gone
  /\ sem' = sem + 1 /\ UNCHANGED adj
  /\ UNCHANGED <<program, loops, main, failed>>

(* semop(+1).                                                              *)
Unlock(w) ==
  /\ pc[w] = "unlock" /\ Goto(w, "exit") /\ sem # Gone
  /\ sem' = sem + 1 /\ adj' = [adj EXCEPT ![w] = @ - 1]
  /\ UNCHANGED <<program, loops, main, failed>>

(* Mutant: neither call has SEM_UNDO.                                      *)
Ends_NoUndo(w) ==
  /\ Goto(w, "ended") /\ adj' = [adj EXCEPT ![w] = 0] /\ UNCHANGED sem
  /\ at' = [at EXCEPT ![w] = [t \in Jobs |-> "none"]]
  /\ UNCHANGED <<program, counter, reg, round, mutex, main>>

(* A process ends, and its threads with it; the kernel undoes.  While a    *)
(* worker lives nobody removes the semaphore.                              *)
Ends(w) ==
  /\ Goto(w, "ended") /\ adj' = [adj EXCEPT ![w] = 0]
  /\ sem # Gone /\ sem' = sem + adj[w]
  /\ at' = [at EXCEPT ![w] = [t \in Jobs |-> "none"]]
  /\ UNCHANGED <<program, counter, reg, round, mutex, main>>

Exit(w) == pc[w] = "exit" /\ Ends(w) /\ UNCHANGED failed

Alive(w) == pc[w] \notin {"none", "ended", "reaped"}

(* exit(EXIT_FAILURE) after a pthread_create() that failed, or a signal.   *)
Fails(w) ==
  /\ \/ "create" \in Faults /\ pc[w] \in {"create1", "create2"}
     \/ "kill" \in Faults /\ Alive(w)
  /\ Ends(w) /\ failed' = failed \cup {w}

-----------------------------------------------------------------------------
(* The loops: inc_thread(), dec_thread(), and those of sema_proc1 and 2.   *)

LoopStep(w, t, from, to) ==
  /\ at[w][t] = from /\ at' = [at EXCEPT ![w][t] = to]
  /\ UNCHANGED <<program, sem, adj, main, pc, failed>>

(* Mutant: the threads of a child have a mutex each.                       *)
TakeMutex_OwnEach(w, t) ==
  /\ LoopStep(w, t, "top", "load") /\ UNCHANGED <<counter, reg, round, mutex>>

TakeMutex(w, t) ==
  /\ LoopStep(w, t, "top", "load")
  /\ \/ program = "tree" /\ mutex[w] = "free" /\ mutex' = [mutex EXCEPT ![w] = t]
     \/ program = "pair" /\ UNCHANGED mutex
  /\ UNCHANGED <<counter, reg, round>>

Load(w, t) ==
  /\ LoopStep(w, t, "load", "store")
  /\ reg' = [reg EXCEPT ![w][t] = counter]
  /\ UNCHANGED <<counter, round, mutex>>

(* i is counted here; nobody else sees it.                                 *)
Store(w, t) ==
  /\ LoopStep(w, t, "store", "give")
  /\ counter' = reg[w][t] + (IF t = "inc" THEN 1 ELSE -1)
  /\ round' = [round EXCEPT ![w][t] = @ + 1]
  /\ UNCHANGED <<reg, mutex>>

Free(w) ==
  IF program = "tree" THEN mutex' = [mutex EXCEPT ![w] = "free"] ELSE UNCHANGED mutex

(* Mutant: one loop makes a round less.                                    *)
GiveMutex_OneLess(w, t) ==
  /\ LoopStep(w, t, "give",
       IF round[w][t] >= Rounds - (IF t = "inc" THEN 1 ELSE 0) THEN "done" ELSE "top")
  /\ Free(w) /\ UNCHANGED <<counter, reg, round>>

GiveMutex(w, t) ==
  /\ LoopStep(w, t, "give", IF round[w][t] = Rounds THEN "done" ELSE "top")
  /\ Free(w) /\ UNCHANGED <<counter, reg, round>>

-----------------------------------------------------------------------------
Main         == Construct \/ (\E w \in Workers : Fork(w)) \/ Wait \/ PrintAndDestroy
Worker(w)    == Assign(w) \/ Lock(w) \/ Create(w) \/ Join(w) \/ Unlock(w) \/ Exit(w)
Thread(w, t) == TakeMutex(w, t) \/ Load(w, t) \/ Store(w, t) \/ GiveMutex(w, t)

Next ==
  \/ Main
  \/ \E w \in Workers :
       Begin(w) \/ Worker(w) \/ Fails(w) \/ \E t \in Jobs : Thread(w, t)

Spec == Init /\ [][Next]_vars

(* Every process and thread goes on; nobody need begin, and nothing fail.  *)
Fairness ==
  /\ WF_vars(Main)
  /\ \A w \in Workers : WF_vars(Worker(w)) /\ \A t \in Jobs : WF_vars(Thread(w, t))

FairSpec == Spec /\ Fairness

-----------------------------------------------------------------------------
(* Properties.                                                             *)

(* The type invariant; the semaphore stays binary through every unlock and *)
(* every undo.                                                             *)
TypeOK ==
  /\ program \in {"tree", "pair"}
  /\ sem \in {0, 1, Gone} /\ adj \in [Workers -> {0, 1}]
  /\ counter \in Int
  /\ main \in {"start", "fork1", "fork2", "wait1", "wait2", "print", "end"}
  /\ pc \in [Workers -> {"none", "assign", "lock", "create1", "create2", "join",
                         "unlock", "exit", "ended", "reaped"}]
  /\ at \in [Workers -> [Jobs -> {"none", "top", "load", "store", "give", "done"}]]
  /\ reg \in [Workers -> [Jobs -> Int]] /\ round \in [Workers -> [Jobs -> 0..Rounds]]
  /\ mutex \in [Workers -> Jobs \cup {"free"}] /\ failed \subseteq Workers

(* Between semop(-1) and semop(+1).                                        *)
Has(w) == pc[w] \in {"create1", "create2", "join", "unlock"}

(* No two loops are in the middle of a change at once, whether of two      *)
(* processes or of one, and also after one of them was killed.             *)
Exclusive ==
  \A v, w \in Workers : \A t, u \in Jobs :
    at[v][t] \in {"load", "store"} /\ at[w][u] \in {"load", "store"} => v = w /\ t = u

(* What was counted up was counted down: no update is lost.                *)
ResultKept ==
  failed = {} /\ (\A w \in Workers : pc[w] \in {"ended", "reaped"}) => counter = 0

(* Before a pair's semaphore has its value, or for ever if sema_proc1 was  *)
(* killed before it could assign it.                                       *)
Unset == program = "pair" /\ (pc[1] \in {"none", "assign"} \/ 1 \in failed)

(* The semaphore is never lost: once it is set, and while nobody has it,   *)
(* it is free, whoever was killed and wherever.                            *)
FreeWhenUnused ==
  main # "start" /\ ~Unset /\ (\A w \in Workers : ~Has(w)) => sem \in {1, Gone}

(* The values are printed, and the semaphore removed, when no child is     *)
(* left that could use them.                                               *)
PrintsLast == program = "tree" /\ main \in {"print", "end"} => \A w \in Workers : ~Alive(w)

(* main() ends, whatever becomes of its children.                          *)
MainEnds == <>(main = "end")
=============================================================================
