----------------------------- MODULE SharedLoops -----------------------------
(***************************************************************************)
(* Programs that count a shared value up and down in loops of as many      *)
(* rounds, with a lock in every round or with none:                        *)
(*   "semaphore"  other/semaphore.c: parent and child, a System V          *)
(*                semaphore taken without SEM_UNDO, the parent waits for   *)
(*                the child and prints;                                    *)
(*   "sharedMem"  other/sharedMem.c: the same without the semaphore, and   *)
(*                the parent prints before it waits;                       *)
(*   "mutex"      threads and a mutex: mutex_demo.c, thread_mutex.c,       *)
(*                thread_mutex_lock_avoid_race_condition;                  *)
(*   "race"       threads without one: race_condition_thread;              *)
(*   "processes"  shared_memory_process: two programs, each up and then    *)
(*                down again, that create or find one memory segment and   *)
(*                remove it.                                               *)
(* The two or three variables of a program are changed alike: one stands   *)
(* for them.                                                               *)
(***************************************************************************)
EXTENDS Integers, FiniteSets

CONSTANTS Ups, Downs,  (* the threads that count up, and down               *)
          A, B,        (* one of each; also parent and child, and the two   *)
                       (* programs of shared_memory_process                 *)
          Rounds,      (* rounds of a loop: 60000, 65500, ...               *)
          Start,       (* what the variable holds at first                  *)
          Nobody, Lost (* the lock is free; its owner was killed            *)

Workers == Ups \cup Downs

ASSUME SharedLoopsAssumption ==
  /\ A \in Ups /\ B \in Downs /\ Ups \cap Downs = {}
  /\ Rounds \in Nat /\ Start \in Int
  /\ Nobody \notin Workers /\ Lost \notin Workers \cup {Nobody}

VARIABLES
  program, (* which of the programs                                         *)
  main,    (* main(): "start", "running", "waiting", "ended", "failed"      *)
  printed, (* main() has printed the result                                 *)
  pc,      (* where each loop is                                            *)
  round,   (* rounds it has done                                            *)
  reg,     (* the value it has loaded                                       *)
  owner,   (* who has the semaphore, or mutex                               *)
  val,     (* the variable, in each memory segment                          *)
  ups, downs, (* how often it was stored one up, and one down               *)
  seg,     (* the segment a loop works on                                   *)
  key,     (* the segment the IPC key leads to, or 0                        *)
  made     (* segments made so far                                          *)

work  == <<pc, round, reg, owner, val, ups, downs>>
space == <<seg, key, made>>
vars  == <<program, main, printed, work, space>>

Segments == {1, 2}

Team   == IF program \in {"mutex", "race"} THEN Workers ELSE {A, B}
Forks  == program \in {"semaphore", "sharedMem"}
Locked == program \in {"semaphore", "mutex"}
Pair   == program = "processes"

Init ==
  /\ program \in {"semaphore", "sharedMem", "mutex", "race", "processes"}
  /\ main = "start" /\ printed = FALSE
  /\ pc = [w \in Workers |-> "idle"]
  /\ round = [w \in Workers |-> 0] /\ reg = [w \in Workers |-> 0]
  /\ owner = Nobody
  /\ val = [s \in Segments |-> IF Pair THEN 0 ELSE Start]
  /\ ups = [s \in Segments |-> 0] /\ downs = [s \in Segments |-> 0]
  /\ seg = [w \in Workers |-> 1]
  /\ key = IF Pair THEN 0 ELSE 1
  /\ made = IF Pair THEN 0 ELSE 1

Move(w, from, to) == pc[w] = from /\ pc' = [pc EXCEPT ![w] = to]

-----------------------------------------------------------------------------
(* main() starts the loops.                                                *)

(* SETVAL has made the semaphore free; parent and child go to their loops. *)
Fork ==
  /\ Forks /\ main = "start" /\ main' = "running"
  /\ pc' = [pc EXCEPT ![A] = "top", ![B] = "top"]
  /\ UNCHANGED <<program, printed, round, reg, owner, val, ups, downs, space>>

(* fork() returns -1: neither block is entered.                            *)
ForkFails ==
  /\ Forks /\ main = "start" /\ main' = "running"
  /\ pc' = [pc EXCEPT ![A] = "done", ![B] = "done"]
  /\ UNCHANGED <<program, printed, round, reg, owner, val, ups, downs, space>>

CreateThread(w) ==
  /\ program \in {"mutex", "race"} /\ main = "start" /\ Move(w, "idle", "top")
  /\ main' = IF \A v \in Team \ {w} : pc[v] # "idle" THEN "running" ELSE "start"
  /\ UNCHANGED <<program, printed, round, reg, owner, val, ups, downs, space>>

(* exit(EXIT_FAILURE): the threads that run go with the process.           *)
(* (thread_mutex.c does not look at the result: left out.)                 *)
CreateFails ==
  /\ program \in {"mutex", "race"} /\ main = "start" /\ main' = "failed"
  /\ pc' = [w \in Workers |-> "dead"]
  /\ UNCHANGED <<program, printed, round, reg, owner, val, ups, downs, space>>

-----------------------------------------------------------------------------
(* A loop: a round loads the value and stores it changed.                  *)

Total == IF Pair THEN 2 * Rounds ELSE Rounds

GoesUp(w) == IF Pair THEN round[w] < Rounds ELSE w \in Ups

(* Mutant: the lock is passed although somebody has it.                    *)
Lock_Passes(w) ==
  /\ round[w] < Total /\ Move(w, "top", "load")
  /\ owner' = IF Locked THEN w ELSE owner
  /\ UNCHANGED <<program, main, printed, round, reg, val, ups, downs, space>>

(* Mutant: a loop with "<=".                                               *)
Lock_OneMore(w) ==
  /\ round[w] <= Total /\ Move(w, "top", "load")
  /\ \/ Locked /\ owner = Nobody /\ owner' = w
     \/ ~Locked /\ UNCHANGED owner
  /\ UNCHANGED <<program, main, printed, round, reg, val, ups, downs, space>>

(* semop(-1), pthread_mutex_lock(), or nothing.                            *)
Lock(w) ==
  /\ round[w] < Total /\ Move(w, "top", "load")
  /\ \/ Locked /\ owner = Nobody /\ owner' = w
     \/ ~Locked /\ UNCHANGED owner
  /\ UNCHANGED <<program, main, printed, round, reg, val, ups, downs, space>>

Load(w) ==
  /\ Move(w, "load", "store") /\ reg' = [reg EXCEPT ![w] = val[seg[w]]]
  /\ UNCHANGED <<program, main, printed, round, owner, val, ups, downs, space>>

(* Mutant: "+= 2" where the other loop counts down by one.                 *)
Store_ByTwo(w) ==
  LET s == seg[w] IN
  /\ Move(w, "store", IF Locked THEN "unlock" ELSE "top")
  /\ \/ /\ GoesUp(w) /\ val' = [val EXCEPT ![s] = reg[w] + 2]
        /\ ups' = [ups EXCEPT ![s] = @ + 1] /\ UNCHANGED downs
     \/ /\ ~GoesUp(w) /\ val' = [val EXCEPT ![s] = reg[w] - 1]
        /\ downs' = [downs EXCEPT ![s] = @ + 1] /\ UNCHANGED ups
  /\ round' = [round EXCEPT ![w] = @ + 1]
  /\ UNCHANGED <<program, main, printed, reg, owner, space>>

Store(w) ==
  LET s == seg[w] IN
  /\ Move(w, "store", IF Locked THEN "unlock" ELSE "top")
  /\ \/ /\ GoesUp(w) /\ val' = [val EXCEPT ![s] = reg[w] + 1]
        /\ ups' = [ups EXCEPT ![s] = @ + 1] /\ UNCHANGED downs
     \/ /\ ~GoesUp(w) /\ val' = [val EXCEPT ![s] = reg[w] - 1]
        /\ downs' = [downs EXCEPT ![s] = @ + 1] /\ UNCHANGED ups
  /\ round' = [round EXCEPT ![w] = @ + 1]
  /\ UNCHANGED <<program, main, printed, reg, owner, space>>

(* Mutant: the lock is kept.                                               *)
Unlock_Keeps(w) ==
  /\ Move(w, "unlock", "top")
  /\ UNCHANGED <<program, main, printed, round, reg, owner, val, ups, downs, space>>

Unlock(w) ==
  /\ Move(w, "unlock", "top") /\ owner' = Nobody
  /\ UNCHANGED <<program, main, printed, round, reg, val, ups, downs, space>>

(* The loop is over: exit(0), pthread_exit(), or on to the result.         *)
LoopEnds(w) ==
  /\ round[w] = Total /\ Move(w, "top", IF Pair THEN "remove" ELSE "done")
  /\ UNCHANGED <<program, main, printed, round, reg, owner, val, ups, downs, space>>

(* A signal ends a parent or a child: without SEM_UNDO the semaphore it    *)
(* has stays taken.                                                        *)
Killed(w) ==
  /\ Forks /\ w \in Team /\ main # "ended"
  /\ pc[w] \notin {"idle", "dead"} /\ (w = B => pc[w] # "done")
  /\ pc' = [pc EXCEPT ![w] = "dead"]
  /\ owner' = IF owner = w THEN Lost ELSE owner
  /\ main' = IF w = A THEN "failed" ELSE main
  /\ UNCHANGED <<program, printed, round, reg, val, ups, downs, space>>

-----------------------------------------------------------------------------
(* The result.                                                             *)
Over(w) == pc[w] \in {"done", "dead"}

(* Mutant: main() prints when its own loop is over.                        *)
PrintResult_BeforeWait ==
  /\ program \in {"semaphore", "mutex", "race"} /\ main = "running"
  /\ (Forks => pc[A] = "done")
  /\ main' = "ended" /\ printed' = (program # "race")
  /\ UNCHANGED <<program, work, space>>

(* waitpid() until there is no child, or a pthread_join() for each thread; *)
(* then the value is printed.  race_condition_thread prints in its threads.*)
PrintResult ==
  /\ program \in {"semaphore", "mutex", "race"} /\ main = "running"
  /\ \A w \in Team : Over(w)
  /\ main' = "ended" /\ printed' = (program # "race")
  /\ UNCHANGED <<program, work, space>>

(* sharedMem.c prints first and waits then.                                *)
PrintEarly ==
  /\ program = "sharedMem" /\ main = "running" /\ pc[A] = "done"
  /\ main' = "waiting" /\ printed' = TRUE /\ UNCHANGED <<program, work, space>>

WaitChild ==
  /\ main = "waiting" /\ Over(B) /\ main' = "ended"
  /\ UNCHANGED <<program, printed, work, space>>

-----------------------------------------------------------------------------
(* The segment of the two programs.                                        *)

Attached(s) == \E v \in Team : seg[v] = s /\ pc[v] \notin {"idle", "attach", "done"}

(* shmget(IPC_CREAT): the segment of the key, or a new one.                *)
Get(w) ==
  /\ Pair /\ w \in Team /\ Move(w, "idle", "attach")
  /\ key' = IF key = 0 THEN made + 1 ELSE key
  /\ made' = IF key = 0 THEN made + 1 ELSE made
  /\ seg' = [seg EXCEPT ![w] = key']
  /\ UNCHANGED <<program, main, printed, round, reg, owner, val, ups, downs>>

(* shmat(): a segment that has lost its key goes with the last process     *)
(* that has it attached; then the call fails and the program returns.      *)
Attach(w) ==
  /\ \/ key = seg[w] \/ Attached(seg[w])
  /\ Move(w, "attach", "top")
  /\ UNCHANGED <<program, main, printed, round, reg, owner, val, ups, downs, space>>

AttachFails(w) ==
  /\ key # seg[w] /\ ~Attached(seg[w])
  /\ Move(w, "attach", "done")
  /\ UNCHANGED <<program, main, printed, round, reg, owner, val, ups, downs, space>>

(* Mutant: only the process that made the segment removes it.              *)
Remove_FirstOnly(w) ==
  /\ Move(w, "remove", "detach") /\ key' = IF w = A /\ key = seg[w] THEN 0 ELSE key
  /\ UNCHANGED <<program, main, printed, round, reg, owner, val, ups, downs, seg, made>>

(* shmctl(IPC_RMID): the segment loses its key.                            *)
Remove(w) ==
  /\ Move(w, "remove", "detach") /\ key' = IF key = seg[w] THEN 0 ELSE key
  /\ UNCHANGED <<program, main, printed, round, reg, owner, val, ups, downs, seg, made>>

Detach(w) ==
  /\ Move(w, "detach", "done")
  /\ UNCHANGED <<program, main, printed, round, reg, owner, val, ups, downs, space>>

-----------------------------------------------------------------------------
Loop(w) == Lock(w) \/ Load(w) \/ Store(w) \/ Unlock(w) \/ LoopEnds(w)
Segment(w) == Get(w) \/ Attach(w) \/ AttachFails(w) \/ Remove(w) \/ Detach(w)
Main == Fork \/ ForkFails \/ (\E w \in Workers : CreateThread(w)) \/ CreateFails
          \/ PrintResult \/ PrintEarly \/ WaitChild

Next == Main \/ \E w \in Workers : Loop(w) \/ Segment(w) \/ Killed(w)

Spec == Init /\ [][Next]_vars

(* Processes and threads run; nobody need be killed.  A lock serves the    *)
(* waiters in any order: the loops are finite.                             *)
FairSpec == /\ Spec /\ WF_vars(Main)
            /\ \A w \in Workers : WF_vars(Loop(w) \/ Segment(w))

-----------------------------------------------------------------------------
(* Properties.                                                             *)

(* The type invariant: every variable holds what its declaration says.     *)
TypeOK ==
  /\ program \in {"semaphore", "sharedMem", "mutex", "race", "processes"}
  /\ main \in {"start", "running", "waiting", "ended", "failed"}
  /\ printed \in BOOLEAN
  /\ pc \in [Workers -> {"idle", "attach", "top", "load", "store", "unlock",
                         "remove", "detach", "done", "dead"}]
  /\ round \in [Workers -> 0..Total] /\ reg \in [Workers -> Int]
  /\ owner \in Workers \cup {Nobody, Lost}
  /\ val \in [Segments -> Int]
  /\ ups \in [Segments -> Nat] /\ downs \in [Segments -> Nat]
  /\ seg \in [Workers -> Segments] /\ key \in {0, 1, 2} /\ made \in {0, 1, 2}

Base == IF Pair THEN 0 ELSE Start

(* With a lock in every round, or with the segment to oneself, no change   *)
(* is lost, not even when a process is killed in the middle of a round: so *)
(* that equally many rounds up and down give the value back.               *)
LosesNothing ==
  \A s \in Segments :
    \/ Locked
    \/ Pair /\ \E w \in Team : \A v \in Team \ {w} : pc[v] = "idle" \/ seg[v] # s
    => val[s] = Base + ups[s] - downs[s]

(* Without a lock, however the loops meet, the value is never further off  *)
(* than the rounds done up and the rounds done down.                       *)
DriftBounded ==
  \A s \in Segments : val[s] \in (Base - downs[s])..(Base + ups[s])

(* semaphore.c and the programs with threads print a value that is final:  *)
(* no loop, killed or not, changes it after that.  (sharedMem.c does not.) *)
PrintedIsFinal ==
  [][printed /\ program # "sharedMem" => val' = val]_vars

(* Every program ends, and the last of the two processes takes the segment *)
(* with it, unless a signal has hit a parent or child that was the owner   *)
(* of the semaphore: then the other waits for ever.  (The two processes of *)
(* a segment have no semaphore, and nobody kills them here.)               *)
Ended == IF Pair THEN (\A w \in Team : Over(w)) /\ key = 0
                 ELSE main = "ended" \/ (main = "failed" /\ \A w \in Team : Over(w))

EndsUnlessOwnerKilled == <>[]Ended \/ <>(owner = Lost)
=============================================================================
