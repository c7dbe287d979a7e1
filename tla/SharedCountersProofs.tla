------------------------ MODULE SharedCountersProofs ------------------------
(***************************************************************************)
(* For any number of rounds and whatever fails: the semaphore is binary    *)
(* and never lost, no two loops are in the middle of a change, the values  *)
(* are printed last, and no update is lost.  A pair must not begin with a  *)
(* semaphore left at 1: sema_proc1 would assign the value while            *)
(* sema_proc2 is in its loop, and changes would overlap.                   *)
(***************************************************************************)
EXTENDS SharedCounters, TLAPS

(* main() and its children.                                                *)
MainOk ==
  /\ program = "pair" => main = "end"
  /\ program = "tree" =>
       /\ main \in {"start", "fork1"} => \A w \in Workers : pc[w] = "none"
       /\ main = "fork2" => pc[2] = "none" /\ pc[1] # "reaped"
       /\ main = "wait1" => \A w \in Workers : pc[w] # "reaped"
       /\ main = "wait2" => \/ \E w \in Workers : pc[w] = "reaped"
                            \/ \A w \in Workers : pc[w] = "none"
       /\ main \in {"print", "end"} => \A w \in Workers : pc[w] \in {"none", "reaped"}

(* A loop.                                                                 *)
LoopOk(w, t) ==
  /\ t \notin JobsOf(w) => at[w][t] = "none" /\ round[w][t] = 0
  /\ at[w][t] \in {"top", "load", "store"} => round[w][t] < Rounds
  /\ at[w][t] = "done" => round[w][t] = Rounds
  /\ program = "tree" /\ at[w][t] \in {"load", "store", "give"} => mutex[w] = t
  /\ at[w][t] \notin {"none", "done"} => pc[w] \in {"create2", "join"}
  /\ pc[w] \in {"none", "assign", "lock", "create1"} => at[w][t] = "none" /\ round[w][t] = 0
  /\ pc[w] = "create2" /\ t = "dec" => at[w][t] = "none" /\ round[w][t] = 0
  /\ pc[w] \in {"unlock", "exit"} /\ t \in JobsOf(w) => at[w][t] = "done"
  /\ pc[w] \in {"ended", "reaped"} /\ w \notin failed /\ t \in JobsOf(w)
       => round[w][t] = Rounds

(* A worker.                                                               *)
WorkerOk(w) ==
  /\ program = "tree" => pc[w] # "assign"
  /\ program = "pair" => pc[w] \notin {"create1", "create2", "reaped"}
  /\ pc[w] = "assign" => w = 1
  /\ \A t \in Jobs : LoopOk(w, t)

(* What the semaphore is worth and what the kernel would give back make 1, *)
(* unless it is not there or not set yet.                                  *)
Balance ==
  \/ /\ sem = Gone /\ adj[1] = 0 /\ adj[2] = 0
     /\ program = "tree" => main \in {"start", "end"}
     /\ program = "pair" => \A w \in Workers : pc[w] = "none"
  \/ sem \in {0, 1} /\ sem + adj[1] + adj[2] = 1
  \/ sem = 0 /\ adj[1] = 0 /\ adj[2] = 0 /\ (main = "start" \/ Unset)

Semaphore ==
  /\ \A w \in Workers : adj[w] = IF Has(w) THEN 1 ELSE 0
  /\ Balance
  /\ program = "pair" /\ pc[1] \in {"none", "assign"}
       => sem \in {0, Gone} /\ adj[1] = 0 /\ adj[2] = 0

(* What was counted is in the counter, and what is loaded is still there.  *)
Sum ==
  /\ counter = round[1]["inc"] + round[2]["inc"] - round[1]["dec"] - round[2]["dec"]
  /\ \A w \in Workers : \A t \in Jobs : at[w][t] = "store" => reg[w][t] = counter

IInv == TypeOK /\ MainOk /\ (\A w \in Workers : WorkerOk(w)) /\ Semaphore /\ Sum

-----------------------------------------------------------------------------
LEMMA WorkersAre == Workers = {1, 2} /\ 1 \in Workers /\ 2 \in Workers
BY DEF Workers

(* At most one worker has the semaphore.                                   *)
LEMMA OneHas ==
  ASSUME IInv, NEW v \in Workers, NEW w \in Workers, Has(v), Has(w)
  PROVE  v = w
<1>1. adj[v] = 1 /\ adj[w] = 1
  BY DEF IInv, Semaphore
<1>2. ~(adj[1] = 1 /\ adj[2] = 1)
  BY SharedCountersAssumption DEF IInv, Semaphore, Balance
<1> QED BY <1>1, <1>2, WorkersAre

LEMMA ExclusiveNow == IInv => Exclusive
<1> SUFFICES ASSUME IInv, NEW v \in Workers, NEW w \in Workers, NEW t \in Jobs, NEW u \in Jobs,
                    at[v][t] \in {"load", "store"}, at[w][u] \in {"load", "store"}
             PROVE  v = w /\ t = u
  BY DEF Exclusive
<1>0. LoopOk(v, t) /\ LoopOk(w, u)
  BY DEF IInv, WorkerOk
<1>1. Has(v) /\ Has(w)
  BY <1>0 DEF LoopOk, Has
<1>2. v = w
  BY <1>1, OneHas
<1>3. CASE program = "tree"
  BY <1>0, <1>2, <1>3 DEF LoopOk
<1>4. CASE program = "pair"
  <2>1. t \in JobsOf(v) /\ u \in JobsOf(v)
    BY <1>0, <1>2 DEF LoopOk
  <2> QED BY <1>2, <1>4, <2>1 DEF JobsOf
<1> QED BY <1>2, <1>3, <1>4 DEF IInv, TypeOK

LEMMA ConstructKeeps ==
  ASSUME IInv, Construct
  PROVE  IInv'
<1>0. TypeOK /\ MainOk /\ Semaphore /\ Sum /\ \A x \in Workers : WorkerOk(x)
  BY DEF IInv
<1>1. TypeOK'
  BY <1>0, SharedCountersAssumption DEF TypeOK, Construct, SetVal, loops
<1>2. MainOk'
  BY <1>0, WorkersAre DEF TypeOK, MainOk, WorkerOk, Construct, SetVal, loops
<1>3. ASSUME NEW x \in Workers PROVE WorkerOk(x)'
  BY <1>0, SharedCountersAssumption DEF TypeOK, MainOk, WorkerOk, LoopOk, JobsOf, Jobs,
     Construct, SetVal, loops
<1>4. Semaphore'
  BY <1>0, SharedCountersAssumption, WorkersAre DEF TypeOK, MainOk, WorkerOk, Semaphore,
     Balance, Has, Unset, Construct, SetVal, loops
<1>5. Sum'
  <2>1. \A x \in Workers : pc[x] = "none"
    BY <1>0 DEF MainOk, TypeOK, Construct
  <2>2. \A x \in Workers, t \in Jobs : round[x][t] = 0 /\ at[x][t] = "none"
    BY <1>0, <2>1 DEF WorkerOk, LoopOk
  <2> QED BY <2>2, WorkersAre DEF Sum, Jobs, Construct
<1> QED BY <1>1, <1>2, <1>3, <1>4, <1>5 DEF IInv

LEMMA WaitKeeps ==
  ASSUME IInv, Wait
  PROVE  IInv'
<1>0. TypeOK /\ MainOk /\ Semaphore /\ Sum /\ \A x \in Workers : WorkerOk(x)
  BY DEF IInv
<1>1. TypeOK'
  BY <1>0, SharedCountersAssumption DEF TypeOK, Wait, Reap, Goto, loops
<1>2. MainOk'
  BY <1>0, WorkersAre DEF TypeOK, MainOk, WorkerOk, Wait, Reap, Goto, loops
<1>3. ASSUME NEW x \in Workers PROVE WorkerOk(x)'
  BY <1>0, SharedCountersAssumption DEF TypeOK, MainOk, WorkerOk, LoopOk, JobsOf, Jobs,
     Wait, Reap, Goto, loops
<1>4. Semaphore'
  BY <1>0, SharedCountersAssumption, WorkersAre DEF TypeOK, MainOk, WorkerOk, Semaphore,
     Balance, Has, Unset, Wait, Reap, Goto, loops
<1>5. Sum'
  BY <1>0, WorkersAre DEF TypeOK, Sum, Jobs, Wait, Reap, Goto, loops
<1> QED BY <1>1, <1>2, <1>3, <1>4, <1>5 DEF IInv

LEMMA PrintAndDestroyKeeps ==
  ASSUME IInv, PrintAndDestroy
  PROVE  IInv'
<1>0. TypeOK /\ MainOk /\ Semaphore /\ Sum /\ \A x \in Workers : WorkerOk(x)
  BY DEF IInv
<1>1. TypeOK'
  BY <1>0, SharedCountersAssumption DEF TypeOK, PrintAndDestroy, loops
<1>2. MainOk'
  BY <1>0, WorkersAre DEF TypeOK, MainOk, WorkerOk, PrintAndDestroy, loops
<1>3. ASSUME NEW x \in Workers PROVE WorkerOk(x)'
  BY <1>0, SharedCountersAssumption DEF TypeOK, MainOk, WorkerOk, LoopOk, JobsOf, Jobs,
     PrintAndDestroy, loops
<1>4. Semaphore'
  BY <1>0, SharedCountersAssumption, WorkersAre DEF TypeOK, MainOk, WorkerOk, Semaphore,
     Balance, Has, Unset, PrintAndDestroy, loops
<1>5. Sum'
  BY <1>0, WorkersAre DEF TypeOK, Sum, Jobs, PrintAndDestroy, loops
<1> QED BY <1>1, <1>2, <1>3, <1>4, <1>5 DEF IInv

LEMMA ForkKeeps ==
  ASSUME IInv, NEW w \in Workers, Fork(w)
  PROVE  IInv'
<1>0. TypeOK /\ MainOk /\ Semaphore /\ Sum /\ \A x \in Workers : WorkerOk(x)
  BY DEF IInv
<1>1. TypeOK'
  BY <1>0, SharedCountersAssumption DEF TypeOK, Fork, Goto, loops
<1>2. MainOk'
  BY <1>0, WorkersAre DEF TypeOK, MainOk, WorkerOk, Fork, Goto, loops
<1>3. ASSUME NEW x \in Workers PROVE WorkerOk(x)'
  <2>1. program = "tree" /\ pc[w] = "none"
    BY <1>0, WorkersAre DEF TypeOK, MainOk, Fork
  <2>2. pc'[x] = pc[x] \/ (x = w /\ pc'[x] = "lock")
    BY <1>0 DEF TypeOK, Fork, Goto
  <2> QED BY <1>0, <2>1, <2>2 DEF WorkerOk, LoopOk, JobsOf, Fork, loops
<1>4. Semaphore'
  BY <1>0, SharedCountersAssumption, WorkersAre DEF TypeOK, MainOk, WorkerOk, Semaphore,
     Balance, Has, Unset, Fork, Goto, loops
<1>5. Sum'
  BY <1>0, WorkersAre DEF TypeOK, Sum, Jobs, Fork, Goto, loops
<1> QED BY <1>1, <1>2, <1>3, <1>4, <1>5 DEF IInv

LEMMA BeginKeeps ==
  ASSUME IInv, NEW w \in Workers, Begin(w)
  PROVE  IInv'
<1>0. TypeOK /\ MainOk /\ Semaphore /\ Sum /\ \A x \in Workers : WorkerOk(x)
  BY DEF IInv
<1>1. TypeOK'
  BY <1>0, SharedCountersAssumption DEF TypeOK, Begin, Goto, loops
<1>2. MainOk'
  BY <1>0, WorkersAre DEF TypeOK, MainOk, WorkerOk, Begin, Goto, loops
<1>3. ASSUME NEW x \in Workers PROVE WorkerOk(x)'
  BY <1>0, SharedCountersAssumption DEF TypeOK, MainOk, WorkerOk, LoopOk, JobsOf, Jobs,
     Begin, Goto, loops
<1>4. Semaphore'
  BY <1>0, SharedCountersAssumption, WorkersAre DEF TypeOK, MainOk, WorkerOk, Semaphore,
     Balance, Has, Unset, Begin, Goto, loops
<1>5. Sum'
  BY <1>0, WorkersAre DEF TypeOK, Sum, Jobs, Begin, Goto, loops
<1> QED BY <1>1, <1>2, <1>3, <1>4, <1>5 DEF IInv

LEMMA AssignKeeps ==
  ASSUME IInv, NEW w \in Workers, Assign(w)
  PROVE  IInv'
<1>0. TypeOK /\ MainOk /\ Semaphore /\ Sum /\ \A x \in Workers : WorkerOk(x)
  BY DEF IInv
<1>1. TypeOK'
  BY <1>0, SharedCountersAssumption DEF TypeOK, Assign, SetVal, Goto, loops
<1>2. MainOk'
  BY <1>0, WorkersAre DEF TypeOK, MainOk, WorkerOk, Assign, SetVal, Goto, loops
<1>3. ASSUME NEW x \in Workers PROVE WorkerOk(x)'
  BY <1>0, SharedCountersAssumption DEF TypeOK, MainOk, WorkerOk, LoopOk, JobsOf, Jobs,
     Assign, SetVal, Goto, loops
<1>4. Semaphore'
  BY <1>0, SharedCountersAssumption, WorkersAre DEF TypeOK, MainOk, WorkerOk, Semaphore,
     Balance, Has, Unset, Assign, SetVal, Goto, loops
<1>5. Sum'
  BY <1>0, WorkersAre DEF TypeOK, Sum, Jobs, Assign, SetVal, Goto, loops
<1> QED BY <1>1, <1>2, <1>3, <1>4, <1>5 DEF IInv

LEMMA LockKeeps ==
  ASSUME IInv, NEW w \in Workers, Lock(w)
  PROVE  IInv'
<1>0. TypeOK /\ MainOk /\ Semaphore /\ Sum /\ \A x \in Workers : WorkerOk(x)
  BY DEF IInv
<1>1. TypeOK'
  <2>1. pc' \in [Workers -> {"none", "assign", "lock", "create1", "create2", "join",
                             "unlock", "exit", "ended", "reaped"}]
    BY <1>0 DEF TypeOK, Lock, Goto
  <2>2. at' \in [Workers -> [Jobs -> {"none", "top", "load", "store", "give", "done"}]]
    <3> DEFINE begun == [t \in Jobs |-> IF t \in JobsOf(w) THEN "top" ELSE "none"]
    <3>1. begun \in [Jobs -> {"none", "top", "load", "store", "give", "done"}]
      OBVIOUS
    <3>2. at' = at \/ at' = [at EXCEPT ![w] = begun]
      BY DEF Lock
    <3> HIDE DEF begun
    <3> QED BY <1>0, <3>1, <3>2 DEF TypeOK
  <2>3. adj[w] = 0 /\ sem = 1
    <3>1. ~Has(w)
      BY DEF Lock, Has
    <3>2. sem \in {0, 1} /\ sem > 0
      BY <1>0 DEF TypeOK, Lock
    <3> QED BY <1>0, <3>1, <3>2 DEF Semaphore
  <2>4. sem' = 0 /\ adj' = [adj EXCEPT ![w] = 1]
    BY <2>3 DEF Lock
  <2> QED BY <1>0, <2>1, <2>2, <2>4 DEF TypeOK, Lock
<1>2. MainOk'
  BY <1>0, WorkersAre DEF TypeOK, MainOk, WorkerOk, Lock, Goto, loops
<1>3. ASSUME NEW x \in Workers PROVE WorkerOk(x)'
  BY <1>0, SharedCountersAssumption DEF TypeOK, MainOk, WorkerOk, LoopOk, JobsOf, Jobs,
     Lock, Goto, loops
<1>4. Semaphore'
  BY <1>0, SharedCountersAssumption, WorkersAre DEF TypeOK, MainOk, WorkerOk, Semaphore,
     Balance, Has, Unset, Lock, Goto, loops
<1>5. Sum'
  BY <1>0, WorkersAre DEF TypeOK, Sum, Jobs, Lock, Goto, loops
<1> QED BY <1>1, <1>2, <1>3, <1>4, <1>5 DEF IInv

LEMMA CreateKeeps ==
  ASSUME IInv, NEW w \in Workers, Create(w)
  PROVE  IInv'
<1>0. TypeOK /\ MainOk /\ Semaphore /\ Sum /\ \A x \in Workers : WorkerOk(x)
  BY DEF IInv
<1>1. TypeOK'
  <2>1. pc' \in [Workers -> {"none", "assign", "lock", "create1", "create2", "join",
                             "unlock", "exit", "ended", "reaped"}]
    BY <1>0 DEF TypeOK, Create, Goto
  <2>2. at' \in [Workers -> [Jobs -> {"none", "top", "load", "store", "give", "done"}]]
    BY <1>0 DEF TypeOK, Create, Jobs
  <2> QED BY <1>0, <2>1, <2>2 DEF TypeOK, Create
<1>2. MainOk'
  BY <1>0, WorkersAre DEF TypeOK, MainOk, WorkerOk, Create, Goto, loops
<1>3. ASSUME NEW x \in Workers PROVE WorkerOk(x)'
  BY <1>0, SharedCountersAssumption DEF TypeOK, MainOk, WorkerOk, LoopOk, JobsOf, Jobs,
     Create, Goto, loops
<1>4. Semaphore'
  BY <1>0, SharedCountersAssumption, WorkersAre DEF TypeOK, MainOk, WorkerOk, Semaphore,
     Balance, Has, Unset, Create, Goto, loops
<1>5. Sum'
  BY <1>0, WorkersAre DEF TypeOK, Sum, Jobs, Create, Goto, loops
<1> QED BY <1>1, <1>2, <1>3, <1>4, <1>5 DEF IInv

LEMMA JoinKeeps ==
  ASSUME IInv, NEW w \in Workers, Join(w)
  PROVE  IInv'
<1>0. TypeOK /\ MainOk /\ Semaphore /\ Sum /\ \A x \in Workers : WorkerOk(x)
  BY DEF IInv
<1>1. TypeOK'
  BY <1>0, SharedCountersAssumption DEF TypeOK, Join, Goto, loops
<1>2. MainOk'
  BY <1>0, WorkersAre DEF TypeOK, MainOk, WorkerOk, Join, Goto, loops
<1>3. ASSUME NEW x \in Workers PROVE WorkerOk(x)'
  BY <1>0, SharedCountersAssumption DEF TypeOK, MainOk, WorkerOk, LoopOk, JobsOf, Jobs,
     Join, Goto, loops
<1>4. Semaphore'
  BY <1>0, SharedCountersAssumption, WorkersAre DEF TypeOK, MainOk, WorkerOk, Semaphore,
     Balance, Has, Unset, Join, Goto, loops
<1>5. Sum'
  BY <1>0, WorkersAre DEF TypeOK, Sum, Jobs, Join, Goto, loops
<1> QED BY <1>1, <1>2, <1>3, <1>4, <1>5 DEF IInv

LEMMA UnlockKeeps ==
  ASSUME IInv, NEW w \in Workers, Unlock(w)
  PROVE  IInv'
<1>0. TypeOK /\ MainOk /\ Semaphore /\ Sum /\ \A x \in Workers : WorkerOk(x)
  BY DEF IInv
<1>1. TypeOK'
  <2>1. adj[w] = 1 /\ sem = 0
    BY <1>0, SharedCountersAssumption, WorkersAre DEF TypeOK, Semaphore, Balance, Unlock, Has
  <2>2. sem' = 1 /\ adj' = [adj EXCEPT ![w] = 0]
    BY <2>1 DEF Unlock
  <2> QED BY <1>0, <2>2 DEF TypeOK, Unlock, Goto, loops
<1>2. MainOk'
  BY <1>0, WorkersAre DEF TypeOK, MainOk, WorkerOk, Unlock, Goto, loops
<1>3. ASSUME NEW x \in Workers PROVE WorkerOk(x)'
  BY <1>0, SharedCountersAssumption DEF TypeOK, MainOk, WorkerOk, LoopOk, JobsOf, Jobs,
     Unlock, Goto, loops
<1>4. Semaphore'
  BY <1>0, SharedCountersAssumption, WorkersAre DEF TypeOK, MainOk, WorkerOk, Semaphore,
     Balance, Has, Unset, Unlock, Goto, loops
<1>5. Sum'
  BY <1>0, WorkersAre DEF TypeOK, Sum, Jobs, Unlock, Goto, loops
<1> QED BY <1>1, <1>2, <1>3, <1>4, <1>5 DEF IInv

LEMMA ExitKeeps ==
  ASSUME IInv, NEW w \in Workers, Exit(w)
  PROVE  IInv'
<1>0. TypeOK /\ MainOk /\ Semaphore /\ Sum /\ \A x \in Workers : WorkerOk(x)
  BY DEF IInv
<1>1. TypeOK'
  <2>1. adj[w] = 0 /\ sem \in {0, 1}
    BY <1>0 DEF TypeOK, Semaphore, Exit, Ends, Has
  <2>2. sem' = sem
    BY <2>1 DEF Exit, Ends
  <2> QED BY <1>0, <2>2 DEF TypeOK, Exit, Ends, Goto
<1>2. MainOk'
  BY <1>0, WorkersAre DEF TypeOK, MainOk, WorkerOk, Exit, Ends, Goto, loops
<1>3. ASSUME NEW x \in Workers PROVE WorkerOk(x)'
  BY <1>0, SharedCountersAssumption DEF TypeOK, MainOk, WorkerOk, LoopOk, JobsOf, Jobs,
     Exit, Ends, Goto, loops
<1>4. Semaphore'
  BY <1>0, SharedCountersAssumption, WorkersAre DEF TypeOK, MainOk, WorkerOk, Semaphore,
     Balance, Has, Unset, Exit, Ends, Goto, loops
<1>5. Sum'
  BY <1>0, WorkersAre DEF TypeOK, Sum, Jobs, Exit, Ends, Goto, loops
<1> QED BY <1>1, <1>2, <1>3, <1>4, <1>5 DEF IInv

LEMMA FailsKeeps ==
  ASSUME IInv, NEW w \in Workers, Fails(w)
  PROVE  IInv'
<1>0. TypeOK /\ MainOk /\ Semaphore /\ Sum /\ \A x \in Workers : WorkerOk(x)
  BY DEF IInv
<1>a. adj[w] \in {0, 1} /\ (adj[w] = 1 => sem = 0) /\ sem \in {0, 1}
  BY <1>0, SharedCountersAssumption, WorkersAre DEF TypeOK, Semaphore, Balance, Fails, Ends, Has
<1>b. sem' = sem + adj[w] /\ sem' \in {0, 1}
  BY <1>a DEF Fails, Ends
<1>1. TypeOK'
  BY <1>0, <1>b DEF TypeOK, Fails, Ends, Goto
<1>2. MainOk'
  BY <1>0, WorkersAre DEF TypeOK, MainOk, WorkerOk, Fails, Ends, Goto, Alive, loops
<1>3. ASSUME NEW x \in Workers PROVE WorkerOk(x)'
  BY <1>0, SharedCountersAssumption DEF TypeOK, MainOk, WorkerOk, LoopOk, JobsOf, Jobs,
     Fails, Ends, Goto, Alive, loops
<1>4. Semaphore'
  <2>1. /\ pc[w] \notin {"none", "ended", "reaped"} /\ pc'[w] = "ended" /\ adj'[w] = 0
        /\ \A x \in Workers : x # w => pc'[x] = pc[x] /\ adj'[x] = adj[x]
        /\ program' = program /\ main' = main /\ failed' = failed \cup {w}
    BY <1>0 DEF TypeOK, Fails, Ends, Goto, Alive
  <2>2. \A x \in Workers : adj'[x] = IF Has(x)' THEN 1 ELSE 0
    BY <1>0, <2>1 DEF Semaphore, Has
  <2>3. Unset => Unset'
    BY <2>1, WorkersAre DEF Unset
  <2>4. Balance'
    <3>1. CASE sem + adj[1] + adj[2] = 1
      BY <1>a, <1>b, <2>1, <3>1, <1>0, WorkersAre DEF Balance, TypeOK
    <3>2. CASE sem = 0 /\ adj[1] = 0 /\ adj[2] = 0 /\ (main = "start" \/ Unset)
      BY <1>b, <2>1, <2>3, <3>2, WorkersAre DEF Balance
    <3> QED BY <1>0, <1>a, <3>1, <3>2, SharedCountersAssumption DEF Semaphore, Balance
  <2>5. program' = "pair" /\ pc'[1] \in {"none", "assign"}
          => sem' \in {0, Gone} /\ adj'[1] = 0 /\ adj'[2] = 0
    BY <1>0, <1>a, <1>b, <2>1, WorkersAre, SharedCountersAssumption DEF Semaphore
  <2> QED BY <2>2, <2>4, <2>5 DEF Semaphore
<1>5. Sum'
  BY <1>0, WorkersAre DEF TypeOK, Sum, Jobs, Fails, Ends, Goto, Alive, loops
<1> QED BY <1>1, <1>2, <1>3, <1>4, <1>5 DEF IInv

LEMMA TakeMutexKeeps ==
  ASSUME IInv, NEW w \in Workers, NEW t \in Jobs, TakeMutex(w, t)
  PROVE  IInv'
<1>0. TypeOK /\ MainOk /\ Semaphore /\ Sum /\ \A x \in Workers : WorkerOk(x)
  BY DEF IInv
<1>1. TypeOK'
  BY <1>0, SharedCountersAssumption DEF TypeOK, TakeMutex, LoopStep, loops
<1>2. MainOk'
  BY <1>0, WorkersAre DEF TypeOK, MainOk, WorkerOk, TakeMutex, LoopStep, loops
<1>3. ASSUME NEW x \in Workers PROVE WorkerOk(x)'
  BY <1>0, SharedCountersAssumption DEF TypeOK, MainOk, WorkerOk, LoopOk, JobsOf, Jobs,
     TakeMutex, LoopStep, loops
<1>4. Semaphore'
  BY <1>0, SharedCountersAssumption, WorkersAre DEF TypeOK, MainOk, WorkerOk, Semaphore,
     Balance, Has, Unset, TakeMutex, LoopStep, loops
<1>5. Sum'
  BY <1>0, WorkersAre DEF TypeOK, Sum, Jobs, TakeMutex, LoopStep, loops
<1> QED BY <1>1, <1>2, <1>3, <1>4, <1>5 DEF IInv

LEMMA LoadKeeps ==
  ASSUME IInv, NEW w \in Workers, NEW t \in Jobs, Load(w, t)
  PROVE  IInv'
<1>0. TypeOK /\ MainOk /\ Semaphore /\ Sum /\ \A x \in Workers : WorkerOk(x)
  BY DEF IInv
<1>1. TypeOK'
  BY <1>0, SharedCountersAssumption DEF TypeOK, Load, LoopStep, loops
<1>2. MainOk'
  BY <1>0, WorkersAre DEF TypeOK, MainOk, WorkerOk, Load, LoopStep, loops
<1>3. ASSUME NEW x \in Workers PROVE WorkerOk(x)'
  BY <1>0, SharedCountersAssumption DEF TypeOK, MainOk, WorkerOk, LoopOk, JobsOf, Jobs,
     Load, LoopStep, loops
<1>4. Semaphore'
  BY <1>0, SharedCountersAssumption, WorkersAre DEF TypeOK, MainOk, WorkerOk, Semaphore,
     Balance, Has, Unset, Load, LoopStep, loops
<1>5. Sum'
  BY <1>0, WorkersAre DEF TypeOK, Sum, Jobs, Load, LoopStep, loops
<1> QED BY <1>1, <1>2, <1>3, <1>4, <1>5 DEF IInv

LEMMA StoreKeeps ==
  ASSUME IInv, NEW w \in Workers, NEW t \in Jobs, Store(w, t)
  PROVE  IInv'
<1>0. TypeOK /\ MainOk /\ Semaphore /\ Sum /\ \A x \in Workers : WorkerOk(x)
  BY DEF IInv
<1>a. at[w][t] = "store" /\ LoopOk(w, t)
  BY <1>0 DEF WorkerOk, Store, LoopStep
<1>b. round[w][t] \in 0..Rounds /\ round[w][t] < Rounds
  BY <1>0, <1>a DEF TypeOK, LoopOk
<1>1. TypeOK'
  <2>1. counter' \in Int
    BY <1>0 DEF TypeOK, Store
  <2>2. round' \in [Workers -> [Jobs -> 0..Rounds]]
    BY <1>0, <1>b, SharedCountersAssumption DEF TypeOK, Store
  <2>3. at' \in [Workers -> [Jobs -> {"none", "top", "load", "store", "give", "done"}]]
    BY <1>0 DEF TypeOK, Store, LoopStep
  <2> QED BY <1>0, <2>1, <2>2, <2>3 DEF TypeOK, Store, LoopStep
<1>2. MainOk'
  BY <1>0, WorkersAre DEF TypeOK, MainOk, WorkerOk, Store, LoopStep, loops
<1>3. ASSUME NEW x \in Workers PROVE WorkerOk(x)'
  BY <1>0, SharedCountersAssumption DEF TypeOK, MainOk, WorkerOk, LoopOk, JobsOf, Jobs,
     Store, LoopStep, loops
<1>4. Semaphore'
  BY <1>0, SharedCountersAssumption, WorkersAre DEF TypeOK, MainOk, WorkerOk, Semaphore,
     Balance, Has, Unset, Store, LoopStep, loops
<1>5. Sum'
  <2>1. counter' = counter + IF t = "inc" THEN 1 ELSE -1
    BY <1>0, <1>a DEF Sum, Store
  <2>2. \A x \in Workers, u \in Jobs :
          round'[x][u] = IF x = w /\ u = t THEN round[x][u] + 1 ELSE round[x][u]
    BY <1>0 DEF TypeOK, Store
  <2>3. counter' = round'[1]["inc"] + round'[2]["inc"] - round'[1]["dec"] - round'[2]["dec"]
    <3>1. \A x \in Workers, u \in Jobs : round[x][u] \in Int
      BY <1>0 DEF TypeOK
    <3>2. (w = 1 \/ w = 2) /\ (t = "inc" \/ t = "dec")
      BY WorkersAre DEF Jobs
    <3> QED BY <1>0, <2>1, <2>2, <3>1, <3>2, WorkersAre DEF Sum, Jobs, TypeOK
  <2>4. \A x \in Workers, u \in Jobs : at'[x][u] # "store"
    <3>1. \A x \in Workers, u \in Jobs : at[x][u] = "store" => x = w /\ u = t
      BY <1>a, ExclusiveNow DEF Exclusive
    <3>2. \A x \in Workers, u \in Jobs :
            at'[x][u] = IF x = w /\ u = t THEN "give" ELSE at[x][u]
      BY <1>0 DEF TypeOK, Store, LoopStep
    <3> QED BY <3>1, <3>2
  <2> QED BY <2>3, <2>4 DEF Sum
<1> QED BY <1>1, <1>2, <1>3, <1>4, <1>5 DEF IInv

LEMMA GiveMutexKeeps ==
  ASSUME IInv, NEW w \in Workers, NEW t \in Jobs, GiveMutex(w, t)
  PROVE  IInv'
<1>0. TypeOK /\ MainOk /\ Semaphore /\ Sum /\ \A x \in Workers : WorkerOk(x)
  BY DEF IInv
<1>1. TypeOK'
  BY <1>0, SharedCountersAssumption DEF TypeOK, GiveMutex, LoopStep, Free, loops
<1>2. MainOk'
  BY <1>0, WorkersAre DEF TypeOK, MainOk, WorkerOk, GiveMutex, LoopStep, Free, loops
<1>3. ASSUME NEW x \in Workers PROVE WorkerOk(x)'
  <2>1. /\ \A u \in Jobs : at'[x][u] = IF x = w /\ u = t
                 THEN (IF round[w][t] = Rounds THEN "done" ELSE "top") ELSE at[x][u]
        /\ at[w][t] = "give" /\ UNCHANGED <<program, pc, failed, round>>
    BY <1>0 DEF TypeOK, GiveMutex, LoopStep
  <2>2. round[w][t] \in 0..Rounds
    BY <1>0 DEF TypeOK
  <2>3. \A u \in Jobs : mutex'[x] = mutex[x] \/ (x = w /\ program = "tree" /\ mutex[x] = t)
    BY <1>0, <2>1 DEF TypeOK, WorkerOk, LoopOk, GiveMutex, Free
  <2>4. ASSUME NEW u \in Jobs PROVE LoopOk(x, u)'
    BY <1>0, <2>1, <2>2, <2>3, SharedCountersAssumption DEF WorkerOk, LoopOk, JobsOf
  <2> QED BY <1>0, <2>1, <2>4 DEF WorkerOk
<1>4. Semaphore'
  BY <1>0, SharedCountersAssumption, WorkersAre DEF TypeOK, MainOk, WorkerOk, Semaphore,
     Balance, Has, Unset, GiveMutex, LoopStep, Free, loops
<1>5. Sum'
  BY <1>0, WorkersAre DEF TypeOK, Sum, Jobs, GiveMutex, LoopStep, Free, loops
<1> QED BY <1>1, <1>2, <1>3, <1>4, <1>5 DEF IInv

-----------------------------------------------------------------------------
(* The initial states satisfy the invariant when no semaphore of a pair    *)
(* was left at 1.                                                          *)
LEMMA InitOk == Left \subseteq {0, Gone} /\ Init => IInv
<1> SUFFICES ASSUME Left \subseteq {0, Gone}, Init PROVE IInv
  OBVIOUS
<1>1. TypeOK
  <2>1. /\ reg \in [Workers -> [Jobs -> Int]] /\ round \in [Workers -> [Jobs -> 0..Rounds]]
        /\ at \in [Workers -> [Jobs -> {"none", "top", "load", "store", "give", "done"}]]
    BY SharedCountersAssumption DEF Init
  <2>2. sem \in {0, 1, Gone}
    <3>1. CASE program = "tree" /\ sem \in {0, 1, Gone}
      BY <3>1
    <3>2. CASE sem \in Left
      BY <3>2
    <3> QED BY <3>1, <3>2 DEF Init
  <2>3. counter \in Int
    BY DEF Init
  <2> QED BY <2>1, <2>2, <2>3 DEF Init, TypeOK
<1>2. MainOk
  BY DEF Init, MainOk
<1>3. ASSUME NEW w \in Workers PROVE WorkerOk(w)
  BY <1>1, SharedCountersAssumption DEF Init, WorkerOk, LoopOk, TypeOK
<1>4. Semaphore
  <2>1. \A w \in Workers : adj[w] = 0 /\ pc[w] = "none"
    BY DEF Init
  <2>2. program = "pair" => sem \in {0, Gone} /\ Unset
    BY <2>1, WorkersAre DEF Init, Unset
  <2>3. program = "tree" => main = "start" /\ sem \in {0, 1, Gone}
    BY DEF Init
  <2>4. Balance
    BY <1>1, <2>1, <2>2, <2>3, WorkersAre DEF Balance, TypeOK
  <2> QED BY <2>1, <2>2, <2>4, WorkersAre DEF Semaphore, Has
<1>5. Sum
  BY WorkersAre DEF Init, Sum, Jobs
<1> QED BY <1>1, <1>2, <1>3, <1>4, <1>5 DEF IInv

LEMMA NextKeeps == IInv /\ [Next]_vars => IInv'
<1> SUFFICES ASSUME IInv, [Next]_vars PROVE IInv'
  OBVIOUS
<1>1. CASE Main
  BY <1>1, ConstructKeeps, ForkKeeps, WaitKeeps, PrintAndDestroyKeeps DEF Main
<1>2. ASSUME NEW w \in Workers, Begin(w) \/ Worker(w) \/ Fails(w) PROVE IInv'
  BY <1>2, BeginKeeps, AssignKeeps, LockKeeps, CreateKeeps, JoinKeeps, UnlockKeeps,
     ExitKeeps, FailsKeeps DEF Worker
<1>3. ASSUME NEW w \in Workers, NEW t \in Jobs, Thread(w, t) PROVE IInv'
  BY <1>3, TakeMutexKeeps, LoadKeeps, StoreKeeps, GiveMutexKeeps DEF Thread
<1>4. CASE UNCHANGED vars
  <2>1. TypeOK' /\ MainOk' /\ Semaphore' /\ Sum'
    BY <1>4 DEF IInv, TypeOK, MainOk, Semaphore, Balance, Unset, Has, Sum, vars
  <2>2. ASSUME NEW w \in Workers PROVE WorkerOk(w)'
    BY <1>4 DEF IInv, WorkerOk, LoopOk, JobsOf, vars
  <2> QED BY <2>1, <2>2 DEF IInv
<1> QED BY <1>1, <1>2, <1>3, <1>4 DEF Next

LEMMA InvariantHolds == Left \subseteq {0, Gone} /\ Spec => []IInv
<1>1. Left \subseteq {0, Gone} /\ Init => IInv
  BY InitOk
<1>2. IInv /\ [Next]_vars => IInv'
  BY NextKeeps
<1> QED BY <1>1, <1>2, PTL DEF Spec

-----------------------------------------------------------------------------
(* Every variable keeps its type; the semaphore stays binary through every *)
(* unlock and every undo.                                                  *)
THEOREM CountersTypeCorrect == Left \subseteq {0, Gone} /\ Spec => []TypeOK
<1>1. IInv => TypeOK
  BY DEF IInv
<1> QED BY <1>1, InvariantHolds, PTL

(* No two loops, of one process or of two, are in the middle of a change   *)
(* at once, wherever a worker was killed.                                  *)
THEOREM LoopsExclude == Left \subseteq {0, Gone} /\ Spec => []Exclusive
BY ExclusiveNow, InvariantHolds, PTL

(* A worker that is killed, or fails to make its threads, gives the        *)
(* semaphore back: SEM_UNDO of sem_lock() and sem_unlock() cancel out.     *)
THEOREM SemaphoreNeverLost == Left \subseteq {0, Gone} /\ Spec => []FreeWhenUnused
<1>1. IInv => FreeWhenUnused
  <2> SUFFICES ASSUME IInv, main # "start", ~Unset, \A w \in Workers : ~Has(w)
               PROVE  sem \in {1, Gone}
    BY DEF FreeWhenUnused
  <2>1. adj[1] = 0 /\ adj[2] = 0
    BY WorkersAre DEF IInv, Semaphore
  <2> QED BY <2>1 DEF IInv, Semaphore, Balance
<1> QED BY <1>1, InvariantHolds, PTL

(* main() prints and removes the semaphore when no child is left: its two  *)
(* calls of wait() are enough, also when a fork() failed.                  *)
THEOREM MainPrintsLast == Left \subseteq {0, Gone} /\ Spec => []PrintsLast
<1>1. IInv => PrintsLast
  BY DEF IInv, MainOk, PrintsLast, Alive
<1> QED BY <1>1, InvariantHolds, PTL

(* When both workers have ended by themselves, everything that was counted *)
(* up was counted down, for any number of rounds.                          *)
THEOREM NoUpdateLost == Left \subseteq {0, Gone} /\ Spec => []ResultKept
<1>1. IInv => ResultKept
  <2> SUFFICES ASSUME IInv, failed = {}, \A w \in Workers : pc[w] \in {"ended", "reaped"}
               PROVE  counter = 0
    BY DEF ResultKept
  <2>1. \A w \in Workers, t \in Jobs :
          round[w][t] = IF t \in JobsOf(w) THEN Rounds ELSE 0
    BY DEF IInv, WorkerOk, LoopOk
  <2>2. CASE program = "tree"
    <3>1. \A w \in Workers, t \in Jobs : round[w][t] = Rounds
      BY <2>1, <2>2 DEF JobsOf
    <3> QED BY <3>1, WorkersAre, SharedCountersAssumption DEF IInv, Sum, Jobs
  <2>3. CASE program = "pair"
    <3>1. JobsOf(1) = {"inc"} /\ JobsOf(2) = {"dec"}
      BY <2>3 DEF JobsOf
    <3>2. /\ round[1]["inc"] = Rounds /\ round[1]["dec"] = 0
          /\ round[2]["inc"] = 0 /\ round[2]["dec"] = Rounds
      BY <2>1, <3>1, WorkersAre DEF Jobs
    <3> QED BY <3>2, SharedCountersAssumption DEF IInv, Sum
  <2> QED BY <2>2, <2>3 DEF IInv, TypeOK
<1> QED BY <1>1, InvariantHolds, PTL
=============================================================================
