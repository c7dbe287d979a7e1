---------------------------- MODULE DriverModule ----------------------------
(***************************************************************************)
(* One life of a driver of src/driver in the kernel: insmod and the steps  *)
(* of its init function, of which those with a checked result may fail;    *)
(* the device nodes; the use CharDevice describes; rmmod and the steps of  *)
(* its exit function.  A failed step makes setup_char_module() call the    *)
(* exit function and go on, and chardev_init() return the error.           *)
(*   "seq_file_interface"  has a file in /proc that shows a list;          *)
(*   "proc_read"           has an empty file in /proc that its exit        *)
(*                         function forgets (char_driver: the same with    *)
(*                         no such file);                                  *)
(*   "online"              the exclusive driver.                           *)
(***************************************************************************)
EXTENDS CharDevice

VARIABLES
  module, (* the module that is loaded                                      *)
  phase,  (* "out", "loading", "loaded", "leaving", "gone"                  *)
  step,   (* steps of the init or exit function that are done               *)
  held,   (* what the kernel has of it: device numbers, device, semaphore,  *)
          (* file in /proc, list node                                       *)
  nodes,  (* the device nodes are in /dev                                   *)
  failed, (* a step of the load has failed                                  *)
  shown   (* what a program last read of the file in /proc                  *)

lifeVars == <<module, phase, step, held, nodes, failed>>
allVars  == <<vars, lifeVars, shown>>

(* Mutant: the list is set up before the steps that may fail.              *)
LoadSteps_NodeFirst(m) ==
  IF m = "online" THEN <<"region", "device", "sema">>
                  ELSE <<"node", "region", "device", "sema", "proc">>

(* The steps of setup_char_module() and chardev_init().                    *)
LoadSteps(m) ==
  CASE m = "seq_file_interface" -> <<"region", "device", "sema", "proc", "node">>
    [] m = "proc_read"          -> <<"region", "device", "sema", "proc">>
    [] m = "online"             -> <<"region", "device", "sema">>

(* Mutant: the file in /proc is left there.                                *)
ExitSteps_KeepsProc(m) ==
  IF m = "online" THEN <<"device", "region">> ELSE <<"node", "region", "device">>

(* The steps of char_module_exit() and chardev_exit().                     *)
ExitSteps(m) ==
  CASE m = "seq_file_interface" -> <<"node", "region", "device", "proc">>
    [] m = "proc_read"          -> <<"region", "device">>
    [] m = "online"             -> <<"device", "region">>

StepSet(s) == {s[i] : i \in DOMAIN s}

LoadInit ==
  /\ Init
  /\ module \in {"seq_file_interface", "proc_read", "online"}
  /\ driver = IF module = "online" THEN "exclusive" ELSE "seq_file"
  /\ phase = "out" /\ step = 0 /\ held = {} /\ nodes = FALSE /\ failed = FALSE
  /\ shown = [r \in ProcReaders |-> "nothing"]

-----------------------------------------------------------------------------
(* insmod.                                                                 *)
Insmod ==
  /\ phase = "out" /\ phase' = "loading"
  /\ UNCHANGED <<vars, module, step, held, nodes, failed, shown>>

(* The next step of the init function.                                     *)
NextIs(x) == /\ phase = "loading" /\ step < Len(LoadSteps(module))
             /\ x = LoadSteps(module)[step + 1]

LoadStep ==
  /\ \E x \in StepSet(LoadSteps(module)) : NextIs(x) /\ held' = held \cup {x}
  /\ step' = step + 1
  /\ UNCHANGED <<vars, module, phase, nodes, failed, shown>>

(* alloc_chrdev_region() or cdev_add() fails: char_module_exit() releases  *)
(* what there is, and also what there is not, and the load goes on.        *)
SetupFails ==
  /\ module # "online" /\ (NextIs("region") \/ NextIs("device"))
  /\ held' = held \ StepSet(ExitSteps(module))
  /\ step' = step + 1 /\ failed' = TRUE
  /\ UNCHANGED <<vars, module, phase, nodes, shown>>

(* The same calls in chardev_init(): the kernel drops the module, and the  *)
(* device numbers stay allocated.                                          *)
InitFails ==
  /\ module = "online" /\ (NextIs("region") \/ NextIs("device"))
  /\ phase' = "gone" /\ failed' = TRUE
  /\ UNCHANGED <<vars, module, step, held, nodes, shown>>

(* The entry in /proc is not made; the load goes on without it.  (For      *)
(* proc_read this is left out: nobody reads its entry.)                    *)
ProcFails ==
  /\ module = "seq_file_interface" /\ NextIs("proc") /\ step' = step + 1
  /\ UNCHANGED <<vars, module, phase, held, nodes, failed, shown>>

InsmodReturns ==
  /\ phase = "loading" /\ step = Len(LoadSteps(module))
  /\ phase' = "loaded" /\ step' = 0
  /\ UNCHANGED <<vars, module, held, nodes, failed, shown>>

(* Mutant: the nodes are made whether or not there is a major number.      *)
MakeNodes_Unasked ==
  /\ phase = "loaded" /\ ~nodes /\ nodes' = TRUE
  /\ UNCHANGED <<vars, module, phase, step, held, failed, shown>>

(* load_driver.sh looks the major number up in /proc/devices and ends with *)
(* "No device Loaded" when there is none; the exclusive driver prints it.  *)
MakeNodes ==
  /\ phase = "loaded" /\ ~nodes /\ "region" \in held
  /\ nodes' = TRUE
  /\ UNCHANGED <<vars, module, phase, step, held, failed, shown>>

-----------------------------------------------------------------------------
(* The use of the loaded driver.                                           *)

(* There are nodes from here on only: one that a script of an earlier load *)
(* left in /dev could be opened as soon as the device is added, before its *)
(* semaphore is there, and is not modelled.                                *)
OpenNode(c) ==
  nodes /\ Open(c) /\ UNCHANGED <<lifeVars, shown>>

UseNode(c) ==
  (OpenInterrupted(c) \/ Use(c) \/ Seek(c)) /\ UNCHANGED <<lifeVars, shown>>

OpenProc(r) ==
  /\ module = "seq_file_interface" /\ "proc" \in held /\ SeqOpen(r)
  /\ UNCHANGED <<lifeVars, shown>>

(* Before the node is in the list start returns the head of the list as if *)
(* it were one; and the exit function frees the node before it removes the *)
(* file, and leaves it linked.  What is printed is whatever is there.      *)
ReadProc(r) ==
  /\ "proc" \in held /\ SeqRead(r)
  /\ shown' = [shown EXCEPT ![r] = CASE pos[r] # 0      -> "nothing"
                                     [] "node" \in held -> "node"
                                     [] OTHER           -> "rubbish"]
  /\ UNCHANGED lifeVars

(* The file was removed under the program that has it open.                *)
ReadProcFails(r) ==
  /\ "proc" \notin held /\ SeqGone(r)
  /\ shown' = [shown EXCEPT ![r] = "nothing"] /\ UNCHANGED lifeVars

-----------------------------------------------------------------------------
(* "rm" of the nodes and rmmod.  .owner = THIS_MODULE: an open device, also *)
(* one still waiting in open(), keeps the module; an open file in /proc    *)
(* does not.  An rmmod that is refused changes nothing but that, with the  *)
(* nodes gone, nobody opens: it is left out.                               *)

(* Mutant: the file operations have no owner.                              *)
Rmmod_NoOwner ==
  /\ phase = "loaded" /\ phase' = "leaving" /\ nodes' = FALSE
  /\ UNCHANGED <<vars, module, step, held, failed, shown>>

Rmmod ==
  /\ phase = "loaded" /\ \A c \in Clients : pc[c] = "closed"
  /\ phase' = "leaving" /\ nodes' = FALSE
  /\ UNCHANGED <<vars, module, step, held, failed, shown>>

LeaveStep ==
  /\ phase = "leaving" /\ step < Len(ExitSteps(module))
  /\ held' = held \ {ExitSteps(module)[step + 1]} /\ step' = step + 1
  /\ UNCHANGED <<vars, module, phase, nodes, failed, shown>>

RmmodReturns ==
  /\ phase = "leaving" /\ step = Len(ExitSteps(module)) /\ phase' = "gone"
  /\ UNCHANGED <<vars, module, step, held, nodes, failed, shown>>

-----------------------------------------------------------------------------
Load == \/ Insmod \/ LoadStep \/ SetupFails \/ InitFails \/ ProcFails
        \/ InsmodReturns \/ MakeNodes
Unload == Rmmod \/ LeaveStep \/ RmmodReturns
ProcStep(r) == ReadProc(r) \/ ReadProcFails(r)

LoadNext ==
  \/ Load \/ Unload
  \/ \E c \in Clients : OpenNode(c) \/ UseNode(c)
  \/ \E r \in ProcReaders : OpenProc(r) \/ ProcStep(r)

LoadSpec == LoadInit /\ [][LoadNext]_allVars

(* The fairness of CharDevice; nobody need load or unload a driver.        *)
LoadFairSpec ==
  /\ LoadSpec
  /\ \A c \in Clients : WF_allVars(Use(c) /\ UNCHANGED <<lifeVars, shown>>)
  /\ \A r \in ProcReaders : WF_allVars(ProcStep(r))

-----------------------------------------------------------------------------
(* Properties.                                                             *)

(* A program that waits in open() or has the device open finds the driver  *)
(* there with its device numbers, its device and an initialised semaphore: *)
(* also after a load that went on over a failed step, and through unloads. *)
OpenNeedsDriver ==
  \A c \in Clients : pc[c] # "closed" =>
    phase = "loaded" /\ {"region", "device", "sema"} \subseteq held

(* Of an unloaded driver nothing stays in the kernel, whichever step of    *)
(* its load had failed, but the file of proc_read in /proc, and the device *)
(* numbers of the exclusive driver when its cdev_add() had failed.         *)
LeavesOnlyKnown ==
  phase = "gone" => held \ {"sema"} \subseteq
    CASE module = "seq_file_interface" -> {}
      [] module = "proc_read"          -> {"proc"}
      [] module = "online"             -> IF failed THEN {"region"} ELSE {}

(* Between insmod and rmmod a read of the file in /proc shows the node of  *)
(* the list, also when the load went on over a failed step and released    *)
(* on its way what it had and what it had not.                             *)
ProcShowsNode ==
  [][phase = "loaded" =>
       \A r \in ProcReaders : shown'[r] = "rubbish" => shown[r] = "rubbish"]_allVars
=============================================================================
