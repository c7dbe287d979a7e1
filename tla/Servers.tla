------------------------------- MODULE Servers -------------------------------
(***************************************************************************)
(* Socket servers and their clients (src/socket):                          *)
(*   "one"   socket_server.c, server_publish, diff_machine_socket: one     *)
(*           accept(), then that client is read until it sends "end";      *)
(*   "each"  normal_socket: accept, read once, print and close, until a    *)
(*           client sends "end";                                           *)
(*   "many"  multi_client_rec: a thread reads each client until it sends   *)
(*           "end" and posts what it reads to a pipe; another thread       *)
(*           prints it.                                                    *)
(* No server looks at the length read() returns: at the end of the data,   *)
(* and on an error, the buffer still holds the message before.             *)
(* A message is <<client, how many it has sent>>.                          *)
(***************************************************************************)
EXTENDS Integers, Sequences, FiniteSets

CONSTANTS Clients,
          Messages, (* bound: messages of a client that is asked for them   *)
          PipeCap,  (* messages the pipe holds                              *)
          Nobody    (* an unused file descriptor                            *)

ASSUME ServersAssumption ==
  /\ IsFiniteSet(Clients) /\ Nobody \notin Clients
  /\ Cardinality(Clients) < 20 (* thread_id_arr[20] has room for each thread *)
  /\ Messages \in Nat \ {0} /\ PipeCap \in Nat \ {0}

VARIABLES
  program, (* which of the servers                                          *)
  trouble, (* what goes wrong: "quick", accept() may return before the last *)
           (* thread made has copied its argument; "failure", accept() or   *)
           (* pthread_create() may fail; "kill", clients may be killed      *)
  client,  (* each client: "new", "open", "closed", "killed", "refused"     *)
  sent,    (* messages it has written                                       *)
  ends,    (* the messages that are "end"                                   *)
  taken,   (* messages read from its connection                             *)
  pending, (* connections not yet accepted                                  *)
  file,    (* the client of each file descriptor of the server              *)
  main,    (* main(): "accept", "create", "read", "print", "over"           *)
  fd,      (* cl_soc_fd of main(), 0 for -1                                 *)
  buffer,  (* soc_payload of main()                                         *)
  failed,  (* an accept() or pthread_create() has failed                    *)
  thread,  (* each read_thread(): "none", "start", "read", "test", "gone"   *)
  tfd, tbuffer, (* its descriptor and its payload                           *)
  pipe,    (* what waits for server_action_thread()                         *)
  shown,   (* the last message printed of each client                       *)
  again    (* a message was printed a second time                           *)

clients == <<client, sent, ends>>
threads == <<thread, tfd, tbuffer, pipe>>
vars    == <<program, trouble, clients, taken, pending, file, main, fd, buffer, failed,
             threads, shown, again>>

Files   == 1..Cardinality(Clients)
Threads == 1..(Cardinality(Clients) + 1)

Blank == <<Nobody, 0>>
Message == (Clients \X (1..Messages)) \cup {Blank}

Lowest(S) == CHOOSE i \in S : \A j \in S : i <= j

Init ==
  /\ program \in {"one", "each", "many"} /\ trouble \in {"quick", "failure", "kill"}
  /\ (trouble = "quick" => program = "many")
  /\ client = [c \in Clients |-> "new"] /\ sent = [c \in Clients |-> 0]
  /\ ends = {} /\ taken = [c \in Clients |-> 0] /\ pending = <<>>
  /\ file = [f \in Files |-> Nobody]
  /\ main = "accept" /\ fd = 0 /\ buffer = Blank /\ failed = FALSE
  /\ thread = [t \in Threads |-> "none"] /\ tfd = [t \in Threads |-> 0]
  /\ tbuffer = [t \in Threads |-> Blank] /\ pipe = <<>>
  /\ shown = [c \in Clients |-> 0] /\ again = FALSE

Goes(from, to) == main = from /\ main' = to

-----------------------------------------------------------------------------
(* The clients.                                                            *)
Connect(c) ==
  /\ client[c] = "new" /\ main # "over"
  /\ client' = [client EXCEPT ![c] = "open"] /\ pending' = Append(pending, c)
  /\ UNCHANGED <<program, trouble, sent, ends, taken, file, main, fd, buffer, failed,
                 threads, shown, again>>

(* connect() fails without a server; write() to one that is gone raises    *)
(* SIGPIPE.                                                                *)
Refused(c) ==
  /\ client[c] \in {"new", "open"} /\ main = "over"
  /\ client' = [client EXCEPT ![c] = "refused"]
  /\ UNCHANGED <<program, trouble, sent, ends, taken, pending, file, main, fd, buffer,
                 failed, threads, shown, again>>

(* The client of "each" writes its argument and closes; the others write   *)
(* what they are given, that of "many" up to "end".                        *)
Send(c, end) ==
  /\ client[c] = "open" /\ main # "over" /\ sent[c] < Messages
  /\ sent' = [sent EXCEPT ![c] = @ + 1]
  /\ ends' = IF end THEN ends \cup {<<c, sent[c] + 1>>} ELSE ends
  /\ client' = [client EXCEPT ![c] =
                  IF program = "each" \/ (program = "many" /\ end) THEN "closed" ELSE @]
  /\ UNCHANGED <<program, trouble, taken, pending, file, main, fd, buffer, failed,
                 threads, shown, again>>

(* A client is stopped from outside; its connection ends.                  *)
Kill(c) ==
  /\ trouble = "kill" /\ client[c] = "open"
  /\ client' = [client EXCEPT ![c] = "killed"]
  /\ UNCHANGED <<program, trouble, sent, ends, taken, pending, file, main, fd, buffer,
                 failed, threads, shown, again>>

-----------------------------------------------------------------------------
(* read() of a file descriptor: the next message, or, when there will be   *)
(* none or the descriptor is not open, what the buffer held before.        *)
Unread(f) == f # 0 /\ file[f] # Nobody /\ taken[file[f]] < sent[file[f]]
NoMore(f) == f # 0 /\ file[f] # Nobody => client[file[f]] # "open"

Got(f, old) == IF Unread(f) THEN <<file[f], taken[file[f]] + 1>> ELSE old

Takes(f) ==
  \/ Unread(f) /\ taken' = [taken EXCEPT ![file[f]] = @ + 1]
  \/ ~Unread(f) /\ NoMore(f) /\ UNCHANGED taken

(* printf() of a message.                                                  *)
Shows(m) ==
  IF m = Blank
  THEN UNCHANGED <<shown, again>>
  ELSE /\ shown' = [shown EXCEPT ![m[1]] = m[2]]
       /\ again' = (again \/ m[2] <= shown[m[1]])

-----------------------------------------------------------------------------
(* main() of the servers.                                                  *)
Started == \A t \in Threads : thread[t] # "start"

(* The lowest free descriptor is taken.                                    *)
Accept ==
  LET f == Lowest({g \in Files : file[g] = Nobody}) IN
  /\ Goes("accept", IF program = "many" THEN "create" ELSE "read")
  /\ pending # <<>> /\ (trouble = "quick" \/ Started)
  /\ file' = [file EXCEPT ![f] = Head(pending)] /\ fd' = f /\ pending' = Tail(pending)
  /\ UNCHANGED <<program, trouble, clients, taken, buffer, failed, threads, shown, again>>

(* With -1 two servers exit; the third makes a thread that reads from -1.  *)
AcceptFails ==
  /\ trouble = "failure" /\ ~failed /\ failed' = TRUE /\ Started
  /\ Goes("accept", IF program = "many" THEN "create" ELSE "over")
  /\ fd' = 0
  /\ UNCHANGED <<program, trouble, clients, taken, pending, file, buffer, threads, shown,
                 again>>

Create ==
  LET t == Lowest({u \in Threads : thread[u] = "none"}) IN
  /\ Goes("create", "accept") /\ thread' = [thread EXCEPT ![t] = "start"]
  /\ UNCHANGED <<program, trouble, clients, taken, pending, file, fd, buffer, failed, tfd,
                 tbuffer, pipe, shown, again>>

CreateFails ==
  /\ trouble = "failure" /\ ~failed /\ failed' = TRUE /\ Goes("create", "accept")
  /\ UNCHANGED <<program, trouble, clients, taken, pending, file, fd, buffer, threads,
                 shown, again>>

ServerRead ==
  /\ Goes("read", "print") /\ buffer' = Got(fd, buffer) /\ Takes(fd)
  /\ UNCHANGED <<program, trouble, clients, pending, file, fd, failed, threads, shown,
                 again>>

(* Mutant: accept() stands before the loop in "each" too.                  *)
ServerPrint_OneAccept ==
  /\ Shows(buffer) /\ UNCHANGED file
  /\ \/ buffer \in ends /\ Goes("print", "over")
     \/ buffer \notin ends /\ Goes("print", "read")
  /\ UNCHANGED <<program, trouble, clients, taken, pending, fd, buffer, failed, threads>>

(* "end" stops the server; else "each" closes and "one" reads again.       *)
ServerPrint ==
  /\ Shows(buffer)
  /\ \/ buffer \in ends /\ Goes("print", "over") /\ UNCHANGED file
     \/ /\ buffer \notin ends /\ program = "each" /\ Goes("print", "accept")
        /\ file' = [file EXCEPT ![fd] = Nobody]
     \/ buffer \notin ends /\ program = "one" /\ Goes("print", "read") /\ UNCHANGED file
  /\ UNCHANGED <<program, trouble, clients, taken, pending, fd, buffer, failed, threads>>

-----------------------------------------------------------------------------
(* The threads of "many".                                                  *)
ThreadIs(t, from, to) == thread[t] = from /\ thread' = [thread EXCEPT ![t] = to]

(* The argument is the address of main()'s variable.  The payload is not   *)
(* initialised: it may hold what a thread that is gone left on the stack.  *)
CopyArgument(t) ==
  /\ ThreadIs(t, "start", "read") /\ tfd' = [tfd EXCEPT ![t] = fd]
  /\ \E m \in {Blank} \cup {tbuffer[u] : u \in {v \in Threads : thread[v] = "gone"}} :
       tbuffer' = [tbuffer EXCEPT ![t] = m]
  /\ UNCHANGED <<program, trouble, clients, taken, pending, file, main, fd, buffer, failed,
                 pipe, shown, again>>

(* Mutant: the thread reads from main()'s variable in each round.          *)
ThreadRead_Variable(t) ==
  /\ ThreadIs(t, "read", "test")
  /\ tbuffer' = [tbuffer EXCEPT ![t] = Got(fd, @)] /\ Takes(fd)
  /\ UNCHANGED <<program, trouble, clients, pending, file, main, fd, buffer, failed, tfd,
                 pipe, shown, again>>

ThreadRead(t) ==
  /\ ThreadIs(t, "read", "test")
  /\ tbuffer' = [tbuffer EXCEPT ![t] = Got(tfd[t], @)] /\ Takes(tfd[t])
  /\ UNCHANGED <<program, trouble, clients, pending, file, main, fd, buffer, failed, tfd,
                 pipe, shown, again>>

(* "end": close() and no more reading.                                     *)
ThreadEnds(t) ==
  /\ ThreadIs(t, "test", "gone") /\ tbuffer[t] \in ends
  /\ file' = IF tfd[t] = 0 THEN file ELSE [file EXCEPT ![tfd[t]] = Nobody]
  /\ UNCHANGED <<program, trouble, clients, taken, pending, main, fd, buffer, failed, tfd,
                 tbuffer, pipe, shown, again>>

(* Mutant: write() does not wait.                                          *)
SendMessage_NoWait(m) == pipe' = Append(pipe, m)

(* send_message(): write() waits while the pipe is full.                   *)
SendMessage(m) == Len(pipe) < PipeCap /\ pipe' = Append(pipe, m)

Post(t) ==
  /\ ThreadIs(t, "test", "read") /\ tbuffer[t] \notin ends /\ SendMessage(tbuffer[t])
  /\ UNCHANGED <<program, trouble, clients, taken, pending, file, main, fd, buffer, failed,
                 tfd, tbuffer, shown, again>>

(* server_action_thread().                                                 *)
ActionPrint ==
  /\ pipe # <<>> /\ pipe' = Tail(pipe) /\ Shows(Head(pipe))
  /\ UNCHANGED <<program, trouble, clients, taken, pending, file, main, fd, buffer, failed,
                 thread, tfd, tbuffer>>

-----------------------------------------------------------------------------
Client(c) == Connect(c) \/ Refused(c) \/ Kill(c) \/ \E end \in BOOLEAN : Send(c, end)
Main == Accept \/ Create \/ ServerRead \/ ServerPrint
Thread(t) == CopyArgument(t) \/ ThreadRead(t) \/ ThreadEnds(t) \/ Post(t)

Next == \/ Main \/ AcceptFails \/ CreateFails \/ ActionPrint
        \/ \E t \in Threads : Thread(t)
        \/ \E c \in Clients : Client(c)

Spec == Init /\ [][Next]_vars

(* The server's threads run.  A client of "each" writes by itself, the     *)
(* others only when somebody types; nobody need connect or be killed.      *)
FairSpec ==
  /\ Spec /\ WF_vars(Main) /\ WF_vars(ActionPrint)
  /\ \A t \in Threads : WF_vars(Thread(t))
  /\ \A c \in Clients : WF_vars(program = "each" /\ \E end \in BOOLEAN : Send(c, end))

-----------------------------------------------------------------------------
(* Properties.                                                             *)

(* The type invariant: every variable holds what its declaration says.     *)
TypeOK ==
  /\ program \in {"one", "each", "many"} /\ trouble \in {"quick", "failure", "kill"}
  /\ client \in [Clients -> {"new", "open", "closed", "killed", "refused"}]
  /\ sent \in [Clients -> 0..Messages] /\ ends \subseteq Message
  /\ taken \in [Clients -> 0..Messages]
  /\ pending \in Seq(Clients) /\ Len(pending) <= Cardinality(Clients)
  /\ file \in [Files -> Clients \cup {Nobody}]
  /\ main \in {"accept", "create", "read", "print", "over"}
  /\ fd \in Files \cup {0} /\ buffer \in Message /\ failed \in BOOLEAN
  /\ thread \in [Threads -> {"none", "start", "read", "test", "gone"}]
  /\ tfd \in [Threads -> Files \cup {0}] /\ tbuffer \in [Threads -> Message]
  /\ pipe \in Seq(Message) /\ Len(pipe) <= PipeCap
  /\ shown \in [Clients -> 0..Messages] /\ again \in BOOLEAN

Killed == \E c \in Clients : client[c] = "killed"

(* What a client sends is printed in the order in which it was sent, with  *)
(* nothing left out, and once, unless a client was killed: with the        *)
(* threads of "many" as long as each copies its argument before the next   *)
(* connection is accepted.                                                 *)
InOrder ==
  [][trouble # "quick" =>
       /\ \A c \in Clients : shown'[c] \in {shown[c], shown[c] + 1}
       /\ again' => Killed]_vars

(* Every message is printed: of the one client, of each client that gets   *)
(* through before "end", of all clients at the same time.  A client that   *)
(* is silent holds up nobody in "many".                                    *)
Served ==
  \A c \in Clients, n \in 1..Messages :
    /\ trouble # "quick" /\ sent[c] >= n /\ <<c, n>> \notin ends
    /\ program = "one" => file[1] = c
    ~> \/ shown[c] >= n
       \/ main = "over"
       \/ failed \/ (program = "many" /\ Killed)

(* After every connection a thread is made that is given the client as its *)
(* argument (multi_client_rec, line 109): when the threads made so far     *)
(* have started, every open connection is read by a thread, and no two     *)
(* threads read the same.  They are given the address of one variable.     *)
EachItsThread ==
  program = "many" /\ main = "accept" /\ Started /\ ~failed =>
    \A f \in Files : file[f] # Nobody =>
      \E t \in Threads : {u \in Threads : thread[u] \in {"read", "test"} /\ tfd[u] = f} = {t}
=============================================================================
