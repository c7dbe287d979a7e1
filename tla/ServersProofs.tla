---------------------------- MODULE ServersProofs ----------------------------
(***************************************************************************)
(* For any number of clients and messages and any size of the pipe: the    *)
(* socket servers keep their types, so that there is always a descriptor   *)
(* for the next connection, and print what each client sends in order,     *)
(* with nothing left out and, as long as no client is killed, once.        *)
(***************************************************************************)
EXTENDS Servers, FiniteSetTheorems, WellFoundedInduction, TLAPS

(* A client is in one place at most: in the line of connections, or behind *)
(* one descriptor.                                                         *)
Apart ==
  /\ \A i, j \in 1..Len(pending) : pending[i] = pending[j] => i = j
  /\ \A f, g \in Files : file[f] = file[g] /\ file[f] # Nobody => f = g
  /\ \A i \in 1..Len(pending) : client[pending[i]] # "new"
  /\ \A f \in Files : file[f] # Nobody => client[file[f]] # "new"
  /\ \A i \in 1..Len(pending), f \in Files : file[f] # pending[i]

TypeInv == TypeOK /\ Apart

LEMMA LowestIn ==
  ASSUME NEW S, S \subseteq Nat, S # {}
  PROVE  Lowest(S) \in S
<1> DEFINE R == OpToRel(<, Nat)
<1>1. IsWellFoundedOn(R, Nat)
  BY NatLessThanWellFounded
<1>2. \A x, y \in Nat : x < y => <<x, y>> \in R
  BY DEF OpToRel
<1> HIDE DEF R
<1>3. PICK x \in S : \A y \in S : ~ (<<y, x>> \in R)
  BY <1>1, WFMin
<1>4. ASSUME NEW y \in S PROVE x <= y
  <2>1. x \in Nat /\ y \in Nat /\ ~(y < x)
    BY <1>2, <1>3
  <2> QED BY <2>1
<1> QED BY <1>4 DEF Lowest

LEMMA ClientsFinite ==
  /\ IsFiniteSet(Clients) /\ Cardinality(Clients) \in Nat
  /\ IsFiniteSet(Files) /\ Cardinality(Files) = Cardinality(Clients)
  /\ Files \subseteq Nat \ {0}
<1>1. IsFiniteSet(Clients) /\ Cardinality(Clients) \in Nat
  BY ServersAssumption, FS_CardinalityType
<1>2. IsFiniteSet(Files) /\ Cardinality(Files) = Cardinality(Clients)
  BY <1>1, FS_Interval DEF Files
<1> QED BY <1>1, <1>2 DEF Files

(* A line in which nobody stands twice is no longer than there are clients.*)
LEMMA LineIsShort ==
  ASSUME NEW s \in Seq(Clients), \A i, j \in 1..Len(s) : s[i] = s[j] => i = j
  PROVE  Len(s) <= Cardinality(Clients)
<1>1. Len(s) \in Nat /\ s \in [1..Len(s) -> Clients]
  OBVIOUS
<1>2. IsFiniteSet(1..Len(s)) /\ Cardinality(1..Len(s)) = Len(s)
  BY <1>1, FS_Interval
<1>3. ~(Cardinality(Clients) < Cardinality(1..Len(s)))
  BY <1>1, <1>2, ClientsFinite, FS_PigeonHole
<1> QED BY <1>1, <1>2, <1>3, ClientsFinite

(* Were a client behind each descriptor but for one who is behind none,    *)
(* some client would be behind two.                                        *)
LEMMA TooFew ==
  ASSUME NEW c \in Clients, NEW h \in [Files -> Clients \ {c}]
  PROVE  \E f, g \in Files : f # g /\ h[f] = h[g]
<1>1. IsFiniteSet(Clients \ {c}) /\ Cardinality(Clients \ {c}) = Cardinality(Clients) - 1
  BY ClientsFinite, FS_RemoveElement
<1>2. Cardinality(Clients \ {c}) < Cardinality(Files)
  BY <1>1, ClientsFinite
<1>3. \A S, T : IsFiniteSet(S) /\ IsFiniteSet(T) /\ Cardinality(T) < Cardinality(S) =>
        \A k \in [S -> T] : \E x, y \in S : x # y /\ k[x] = k[y]
  BY FS_PigeonHole
<1>4. \A k \in [Files -> Clients \ {c}] : \E x, y \in Files : x # y /\ k[x] = k[y]
  BY <1>1, <1>2, <1>3, ClientsFinite
<1> QED BY <1>4

(* There is a descriptor for who waits to be accepted.                     *)
LEMMA FreeFile ==
  ASSUME TypeInv, pending # <<>>
  PROVE  LET f == Lowest({g \in Files : file[g] = Nobody})
         IN  f \in Files /\ file[f] = Nobody
<1>1. pending \in Seq(Clients) /\ file \in [Files -> Clients \cup {Nobody}]
  BY DEF TypeInv, TypeOK
<1>2. Head(pending) \in Clients /\ \A f \in Files : file[f] # Head(pending)
  BY <1>1 DEF TypeInv, Apart
<1>3. \E f \in Files : file[f] = Nobody
  <2> SUFFICES ASSUME \A f \in Files : file[f] # Nobody PROVE FALSE
    OBVIOUS
  <2>1. file \in [Files -> Clients \ {Head(pending)}]
    BY <1>1, <1>2
  <2>2. \E f, g \in Files : f # g /\ file[f] = file[g]
    BY <1>2, <2>1, TooFew
  <2> QED BY <2>2 DEF TypeInv, Apart
<1>4. {g \in Files : file[g] = Nobody} \subseteq Nat
  BY ClientsFinite
<1> QED BY <1>3, <1>4, LowestIn

-----------------------------------------------------------------------------
(* What the steps are made of keeps its type.                              *)
LEMMA GotType ==
  ASSUME TypeOK, NEW f \in Files \cup {0}, NEW old \in Message, Takes(f)
  PROVE  Got(f, old) \in Message /\ taken' \in [Clients -> 0..Messages]
<1>1. /\ taken \in [Clients -> 0..Messages] /\ sent \in [Clients -> 0..Messages]
      /\ file \in [Files -> Clients \cup {Nobody}] /\ Messages \in Nat
  BY ServersAssumption DEF TypeOK
<1>2. CASE Unread(f)
  <2>1. f \in Files /\ file[f] \in Clients /\ taken[file[f]] + 1 \in 1..Messages
    BY <1>1, <1>2 DEF Unread
  <2> QED BY <1>1, <1>2, <2>1 DEF Got, Takes, Message
<1>3. CASE ~Unread(f)
  BY <1>1, <1>3 DEF Got, Takes
<1> QED BY <1>2, <1>3

LEMMA MessageParts ==
  ASSUME NEW m \in Message
  PROVE  /\ m # Blank <=> m[1] \in Clients
         /\ m[2] \in 0..Messages /\ (m # Blank => m[2] >= 1)
         /\ m = <<m[1], m[2]>>
BY ServersAssumption DEF Message, Blank

LEMMA ShowsType ==
  ASSUME TypeOK, NEW m \in Message, Shows(m)
  PROVE  shown' \in [Clients -> 0..Messages] /\ again' \in BOOLEAN
<1>1. shown \in [Clients -> 0..Messages] /\ again \in BOOLEAN /\ Messages \in Nat
  BY ServersAssumption DEF TypeOK
<1>2. CASE m = Blank
  BY <1>1, <1>2 DEF Shows
<1>3. CASE m # Blank
  BY <1>1, <1>3, MessageParts DEF Shows
<1> QED BY <1>2, <1>3

LEMMA ClientType ==
  ASSUME TypeInv, NEW c \in Clients, Client(c)
  PROVE  TypeInv'
<1>0. /\ client \in [Clients -> {"new", "open", "closed", "killed", "refused"}]
      /\ sent \in [Clients -> 0..Messages] /\ ends \subseteq Message
      /\ pending \in Seq(Clients) /\ Messages \in Nat
      /\ file \in [Files -> Clients \cup {Nobody}]
  BY ServersAssumption DEF TypeInv, TypeOK
<1>1. CASE Connect(c)
  <2>1. client[c] = "new" /\ client' = [client EXCEPT ![c] = "open"] /\ pending' = Append(pending, c)
        /\ UNCHANGED <<program, trouble, sent, ends, taken, file, main, fd, buffer, failed,
                       threads, shown, again>>
    BY <1>1 DEF Connect
  <2>2. pending' \in Seq(Clients) /\ Len(pending') = Len(pending) + 1 /\ pending'[Len(pending) + 1] = c
        /\ \A i \in 1..Len(pending) : pending'[i] = pending[i]
    BY <1>0, <2>1
  <2>3. Apart'
    <3>1. /\ \A i \in 1..Len(pending) : pending[i] \in Clients /\ pending[i] # c
          /\ \A f \in Files : file[f] # c
      BY <1>0, <2>1, ServersAssumption DEF TypeInv, Apart
    <3>2. \A d \in Clients : client'[d] = IF d = c THEN "open" ELSE client[d]
      BY <1>0, <2>1
    <3>3. \A i \in 1..Len(pending') :
            IF i = Len(pending) + 1 THEN pending'[i] = c
            ELSE i \in 1..Len(pending) /\ pending'[i] = pending[i]
      BY <1>0, <2>2
    <3>4. \A i, j \in 1..Len(pending') : pending'[i] = pending'[j] => i = j
      BY <3>1, <3>3 DEF TypeInv, Apart
    <3>5. \A i \in 1..Len(pending') : client'[pending'[i]] # "new"
      BY <3>1, <3>2, <3>3 DEF TypeInv, Apart
    <3>6. \A f \in Files : file'[f] # Nobody => client'[file'[f]] # "new"
      BY <1>0, <2>1, <3>2 DEF TypeInv, Apart
    <3>7. \A i \in 1..Len(pending'), f \in Files : file'[f] # pending'[i]
      BY <2>1, <3>1, <3>3 DEF TypeInv, Apart
    <3> QED BY <2>1, <3>4, <3>5, <3>6, <3>7 DEF TypeInv, Apart
  <2>4. Len(pending') <= Cardinality(Clients)
    BY <2>2, <2>3, LineIsShort DEF Apart
  <2>5. client' \in [Clients -> {"new", "open", "closed", "killed", "refused"}]
    BY <1>0, <2>1
  <2> QED BY <2>1, <2>2, <2>3, <2>4, <2>5 DEF TypeInv, TypeOK, threads
<1>2. CASE Refused(c) \/ Kill(c)
  <2>1. /\ client' \in [Clients -> {"new", "open", "closed", "killed", "refused"}]
        /\ \A d \in Clients : client'[d] = "new" => client[d] = "new"
        /\ UNCHANGED <<program, trouble, sent, ends, taken, pending, file, main, fd, buffer,
                       failed, threads, shown, again>>
    BY <1>0, <1>2 DEF Refused, Kill
  <2>2. Apart'
    BY <1>0, <2>1 DEF TypeInv, Apart
  <2> QED BY <2>1, <2>2 DEF TypeInv, TypeOK, threads
<1>3. ASSUME NEW end \in BOOLEAN, Send(c, end) PROVE TypeInv'
  <2>1. /\ client' \in [Clients -> {"new", "open", "closed", "killed", "refused"}]
        /\ \A d \in Clients : client'[d] = "new" => client[d] = "new"
        /\ sent' \in [Clients -> 0..Messages]
        /\ UNCHANGED <<program, trouble, taken, pending, file, main, fd, buffer,
                       failed, threads, shown, again>>
    BY <1>0, <1>3 DEF Send
  <2>2. ends' \subseteq Message
    <3>1. sent[c] + 1 \in 1..Messages
      BY <1>0, <1>3 DEF Send
    <3> QED BY <1>0, <1>3, <3>1 DEF Send, Message
  <2>3. Apart'
    BY <1>0, <2>1 DEF TypeInv, Apart
  <2> QED BY <2>1, <2>2, <2>3 DEF TypeInv, TypeOK, threads
<1> QED BY <1>1, <1>2, <1>3 DEF Client

(* accept() gives a free descriptor to the first of the line.              *)
LEMMA AcceptParts ==
  ASSUME TypeInv, Accept
  PROVE  /\ pending # <<>> /\ Head(pending) = pending[1] /\ pending[1] \in Clients
         /\ fd' \in Files /\ file[fd'] = Nobody /\ file' = [file EXCEPT ![fd'] = pending[1]]
         /\ pending' \in Seq(Clients) /\ Len(pending') = Len(pending) - 1
         /\ \A i \in 1..Len(pending') :
              i + 1 \in 1..Len(pending) /\ pending'[i] = pending[i + 1]
<1>1. pending \in Seq(Clients) /\ pending # <<>>
  BY DEF Accept, TypeInv, TypeOK
<1>2. Head(pending) = pending[1] /\ pending[1] \in Clients /\ Len(pending) \in Nat \ {0}
  BY <1>1
<1>3. /\ pending' = Tail(pending) /\ fd' = Lowest({g \in Files : file[g] = Nobody})
      /\ file' = [file EXCEPT ![fd'] = Head(pending)]
  BY DEF Accept
<1>4. fd' \in Files /\ file[fd'] = Nobody
  BY <1>1, <1>3, FreeFile
<1> QED BY <1>1, <1>2, <1>3, <1>4

LEMMA AcceptType ==
  ASSUME TypeInv, Accept
  PROVE  TypeInv'
<1>0. /\ client \in [Clients -> {"new", "open", "closed", "killed", "refused"}]
      /\ pending \in Seq(Clients) /\ Len(pending) <= Cardinality(Clients)
      /\ file \in [Files -> Clients \cup {Nobody}] /\ Nobody \notin Clients
  BY ServersAssumption DEF TypeInv, TypeOK
<1>1. /\ main' \in {"create", "read"}
      /\ UNCHANGED <<program, trouble, clients, taken, buffer, failed, threads, shown, again>>
  BY DEF Accept, Goes
<1>2. \A f \in Files : file'[f] = IF f = fd' THEN pending[1] ELSE file[f]
  BY <1>0, AcceptParts
<1>3. 1 \in 1..Len(pending)
  BY <1>0, AcceptParts
<1>4. Apart'
  <2>1. \A i, j \in 1..Len(pending') : pending'[i] = pending'[j] => i = j
    <3> SUFFICES ASSUME NEW i \in 1..Len(pending'), NEW j \in 1..Len(pending'),
                        pending'[i] = pending'[j]
                 PROVE  i = j
      OBVIOUS
    <3>1. i + 1 = j + 1
      BY AcceptParts DEF TypeInv, Apart
    <3> QED BY <3>1
  <2>2. \A f, g \in Files : file'[f] = file'[g] /\ file'[f] # Nobody => f = g
    BY <1>0, <1>2, <1>3 DEF TypeInv, Apart
  <2>3. \A i \in 1..Len(pending') : client'[pending'[i]] # "new"
    BY <1>1, AcceptParts DEF TypeInv, Apart, clients
  <2>4. \A f \in Files : file'[f] # Nobody => client'[file'[f]] # "new"
    BY <1>1, <1>2, <1>3 DEF TypeInv, Apart, clients
  <2>5. \A i \in 1..Len(pending'), f \in Files : file'[f] # pending'[i]
    <3> SUFFICES ASSUME NEW i \in 1..Len(pending'), NEW f \in Files PROVE file'[f] # pending'[i]
      OBVIOUS
    <3>1. i + 1 \in 1..Len(pending) /\ pending'[i] = pending[i + 1] /\ i + 1 # 1
      BY AcceptParts
    <3> QED BY <1>2, <1>3, <3>1 DEF TypeInv, Apart
  <2> QED BY <2>1, <2>2, <2>3, <2>4, <2>5 DEF Apart
<1>5. file' \in [Files -> Clients \cup {Nobody}] /\ Len(pending') <= Cardinality(Clients)
  BY <1>0, AcceptParts, ClientsFinite
<1> QED BY <1>1, <1>4, <1>5, AcceptParts DEF TypeInv, TypeOK, clients, threads

(* Where neither the clients nor the line change and descriptors are only  *)
(* given back, who is apart stays apart.                                   *)
LEMMA StaysApart ==
  ASSUME TypeInv, UNCHANGED <<client, pending>>,
         \A f \in Files : file'[f] \in {file[f], Nobody}
  PROVE  Apart'
<1>1. /\ pending \in Seq(Clients) /\ Nobody \notin Clients
      /\ \A f \in Files : file'[f] # Nobody => file'[f] = file[f]
  BY ServersAssumption DEF TypeInv, TypeOK
<1>2. \A i \in 1..Len(pending), f \in Files : file'[f] # pending[i]
  BY <1>1 DEF TypeInv, Apart
<1>3. \A f, g \in Files : file'[f] = file'[g] /\ file'[f] # Nobody => f = g
  BY <1>1 DEF TypeInv, Apart
<1>4. \A f \in Files : file'[f] # Nobody => client[file'[f]] # "new"
  BY <1>1 DEF TypeInv, Apart
<1> QED BY <1>2, <1>3, <1>4 DEF TypeInv, Apart

LEMMA MainType ==
  ASSUME TypeInv, AcceptFails \/ Create \/ CreateFails \/ ServerRead \/ ServerPrint
  PROVE  TypeInv'
<1>1. CASE AcceptFails \/ CreateFails
  <2>1. /\ main' \in {"accept", "create", "over"} /\ fd' \in Files \cup {0} /\ failed' = TRUE
        /\ UNCHANGED <<program, trouble, clients, taken, pending, file, buffer, threads, shown,
                       again>>
    BY <1>1 DEF AcceptFails, CreateFails, Goes, TypeInv, TypeOK
  <2> QED BY <2>1, StaysApart DEF TypeInv, TypeOK, clients, threads
<1>2. CASE Create
  <2>1. /\ thread \in [Threads -> {"none", "start", "read", "test", "gone"}]
        /\ \E t : thread' = [thread EXCEPT ![t] = "start"]
    BY <1>2 DEF Create, TypeInv, TypeOK
  <2>2. thread' \in [Threads -> {"none", "start", "read", "test", "gone"}]
    BY <2>1
  <2> QED BY <1>2, <2>2, StaysApart DEF Create, Goes, TypeInv, TypeOK, clients
<1>3. CASE ServerRead
  <2>1. buffer' \in Message /\ taken' \in [Clients -> 0..Messages]
    BY <1>3, GotType DEF ServerRead, TypeInv, TypeOK
  <2> QED BY <1>3, <2>1, StaysApart DEF ServerRead, Goes, TypeInv, TypeOK, clients, threads
<1>4. CASE ServerPrint
  <2>1. shown' \in [Clients -> 0..Messages] /\ again' \in BOOLEAN
    BY <1>4, ShowsType DEF ServerPrint, TypeInv, TypeOK
  <2>2. /\ file \in [Files -> Clients \cup {Nobody}]
        /\ file' = file \/ file' = [file EXCEPT ![fd] = Nobody]
        /\ main' \in {"over", "accept", "read"}
    BY <1>4 DEF ServerPrint, Goes, TypeInv, TypeOK
  <2>3. file' \in [Files -> Clients \cup {Nobody}] /\ \A f \in Files : file'[f] \in {file[f], Nobody}
    BY <2>2
  <2> QED BY <1>4, <2>1, <2>2, <2>3, StaysApart
     DEF ServerPrint, TypeInv, TypeOK, clients, threads
<1> QED BY <1>1, <1>2, <1>3, <1>4

(* The payload of a thread that starts is blank, or was another thread's.  *)
LEMMA CopyParts ==
  ASSUME TypeOK, NEW t \in Threads, CopyArgument(t)
  PROVE  /\ thread[t] = "start" /\ thread' = [thread EXCEPT ![t] = "read"]
         /\ tfd' = [tfd EXCEPT ![t] = fd]
         /\ \E m \in Message :
              /\ tbuffer' = [tbuffer EXCEPT ![t] = m]
              /\ m = Blank \/ \E u \in Threads : thread[u] = "gone" /\ m = tbuffer[u]
<1>1. tbuffer \in [Threads -> Message] /\ Blank \in Message
  BY DEF TypeOK, Message
<1>2. PICK m \in {Blank} \cup {tbuffer[u] : u \in {v \in Threads : thread[v] = "gone"}} :
        tbuffer' = [tbuffer EXCEPT ![t] = m]
  BY DEF CopyArgument
<1>3. m \in Message /\ (m = Blank \/ \E u \in Threads : thread[u] = "gone" /\ m = tbuffer[u])
  BY <1>1, <1>2
<1> QED BY <1>2, <1>3 DEF CopyArgument, ThreadIs

LEMMA ThreadType ==
  ASSUME TypeInv, NEW t \in Threads, Thread(t)
  PROVE  TypeInv'
<1>0. /\ thread \in [Threads -> {"none", "start", "read", "test", "gone"}]
      /\ tfd \in [Threads -> Files \cup {0}] /\ fd \in Files \cup {0}
      /\ tbuffer \in [Threads -> Message] /\ file \in [Files -> Clients \cup {Nobody}]
      /\ pipe \in Seq(Message) /\ Len(pipe) <= PipeCap /\ PipeCap \in Nat
  BY ServersAssumption DEF TypeInv, TypeOK
<1>1. CASE CopyArgument(t)
  <2>1. tbuffer' \in [Threads -> Message] /\ tfd' \in [Threads -> Files \cup {0}]
        /\ thread' \in [Threads -> {"none", "start", "read", "test", "gone"}]
    BY <1>0, <1>1, CopyParts DEF TypeInv
  <2> QED BY <1>1, <2>1, StaysApart DEF CopyArgument, TypeInv, TypeOK, clients
<1>2. CASE ThreadRead(t)
  <2>1. Got(tfd[t], tbuffer[t]) \in Message /\ taken' \in [Clients -> 0..Messages]
    BY <1>0, <1>2, GotType DEF ThreadRead, TypeInv
  <2>2. thread' \in [Threads -> {"none", "start", "read", "test", "gone"}]
        /\ tbuffer' \in [Threads -> Message]
    BY <1>0, <1>2, <2>1 DEF ThreadRead, ThreadIs
  <2> QED BY <1>2, <2>1, <2>2, StaysApart DEF ThreadRead, TypeInv, TypeOK, clients
<1>3. CASE ThreadEnds(t)
  <2>1. thread' \in [Threads -> {"none", "start", "read", "test", "gone"}]
        /\ file' \in [Files -> Clients \cup {Nobody}]
        /\ \A f \in Files : file'[f] \in {file[f], Nobody}
    BY <1>0, <1>3 DEF ThreadEnds, ThreadIs
  <2> QED BY <1>3, <2>1, StaysApart DEF ThreadEnds, TypeInv, TypeOK, clients
<1>4. CASE Post(t)
  <2>1. thread' \in [Threads -> {"none", "start", "read", "test", "gone"}]
        /\ pipe' \in Seq(Message) /\ Len(pipe') <= PipeCap
    BY <1>0, <1>4 DEF Post, ThreadIs, SendMessage
  <2> QED BY <1>4, <2>1, StaysApart DEF Post, TypeInv, TypeOK, clients
<1> QED BY <1>1, <1>2, <1>3, <1>4 DEF Thread

LEMMA ActionType ==
  ASSUME TypeInv, ActionPrint
  PROVE  TypeInv'
<1>1. /\ pipe \in Seq(Message) /\ pipe # <<>> /\ Len(pipe) <= PipeCap /\ PipeCap \in Nat
      /\ pipe' = Tail(pipe) /\ Shows(Head(pipe))
  BY ServersAssumption DEF ActionPrint, TypeInv, TypeOK
<1>2. Head(pipe) \in Message /\ pipe' \in Seq(Message) /\ Len(pipe') <= PipeCap
  BY <1>1
<1>3. shown' \in [Clients -> 0..Messages] /\ again' \in BOOLEAN
  BY <1>1, <1>2, ShowsType DEF TypeInv
<1> QED BY <1>2, <1>3, StaysApart DEF ActionPrint, TypeInv, TypeOK, clients

LEMMA InitType == Init => TypeInv
<1> SUFFICES ASSUME Init PROVE TypeInv
  OBVIOUS
<1>1. Messages \in Nat /\ PipeCap \in Nat /\ Blank \in Message /\ Cardinality(Clients) \in Nat
  BY ServersAssumption, ClientsFinite DEF Message
<1>2. Len(pending) = 0 /\ \A f \in Files : file[f] = Nobody
  BY DEF Init
<1>3. Apart
  BY <1>2 DEF Apart
<1>4. TypeOK
  <2>1. program \in {"one", "each", "many"} /\ trouble \in {"quick", "failure", "kill"}
    BY DEF Init
  <2>2. /\ client \in [Clients -> {"new", "open", "closed", "killed", "refused"}]
        /\ ends \subseteq Message /\ again \in BOOLEAN
    BY DEF Init
  <2>6. /\ sent \in [Clients -> 0..Messages] /\ taken \in [Clients -> 0..Messages]
        /\ shown \in [Clients -> 0..Messages]
    BY <1>1 DEF Init
  <2>3. /\ pending \in Seq(Clients) /\ Len(pending) <= Cardinality(Clients)
        /\ file \in [Files -> Clients \cup {Nobody}]
    BY <1>1, <1>2 DEF Init
  <2>4. /\ main \in {"accept", "create", "read", "print", "over"} /\ fd \in Files \cup {0}
        /\ buffer \in Message /\ failed \in BOOLEAN
    BY <1>1 DEF Init
  <2>5. /\ thread \in [Threads -> {"none", "start", "read", "test", "gone"}]
        /\ tfd \in [Threads -> Files \cup {0}] /\ tbuffer \in [Threads -> Message]
        /\ pipe \in Seq(Message) /\ Len(pipe) <= PipeCap
    BY <1>1 DEF Init
  <2> QED BY <2>1, <2>2, <2>3, <2>4, <2>5, <2>6 DEF TypeOK
<1> QED BY <1>3, <1>4 DEF TypeInv

LEMMA TypeStep == TypeInv /\ [Next]_vars => TypeInv'
<1> SUFFICES ASSUME TypeInv, [Next]_vars PROVE TypeInv'
  OBVIOUS
<1>1. CASE UNCHANGED vars
  BY <1>1 DEF vars, clients, threads, TypeInv, TypeOK, Apart
<1>2. CASE Main \/ AcceptFails \/ CreateFails
  BY <1>2, AcceptType, MainType DEF Main
<1>3. ASSUME NEW t \in Threads, Thread(t) PROVE TypeInv'
  BY <1>3, ThreadType
<1>4. ASSUME NEW c \in Clients, Client(c) PROVE TypeInv'
  BY <1>4, ClientType
<1> QED BY <1>1, <1>2, <1>3, <1>4, ActionType DEF Next

(* The variables keep their types whatever goes wrong; in particular the   *)
(* line and the descriptors hold no more than there are clients, so that   *)
(* accept() always finds a descriptor, and the pipe never overflows.       *)
THEOREM ServersTypeCorrect == Spec => []TypeOK
<1>1. TypeInv => TypeOK
  BY DEF TypeInv
<1> QED BY <1>1, InitType, TypeStep, PTL DEF Spec

-----------------------------------------------------------------------------
(* What is known of a client.                                              *)
ClientOk(c) ==
  /\ taken[c] <= sent[c]
  /\ client[c] = "new" => sent[c] = 0
  /\ client[c] = "refused" => main = "over"
  /\ client[c] = "closed" => \/ program = "each" /\ sent[c] >= 1
                             \/ program = "many" /\ <<c, sent[c]>> \in ends

ClientsOk ==
  /\ \A c \in Clients : ClientOk(c)
  /\ \A i \in 1..Len(pending) : taken[pending[i]] = 0
  /\ \A m \in ends : m # Blank /\ m[2] <= sent[m[1]]

(* "one" and "each": what main() has read it has printed, or is about to;  *)
(* what it prints again it has of a client that was killed.                *)
Due(c) == main = "print" /\ buffer = <<c, taken[c]>> /\ taken[c] = shown[c] + 1

MainOk ==
  /\ main # "create" /\ pipe = <<>> /\ \A t \in Threads : thread[t] = "none"
  /\ main \in {"read", "print"} => fd # 0 /\ file[fd] # Nobody
  /\ program = "each" /\ main = "read" => taken[file[fd]] = 0
  /\ \A c \in Clients : taken[c] = shown[c] \/ Due(c)
  /\ buffer # Blank => \/ Due(buffer[1])
                       \/ buffer[2] = shown[buffer[1]] /\ (main = "print" => Killed)

(* "many": the message <<c, n>> behind the first k of the pipe is the one  *)
(* that follows what is shown of c and what is before it, or the same      *)
(* again if a client was killed.                                           *)
Arrives(c, n, k) ==
  /\ shown[c] <= n /\ \A j \in 1..k : pipe[j][1] = c => pipe[j][2] <= n
  /\ n > shown[c] + 1 => \E j \in 1..k : pipe[j] = <<c, n - 1>>
  /\ Killed \/ (n # shown[c] /\ \A j \in 1..k : pipe[j] # <<c, n>>)

(* Nothing of c is past what was taken from its connection, and what was   *)
(* taken last is printed or in the pipe.                                   *)
Upto(c) ==
  /\ shown[c] <= taken[c]
  /\ \A j \in 1..Len(pipe) : pipe[j][1] = c => pipe[j][2] <= taken[c]

Settled(c) == taken[c] = shown[c] \/ \E j \in 1..Len(pipe) : pipe[j] = <<c, taken[c]>>

Reading(t) == thread[t] \in {"read", "test"}
Idle(c)    == Settled(c) /\ <<c, taken[c]>> \notin ends
Stale(t)   == tbuffer[t] \in ends \cup {Blank}

(* A thread that has read, before it tests what it has.                    *)
Fresh(t, c) == /\ thread[t] = "test" /\ tbuffer[t] = <<c, taken[c]>> /\ taken[c] >= 1
               /\ Arrives(c, taken[c], Len(pipe))

(* A thread at the connection of c: all of c that was taken is on its way. *)
Follows(t, c) ==
  /\ c # Nobody
  /\ \/ Fresh(t, c)
     \/ Idle(c) /\ (Stale(t) \/ (thread[t] = "read" /\ tbuffer[t] = <<c, taken[c]>>))

ThreadOk(t) ==
  /\ thread[t] = "gone" => tbuffer[t] \in ends
  /\ Reading(t) /\ tfd[t] = 0 => Stale(t)
  /\ Reading(t) /\ tfd[t] # 0 => Follows(t, file[tfd[t]])

(* The connection for which a thread is to be made, or starts.             *)
NewConnection ==
  (main = "create" \/ ~Started) /\ fd # 0 =>
    /\ file[fd] # Nobody /\ taken[file[fd]] = 0
    /\ \A u \in Threads : Reading(u) => tfd[u] # fd

(* One thread starts at a time, and no two read the same connection.       *)
OneEach ==
  /\ main \in {"accept", "create"} /\ (main = "create" => Started)
  /\ \A t, u \in Threads : thread[t] = "start" /\ thread[u] = "start" => t = u
  /\ \A t, u \in Threads : Reading(t) /\ Reading(u) /\ tfd[t] = tfd[u] /\ tfd[t] # 0 => t = u
  /\ NewConnection

PipeOk ==
  /\ \A c \in Clients : Upto(c)
  /\ \A i \in 1..Len(pipe) : pipe[i] # Blank => Arrives(pipe[i][1], pipe[i][2], i - 1)

ManyOk == OneEach /\ PipeOk /\ \A t \in Threads : ThreadOk(t)

FlowInv ==
  /\ ClientsOk
  /\ trouble # "quick" =>
       /\ again => Killed
       /\ program # "many" => MainOk
       /\ program = "many" => ManyOk

ServersInv == TypeInv /\ FlowInv

-----------------------------------------------------------------------------
(* The steps of the clients.                                               *)

LEMMA Numbers ==
  ASSUME ServersInv, NEW c \in Clients
  PROVE  taken[c] \in Nat /\ sent[c] \in Nat /\ shown[c] \in Nat /\ taken[c] <= sent[c]
<1>1. taken \in [Clients -> 0..Messages] /\ sent \in [Clients -> 0..Messages]
      /\ shown \in [Clients -> 0..Messages] /\ Messages \in Nat
  BY ServersAssumption DEF ServersInv, TypeInv, TypeOK
<1>2. taken[c] \in Nat /\ sent[c] \in Nat /\ shown[c] \in Nat
  BY <1>1
<1>3. ClientOk(c)
  BY DEF ServersInv, FlowInv, ClientsOk
<1> QED BY <1>2, <1>3 DEF ClientOk

(* "end" is written after what was taken; it is never taken back, and the  *)
(* killed stay killed.                                                     *)
LEMMA ClientParts ==
  ASSUME ServersInv, NEW c \in Clients, Client(c)
  PROVE  /\ ClientsOk' /\ ends \subseteq ends' /\ (Killed => Killed')
         /\ \A d \in Clients : <<d, taken[d]>> \in ends' => <<d, taken[d]>> \in ends
         /\ UNCHANGED <<program, trouble, taken, file, main, fd, buffer, failed, threads,
                        shown, again>>
<1>0. /\ client \in [Clients -> {"new", "open", "closed", "killed", "refused"}]
      /\ sent \in [Clients -> 0..Messages] /\ ends \subseteq Message /\ Messages \in Nat
      /\ taken \in [Clients -> 0..Messages] /\ pending \in Seq(Clients)
      /\ ClientsOk /\ \A m \in Message : m # Blank => m[1] \in Clients
      /\ \A d \in Clients : taken[d] \in Nat /\ sent[d] \in Nat
  BY ServersAssumption, MessageParts DEF ServersInv, TypeInv, TypeOK, FlowInv
<1>1. CASE Connect(c)
  <2>1. /\ client' = [client EXCEPT ![c] = "open"] /\ pending' = Append(pending, c)
        /\ client[c] = "new" /\ UNCHANGED <<sent, ends, taken, main, program>>
    BY <1>1 DEF Connect
  <2>2. taken[c] = 0
    <3>1. sent[c] = 0 /\ taken[c] <= sent[c] /\ taken[c] \in Nat
      BY <1>0, <2>1 DEF ClientsOk, ClientOk
    <3> QED BY <3>1
  <2>3. \A i \in 1..Len(pending') : taken[pending'[i]] = 0
    BY <1>0, <2>1, <2>2 DEF ClientsOk
  <2>4. \A d \in Clients : ClientOk(d)'
    BY <1>0, <2>1 DEF ClientsOk, ClientOk
  <2>5. Killed => Killed'
    BY <1>0, <2>1 DEF Killed
  <2> QED BY <1>0, <1>1, <2>1, <2>3, <2>4, <2>5 DEF ClientsOk, Connect
<1>2. CASE Refused(c) \/ Kill(c)
  <2>1. /\ client' \in {[client EXCEPT ![c] = "refused"], [client EXCEPT ![c] = "killed"]}
        /\ client' = [client EXCEPT ![c] = "refused"] => main = "over"
        /\ client[c] \in {"new", "open"} /\ UNCHANGED <<sent, ends, taken, pending, main, program>>
    BY <1>0, <1>2 DEF Refused, Kill
  <2>2. \A d \in Clients : ClientOk(d)'
    BY <1>0, <2>1 DEF ClientsOk, ClientOk
  <2>3. Killed => Killed'
    BY <1>0, <2>1 DEF Killed
  <2> QED BY <1>0, <1>2, <2>1, <2>2, <2>3 DEF ClientsOk, Refused, Kill
<1>3. ASSUME NEW end \in BOOLEAN, Send(c, end)
      PROVE  /\ ClientsOk' /\ ends \subseteq ends' /\ (Killed => Killed')
             /\ \A d \in Clients : <<d, taken[d]>> \in ends' => <<d, taken[d]>> \in ends
  <2>1. /\ client[c] = "open" /\ sent' = [sent EXCEPT ![c] = @ + 1]
        /\ ends' = IF end THEN ends \cup {<<c, sent[c] + 1>>} ELSE ends
        /\ client' \in {client, [client EXCEPT ![c] = "closed"]}
        /\ client'[c] = "closed" => program = "each" \/ (program = "many" /\ end)
        /\ UNCHANGED <<program, taken, pending, main>>
    BY <1>0, <1>3 DEF Send
  <2>2. \A d \in Clients : /\ d # c => client'[d] = client[d] /\ sent'[d] = sent[d]
                           /\ d = c => client'[d] \in {"open", "closed"} /\ sent'[d] = sent[d] + 1
    BY <1>0, <2>1
  <2>3. \A d \in Clients : ClientOk(d)'
    <3> SUFFICES ASSUME NEW d \in Clients PROVE ClientOk(d)'
      OBVIOUS
    <3>1. CASE d # c
      BY <1>0, <2>1, <2>2, <3>1 DEF ClientsOk, ClientOk
    <3>2. CASE d = c
      <4>1. /\ taken[c] <= sent[c] /\ taken[c] \in Nat /\ sent[c] \in Nat
            /\ client'[c] \in {"open", "closed"} /\ sent'[c] = sent[c] + 1
        BY <1>0, <2>2 DEF ClientsOk, ClientOk
      <4>2. taken'[c] <= sent'[c] /\ sent'[c] >= 1
        BY <2>1, <4>1
      <4>3. client'[c] = "closed" =>
              program' = "each" \/ (program' = "many" /\ <<c, sent'[c]>> \in ends')
        BY <2>1, <4>1
      <4> QED BY <3>2, <4>1, <4>2, <4>3 DEF ClientOk
    <3> QED BY <3>1, <3>2
  <2>4. \A m \in ends' : m # Blank /\ m[2] <= sent'[m[1]]
    <3> SUFFICES ASSUME NEW m \in ends' PROVE m # Blank /\ m[2] <= sent'[m[1]]
      OBVIOUS
    <3>1. CASE m \in ends
      BY <1>0, <2>2, <3>1, MessageParts DEF ClientsOk
    <3>2. CASE m = <<c, sent[c] + 1>>
      BY <1>0, <2>2, <3>2, ServersAssumption DEF Blank
    <3> QED BY <2>1, <3>1, <3>2
  <2>5. \A d \in Clients : <<d, taken[d]>> \in ends' => <<d, taken[d]>> \in ends
    <3>1. \A d \in Clients : taken[d] # sent[d] + 1
      BY Numbers
    <3> QED BY <2>1, <3>1
  <2>6. Killed => Killed'
    BY <2>1, <2>2 DEF Killed
  <2> QED BY <1>0, <2>1, <2>3, <2>4, <2>5, <2>6 DEF ClientsOk
<1> QED BY <1>1, <1>2, <1>3 DEF Client, Connect, Refused, Kill, Send

(* A client that writes, ends or is killed disturbs nothing that is known  *)
(* of the servers.                                                         *)
LEMMA ClientStep ==
  ASSUME ServersInv, NEW c \in Clients, Client(c)
  PROVE  FlowInv'
<1> DEFINE Same == UNCHANGED <<program, trouble, taken, file, main, fd, buffer, failed, threads,
                               shown, again>>
<1>1. /\ ClientsOk' /\ ends \subseteq ends' /\ (Killed => Killed')
      /\ \A d \in Clients : <<d, taken[d]>> \in ends' => <<d, taken[d]>> \in ends
      /\ Same
  BY ClientParts
<1>2. ASSUME MainOk PROVE MainOk'
  BY <1>1, <1>2 DEF MainOk, Due, threads
<1>3. ASSUME ManyOk PROVE ManyOk'
  <2>1. OneEach'
    BY <1>1, <1>3 DEF ManyOk, OneEach, NewConnection, Started, Reading, threads
  <2>2. \A d, n, k : Arrives(d, n, k) => Arrives(d, n, k)'
    BY <1>1 DEF Arrives, threads
  <2>3. PipeOk'
    BY <1>1, <1>3, <2>2 DEF ManyOk, PipeOk, Upto, threads
  <2>4. ASSUME NEW t \in Threads PROVE ThreadOk(t)'
    <3>1. ThreadOk(t) /\ tfd[t] \in Files \cup {0}
          /\ \A f \in Files : file[f] # Nobody => file[f] \in Clients
      BY <1>3 DEF ManyOk, ServersInv, TypeInv, TypeOK
    <3>2. \A d : Fresh(t, d) => Fresh(t, d)'
      BY <1>1, <2>2 DEF Fresh, threads
    <3>3. \A d \in Clients : Idle(d) => Idle(d)'
      BY <1>1 DEF Idle, Settled, threads
    <3>4. Stale(t) => Stale(t)'
      BY <1>1 DEF Stale, threads
    <3> QED BY <1>1, <3>1, <3>2, <3>3, <3>4 DEF ThreadOk, Follows, Reading, threads
  <2> QED BY <2>1, <2>3, <2>4 DEF ManyOk
<1> QED BY <1>1, <1>2, <1>3 DEF ServersInv, FlowInv

-----------------------------------------------------------------------------
(* The steps of the servers.                                               *)

(* read() takes a message only from a connection that was accepted, and    *)
(* only one that was written.                                              *)
LEMMA TakesParts ==
  ASSUME ServersInv, NEW f \in Files \cup {0}, Takes(f)
  PROVE  \/ /\ Unread(f) /\ f \in Files /\ file[f] \in Clients
            /\ taken[file[f]] + 1 <= sent[file[f]]
            /\ taken' = [taken EXCEPT ![file[f]] = @ + 1]
         \/ ~Unread(f) /\ NoMore(f) /\ taken' = taken
<1>1. /\ file \in [Files -> Clients \cup {Nobody}]
      /\ \A c \in Clients : taken[c] \in Nat /\ sent[c] \in Nat
  BY Numbers DEF ServersInv, TypeInv, TypeOK
<1>2. CASE Unread(f)
  <2>1. f \in Files /\ file[f] \in Clients /\ taken[file[f]] < sent[file[f]]
    BY <1>1, <1>2 DEF Unread
  <2>2. taken[file[f]] + 1 <= sent[file[f]]
    BY <1>1, <2>1
  <2> QED BY <1>2, <2>1, <2>2 DEF Takes
<1> QED BY <1>2 DEF Takes

LEMMA ServerClients ==
  ASSUME ServersInv, Main \/ AcceptFails \/ CreateFails \/ ActionPrint \/ \E t \in Threads : Thread(t)
  PROVE  ClientsOk'
<1>0. /\ taken \in [Clients -> 0..Messages] /\ pending \in Seq(Clients) /\ ClientsOk
      /\ fd \in Files \cup {0} /\ tfd \in [Threads -> Files \cup {0}]
  BY DEF ServersInv, TypeInv, TypeOK, FlowInv
<1>1. UNCHANGED <<program, client, sent, ends>> /\ (main = "over" => main' = "over")
  BY DEF Main, Accept, Create, ServerRead, ServerPrint, AcceptFails, CreateFails,
     ActionPrint, Thread, CopyArgument, ThreadRead, ThreadEnds, Post, Goes, clients
<1>2. \A c \in Clients : taken'[c] <= sent[c]
  <2>1. CASE UNCHANGED taken
    BY <2>1, Numbers
  <2>2. CASE ServerRead
    BY <1>0, <2>2, TakesParts, Numbers DEF ServerRead
  <2>3. ASSUME NEW t \in Threads, ThreadRead(t) PROVE \A c \in Clients : taken'[c] <= sent[c]
    <3>1. tfd[t] \in Files \cup {0} /\ Takes(tfd[t])
      BY <1>0, <2>3 DEF ThreadRead
    <3> QED BY <1>0, <3>1, TakesParts, Numbers
  <2>4. UNCHANGED taken \/ ServerRead \/ \E t \in Threads : ThreadRead(t)
    BY DEF Main, Accept, Create, ServerPrint, AcceptFails, CreateFails, ActionPrint,
       Thread, CopyArgument, ThreadEnds, Post
  <2> QED BY <2>1, <2>2, <2>3, <2>4
<1>3. \A i \in 1..Len(pending) : taken'[pending[i]] = taken[pending[i]]
  <2>1. CASE UNCHANGED taken
    BY <2>1
  <2>2. ASSUME NEW f \in Files \cup {0}, Takes(f)
        PROVE  \A i \in 1..Len(pending) : taken'[pending[i]] = taken[pending[i]]
    <3> SUFFICES ASSUME NEW i \in 1..Len(pending) PROVE taken'[pending[i]] = taken[pending[i]]
      OBVIOUS
    <3>1. pending[i] \in Clients /\ (f \in Files => file[f] # pending[i])
      BY <1>0 DEF ServersInv, TypeInv, Apart
    <3> QED BY <1>0, <2>2, <3>1, TakesParts
  <2>3. UNCHANGED taken \/ \E f \in Files \cup {0} : Takes(f)
    BY <1>0 DEF Main, Accept, Create, ServerRead, ServerPrint, AcceptFails, CreateFails,
       ActionPrint, Thread, CopyArgument, ThreadRead, ThreadEnds, Post
  <2> QED BY <2>1, <2>2, <2>3
<1>4. \A i \in 1..Len(pending') : taken'[pending'[i]] = 0
  <2>1. CASE Accept
    <3> SUFFICES ASSUME NEW i \in 1..Len(pending') PROVE taken'[pending'[i]] = 0
      OBVIOUS
    <3>1. i + 1 \in 1..Len(pending) /\ pending'[i] = pending[i + 1]
      BY <2>1, AcceptParts DEF ServersInv
    <3> QED BY <1>0, <1>3, <3>1 DEF ClientsOk
  <2>2. Accept \/ UNCHANGED pending
    BY DEF Main, Create, ServerRead, ServerPrint, AcceptFails, CreateFails, ActionPrint,
       Thread, CopyArgument, ThreadRead, ThreadEnds, Post
  <2> QED BY <1>0, <1>3, <2>1, <2>2 DEF ClientsOk
<1> QED BY <1>0, <1>1, <1>2, <1>4 DEF ClientsOk, ClientOk

(* Who is not killed has more to send, or "end" is the last that was taken *)
(* from him.                                                               *)
LEMMA NothingLeft ==
  ASSUME ServersInv, NEW f \in Files, file[f] # Nobody, ~Unread(f), NoMore(f), main # "over",
         program = "many" => <<file[f], taken[file[f]]>> \notin ends,
         program = "each" => taken[file[f]] = 0
  PROVE  Killed
<1> DEFINE c == file[f]
<1>1. c \in Clients /\ client[c] \in {"new", "open", "closed", "killed", "refused"}
      /\ client[c] # "new" /\ f # 0
  BY ClientsFinite DEF ServersInv, TypeInv, TypeOK, Apart
<1>2. taken[c] = sent[c]
  BY <1>1, Numbers DEF Unread
<1>3. ClientOk(c) /\ client[c] # "open"
  BY <1>1 DEF ServersInv, FlowInv, ClientsOk, NoMore
<1>4. client[c] # "closed"
  BY <1>2, <1>3 DEF ClientOk
<1> QED BY <1>1, <1>3, <1>4 DEF ClientOk, Killed

(* A message that may be printed: the next of its client, or, when someone *)
(* was killed, the same again.                                             *)
NextOrAgain(m) ==
  m # Blank => \/ m[2] = shown[m[1]] + 1
               \/ m[2] = shown[m[1]] /\ Killed

Ordered ==
  /\ \A c \in Clients : shown'[c] \in {shown[c], shown[c] + 1}
  /\ again' => again \/ Killed

LEMMA ShowsInOrder ==
  ASSUME ServersInv, NEW m \in Message, Shows(m), NextOrAgain(m)
  PROVE  Ordered /\ \A c \in Clients : shown'[c] = IF c = m[1] THEN m[2] ELSE shown[c]
<1>0. shown \in [Clients -> 0..Messages] /\ \A c \in Clients : shown[c] \in Nat
  BY Numbers DEF ServersInv, TypeInv, TypeOK
<1>1. CASE m = Blank
  <2>1. m[1] \notin Clients
    BY <1>1, ServersAssumption DEF Blank
  <2> QED BY <1>1, <2>1 DEF Shows, Ordered
<1>2. CASE m # Blank
  <2>1. /\ m[1] \in Clients /\ m[2] \in {shown[m[1]], shown[m[1]] + 1}
        /\ shown' = [shown EXCEPT ![m[1]] = m[2]]
        /\ again' = (again \/ m[2] <= shown[m[1]])
    BY <1>2, MessageParts DEF Shows, NextOrAgain
  <2>2. \A c \in Clients : shown'[c] = IF c = m[1] THEN m[2] ELSE shown[c]
    BY <1>0, <2>1
  <2>3. \A c \in Clients : shown'[c] \in {shown[c], shown[c] + 1}
    BY <2>1, <2>2
  <2>4. m[2] <= shown[m[1]] => Killed
    BY <1>0, <1>2, <2>1 DEF NextOrAgain
  <2> QED BY <2>1, <2>2, <2>3, <2>4 DEF Ordered
<1> QED BY <1>1, <1>2

(* main() of the servers without threads.                                  *)
LEMMA MainReads ==
  ASSUME ServersInv, trouble # "quick", program # "many", ServerRead
  PROVE  MainOk'
<1>0. /\ MainOk /\ taken \in [Clients -> 0..Messages] /\ fd \in Files \cup {0}
      /\ program \in {"one", "each"}
  BY DEF ServersInv, FlowInv, TypeInv, TypeOK
<1>1. /\ main = "read" /\ main' = "print" /\ Takes(fd) /\ buffer' = Got(fd, buffer)
      /\ UNCHANGED <<program, client, pipe, thread, file, fd, shown>>
  BY DEF ServerRead, Goes, clients, threads
<1>2. fd \in Files /\ file[fd] # Nobody /\ (program = "each" => taken[file[fd]] = 0)
  BY <1>0, <1>1 DEF MainOk
<1>3. \A c \in Clients : taken[c] = shown[c]
  BY <1>0, <1>1 DEF MainOk, Due
<1>4. CASE Unread(fd)
  <2>1. /\ file[fd] \in Clients /\ taken' = [taken EXCEPT ![file[fd]] = @ + 1]
        /\ buffer' = <<file[fd], taken[file[fd]] + 1>>
    BY <1>1, <1>2, <1>4, TakesParts DEF Got
  <2>2. Due(file[fd])' /\ buffer'[1] = file[fd]
    BY <1>0, <1>1, <1>3, <2>1 DEF Due
  <2>3. \A c \in Clients : taken'[c] = shown'[c] \/ Due(c)'
    BY <1>0, <1>1, <1>3, <2>1, <2>2
  <2> QED BY <1>0, <1>1, <1>2, <2>2, <2>3 DEF MainOk
<1>5. CASE ~Unread(fd)
  <2>1. NoMore(fd) /\ taken' = taken /\ buffer' = buffer
    BY <1>0, <1>1, <1>5, TakesParts DEF Got
  <2>2. Killed'
    BY <1>0, <1>1, <1>2, <1>5, <2>1, NothingLeft DEF Killed
  <2>3. buffer # Blank => buffer[2] = shown[buffer[1]]
    BY <1>0, <1>1 DEF MainOk, Due
  <2> QED BY <1>0, <1>1, <1>2, <1>3, <2>1, <2>2, <2>3 DEF MainOk
<1> QED BY <1>4, <1>5

LEMMA MainPrints ==
  ASSUME ServersInv, trouble # "quick", program # "many", ServerPrint
  PROVE  MainOk' /\ Ordered
<1>0. /\ MainOk /\ program \in {"one", "each"} /\ buffer \in Message
      /\ \A c \in Clients : taken[c] \in Nat /\ shown[c] \in Nat
  BY Numbers DEF ServersInv, FlowInv, TypeInv, TypeOK
<1>1. /\ main = "print" /\ main' \in {"over", "accept", "read"} /\ Shows(buffer)
      /\ main' = "read" => UNCHANGED file /\ program = "one"
      /\ UNCHANGED <<program, taken, pipe, thread, fd, buffer>>
  BY <1>0 DEF ServerPrint, Goes, threads
<1>2. NextOrAgain(buffer)
  <2> SUFFICES ASSUME buffer # Blank PROVE NextOrAgain(buffer)
    BY DEF NextOrAgain
  <2>1. CASE Due(buffer[1])
    <3> DEFINE c == buffer[1]
    <3>1. buffer = <<c, taken[c]>> /\ taken[c] = shown[c] + 1
      BY <2>1 DEF Due
    <3> HIDE DEF c
    <3>2. buffer[2] = shown[c] + 1
      BY <3>1
    <3> QED BY <3>2 DEF NextOrAgain, c
  <2>2. CASE buffer[2] = shown[buffer[1]] /\ (main = "print" => Killed)
    BY <1>1, <2>2 DEF NextOrAgain
  <2> QED BY <1>0, <2>1, <2>2 DEF MainOk
<1>3. Ordered /\ \A c \in Clients : shown'[c] = IF c = buffer[1] THEN buffer[2] ELSE shown[c]
  BY <1>0, <1>1, <1>2, ShowsInOrder
<1>4. ASSUME NEW c \in Clients PROVE taken[c] = shown'[c]
  <2>1. CASE Due(c)
    <3>1. buffer[1] = c /\ buffer[2] = taken[c]
      BY <2>1 DEF Due
    <3> QED BY <1>3, <3>1
  <2>2. CASE ~Due(c) /\ c # buffer[1]
    BY <1>0, <1>3, <2>2 DEF MainOk
  <2>3. CASE ~Due(c) /\ c = buffer[1]
    <3>1. buffer # Blank /\ taken[c] = shown[c]
      BY <1>0, <2>3, MessageParts DEF MainOk
    <3>2. buffer[2] = shown[c]
      BY <1>0, <2>3, <3>1 DEF MainOk
    <3> QED BY <1>3, <2>3, <3>1, <3>2
  <2> QED BY <2>1, <2>2, <2>3
<1>5. buffer # Blank => buffer[2] = shown'[buffer[1]]
  BY <1>0, <1>3, MessageParts
<1>6. main' # "print" /\ main' # "create"
  BY <1>1
<1> QED BY <1>0, <1>1, <1>3, <1>4, <1>5, <1>6 DEF MainOk

LEMMA MainStep ==
  ASSUME ServersInv, trouble # "quick", program # "many",
         Main \/ AcceptFails \/ CreateFails \/ ActionPrint \/ \E t \in Threads : Thread(t)
  PROVE  MainOk' /\ Ordered
<1>0. /\ MainOk /\ pending \in Seq(Clients)
      /\ \A c \in Clients : shown[c] \in {shown[c], shown[c] + 1}
  BY DEF ServersInv, FlowInv, TypeInv, TypeOK
<1>1. CASE Accept
  <2>1. /\ main = "accept" /\ main' = "read"
        /\ UNCHANGED <<program, taken, pipe, thread, buffer, shown, again>>
    BY <1>1 DEF Accept, Goes, threads
  <2>2. /\ pending[1] \in Clients /\ fd' \in Files /\ file' = [file EXCEPT ![fd'] = pending[1]]
        /\ 1 \in 1..Len(pending)
    BY <1>0, <1>1, AcceptParts DEF ServersInv
  <2>3. file'[fd'] = pending[1] /\ taken[pending[1]] = 0 /\ fd' # 0 /\ pending[1] # Nobody
    BY <2>2, ClientsFinite, ServersAssumption
       DEF ServersInv, TypeInv, TypeOK, FlowInv, ClientsOk
  <2>4. \A c \in Clients : taken[c] = shown[c]
    BY <1>0, <2>1 DEF MainOk, Due
  <2>5. buffer # Blank => buffer[2] = shown[buffer[1]]
    BY <1>0, <2>1 DEF MainOk, Due
  <2> QED BY <1>0, <2>1, <2>3, <2>4, <2>5 DEF MainOk, Ordered
<1>2. CASE AcceptFails
  <2>1. /\ main = "accept" /\ main' = "over"
        /\ UNCHANGED <<program, taken, pipe, thread, buffer, shown, again>>
    BY <1>2 DEF AcceptFails, Goes, threads
  <2>2. \A c \in Clients : taken[c] = shown[c]
    BY <1>0, <2>1 DEF MainOk, Due
  <2>3. buffer # Blank => buffer[2] = shown[buffer[1]]
    BY <1>0, <2>1 DEF MainOk, Due
  <2> QED BY <1>0, <2>1, <2>2, <2>3 DEF MainOk, Ordered
<1>3. CASE ServerRead
  <2>1. UNCHANGED <<shown, again>>
    BY <1>3 DEF ServerRead
  <2> QED BY <1>0, <1>3, <2>1, MainReads DEF Ordered
<1>4. CASE ServerPrint
  BY <1>4, MainPrints
<1>5. ~Create /\ ~CreateFails /\ ~ActionPrint /\ \A t \in Threads : ~Thread(t)
  BY <1>0 DEF MainOk, Create, CreateFails, ActionPrint, Goes, Thread, CopyArgument,
     ThreadRead, ThreadEnds, Post, ThreadIs
<1> QED BY <1>1, <1>2, <1>3, <1>4, <1>5 DEF Main

-----------------------------------------------------------------------------
(* The steps of "many".                                                    *)
LEMMA ManyTypes ==
  ASSUME ServersInv
  PROVE  /\ thread \in [Threads -> {"none", "start", "read", "test", "gone"}]
         /\ tfd \in [Threads -> Files \cup {0}] /\ tbuffer \in [Threads -> Message]
         /\ file \in [Files -> Clients \cup {Nobody}] /\ fd \in Files \cup {0}
         /\ taken \in [Clients -> 0..Messages] /\ shown \in [Clients -> 0..Messages]
         /\ pipe \in Seq(Message) /\ Len(pipe) \in Nat /\ 0 \notin Files
         /\ Nobody \notin Clients
         /\ \A f, g \in Files : file[f] = file[g] /\ file[f] # Nobody => f = g
         /\ \A m \in ends : m # Blank /\ m[2] >= 1
         /\ \A i \in 1..Len(pipe) : pipe[i] \in Message
<1>1. ends \subseteq Message /\ pipe \in Seq(Message) /\ ClientsOk
  BY DEF ServersInv, TypeInv, TypeOK, FlowInv
<1>2. \A m \in ends : m # Blank /\ m[2] >= 1
  BY <1>1, MessageParts DEF ClientsOk
<1>3. Len(pipe) \in Nat /\ \A i \in 1..Len(pipe) : pipe[i] \in Message
  BY <1>1
<1> QED BY <1>1, <1>2, <1>3, ClientsFinite, ServersAssumption
   DEF ServersInv, TypeInv, TypeOK, Apart

(* main(): a new connection is at a descriptor that no thread reads.       *)
LEMMA ManyMain ==
  ASSUME ServersInv, trouble # "quick", program = "many", Main \/ AcceptFails \/ CreateFails
  PROVE  ManyOk' /\ Ordered
<1>0. ManyOk /\ \A c \in Clients : shown[c] \in {shown[c], shown[c] + 1}
  BY DEF ServersInv, FlowInv
<1>1. ~ServerRead /\ ~ServerPrint
  BY <1>0 DEF ManyOk, OneEach, ServerRead, ServerPrint, Goes
<1>2. UNCHANGED <<client, ends, taken, tfd, tbuffer, pipe, shown, again>>
  BY <1>1 DEF Main, Accept, Create, AcceptFails, CreateFails, clients, threads
<1>3. PipeOk'
  BY <1>0, <1>2 DEF ManyOk, PipeOk, Upto, Arrives, Killed
<1>4. \A t \in Threads : /\ Reading(t)' => Reading(t) /\ thread'[t] = thread[t]
                         /\ thread'[t] = "gone" => thread[t] = "gone"
  BY <1>1, ManyTypes DEF Main, Accept, Create, AcceptFails, CreateFails, threads, Reading
<1>5. \A t \in Threads : Reading(t) /\ tfd[t] # 0 => file'[tfd[t]] = file[tfd[t]]
  <2>1. CASE Accept
    <3>1. fd' \in Files /\ file[fd'] = Nobody /\ file' = [file EXCEPT ![fd'] = pending[1]]
      BY <2>1, AcceptParts DEF ServersInv
    <3>2. \A t \in Threads : Reading(t) /\ tfd[t] # 0 => file[tfd[t]] # Nobody
      BY <1>0 DEF ManyOk, ThreadOk, Follows
    <3> QED BY <3>1, <3>2, ManyTypes
  <2>2. ~Accept => file' = file
    BY <1>1 DEF Main, Create, AcceptFails, CreateFails
  <2> QED BY <2>1, <2>2
<1>6. \A t \in Threads : ThreadOk(t)'
  <2> SUFFICES ASSUME NEW t \in Threads PROVE ThreadOk(t)'
    OBVIOUS
  <2>1. ThreadOk(t)
    BY <1>0 DEF ManyOk
  <2>2. \A d : /\ Fresh(t, d) /\ Reading(t)' => Fresh(t, d)'
               /\ Idle(d) => Idle(d)' /\ (Stale(t) => Stale(t)')
    BY <1>2, <1>4 DEF Fresh, Arrives, Killed, Idle, Settled, Stale, Reading
  <2>3. Stale(t) => Stale(t)'
    BY <1>2 DEF Stale
  <2>4. ASSUME Reading(t)' PROVE \A d : Follows(t, d) => Follows(t, d)'
    BY <1>2, <1>4, <2>2, <2>4 DEF Follows
  <2>5. tfd'[t] = tfd[t]
    BY <1>2
  <2> QED BY <1>2, <1>4, <1>5, <2>1, <2>3, <2>4, <2>5 DEF ThreadOk
<1>7. OneEach'
  <2>1. main' \in {"accept", "create"} /\ (main' = "create" => Started')
    BY <1>0, <1>1 DEF Main, Accept, Create, AcceptFails, CreateFails, Goes, Started, threads
  <2>2. \A t, u \in Threads : thread'[t] = "start" /\ thread'[u] = "start" => t = u
    <3>1. CASE Create
      <4>1. Started /\ \E t : thread' = [thread EXCEPT ![t] = "start"]
        BY <1>0, <3>1 DEF ManyOk, OneEach, Create, Goes
      <4> QED BY <4>1, ManyTypes DEF Started
    <3>2. CASE ~Create
      BY <1>0, <1>1, <3>2 DEF ManyOk, OneEach, Main, Accept, AcceptFails, CreateFails,
         threads
    <3> QED BY <3>1, <3>2
  <2>3. \A t, u \in Threads :
          Reading(t)' /\ Reading(u)' /\ tfd'[t] = tfd'[u] /\ tfd'[t] # 0 => t = u
    BY <1>0, <1>2, <1>4 DEF ManyOk, OneEach
  <2>4. NewConnection'
    <3>1. CASE Accept
      <4>1. /\ pending[1] \in Clients /\ fd' \in Files /\ file[fd'] = Nobody
            /\ file' = [file EXCEPT ![fd'] = pending[1]] /\ pending # <<>>
        BY <3>1, AcceptParts DEF ServersInv
      <4>2. taken[pending[1]] = 0
        <5>1. 1 \in 1..Len(pending)
          BY <4>1 DEF ServersInv, TypeInv, TypeOK
        <5> QED BY <5>1 DEF ServersInv, FlowInv, ClientsOk
      <4>3. \A u \in Threads : Reading(u) => tfd[u] # fd'
        BY <1>0, <4>1, ManyTypes DEF ManyOk, ThreadOk, Follows
      <4>4. file'[fd'] # Nobody /\ taken'[file'[fd']] = 0
        BY <1>2, <4>1, <4>2, ManyTypes
      <4> QED BY <1>2, <1>4, <4>3, <4>4 DEF NewConnection
    <3>2. CASE AcceptFails
      BY <3>2 DEF AcceptFails, NewConnection
    <3>3. CASE Create
      <4>1. main = "create" /\ UNCHANGED <<file, fd>>
        BY <3>3 DEF Create, Goes
      <4> QED BY <1>0, <1>2, <1>4, <4>1 DEF ManyOk, OneEach, NewConnection
    <3>4. CASE CreateFails
      <4>1. Started' /\ main' = "accept"
        BY <1>0, <3>4 DEF ManyOk, OneEach, CreateFails, Goes, Started, threads
      <4> QED BY <4>1 DEF NewConnection
    <3> QED BY <1>1, <3>1, <3>2, <3>3, <3>4 DEF Main
  <2> QED BY <2>1, <2>2, <2>3, <2>4 DEF OneEach
<1> QED BY <1>0, <1>2, <1>3, <1>6, <1>7 DEF ManyOk, Ordered

(* A thread that starts reads a connection of which nothing was taken.     *)
LEMMA ManyStarts ==
  ASSUME ServersInv, trouble # "quick", program = "many", NEW t \in Threads, CopyArgument(t)
  PROVE  ManyOk'
<1>0. ManyOk
  BY DEF ServersInv, FlowInv
<1>1. /\ thread[t] = "start" /\ thread' = [thread EXCEPT ![t] = "read"]
      /\ tfd' = [tfd EXCEPT ![t] = fd]
      /\ UNCHANGED <<client, ends, taken, file, main, fd, pipe, shown>>
  BY CopyParts DEF CopyArgument, ServersInv, TypeInv, clients
<1>2. PICK m \in Message :
        /\ tbuffer' = [tbuffer EXCEPT ![t] = m]
        /\ m = Blank \/ \E u \in Threads : thread[u] = "gone" /\ m = tbuffer[u]
  BY CopyParts DEF ServersInv, TypeInv
<1>3. m \in ends \cup {Blank}
  BY <1>0, <1>2 DEF ManyOk, ThreadOk
<1>4. main # "create" /\ fd # 0 => /\ file[fd] # Nobody /\ taken[file[fd]] = 0
                                   /\ \A u \in Threads : Reading(u) => tfd[u] # fd
  BY <1>0, <1>1 DEF ManyOk, OneEach, NewConnection, Started
<1>5. main = "accept" /\ \A u \in Threads : thread[u] = "start" => u = t
  BY <1>0, <1>1 DEF ManyOk, OneEach, Started
<1>6. \A u \in Threads : u # t => thread'[u] = thread[u] /\ tfd'[u] = tfd[u] /\ tbuffer'[u] = tbuffer[u]
  BY <1>1, <1>2, ManyTypes
<1>7. thread'[t] = "read" /\ tfd'[t] = fd /\ tbuffer'[t] = m
  BY <1>1, <1>2, ManyTypes
<1>8. PipeOk'
  BY <1>0, <1>1 DEF ManyOk, PipeOk, Upto, Arrives, Killed
<1>9. \A d : Idle(d) => Idle(d)'
  BY <1>1 DEF Idle, Settled
<1>10. ThreadOk(t)'
  <2>1. Stale(t)'
    BY <1>1, <1>3, <1>7 DEF Stale
  <2>2. ASSUME fd # 0 PROVE Idle(file[fd])
    <3>1. file[fd] \in Clients /\ taken[file[fd]] = 0
      BY <1>4, <1>5, <2>2, ManyTypes
    <3>2. shown[file[fd]] = 0
      BY <1>0, <3>1, Numbers DEF ManyOk, PipeOk, Upto
    <3>3. <<file[fd], 0>> \notin ends
      BY ManyTypes
    <3> QED BY <3>1, <3>2, <3>3 DEF Idle, Settled
  <2> QED BY <1>1, <1>4, <1>5, <1>7, <1>9, <2>1, <2>2 DEF ThreadOk, Follows
<1>11. ASSUME NEW u \in Threads, u # t PROVE ThreadOk(u)'
  <2>1. ThreadOk(u)
    BY <1>0 DEF ManyOk
  <2>2. \A d : Fresh(u, d) => Fresh(u, d)'
    BY <1>1, <1>6, <1>11 DEF Fresh, Arrives, Killed
  <2> QED BY <1>1, <1>6, <1>9, <1>11, <2>1, <2>2 DEF ThreadOk, Follows, Reading, Stale
<1>12. OneEach'
  <2>1. Started'
    BY <1>5, <1>6, <1>7 DEF Started
  <2>2. \A u, v \in Threads :
          Reading(u)' /\ Reading(v)' /\ tfd'[u] = tfd'[v] /\ tfd'[u] # 0 => u = v
    BY <1>0, <1>4, <1>5, <1>6, <1>7 DEF ManyOk, OneEach, Reading
  <2> QED BY <1>1, <1>5, <2>1, <2>2 DEF OneEach, NewConnection, Started
<1> QED BY <1>8, <1>10, <1>11, <1>12 DEF ManyOk

(* What a thread reads follows all that was taken of the connection; that  *)
(* it has nothing new to read is only of a client that was killed.         *)
LEMMA ManyReads ==
  ASSUME ServersInv, trouble # "quick", program = "many", NEW t \in Threads, ThreadRead(t)
  PROVE  ManyOk'
<1>0. ManyOk /\ ThreadOk(t) /\ main # "over"
  BY DEF ServersInv, FlowInv, ManyOk, OneEach
<1>1. /\ thread[t] = "read" /\ thread' = [thread EXCEPT ![t] = "test"]
      /\ tbuffer' = [tbuffer EXCEPT ![t] = Got(tfd[t], @)] /\ Takes(tfd[t])
      /\ UNCHANGED <<client, ends, file, main, fd, tfd, pipe, shown>>
  BY DEF ThreadRead, ThreadIs, clients
<1>2. \A u \in Threads : /\ Reading(u)' <=> Reading(u)
                         /\ thread'[u] = "start" <=> thread[u] = "start"
                         /\ u # t => thread'[u] = thread[u] /\ tbuffer'[u] = tbuffer[u]
  BY <1>1, ManyTypes DEF Reading
<1>3. thread'[t] = "test" /\ tbuffer'[t] = Got(tfd[t], tbuffer[t]) /\ Reading(t)
  BY <1>1, ManyTypes DEF Reading
<1>4. \A i \in 1..Len(pipe) : pipe[i] # Blank => Arrives(pipe[i][1], pipe[i][2], i - 1)'
  BY <1>0, <1>1 DEF ManyOk, PipeOk, Arrives, Killed
<1>5. CASE UNCHANGED taken /\ tbuffer'[t] = tbuffer[t]
  <2>1. PipeOk'
    BY <1>0, <1>1, <1>4, <1>5 DEF ManyOk, PipeOk, Upto
  <2>2. OneEach'
    BY <1>0, <1>1, <1>2, <1>5 DEF ManyOk, OneEach, NewConnection, Started
  <2>3. ASSUME NEW u \in Threads, u # t PROVE ThreadOk(u)'
    <3>1. ThreadOk(u)
      BY <1>0 DEF ManyOk
    <3>2. Stale(u) => Stale(u)'
      BY <1>1, <1>2, <2>3 DEF Stale
    <3>3. \A d : Follows(u, d) => Follows(u, d)'
      BY <1>1, <1>2, <1>5, <2>3, <3>2 DEF Follows, Fresh, Arrives, Killed, Idle, Settled
    <3> QED BY <1>1, <1>2, <1>5, <2>3, <3>1, <3>2, <3>3 DEF ThreadOk
  <2>4. ASSUME tfd[t] # 0, NEW c, c = file[tfd[t]] PROVE Follows(t, c)'
    <3>1. /\ c \in Clients /\ tfd[t] \in Files /\ Idle(c) /\ tbuffer[t] \in Message
          /\ Stale(t) \/ tbuffer[t] = <<c, taken[c]>>
      BY <1>0, <1>1, <1>3, <2>4, ManyTypes DEF ThreadOk, Follows, Fresh
    <3>2. ~Unread(tfd[t]) /\ NoMore(tfd[t])
      <4>1. /\ \/ Unread(tfd[t]) /\ taken' = [taken EXCEPT ![c] = @ + 1]
               \/ ~Unread(tfd[t]) /\ NoMore(tfd[t])
            /\ taken[c] \in Nat
        BY <1>1, <2>4, <3>1, TakesParts, Numbers
      <4>2. taken' # [taken EXCEPT ![c] = @ + 1]
        BY <1>5, <3>1, <4>1, ManyTypes
      <4> QED BY <4>1, <4>2
    <3>3. Killed
      BY <1>0, <2>4, <3>1, <3>2, NothingLeft, ServersAssumption DEF Idle
    <3>4. CASE Stale(t)
      BY <1>1, <1>5, <3>1, <3>4, ServersAssumption DEF Follows, Idle, Settled, Stale
    <3>5. CASE tbuffer[t] = <<c, taken[c]>>
      <4>1. c # Nobody /\ taken[c] \in Nat /\ shown[c] \in Nat
        BY <3>1, Numbers, ServersAssumption
      <4>2. taken[c] >= 1
        BY <3>1, <3>5, <4>1, MessageParts, ServersAssumption DEF Message, Blank
      <4>3. Upto(c)
        BY <1>0, <3>1 DEF ManyOk, PipeOk
      <4>4. taken[c] > shown[c] + 1 => \E j \in 1..Len(pipe) : pipe[j] = <<c, taken[c] - 1>>
        <5> SUFFICES ASSUME taken[c] > shown[c] + 1
                     PROVE  \E j \in 1..Len(pipe) : pipe[j] = <<c, taken[c] - 1>>
          OBVIOUS
        <5>1. PICK i \in 1..Len(pipe) : pipe[i] = <<c, taken[c]>>
          BY <3>1, <4>1 DEF Idle, Settled
        <5>2. Arrives(c, taken[c], i - 1)
          BY <1>0, <4>1, <5>1 DEF ManyOk, PipeOk, Blank
        <5>3. PICK j \in 1..(i - 1) : pipe[j] = <<c, taken[c] - 1>>
          BY <5>2 DEF Arrives
        <5>4. j \in 1..Len(pipe)
          BY ManyTypes
        <5> QED BY <5>3, <5>4
      <4>5. Arrives(c, taken[c], Len(pipe))
        BY <3>3, <4>3, <4>4 DEF Arrives, Upto
      <4>6. Fresh(t, c)'
        BY <1>1, <1>3, <1>5, <3>5, <4>2, <4>5 DEF Fresh, Arrives, Killed
      <4> QED BY <4>1, <4>6 DEF Follows
    <3> QED BY <3>1, <3>4, <3>5
  <2>5. tfd[t] = 0 => Stale(t)'
    BY <1>0, <1>1, <1>3, <1>5 DEF ThreadOk, Stale
  <2>6. ThreadOk(t)'
    BY <1>1, <1>3, <2>4, <2>5 DEF ThreadOk
  <2> QED BY <2>1, <2>2, <2>3, <2>6 DEF ManyOk
<1>6. ASSUME Unread(tfd[t]) PROVE ManyOk'
  <2> DEFINE f == tfd[t]
             c == file[f]
  <2>1. /\ f \in Files /\ f # 0 /\ c \in Clients /\ taken' = [taken EXCEPT ![c] = @ + 1]
        /\ tbuffer'[t] = <<c, taken[c] + 1>>
    BY <1>1, <1>3, <1>6, TakesParts, ManyTypes DEF Got
  <2>2. Idle(c) /\ Upto(c) /\ taken[c] \in Nat /\ shown[c] \in Nat /\ c # Nobody
    BY <1>0, <1>1, <1>3, <2>1, Numbers, ServersAssumption
       DEF ManyOk, PipeOk, ThreadOk, Follows, Fresh
  <2>3. /\ taken'[c] = taken[c] + 1
        /\ \A d \in Clients : d # c => taken'[d] = taken[d]
    BY <2>1, ManyTypes
  <2>4. \A g \in Files : g # f /\ file[g] # Nobody => file[g] # c
    BY <2>1, <2>2, ManyTypes
  <2> HIDE DEF f, c
  <2>5. PipeOk'
    <3>1. \A d \in Clients : shown[d] \in Nat /\ taken[d] \in Nat /\ Upto(d)
      BY <1>0, Numbers DEF ManyOk, PipeOk
    <3>2. \A j \in 1..Len(pipe) : pipe[j][2] \in Nat
      BY ManyTypes, MessageParts, ServersAssumption
    <3>3. ASSUME NEW d \in Clients PROVE Upto(d)'
      <4>1. CASE d = c
        BY <1>1, <2>2, <2>3, <3>2, <4>1 DEF Upto
      <4>2. CASE d # c
        BY <1>1, <2>3, <3>1, <4>2 DEF Upto
      <4> QED BY <4>1, <4>2
    <3> QED BY <1>1, <1>4, <3>3 DEF PipeOk
  <2>6. OneEach'
    <3>1. (main = "create" \/ ~Started) /\ fd # 0 =>
            taken'[file[fd]] = 0 /\ file[fd] # Nobody /\ \A u \in Threads : Reading(u) => tfd[u] # fd
      <4> SUFFICES ASSUME main = "create" \/ ~Started, fd # 0
                   PROVE  taken'[file[fd]] = 0 /\ file[fd] # Nobody
                          /\ \A u \in Threads : Reading(u) => tfd[u] # fd
        OBVIOUS
      <4>1. /\ file[fd] # Nobody /\ taken[file[fd]] = 0
            /\ \A u \in Threads : Reading(u) => tfd[u] # fd
        BY <1>0 DEF ManyOk, OneEach, NewConnection
      <4>2. file[fd] \in Clients /\ file[fd] # c
        BY <1>3, <2>4, <4>1, ManyTypes DEF f
      <4> QED BY <2>3, <4>1, <4>2
    <3>2. Started' <=> Started
      BY <1>2 DEF Started
    <3>3. NewConnection'
      BY <1>1, <1>2, <3>1, <3>2 DEF NewConnection
    <3> QED BY <1>0, <1>1, <1>2, <3>2, <3>3 DEF ManyOk, OneEach
  <2>7. ASSUME NEW u \in Threads, u # t PROVE ThreadOk(u)'
    <3>1. ThreadOk(u)
      BY <1>0 DEF ManyOk
    <3>2. Stale(u) => Stale(u)'
      BY <1>1, <1>2, <2>7 DEF Stale
    <3>3. ASSUME NEW d \in Clients, d # c PROVE Follows(u, d) => Follows(u, d)'
      BY <1>1, <1>2, <2>3, <2>7, <3>2, <3>3
         DEF Follows, Fresh, Arrives, Killed, Idle, Settled
    <3>4. Reading(u) /\ tfd[u] # 0 => file[tfd[u]] \in Clients /\ file[tfd[u]] # c
      <4>1. Reading(u) /\ tfd[u] # 0 => tfd[u] \in Files /\ tfd[u] # f /\ file[tfd[u]] # Nobody
        BY <1>0, <1>3, <2>7, <3>1, ManyTypes DEF ManyOk, OneEach, ThreadOk, Follows, f
      <4> QED BY <2>4, <4>1, ManyTypes
    <3> QED BY <1>1, <1>2, <2>7, <3>1, <3>2, <3>3, <3>4 DEF ThreadOk
  <2>8. ThreadOk(t)'
    <3> DEFINE n == taken[c] + 1
    <3>1. shown[c] <= n /\ n # shown[c]
      BY <2>2 DEF Upto
    <3>2. \A j \in 1..Len(pipe) : (pipe[j][1] = c => pipe[j][2] <= n) /\ pipe[j] # <<c, n>>
      <4> SUFFICES ASSUME NEW j \in 1..Len(pipe), pipe[j][1] = c PROVE pipe[j][2] <= n /\ pipe[j][2] # n
        OBVIOUS
      <4>1. pipe[j][2] <= taken[c] /\ pipe[j][2] \in Nat
        BY <2>2, ManyTypes, MessageParts, ServersAssumption DEF Upto
      <4> QED BY <2>2, <4>1
    <3>3. n > shown[c] + 1 => \E j \in 1..Len(pipe) : pipe[j] = <<c, n - 1>>
      BY <2>2 DEF Idle, Settled
    <3>4. Arrives(c, n, Len(pipe))
      BY <3>1, <3>2, <3>3 DEF Arrives
    <3>5. Fresh(t, c)'
      BY <1>1, <1>3, <2>1, <2>2, <2>3, <3>4 DEF Fresh, Arrives, Killed, c, f
    <3> QED BY <1>1, <1>3, <2>1, <2>2, <3>5 DEF ThreadOk, Follows, c, f
  <2> QED BY <2>5, <2>6, <2>7, <2>8 DEF ManyOk
<1>7. ~Unread(tfd[t]) => UNCHANGED taken /\ tbuffer'[t] = tbuffer[t]
  BY <1>1, <1>3 DEF Takes, Got
<1> QED BY <1>5, <1>6, <1>7

(* A thread that ends leaves its descriptor, which no other reads.         *)
LEMMA ManyEnds ==
  ASSUME ServersInv, trouble # "quick", program = "many", NEW t \in Threads, ThreadEnds(t)
  PROVE  ManyOk'
<1>0. ManyOk
  BY DEF ServersInv, FlowInv
<1>1. /\ thread[t] = "test" /\ thread' = [thread EXCEPT ![t] = "gone"] /\ tbuffer[t] \in ends
      /\ file' = IF tfd[t] = 0 THEN file ELSE [file EXCEPT ![tfd[t]] = Nobody]
      /\ UNCHANGED <<client, ends, taken, main, fd, tfd, tbuffer, pipe, shown>>
  BY DEF ThreadEnds, ThreadIs, clients
<1>2. /\ Reading(t) /\ thread'[t] = "gone"
      /\ \A u \in Threads : u # t => thread'[u] = thread[u]
  BY <1>1, ManyTypes DEF Reading
<1>3. /\ \A u \in Threads : Reading(u)' => Reading(u) /\ u # t
      /\ \A u \in Threads : thread'[u] = "start" <=> thread[u] = "start"
  BY <1>1, <1>2 DEF Reading
<1>4. \A f \in Files : f # tfd[t] => file'[f] = file[f]
  BY <1>1, ManyTypes
<1>5. PipeOk'
  BY <1>0, <1>1 DEF ManyOk, PipeOk, Upto, Arrives, Killed
<1>6. OneEach'
  <2>1. (main = "create" \/ ~Started) /\ fd # 0 => file'[fd] = file[fd]
    BY <1>0, <1>2, <1>4, ManyTypes DEF ManyOk, OneEach, NewConnection
  <2>2. Started' <=> Started
    BY <1>3 DEF Started
  <2>3. NewConnection'
    BY <1>0, <1>1, <1>3, <2>1, <2>2 DEF ManyOk, OneEach, NewConnection
  <2> QED BY <1>0, <1>1, <1>3, <2>2, <2>3 DEF ManyOk, OneEach
<1>7. ASSUME NEW u \in Threads, u # t PROVE ThreadOk(u)'
  <2>1. ThreadOk(u)
    BY <1>0 DEF ManyOk
  <2>2. Reading(u) /\ tfd[u] # 0 => file'[tfd[u]] = file[tfd[u]]
    BY <1>0, <1>2, <1>4, <1>7, ManyTypes DEF ManyOk, OneEach
  <2>3. \A d : Follows(u, d) => Follows(u, d)'
    BY <1>1, <1>2, <1>7 DEF Follows, Fresh, Arrives, Killed, Idle, Settled, Stale
  <2> QED BY <1>1, <1>2, <1>3, <1>7, <2>1, <2>2, <2>3 DEF ThreadOk, Stale
<1>8. ThreadOk(t)'
  BY <1>1, <1>2, <1>3 DEF ThreadOk
<1> QED BY <1>5, <1>6, <1>7, <1>8 DEF ManyOk

(* What a thread posts goes behind all that came from its connection.      *)
LEMMA ManyPosts ==
  ASSUME ServersInv, trouble # "quick", program = "many", NEW t \in Threads, Post(t)
  PROVE  ManyOk'
<1>0. ManyOk /\ ThreadOk(t)
  BY DEF ServersInv, FlowInv, ManyOk
<1>1. /\ thread[t] = "test" /\ thread' = [thread EXCEPT ![t] = "read"] /\ tbuffer[t] \notin ends
      /\ pipe' = Append(pipe, tbuffer[t])
      /\ UNCHANGED <<client, ends, taken, main, file, fd, tfd, tbuffer, shown>>
  BY DEF Post, ThreadIs, SendMessage, clients
<1>2. /\ thread'[t] = "read" /\ Reading(t)
      /\ \A u \in Threads : /\ Reading(u)' <=> Reading(u)
                            /\ thread'[u] = "start" <=> thread[u] = "start"
                            /\ u # t => thread'[u] = thread[u]
  BY <1>1, ManyTypes DEF Reading
<1>3. /\ Len(pipe') = Len(pipe) + 1 /\ pipe'[Len(pipe) + 1] = tbuffer[t] /\ Len(pipe) \in Nat
      /\ \A j \in 1..Len(pipe) : pipe'[j] = pipe[j]
  BY <1>1, ManyTypes
<1>4. \A j \in 1..Len(pipe') :
        IF j = Len(pipe) + 1 THEN pipe'[j] = tbuffer[t]
        ELSE j \in 1..Len(pipe) /\ pipe'[j] = pipe[j]
  BY <1>3
<1>5. \/ tbuffer[t] = Blank
      \/ /\ tfd[t] # 0 /\ file[tfd[t]] \in Clients /\ tfd[t] \in Files
         /\ Fresh(t, file[tfd[t]])
  BY <1>0, <1>1, <1>2, ManyTypes DEF ThreadOk, Follows, Stale
<1>6. \A d, n : \A k \in 0..Len(pipe) : Arrives(d, n, k) => Arrives(d, n, k)'
  <2> SUFFICES ASSUME NEW d, NEW n, NEW k \in 0..Len(pipe), Arrives(d, n, k) PROVE Arrives(d, n, k)'
    OBVIOUS
  <2>1. \A j \in 1..k : pipe'[j] = pipe[j]
    BY <1>3
  <2> QED BY <1>1, <2>1 DEF Arrives, Killed
<1>7. \A d \in Clients : Idle(d) => Idle(d)'
  <2>1. \A j \in 1..Len(pipe) : j \in 1..Len(pipe')
    BY <1>3
  <2> QED BY <1>1, <1>3, <2>1 DEF Idle, Settled
<1>8. PipeOk'
  <2>1. ASSUME NEW d \in Clients PROVE Upto(d)'
    <3>1. Upto(d) /\ taken[d] <= taken[d]
      BY <1>0, Numbers DEF ManyOk, PipeOk
    <3>2. tbuffer[t][1] = d => tbuffer[t][2] <= taken[d]
      <4>1. CASE tbuffer[t] = Blank
        BY <4>1, ServersAssumption DEF Blank
      <4>2. ASSUME NEW c \in Clients, c = file[tfd[t]], Fresh(t, c)
            PROVE  tbuffer[t][1] = d => tbuffer[t][2] <= taken[d]
        BY <4>2, <3>1 DEF Fresh
      <4> QED BY <1>5, <4>1, <4>2
    <3> QED BY <1>1, <1>4, <3>1, <3>2 DEF Upto
  <2>2. ASSUME NEW i \in 1..Len(pipe'), pipe'[i] # Blank
        PROVE  Arrives(pipe[i][1], pipe[i][2], i - 1)'
    <3>1. CASE i \in 1..Len(pipe)
      <4>1. pipe'[i] = pipe[i] /\ i - 1 \in 0..Len(pipe) /\ Arrives(pipe[i][1], pipe[i][2], i - 1)
        BY <1>0, <1>3, <2>2, <3>1 DEF ManyOk, PipeOk
      <4> QED BY <1>6, <4>1
    <3>2. CASE i = Len(pipe) + 1
      <4>1. /\ pipe'[i] = tbuffer[t] /\ i - 1 = Len(pipe) /\ Len(pipe) \in 0..Len(pipe)
            /\ Fresh(t, file[tfd[t]])
        BY <1>3, <1>5, <2>2, <3>2
      <4>2. tbuffer[t][1] = file[tfd[t]] /\ tbuffer[t][2] = taken[file[tfd[t]]]
        BY <4>1 DEF Fresh
      <4>3. Arrives(tbuffer[t][1], tbuffer[t][2], Len(pipe))
        BY <4>1, <4>2 DEF Fresh
      <4> QED BY <1>6, <4>1, <4>3
    <3> QED BY <1>3, <3>1, <3>2
  <2> QED BY <2>1, <2>2 DEF PipeOk
<1>9. OneEach'
  BY <1>0, <1>1, <1>2 DEF ManyOk, OneEach, NewConnection, Started
<1>10. ASSUME NEW u \in Threads, u # t PROVE ThreadOk(u)'
  <2>1. ThreadOk(u)
    BY <1>0 DEF ManyOk
  <2>2. Stale(u) => Stale(u)'
    BY <1>1 DEF Stale
  <2>3. ASSUME NEW d \in Clients, d # tbuffer[t][1], Follows(u, d) PROVE Follows(u, d)'
    <3>1. CASE Fresh(u, d)
      <4>1. Arrives(d, taken[d], Len(pipe)) /\ Len(pipe) \in 0..Len(pipe)
        BY <1>3, <3>1 DEF Fresh
      <4>2. Arrives(d, taken[d], Len(pipe))'
        <5>1. \A j \in 1..Len(pipe) : pipe'[j] = pipe[j] /\ j \in 1..Len(pipe')
          BY <1>3
        <5>2. \A j \in 1..Len(pipe') : pipe'[j][1] = d => j \in 1..Len(pipe)
          BY <1>4, <2>3
        <5>3. \A j \in 1..Len(pipe') : pipe'[j] # <<d, taken[d]>>
                                        \/ (j \in 1..Len(pipe) /\ pipe[j] = <<d, taken[d]>>)
          BY <1>4, <2>3
        <5> QED BY <1>1, <4>1, <5>1, <5>2, <5>3 DEF Arrives, Killed
      <4> QED BY <1>1, <1>2, <1>10, <2>3, <3>1, <4>2 DEF Fresh, Follows
    <3>2. CASE ~Fresh(u, d)
      BY <1>1, <1>2, <1>7, <1>10, <2>2, <2>3, <3>2 DEF Follows
    <3> QED BY <3>1, <3>2
  <2>4. Reading(u) /\ tfd[u] # 0 => file[tfd[u]] \in Clients /\ file[tfd[u]] # tbuffer[t][1]
    <3> SUFFICES ASSUME Reading(u), tfd[u] # 0
                 PROVE  file[tfd[u]] \in Clients /\ file[tfd[u]] # tbuffer[t][1]
      OBVIOUS
    <3>1. tfd[u] \in Files /\ tfd[u] # tfd[t] /\ file[tfd[u]] \in Clients
      BY <1>0, <1>2, <1>10, <2>1, ManyTypes DEF ManyOk, OneEach, ThreadOk, Follows
    <3>2. CASE tbuffer[t] = Blank
      BY <3>1, <3>2, ServersAssumption DEF Blank
    <3>3. CASE tfd[t] \in Files /\ file[tfd[t]] \in Clients /\ Fresh(t, file[tfd[t]])
      <4>1. tbuffer[t][1] = file[tfd[t]]
        BY <3>3 DEF Fresh
      <4> QED BY <3>1, <3>3, <4>1, ManyTypes
    <3> QED BY <1>5, <3>2, <3>3
  <2> QED BY <1>1, <1>2, <1>10, <2>1, <2>2, <2>3, <2>4 DEF ThreadOk
<1>11. ThreadOk(t)'
  <2>1. tfd[t] = 0 => Stale(t)'
    BY <1>0, <1>1, <1>2 DEF ThreadOk, Stale
  <2>2. ASSUME tfd[t] # 0, NEW c, c = file[tfd[t]] PROVE Follows(t, c)'
    <3>1. Follows(t, c) /\ c \in Clients
      BY <1>0, <1>2, <2>2, ManyTypes DEF ThreadOk, Follows
    <3>2. CASE Fresh(t, c)
      <4>1. pipe'[Len(pipe')] = <<c, taken[c]>> /\ Len(pipe') \in 1..Len(pipe')
            /\ tbuffer[t] = <<c, taken[c]>>
        BY <1>3, <3>2 DEF Fresh
      <4>2. Idle(c)'
        BY <1>1, <4>1 DEF Idle, Settled
      <4> QED BY <1>1, <1>2, <3>1, <4>1, <4>2 DEF Follows
    <3>3. CASE ~Fresh(t, c)
      BY <1>1, <1>2, <1>7, <3>1, <3>3 DEF Follows, Stale
    <3> QED BY <3>2, <3>3
  <2> QED BY <1>1, <1>2, <2>1, <2>2 DEF ThreadOk
<1> QED BY <1>8, <1>9, <1>10, <1>11 DEF ManyOk

(* What server_action_thread() prints is the next of its client; what is   *)
(* behind it in the pipe moves up.                                         *)
LEMMA ManyPrints ==
  ASSUME ServersInv, trouble # "quick", program = "many", ActionPrint
  PROVE  ManyOk' /\ Ordered
<1> DEFINE m == pipe[1]
<1>0. ManyOk
  BY DEF ServersInv, FlowInv
<1>1. /\ pipe # <<>> /\ pipe' = Tail(pipe) /\ Shows(m)
      /\ UNCHANGED <<client, ends, taken, main, file, fd, thread, tfd, tbuffer>>
  BY ManyTypes DEF ActionPrint, clients
<1>2. /\ Len(pipe) \in Nat \ {0} /\ Len(pipe') = Len(pipe) - 1 /\ 1 \in 1..Len(pipe)
      /\ \A j \in 1..Len(pipe') : j + 1 \in 1..Len(pipe) /\ pipe'[j] = pipe[j + 1]
      /\ m \in Message
  BY <1>1, ManyTypes
<1>3. \A j \in 1..Len(pipe) : j # 1 => j - 1 \in 1..Len(pipe') /\ pipe'[j - 1] = pipe[j]
  <2> SUFFICES ASSUME NEW j \in 1..Len(pipe), j # 1
               PROVE  j - 1 \in 1..Len(pipe') /\ pipe'[j - 1] = pipe[j]
    OBVIOUS
  <2>1. j - 1 \in 1..Len(pipe') /\ (j - 1) + 1 = j
    BY <1>2
  <2> QED BY <1>2, <2>1
<1>4. m # Blank => m[1] \in Clients /\ m[2] \in Nat /\ m = <<m[1], m[2]>>
  BY <1>2, MessageParts, ServersAssumption
<1>5. m # Blank => /\ m[2] \in {shown[m[1]], shown[m[1]] + 1} /\ m[2] <= taken[m[1]]
                   /\ m[2] = shown[m[1]] => Killed
  <2> SUFFICES ASSUME m # Blank
               PROVE  /\ m[2] \in {shown[m[1]], shown[m[1]] + 1} /\ m[2] <= taken[m[1]]
                      /\ m[2] = shown[m[1]] => Killed
    OBVIOUS
  <2>1. Arrives(m[1], m[2], 0) /\ Upto(m[1])
    BY <1>0, <1>2, <1>4 DEF ManyOk, PipeOk
  <2>2. shown[m[1]] <= m[2] /\ ~(m[2] > shown[m[1]] + 1) /\ (Killed \/ m[2] # shown[m[1]])
    BY <2>1 DEF Arrives
  <2>3. m[2] <= taken[m[1]]
    BY <1>2, <2>1 DEF Upto
  <2> QED BY <1>4, <2>2, <2>3, Numbers
<1>6. NextOrAgain(m)
  BY <1>5 DEF NextOrAgain
<1>7. Ordered /\ \A c \in Clients : shown'[c] = IF c = m[1] THEN m[2] ELSE shown[c]
  BY <1>1, <1>2, <1>6, ShowsInOrder
<1> HIDE DEF m
<1>8. m = Blank => m[1] \notin Clients
  BY ServersAssumption DEF Blank
<1>9. ASSUME NEW c \in Clients, NEW n \in Nat, NEW k \in 1..Len(pipe), Arrives(c, n, k)
      PROVE  Arrives(c, n, k - 1)'
  <2>1. /\ shown[c] <= n /\ \A j \in 1..k : pipe[j][1] = c => pipe[j][2] <= n
        /\ n > shown[c] + 1 => \E j \in 1..k : pipe[j] = <<c, n - 1>>
        /\ Killed \/ (n # shown[c] /\ \A j \in 1..k : pipe[j] # <<c, n>>)
    BY <1>9 DEF Arrives
  <2>2. \A j \in 1..(k - 1) : j + 1 \in 1..k /\ pipe'[j] = pipe[j + 1]
    BY <1>2
  <2>3. \A j \in 1..k : j # 1 => j - 1 \in 1..(k - 1) /\ pipe'[j - 1] = pipe[j]
    <3> SUFFICES ASSUME NEW j \in 1..k, j # 1 PROVE j - 1 \in 1..(k - 1) /\ pipe'[j - 1] = pipe[j]
      OBVIOUS
    <3>1. j \in 1..Len(pipe) /\ j - 1 \in 1..(k - 1)
      BY <1>2
    <3> QED BY <1>3, <3>1
  <2>4. 1 \in 1..k /\ shown[c] \in Nat /\ (Killed' <=> Killed)
    BY <1>1, Numbers DEF Killed
  <2>5. \A j \in 1..(k - 1) : pipe'[j][1] = c => pipe'[j][2] <= n
    BY <2>1, <2>2
  <2>6. Killed' \/ \A j \in 1..(k - 1) : pipe'[j] # <<c, n>>
    BY <2>1, <2>2, <2>4
  <2>7. CASE m[1] = c
    <3>1. m # Blank /\ shown'[c] = m[2] /\ m = <<c, m[2]>> /\ m[2] \in Nat
          /\ m[2] \in {shown[c], shown[c] + 1}
      BY <1>4, <1>5, <1>7, <1>8, <2>7
    <3>2. m[2] <= n
      BY <2>1, <2>4, <2>7 DEF m
    <3>3. Killed' \/ n # m[2]
      BY <2>1, <2>4, <3>1 DEF m
    <3>4. n > m[2] + 1 => \E j \in 1..(k - 1) : pipe'[j] = <<c, n - 1>>
      <4> SUFFICES ASSUME n > m[2] + 1 PROVE \E j \in 1..(k - 1) : pipe'[j] = <<c, n - 1>>
        OBVIOUS
      <4>1. n > shown[c] + 1 /\ n - 1 # m[2]
        BY <2>4, <3>1
      <4>2. PICK j \in 1..k : pipe[j] = <<c, n - 1>>
        BY <2>1, <4>1
      <4>3. j # 1
        <5>1. m # <<c, n - 1>>
          BY <3>1, <4>1
        <5> QED BY <4>2, <5>1 DEF m
      <4> QED BY <2>3, <4>2, <4>3
    <3> QED BY <2>5, <2>6, <3>1, <3>2, <3>3, <3>4 DEF Arrives
  <2>8. CASE m[1] # c
    <3>1. shown'[c] = shown[c]
      BY <1>7, <2>8
    <3>2. n > shown[c] + 1 => \E j \in 1..(k - 1) : pipe'[j] = <<c, n - 1>>
      <4>1. m # <<c, n - 1>>
        BY <2>8
      <4> QED BY <2>1, <2>3, <4>1 DEF m
    <3>3. Killed' \/ n # shown[c]
      BY <2>1, <2>4
    <3> QED BY <2>1, <2>5, <2>6, <3>1, <3>2, <3>3 DEF Arrives
  <2> QED BY <2>7, <2>8
<1>10. PipeOk'
  <2>1. ASSUME NEW c \in Clients PROVE Upto(c)'
    <3>1. Upto(c) /\ taken[c] \in Nat
      BY <1>0, Numbers DEF ManyOk, PipeOk
    <3>2. shown'[c] <= taken[c]
      BY <1>4, <1>5, <1>7, <1>8, <3>1 DEF Upto
    <3>3. \A j \in 1..Len(pipe') : pipe'[j][1] = c => pipe'[j][2] <= taken[c]
      BY <1>2, <3>1 DEF Upto
    <3> QED BY <1>1, <3>2, <3>3 DEF Upto
  <2>2. ASSUME NEW i \in 1..Len(pipe'), pipe'[i] # Blank
        PROVE  Arrives(pipe[i][1], pipe[i][2], i - 1)'
    <3>1. i + 1 \in 1..Len(pipe) /\ pipe'[i] = pipe[i + 1] /\ (i + 1) - 1 = i /\ i \in 1..Len(pipe)
      BY <1>2
    <3>2. Arrives(pipe'[i][1], pipe'[i][2], i)
      BY <1>0, <2>2, <3>1 DEF ManyOk, PipeOk
    <3>3. pipe'[i] \in Message
      BY <3>1, ManyTypes
    <3>4. pipe'[i][1] \in Clients /\ pipe'[i][2] \in Nat
      BY <2>2, <3>3, MessageParts, ServersAssumption
    <3> QED BY <1>9, <3>1, <3>2, <3>4
  <2> QED BY <2>1, <2>2 DEF PipeOk
<1>11. OneEach'
  BY <1>0, <1>1 DEF ManyOk, OneEach, NewConnection, Started, Reading
<1>12. ASSUME NEW u \in Threads PROVE ThreadOk(u)'
  <2>1. ThreadOk(u)
    BY <1>0 DEF ManyOk
  <2>2. Stale(u) => Stale(u)'
    BY <1>1 DEF Stale
  <2>3. ASSUME NEW c \in Clients, Fresh(u, c) PROVE Fresh(u, c)'
    <3>1. Arrives(c, taken[c], Len(pipe)) /\ taken[c] \in Nat /\ Len(pipe) \in 1..Len(pipe)
      BY <1>2, <2>3, Numbers DEF Fresh
    <3>2. \A n \in Nat : \A k \in 1..Len(pipe) : Arrives(c, n, k) => Arrives(c, n, k - 1)'
      BY <1>9
    <3>3. Arrives(c, taken[c], Len(pipe))'
      BY <1>1, <1>2, <3>1, <3>2
    <3> QED BY <1>1, <2>3, <3>3 DEF Fresh
  <2>4. ASSUME NEW c \in Clients, Idle(c) PROVE Idle(c)'
    <3>1. Upto(c) /\ taken[c] \in Nat /\ shown[c] \in Nat
      BY <1>0, Numbers DEF ManyOk, PipeOk
    <3>2. CASE taken[c] = shown[c]
      <4>1. shown'[c] = taken[c]
        BY <1>4, <1>5, <1>7, <1>8, <3>1, <3>2
      <4> QED BY <1>1, <2>4, <4>1 DEF Idle, Settled
    <3>3. ASSUME NEW j \in 1..Len(pipe), pipe[j] = <<c, taken[c]>> PROVE Idle(c)'
      <4>1. CASE j = 1
        <5>1. m[1] = c /\ m[2] = taken[c]
          BY <3>3, <4>1 DEF m
        <5>2. shown'[c] = taken[c]
          BY <1>7, <5>1
        <5> QED BY <1>1, <2>4, <5>2 DEF Idle, Settled
      <4>2. CASE j # 1
        BY <1>1, <1>3, <2>4, <3>3, <4>2 DEF Idle, Settled
      <4> QED BY <4>1, <4>2
    <3> QED BY <2>4, <3>2, <3>3 DEF Idle, Settled
  <2>5. ASSUME NEW c \in Clients, Follows(u, c) PROVE Follows(u, c)'
    BY <1>1, <2>2, <2>3, <2>4, <2>5 DEF Follows
  <2>6. Reading(u) /\ tfd[u] # 0 => file[tfd[u]] \in Clients
    BY <2>1, ManyTypes DEF ThreadOk, Follows
  <2> QED BY <1>1, <2>1, <2>2, <2>5, <2>6 DEF ThreadOk, Reading
<1> QED BY <1>7, <1>10, <1>11, <1>12 DEF ManyOk

-----------------------------------------------------------------------------
LEMMA InitFlow == Init => ServersInv
<1> SUFFICES ASSUME Init PROVE ServersInv
  OBVIOUS
<1>1. TypeInv
  BY InitType
<1>2. ClientsOk
  BY DEF Init, ClientsOk, ClientOk
<1>3. MainOk
  BY DEF Init, MainOk
<1>4. ManyOk
  <2>1. PipeOk
    BY DEF Init, PipeOk, Upto
  <2>2. OneEach
    BY DEF Init, OneEach, NewConnection, Started, Reading
  <2>3. \A t \in Threads : ThreadOk(t)
    BY DEF Init, ThreadOk, Reading
  <2> QED BY <2>1, <2>2, <2>3 DEF ManyOk
<1> QED BY <1>1, <1>2, <1>3, <1>4 DEF Init, ServersInv, FlowInv

LEMMA OrderStep ==
  ASSUME ServersInv, [Next]_vars, trouble # "quick"
  PROVE  Ordered /\ (program # "many" => MainOk') /\ (program = "many" => ManyOk')
<1>0. \A c \in Clients : shown[c] \in {shown[c], shown[c] + 1}
  OBVIOUS
<1>1. CASE UNCHANGED vars
  <2>1. /\ MainOk => MainOk'
        /\ ManyOk => ManyOk'
    <3>1. MainOk => MainOk'
      BY <1>1 DEF vars, clients, threads, MainOk, Due, Killed
    <3>2. OneEach => OneEach'
      BY <1>1 DEF vars, clients, threads, OneEach, NewConnection, Started, Reading
    <3>3. PipeOk => PipeOk'
      BY <1>1 DEF vars, clients, threads, PipeOk, Upto, Arrives, Killed
    <3>4. ASSUME NEW t \in Threads, ThreadOk(t) PROVE ThreadOk(t)'
      BY <1>1, <3>4 DEF vars, clients, threads, ThreadOk, Follows, Fresh, Arrives, Killed,
         Idle, Settled, Stale, Reading
    <3> QED BY <3>1, <3>2, <3>3, <3>4 DEF ManyOk
  <2>2. Ordered
    BY <1>0, <1>1 DEF vars, Ordered
  <2> QED BY <2>1, <2>2 DEF ServersInv, FlowInv
<1>2. ASSUME NEW c \in Clients, Client(c)
      PROVE  Ordered /\ (program # "many" => MainOk') /\ (program = "many" => ManyOk')
  <2>1. FlowInv' /\ UNCHANGED <<program, trouble, shown, again>>
    BY <1>2, ClientStep, ClientParts
  <2> QED BY <1>0, <2>1 DEF FlowInv, Ordered
<1>3. CASE program # "many" /\ (Main \/ AcceptFails \/ CreateFails \/ ActionPrint
                                \/ \E t \in Threads : Thread(t))
  BY <1>3, MainStep
<1>4. CASE program = "many" /\ (Main \/ AcceptFails \/ CreateFails \/ ActionPrint)
  BY <1>4, ManyMain, ManyPrints
<1>5. ASSUME program = "many", NEW t \in Threads, Thread(t)
      PROVE  ManyOk' /\ Ordered
  <2>1. UNCHANGED <<shown, again>>
    BY <1>5 DEF Thread, CopyArgument, ThreadRead, ThreadEnds, Post
  <2>2. ManyOk'
    BY <1>5, ManyStarts, ManyReads, ManyEnds, ManyPosts DEF Thread
  <2> QED BY <1>0, <2>1, <2>2 DEF Ordered
<1> QED BY <1>1, <1>2, <1>3, <1>4, <1>5 DEF Next

LEMMA FlowStep == ServersInv /\ [Next]_vars => ServersInv'
<1> SUFFICES ASSUME ServersInv, [Next]_vars PROVE ServersInv'
  OBVIOUS
<1>1. TypeInv'
  BY TypeStep DEF ServersInv
<1>2. UNCHANGED <<program, trouble>>
  BY DEF Next, vars, Main, Accept, Create, ServerRead, ServerPrint, AcceptFails,
     CreateFails, ActionPrint, Thread, CopyArgument, ThreadRead, ThreadEnds, Post, Client,
     Connect, Refused, Kill, Send
<1>3. ClientsOk'
  <2>1. CASE UNCHANGED vars
    BY <2>1 DEF vars, clients, ServersInv, FlowInv, ClientsOk, ClientOk
  <2>2. ASSUME NEW c \in Clients, Client(c) PROVE ClientsOk'
    BY <2>2, ClientParts
  <2> QED BY <2>1, <2>2, ServerClients DEF Next
<1>4. Killed => Killed'
  <2>1. ASSUME NEW c \in Clients, Client(c) PROVE Killed => Killed'
    BY <2>1, ClientParts
  <2>2. (\A c \in Clients : ~Client(c)) => client' = client
    BY DEF Next, vars, clients, Main, Accept, Create, ServerRead, ServerPrint, AcceptFails,
       CreateFails, ActionPrint, Thread, CopyArgument, ThreadRead, ThreadEnds, Post
  <2> QED BY <2>1, <2>2 DEF Killed
<1> QED BY <1>1, <1>2, <1>3, <1>4, OrderStep DEF ServersInv, FlowInv, Ordered

(* No server prints the messages of a client out of order or leaves one    *)
(* out, and none prints one twice unless a client was killed, as long as a *)
(* thread has copied its argument before the next connection is accepted:  *)
(* although no server looks at how much read() got, so that a stale buffer *)
(* might be printed again, and a new thread finds on its stack what a      *)
(* thread that is gone has read.                                           *)
THEOREM InOrderHolds == Spec => InOrder
<1>1. ASSUME ServersInv, [Next]_vars, trouble # "quick"
      PROVE  (\A c \in Clients : shown'[c] \in {shown[c], shown[c] + 1}) /\ (again' => Killed)
  BY <1>1, OrderStep DEF Ordered, ServersInv, FlowInv
<1> QED BY <1>1, InitFlow, FlowStep, PTL DEF Spec, InOrder

==============================================================================
