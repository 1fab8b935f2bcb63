------------------------------ MODULE SmiProofs ------------------------------
(****************************************************************************)
(* Theorems about Smi, for every number of clients, slots, messages and of   *)
(* uses of a pid, and every size of the FIFOs.                               *)
(****************************************************************************)
EXTENDS Smi, SequenceTheorems, WellFoundedInduction, TLAPS

-----------------------------------------------------------------------------
(* Lists of messages *)

LEMMA Pushed ==
    ASSUME NEW S, NEW x \in S, NEW s \in Seq(S)
    PROVE  LET t == <<x>> \o s
           IN t \in Seq(S) /\ t # <<>> /\ Head(t) = x /\ Tail(t) = s
<1>. DEFINE t == <<x>> \o s
<1>1. <<x>> \in Seq(S) /\ Len(<<x>>) = 1 /\ <<x>>[1] = x
  OBVIOUS
<1>2. /\ Len(s) \in Nat /\ t \in Seq(S) /\ Len(t) = 1 + Len(s)
      /\ \A i \in 1 .. Len(t) : t[i] = IF i <= 1 THEN x ELSE s[i - 1]
  BY <1>1, ConcatProperties, LenProperties
<1>. HIDE DEF t
<1>3. t # <<>> /\ Head(t) = x
  <2>1. t # <<>> /\ 1 \in 1 .. Len(t)
    BY <1>2
  <2>. QED  BY <1>2, <2>1
<1>4. Tail(t) \in Seq(S) /\ Len(Tail(t)) = Len(s) /\ \A i \in 1 .. Len(s) : Tail(t)[i] = s[i]
  BY <1>2, <1>3, HeadTailProperties
<1>5. Tail(t) = s
  BY <1>4, SeqEqual
<1>. QED  BY <1>2, <1>3, <1>5 DEF t

LEMMA Rejoined ==
    ASSUME NEW S, NEW s \in Seq(S), s # <<>>
    PROVE  /\ Head(s) \in S /\ Tail(s) \in Seq(S) /\ Len(Tail(s)) = Len(s) - 1
           /\ <<Head(s)>> \o Tail(s) = s
<1>1. /\ Head(s) \in S /\ Tail(s) \in Seq(S) /\ Len(Tail(s)) = Len(s) - 1 /\ Head(s) = s[1]
      /\ \A i \in 1 .. Len(Tail(s)) : Tail(s)[i] = s[i + 1]
  BY HeadTailProperties
<1>2. <<Head(s)>> \in Seq(S) /\ Len(<<Head(s)>>) = 1 /\ <<Head(s)>>[1] = Head(s)
  BY <1>1
<1>. DEFINE t == <<Head(s)>> \o Tail(s)
<1>3. /\ Len(s) \in Nat /\ t \in Seq(S) /\ Len(t) = Len(s)
      /\ \A i \in 1 .. Len(s) : t[i] = IF i <= 1 THEN Head(s) ELSE Tail(s)[i - 1]
  BY <1>1, <1>2, ConcatProperties, LenProperties
<1>4. \A i \in 1 .. Len(s) : t[i] = s[i]
  <2>. HIDE DEF t
  <2>. QED  BY <1>1, <1>3
<1>5. t = s
  <2>. HIDE DEF t
  <2>. QED  BY <1>3, <1>4, SeqEqual
<1>. QED  BY <1>1, <1>5

LEMMA AppendedLast ==
    ASSUME NEW S, NEW s \in Seq(S), NEW t \in Seq(S), NEW x \in S
    PROVE  /\ Append(t, x) \in Seq(S) /\ Len(Append(t, x)) = Len(t) + 1
           /\ s \o Append(t, x) = Append(s \o t, x)
<1>1. /\ Append(t, x) \in Seq(S) /\ Len(Append(t, x)) = Len(t) + 1
      /\ Append(t, x) = t \o <<x>> /\ <<x>> \in Seq(S)
  OBVIOUS
<1>2. s \o t \in Seq(S)
  BY ConcatProperties
<1>3. Append(s \o t, x) = (s \o t) \o <<x>>
  BY <1>2
<1>. QED  BY <1>1, <1>3, ConcatAssociative

-----------------------------------------------------------------------------
(* The slot clients_find() gives *)

LEMMA LowestIn == ASSUME NEW S, S \subseteq Nat, S # {} PROVE LowestOf(S) \in S
<1>1. PICK i \in S : \A j \in S : ~(<<j, i>> \in OpToRel(<, Nat))
  BY NatLessThanWellFounded, WFMin, Zenon
<1>2. \A j \in S : i <= j
  <2>. TAKE j \in S
  <2>1. i \in Nat /\ j \in Nat
    OBVIOUS
  <2>2. ~(j < i)
    BY <1>1, <2>1, Zenon DEF OpToRel
  <2>. QED  BY <2>1, <2>2
<1>. QED  BY <1>2 DEF LowestOf

(* It is the pid's, or nobody's. *)
LEMMA FoundSlot ==
    ASSUME NEW pid, NEW i, i = ClientsFind(pid)
    PROVE  /\ i \in Slot \cup {0}
           /\ SlotsOf(pid) # {} => i \in SlotsOf(pid)
           /\ SlotsOf(pid) = {} /\ i # 0 => i \in Available
<1>1. Slot \subseteq Nat /\ 0 \notin Slot
  BY SizesAssumption DEF Slot
<1>2. SlotsOf(pid) \subseteq Slot /\ Available \subseteq Slot
  BY DEF SlotsOf, Available
<1>. QED  BY <1>1, <1>2, LowestIn DEF ClientsFind

(* What clients_find() finds it finds again. *)
LEMMA FoundAgain ==
    ASSUME NEW pid, NEW i \in Slot, i = ClientsFind(pid),
           slots' = [j \in Slot |-> IF j = i THEN [slots[j] EXCEPT !.pid = pid] ELSE slots[j]],
           slots \in [Slot -> [pid : Pids \cup {NoPid}, fd : Client \cup {Nobody}]]
    PROVE  /\ SlotsOf(pid)' # {} /\ ClientsFind(pid)' = i
           /\ \A j \in Slot : slots'[j].fd = slots[j].fd
           /\ \A j \in Slot : slots'[j].pid = IF j = i THEN pid ELSE slots[j].pid
<1>1. /\ \A j \in Slot : slots'[j].fd = slots[j].fd
      /\ \A j \in Slot : slots'[j].pid = IF j = i THEN pid ELSE slots[j].pid
  OBVIOUS
<1>2. SlotsOf(pid)' = SlotsOf(pid) \cup {i}
  BY <1>1 DEF SlotsOf
<1>3. CASE SlotsOf(pid) # {}
  <2>1. SlotsOf(pid)' = SlotsOf(pid)
    BY <1>2, <1>3, FoundSlot
  <2>. QED  BY <1>1, <1>3, <2>1 DEF ClientsFind
<1>4. CASE SlotsOf(pid) = {}
  <2>1. SlotsOf(pid)' = {i}
    BY <1>2, <1>4
  <2>2. LowestOf({i}) = i
    <3>1. {i} \subseteq Nat /\ {i} # {}
      BY SizesAssumption DEF Slot
    <3>2. LowestOf({i}) \in {i}
      BY <3>1, LowestIn, Zenon
    <3>. QED  BY <3>2
  <2>. QED  BY <1>1, <2>1, <2>2 DEF ClientsFind
<1>. QED  BY <1>3, <1>4

-----------------------------------------------------------------------------
(* The inductive invariant *)

Sent == [from : Client, n : 0 .. MaxSends]     \* the messages of clients

(* Only clients send, and each under the pid it has. *)
Senders ==
    /\ requests \in Seq(Sent)
    /\ \A p \in Pids : pc[p] # "off" => ClientOf(p) \in Client

(* read() of the server's FIFO never gives 0: the server is a writer of it.  *)
OwnWriter == srv \in {"receive", "openClient", "opening", "reply"} => ownWriter

(* Between receive and reply sq_msg is a client's, and its pid has a slot,   *)
(* without a descriptor as long as the server has to open one.               *)
InHand ==
    /\ srv \in {"openClient", "opening", "reply"} => msg \in Sent /\ SlotsOf(msg.from[1]) # {}
    /\ srv \in {"openClient", "opening"} => slots[ClientsFind(msg.from[1])].fd = Nobody

(* The name of a FIFO has the pid of its client, and so has its slot; what    *)
(* the server waits for in open() was at the path of the pid it answers.     *)
Owners ==
    /\ srv = "opening" /\ opening # Nobody => opening[1] = msg.from[1]
    /\ \A p \in Pids : path[p] # Nobody => path[p][1] = p
    /\ \A i \in Slot : slots[i].fd # Nobody => slots[i].fd[1] = slots[i].pid

SmiInv == TypeOK /\ Senders /\ OwnWriter /\ InHand /\ Owners

LEMMA SmiInit == Init => SmiInv
<1>. SUFFICES ASSUME Init PROVE SmiInv
  OBVIOUS
<1>1. 0 \in 0 .. MaxSends /\ 0 \in 0 .. MaxRuns /\ 0 <= FifoCapacity
  BY SizesAssumption
<1>2. requests \in Seq(Message) /\ requests \in Seq(Sent) /\ Len(requests) = 0
  BY DEF Init
<1>3. msg \in Message
  BY <1>1 DEF Init, Message
<1>4. replies \in [Pids -> Seq(Message)] /\ \A p \in Pids : Len(replies[p]) = 0
  BY DEF Init
<1>5. TypeOK
  BY <1>1, <1>2, <1>3, <1>4 DEF Init, TypeOK, clients_bgn
<1>6. Senders /\ OwnWriter /\ InHand /\ Owners
  BY <1>2 DEF Init, Senders, OwnWriter, InHand, Owners, clients_bgn
<1>. QED  BY <1>5, <1>6 DEF SmiInv

-----------------------------------------------------------------------------
(* The steps of the server *)

(* What a client can do leaves the server's own memory alone. *)
LEMMA ServerKeeps ==
    ASSUME SmiInv, UNCHANGED <<srv, msg, slots, ownWriter, opening>>
    PROVE  /\ OwnWriter' /\ InHand'
           /\ srv' = "opening" /\ opening' # Nobody => opening'[1] = msg'.from[1]
           /\ \A i \in Slot : slots'[i].fd # Nobody => slots'[i].fd[1] = slots'[i].pid
BY DEF SmiInv, OwnWriter, InHand, Owners, SlotsOf, ClientsFind, Available

(* The question that is taken from the FIFO, and the slot it finds. *)
LEMMA Received ==
    ASSUME SmiInv, ServerReceive
    PROVE  /\ requests # <<>> /\ msg' = Head(requests) /\ requests' = Tail(requests)
           /\ msg' \in Sent /\ requests' \in Seq(Sent) /\ Len(requests') <= FifoCapacity
           /\ msg'.from \in Client /\ msg'.from[1] \in Pids
           /\ srv' = AfterFind(ClientsFind(msg'.from[1]))
<1>1. requests # <<>> /\ requests \in Seq(Sent) /\ Len(requests) <= FifoCapacity
  BY DEF ServerReceive, SmiInv, OwnWriter, ServerWriter, Senders, TypeOK
<1>2. /\ Head(requests) \in Sent /\ Tail(requests) \in Seq(Sent)
      /\ Len(Tail(requests)) = Len(requests) - 1 /\ Len(requests) \in Nat
  BY <1>1, Rejoined, LenProperties
<1>3. Len(Tail(requests)) <= FifoCapacity
  BY <1>1, <1>2, SizesAssumption
<1>4. msg' = Head(requests) /\ requests' = Tail(requests)
  BY <1>1 DEF ServerReceive
<1>5. msg'.from \in Client /\ msg'.from[1] \in Pids
  BY <1>2, <1>4 DEF Sent, Client
<1>. QED  BY <1>1, <1>2, <1>3, <1>4, <1>5 DEF ServerReceive

LEMMA ReceiveStep == ASSUME SmiInv, ServerReceive PROVE SmiInv'
<1>1. PICK pid \in Pids : pid = msg'.from[1]
  BY Received
<1>2. PICK i : i = ClientsFind(pid)
  OBVIOUS
<1>3. /\ msg' \in Sent /\ requests' \in Seq(Sent) /\ Len(requests') <= FifoCapacity
      /\ msg'.from \in Client /\ srv' = AfterFind(i)
  BY <1>1, <1>2, Received
<1>4. /\ slots' = [j \in Slot |-> IF j = i THEN [slots[j] EXCEPT !.pid = pid] ELSE slots[j]]
      /\ dropped' = IF i = 0 THEN dropped \cup {msg'.from} ELSE dropped
      /\ srv = "receive" /\ ownWriter
      /\ UNCHANGED <<ownWriter, exists, met, opening, found, path, replies, clientVars>>
  BY <1>1, <1>2 DEF ServerReceive, SmiInv, OwnWriter
<1>5. slots \in [Slot -> [pid : Pids \cup {NoPid}, fd : Client \cup {Nobody}]]
  BY DEF SmiInv, TypeOK
<1>6. requests' \in Seq(Message) /\ msg' \in Message
  <2>1. Sent \subseteq Message
    BY DEF Sent, Message
  <2>. QED  BY <1>3, <2>1, SeqMonotonic
<1>7. srv' \in {"receive", "openClient", "reply"}
  BY <1>3 DEF AfterFind
<1>8. slots' \in [Slot -> [pid : Pids \cup {NoPid}, fd : Client \cup {Nobody}]]
  BY <1>4, <1>5
<1>9. dropped' \subseteq Client
  BY <1>3, <1>4 DEF SmiInv, TypeOK
<1>10. TypeOK'
  BY <1>3, <1>4, <1>6, <1>7, <1>8, <1>9 DEF SmiInv, TypeOK, clientVars
<1>11. Senders' /\ OwnWriter'
  BY <1>3, <1>4 DEF SmiInv, Senders, OwnWriter, ClientOf, clientVars
<1>12. CASE i = 0
  <2>1. slots' = slots /\ srv' = "receive"
    <3>1. \A j \in Slot : j # i
      BY <1>12, SizesAssumption DEF Slot
    <3>. QED  BY <1>3, <1>4, <1>5, <1>12, <3>1 DEF AfterFind
  <2>. QED  BY <1>4, <1>10, <1>11, <2>1 DEF SmiInv, InHand, Owners
<1>13. CASE i # 0
  <2>1. i \in Slot /\ (i \in SlotsOf(pid) \/ i \in Available)
    BY <1>2, <1>13, FoundSlot
  <2>2. /\ SlotsOf(pid)' # {} /\ ClientsFind(pid)' = i
        /\ \A j \in Slot : slots'[j].fd = slots[j].fd
        /\ \A j \in Slot : slots'[j].pid = IF j = i THEN pid ELSE slots[j].pid
    BY <1>2, <1>4, <1>5, <2>1, FoundAgain
  <2>3. srv' # "opening" /\ (srv' = "openClient" => slots[i].fd = Nobody)
    BY <1>3, <1>13 DEF AfterFind
  <2>4. InHand'
    <3>1. (SlotsOf(msg.from[1]))' # {} /\ (ClientsFind(msg.from[1]))' = i
      BY <1>1, <2>2 DEF SlotsOf, ClientsFind, Available
    <3>. QED  BY <1>3, <2>1, <2>2, <2>3, <3>1 DEF InHand
  <2>5. Owners'
    BY <1>4, <2>1, <2>2, <2>3 DEF SmiInv, Owners, SlotsOf, Available
  <2>. QED  BY <1>10, <1>11, <2>4, <2>5 DEF SmiInv
<1>. QED  BY <1>12, <1>13

LEMMA StartStep == ASSUME SmiInv, ServerStart \/ ServerOpen PROVE SmiInv'
<1>1. /\ srv' \in {"open", "receive"} /\ (srv' = "receive" => ownWriter') /\ exists' \in BOOLEAN
      /\ ownWriter' \in BOOLEAN
      /\ UNCHANGED <<msg, slots, dropped, met, opening, found, requests, path, replies, clientVars>>
  BY DEF ServerStart, ServerOpen, SmiInv, TypeOK
<1>2. TypeOK'
  BY <1>1 DEF SmiInv, TypeOK, clientVars
<1>. QED  BY <1>1, <1>2 DEF SmiInv, Senders, OwnWriter, InHand, Owners, ClientOf, clientVars

LEMMA LookupStep == ASSUME SmiInv, ServerLookup PROVE SmiInv'
<1>1. PICK pid \in Pids : pid = msg.from[1]
  BY DEF ServerLookup, SmiInv, InHand, Sent, Client
<1>2. /\ srv = "openClient" /\ srv' = "opening" /\ opening' = path[pid] /\ found' \in BOOLEAN
      /\ UNCHANGED <<msg, slots, ownWriter, exists, dropped, met, requests, path, replies, clientVars>>
  BY <1>1 DEF ServerLookup, FifoOf
<1>3. path[pid] \in Client \cup {Nobody} /\ (path[pid] # Nobody => path[pid][1] = pid)
  BY DEF SmiInv, TypeOK, Owners
<1>4. TypeOK'
  BY <1>2, <1>3 DEF SmiInv, TypeOK, clientVars
<1>5. Senders' /\ OwnWriter' /\ InHand'
  BY <1>2 DEF SmiInv, Senders, OwnWriter, InHand, ClientOf, clientVars, SlotsOf, ClientsFind, Available
<1>6. Owners'
  BY <1>1, <1>2, <1>3 DEF SmiInv, Owners
<1>. QED  BY <1>4, <1>5, <1>6 DEF SmiInv

LEMMA OpenClientStep == ASSUME SmiInv, ServerOpenClient PROVE SmiInv'
<1>1. PICK pid \in Pids : pid = msg.from[1]
  BY DEF ServerOpenClient, SmiInv, InHand, Sent, Client
<1>2. PICK i \in SlotsOf(pid) : i = ClientsFind(pid)
  BY <1>1, FoundSlot DEF ServerOpenClient, SmiInv, InHand
<1>3. /\ srv = "opening" /\ srv' = "reply" /\ slots' = [slots EXCEPT ![i].fd = opening]
      /\ opening' = Nobody /\ found' = FALSE
      /\ UNCHANGED <<msg, ownWriter, exists, dropped, met, requests, path, replies, clientVars>>
  BY <1>1, <1>2 DEF ServerOpenClient
<1>4. /\ slots \in [Slot -> [pid : Pids \cup {NoPid}, fd : Client \cup {Nobody}]]
      /\ opening \in Client \cup {Nobody} /\ (opening # Nobody => opening[1] = pid)
  BY <1>1, <1>3 DEF SmiInv, TypeOK, Owners
<1>5. i \in Slot /\ slots[i].pid = pid
  BY <1>2 DEF SlotsOf
<1>6. /\ slots' \in [Slot -> [pid : Pids \cup {NoPid}, fd : Client \cup {Nobody}]]
      /\ \A j \in Slot : slots'[j].pid = slots[j].pid
      /\ \A j \in Slot : slots'[j].fd = IF j = i THEN opening ELSE slots[j].fd
  BY <1>3, <1>4, <1>5
<1>7. TypeOK'
  BY <1>3, <1>6 DEF SmiInv, TypeOK, clientVars
<1>8. Senders' /\ OwnWriter'
  BY <1>3 DEF SmiInv, Senders, OwnWriter, ClientOf, clientVars
<1>9. InHand'
  <2>1. msg' \in Sent /\ msg'.from[1] = pid
    BY <1>1, <1>3 DEF SmiInv, InHand
  <2>2. i \in {j \in Slot : slots'[j].pid = pid}
    BY <1>5, <1>6
  <2>. QED  BY <1>3, <2>1, <2>2 DEF InHand, SlotsOf
<1>10. Owners'
  BY <1>3, <1>4, <1>5, <1>6 DEF SmiInv, Owners
<1>. QED  BY <1>7, <1>8, <1>9, <1>10 DEF SmiInv

(* The answer, in the FIFO of its pid. *)
LEMMA Replied ==
    ASSUME SmiInv, ServerReply
    PROVE  \/ srv' \in {"receive", "dead"} /\ UNCHANGED replies
           \/ /\ srv' = "receive" /\ Len(replies[msg.from[1]]) < FifoCapacity
              /\ replies' = [replies EXCEPT ![msg.from[1]] = Append(@, msg)]
<1>1. PICK pid \in Pids : pid = msg.from[1]
  BY DEF ServerReply, SmiInv, InHand, Sent, Client
<1>2. PICK i \in SlotsOf(pid) : i = ClientsFind(pid)
  BY <1>1, FoundSlot DEF ServerReply, SmiInv, InHand
<1>3. slots[i].fd # Nobody => slots[i].fd[1] = pid
  BY <1>2 DEF SmiInv, Owners, SlotsOf
<1>. QED  BY <1>1, <1>2, <1>3 DEF ServerReply

LEMMA ReplyStep == ASSUME SmiInv, ServerReply PROVE SmiInv'
<1>1. msg \in Sent /\ msg \in Message /\ msg.from[1] \in Pids
  BY DEF ServerReply, SmiInv, InHand, TypeOK, Sent, Client
<1>2. PICK pid \in Pids : pid = msg.from[1]
  BY <1>1
<1>3. /\ srv' \in {"receive", "dead"} /\ ownWriter' = (ownWriter /\ srv' # "dead") /\ ownWriter
      /\ UNCHANGED <<msg, slots, exists, dropped, met, opening, found, requests, path, clientVars>>
  BY Replied DEF ServerReply, SmiInv, OwnWriter
<1>4. replies' \in [Pids -> Seq(Message)] /\ \A p \in Pids : Len(replies'[p]) <= FifoCapacity
  <2>1. replies \in [Pids -> Seq(Message)] /\ \A p \in Pids : Len(replies[p]) <= FifoCapacity
    BY DEF SmiInv, TypeOK
  <2>2. CASE UNCHANGED replies
    BY <2>1, <2>2
  <2>3. CASE /\ Len(replies[pid]) < FifoCapacity
             /\ replies' = [replies EXCEPT ![pid] = Append(@, msg)]
    <3>1. /\ Append(replies[pid], msg) \in Seq(Message)
          /\ Len(Append(replies[pid], msg)) = Len(replies[pid]) + 1 /\ Len(replies[pid]) \in Nat
      BY <1>1, <2>1, AppendedLast, LenProperties
    <3>2. Len(Append(replies[pid], msg)) <= FifoCapacity
      BY <2>3, <3>1, SizesAssumption
    <3>. QED  BY <2>1, <2>3, <3>1, <3>2
  <2>. QED  BY <1>2, <2>2, <2>3, Replied
<1>5. TypeOK'
  BY <1>3, <1>4 DEF SmiInv, TypeOK, clientVars
<1>6. Senders' /\ OwnWriter' /\ InHand' /\ Owners'
  BY <1>3 DEF SmiInv, Senders, OwnWriter, InHand, Owners, ClientOf, clientVars
<1>. QED  BY <1>5, <1>6 DEF SmiInv

-----------------------------------------------------------------------------
(* The steps of the clients *)

(* A client's step is all right when it keeps the types, sends as the client *)
(* it is, and leaves no other FIFO than its own at its path.                 *)
LEMMA ClientKeeps ==
    ASSUME SmiInv, TypeOK', UNCHANGED serverVars, requests' \in Seq(Sent),
           \A p \in Pids : pc'[p] # "off" => ClientOf(p)' \in Client,
           \A p \in Pids : path'[p] # Nobody => path'[p][1] = p
    PROVE  SmiInv'
<1>1. UNCHANGED <<srv, msg, slots, ownWriter, opening>>
  BY DEF serverVars
<1>2. OwnWriter' /\ InHand' /\ Owners'
  BY <1>1, ServerKeeps DEF Owners
<1>. QED  BY <1>2 DEF SmiInv, Senders

LEMMA ClientStartStep == ASSUME SmiInv, NEW p \in Pids, ClientStart(p) PROVE SmiInv'
<1>1. /\ run[p] \in 0 .. MaxRuns /\ run[p] < MaxRuns
      /\ pc' = [pc EXCEPT ![p] = "connect"] /\ run' = [run EXCEPT ![p] = run[p] + 1]
      /\ sends' = [sends EXCEPT ![p] = 0]
      /\ UNCHANGED <<serverVars, met, found, requests, path, replies, connected>>
  BY DEF ClientStart, SmiInv, TypeOK
<1>2. run[p] + 1 \in 1 .. MaxRuns /\ run[p] + 1 \in 0 .. MaxRuns /\ 0 \in 0 .. MaxSends
  BY <1>1, SizesAssumption
<1>3. TypeOK'
  BY <1>1, <1>2 DEF SmiInv, TypeOK, serverVars
<1>4. \A q \in Pids : pc'[q] # "off" => ClientOf(q)' \in Client
  BY <1>1, <1>2 DEF SmiInv, TypeOK, Senders, ClientOf, Client
<1>5. /\ requests' \in Seq(Sent) /\ UNCHANGED serverVars
      /\ \A q \in Pids : path'[q] # Nobody => path'[q][1] = q
  BY <1>1 DEF SmiInv, Senders, Owners
<1>. QED  BY <1>3, <1>4, <1>5, ClientKeeps

(* The steps that neither send nor begin a run nor name a FIFO. *)
LEMMA ClientPlainStep ==
    ASSUME SmiInv, NEW p \in Pids,
           \/ ClientConnect(p) \/ ClientOpen(p) \/ ClientAsk(p) \/ ClientReceive(p) \/ ClientEnd(p)
    PROVE  SmiInv'
<1>1. PICK at \in {"off", "unlink", "idle", "send"} : pc' = [pc EXCEPT ![p] = at]
  BY DEF ClientConnect, ClientOpen, ClientAsk, ClientReceive, ClientEnd
<1>2. pc[p] # "off" /\ UNCHANGED <<serverVars, requests, path, run>>
  BY DEF ClientConnect, ClientOpen, ClientAsk, ClientReceive, ClientEnd
<1>3. met' \in BOOLEAN /\ found' \in BOOLEAN /\ connected' \in [Pids -> BOOLEAN]
  <2>1. exists \in BOOLEAN /\ met \in BOOLEAN /\ found \in BOOLEAN /\ connected \in [Pids -> BOOLEAN]
    BY DEF SmiInv, TypeOK
  <2>2. CASE ClientConnect(p)
    BY <2>1, <2>2, Zenon DEF ClientConnect
  <2>3. CASE ClientEnd(p)
    BY <2>1, <2>3, Zenon DEF ClientEnd
  <2>4. CASE ClientOpen(p) \/ ClientAsk(p) \/ ClientReceive(p)
    BY <2>1, <2>4, Zenon DEF ClientOpen, ClientAsk, ClientReceive
  <2>. QED  BY <2>2, <2>3, <2>4
<1>4. sends' \in [Pids -> 0 .. MaxSends]
  <2>1. sends \in [Pids -> 0 .. MaxSends] /\ MaxSends \in Nat
    BY SizesAssumption DEF SmiInv, TypeOK
  <2>2. CASE ClientAsk(p)
    BY <2>1, <2>2 DEF ClientAsk
  <2>3. CASE UNCHANGED sends
    BY <2>1, <2>3
  <2>. QED  BY <2>2, <2>3 DEF ClientConnect, ClientOpen, ClientReceive, ClientEnd
<1>5. replies' \in [Pids -> Seq(Message)] /\ \A q \in Pids : Len(replies'[q]) <= FifoCapacity
  <2>1. replies \in [Pids -> Seq(Message)] /\ \A q \in Pids : Len(replies[q]) <= FifoCapacity
    BY DEF SmiInv, TypeOK
  <2>2. CASE replies' = [replies EXCEPT ![p] = <<>>]
    <3>1. <<>> \in Seq(Message) /\ Len(<<>>) <= FifoCapacity
      BY SizesAssumption
    <3>. QED  BY <2>1, <2>2, <3>1
  <2>3. CASE UNCHANGED replies
    BY <2>1, <2>3
  <2>. QED  BY <2>2, <2>3 DEF ClientConnect, ClientOpen, ClientAsk, ClientReceive, ClientEnd
<1>6. TypeOK'
  BY <1>1, <1>2, <1>3, <1>4, <1>5 DEF SmiInv, TypeOK, serverVars
<1>7. \A q \in Pids : pc'[q] # "off" => ClientOf(q)' \in Client
  BY <1>1, <1>2 DEF SmiInv, TypeOK, Senders, ClientOf
<1>8. /\ requests' \in Seq(Sent) /\ UNCHANGED serverVars
      /\ \A q \in Pids : path'[q] # Nobody => path'[q][1] = q
  BY <1>2 DEF SmiInv, Senders, Owners
<1>. QED  BY <1>6, <1>7, <1>8, ClientKeeps

(* unlink() and mkfifo() of /tmp/smififo<pid>. *)
LEMMA ClientNameStep ==
    ASSUME SmiInv, NEW p \in Pids, ClientUnlink(p) \/ ClientMkfifo(p) \/ ClientClose(p)
    PROVE  SmiInv'
<1>1. PICK at \in {"mkfifo", "open", "closed"} : pc' = [pc EXCEPT ![p] = at]
  BY DEF ClientUnlink, ClientMkfifo, ClientClose
<1>2. PICK fifo \in {Nobody, ClientOf(p)} : path' = [path EXCEPT ![p] = fifo]
  BY DEF ClientUnlink, ClientMkfifo, ClientClose
<1>3. pc[p] # "off" /\ UNCHANGED <<serverVars, met, found, requests, replies, run, sends>>
  BY DEF ClientUnlink, ClientMkfifo, ClientClose
<1>4. connected' \in [Pids -> BOOLEAN]
  BY DEF ClientUnlink, ClientMkfifo, ClientClose, SmiInv, TypeOK
<1>5. ClientOf(p) \in Client /\ ClientOf(p)[1] = p
  BY <1>3 DEF SmiInv, Senders, ClientOf
<1>6. TypeOK'
  <2>1. /\ pc \in [Pids -> {"off", "connect", "unlink", "mkfifo", "open", "idle", "send", "sent", "closed"}]
        /\ path \in [Pids \cup {NoPid} -> Client \cup {Nobody}]
    BY DEF SmiInv, TypeOK
  <2>2. pc' \in [Pids -> {"off", "connect", "unlink", "mkfifo", "open", "idle", "send", "sent", "closed"}]
    BY <1>1, <2>1
  <2>3. path' \in [Pids \cup {NoPid} -> Client \cup {Nobody}]
    BY <1>2, <1>5, <2>1
  <2>. QED  BY <1>3, <1>4, <2>2, <2>3 DEF SmiInv, TypeOK, serverVars
<1>7. \A q \in Pids : pc'[q] # "off" => ClientOf(q)' \in Client
  BY <1>1, <1>3 DEF SmiInv, TypeOK, Senders, ClientOf
<1>8. \A q \in Pids : path'[q] # Nobody => path'[q][1] = q
  BY <1>2, <1>5 DEF SmiInv, TypeOK, Owners
<1>9. requests' \in Seq(Sent) /\ UNCHANGED serverVars
  BY <1>3 DEF SmiInv, Senders
<1>. QED  BY <1>6, <1>7, <1>8, <1>9, ClientKeeps

(* write() to the server: it fails, it is the end, or the question is the *)
(* last of those the server has not answered.                              *)
LEMMA ClientSendStep == ASSUME SmiInv, NEW p \in Pids, ClientSend(p) PROVE SmiInv'
<1>1. pc[p] = "send" /\ UNCHANGED <<serverVars, met, found, path, run, sends>>
  BY DEF ClientSend
<1>2. PICK at \in {"off", "sent"} : pc' = [pc EXCEPT ![p] = at]
  BY DEF ClientSend
<1>3. connected' \in [Pids -> BOOLEAN]
  BY DEF ClientSend, SmiInv, TypeOK
<1>4. replies' \in [Pids -> Seq(Message)] /\ \A q \in Pids : Len(replies'[q]) <= FifoCapacity
  <2>1. replies \in [Pids -> Seq(Message)] /\ \A q \in Pids : Len(replies[q]) <= FifoCapacity
    BY DEF SmiInv, TypeOK
  <2>2. <<>> \in Seq(Message) /\ Len(<<>>) <= FifoCapacity
    BY SizesAssumption
  <2>3. UNCHANGED replies \/ replies' = [replies EXCEPT ![p] = <<>>]
    BY DEF ClientSend
  <2>. QED  BY <2>1, <2>2, <2>3
<1>5. requests' \in Seq(Sent) /\ requests' \in Seq(Message) /\ Len(requests') <= FifoCapacity
  <2>1. requests \in Seq(Sent) /\ Len(requests) <= FifoCapacity /\ Len(requests) \in Nat
    BY LenProperties DEF SmiInv, Senders, TypeOK
  <2>2. PICK m : m = [from |-> ClientOf(p), n |-> sends[p]]
    OBVIOUS
  <2>3. m \in Sent
    BY <1>1, <2>2 DEF SmiInv, TypeOK, Senders, Sent
  <2>4. Append(requests, m) \in Seq(Sent) /\ Len(Append(requests, m)) = Len(requests) + 1
    BY <2>1, <2>3, AppendedLast
  <2>5. \/ UNCHANGED requests
        \/ Len(requests) < FifoCapacity /\ requests' = Append(requests, m)
    BY <2>2 DEF ClientSend
  <2>6. requests' \in Seq(Sent) /\ Len(requests') <= FifoCapacity
    BY <2>1, <2>4, <2>5, SizesAssumption
  <2>7. Sent \subseteq Message
    BY DEF Sent, Message
  <2>. QED  BY <2>6, <2>7, SeqMonotonic
<1>6. TypeOK'
  BY <1>1, <1>2, <1>3, <1>4, <1>5 DEF SmiInv, TypeOK, serverVars
<1>7. \A q \in Pids : pc'[q] # "off" => ClientOf(q)' \in Client
  BY <1>1, <1>2 DEF SmiInv, TypeOK, Senders, ClientOf
<1>8. \A q \in Pids : path'[q] # Nobody => path'[q][1] = q
  BY <1>1 DEF SmiInv, Owners
<1>. QED  BY <1>1, <1>5, <1>6, <1>7, <1>8, ClientKeeps

-----------------------------------------------------------------------------
LEMMA SmiNext == SmiInv /\ [Next]_vars => SmiInv'
<1>. SUFFICES ASSUME SmiInv, [Next]_vars PROVE SmiInv'
  OBVIOUS
<1>1. CASE Server
  BY <1>1, StartStep, ReceiveStep, LookupStep, OpenClientStep, ReplyStep DEF Server
<1>2. ASSUME NEW p \in Pids, ClientStart(p) \/ ClientMoves(p) \/ ClientEnd(p) PROVE SmiInv'
  BY <1>2, ClientStartStep, ClientPlainStep, ClientNameStep, ClientSendStep DEF ClientMoves
<1>3. CASE UNCHANGED vars
  BY <1>3, ServerKeeps
     DEF vars, SmiInv, TypeOK, Senders, OwnWriter, InHand, Owners, ClientOf, SlotsOf, ClientsFind, Available
<1>. QED  BY <1>1, <1>2, <1>3 DEF Next

LEMMA Invariance == Spec => []SmiInv
BY SmiInit, SmiNext, PTL DEF Spec

(* The types, for every value of the constants: nothing the calls of the     *)
(* interface or the end of a client does leaves a variable out of its range. *)
THEOREM TypeCorrect == Spec => []TypeOK
<1>1. SmiInv => TypeOK
  BY DEF SmiInv
<1>. QED  BY <1>1, Invariance, PTL

(* clients_find() in smi_send_release() finds the slot that the one in       *)
(* smi_receive_getaddr() found, so that sq_clients[-1] is never used.        *)
THEOREM SlotCorrect == Spec => []ReplyHasSlot
<1>1. SmiInv => ReplyHasSlot
  BY DEF SmiInv, InHand, ReplyHasSlot
<1>. QED  BY <1>1, Invariance, PTL

(* No step of anybody takes its slot or its descriptor from a client that    *)
(* has both, however many clients there are for the slots.                   *)
THEOREM SlotsCorrect == Spec => SlotsKept
<1>1. ASSUME SmiInv, [Next]_vars
      PROVE  \A i \in Slot : slots[i].fd # Nobody => slots'[i] = slots[i]
  <2>1. CASE ServerReceive
    <3>1. PICK pid \in Pids : pid = msg'.from[1]
      BY <1>1, <2>1, Received
    <3>2. PICK i : i = ClientsFind(pid)
      OBVIOUS
    <3>3. slots' = [j \in Slot |-> IF j = i THEN [slots[j] EXCEPT !.pid = pid] ELSE slots[j]]
      BY <2>1, <3>1, <3>2 DEF ServerReceive
    <3>4. i \in Slot => slots[i].pid = pid \/ slots[i].fd = Nobody
      BY <3>2, FoundSlot, SizesAssumption DEF SlotsOf, Available, Slot
    <3>5. slots \in [Slot -> [pid : Pids \cup {NoPid}, fd : Client \cup {Nobody}]]
      BY <1>1 DEF SmiInv, TypeOK
    <3>. QED  BY <3>3, <3>4, <3>5
  <2>2. CASE ServerOpenClient
    <3>1. PICK i : i = ClientsFind(msg.from[1])
      OBVIOUS
    <3>2. slots[i].fd = Nobody
      BY <1>1, <2>2, <3>1 DEF ServerOpenClient, SmiInv, InHand
    <3>3. slots' = [slots EXCEPT ![i].fd = opening]
      BY <2>2, <3>1 DEF ServerOpenClient
    <3>4. slots \in [Slot -> [pid : Pids \cup {NoPid}, fd : Client \cup {Nobody}]]
      BY <1>1 DEF SmiInv, TypeOK
    <3>. QED  BY <3>2, <3>3, <3>4
  <2>3. CASE UNCHANGED slots
    BY <2>3
  <2>. QED
    BY <1>1, <2>1, <2>2, <2>3
       DEF Next, Server, ServerStart, ServerOpen, ServerLookup, ServerReply, ClientMoves, ClientStart,
           ClientConnect, ClientUnlink, ClientMkfifo, ClientOpen, ClientAsk, ClientSend,
           ClientReceive, ClientClose, ClientEnd, serverVars, vars
<1>. QED  BY <1>1, Invariance, PTL DEF Spec, SlotsKept

-----------------------------------------------------------------------------
(* The refinement.  The questions in hand and in the FIFO are those asked;   *)
(* to take one from the FIFO is nothing the others can see.                  *)

(* What Exchange sees of a step of the server's. *)
LEMMA ServerExchanges ==
    ASSUME SmiInv, Server
    PROVE  EX!Answer \/ EX!Drop \/ UNCHANGED <<inHand \o requests, replies>>
<1>. DEFINE asked == inHand \o requests
<1>1. requests \in Seq(Message) /\ msg \in Message
  BY DEF SmiInv, TypeOK
<1>2. CASE ServerReceive
  <2>1. /\ requests # <<>> /\ msg' = Head(requests) /\ requests' = Tail(requests)
        /\ UNCHANGED replies
    BY <1>2, Received DEF ServerReceive
  <2>2. inHand = <<>> /\ asked = requests
    BY <1>1, <1>2, ConcatEmptySeq DEF ServerReceive, inHand
  <2>3. /\ Head(requests) \in Message /\ Tail(requests) \in Seq(Message)
        /\ <<Head(requests)>> \o Tail(requests) = requests
    BY <1>1, <2>1, Rejoined
  <2>4. inHand' = <<Head(requests)>> \/ inHand' = <<>>
    BY <2>1 DEF inHand
  <2>5. CASE inHand' = <<Head(requests)>>
    BY <2>1, <2>2, <2>3, <2>5
  <2>6. CASE inHand' = <<>>
    <3>1. asked' = Tail(requests)
      BY <2>1, <2>3, <2>6, ConcatEmptySeq
    <3>2. EX!Drop
      BY <2>1, <2>2, <3>1 DEF EX!Drop, EX!Taken
    <3>. QED  BY <3>2
  <2>. QED  BY <2>4, <2>5, <2>6
<1>3. CASE ServerReply
  <2>1. /\ asked \in Seq(Message) /\ asked # <<>> /\ Head(asked) = msg /\ Tail(asked) = requests
    BY <1>1, <1>3, Pushed DEF ServerReply, inHand
  <2>2. UNCHANGED <<msg, requests>>
    BY <1>3 DEF ServerReply
  <2>3. srv' \in {"receive", "dead"}
    BY <1>3, Replied
  <2>4. asked' = requests
    BY <1>1, <2>2, <2>3, ConcatEmptySeq DEF inHand
  <2>5. EX!Taken
    BY <2>1, <2>4 DEF EX!Taken
  <2>6. CASE UNCHANGED replies
    BY <2>5, <2>6 DEF EX!Drop
  <2>7. CASE replies' = [replies EXCEPT ![msg.from[1]] = Append(@, msg)]
    <3>1. EX!Answer
      BY <2>1, <2>5, <2>7 DEF EX!Answer, Asker
    <3>. QED  BY <3>1
  <2>. QED  BY <1>3, <2>6, <2>7, Replied
<1>4. CASE ServerStart \/ ServerOpen \/ ServerLookup \/ ServerOpenClient
  <2>1. UNCHANGED <<inHand, requests, replies>>
    BY <1>4 DEF ServerStart, ServerOpen, ServerLookup, ServerOpenClient, inHand
  <2>. QED  BY <2>1
<1>. QED  BY <1>2, <1>3, <1>4 DEF Server

LEMMA ClientExchanges ==
    ASSUME SmiInv, NEW p \in Pids, ClientStart(p) \/ ClientMoves(p) \/ ClientEnd(p)
    PROVE  LET m == [from |-> ClientOf(p), n |-> sends[p]]
           IN  \/ pc[p] = "send" /\ m \in Sent /\ EX!Ask(m)
               \/ EX!Leave(p)
               \/ UNCHANGED <<inHand \o requests, replies>>
<1>1. inHand \in Seq(Message) /\ requests \in Seq(Message)
  BY DEF SmiInv, TypeOK, inHand
<1>2. UNCHANGED inHand
  BY DEF ClientMoves, ClientStart, ClientConnect, ClientUnlink, ClientMkfifo, ClientOpen,
         ClientAsk, ClientSend, ClientReceive, ClientClose, ClientEnd, serverVars, inHand
<1>3. CASE ClientEnd(p)
  <2>1. EX!Leave(p)
    BY <1>2, <1>3 DEF ClientEnd, EX!Leave
  <2>. QED  BY <2>1
<1>4. CASE ClientSend(p)
  <2>1. CASE UNCHANGED <<requests, replies>>
    BY <1>2, <2>1
  <2>2. CASE UNCHANGED requests /\ replies' = [replies EXCEPT ![p] = <<>>]
    <3>1. EX!Leave(p)
      BY <1>2, <2>2 DEF EX!Leave
    <3>. QED  BY <3>1
  <2>3. CASE requests' = Append(requests, [from |-> ClientOf(p), n |-> sends[p]]) /\ UNCHANGED replies
    <3>1. PICK m : m = [from |-> ClientOf(p), n |-> sends[p]]
      OBVIOUS
    <3>2. m \in Sent /\ m \in Message /\ pc[p] = "send"
      BY <1>4, <3>1 DEF ClientSend, SmiInv, TypeOK, Senders, Sent, Message
    <3>3. (inHand \o requests)' = Append(inHand \o requests, m)
      BY <1>1, <1>2, <2>3, <3>1, <3>2, AppendedLast
    <3>4. EX!Ask(m)
      BY <2>3, <3>3 DEF EX!Ask
    <3>. QED  BY <3>1, <3>2, <3>4
  <2>. QED  BY <1>4, <2>1, <2>2, <2>3 DEF ClientSend
<1>5. CASE UNCHANGED <<requests, replies>>
  BY <1>2, <1>5
<1>. QED
  BY <1>3, <1>4, <1>5
     DEF ClientMoves, ClientStart, ClientConnect, ClientUnlink, ClientMkfifo, ClientOpen,
         ClientAsk, ClientReceive, ClientClose

(* A question is answered in its turn, at most once, and only under the pid  *)
(* it came from: what smi_server.c promises with its table of descriptors    *)
(* is what Exchange promises without one.                                    *)
THEOREM ExchangeCorrect == Spec => ImplementsExchange
<1>1. Init => EX!ExchangeInit
  BY ConcatEmptySeq DEF Init, EX!ExchangeInit, inHand
<1>2. SmiInv /\ [Next]_vars => [EX!ExchangeNext]_<<inHand \o requests, replies>>
  <2>1. ASSUME UNCHANGED vars PROVE UNCHANGED <<inHand \o requests, replies>>
    BY <2>1 DEF vars, inHand
  <2>2. Sent \subseteq Message
    BY DEF Sent, Message
  <2>. QED  BY <2>1, <2>2, ServerExchanges, ClientExchanges DEF Next, EX!ExchangeNext
<1>. QED
  BY <1>1, <1>2, Invariance, PTL
     DEF Spec, ImplementsExchange, EX!ExchangeSpec, EX!exchangeVars

-----------------------------------------------------------------------------
(* The order of the answers.  Of the messages of a client those in its FIFO  *)
(* are older than the one in hand, and that is older than those the server   *)
(* has still to read.                                                        *)

Before(m, later) ==
    m.from[2] < later.from[2] \/ (m.from[2] = later.from[2] /\ m.n < later.n)

(* q: the messages asked, r: the answers in the FIFO of each pid *)
Ordered(q, r) ==
    /\ \A j, k \in 1 .. Len(q) :
          j < k /\ q[j].from[1] = q[k].from[1] => Before(q[j], q[k])
    /\ \A p \in Pids : \A a \in 1 .. Len(r[p]) :
          /\ r[p][a].from[1] = p
          /\ \A k \in 1 .. Len(q) : q[k].from[1] = p => Before(r[p][a], q[k])
          /\ \A b \in 1 .. Len(r[p]) : a < b => Before(r[p][a], r[p][b])

OneOf(m, q, r) ==
    \/ \E k \in 1 .. Len(q) : m = q[k]
    \/ \E p \in Pids : \E a \in 1 .. Len(r[p]) : m = r[p][a]

LEMMA OrderedAsk ==
    ASSUME NEW q \in Seq(Sent), NEW r \in [Pids -> Seq(Sent)], NEW m \in Sent, Ordered(q, r),
           \A l : OneOf(l, q, r) /\ l.from[1] = m.from[1] => Before(l, m)
    PROVE  /\ Append(q, m) \in Seq(Sent) /\ Ordered(Append(q, m), r)
           /\ \A l : OneOf(l, Append(q, m), r) => OneOf(l, q, r) \/ l = m
<1>. DEFINE t == Append(q, m)
<1>1. /\ t \in Seq(Sent) /\ Len(t) = Len(q) + 1 /\ Len(q) \in Nat
      /\ t[Len(q) + 1] = m /\ \A k \in 1 .. Len(q) : t[k] = q[k]
  BY AppendProperties, LenProperties
<1>. HIDE DEF t
<1>2. \A k \in 1 .. Len(t) : (k \in 1 .. Len(q) /\ t[k] = q[k]) \/ (k = Len(q) + 1 /\ t[k] = m)
  BY <1>1
<1>3. \A l : OneOf(l, t, r) => OneOf(l, q, r) \/ l = m
  BY <1>2 DEF OneOf
<1>4. /\ \A j \in 1 .. Len(q) : q[j].from[1] = m.from[1] => Before(q[j], m)
      /\ \A p \in Pids : \A a \in 1 .. Len(r[p]) : p = m.from[1] => Before(r[p][a], m)
  BY DEF OneOf, Ordered
<1>5. ASSUME NEW j \in 1 .. Len(t), NEW k \in 1 .. Len(t), j < k, t[j].from[1] = t[k].from[1]
      PROVE  Before(t[j], t[k])
  <2>1. j \in 1 .. Len(q) /\ t[j] = q[j]
    BY <1>1, <1>2, <1>5
  <2>. QED  BY <1>2, <1>4, <1>5, <2>1 DEF Ordered
<1>6. ASSUME NEW p \in Pids, NEW a \in 1 .. Len(r[p]), NEW k \in 1 .. Len(t), t[k].from[1] = p
      PROVE  Before(r[p][a], t[k])
  BY <1>2, <1>4, <1>6 DEF Ordered
<1>7. Ordered(t, r)
  BY <1>5, <1>6 DEF Ordered
<1>. QED  BY <1>1, <1>3, <1>7 DEF t

LEMMA OrderedDrop ==
    ASSUME NEW q \in Seq(Sent), NEW r \in [Pids -> Seq(Sent)], q # <<>>, Ordered(q, r)
    PROVE  /\ Tail(q) \in Seq(Sent) /\ Ordered(Tail(q), r)
           /\ \A l : OneOf(l, Tail(q), r) => OneOf(l, q, r)
<1>. DEFINE t == Tail(q)
<1>1. /\ t \in Seq(Sent) /\ Len(t) = Len(q) - 1 /\ Len(q) \in Nat
      /\ \A k \in 1 .. Len(t) : t[k] = q[k + 1]
  BY HeadTailProperties, LenProperties
<1>. HIDE DEF t
<1>2. \A k \in 1 .. Len(t) : k + 1 \in 1 .. Len(q) /\ t[k] = q[k + 1]
  BY <1>1
<1>3. ASSUME NEW j \in 1 .. Len(t), NEW k \in 1 .. Len(t), j < k, t[j].from[1] = t[k].from[1]
      PROVE  Before(t[j], t[k])
  <2>1. j + 1 \in 1 .. Len(q) /\ k + 1 \in 1 .. Len(q) /\ j + 1 < k + 1
    BY <1>1, <1>3
  <2>2. q[j + 1].from[1] = q[k + 1].from[1]
    BY <1>2, <1>3
  <2>3. Before(q[j + 1], q[k + 1])
    BY <2>1, <2>2 DEF Ordered
  <2>. QED  BY <1>2, <2>3
<1>4. Ordered(t, r)
  <2>1. ASSUME NEW p \in Pids, NEW a \in 1 .. Len(r[p]), NEW k \in 1 .. Len(t), t[k].from[1] = p
        PROVE  Before(r[p][a], t[k])
    <3>1. k + 1 \in 1 .. Len(q) /\ q[k + 1].from[1] = p
      BY <1>2, <2>1
    <3>2. Before(r[p][a], q[k + 1])
      BY <3>1 DEF Ordered
    <3>. QED  BY <1>2, <3>2
  <2>2. \A p \in Pids : \A a \in 1 .. Len(r[p]) :
            /\ r[p][a].from[1] = p
            /\ \A b \in 1 .. Len(r[p]) : a < b => Before(r[p][a], r[p][b])
    BY DEF Ordered
  <2>. QED  BY <1>3, <2>1, <2>2 DEF Ordered
<1>5. \A l : OneOf(l, t, r) => OneOf(l, q, r)
  BY <1>2 DEF OneOf
<1>. QED  BY <1>1, <1>4, <1>5 DEF t

LEMMA OrderedAnswer ==
    ASSUME NEW q \in Seq(Sent), NEW r \in [Pids -> Seq(Sent)], q # <<>>, Ordered(q, r),
           NEW s, s = [r EXCEPT ![Head(q).from[1]] = Append(@, Head(q))]
    PROVE  /\ Tail(q) \in Seq(Sent) /\ s \in [Pids -> Seq(Sent)] /\ Ordered(Tail(q), s)
           /\ \A l : OneOf(l, Tail(q), s) => OneOf(l, q, r)
<1>. DEFINE t == Tail(q)  m == Head(q)
<1>1. /\ t \in Seq(Sent) /\ Len(t) = Len(q) - 1 /\ Len(q) \in Nat /\ Len(q) > 0
      /\ m \in Sent /\ m = q[1] /\ \A k \in 1 .. Len(t) : t[k] = q[k + 1]
  BY HeadTailProperties, LenProperties, EmptySeq
<1>2. Ordered(t, r) /\ \A l : OneOf(l, t, r) => OneOf(l, q, r)
  BY OrderedDrop
<1>. HIDE DEF t, m
<1>3. PICK pid \in Pids : pid = m.from[1]
  BY <1>1 DEF Sent, Client
<1>4. s = [r EXCEPT ![pid] = Append(r[pid], m)]
  BY <1>3 DEF m
<1>5. /\ Append(r[pid], m) \in Seq(Sent) /\ Len(Append(r[pid], m)) = Len(r[pid]) + 1
      /\ Len(r[pid]) \in Nat /\ Append(r[pid], m)[Len(r[pid]) + 1] = m
      /\ \A a \in 1 .. Len(r[pid]) : Append(r[pid], m)[a] = r[pid][a]
  BY <1>1, AppendProperties, LenProperties
<1>6. /\ s \in [Pids -> Seq(Sent)] /\ s[pid] = Append(r[pid], m)
      /\ \A p \in Pids \ {pid} : s[p] = r[p]
  BY <1>4, <1>5
<1>7. \A a \in 1 .. Len(s[pid]) :
          (a \in 1 .. Len(r[pid]) /\ s[pid][a] = r[pid][a]) \/ (a = Len(r[pid]) + 1 /\ s[pid][a] = m)
  <2>1. Len(s[pid]) = Len(r[pid]) + 1 /\ s[pid] = Append(r[pid], m) /\ Len(r[pid]) \in Nat
    BY <1>5, <1>6
  <2>2. \A a \in 1 .. Len(s[pid]) : a \in 1 .. Len(r[pid]) \/ a = Len(r[pid]) + 1
    BY <2>1
  <2>. QED  BY <1>5, <2>1, <2>2
<1>8. 1 \in 1 .. Len(q) /\ \A k \in 1 .. Len(t) : k + 1 \in 1 .. Len(q) /\ 1 < k + 1
  BY <1>1
<1>9. /\ \A k \in 1 .. Len(t) : t[k].from[1] = pid => Before(m, t[k])
      /\ \A a \in 1 .. Len(r[pid]) : Before(r[pid][a], m)
  <2>1. q[1].from[1] = pid /\ m = q[1] /\ \A k \in 1 .. Len(t) : t[k] = q[k + 1]
    BY <1>1, <1>3
  <2>2. \A k \in 1 .. Len(t) : q[k + 1].from[1] = pid => Before(q[1], q[k + 1])
    BY <1>8, <2>1 DEF Ordered
  <2>3. \A a \in 1 .. Len(r[pid]) : Before(r[pid][a], q[1])
    BY <1>8, <2>1 DEF Ordered
  <2>. QED  BY <2>1, <2>2, <2>3
<1>10. ASSUME NEW a \in 1 .. Len(s[pid])
       PROVE  /\ s[pid][a].from[1] = pid
              /\ \A k \in 1 .. Len(t) : t[k].from[1] = pid => Before(s[pid][a], t[k])
  BY <1>2, <1>3, <1>7, <1>9 DEF Ordered
<1>11. ASSUME NEW a \in 1 .. Len(s[pid]), NEW b \in 1 .. Len(s[pid]), a < b
       PROVE  Before(s[pid][a], s[pid][b])
  <2>1. a \in 1 .. Len(r[pid]) /\ s[pid][a] = r[pid][a]
    BY <1>5, <1>7, <1>11
  <2>2. CASE b \in 1 .. Len(r[pid]) /\ s[pid][b] = r[pid][b]
    <3>1. Before(r[pid][a], r[pid][b])
      BY <1>11, <2>1, <2>2 DEF Ordered
    <3>. QED  BY <2>1, <2>2, <3>1
  <2>3. CASE s[pid][b] = m
    BY <1>9, <2>1, <2>3
  <2>. QED  BY <1>7, <2>2, <2>3
<1>12. Ordered(t, s)
  <2>1. ASSUME NEW p \in Pids, NEW a \in 1 .. Len(s[p])
        PROVE  /\ s[p][a].from[1] = p
               /\ \A k \in 1 .. Len(t) : t[k].from[1] = p => Before(s[p][a], t[k])
               /\ \A b \in 1 .. Len(s[p]) : a < b => Before(s[p][a], s[p][b])
    <3>1. CASE p = pid
      BY <1>10, <1>11, <2>1, <3>1
    <3>2. CASE p # pid
      <4>1. s[p] = r[p] /\ a \in 1 .. Len(r[p])
        BY <1>6, <2>1, <3>2
      <4>2. \A k \in 1 .. Len(t) : t[k].from[1] = p => Before(r[p][a], t[k])
        BY <1>2, <4>1 DEF Ordered
      <4>3. /\ r[p][a].from[1] = p
            /\ \A b \in 1 .. Len(r[p]) : a < b => Before(r[p][a], r[p][b])
        BY <1>2, <4>1 DEF Ordered
      <4>. QED  BY <4>1, <4>2, <4>3
    <3>. QED  BY <3>1, <3>2
  <2>2. \A j, k \in 1 .. Len(t) : j < k /\ t[j].from[1] = t[k].from[1] => Before(t[j], t[k])
    BY <1>2 DEF Ordered
  <2>. QED  BY <2>1, <2>2 DEF Ordered
<1>13. ASSUME NEW l, OneOf(l, t, s) PROVE OneOf(l, q, r)
  <2>1. CASE \E k \in 1 .. Len(t) : l = t[k]
    BY <1>2, <2>1 DEF OneOf
  <2>2. ASSUME NEW p \in Pids, NEW a \in 1 .. Len(s[p]), l = s[p][a] PROVE OneOf(l, q, r)
    <3>1. CASE p # pid
      BY <1>6, <2>2, <3>1 DEF OneOf
    <3>2. CASE p = pid
      BY <1>1, <1>7, <1>8, <2>2, <3>2 DEF OneOf
    <3>. QED  BY <3>1, <3>2
  <2>. QED  BY <1>13, <2>1, <2>2 DEF OneOf
<1>. QED  BY <1>1, <1>6, <1>12, <1>13 DEF t

LEMMA OrderedLeave ==
    ASSUME NEW q \in Seq(Sent), NEW r \in [Pids -> Seq(Sent)], NEW pid \in Pids, Ordered(q, r),
           NEW s, s = [r EXCEPT ![pid] = <<>>]
    PROVE  /\ s \in [Pids -> Seq(Sent)] /\ Ordered(q, s)
           /\ \A l : OneOf(l, q, s) => OneOf(l, q, r)
<1>1. <<>> \in Seq(Sent) /\ Len(<<>>) = 0
  BY EmptySeq
<1>2. /\ s \in [Pids -> Seq(Sent)] /\ Len(s[pid]) = 0
      /\ \A p \in Pids \ {pid} : s[p] = r[p]
  BY <1>1
<1>3. ASSUME NEW p \in Pids, NEW a \in 1 .. Len(s[p]) PROVE p # pid /\ s[p] = r[p]
  BY <1>2, <1>3
<1>4. Ordered(q, s)
  <2>1. ASSUME NEW p \in Pids, NEW a \in 1 .. Len(s[p])
        PROVE  /\ s[p][a].from[1] = p
               /\ \A k \in 1 .. Len(q) : q[k].from[1] = p => Before(s[p][a], q[k])
               /\ \A b \in 1 .. Len(s[p]) : a < b => Before(s[p][a], s[p][b])
    <3>1. s[p] = r[p]
      BY <1>3
    <3>. QED  BY <3>1 DEF Ordered
  <2>. QED  BY <2>1 DEF Ordered
<1>5. ASSUME NEW l, OneOf(l, q, s) PROVE OneOf(l, q, r)
  <2>1. ASSUME NEW p \in Pids, NEW a \in 1 .. Len(s[p]), l = s[p][a] PROVE OneOf(l, q, r)
    <3>1. s[p] = r[p]
      BY <1>3
    <3>. QED  BY <2>1, <3>1 DEF OneOf
  <2>. QED  BY <1>5, <2>1 DEF OneOf
<1>. QED  BY <1>2, <1>4, <1>5

(* A message that was sent is not younger than what its pid's client sends;  *)
(* it is older while that client has still to write the one it asks.         *)
Posted(m) ==
    LET p == m.from[1]
    IN  \/ m.from[2] < run[p]
        \/ m.from[2] = run[p] /\ (m.n < sends[p] \/ (m.n = sends[p] /\ pc[p] # "send"))

Asked == inHand \o requests
OrderInv ==
    /\ Asked \in Seq(Sent) /\ replies \in [Pids -> Seq(Sent)]
    /\ Ordered(Asked, replies)
    /\ \A m \in Sent : OneOf(m, Asked, replies) => Posted(m)

LEMMA MembersSent ==
    ASSUME NEW q \in Seq(Sent), NEW r \in [Pids -> Seq(Sent)], NEW m, OneOf(m, q, r)
    PROVE  m \in Sent
BY ElementOfSeq DEF OneOf

LEMMA OrderInit == Init => OrderInv
<1>. SUFFICES ASSUME Init PROVE OrderInv
  OBVIOUS
<1>1. <<>> \in Seq(Sent) /\ Len(<<>>) = 0 /\ <<>> \o <<>> = <<>>
  BY EmptySeq, ConcatEmptySeq
<1>2. Asked = <<>>
  BY <1>1 DEF Init, Asked, inHand
<1>3. replies \in [Pids -> Seq(Sent)] /\ \A p \in Pids : Len(replies[p]) = 0
  BY <1>1 DEF Init
<1>. QED  BY <1>1, <1>2, <1>3 DEF OrderInv, Ordered, OneOf

(* Runs and questions are only counted up, and a client that is about to     *)
(* write counts one more than it has written.                                *)
LEMMA PostedStays ==
    ASSUME SmiInv, [Next]_vars, NEW m \in Sent, Posted(m) PROVE Posted(m)'
<1>1. PICK p \in Pids : p = m.from[1]
  BY DEF Sent, Client
<1>2. /\ m.from[2] \in Int /\ m.n \in Int /\ run[p] \in Int /\ sends[p] \in Int
      /\ pc \in [Pids -> {"off", "connect", "unlink", "mkfifo", "open", "idle", "send", "sent", "closed"}]
      /\ run \in [Pids -> 0 .. MaxRuns] /\ sends \in [Pids -> 0 .. MaxSends]
  BY <1>1 DEF SmiInv, TypeOK, Sent, Client
<1>3. CASE UNCHANGED clientVars
  BY <1>3 DEF Posted, clientVars
<1>4. ASSUME NEW q \in Pids, ClientStart(q) PROVE Posted(m)'
  BY <1>1, <1>2, <1>4 DEF Posted, ClientStart
<1>5. ASSUME NEW q \in Pids, ClientAsk(q) PROVE Posted(m)'
  BY <1>1, <1>2, <1>5 DEF Posted, ClientAsk
<1>6. ASSUME NEW q \in Pids, NEW at \in {"off", "unlink", "mkfifo", "open", "idle", "sent", "closed"},
             pc' = [pc EXCEPT ![q] = at], UNCHANGED <<run, sends>>
      PROVE  Posted(m)'
  BY <1>1, <1>2, <1>6 DEF Posted
<1>7. ASSUME NEW q \in Pids, ClientMoves(q) \/ ClientEnd(q), ~ClientAsk(q)
      PROVE  \E at \in {"off", "unlink", "mkfifo", "open", "idle", "sent", "closed"} :
                pc' = [pc EXCEPT ![q] = at] /\ UNCHANGED <<run, sends>>
  BY <1>7 DEF ClientMoves, ClientConnect, ClientUnlink, ClientMkfifo, ClientOpen, ClientSend,
              ClientReceive, ClientClose, ClientEnd
<1>8. Server \/ UNCHANGED vars => UNCHANGED clientVars
  BY DEF Server, ServerStart, ServerOpen, ServerReceive, ServerLookup, ServerOpenClient, ServerReply,
         vars, clientVars
<1>. QED  BY <1>3, <1>4, <1>5, <1>6, <1>7, <1>8 DEF Next

LEMMA OrderNext == SmiInv /\ OrderInv /\ [Next]_vars => OrderInv'
<1>. SUFFICES ASSUME SmiInv, OrderInv, [Next]_vars PROVE OrderInv'
  OBVIOUS
<1>1. Asked \in Seq(Sent) /\ replies \in [Pids -> Seq(Sent)] /\ Ordered(Asked, replies)
  BY DEF OrderInv
<1>2. \A m \in Sent : OneOf(m, Asked, replies) => Posted(m)'
  BY PostedStays DEF OrderInv
<1>3. ASSUME Asked' \in Seq(Sent), replies' \in [Pids -> Seq(Sent)], Ordered(Asked', replies'),
             \A l : OneOf(l, Asked', replies') => OneOf(l, Asked, replies)
      PROVE  OrderInv'
  <2>1. \A m \in Sent : OneOf(m, Asked', replies') => Posted(m)'
    BY <1>2, <1>3
  <2>. QED  BY <1>3, <2>1 DEF OrderInv, Ordered, OneOf, Before
<1>4. CASE EX!Drop
  <2>1. Asked # <<>> /\ Asked' = Tail(Asked) /\ replies' = replies
    BY <1>4 DEF EX!Drop, EX!Taken, Asked
  <2>. QED  BY <1>1, <1>3, <2>1, OrderedDrop
<1>5. CASE EX!Answer
  <2>1. /\ Asked # <<>> /\ Asked' = Tail(Asked)
        /\ replies' = [replies EXCEPT ![Head(Asked).from[1]] = Append(@, Head(Asked))]
    BY <1>5 DEF EX!Answer, EX!Taken, Asked, Asker
  <2>. QED  BY <1>1, <1>3, <2>1, OrderedAnswer
<1>6. ASSUME NEW p \in Pids, EX!Leave(p) PROVE OrderInv'
  <2>1. Asked' = Asked /\ replies' = [replies EXCEPT ![p] = <<>>]
    BY <1>6 DEF EX!Leave, Asked
  <2>. QED  BY <1>1, <1>3, <2>1, OrderedLeave
<1>7. CASE UNCHANGED <<inHand \o requests, replies>>
  BY <1>1, <1>3, <1>7 DEF Asked
<1>8. ASSUME NEW p \in Pids, NEW m \in Sent, m = [from |-> ClientOf(p), n |-> sends[p]],
             pc[p] = "send", EX!Ask(m), ClientStart(p) \/ ClientMoves(p) \/ ClientEnd(p)
      PROVE  OrderInv'
  <2>1. Asked' = Append(Asked, m) /\ replies' = replies
    BY <1>8 DEF EX!Ask, Asked
  <2>2. m.from[1] = p /\ m.from[2] = run[p] /\ m.n = sends[p]
    BY <1>8 DEF ClientOf
  <2>3. ASSUME NEW l, OneOf(l, Asked, replies), l.from[1] = m.from[1] PROVE Before(l, m)
    <3>1. l \in Sent
      BY <1>1, <2>3, MembersSent
    <3>2. Posted(l)
      BY <2>3, <3>1 DEF OrderInv
    <3>. QED  BY <1>8, <2>2, <2>3, <3>2 DEF Posted, Before
  <2>4. /\ Asked' \in Seq(Sent) /\ Ordered(Asked', replies')
        /\ \A l : OneOf(l, Asked', replies') => OneOf(l, Asked, replies) \/ l = m
    BY <1>1, <2>1, <2>3, OrderedAsk
  <2>5. Posted(m)'
    <3>1. run' = run /\ sends' = sends /\ pc'[p] # "send"
      BY <1>8 DEF ClientStart, ClientMoves, ClientConnect, ClientUnlink, ClientMkfifo, ClientOpen,
           ClientAsk, ClientSend, ClientReceive, ClientClose, ClientEnd, SmiInv, TypeOK
    <3>. QED  BY <2>2, <3>1 DEF Posted
  <2>6. \A l \in Sent : OneOf(l, Asked', replies') => Posted(l)'
    BY <1>2, <2>4, <2>5
  <2>. QED  BY <1>1, <2>1, <2>4, <2>6 DEF OrderInv, Ordered, OneOf, Before
<1>9. CASE Server
  BY <1>4, <1>5, <1>7, <1>9, ServerExchanges
<1>10. ASSUME NEW p \in Pids, ClientStart(p) \/ ClientMoves(p) \/ ClientEnd(p) PROVE OrderInv'
  BY <1>6, <1>7, <1>8, <1>10, ClientExchanges
<1>11. CASE UNCHANGED vars
  BY <1>7, <1>11 DEF vars, inHand
<1>. QED  BY <1>9, <1>10, <1>11 DEF Next

(* A client finds the answers in its FIFO in the order of its questions and  *)
(* none of them twice: smi_send_release() is never reached with the message  *)
(* of the turn before still in sq_msg.                                       *)
THEOREM OrderCorrect == Spec => []AnsweredInOrder
<1>1. OrderInv => AnsweredInOrder
  BY DEF OrderInv, Ordered, Before, AnsweredInOrder
<1>2. SmiInv /\ OrderInv /\ [Next]_vars => (SmiInv /\ OrderInv)'
  BY SmiNext, OrderNext
<1>. QED  BY <1>1, <1>2, SmiInit, OrderInit, PTL DEF Spec

=============================================================================
