----------------------------- MODULE FifoProofs ------------------------------
(****************************************************************************)
(* Theorems about Fifo, for any set of clients, any number of words and any  *)
(* size of the FIFO.                                                         *)
(****************************************************************************)
EXTENDS Fifo, SequenceTheorems, FiniteSetTheorems, TLAPS

-----------------------------------------------------------------------------
(* Lists of messages *)

(* What is read is what was written first. *)
LEMMA Moved ==
    ASSUME NEW S, NEW s \in Seq(S), NEW t \in Seq(S), t # <<>>
    PROVE  /\ Append(s, Head(t)) \in Seq(S) /\ Tail(t) \in Seq(S)
           /\ Len(Tail(t)) = Len(t) - 1
           /\ Append(s, Head(t)) \o Tail(t) = s \o t
<1>1. /\ Head(t) \in S /\ Tail(t) \in Seq(S) /\ Len(Tail(t)) = Len(t) - 1 /\ Head(t) = t[1]
      /\ \A k \in 1 .. Len(Tail(t)) : Tail(t)[k] = t[k + 1]
  BY HeadTailProperties
<1>. DEFINE u == Append(s, Head(t))
<1>2. /\ u \in Seq(S) /\ Len(u) = Len(s) + 1 /\ u[Len(s) + 1] = Head(t)
      /\ \A k \in 1 .. Len(s) : u[k] = s[k]
  BY <1>1, AppendProperties
<1>. HIDE DEF u
<1>. DEFINE v == u \o Tail(t)  w == s \o t
<1>3. /\ v \in Seq(S) /\ Len(v) = Len(u) + Len(Tail(t))
      /\ \A k \in 1 .. Len(u) + Len(Tail(t)) :
            v[k] = IF k <= Len(u) THEN u[k] ELSE Tail(t)[k - Len(u)]
  BY <1>1, <1>2, ConcatProperties
<1>4. /\ w \in Seq(S) /\ Len(w) = Len(s) + Len(t)
      /\ \A k \in 1 .. Len(s) + Len(t) : w[k] = IF k <= Len(s) THEN s[k] ELSE t[k - Len(s)]
  BY ConcatProperties
<1>5. Len(s) \in Nat /\ Len(t) \in Nat
  BY LenProperties
<1>. HIDE DEF v, w
<1>6. Len(v) = Len(w)
  BY <1>1, <1>2, <1>3, <1>4, <1>5
<1>7. \A k \in 1 .. Len(v) : v[k] = w[k]
  <2>. SUFFICES ASSUME NEW k \in 1 .. Len(v) PROVE v[k] = w[k]
    OBVIOUS
  <2>1. CASE k <= Len(s)
    <3>1. /\ k \in 1 .. Len(u) + Len(Tail(t)) /\ k <= Len(u) /\ k \in 1 .. Len(s)
          /\ k \in 1 .. Len(s) + Len(t)
      BY <1>1, <1>2, <1>3, <1>5, <2>1
    <3>2. v[k] = u[k] /\ w[k] = s[k]
      BY <1>3, <1>4, <2>1, <3>1
    <3>. QED  BY <1>2, <3>1, <3>2
  <2>2. CASE k = Len(s) + 1
    <3>1. /\ k \in 1 .. Len(u) + Len(Tail(t)) /\ k <= Len(u)
          /\ k \in 1 .. Len(s) + Len(t) /\ ~(k <= Len(s)) /\ k - Len(s) = 1
      BY <1>1, <1>2, <1>3, <1>5, <2>2
    <3>2. v[k] = u[k] /\ w[k] = t[k - Len(s)]
      BY <1>3, <1>4, <3>1
    <3>. QED  BY <1>1, <1>2, <2>2, <3>1, <3>2
  <2>3. CASE k > Len(s) + 1
    <3>1. /\ k \in 1 .. Len(u) + Len(Tail(t)) /\ ~(k <= Len(u))
          /\ k - Len(u) \in 1 .. Len(Tail(t)) /\ (k - Len(u)) + 1 = k - Len(s)
          /\ k \in 1 .. Len(s) + Len(t) /\ ~(k <= Len(s))
      BY <1>1, <1>2, <1>3, <1>5, <2>3
    <3>2. v[k] = Tail(t)[k - Len(u)] /\ w[k] = t[k - Len(s)]
      BY <1>3, <1>4, <3>1
    <3>. QED  BY <1>1, <3>1, <3>2
  <2>. QED  BY <1>5, <2>1, <2>2, <2>3
<1>8. v = w
  BY <1>3, <1>4, <1>6, <1>7, SeqEqual
<1>. QED  BY <1>1, <1>2, <1>8 DEF u, v, w

(* A message that is written comes behind all the others. *)
LEMMA Written ==
    ASSUME NEW S, NEW s \in Seq(S), NEW t \in Seq(S), NEW x \in S
    PROVE  LET u == s \o Append(t, x)  n == Len(s \o t)
           IN  /\ s \o t \in Seq(S) /\ n \in Nat
               /\ Append(t, x) \in Seq(S) /\ Len(Append(t, x)) = Len(t) + 1
               /\ Len(u) = n + 1 /\ u[n + 1] = x
               /\ \A k \in 1 .. n : u[k] = (s \o t)[k]
<1>1. /\ Append(t, x) \in Seq(S) /\ Len(Append(t, x)) = Len(t) + 1
      /\ Append(t, x) = t \o <<x>> /\ <<x>> \in Seq(S)
  OBVIOUS
<1>2. s \o t \in Seq(S) /\ Len(s \o t) \in Nat
  BY ConcatProperties, LenProperties
<1>3. Append(s \o t, x) = (s \o t) \o <<x>>
  BY <1>2
<1>4. s \o Append(t, x) = Append(s \o t, x)
  BY <1>1, <1>3, ConcatAssociative
<1>. QED  BY <1>1, <1>2, <1>4, AppendProperties

(* Where the messages of c stand in s, counted. *)
LEMMA PlacesFinite ==
    ASSUME NEW s \in Seq(Message), NEW c
    PROVE  /\ IsFiniteSet(PlacesOf(c, s)) /\ Cardinality(PlacesOf(c, s)) \in Nat
           /\ PlacesOf(c, s) \subseteq 1 .. Len(s)
<1>1. IsFiniteSet(1 .. Len(s))
  BY FS_Interval, LenProperties
<1>2. PlacesOf(c, s) \subseteq 1 .. Len(s)
  BY DEF PlacesOf
<1>. QED  BY <1>1, <1>2, FS_Subset, FS_CardinalityType

-----------------------------------------------------------------------------
(* The inductive invariant *)

(* A client is in its loop with one of its words. *)
InLoop == \A c \in Clients :
    /\ pc[c] \in {"send", "receive"} => i[c] \in 1 .. Words
    /\ pc[c] \in {"off", "connect"} => ~connected[c] /\ PlacesOf(c, Sent) = {}
    /\ connected[c] => pc[c] \in {"send", "receive", "close"} /\ i[c] \in 1 .. Words + 1

(* The server, once it reads, holds its own FIFO open for writing, so that   *)
(* read() never finds it without a writer.                                   *)
OwnWriter == srv \in {"receive", "answer"} => ownWriter

FifoInv == TypeOK /\ ServerStays /\ OwnWriter /\ InLoop /\ WordsInOrder

LEMMA FifoInit == Init => FifoInv
<1>. SUFFICES ASSUME Init PROVE FifoInv
  OBVIOUS
<1>1. TypeOK
  <2>1. <<>> \in Seq(Message) /\ 0 \in 0 .. Words + 1
    BY FifoAssumption, EmptySeq
  <2>. QED  BY <2>1 DEF Init, TypeOK
<1>2. Sent = <<>>
  BY DEF Init, Sent
<1>3. \A c \in Clients : PlacesOf(c, Sent) = {}
  BY <1>2 DEF PlacesOf
<1>4. InLoop /\ ServerStays /\ OwnWriter
  BY <1>3 DEF Init, InLoop, ServerStays, OwnWriter
<1>5. WordsInOrder
  BY <1>3 DEF Init, WordsInOrder
<1>. QED  BY <1>1, <1>4, <1>5 DEF FifoInv

(* A step of the server changes nothing of a client, nor the list of all     *)
(* that was sent.                                                            *)
LEMMA SameSent ==
    ASSUME InLoop, WordsInOrder, Sent' = Sent, UNCHANGED clientVars
    PROVE  InLoop' /\ WordsInOrder'
<1>1. \A c \in Clients : PlacesOf(c, Sent)' = PlacesOf(c, Sent)
  BY DEF PlacesOf
<1>2. InLoop'
  BY <1>1 DEF InLoop, clientVars
<1>. QED  BY <1>1, <1>2 DEF WordsInOrder, clientVars

LEMMA FifoServer == ASSUME FifoInv, Server PROVE FifoInv'
<1>. USE DEF FifoInv
<1>1. CASE ServerMkfifo \/ ServerOpen \/ ServerAnswer
  <2>1. TypeOK' /\ ServerStays' /\ OwnWriter'
    BY <1>1 DEF ServerMkfifo, ServerOpen, ServerAnswer, TypeOK, ServerStays, OwnWriter, clientVars
  <2>2. Sent' = Sent /\ UNCHANGED clientVars
    BY <1>1 DEF ServerMkfifo, ServerOpen, ServerAnswer, Sent
  <2>. QED  BY <2>1, <2>2, SameSent
<1>2. CASE ServerReceive
  <2>1. fifo # <<>>
    BY <1>2 DEF ServerReceive, OwnWriter, HasWriter
  <2>2. received' = Append(received, Head(fifo)) /\ fifo' = Tail(fifo) /\ srv' = "answer"
        /\ srv = "receive" /\ UNCHANGED <<exists, met, ownWriter, clientVars>>
    BY <1>2, <2>1 DEF ServerReceive
  <2>3. /\ fifo \in Seq(Message) /\ received \in Seq(Message) /\ Len(fifo) \in Nat
        /\ received' \in Seq(Message) /\ fifo' \in Seq(Message) /\ Len(fifo') = Len(fifo) - 1
        /\ Sent' = Sent
    BY <2>1, <2>2, Moved, LenProperties DEF TypeOK, Sent
  <2>4. TypeOK' /\ ServerStays' /\ OwnWriter'
    BY <2>2, <2>3, FifoAssumption DEF TypeOK, ServerStays, OwnWriter, clientVars
  <2>. QED  BY <2>2, <2>3, <2>4, SameSent
<1>. QED  BY <1>1, <1>2 DEF Server

(* A step of a client that writes nothing. *)
LEMMA NotSent ==
    ASSUME FifoInv, NEW c \in Clients, UNCHANGED <<fifo, serverVars>>,
           \A d \in Clients \ {c} : pc'[d] = pc[d] /\ i'[d] = i[d] /\ connected'[d] = connected[d],
           TypeOK',
           pc'[c] \in {"send", "receive"} => i'[c] \in 1 .. Words,
           pc'[c] \in {"off", "connect"} => ~connected'[c] /\ PlacesOf(c, Sent) = {},
           connected'[c] => /\ pc'[c] \in {"send", "receive", "close"}
                            /\ i'[c] \in 1 .. Words + 1
                            /\ Cardinality(PlacesOf(c, Sent)) =
                                  (IF pc'[c] = "receive" THEN i'[c] ELSE i'[c] - 1)
    PROVE  FifoInv'
<1>1. Sent' = Sent
  BY DEF Sent, serverVars
<1>2. \A d \in Clients : PlacesOf(d, Sent)' = PlacesOf(d, Sent)
  BY <1>1 DEF PlacesOf
<1>3. ServerStays' /\ OwnWriter'
  BY DEF FifoInv, ServerStays, OwnWriter, serverVars
<1>4. InLoop'
  BY <1>2 DEF FifoInv, InLoop
<1>5. WordsInOrder'
  BY <1>1, <1>2 DEF FifoInv, WordsInOrder
<1>. QED  BY <1>3, <1>4, <1>5 DEF FifoInv

(* write() of client c puts one more of its words behind all the others. *)
LEMMA OneMore ==
    ASSUME FifoInv, NEW c \in Clients, NEW n \in Int, n = Len(Sent) + 1,
           i[c] \in 1 .. Words, pc[c] = "send", connected[c],
           Len(Sent') = n, Sent'[n] = [sm_clientpid |-> c, sm_data |-> i[c]],
           \A k \in 1 .. Len(Sent) : Sent'[k] = Sent[k],
           Sent \in Seq(Message)
    PROVE  /\ \A d \in Clients \ {c} : PlacesOf(d, Sent)' = PlacesOf(d, Sent)
           /\ PlacesOf(c, Sent)' = PlacesOf(c, Sent) \cup {n}
           /\ Cardinality(PlacesOf(c, Sent)') = i[c]
           /\ \A k \in PlacesOf(c, Sent)' :
                 Sent'[k].sm_data = Cardinality({j \in PlacesOf(c, Sent)' : j <= k})
<1>. DEFINE P == PlacesOf(c, Sent)  Q == PlacesOf(c, Sent)'
<1>1. Len(Sent) \in Nat
  BY LenProperties
<1>2. \A d \in Clients \ {c} : PlacesOf(d, Sent)' = PlacesOf(d, Sent)
  BY <1>1 DEF PlacesOf
<1>3. Q = P \cup {n}
  BY <1>1 DEF PlacesOf
<1>4. IsFiniteSet(P) /\ P \subseteq 1 .. Len(Sent) /\ n \notin P
  BY <1>1, PlacesFinite
<1>5. Cardinality(P) = i[c] - 1
  BY DEF FifoInv, WordsInOrder
<1>6. Cardinality(Q) = i[c]
  <2>1. Cardinality(P \cup {n}) = Cardinality(P) + 1
    BY <1>4, FS_AddElement
  <2>2. (i[c] - 1) + 1 = i[c]
    OBVIOUS
  <2>. QED  BY <1>3, <1>5, <2>1, <2>2
<1>7. ASSUME NEW k \in Q PROVE Sent'[k].sm_data = Cardinality({j \in Q : j <= k})
  <2>1. CASE k = n
    <3>1. {j \in Q : j <= k} = Q
      BY <1>1, <1>3, <1>4, <2>1
    <3>2. Sent'[k].sm_data = i[c]
      BY <2>1
    <3>. QED  BY <1>6, <3>1, <3>2
  <2>2. CASE k \in P
    <3>1. {j \in Q : j <= k} = {j \in P : j <= k}
      BY <1>1, <1>3, <1>4, <2>2
    <3>2. Sent[k].sm_data = Cardinality({j \in P : j <= k})
      BY <2>2 DEF FifoInv, WordsInOrder
    <3>3. Sent'[k] = Sent[k]
      BY <1>4, <2>2
    <3>. QED  BY <3>1, <3>2, <3>3
  <2>. QED  BY <1>3, <2>1, <2>2
<1>. QED  BY <1>2, <1>3, <1>6, <1>7

LEMMA FifoSend == ASSUME FifoInv, NEW c \in Clients, ClientSend(c) PROVE FifoInv'
<1>. USE DEF FifoInv
<1>1. /\ pc[c] = "send" /\ i[c] \in 1 .. Words
      /\ UNCHANGED <<exists, met, serverVars, i>>
  BY DEF ClientSend, InLoop
<1>2. CASE connected[c] /\ ServerReads
  <2>. DEFINE m == [sm_clientpid |-> c, sm_data |-> i[c]]
  <2>1. /\ Len(fifo) < FifoCapacity /\ fifo' = Append(fifo, m)
        /\ pc' = [pc EXCEPT ![c] = "receive"] /\ UNCHANGED connected
    BY <1>2 DEF ClientSend
  <2>2. m \in Message /\ received \in Seq(Message) /\ fifo \in Seq(Message)
    BY <1>1 DEF Message, TypeOK
  <2>. HIDE DEF m
  <2>3. /\ Sent \in Seq(Message) /\ Len(Sent) \in Nat
        /\ fifo' \in Seq(Message) /\ Len(fifo') = Len(fifo) + 1
        /\ Len(Sent') = Len(Sent) + 1 /\ Sent'[Len(Sent) + 1] = m
        /\ \A k \in 1 .. Len(Sent) : Sent'[k] = Sent[k]
    BY <1>1, <2>1, <2>2, Written DEF Sent, serverVars
  <2>4. TypeOK'
    BY <1>1, <2>1, <2>3 DEF TypeOK, serverVars
  <2>5. /\ \A d \in Clients \ {c} : PlacesOf(d, Sent)' = PlacesOf(d, Sent)
        /\ PlacesOf(c, Sent)' = PlacesOf(c, Sent) \cup {Len(Sent) + 1}
        /\ Cardinality(PlacesOf(c, Sent)') = i[c]
        /\ \A k \in PlacesOf(c, Sent)' :
              Sent'[k].sm_data = Cardinality({j \in PlacesOf(c, Sent)' : j <= k})
    BY <1>1, <1>2, <2>3, OneMore DEF m
  <2>6. /\ pc'[c] = "receive" /\ i' = i /\ connected' = connected
        /\ \A d \in Clients \ {c} : pc'[d] = pc[d]
    BY <1>1, <2>1 DEF TypeOK
  <2>7. InLoop'
    BY <1>1, <1>2, <2>5, <2>6 DEF InLoop
  <2>8. WordsInOrder'
    <3>. SUFFICES ASSUME NEW d \in Clients
                  PROVE  /\ \A k \in PlacesOf(d, Sent)' : Sent'[k].sm_data =
                              Cardinality({j \in PlacesOf(d, Sent)' : j <= k})
                         /\ connected'[d] => Cardinality(PlacesOf(d, Sent)') =
                              (IF pc'[d] = "receive" THEN i'[d] ELSE i'[d] - 1)
      BY DEF WordsInOrder
    <3>1. CASE d = c
      BY <2>5, <2>6, <3>1
    <3>2. CASE d # c
      <4>1. PlacesOf(d, Sent)' = PlacesOf(d, Sent) /\ PlacesOf(d, Sent) \subseteq 1 .. Len(Sent)
        BY <2>3, <2>5, <3>2, PlacesFinite
      <4>2. \A k \in PlacesOf(d, Sent) : Sent'[k] = Sent[k]
        BY <2>3, <4>1
      <4>. QED  BY <2>6, <3>2, <4>1, <4>2 DEF WordsInOrder
    <3>. QED  BY <3>1, <3>2
  <2>9. ServerStays' /\ OwnWriter'
    BY <1>1 DEF ServerStays, OwnWriter, serverVars
  <2>. QED  BY <2>4, <2>7, <2>8, <2>9
<1>3. CASE ~(connected[c] /\ ServerReads)
  <2>1. UNCHANGED <<fifo, serverVars>>
    BY <1>1, <1>3 DEF ClientSend
  <2>2. TypeOK'
    BY <1>1, <2>1 DEF ClientSend, TypeOK, serverVars
  <2>3. ~connected'[c] /\ pc'[c] \in {"killed", "receive"} /\ i'[c] = i[c]
    BY <1>1, <1>3 DEF ClientSend, TypeOK
  <2>4. \A d \in Clients \ {c} : pc'[d] = pc[d] /\ i'[d] = i[d] /\ connected'[d] = connected[d]
    BY <1>1 DEF ClientSend, TypeOK
  <2>. QED  BY <1>1, <2>1, <2>2, <2>3, <2>4, NotSent
<1>. QED  BY <1>2, <1>3

LEMMA FifoClient ==
    ASSUME FifoInv, NEW c \in Clients, ClientMkfifo(c) \/ Client(c) \/ Kill(c)
    PROVE  FifoInv'
<1>. USE DEF FifoInv
<1>1. CASE ClientMkfifo(c) \/ ClientClose(c) \/ Kill(c)
  <2>1. TypeOK' /\ UNCHANGED <<fifo, serverVars>>
    BY <1>1 DEF ClientMkfifo, ClientClose, Kill, TypeOK, serverVars
  <2>2. /\ \A d \in Clients \ {c} : pc'[d] = pc[d] /\ i'[d] = i[d] /\ connected'[d] = connected[d]
        /\ ~connected'[c] /\ pc'[c] \notin {"send", "receive"}
        /\ pc'[c] \in {"off", "connect"} => PlacesOf(c, Sent) = {}
    BY <1>1 DEF ClientMkfifo, ClientClose, Kill, TypeOK, InLoop
  <2>. QED  BY <2>1, <2>2, NotSent
<1>2. CASE ClientConnect(c)
  <2>1. TypeOK' /\ UNCHANGED <<fifo, serverVars>>
    BY <1>2, FifoAssumption DEF ClientConnect, TypeOK, serverVars
  <2>2. /\ \A d \in Clients \ {c} : pc'[d] = pc[d] /\ i'[d] = i[d] /\ connected'[d] = connected[d]
        /\ i'[c] = 1 /\ pc'[c] = (IF 1 <= Words THEN "send" ELSE "close")
        /\ Cardinality(PlacesOf(c, Sent)) = 0
    BY <1>2, FS_EmptySet DEF ClientConnect, TypeOK, InLoop
  <2>. QED  BY <2>1, <2>2, FifoAssumption, NotSent
<1>3. CASE ClientSend(c)
  BY <1>3, FifoSend
<1>4. CASE ClientReceive(c)
  <2>1. i[c] \in 1 .. Words /\ Words \in Nat /\ pc[c] = "receive"
    BY <1>4, FifoAssumption DEF ClientReceive, InLoop
  <2>2. TypeOK' /\ UNCHANGED <<fifo, serverVars>>
    BY <1>4, <2>1 DEF ClientReceive, TypeOK, serverVars
  <2>3. /\ \A d \in Clients \ {c} : pc'[d] = pc[d] /\ i'[d] = i[d] /\ connected'[d] = connected[d]
        /\ i'[c] = i[c] + 1 /\ connected'[c] = connected[c]
        /\ pc'[c] = (IF i'[c] <= Words THEN "send" ELSE "close")
    BY <1>4 DEF ClientReceive, TypeOK
  <2>4. connected[c] => Cardinality(PlacesOf(c, Sent)) = i[c]
    BY <2>1 DEF WordsInOrder
  <2>. QED  BY <2>1, <2>2, <2>3, <2>4, NotSent
<1>. QED  BY <1>1, <1>2, <1>3, <1>4 DEF Client

LEMMA FifoNext == FifoInv /\ [Next]_vars => FifoInv'
<1>. SUFFICES ASSUME FifoInv, [Next]_vars PROVE FifoInv'
  OBVIOUS
<1>1. CASE UNCHANGED vars
  <2>1. Sent' = Sent /\ UNCHANGED clientVars
    BY <1>1 DEF vars, Sent, clientVars
  <2>2. TypeOK' /\ ServerStays' /\ OwnWriter'
    BY <1>1 DEF FifoInv, vars, TypeOK, ServerStays, OwnWriter
  <2>. QED  BY <2>1, <2>2, SameSent DEF FifoInv
<1>. QED  BY <1>1, FifoServer, FifoClient DEF Next

-----------------------------------------------------------------------------
(* Every variable keeps its type: what a client sends is one of its words,   *)
(* never the NULL behind them, and so is what main() of fifo_app.c reads.    *)
THEOREM TypeCorrect == Spec => []TypeOK
<1>1. FifoInv => TypeOK
  BY DEF FifoInv
<1>. QED  BY <1>1, FifoInit, FifoNext, PTL DEF Spec

(* The server does not end when the last client closes: main() has opened    *)
(* the FIFO for writing as well, so that read() does not return 0.           *)
THEOREM StaysCorrect == Spec => []ServerStays
<1>1. FifoInv => ServerStays
  BY DEF FifoInv
<1>. QED  BY <1>1, FifoInit, FifoNext, PTL DEF Spec

(* The words of a client reach read() in the order of its loop, each once,   *)
(* however many clients write into the FIFO and whichever are killed.        *)
THEOREM OrderCorrect == Spec => []WordsInOrder
<1>1. FifoInv => WordsInOrder
  BY DEF FifoInv
<1>. QED  BY <1>1, FifoInit, FifoNext, PTL DEF Spec

=============================================================================
