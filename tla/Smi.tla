--------------------------------- MODULE Smi ---------------------------------
(****************************************************************************)
(* ad_comm/smi_server.c: messages between one server, main() of that file,   *)
(* and any number of clients that call the same interface (smi.h), over      *)
(* FIFOs: one the server reads, /tmp/smififo-<name>, and one for each client *)
(* at /tmp/smififo<pid>.                                                     *)
(*                                                                           *)
(* FIFOs are the kernel's: open() for reading waits until somebody has       *)
(* opened for writing and the other way round, read() of an empty FIFO       *)
(* without writers returns 0, write() to a full one waits and to one without *)
(* readers is a SIGPIPE.  A client is a run of a process: a pid can be used  *)
(* again.  A client sends, receives, and so on, and closes; it can be killed *)
(* anywhere.  A message is who sent it and which of its messages it is.      *)
(****************************************************************************)
EXTENDS Integers, SequencesExt

CONSTANTS Pids,          \* the pids the clients get
          NoPid,         \* 0, what calloc() leaves in cl_pid
          MaxClients,    \* MAX_CLIENTS
          FifoCapacity,  \* how many messages a FIFO holds
          MaxRuns,       \* bound: clients started under one pid
          MaxSends       \* bound: messages sent by one client

ASSUME PidsAssumption == NoPid \notin Pids
ASSUME SizesAssumption ==
    /\ MaxClients \in Nat \ {0} /\ FifoCapacity \in Nat \ {0}
    /\ MaxRuns \in Nat /\ MaxSends \in Nat

VARIABLES
    srv,        \* the server: where it is
    msg,        \* sq_msg of the server
    slots,      \* sq_clients of the server: cl_pid and cl_fd
    ownWriter,  \* sq_fd_server_w is open
    exists,     \* the server's FIFO is in /tmp
    met,        \* a writer has opened the server's FIFO since the server reads
    opening,    \* the FIFO that open() of a client's FIFO has found at its path
    found,      \* it has, or since had, a reader: open() returns
    requests,   \* what is in the server's FIFO
    path,       \* whose FIFO is at /tmp/smififo<pid>
    replies,    \* what is in the FIFO of each pid's client
    pc, run, sends, connected,   \* the client of each pid
    dropped     \* clients a message of which found no slot

serverVars == <<srv, msg, slots, ownWriter, exists, opening, dropped>>
clientVars == <<pc, run, sends, connected>>
vars == <<srv, msg, slots, ownWriter, exists, met, opening, found, requests, path,
          replies, pc, run, sends, connected, dropped>>

Client  == Pids \X (1 .. MaxRuns)
Nobody  == <<NoPid, 0>>               \* in place of a client: cl_fd of -1, no FIFO
Slot    == 1 .. MaxClients
Message == [from : Client \cup {Nobody}, n : 0 .. MaxSends]

ClientOf(p) == <<p, run[p]>>

(* Mutant: cl_fd is left 0, the standard input, in the last slot.            *)
clients_bgn_OneShort ==
    [i \in Slot |-> [pid |-> NoPid, fd |-> IF i < MaxClients THEN Nobody ELSE <<NoPid, 1>>]]

clients_bgn == [i \in Slot |-> [pid |-> NoPid, fd |-> Nobody]]

(* make_fifo_name_client(): a pid names whatever FIFO is at its path now.    *)
FifoOf(pid) == path[pid]

(* The client of pid p holds its FIFO open for reading from ClientOpen on;   *)
(* the descriptor is lost in line 127 and closed by the end of the process.  *)
HasReader(c) == \E p \in Pids : c = ClientOf(p) /\ pc[p] \in {"idle", "send", "sent", "closed"}
ServerReads  == srv \notin {"start", "dead"}
ServerWriter == ownWriter \/ \E p \in Pids : connected[p]

Init ==
    /\ srv = "start" /\ msg = [from |-> Nobody, n |-> 0]
    /\ slots = clients_bgn
    /\ ownWriter = FALSE /\ exists \in BOOLEAN /\ met = FALSE
    /\ opening = Nobody /\ found = FALSE
    /\ requests = <<>>
    /\ path = [p \in Pids \cup {NoPid} |-> Nobody] /\ replies = [p \in Pids |-> <<>>]
    /\ pc = [p \in Pids |-> "off"] /\ run = [p \in Pids |-> 0]
    /\ sends = [p \in Pids |-> 0] /\ connected = [p \in Pids |-> FALSE]
    /\ dropped = {}

-----------------------------------------------------------------------------
(* clients_find(): the slot of the pid, or a slot with cl_fd -1 that becomes *)
(* the pid's, or none (0).                                                   *)

SlotsOf(pid) == {i \in Slot : slots[i].pid = pid}

(* Mutant: a slot that has its client is taken for another one.              *)
Available_Any == Slot

Available == {i \in Slot : slots[i].fd = Nobody}

LowestOf(S) == CHOOSE i \in S : \A j \in S : i <= j

ClientsFind(pid) ==
    IF SlotsOf(pid) # {} THEN LowestOf(SlotsOf(pid))
    ELSE IF Available # {} THEN LowestOf(Available) ELSE 0

-----------------------------------------------------------------------------
(* The server: smi_open(), then smi_receive_getaddr() and smi_send_release() *)
(* for ever.                                                                 *)

ServerStart ==
    /\ srv = "start"
    /\ srv' = "open" /\ exists' = TRUE
    /\ UNCHANGED <<msg, slots, ownWriter, dropped, met, opening, found, requests, path, replies,
                   clientVars>>

(* Mutant: the server does not open its own FIFO for writing.                *)
ServerOpen_ReadOnly ==
    /\ srv = "open" /\ met
    /\ srv' = "receive"
    /\ UNCHANGED <<msg, slots, ownWriter, exists, dropped, met, opening, found, requests, path,
                   replies, clientVars>>

(* open(O_RDONLY) returns, and open(O_WRONLY) does not wait. *)
ServerOpen ==
    /\ srv = "open" /\ met
    /\ srv' = "receive" /\ ownWriter' = TRUE
    /\ UNCHANGED <<msg, slots, exists, dropped, met, opening, found, requests, path, replies,
                   clientVars>>

(* Mutant: no "continue" when there is no slot. *)
AfterFind_NoContinue(i) ==
    IF i # 0 /\ slots[i].fd = Nobody THEN "openClient" ELSE "reply"

AfterFind(i) ==
    IF i = 0 THEN "receive" ELSE IF slots[i].fd = Nobody THEN "openClient" ELSE "reply"

(* read(), which returns 0 and leaves sq_msg alone when the FIFO is empty and *)
(* has no writer, and clients_find(); no slot: on to the next message.       *)
ServerReceive ==
    /\ srv = "receive"
    /\ requests # <<>> \/ ~ServerWriter
    /\ msg' = IF requests = <<>> THEN msg ELSE Head(requests)
    /\ requests' = IF requests = <<>> THEN <<>> ELSE Tail(requests)
    /\ LET pid == msg'.from[1]
           i == ClientsFind(pid)
       IN  /\ slots' = [j \in Slot |-> IF j = i THEN [slots[j] EXCEPT !.pid = pid] ELSE slots[j]]
           /\ srv' = AfterFind(i)
           /\ dropped' = IF i = 0 THEN dropped \cup {msg'.from} ELSE dropped
    /\ UNCHANGED <<ownWriter, exists, met, opening, found, path, replies, clientVars>>

(* open(fifoname, O_WRONLY) finds the FIFO that is at the path now, or none, *)
(* and waits for a reader of that one, whatever comes to be at the path.     *)
ServerLookup ==
    /\ srv = "openClient"
    /\ opening' = FifoOf(msg.from[1])
    /\ found' = (opening' = Nobody \/ HasReader(opening'))
    /\ srv' = "opening"
    /\ UNCHANGED <<msg, slots, ownWriter, exists, dropped, met, requests, path, replies, clientVars>>

(* It returns, -1 when there was no FIFO. *)
ServerOpenClient ==
    /\ srv = "opening" /\ found
    /\ slots' = [slots EXCEPT ![ClientsFind(msg.from[1])].fd = opening]
    /\ srv' = "reply" /\ opening' = Nobody /\ found' = FALSE
    /\ UNCHANGED <<msg, ownWriter, exists, dropped, met, requests, path, replies, clientVars>>

(* smi_send_getaddr() and smi_send_release(): clients_find() once more, and  *)
(* write() to a descriptor that can be -1, a FIFO that can be full, or one   *)
(* whose reader is gone.                                                     *)
ServerReply ==
    /\ srv = "reply"
    /\ LET i == ClientsFind(msg.from[1])
           fifo == slots[i].fd
           p == fifo[1]
       IN  IF fifo = Nobody
           THEN srv' = "receive" /\ UNCHANGED replies
           ELSE IF ~HasReader(fifo)
           THEN srv' = "dead" /\ UNCHANGED replies
           ELSE /\ Len(replies[p]) < FifoCapacity
                /\ replies' = [replies EXCEPT ![p] = Append(@, msg)]
                /\ srv' = "receive"
    /\ ownWriter' = (ownWriter /\ srv' # "dead")
    /\ UNCHANGED <<msg, slots, exists, dropped, met, opening, found, requests, path, clientVars>>

Server ==
    ServerStart \/ ServerOpen \/ ServerReceive \/ ServerLookup \/ ServerOpenClient \/ ServerReply

-----------------------------------------------------------------------------
(* The client of pid p *)

ClientStart(p) ==
    /\ pc[p] = "off" /\ run[p] < MaxRuns
    /\ pc' = [pc EXCEPT ![p] = "connect"]
    /\ run' = [run EXCEPT ![p] = @ + 1]
    /\ sends' = [sends EXCEPT ![p] = 0]
    /\ UNCHANGED <<serverVars, met, found, requests, path, replies, connected>>

(* open(fifoname, O_WRONLY) of the server's FIFO: -1, which nobody looks at, *)
(* when it does not exist; else a wait for the server.                       *)
ClientConnect(p) ==
    /\ pc[p] = "connect"
    /\ exists => ServerReads
    /\ connected' = [connected EXCEPT ![p] = exists]
    /\ met' = (met \/ exists)
    /\ pc' = [pc EXCEPT ![p] = "unlink"]
    /\ UNCHANGED <<serverVars, found, requests, path, replies, run, sends>>

ClientUnlink(p) ==
    /\ pc[p] = "unlink"
    /\ path' = [path EXCEPT ![p] = Nobody]
    /\ pc' = [pc EXCEPT ![p] = "mkfifo"]
    /\ UNCHANGED <<serverVars, met, found, requests, replies, run, sends, connected>>

ClientMkfifo(p) ==
    /\ pc[p] = "mkfifo"
    /\ path' = [path EXCEPT ![p] = ClientOf(p)]
    /\ pc' = [pc EXCEPT ![p] = "open"]
    /\ UNCHANGED <<serverVars, met, found, requests, replies, run, sends, connected>>

(* Mutant: the FIFO is opened for writing only, which waits for a reader.    *)
ClientOpen_WriteOnly(p) ==
    /\ pc[p] = "open" /\ HasReader(ClientOf(p))
    /\ pc' = [pc EXCEPT ![p] = "idle"]
    /\ found' = (found \/ (srv = "opening" /\ opening = ClientOf(p)))
    /\ UNCHANGED <<serverVars, met, requests, path, replies, run, sends, connected>>

(* open(O_RDONLY | O_NONBLOCK), which does not wait, and then, over the same *)
(* cl_fd, open(O_WRONLY), which does not wait either as there is a reader.   *)
(* The server may be waiting for just this one.                              *)
ClientOpen(p) ==
    /\ pc[p] = "open"
    /\ pc' = [pc EXCEPT ![p] = "idle"]
    /\ found' = (found \/ (srv = "opening" /\ opening = ClientOf(p)))
    /\ UNCHANGED <<serverVars, met, requests, path, replies, run, sends, connected>>

ClientAsk(p) ==
    /\ pc[p] = "idle" /\ sends[p] < MaxSends
    /\ pc' = [pc EXCEPT ![p] = "send"]
    /\ sends' = [sends EXCEPT ![p] = @ + 1]
    /\ UNCHANGED <<serverVars, met, found, requests, path, replies, run, connected>>

(* smi_send_release(): write() fails without a descriptor, kills the client  *)
(* when the server is dead, and waits when the FIFO is full.                 *)
ClientSend(p) ==
    /\ pc[p] = "send"
    /\ IF ~connected[p]
       THEN pc' = [pc EXCEPT ![p] = "sent"] /\ UNCHANGED <<requests, replies, connected>>
       ELSE IF ~ServerReads
       THEN /\ pc' = [pc EXCEPT ![p] = "off"]
            /\ connected' = [connected EXCEPT ![p] = FALSE]
            /\ replies' = [replies EXCEPT ![p] = <<>>]
            /\ UNCHANGED requests
       ELSE /\ Len(requests) < FifoCapacity
            /\ requests' = Append(requests, [from |-> ClientOf(p), n |-> sends[p]])
            /\ pc' = [pc EXCEPT ![p] = "sent"]
            /\ UNCHANGED <<replies, connected>>
    /\ UNCHANGED <<serverVars, met, found, path, run, sends>>

(* smi_receive_getaddr(): cl_fd is open for writing only, so read() fails at *)
(* once, and the client takes what it sent for the answer.                   *)
ClientReceive(p) ==
    /\ pc[p] = "sent"
    /\ pc' = [pc EXCEPT ![p] = "idle"]
    /\ UNCHANGED <<serverVars, met, found, requests, path, replies, run, sends, connected>>

(* smi_close(): clients_end(), close() of the server's FIFO, unlink().       *)
ClientClose(p) ==
    /\ pc[p] = "idle"
    /\ connected' = [connected EXCEPT ![p] = FALSE]
    /\ path' = [path EXCEPT ![p] = Nobody]
    /\ pc' = [pc EXCEPT ![p] = "closed"]
    /\ UNCHANGED <<serverVars, met, found, requests, replies, run, sends>>

(* The process ends: after smi_close(), or anywhere when it is killed.       *)
ClientEnd(p) ==
    /\ pc[p] # "off"
    /\ pc' = [pc EXCEPT ![p] = "off"]
    /\ connected' = [connected EXCEPT ![p] = FALSE]
    /\ replies' = [replies EXCEPT ![p] = <<>>]
    /\ UNCHANGED <<serverVars, met, found, requests, path, run, sends>>

(* What a client does of itself until its end. *)
ClientMoves(p) ==
    ClientConnect(p) \/ ClientUnlink(p) \/ ClientMkfifo(p) \/ ClientOpen(p)
    \/ ClientAsk(p) \/ ClientSend(p) \/ ClientReceive(p) \/ ClientClose(p)
    \/ (pc[p] = "closed" /\ ClientEnd(p))

-----------------------------------------------------------------------------
Next == Server \/ \E p \in Pids : ClientStart(p) \/ ClientMoves(p) \/ ClientEnd(p)

Spec == Init /\ [][Next]_vars

(* The kernel runs the server, and every client until it ends.               *)
FairSpec == /\ Spec
            /\ WF_vars(Server)
            /\ \A p \in Pids : WF_vars(ClientMoves(p))

-----------------------------------------------------------------------------
(* Properties *)

TypeOK ==
    /\ srv \in {"start", "open", "receive", "openClient", "opening", "reply", "dead"}
    /\ msg \in Message
    /\ slots \in [Slot -> [pid : Pids \cup {NoPid}, fd : Client \cup {Nobody}]]
    /\ ownWriter \in BOOLEAN /\ exists \in BOOLEAN /\ met \in BOOLEAN
    /\ opening \in Client \cup {Nobody} /\ found \in BOOLEAN
    /\ requests \in Seq(Message) /\ Len(requests) <= FifoCapacity
    /\ path \in [Pids \cup {NoPid} -> Client \cup {Nobody}]
    /\ replies \in [Pids -> Seq(Message)]
    /\ \A p \in Pids : Len(replies[p]) <= FifoCapacity
    /\ pc \in [Pids -> {"off", "connect", "unlink", "mkfifo", "open", "idle", "send", "sent", "closed"}]
    /\ run \in [Pids -> 0 .. MaxRuns] /\ sends \in [Pids -> 0 .. MaxSends]
    /\ connected \in [Pids -> BOOLEAN]
    /\ dropped \subseteq Client

(* smi_send_release() writes to the descriptor of a slot, which is as old as *)
(* the slot, and to nobody twice: a question is answered in its turn, once,  *)
(* and only into the FIFO of its pid, never to the client another slot, or   *)
(* the slot before, belongs to.  (The FIFO can be that of a later client     *)
(* with the same pid.)                                                       *)
Asker(m) == m.from[1]
inHand   == IF srv \in {"openClient", "opening", "reply"} THEN <<msg>> ELSE <<>>
EX == INSTANCE Exchange WITH Question <- Message, asked <- inHand \o requests,
                             answered <- replies
ImplementsExchange == EX!ExchangeSpec

(* The answers in a FIFO are in the order of the questions, each question    *)
(* answered at most once: read() never gives 0, which would make main()      *)
(* answer what is left in sq_msg again.                                      *)
AnsweredInOrder ==
    \A p \in Pids : \A a, b \in 1 .. Len(replies[p]) :
        LET m == replies[p][a]  later == replies[p][b]
        IN  a < b => \/ m.from[2] < later.from[2]
                     \/ m.from[2] = later.from[2] /\ m.n < later.n

(* The second clients_find(), in smi_send_release(), finds the slot of the   *)
(* first: sq_clients[-1] is never written through.                           *)
ReplyHasSlot == srv = "reply" => SlotsOf(msg.from[1]) # {}

(* A client that has its slot and its descriptor keeps both: a full table    *)
(* costs the newcomer its answer, nobody else.                               *)
SlotsKept == [][\A i \in Slot : slots[i].fd # Nobody => slots'[i] = slots[i]]_vars

(* The server is dead or was never started, or it waits where it cannot go   *)
(* on: for a reader of a FIFO whose client has ended, also when the client   *)
(* that has the pid now has put another one at the path, or for room in the  *)
(* FIFO of the client it answers, which nobody ever reads.                   *)
ServerStuck ==
    \/ srv \in {"start", "dead"}
    \/ /\ srv = "opening" /\ ~found
       /\ pc[msg.from[1]] = "off" \/ opening # ClientOf(msg.from[1])
    \/ srv = "reply" /\ Len(replies[msg.from[1]]) = FifoCapacity

(* Through all the calls of the interface a client that is not killed comes  *)
(* to its end, unless the server is in one of the states above for good.     *)
ClientsEnd ==
    <>[]ServerStuck \/ \A p \in Pids : pc[p] # "off" ~> pc[p] = "off"

(* "Over capacity, cannot send message.  Client will be blocked indefinitely *)
(* because of blocking FD.": a client whose message found no slot does not   *)
(* get past the smi_receive_getaddr() that follows.                          *)
OverCapacityBlocks ==
    \A c \in dropped : ~(run[c[1]] = c[2] /\ pc[c[1]] \in {"idle", "closed"})

=============================================================================
