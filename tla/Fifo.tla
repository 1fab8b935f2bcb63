-------------------------------- MODULE Fifo ---------------------------------
(****************************************************************************)
(* ad_comm/fifo_app.c and fifo_app_client.c: a server that upcases words,    *)
(* and clients that send it three words each.  Either may be started first:  *)
(* both make the server's FIFO.  Nobody makes the FIFO of a client, so the   *)
(* open() calls for it fail in both programs, the server writes its answer   *)
(* to descriptor -1, and the client reads from -1 and prints its own word.   *)
(*                                                                           *)
(* FIFOs are the kernel's, see Smi.  A client can be killed anywhere.  A     *)
(* message is who sent it and which of its words it is.                      *)
(****************************************************************************)
EXTENDS Integers, SequencesExt

CONSTANTS Clients,      \* the clients, by their pids
          Words,        \* how many words a client sends
          FifoCapacity  \* how many messages a FIFO holds

ASSUME FifoAssumption == Words \in Nat /\ FifoCapacity \in Nat \ {0}

VARIABLES
    exists,     \* the server's FIFO is there
    fifo,       \* what is in it
    met,        \* a writer has opened it since the server reads
    srv,        \* the server: where it is
    ownWriter,  \* fd_server_w is open
    received,   \* the messages the server has read
    pc, i,      \* each client: where it is, and its loop counter
    connected   \* fd_server of each client is not -1

serverVars == <<srv, ownWriter, received>>
clientVars == <<pc, i, connected>>
vars == <<exists, fifo, met, srv, ownWriter, received, pc, i, connected>>

Message == [sm_clientpid : Clients, sm_data : 1 .. Words]

ServerReads == srv \notin {"off", "exited"}
HasWriter == ownWriter \/ \E c \in Clients : connected[c]

Init ==
    /\ exists \in BOOLEAN /\ fifo = <<>> /\ met = FALSE
    /\ srv = "off" /\ ownWriter = FALSE /\ received = <<>>
    /\ pc = [c \in Clients |-> "off"] /\ i = [c \in Clients |-> 0]
    /\ connected = [c \in Clients |-> FALSE]

-----------------------------------------------------------------------------
(* The server *)

ServerMkfifo ==
    /\ srv = "off"
    /\ exists' = TRUE
    /\ srv' = "open"
    /\ UNCHANGED <<fifo, met, ownWriter, received, clientVars>>

(* Mutant: the server does not open its own FIFO for writing. *)
ServerOpen_ReadOnly ==
    /\ srv = "open" /\ met
    /\ srv' = "receive"
    /\ UNCHANGED <<exists, fifo, met, ownWriter, received, clientVars>>

(* open(O_RDONLY) waits for a writer; open(O_WRONLY) does not wait. *)
ServerOpen ==
    /\ srv = "open" /\ met
    /\ ownWriter' = TRUE
    /\ srv' = "receive"
    /\ UNCHANGED <<exists, fifo, met, received, clientVars>>

(* read(): 0 when the FIFO is empty and has no writer, which ends the server. *)
ServerReceive ==
    /\ srv = "receive"
    /\ fifo # <<>> \/ ~HasWriter
    /\ IF fifo = <<>>
       THEN srv' = "exited" /\ UNCHANGED <<fifo, received>>
       ELSE /\ received' = Append(received, Head(fifo))
            /\ fifo' = Tail(fifo)
            /\ srv' = "answer"
    /\ UNCHANGED <<exists, met, ownWriter, clientVars>>

(* open() of the client's FIFO fails, and so do write() and close() on -1. *)
ServerAnswer ==
    /\ srv = "answer"
    /\ srv' = "receive"
    /\ UNCHANGED <<exists, fifo, met, ownWriter, received, clientVars>>

Server == ServerMkfifo \/ ServerOpen \/ ServerReceive \/ ServerAnswer

-----------------------------------------------------------------------------
(* Client c *)

(* Mutant: the client leaves it to the server to make the FIFO. *)
ClientMkfifo_None(c) ==
    /\ pc[c] = "off" /\ i[c] = 0
    /\ pc' = [pc EXCEPT ![c] = "connect"]
    /\ UNCHANGED <<exists, fifo, met, serverVars, i, connected>>

ClientMkfifo(c) ==
    /\ pc[c] = "off" /\ i[c] = 0
    /\ exists' = TRUE
    /\ pc' = [pc EXCEPT ![c] = "connect"]
    /\ UNCHANGED <<fifo, met, serverVars, i, connected>>

(* open(O_WRONLY): -1 without a FIFO, else a wait for the server. *)
ClientConnect(c) ==
    /\ pc[c] = "connect"
    /\ exists => ServerReads
    /\ connected' = [connected EXCEPT ![c] = exists]
    /\ met' = (met \/ exists)
    /\ i' = [i EXCEPT ![c] = 1]
    /\ pc' = [pc EXCEPT ![c] = IF 1 <= Words THEN "send" ELSE "close"]
    /\ UNCHANGED <<exists, fifo, serverVars>>

(* write(): fails on -1, a SIGPIPE when the server is gone, a wait when full. *)
ClientSend(c) ==
    /\ pc[c] = "send"
    /\ IF connected[c] /\ ~ServerReads
       THEN pc' = [pc EXCEPT ![c] = "killed"] /\ connected' = [connected EXCEPT ![c] = FALSE]
       ELSE pc' = [pc EXCEPT ![c] = "receive"] /\ UNCHANGED connected
    /\ IF connected[c] /\ ServerReads
       THEN /\ Len(fifo) < FifoCapacity
            /\ fifo' = Append(fifo, [sm_clientpid |-> c, sm_data |-> i[c]])
       ELSE UNCHANGED fifo
    /\ UNCHANGED <<exists, met, serverVars, i>>

(* Mutant: the loop goes on from the word that was read back. *)
ClientReceive_SameWord(c) ==
    /\ pc[c] = "receive"
    /\ \E next \in {i[c], i[c] + 1} :
        /\ i' = [i EXCEPT ![c] = next]
        /\ pc' = [pc EXCEPT ![c] = IF next <= Words THEN "send" ELSE "close"]
    /\ UNCHANGED <<exists, fifo, met, serverVars, connected>>

(* Mutant: the loop goes one word too far, over the NULL at the end.         *)
ClientReceive_OneMore(c) ==
    /\ pc[c] = "receive"
    /\ i' = [i EXCEPT ![c] = @ + 1]
    /\ pc' = [pc EXCEPT ![c] = IF i'[c] <= Words + 1 THEN "send" ELSE "close"]
    /\ UNCHANGED <<exists, fifo, met, serverVars, connected>>

(* The two open() calls and read() fail; the word is printed as it is, and   *)
(* the loop goes on.                                                         *)
ClientReceive(c) ==
    /\ pc[c] = "receive"
    /\ i' = [i EXCEPT ![c] = @ + 1]
    /\ pc' = [pc EXCEPT ![c] = IF i'[c] <= Words THEN "send" ELSE "close"]
    /\ UNCHANGED <<exists, fifo, met, serverVars, connected>>

ClientClose(c) ==
    /\ pc[c] = "close"
    /\ connected' = [connected EXCEPT ![c] = FALSE]
    /\ pc' = [pc EXCEPT ![c] = "done"]
    /\ UNCHANGED <<exists, fifo, met, serverVars, i>>

Client(c) == ClientConnect(c) \/ ClientSend(c) \/ ClientReceive(c) \/ ClientClose(c)

Kill(c) ==
    /\ pc[c] \in {"connect", "send", "receive", "close"}
    /\ pc' = [pc EXCEPT ![c] = "killed"]
    /\ connected' = [connected EXCEPT ![c] = FALSE]
    /\ UNCHANGED <<exists, fifo, met, serverVars, i>>

-----------------------------------------------------------------------------
Next == Server \/ \E c \in Clients : ClientMkfifo(c) \/ Client(c) \/ Kill(c)

Spec == Init /\ [][Next]_vars

(* The server is started at some time, and what was started is run. *)
FairSpec == Spec /\ WF_vars(Server) /\ \A c \in Clients : WF_vars(Client(c))

-----------------------------------------------------------------------------
(* Properties *)

Sent == received \o fifo
PlacesOf(c, s) == {k \in 1 .. Len(s) : s[k].sm_clientpid = c}

(* No client sends, and the server never reads, anything but a word of the   *)
(* list: the loop of the client stops before the NULL.                       *)
TypeOK ==
    /\ exists \in BOOLEAN /\ met \in BOOLEAN /\ ownWriter \in BOOLEAN
    /\ fifo \in Seq(Message)
    /\ srv \in {"off", "open", "receive", "answer", "exited"}
    /\ received \in Seq(Message)
    /\ pc \in [Clients -> {"off", "connect", "send", "receive", "close", "done", "killed"}]
    /\ i \in [Clients -> 0 .. Words + 1]
    /\ connected \in [Clients -> BOOLEAN]

(* "Cannot read data": the server never takes the end of all the clients for *)
(* the end of its work.                                                      *)
ServerStays == srv # "exited"

(* Between write() and read() no word is lost, doubled or out of order: what *)
(* the server has read from a client, and what is still in the FIFO, are its *)
(* words from the first one on.                                              *)
WordsInOrder ==
    \A c \in Clients :
        LET places == PlacesOf(c, Sent)
        IN  /\ \A k \in places : Sent[k].sm_data = Cardinality({j \in places : j <= k})
            /\ connected[c] =>
                  Cardinality(places) = (IF pc[c] = "receive" THEN i[c] ELSE i[c] - 1)

(* Whichever program is started first, the server comes to read every word   *)
(* of a client that was not killed.                                          *)
WordsArrive ==
    \A c \in Clients : pc[c] = "connect" ~>
        (pc[c] = "killed" \/ Cardinality(PlacesOf(c, received)) = Words)

=============================================================================
