------------------------------- MODULE Sockets -------------------------------
(****************************************************************************)
(* The calls of socket/basic.c: one name in the file system, the listening   *)
(* sockets behind it, and the connections between clients and servers.  A    *)
(* process has at most one connection; it is known by its two processes.     *)
(* Calls that fail are never looked at, but for connect().                   *)
(****************************************************************************)
EXTENDS Calls, SequencesExt

VARIABLE net    \* MySocket and what is connected

NoNet ==
    [name   |-> 0,                          \* who bound MySocket, 0: there is no such file
     socket |-> [p \in Procs |-> "new"],    \* a server's fd_skt
     queue  |-> [p \in Procs |-> <<>>],     \* clients the server has not accepted yet
     peer   |-> [p \in Procs |-> 0],        \* the other end of p's connection
     open   |-> {},                         \* the processes whose own end is open
     sent   |-> {},                         \* the processes that have written
     shown  |-> [p \in Procs |-> "none"]]   \* what p printed that it got

IsClient(p) == proc[p].reg["tmp"] = 0       \* fork() == 0
Word(p)     == IF IsClient(p) THEN "Hello!" ELSE "Goodbye!"

(* Somebody may still read what p writes, or write what p reads. *)
OtherEnd(p) ==
    LET q == net.peer[p]
    IN  q # 0 /\ (p \in ToSet(net.queue[q]) \/ (q \in net.open /\ net.peer[q] = p))

NoMore == UNCHANGED <<prog, filled, happened>>

DoUnlink(p) ==
    /\ At(p, "unlink")
    /\ net' = [net EXCEPT !.name = 0]
    /\ proc' = GoesOn(p)
    /\ NoMore

(* Without the file (ENOENT) the client sleeps for a second, without         *)
(* listen() (ECONNREFUSED) it does not, and it calls again in both cases.    *)
DoConnect(p) ==
    /\ At(p, "connect")
    /\ net.name # 0 /\ net.socket[net.name] = "listening"
    /\ net' = [net EXCEPT !.queue[net.name] = Append(@, p), !.peer[p] = net.name,
                          !.open = @ \cup {p}]
    /\ proc' = GoesOn(p)
    /\ NoMore

(* EADDRINUSE when there is such a file. *)
DoBind(p) ==
    /\ At(p, "bind")
    /\ net' = IF net.name = 0 THEN [net EXCEPT !.name = p, !.socket[p] = "named"] ELSE net
    /\ proc' = GoesOn(p)
    /\ NoMore

DoListen(p) ==
    /\ At(p, "listen")
    /\ net' = IF net.socket[p] = "named" THEN [net EXCEPT !.socket[p] = "listening"] ELSE net
    /\ proc' = GoesOn(p)
    /\ NoMore

(* Waits for a client, or fails on a socket that does not listen. *)
DoAccept(p) ==
    /\ At(p, "accept")
    /\ \/ net.socket[p] # "listening" /\ UNCHANGED net
       \/ /\ net.queue[p] # <<>>
          /\ net' = [net EXCEPT !.queue[p] = Tail(@), !.peer[p] = Head(net.queue[p]),
                                !.open = @ \cup {p}]
    /\ proc' = GoesOn(p)
    /\ NoMore

(* The kernel closes what p has open; clients in its queue are cut off. *)
AllClosedBy(p) ==
    [net EXCEPT !.open = @ \ {p}, !.socket[p] = "closed", !.queue[p] = <<>>]

(* SIGPIPE when the other end is gone. *)
DoSend(p) ==
    /\ At(p, "send")
    /\ \/ net.peer[p] = 0 /\ proc' = GoesOn(p) /\ UNCHANGED net
       \/ OtherEnd(p) /\ proc' = GoesOn(p) /\ net' = [net EXCEPT !.sent = @ \cup {p}]
       \/ /\ net.peer[p] # 0 /\ ~OtherEnd(p)
          /\ proc' = Ends(p) /\ net' = AllClosedBy(p)
    /\ NoMore

(* q has written to p, and not to another client that p waits behind. *)
WroteTo(q, p) == q \in net.sent /\ net.peer[q] = p

(* Prints the buffer, also when there was nothing to read any more. *)
DoReceive(p) ==
    /\ At(p, "receive")
    /\ LET q == net.peer[p]
       IN  \/ WroteTo(q, p) /\ net' = [net EXCEPT !.shown[p] = Word(q)]
           \/ /\ ~WroteTo(q, p) /\ ~OtherEnd(p)
              /\ net' = [net EXCEPT !.shown[p] = "nothing"]
    /\ proc' = GoesOn(p)
    /\ NoMore

(* A client's fd_skt is its end of the connection. *)
DoHangUp(p) ==
    /\ At(p, "hangup")
    /\ net' = IF IsClient(p) \/ Call(p).end = "fd_client" THEN [net EXCEPT !.open = @ \ {p}]
              ELSE [net EXCEPT !.socket[p] = "closed", !.queue[p] = <<>>]
    /\ proc' = GoesOn(p)
    /\ NoMore

SocketStep(p) ==
    \/ DoUnlink(p) \/ DoConnect(p) \/ DoBind(p) \/ DoListen(p) \/ DoAccept(p)
    \/ DoSend(p) \/ DoReceive(p) \/ DoHangUp(p)

=============================================================================
