------------------------------- MODULE Programs -------------------------------
(****************************************************************************)
(* The small programs of ProgramText, each started by the user from a        *)
(* terminal; two of socket/basic.c may be started in one directory.          *)
(****************************************************************************)
EXTENDS Sockets

vars == <<kernel, net>>

Init ==
    /\ prog \in DOMAIN Text
    /\ \E roots \in {{1}, {1, 2}} :
          /\ roots = {1, 2} => prog = "basic"
          /\ proc = [p \in Procs |-> IF p \in roots THEN Started ELSE Unused]
    /\ filled = {}
    /\ happened = {}
    /\ net = NoNet

Step(p) ==
    \/ KernelStep(p) /\ UNCHANGED net
    \/ SocketStep(p)
    \/ DoExit(p) /\ net' = AllClosedBy(p)

(* The child that is killed sleeps for 1000 seconds: main() may be slower,   *)
(* but nothing may depend on that.                                           *)
Next == \E p \in Procs : Step(p) \/ (SleepEnds(p) /\ UNCHANGED net)

Spec == Init /\ [][Next]_vars

(* The kernel runs every process. *)
FairSpec == Spec /\ \A p \in Procs : WF_vars(Step(p))

-----------------------------------------------------------------------------
(* Properties *)

TypeOK ==
    /\ prog \in DOMAIN Text
    /\ \A p \in Procs :
         /\ proc[p].life \in {"unused", "code", "command", "zombie", "reaped"}
         /\ proc[p].pc \in DOMAIN Code
         /\ proc[p].tab \in Table
         /\ proc[p].parent \in 0 .. MaxProcs
         /\ proc[p].cmd \in {"none", "ls", "wc", "sort", "pread"}
         /\ \A v \in Register : proc[p].reg[v] \in Fd \cup Procs \cup {NoFd}
    /\ filled \subseteq Pipes
    /\ happened \subseteq {"fork", "exec", "open", "eof"}
    /\ net.name \in 0 .. MaxProcs
    /\ \A p \in Procs :
         /\ net.socket[p] \in {"new", "named", "listening", "closed"}
         /\ net.queue[p] \in Seq(Procs)
         /\ net.peer[p] \in 0 .. MaxProcs
         /\ net.shown[p] \in {"none", "nothing", "Hello!", "Goodbye!"}
    /\ net.open \subseteq Procs /\ net.sent \subseteq Procs

(* Whatever else a process inherited or could not get, a command runs with   *)
(* 0, 1 and 2 only: ls writes to the pipe, wc reads from it unless it was    *)
(* started by a process whose own exec had failed, and sort stands between   *)
(* two different pipes.  pread.c has one more, the read end of the pipe at   *)
(* the number it was given.                                                  *)
CommandsWired ==
    \A p \in Procs : proc[p].life = "command" =>
        LET more == {fd \in 3 .. MaxFd : proc[p].tab[fd] # Closed}
        IN
        /\ proc[p].cmd # "pread" => more = {}
        /\ proc[p].cmd = "ls" => \E k \in Pipes : Output(p) = WriteEnd(k)
        /\ proc[p].cmd = "wc" =>
             "exec" \in happened \/ (Output(p) = Tty /\ \E k \in Pipes : Input(p) = ReadEnd(k))
        /\ proc[p].cmd = "sort" =>
             \E j, k \in Pipes : j # k /\ Input(p) = ReadEnd(j) /\ Output(p) = WriteEnd(k)
        /\ proc[p].cmd = "pread" =>
             /\ more = {proc[p].reg["pfd0"]}
             /\ \E k \in Pipes : proc[p].tab[proc[p].reg["pfd0"]] = ReadEnd(k)

(* pread.c finds "hello" in the pipe, however late pipe.c writes and however *)
(* early it ends; it sees the end of the pipe only when fork() failed, and   *)
(* the program that should have written became pread.c itself.               *)
HelloArrives == "eof" \in happened => "fork" \in happened

(* Who is told "Goodbye!" was heard by that very server, and, unless a       *)
(* second pair plays with the same name, whoever comes to the end has got    *)
(* what the other sent.                                                      *)
Alone == \A p \in Procs : proc[p].life # "unused" /\ proc[p].parent = 0 => p = 1
Conversation ==
    prog = "basic" =>
        \A p \in Procs :
            /\ net.shown[p] = "Goodbye!" => net.shown[net.peer[p]] = "Hello!"
            /\ Alone /\ proc[p].life = "zombie" => net.shown[p] \notin {"none", "nothing"}

(* When main() of pc.c makes a child, none of an earlier case is left: the   *)
(* status that waitid(P_ALL) gives it, for whichever child, is that of the   *)
(* case it prints it for, unless fork() failed and it prints a siginfo_t     *)
(* that nobody has written to.                                               *)
OwnStatus ==
    \A p \in Procs : (prog = "pc" /\ At(p, "fork")) => \A q \in Procs : ~ChildOf(p, q)

(* Whoever comes to the end of main() of who_count.c, fsort.c or pc.c has     *)
(* waited for all the children it made, whichever of its calls failed: a     *)
(* waitpid() for the -1 of a failed fork(), or for the 0 of a process that   *)
(* runs on after its exec failed, takes any child, also the one the next     *)
(* waitpid() is for.                                                         *)
ChildrenReaped ==
    prog \in {"who_count", "fsort", "pc"} =>
        \A p, q \in Procs : At(p, "exit") => ~ChildOf(p, q)

(* All processes end, also those that run code meant for another one because *)
(* a fork() or an exec failed in who_count.  What is excused: when both fail *)
(* there, main() may keep the read end as its own input and wait for an ls   *)
(* that nobody reads; fsort never ends when its data file or sort is         *)
(* missing, for it reads from what is not open; a server of basic.c waits    *)
(* for ever in accept() when it has no client, and a client in connect()     *)
(* when it has no server, because a fork() failed or the other pair has      *)
(* taken the name.                                                           *)
AllEnd ==
    <>(\/ \A p \in Procs : ~Live(p)
       \/ prog = "who_count" /\ {"fork", "exec"} \subseteq happened
       \/ prog = "fsort" /\ happened \cap {"exec", "open"} # {}
       \/ /\ prog = "basic" /\ (~Alone \/ "fork" \in happened)
          /\ \A p \in Procs : Live(p) => At(p, "accept") \/ At(p, "connect"))

=============================================================================
