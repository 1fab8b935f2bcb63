----------------------------- MODULE ProgramText -----------------------------
(****************************************************************************)
(* The small programs of this repository, each of which is one main() that   *)
(* calls the kernel: written down as their calls, in order.  Every process   *)
(* that runs a text goes through it from wherever fork() left it: a fork()   *)
(* or an execlp() that fails goes on with the next call, whoever that was    *)
(* meant for.  Calls says what each call does.                               *)
(****************************************************************************)
EXTENDS PosixFd, Sequences

(* The local variables.  `tmp' is a result that is tested and not kept.      *)
Register == {"pfd0", "pfd1", "in0", "in1", "fd", "pid1", "pid2", "tmp"}

(* After fork() the parent goes on at `parent', and at `failed' when there   *)
(* is no child; the child goes on with the next call.                        *)
Fork(v, parent, failed) == [op |-> "fork", v |-> v, parent |-> parent, failed |-> failed]
Execlp(cmd) == [op |-> "exec", cmd |-> cmd]
Exit        == [op |-> "exit"]
Wait(v)     == [op |-> "wait", v |-> v]
WaitAll     == [op |-> "wait", v |-> "all"]        \* waitid(P_ALL)
Kill(v)     == [op |-> "kill", v |-> v]
Divide      == [op |-> "divide"]                   \* a = 1 / b, b being 0
Sleep       == [op |-> "sleep"]                    \* for 1000 seconds

Pipe(r, w)  == [op |-> "pipe", r |-> r, w |-> w]
Dup(v, to)  == [op |-> "dup2", v |-> v, to |-> to]
Close(v)    == [op |-> "close", v |-> v]
Open(v)     == [op |-> "open", v |-> v]
Write(v)    == [op |-> "write", v |-> v]
Feed(v, w)  == [op |-> "feed", v |-> v, w |-> w]   \* read(v) and write(w) until 0
Drain(v)    == [op |-> "drain", v |-> v]           \* read(v) and print until 0

Unlink      == [op |-> "unlink"]
Connect     == [op |-> "connect"]                  \* again and again until it works
Bind        == [op |-> "bind"]
Listen      == [op |-> "listen"]
Accept      == [op |-> "accept"]
Send        == [op |-> "send"]
Receive     == [op |-> "receive"]
HangUp(end) == [op |-> "hangup", end |-> end]      \* close() of fd_skt or fd_client

-----------------------------------------------------------------------------
(* communication/who_count.c, "ls | wc -l" *)

(* Mutant: main() keeps its write end. *)
WhoCount_KeepsWriteEnd ==
    << Pipe("pfd0", "pfd1"),
       Fork("pid1", 7, 3),
          Dup("pfd1", STDOUT_FILENO), Close("pfd1"), Close("pfd0"), Execlp("ls"),
       Fork("pid2", 12, 8),
          Dup("pfd0", STDIN_FILENO), Close("pfd1"), Close("pfd0"), Execlp("wc"),
       Close("pfd0"), Wait("pid1"), Wait("pid2"), Exit >>

(* Mutant: wc gets its input after the pipe is closed. *)
WhoCount_CloseFirst ==
    << Pipe("pfd0", "pfd1"),
       Fork("pid1", 7, 3),
          Dup("pfd1", STDOUT_FILENO), Close("pfd1"), Close("pfd0"), Execlp("ls"),
       Fork("pid2", 12, 8),
          Close("pfd1"), Close("pfd0"), Dup("pfd0", STDIN_FILENO), Execlp("wc"),
       Close("pfd0"), Close("pfd1"), Wait("pid1"), Wait("pid2"), Exit >>

(* Mutant: main() waits for wc, the last to end, and not for ls. *)
WhoCount_WaitsForWc ==
    << Pipe("pfd0", "pfd1"),
       Fork("pid1", 7, 3),
          Dup("pfd1", STDOUT_FILENO), Close("pfd1"), Close("pfd0"), Execlp("ls"),
       Fork("pid2", 12, 8),
          Dup("pfd0", STDIN_FILENO), Close("pfd1"), Close("pfd0"), Execlp("wc"),
       Close("pfd0"), Close("pfd1"), Wait("pid2"), Exit >>

(* In both switches "case -1" has no break. *)
WhoCount ==
    << Pipe("pfd0", "pfd1"),
       Fork("pid1", 7, 3),
          Dup("pfd1", STDOUT_FILENO), Close("pfd1"), Close("pfd0"), Execlp("ls"),
       Fork("pid2", 12, 8),
          Dup("pfd0", STDIN_FILENO), Close("pfd1"), Close("pfd0"), Execlp("wc"),
       Close("pfd0"), Close("pfd1"), Wait("pid1"), Wait("pid2"), Exit >>

(* communication/fsort.c, a file through sort and back; pfdout is pfd0 and   *)
(* pfd1, pfdin is in0 and in1.                                               *)

FSort ==
    << Pipe("pfd0", "pfd1"), Pipe("in0", "in1"),
       Fork("pid1", 11, 11),
          Dup("pfd0", STDIN_FILENO), Close("pfd0"), Close("pfd1"),
          Dup("in1", STDOUT_FILENO), Close("in0"), Close("in1"), Execlp("sort"),
       Close("pfd0"), Close("in1"),
       Open("fd"), Feed("fd", "pfd1"), Close("fd"), Close("pfd1"),
       Drain("in0"), Close("in0"), Wait("pid1"), Exit >>

(* communication/pipe.c, pipewrite(): the child becomes pread.c, which is    *)
(* given the number of the read end.  "case -1" has no break, and an         *)
(* execlp() that fails goes on into "default".                               *)

(* Mutant: the parent closes the end it writes to. *)
PipeWrite_ClosesWrite ==
    << Pipe("pfd0", "pfd1"),
       Fork("tmp", 5, 3),
          Close("pfd1"), Execlp("pread"),
       Close("pfd1"), Write("pfd1"), Exit >>

PipeWrite ==
    << Pipe("pfd0", "pfd1"),
       Fork("tmp", 5, 3),
          Close("pfd1"), Execlp("pread"),
       Close("pfd0"), Write("pfd1"), Exit >>

(* process/pc.c: three children, each waited for before the next.            *)

(* Mutant: the second child is not waited for. *)
Pc_NoWait ==
    << Fork("tmp", 3, 3), Exit, WaitAll,
       Fork("tmp", 7, 7), Divide, Exit,
       Fork("pid1", 10, 10), Sleep, Exit, Kill("pid1"), WaitAll,
       Exit >>

Pc ==
    << Fork("tmp", 3, 3), Exit, WaitAll,
       Fork("tmp", 7, 7), Divide, Exit, WaitAll,
       Fork("pid1", 11, 11), Sleep, Exit, Kill("pid1"), WaitAll,
       Exit >>

(* socket/basic.c: the child is the client, the parent the server, also when *)
(* fork() fails.                                                             *)

(* Mutant: the server answers before it was asked. *)
Greeting_AnswersFirst ==
    << Unlink,
       Fork("tmp", 8, 8),
          Connect, Send, Receive, HangUp("fd_skt"), Exit,
       Bind, Listen, Accept, Send, Receive, HangUp("fd_skt"), HangUp("fd_client"), Exit >>

Greeting ==
    << Unlink,
       Fork("tmp", 8, 8),
          Connect, Send, Receive, HangUp("fd_skt"), Exit,
       Bind, Listen, Accept, Receive, Send, HangUp("fd_skt"), HangUp("fd_client"), Exit >>

Text == [who_count |-> WhoCount, fsort |-> FSort, pipe |-> PipeWrite, pc |-> Pc,
         basic |-> Greeting]

=============================================================================
