-------------------------------- MODULE Calls --------------------------------
(****************************************************************************)
(* What the calls of ProgramText do to the processes, the pipes and the      *)
(* descriptors.                                                              *)
(*                                                                           *)
(* Of what is in a pipe only the "hello" of pipe.c is kept.  Else a program  *)
(* that reads to the end can finish when nobody could write any more, one    *)
(* that writes when its reader reads, or is gone.  The terminal's user ends  *)
(* the input of whoever reads it.  pipe(), the first call of each program    *)
(* that makes it, is taken to succeed.                                       *)
(****************************************************************************)
EXTENDS ProgramText

CONSTANT MaxProcs      \* bound: the processes ever made

ASSUME MaxProcsAssumption == MaxProcs \in Nat \ {0}

Procs == 1 .. MaxProcs

VARIABLES
    prog,      \* which of the programs it is
    proc,      \* the processes
    filled,    \* the pipes with a "hello" in them
    happened   \* history: the calls that failed, and "eof" when pread.c saw it

kernel == <<prog, proc, filled, happened>>

Code == Text[prog]

Unused == [life |-> "unused", pc |-> 1, tab |-> AllClosed, parent |-> 0, cmd |-> "none",
           reg |-> [v \in Register |-> NoFd]]

(* What the user's shell starts. *)
Started == [Unused EXCEPT !.life = "code",
                          !.tab = [fd \in Fd |-> IF fd < 3 THEN Tty ELSE Closed]]

-----------------------------------------------------------------------------
(* The calls of process p *)

Call(p)   == Code[proc[p].pc]
At(p, op) == proc[p].life = "code" /\ Call(p).op = op
Live(p)   == proc[p].life \in {"code", "command"}
HeldSomewhere(file) == \E p \in Procs : Live(p) /\ Holds(proc[p].tab, file)
UnusedPipes ==
    {k \in Pipes : ~HeldSomewhere(ReadEnd(k)) /\ ~HeldSomewhere(WriteEnd(k))}

Value(p) == proc[p].reg[Call(p).v]
(* The open file behind a descriptor, if it is one. *)
OpenFile(p, fd) == IF fd \in Fd THEN proc[p].tab[fd] ELSE Closed
(* p goes on with the next call and other descriptors. *)
Goes(p, tab) == [proc EXCEPT ![p].pc = @ + 1, ![p].tab = tab]
GoesOn(p)    == Goes(p, proc[p].tab)
(* A process ends, by itself or by a signal. *)
Ends(p) == [proc EXCEPT ![p].life = "zombie", ![p].tab = AllClosed]
(* A call fails, which nobody looks at. *)
Fails(call) == happened' = happened \cup {call}

DoPipe(p) ==
    /\ At(p, "pipe")
    /\ \E made \in PipeResults(proc[p].tab, UnusedPipes) \ {PipeFails(proc[p].tab)} :
          proc' = [Goes(p, made.tab) EXCEPT ![p].reg[Call(p).r] = made.rd,
                                            ![p].reg[Call(p).w] = made.wr]
    /\ UNCHANGED <<prog, filled, happened>>

ForkSucceeds(p, q) ==
    /\ At(p, "fork")
    /\ proc[q].life = "unused" /\ \A r \in 1 .. q - 1 : proc[r].life # "unused"
    /\ proc' = [proc EXCEPT
                  ![p].pc = Call(p).parent, ![p].reg[Call(p).v] = q,
                  ![q] = [proc[p] EXCEPT !.pc = @ + 1, !.parent = p, !.reg[Call(p).v] = 0]]
    /\ UNCHANGED <<prog, filled, happened>>

ForkFails(p) ==
    /\ At(p, "fork")
    /\ proc' = [proc EXCEPT ![p].pc = Call(p).failed, ![p].reg[Call(p).v] = -1]
    /\ Fails("fork")
    /\ UNCHANGED <<prog, filled>>

DoDup2(p) ==
    /\ At(p, "dup2")
    /\ proc' = Goes(p, Dup2(proc[p].tab, Value(p), Call(p).to))
    /\ UNCHANGED <<prog, filled, happened>>

DoClose(p) ==
    /\ At(p, "close")
    /\ proc' = Goes(p, CloseFd(proc[p].tab, Value(p)))
    /\ UNCHANGED <<prog, filled, happened>>

ExecSucceeds(p) ==
    /\ At(p, "exec")
    /\ proc' = [proc EXCEPT ![p].life = "command", ![p].cmd = Call(p).cmd]
    /\ UNCHANGED <<prog, filled, happened>>

ExecFails(p) ==
    /\ At(p, "exec")
    /\ proc' = GoesOn(p)
    /\ Fails("exec")
    /\ UNCHANGED <<prog, filled>>

OpenSucceeds(p) ==
    /\ At(p, "open")
    /\ \E fd \in Fd : /\ IsLowestFree(proc[p].tab, fd)
                      /\ proc' = [Goes(p, [proc[p].tab EXCEPT ![fd] = Disk])
                                     EXCEPT ![p].reg[Call(p).v] = fd]
    /\ UNCHANGED <<prog, filled, happened>>

OpenFails(p) ==
    /\ At(p, "open")
    /\ proc' = [GoesOn(p) EXCEPT ![p].reg[Call(p).v] = NoFd]
    /\ Fails("open")
    /\ UNCHANGED <<prog, filled>>

(* write() to a pipe nobody can read is SIGPIPE, to what is not open -1. *)
DoWrite(p) ==
    /\ At(p, "write")
    /\ LET out == OpenFile(p, Value(p))
       IN  \/ out = Closed /\ proc' = GoesOn(p) /\ UNCHANGED filled
           \/ /\ out # Closed
              /\ HeldSomewhere(ReadEnd(out[2]))
              /\ proc' = GoesOn(p) /\ filled' = filled \cup {out[2]}
           \/ /\ out # Closed
              /\ ~HeldSomewhere(ReadEnd(out[2]))
              /\ proc' = Ends(p) /\ UNCHANGED filled
    /\ UNCHANGED <<prog, happened>>

(* The loop over the data file.  read() of a descriptor that is not open is  *)
(* -1 and never 0: the loop then has no end.                                 *)
FeedEnds(p) ==
    /\ At(p, "feed")
    /\ OpenFile(p, Value(p)) # Closed
    /\ proc' = GoesOn(p)
    /\ UNCHANGED <<prog, filled, happened>>

(* The reader is gone. *)
FeedBreaks(p) ==
    /\ At(p, "feed")
    /\ OpenFile(p, Value(p)) # Closed
    /\ LET out == OpenFile(p, proc[p].reg[Call(p).w])
       IN  out # Closed /\ ~HeldSomewhere(ReadEnd(out[2]))
    /\ proc' = Ends(p)
    /\ UNCHANGED <<prog, filled, happened>>

(* The loop over what sort prints, which has no end either when read() fails. *)
DrainEnds(p) ==
    /\ At(p, "drain")
    /\ LET in == OpenFile(p, Value(p))
       IN  in # Closed /\ ~HeldSomewhere(WriteEnd(in[2]))
    /\ proc' = GoesOn(p)
    /\ UNCHANGED <<prog, filled, happened>>

ChildOf(p, q) == proc[q].parent = p /\ proc[q].life \notin {"unused", "reaped"}

(* waitpid() of one child, or of any with 0 or -1; waitid() of any. *)
Awaited(p) ==
    {q \in Procs : /\ ChildOf(p, q)
                   /\ (Call(p).v # "all" /\ Value(p) > 0) => q = Value(p)}

(* ECHILD when there is none. *)
DoWait(p) ==
    /\ At(p, "wait")
    /\ \/ /\ Awaited(p) = {}
          /\ proc' = GoesOn(p)
       \/ \E q \in Awaited(p) :
             /\ proc[q].life = "zombie"
             /\ proc' = [GoesOn(p) EXCEPT ![q].life = "reaped"]
    /\ UNCHANGED <<prog, filled, happened>>

DoExit(p) ==
    /\ At(p, "exit")
    /\ proc' = Ends(p)
    /\ UNCHANGED <<prog, filled, happened>>

(* Undefined: SIGFPE, or nothing when the compiler drops the division. *)
DoDivide(p) ==
    /\ At(p, "divide")
    /\ proc' \in {Ends(p), GoesOn(p)}
    /\ UNCHANGED <<prog, filled, happened>>

SleepEnds(p) ==
    /\ At(p, "sleep")
    /\ proc' = GoesOn(p)
    /\ UNCHANGED <<prog, filled, happened>>

(* kill(-1) is for every process but the caller. *)
DoKill(p) ==
    /\ At(p, "kill")
    /\ proc' = [q \in Procs |->
                  IF Live(q) /\ q # p /\ Value(p) \in {-1, q} THEN Ends(q)[q] ELSE GoesOn(p)[q]]
    /\ UNCHANGED <<prog, filled, happened>>

-----------------------------------------------------------------------------
(* The commands *)

Input(p)  == proc[p].tab[STDIN_FILENO]
Output(p) == proc[p].tab[STDOUT_FILENO]

SeesEndOfInput(p) ==
    (proc[p].cmd \in {"wc", "sort"} /\ Input(p) \in {ReadEnd(k) : k \in Pipes})
        => ~HeldSomewhere(WriteEnd(Input(p)[2]))

(* The one line wc prints fits in any pipe; what the others print may not.   *)
OutputDrains(p) ==
    (proc[p].cmd # "wc" /\ Output(p) \in {WriteEnd(k) : k \in Pipes}) =>
        \/ ~HeldSomewhere(ReadEnd(Output(p)[2]))
        \/ \E q \in Procs : /\ proc[q].life = "command" \/ At(q, "drain")
                            /\ Holds(proc[q].tab, ReadEnd(Output(p)[2]))

CommandEnds(p) ==
    /\ proc[p].life = "command" /\ proc[p].cmd # "pread"
    /\ SeesEndOfInput(p)
    /\ OutputDrains(p)
    /\ proc' = Ends(p)
    /\ UNCHANGED <<prog, filled, happened>>

(* pread.c reads once, from the descriptor it was told. *)
PreadEnds(p) ==
    /\ proc[p].life = "command" /\ proc[p].cmd = "pread"
    /\ LET in == OpenFile(p, proc[p].reg["pfd0"])
       IN  \/ in[2] \in filled /\ UNCHANGED happened
           \/ /\ in[2] \notin filled /\ ~HeldSomewhere(WriteEnd(in[2]))
              /\ Fails("eof")
    /\ proc' = Ends(p)
    /\ UNCHANGED <<prog, filled>>

KernelStep(p) ==
    \/ DoPipe(p) \/ (\E q \in Procs : ForkSucceeds(p, q)) \/ ForkFails(p)
    \/ DoDup2(p) \/ DoClose(p) \/ ExecSucceeds(p) \/ ExecFails(p)
    \/ OpenSucceeds(p) \/ OpenFails(p) \/ DoWrite(p)
    \/ FeedEnds(p) \/ FeedBreaks(p) \/ DrainEnds(p)
    \/ DoWait(p) \/ DoDivide(p) \/ DoKill(p)
    \/ CommandEnds(p) \/ PreadEnds(p)

=============================================================================
