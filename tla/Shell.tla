-------------------------------- MODULE Shell --------------------------------
(****************************************************************************)
(* communication/shell.c: the interpreter and the processes it makes.       *)
(*                                                                          *)
(* The shell reads tokens into a stack of calls of command(), one for every *)
(* stage of a pipeline, a "|" making the next call.  At ";", "&" or a new   *)
(* line the calls return, the last stage first; each one makes the pipe to  *)
(* its left, forks its process and closes its ends.  The shell then waits   *)
(* for the last stage, unless the line ended in "&", checks that no         *)
(* descriptor leaked, and reads on.  A child arranges its descriptors 0 and *)
(* 1, makes the same check and becomes the command.                         *)
(*                                                                          *)
(* Tokens come one by one from the user, with no end to them.  A token that *)
(* only produces a diagnostic ("Too many args", "Extra <", "Illegal <",     *)
(* "Extra > or >>", "> or >> conflicts with |") leaves this state alone, as *)
(* the `break' there leaves only the switch: it is a stuttering step.       *)
(****************************************************************************)
EXTENDS PosixFd, SequencesExt

CONSTANTS Procs, NoPid,    \* process slots; a slot is reused once it is reaped
          Commands, Files, \* the words typed as commands, and after < and >
          NoWord,          \* the empty string
          Builtins,        \* the commands that builtin() runs itself
          Missing,         \* the words that name no program and no file
          Readers,         \* the programs that read their input to its end
          MaxArg,          \* MAXARG
          MaxDepth         \* bound: the stages of a pipeline

ASSUME ProcsAssumption == NoPid \notin Procs
ASSUME WordsAssumption == NoWord \notin Commands \cup Files
ASSUME BoundsAssumption == MaxArg \in Nat \ {0} /\ MaxDepth \in Nat \ {0}

VARIABLES
    mode,     \* where start_shell() is
    stack,    \* the calls of command(), the outermost first
    bckgrnd,  \* the token that ended the line was T_AMP
    wpid,     \* start_shell's pid, set by the last stage
    shfd,     \* the descriptors of the shell
    pstate,   \* the life of each process
    job,      \* what invoke() was given for it
    fdtab,    \* its descriptors
    leaked    \* history: invoke() returned early with a pipe end in hand

shellVars == <<mode, stack, bckgrnd, wpid, shfd, leaked>>
procVars  == <<pstate, job, fdtab>>
vars      == <<mode, stack, bckgrnd, wpid, shfd, pstate, job, fdtab, leaked>>

Modes == {"read", "invoke", "wait", "check", "exited", "aborted"}
FdOrNone == Fd \cup {NoFd}

Frame == [argc : 0 .. MaxArg - 1, cmd : Commands \cup {NoWord},
          srcfd : {STDIN_FILENO, NoFd}, srcfile : Files \cup {NoWord},
          dstfd : FdOrNone, dstfile : Files \cup {NoWord},
          makepipe : BOOLEAN, bar : BOOLEAN]

Job == [cmd : Commands \cup {NoWord},
        srcfd : FdOrNone, srcfile : Files \cup {NoWord},
        dstfd : FdOrNone, dstfile : Files \cup {NoWord},
        bckgrnd : BOOLEAN, closefd : FdOrNone,
        last : BOOLEAN,              \* it is the stage *wpid is set from
        stage : 0 .. MaxDepth]       \* its place in the pipeline

NewFrame(makepipe) ==
    [argc |-> 0, cmd |-> NoWord, srcfd |-> STDIN_FILENO, srcfile |-> NoWord,
     dstfd |-> STDOUT_FILENO, dstfile |-> NoWord,
     makepipe |-> makepipe, bar |-> FALSE]

NoJob == [cmd |-> NoWord, srcfd |-> NoFd, srcfile |-> NoWord,
          dstfd |-> NoFd, dstfile |-> NoWord, bckgrnd |-> FALSE,
          closefd |-> NoFd, last |-> FALSE, stage |-> 0]

Started == [fd \in Fd |-> IF fd < 3 THEN Tty ELSE Closed]

Init ==
    /\ mode = "read"
    /\ stack = <<NewFrame(FALSE)>>
    /\ bckgrnd = FALSE
    /\ wpid = NoPid
    /\ shfd = Started
    /\ pstate = [p \in Procs |-> "free"]
    /\ job = [p \in Procs |-> NoJob]
    /\ fdtab = [p \in Procs |-> AllClosed]
    /\ leaked = FALSE

-----------------------------------------------------------------------------
(* Descriptors across the processes *)

Live(p) == pstate[p] \in {"forked", "running"}
HasHighFd(tab) == \E fd \in Fd : 3 <= fd /\ fd < 20 /\ IsOpen(tab, fd)
HeldSomewhere(file) == Holds(shfd, file) \/ \E p \in Procs : Holds(fdtab[p], file)
UnusedPipes == {k \in Pipes : ~HeldSomewhere(ReadEnd(k)) /\ ~HeldSomewhere(WriteEnd(k))}

-----------------------------------------------------------------------------
(* command(): reading a line *)

Top == Last(stack)
SetTop(f) == stack' = Append(Front(stack), f)
Reading == mode = "read" /\ UNCHANGED <<mode, bckgrnd, wpid, shfd, leaked, procVars>>

(* Mutant: the "argc >= MAXARG -1" test is missing. *)
Word_NoLimit(w) ==
    /\ Reading
    /\ SetTop([Top EXCEPT !.argc = @ + 1, !.cmd = IF Top.argc = 0 THEN w ELSE @])

Word(w) ==
    /\ Reading
    /\ Top.argc < MaxArg - 1
    /\ SetTop([Top EXCEPT !.argc = @ + 1, !.cmd = IF Top.argc = 0 THEN w ELSE @])

(* T_LT and the word after it *)
RedirectInput(w) ==
    /\ Reading
    /\ ~Top.makepipe
    /\ SetTop([Top EXCEPT !.srcfd = NoFd, !.srcfile = w])

(* T_GT or T_GTGT and the word after it *)
RedirectOutput(w) ==
    /\ Reading
    /\ Top.dstfd = STDOUT_FILENO
    /\ SetTop([Top EXCEPT !.dstfd = NoFd, !.dstfile = w])

Bar ==
    /\ Reading
    /\ Len(stack) < MaxDepth
    /\ Top.dstfd = STDOUT_FILENO
    /\ stack' = Append(Append(Front(stack), [Top EXCEPT !.bar = TRUE]), NewFrame(TRUE))

(* T_AMP, or T_SEMI or T_NL, which differ only in what is printed next *)
Terminator(amp) ==
    /\ mode = "read"
    /\ mode' = "invoke"
    /\ bckgrnd' = amp
    /\ UNCHANGED <<stack, wpid, shfd, leaked, procVars>>

(* T_ERROR, which gettoken() returns at the end of the input, makes every   *)
(* call return and start_shell() leave its loop; T_EOF makes command()      *)
(* exit.  Both end the shell: no stage of the line runs, nothing is waited. *)
EndOfInput ==
    /\ mode = "read"
    /\ mode' = "exited"
    /\ stack' = <<>>
    /\ shfd' = AllClosed
    /\ UNCHANGED <<bckgrnd, wpid, leaked, procVars>>

-----------------------------------------------------------------------------
(* command(): making the stages, the last one first *)

(* pipe(pfd), when this stage reads from one; its result is not looked at. *)
Piping == IF Top.makepipe THEN PipeResults(shfd, UnusedPipes) ELSE {PipeFails(shfd)}
Source(pfd) == IF Top.makepipe THEN pfd.rd ELSE Top.srcfd

(* Mutant: every stage sets *wpid, not only the last one. *)
Return_AnyStage(pfd, pid) ==
    /\ stack' = IF Len(stack) = 1 THEN <<>>
                ELSE LET rest == Front(stack)
                     IN Append(Front(rest), [Last(rest) EXCEPT !.dstfd = pfd.wr])
    /\ wpid' = pid
    /\ mode' = IF Len(stack) > 1 THEN "invoke"
               ELSE IF ~bckgrnd /\ wpid' # NoPid THEN "wait" ELSE "check"
    /\ UNCHANGED bckgrnd

(* The call returns; *pipefdp hands the write end to the stage on the left. *)
Return(pfd, pid) ==
    /\ stack' = IF Len(stack) = 1 THEN <<>>
                ELSE LET rest == Front(stack)
                     IN Append(Front(rest), [Last(rest) EXCEPT !.dstfd = pfd.wr])
    /\ wpid' = IF Top.bar THEN wpid ELSE pid
    /\ mode' = IF Len(stack) > 1 THEN "invoke"
               ELSE IF ~bckgrnd /\ wpid' # NoPid THEN "wait" ELSE "check"
    /\ UNCHANGED bckgrnd

(* invoke() returns 0 before its two close() calls: no words, a builtin, or *)
(* a fork() that fails, which it may do at any time.                        *)
SkipStage(pfd) ==
    /\ Return(pfd, NoPid)
    /\ shfd' = pfd.tab
    /\ leaked' = (leaked \/ Source(pfd) > STDOUT_FILENO \/ Top.dstfd > STDOUT_FILENO)
    /\ UNCHANGED procVars

(* Mutants: the parent keeps its descriptors, or those up to 3. *)
CloseHigh_Never(tab, fd) == tab
CloseHigh_OffByOne(tab, fd) == IF fd > 3 THEN CloseFd(tab, fd) ELSE tab

(* "if(fd > STDOUT_FILENO) close(fd)" *)
CloseHigh(tab, fd) == IF fd > STDOUT_FILENO THEN CloseFd(tab, fd) ELSE tab

ForkStage(pfd, p) ==
    /\ Top.argc # 0 /\ Top.cmd \notin Builtins
    /\ pstate[p] = "free"
    /\ Return(pfd, p)
    /\ pstate' = [pstate EXCEPT ![p] = "forked"]
    /\ fdtab' = [fdtab EXCEPT ![p] = pfd.tab]
    /\ job' = [job EXCEPT ![p] =
                 [cmd |-> Top.cmd, srcfd |-> Source(pfd), srcfile |-> Top.srcfile,
                  dstfd |-> Top.dstfd, dstfile |-> Top.dstfile,
                  bckgrnd |-> bckgrnd, closefd |-> pfd.wr,
                  last |-> ~Top.bar, stage |-> Len(stack)]]
    /\ shfd' = CloseHigh(CloseHigh(pfd.tab, Source(pfd)), Top.dstfd)
    /\ UNCHANGED leaked

-----------------------------------------------------------------------------
(* start_shell(): after the line *)

(* Mutant: the loop ends with the first child reaped, whichever it is. *)
Wait_AnyChild(p) ==
    /\ mode = "wait"
    /\ pstate[p] = "zombie"
    /\ pstate' = [pstate EXCEPT ![p] = "free"]
    /\ job' = [job EXCEPT ![p] = NoJob]
    /\ mode' = "check"
    /\ UNCHANGED <<stack, bckgrnd, wpid, shfd, fdtab, leaked>>

(* One turn of wait_and_display()'s loop: any child that has ended. *)
Wait(p) ==
    /\ mode = "wait"
    /\ pstate[p] = "zombie"
    /\ pstate' = [pstate EXCEPT ![p] = "free"]
    /\ job' = [job EXCEPT ![p] = NoJob]
    /\ mode' = IF p = wpid THEN "check" ELSE "wait"
    /\ UNCHANGED <<stack, bckgrnd, wpid, shfd, fdtab, leaked>>

(* command() sets its results before they are read again; here they fall    *)
(* back to their first values at once.                                      *)
FdCheck ==
    /\ mode = "check"
    /\ bckgrnd' = FALSE /\ wpid' = NoPid
    /\ IF HasHighFd(shfd)
       THEN mode' = "aborted" /\ shfd' = AllClosed /\ UNCHANGED stack
       ELSE mode' = "read" /\ stack' = <<NewFrame(FALSE)>> /\ UNCHANGED shfd
    /\ UNCHANGED <<leaked, procVars>>

-----------------------------------------------------------------------------
(* The child: invoke() after fork(), redirect(), execvp() *)

(* The kernel closes what a process had open; all that is kept of its job  *)
(* is which line it belonged to.                                           *)
End(p) ==
    /\ pstate' = [pstate EXCEPT ![p] = "zombie"]
    /\ fdtab' = [fdtab EXCEPT ![p] = AllClosed]
    /\ job' = [job EXCEPT ![p] = [NoJob EXCEPT !.last = job[p].last,
                                              !.bckgrnd = job[p].bckgrnd]]

(* Mutant: the background reads what the shell reads. *)
WithSource_NoNull(j, tab) ==
    IF j.srcfile = NoWord THEN MoveFd(tab, j.srcfd, STDIN_FILENO)
    ELSE IF j.srcfile \in Missing THEN tab
    ELSE [tab EXCEPT ![STDIN_FILENO] = Disk]

WithSource(j, tab) ==
    IF j.srcfd = STDIN_FILENO /\ j.bckgrnd THEN [tab EXCEPT ![STDIN_FILENO] = Null]
    ELSE IF j.srcfile = NoWord THEN MoveFd(tab, j.srcfd, STDIN_FILENO)
    ELSE IF j.srcfile \in Missing THEN tab
    ELSE [tab EXCEPT ![STDIN_FILENO] = Disk]

WithDestination(j, tab) ==
    IF j.dstfile = NoWord THEN MoveFd(tab, j.dstfd, STDOUT_FILENO)
    ELSE IF j.dstfile \in Missing THEN tab
    ELSE [tab EXCEPT ![STDOUT_FILENO] = Disk]

(* Mutant: the child does not close closefd. *)
Redirected_KeepsClosefd(j, tab) == WithDestination(j, WithSource(j, tab))

(* The child's descriptors when it reaches fd_check(). *)
Redirected(j, tab) == WithDestination(j, WithSource(j, CloseFd(tab, j.closefd)))

Dies(tab, p) == HasHighFd(tab) \/ job[p].cmd \in Missing

Exec(p) ==
    /\ pstate[p] = "forked"
    /\ LET tab == Redirected(job[p], fdtab[p]) IN
       IF Dies(tab, p)
       THEN End(p)
       ELSE /\ pstate' = [pstate EXCEPT ![p] = "running"]
            /\ fdtab' = [fdtab EXCEPT ![p] = tab]
            /\ UNCHANGED job
    /\ UNCHANGED shellVars

-----------------------------------------------------------------------------
(* The commands and the user, who are not part of the repository *)

Input(p)  == fdtab[p][STDIN_FILENO]
Output(p) == fdtab[p][STDOUT_FILENO]
IsReadEnd(file)  == \E k \in Pipes : file = ReadEnd(k)
IsWriteEnd(file) == \E k \in Pipes : file = WriteEnd(k)

(* A program that reads its input to the end cannot finish while anyone,   *)
(* itself included, could still write to the pipe.  A program that writes  *)
(* to a pipe finishes when a running program reads it to the end or nobody *)
(* holds the read end (SIGPIPE).                                           *)
SeesEndOfInput(p) ==
    (job[p].cmd \in Readers /\ IsReadEnd(Input(p)))
        => ~HeldSomewhere(WriteEnd(Input(p)[2]))
OutputDrains(p) ==
    IsWriteEnd(Output(p)) =>
        \/ ~HeldSomewhere(ReadEnd(Output(p)[2]))
        \/ \E q \in Procs : /\ pstate[q] = "running"
                            /\ job[q].cmd \in Readers
                            /\ Input(q) = ReadEnd(Output(p)[2])

Finish(p) ==
    /\ pstate[p] = "running"
    /\ SeesEndOfInput(p)
    /\ OutputDrains(p)
    /\ End(p)
    /\ UNCHANGED shellVars

(* SIGINT from the terminal: entry_sig() restored its action in the         *)
(* foreground children only; the shell and the background ignore it.        *)
Interrupt(p) ==
    /\ pstate[p] = "running"
    /\ ~job[p].bckgrnd
    /\ End(p)
    /\ UNCHANGED shellVars

-----------------------------------------------------------------------------
Read == \/ \E w \in Commands : Word(w)
        \/ \E w \in Files : RedirectInput(w) \/ RedirectOutput(w)
        \/ Bar
        \/ \E amp \in BOOLEAN : Terminator(amp)
        \/ EndOfInput

Stage ==
    /\ mode = "invoke"
    /\ \E pfd \in Piping : SkipStage(pfd) \/ \E p \in Procs : ForkStage(pfd, p)

Next == \/ Read
        \/ Stage
        \/ \E p \in Procs : Wait(p) \/ Exec(p) \/ Finish(p) \/ Interrupt(p)
        \/ FdCheck

Spec == Init /\ [][Next]_vars

(* The kernel runs the shell and every child, and a program that can finish *)
(* does.  The user need not type anything.                                  *)
Fairness == /\ WF_vars(Stage)
            /\ WF_vars(FdCheck)
            /\ \A p \in Procs : WF_vars(Wait(p)) /\ WF_vars(Exec(p)) /\ WF_vars(Finish(p))

FairSpec == Spec /\ Fairness

-----------------------------------------------------------------------------
(* Properties *)

(* Every variable stays in its type: in particular no pipe(), fork() or     *)
(* close() of command() and invoke() is ever called with another value.     *)
TypeOK ==
    /\ mode \in Modes
    /\ stack \in Seq(Frame) /\ Len(stack) <= MaxDepth
    /\ mode \in {"read", "invoke"} => stack # <<>>
    /\ bckgrnd \in BOOLEAN
    /\ wpid \in Procs \cup {NoPid}
    /\ shfd \in Table
    /\ pstate \in [Procs -> {"free", "forked", "running", "zombie"}]
    /\ job \in [Procs -> Job]
    /\ fdtab \in [Procs -> Table]
    /\ leaked \in BOOLEAN

(* start_shell() calls wait_and_display(pid), whose loop ends only when that *)
(* very child is reaped: the child must still be unreaped, be of this line,  *)
(* and be the last stage of it, whose end the user takes for the line's end. *)
WaitTarget ==
    mode = "wait" => /\ wpid \in Procs
                     /\ pstate[wpid] # "free"
                     /\ job[wpid].last
                     /\ ~job[wpid].bckgrnd

(* The shell reads the next line only when the last stage of every earlier  *)
(* foreground line has been reaped by wait_and_display().                   *)
PromptAfterLastStage ==
    mode = "read" => \A p \in Procs :
        pstate[p] # "free" /\ job[p].last => job[p].bckgrnd

(* The shell keeps the promise of JobControl, the job of a line being its    *)
(* last stage: whichever child of whichever line waitpid(-1) returns, and    *)
(* whichever fork() fails, only the end of that stage brings the prompt back.*)
Unreaped(amp) == {p \in Procs : pstate[p] # "free" /\ job[p].last /\ job[p].bckgrnd = amp}
Phase == IF mode = "read" THEN "prompt"
         ELSE IF mode \in {"exited", "aborted"} THEN "over"
         ELSE IF mode = "invoke" /\ ~Top.bar THEN "launch" ELSE "busy"
User == INSTANCE JobControl WITH Jobs <- Procs, phase <- Phase,
                                 fg <- Unreaped(FALSE), bg <- Unreaped(TRUE)
ImplementsJobControl == User!JobSpec

(* As long as no stage was left out, the close() calls of invoke() leave the *)
(* shell without a pipe end whenever a line is started, so the fd_check() of *)
(* start_shell() passes and the shell is not aborted.                        *)
NoLeak ==
    ~leaked => /\ mode # "aborted"
               /\ mode # "invoke" => ~HasHighFd(shfd)

(* Once a line is started, a pipe has one process at its read end, and only *)
(* that process (until it has closed its closefd) or the stage on its left  *)
(* can hold the write end: no third process, and not the shell, keeps the   *)
(* reader from seeing the end of its input.                                 *)
PipeEnds ==
    ~leaked /\ mode # "invoke" => \A k \in Pipes, p, q \in Procs :
        /\ Holds(fdtab[p], ReadEnd(k)) /\ Holds(fdtab[q], ReadEnd(k)) => p = q
        /\ Holds(fdtab[p], ReadEnd(k)) /\ Holds(fdtab[q], WriteEnd(k)) =>
              \/ p = q /\ pstate[p] = "forked"
              \/ p # q /\ job[q].stage = job[p].stage - 1
        /\ ~Holds(shfd, ReadEnd(k)) /\ ~Holds(shfd, WriteEnd(k))

(* As long as no stage was left out, no child dies in the fd_check() of      *)
(* redirect(): closefd, srcfd and dstfd are all it inherits above 2.         *)
ChildPassesCheck ==
    ~leaked => \A p \in Procs :
        pstate[p] = "forked" => ~HasHighFd(Redirected(job[p], fdtab[p]))

(* While the shell reads the terminal, a background process reads it too     *)
(* only if its pipe or its "<" file could not be opened: redirect() gives    *)
(* the others /dev/null, and a stage behind a "|" its pipe.                  *)
TerminalInput ==
    mode = "read" => \A p \in Procs :
        /\ pstate[p] = "running" /\ Input(p) = Tty
        /\ job[p].bckgrnd \/ job[p].stage > 1
        => job[p].srcfd = NoFd

(* A foreground line ends: unless a stage was left out, wait_and_display()   *)
(* returns, whichever stage ends, fails or is interrupted first.             *)
WaitEnds == (mode = "wait" /\ ~leaked) ~> (mode # "wait")

(* Every stage of every line drains and ends, whatever the shell does next,  *)
(* also when it ends itself, unless a stage was left out.                    *)
PipelinesDrain ==
    \A p \in Procs : (pstate[p] = "forked") ~> (~Live(p) \/ leaked)

(* What fd_check() asserts of the shell with "*** fd %d is open ***".        *)
ShellPassesCheck == mode = "check" => ~HasHighFd(shfd)

=============================================================================
