----------------------------- MODULE ShellProofs -----------------------------
(****************************************************************************)
(* Theorems about Shell, for every number of processes, pipes, descriptors, *)
(* arguments and stages.                                                    *)
(****************************************************************************)
EXTENDS Shell, SequenceTheorems, TLAPS

-----------------------------------------------------------------------------
(* Sequences *)

(* What Front and Last return of a sequence that is not empty: the calls of *)
(* command() that are left when the innermost one returns, and that call.   *)
LEMMA FrontLast ==
    ASSUME NEW S, NEW s \in Seq(S), s # <<>>
    PROVE  /\ Front(s) \in Seq(S)
           /\ Len(s) \in Nat \ {0}
           /\ Len(Front(s)) = Len(s) - 1
           /\ \A i \in 1 .. Len(s) - 1 : Front(s)[i] = s[i]
           /\ Last(s) = s[Len(s)]
           /\ Last(s) \in S
<1>1. Len(s) \in Nat \ {0}
  BY EmptySeq
<1>2. \A i \in 1 .. Len(s) - 1 : s[i] \in S
  BY <1>1, ElementOfSeq
<1>3. Last(s) = s[Len(s)] /\ Last(s) \in S
  BY <1>1, ElementOfSeq DEF Last
<1>4. Front(s) \in Seq(S)
  BY <1>1, <1>2, SMT DEF Front
<1>5. Len(Front(s)) = Len(s) - 1
  <2>1. Len(s) - 1 \in Nat
    BY <1>1
  <2>2. \A n \in Nat : n = Len(s) - 1 => Len(SubSeq(s, 1, n)) = n
    BY SMT
  <2>. QED  BY <2>1, <2>2 DEF Front
<1>6. \A i \in 1 .. Len(s) - 1 : Front(s)[i] = s[i]
  BY <1>1, SMT DEF Front
<1>. QED  BY <1>1, <1>3, <1>4, <1>5, <1>6

(* Replacing the last element keeps the others: what the assignments of     *)
(* command() to its locals do to the stack of calls.                        *)
LEMMA ReplaceLast ==
    ASSUME NEW S, NEW s \in Seq(S), s # <<>>, NEW e \in S
    PROVE  LET t == Append(Front(s), e)
           IN /\ t \in Seq(S)
              /\ t # <<>>
              /\ Len(t) = Len(s)
              /\ \A i \in 1 .. Len(s) - 1 : t[i] = s[i]
              /\ t[Len(s)] = e
              /\ Last(t) = e
<1>1. /\ Front(s) \in Seq(S)
      /\ Len(s) \in Nat \ {0}
      /\ Len(Front(s)) = Len(s) - 1
      /\ \A i \in 1 .. Len(s) - 1 : Front(s)[i] = s[i]
  BY FrontLast
<1>. DEFINE t == Append(Front(s), e)
<1>2. /\ t \in Seq(S) /\ t # <<>>
      /\ Len(t) = Len(Front(s)) + 1
      /\ \A i \in 1 .. Len(Front(s)) : t[i] = Front(s)[i]
      /\ t[Len(Front(s)) + 1] = e
  BY <1>1, AppendProperties
<1>3. Last(t) = t[Len(t)]
  BY DEF Last
<1>. QED  BY <1>1, <1>2, <1>3

(* A further call on top of the others. *)
LEMMA Push ==
    ASSUME NEW S, NEW s \in Seq(S), NEW e \in S
    PROVE  /\ Append(s, e) \in Seq(S) /\ Append(s, e) # <<>>
           /\ Len(Append(s, e)) = Len(s) + 1
           /\ \A i \in 1 .. Len(s) : Append(s, e)[i] = s[i]
           /\ Last(Append(s, e)) = e
<1>1. Last(Append(s, e)) = Append(s, e)[Len(Append(s, e))]
  BY DEF Last
<1>. QED  BY <1>1, AppendProperties

(* The stack of calls when a line begins. *)
LEMMA Singleton ==
    ASSUME NEW S, NEW e \in S
    PROVE  /\ <<e>> \in Seq(S) /\ <<e>> # <<>>
           /\ Len(<<e>>) = 1 /\ <<e>>[1] = e /\ Last(<<e>>) = e
  BY DEF Last

-----------------------------------------------------------------------------
(* Descriptor tables *)

(* close(), dup2() and open() keep a table a table. *)
LEMMA TableOps ==
    ASSUME NEW tab \in Table, NEW from, NEW to
    PROVE  /\ CloseFd(tab, from) \in Table
           /\ Dup2(tab, from, to) \in Table
           /\ MoveFd(tab, from, to) \in Table
           /\ CloseHigh(tab, from) \in Table
           /\ \A f \in File, fd \in Fd : [tab EXCEPT ![fd] = f] \in Table
<1>1. Closed \in File
  BY DEF File
<1>2. \A fd : \A tb \in Table : CloseFd(tb, fd) \in Table
  BY <1>1 DEF CloseFd, Table
<1>3. Dup2(tab, from, to) \in Table
  <2>1. \A f \in Fd : tab[f] \in File
    BY DEF Table
  <2>2. IsOpen(tab, from) => tab[from] \in File
    BY <2>1 DEF IsOpen
  <2>. QED  BY <2>1, <2>2 DEF Dup2, Table
<1>4. MoveFd(tab, from, to) \in Table
  BY <1>2, <1>3 DEF MoveFd
<1>5. CloseHigh(tab, from) \in Table
  BY <1>2 DEF CloseHigh
<1>6. \A f \in File, fd \in Fd : [tab EXCEPT ![fd] = f] \in Table
  BY DEF Table
<1>. QED  BY <1>2, <1>3, <1>4, <1>5, <1>6

(* What command() gets from pipe(): two descriptors or none, and a table. *)
LEMMA PipeResultsType ==
    ASSUME NEW tab \in Table, NEW unused \in SUBSET Pipes,
           NEW r \in PipeResults(tab, unused)
    PROVE  r.rd \in FdOrNone /\ r.wr \in FdOrNone /\ r.tab \in Table
<1>1. CASE r = PipeFails(tab)
  BY <1>1 DEF PipeFails, FdOrNone
<1>2. CASE r # PipeFails(tab)
  <2>1. PICK rd \in Fd, wr \in Fd, k \in unused : r = PipeMade(tab, rd, wr, k)
    BY <1>2 DEF PipeResults
  <2>2. ReadEnd(k) \in File /\ WriteEnd(k) \in File
    BY DEF File, ReadEnd, WriteEnd
  <2>3. [tab EXCEPT ![rd] = ReadEnd(k), ![wr] = WriteEnd(k)] \in Table
    BY <2>2 DEF Table
  <2>. QED  BY <2>1, <2>3 DEF PipeMade, FdOrNone
<1>. QED  BY <1>1, <1>2

(* The child's redirections leave it with a table. *)
LEMMA RedirectedType ==
    ASSUME NEW j \in Job, NEW tab \in Table
    PROVE  Redirected(j, tab) \in Table
<1>1. Null \in File /\ Disk \in File /\ STDIN_FILENO \in Fd /\ STDOUT_FILENO \in Fd
  BY MaxFdAssumption DEF File, Null, Disk, STDIN_FILENO, STDOUT_FILENO, Fd
<1>2. ASSUME NEW t \in Table
      PROVE  WithSource(j, t) \in Table /\ WithDestination(j, t) \in Table
  <2>1. MoveFd(t, j.srcfd, STDIN_FILENO) \in Table /\ MoveFd(t, j.dstfd, STDOUT_FILENO) \in Table
    BY TableOps
  <2>2. /\ [t EXCEPT ![STDIN_FILENO] = Null] \in Table
        /\ [t EXCEPT ![STDIN_FILENO] = Disk] \in Table
        /\ [t EXCEPT ![STDOUT_FILENO] = Disk] \in Table
    BY <1>1, TableOps
  <2>. QED  BY <2>1, <2>2 DEF WithSource, WithDestination
<1>3. CloseFd(tab, j.closefd) \in Table
  BY TableOps
<1>. QED  BY <1>2, <1>3 DEF Redirected

-----------------------------------------------------------------------------
(* Type correctness *)

LEMMA FrameType == NewFrame(TRUE) \in Frame /\ NewFrame(FALSE) \in Frame
<1>1. 0 \in 0 .. MaxArg - 1
  BY BoundsAssumption
<1>2. STDOUT_FILENO \in FdOrNone
  BY MaxFdAssumption DEF STDOUT_FILENO, FdOrNone, Fd
<1>. QED  BY <1>1, <1>2 DEF NewFrame, Frame

LEMMA NoJobType == NoJob \in Job /\ AllClosed \in Table
<1>1. NoFd \in FdOrNone /\ 0 \in 0 .. MaxDepth
  BY BoundsAssumption DEF FdOrNone
<1>2. AllClosed \in Table
  BY DEF AllClosed, Table, File
<1>. QED  BY <1>1, <1>2 DEF NoJob, Job

LEMMA TypeInit == Init => TypeOK
<1>. SUFFICES ASSUME Init PROVE TypeOK
  OBVIOUS
<1>1. stack \in Seq(Frame) /\ Len(stack) = 1 /\ stack # <<>>
  BY FrameType, Singleton DEF Init
<1>2. Len(stack) <= MaxDepth
  BY <1>1, BoundsAssumption
<1>3. shfd \in Table
  BY DEF Init, Started, Table, File
<1>4. job \in [Procs -> Job] /\ fdtab \in [Procs -> Table]
  BY NoJobType DEF Init
<1>. QED  BY <1>1, <1>2, <1>3, <1>4 DEF Init, TypeOK, Modes

(* What one return of command() leaves of the stack and of wpid. *)
LEMMA ReturnType ==
    ASSUME TypeOK, mode = "invoke", NEW pfd, pfd.wr \in FdOrNone,
           NEW pid \in Procs \cup {NoPid}, Return(pfd, pid)
    PROVE  /\ mode' \in {"invoke", "wait", "check"}
           /\ stack' \in Seq(Frame)
           /\ Len(stack') <= MaxDepth
           /\ mode' = "invoke" => stack' # <<>>
           /\ wpid' \in Procs \cup {NoPid}
           /\ bckgrnd' \in BOOLEAN
<1>1. /\ stack \in Seq(Frame) /\ stack # <<>>
      /\ Len(stack) \in Nat \ {0} /\ Len(stack) <= MaxDepth
  BY FrontLast DEF TypeOK
<1>2. wpid' \in Procs \cup {NoPid} /\ bckgrnd' \in BOOLEAN
  BY DEF Return, TypeOK
<1>3. mode' \in {"invoke", "wait", "check"} /\ (mode' = "invoke" <=> Len(stack) > 1)
  BY <1>1 DEF Return
<1>4. CASE Len(stack) = 1
  <2>1. stack' = <<>>
    BY <1>4 DEF Return
  <2>2. stack' \in Seq(Frame) /\ Len(stack') = 0
    BY <2>1
  <2>3. 0 <= MaxDepth
    BY BoundsAssumption
  <2>. QED  BY <1>1, <1>2, <1>3, <1>4, <2>2, <2>3
<1>5. CASE Len(stack) # 1
  <2>. DEFINE rest == Front(stack)
              f == [Last(rest) EXCEPT !.dstfd = pfd.wr]
  <2>1. rest \in Seq(Frame) /\ Len(rest) = Len(stack) - 1 /\ rest # <<>>
    <3>1. rest \in Seq(Frame) /\ Len(rest) = Len(stack) - 1
      BY <1>1, FrontLast
    <3>2. Len(rest) # 0
      BY <1>1, <1>5, <3>1
    <3>. QED  BY <3>1, <3>2, EmptySeq
  <2>2. f \in Frame
    <3>1. Last(rest) \in Frame
      BY <2>1, FrontLast
    <3>. QED  BY <3>1 DEF Frame
  <2>3. stack' = Append(Front(rest), f)
    BY <1>5 DEF Return
  <2>4. stack' \in Seq(Frame) /\ stack' # <<>> /\ Len(stack') = Len(rest)
    <3>. HIDE DEF rest, f
    <3>. QED  BY <2>1, <2>2, <2>3, ReplaceLast
  <2>. QED  BY <1>1, <1>2, <1>3, <2>1, <2>4, BoundsAssumption
<1>. QED  BY <1>4, <1>5

(* What pipe() gives the stage that is being made. *)
LEMMA PipingType ==
    ASSUME TypeOK, mode = "invoke", NEW pfd \in Piping
    PROVE  /\ pfd.rd \in FdOrNone /\ pfd.wr \in FdOrNone /\ pfd.tab \in Table
           /\ Top \in Frame
           /\ Source(pfd) \in FdOrNone
<1>1. shfd \in Table /\ UnusedPipes \in SUBSET Pipes
  BY DEF TypeOK, UnusedPipes
<1>2. Top \in Frame
  BY FrontLast DEF Top, TypeOK
<1>3. pfd \in PipeResults(shfd, UnusedPipes)
  BY DEF Piping, PipeResults
<1>4. pfd.rd \in FdOrNone /\ pfd.wr \in FdOrNone /\ pfd.tab \in Table
  BY <1>1, <1>3, PipeResultsType
<1>5. Source(pfd) \in FdOrNone
  <2>1. Top.srcfd \in {0, NoFd}
    BY <1>2 DEF Frame, STDIN_FILENO
  <2>2. {0, NoFd} \subseteq FdOrNone
    BY MaxFdAssumption DEF FdOrNone, Fd
  <2>. QED  BY <1>4, <2>1, <2>2 DEF Source
<1>. QED  BY <1>2, <1>4, <1>5

(* A token that goes into the innermost call of command(). *)
LEMMA ReadingType ==
    ASSUME TypeOK, mode = "read", Reading, NEW f \in Frame, SetTop(f)
    PROVE  TypeOK'
<1>1. stack \in Seq(Frame) /\ stack # <<>>
  BY DEF TypeOK
<1>2. stack' \in Seq(Frame) /\ stack' # <<>> /\ Len(stack') = Len(stack)
  BY <1>1, ReplaceLast DEF SetTop
<1>. QED  BY <1>2 DEF TypeOK, Reading, procVars

LEMMA ReadType == ASSUME TypeOK, Read PROVE TypeOK'
<1>1. mode = "read"
  BY DEF Read, Word, RedirectInput, RedirectOutput, Bar, Terminator, EndOfInput, Reading
<1>2. Top \in Frame /\ stack \in Seq(Frame) /\ stack # <<>> /\ Len(stack) \in Nat \ {0}
  BY <1>1, FrontLast DEF Top, TypeOK
<1>3. ASSUME NEW w \in Commands, Word(w) PROVE TypeOK'
  <2>1. Top.argc \in 0 .. MaxArg - 1 /\ Top.argc < MaxArg - 1
    BY <1>2, <1>3 DEF Frame, Word
  <2>2. Top.argc + 1 \in 0 .. MaxArg - 1
    BY <2>1, BoundsAssumption
  <2>3. [Top EXCEPT !.argc = @ + 1, !.cmd = IF Top.argc = 0 THEN w ELSE @] \in Frame
    BY <1>2, <2>2 DEF Frame
  <2>. QED  BY <1>1, <1>3, <2>3, ReadingType DEF Word
<1>4. ASSUME NEW w \in Files, RedirectInput(w) PROVE TypeOK'
  <2>1. [Top EXCEPT !.srcfd = NoFd, !.srcfile = w] \in Frame
    BY <1>2 DEF Frame
  <2>. QED  BY <1>1, <1>4, <2>1, ReadingType DEF RedirectInput
<1>5. ASSUME NEW w \in Files, RedirectOutput(w) PROVE TypeOK'
  <2>1. [Top EXCEPT !.dstfd = NoFd, !.dstfile = w] \in Frame
    BY <1>2 DEF Frame, FdOrNone
  <2>. QED  BY <1>1, <1>5, <2>1, ReadingType DEF RedirectOutput
<1>6. CASE Bar
  <2>. DEFINE f == [Top EXCEPT !.bar = TRUE]
              below == Append(Front(stack), f)
  <2>1. f \in Frame
    BY <1>2 DEF Frame
  <2>2. below \in Seq(Frame) /\ Len(below) = Len(stack)
    BY <1>2, <2>1, ReplaceLast
  <2>3. stack' = Append(below, NewFrame(TRUE)) /\ Len(stack) < MaxDepth
    BY <1>6 DEF Bar
  <2>4. stack' \in Seq(Frame) /\ stack' # <<>> /\ Len(stack') = Len(stack) + 1
    <3>. HIDE DEF below
    <3>1. /\ Append(below, NewFrame(TRUE)) \in Seq(Frame)
          /\ Append(below, NewFrame(TRUE)) # <<>>
          /\ Len(Append(below, NewFrame(TRUE))) = Len(below) + 1
      BY <2>2, FrameType, Push, Zenon
    <3>. QED  BY <2>2, <2>3, <3>1
  <2>5. Len(stack') <= MaxDepth
    BY <1>2, <2>3, <2>4, BoundsAssumption
  <2>. QED  BY <1>6, <2>4, <2>5 DEF Bar, Reading, TypeOK, procVars
<1>7. ASSUME NEW amp \in BOOLEAN, Terminator(amp) PROVE TypeOK'
  BY <1>7, <1>1 DEF Terminator, TypeOK, procVars, Modes
<1>8. CASE EndOfInput
  <2>1. stack' \in Seq(Frame) /\ Len(stack') <= MaxDepth
    BY <1>8, BoundsAssumption, EmptySeq DEF EndOfInput
  <2>. QED  BY <1>8, <2>1, NoJobType DEF EndOfInput, TypeOK, procVars, Modes
<1>. QED  BY <1>3, <1>4, <1>5, <1>6, <1>7, <1>8 DEF Read

LEMMA StageType == ASSUME TypeOK, Stage PROVE TypeOK'
<1>1. mode = "invoke"
  BY DEF Stage
<1>2. PICK pfd \in Piping : SkipStage(pfd) \/ \E p \in Procs : ForkStage(pfd, p)
  BY DEF Stage
<1>3. /\ pfd.rd \in FdOrNone /\ pfd.wr \in FdOrNone /\ pfd.tab \in Table
      /\ Top \in Frame
      /\ Source(pfd) \in FdOrNone
  BY <1>1, PipingType
<1>4. CASE SkipStage(pfd)
  <2>1. Return(pfd, NoPid)
    BY <1>4 DEF SkipStage
  <2>2. /\ mode' \in Modes /\ mode' # "read"
        /\ stack' \in Seq(Frame) /\ Len(stack') <= MaxDepth
        /\ mode' = "invoke" => stack' # <<>>
        /\ wpid' \in Procs \cup {NoPid}
        /\ bckgrnd' \in BOOLEAN
    BY <1>1, <1>3, <2>1, ReturnType DEF Modes
  <2>. QED  BY <1>3, <1>4, <2>2 DEF SkipStage, TypeOK, procVars
<1>5. ASSUME NEW p \in Procs, ForkStage(pfd, p) PROVE TypeOK'
  <2>1. Return(pfd, p)
    BY <1>5 DEF ForkStage
  <2>2. /\ mode' \in Modes /\ mode' # "read"
        /\ stack' \in Seq(Frame) /\ Len(stack') <= MaxDepth
        /\ mode' = "invoke" => stack' # <<>>
        /\ wpid' \in Procs \cup {NoPid}
        /\ bckgrnd' \in BOOLEAN
    BY <1>1, <1>3, <2>1, ReturnType DEF Modes
  <2>3. Len(stack) \in 0 .. MaxDepth
    <3>1. Len(stack) \in Nat /\ Len(stack) <= MaxDepth
      BY LenProperties DEF TypeOK
    <3>. QED  BY <3>1, BoundsAssumption
  <2>4. job' \in [Procs -> Job]
    BY <1>3, <1>5, <2>3 DEF ForkStage, TypeOK, Job, Frame
  <2>5. shfd' \in Table /\ fdtab' \in [Procs -> Table]
    BY <1>3, <1>5, TableOps DEF ForkStage, TypeOK
  <2>. QED  BY <1>5, <2>2, <2>4, <2>5 DEF ForkStage, TypeOK
<1>. QED  BY <1>2, <1>4, <1>5

LEMMA EndType ==
    ASSUME TypeOK, NEW p \in Procs, End(p), UNCHANGED shellVars
    PROVE  TypeOK'
<1>1. job[p] \in Job /\ NoJob \in Job /\ AllClosed \in Table
  BY NoJobType DEF TypeOK
<1>2. [NoJob EXCEPT !.last = job[p].last, !.bckgrnd = job[p].bckgrnd] \in Job
  BY <1>1 DEF Job
<1>. QED  BY <1>1, <1>2 DEF End, TypeOK, shellVars

LEMMA ProcessType ==
    ASSUME TypeOK, NEW p \in Procs, Wait(p) \/ Exec(p) \/ Finish(p) \/ Interrupt(p)
    PROVE  TypeOK'
<1>1. CASE Wait(p)
  BY <1>1, NoJobType DEF Wait, TypeOK, Modes
<1>2. CASE Exec(p)
  <2>1. Redirected(job[p], fdtab[p]) \in Table
    BY RedirectedType DEF TypeOK
  <2>2. CASE End(p)
    BY <1>2, <2>2, EndType DEF Exec
  <2>3. CASE ~End(p)
    BY <1>2, <2>1, <2>3 DEF Exec, TypeOK, shellVars
  <2>. QED  BY <2>2, <2>3
<1>3. CASE Finish(p)
  BY <1>3, EndType DEF Finish
<1>4. CASE Interrupt(p)
  BY <1>4, EndType DEF Interrupt
<1>. QED  BY <1>1, <1>2, <1>3, <1>4

LEMMA FdCheckType == ASSUME TypeOK, FdCheck PROVE TypeOK'
<1>1. CASE HasHighFd(shfd)
  BY <1>1, NoJobType DEF FdCheck, TypeOK, Modes, procVars
<1>2. CASE ~HasHighFd(shfd)
  <2>1. stack' \in Seq(Frame) /\ stack' # <<>> /\ Len(stack') = 1
    BY <1>2, FrameType, Singleton DEF FdCheck
  <2>2. Len(stack') <= MaxDepth
    BY <2>1, BoundsAssumption
  <2>. QED  BY <1>2, <2>1, <2>2 DEF FdCheck, TypeOK, Modes, procVars
<1>. QED  BY <1>1, <1>2

LEMMA TypeNext == TypeOK /\ [Next]_vars => TypeOK'
<1>. SUFFICES ASSUME TypeOK, [Next]_vars PROVE TypeOK'
  OBVIOUS
<1>1. CASE UNCHANGED vars
  BY <1>1 DEF TypeOK, vars
<1>. QED  BY <1>1, ReadType, StageType, ProcessType, FdCheckType DEF Next

(* Whatever the user types and however the processes interleave, every      *)
(* variable keeps its type: no more than MaxArg - 1 arguments, no descriptor *)
(* outside the table, no frame left in command() when a line is read.       *)
THEOREM TypeCorrect == Spec => []TypeOK
<1>. QED  BY TypeInit, TypeNext, PTL DEF Spec

-----------------------------------------------------------------------------
(* Whom the shell waits for *)

(* The stage whose end is the end of the line has been made or tried. *)
LastStageTried == mode = "wait" \/ (mode = "invoke" /\ Top.bar)

(* All calls of command() but the innermost are behind a "|"; the innermost *)
(* is not while the line is read.                                           *)
BarShape ==
    /\ mode \in {"read", "invoke"} => \A i \in 1 .. Len(stack) - 1 : stack[i].bar
    /\ mode = "read" => ~Top.bar

(* From then on *wpid is that stage, not yet reaped, or says there is none. *)
TargetKnown ==
    LastStageTried /\ wpid \in Procs =>
        pstate[wpid] # "free" /\ job[wpid].last /\ job[wpid].bckgrnd = bckgrnd

(* No other process is the last stage of a foreground line. *)
OnlyTarget ==
    \A p \in Procs : pstate[p] # "free" /\ job[p].last /\ ~job[p].bckgrnd
        => LastStageTried /\ p = wpid

(* WaitTarget and PromptAfterLastStage are not inductive: what makes them   *)
(* true at the end of a line is what held while its stages were made.       *)
LineInv ==
    /\ TypeOK
    /\ BarShape
    /\ TargetKnown
    /\ OnlyTarget
    /\ mode = "wait" => wpid \in Procs /\ ~bckgrnd

LEMMA LineInit == Init => LineInv
<1>. SUFFICES ASSUME Init PROVE LineInv
  OBVIOUS
<1>1. Last(stack) = NewFrame(FALSE) /\ Len(stack) = 1
  BY FrameType, Singleton DEF Init
<1>2. BarShape
  BY <1>1 DEF BarShape, Top, NewFrame
<1>. QED  BY <1>2, TypeInit
          DEF Init, LineInv, TargetKnown, OnlyTarget, LastStageTried

(* While the line is read no process is one that the shell has to wait for. *)
LEMMA LineRead == ASSUME LineInv, Read PROVE LineInv'
<1>1. TypeOK' /\ TypeOK /\ mode = "read" /\ UNCHANGED <<pstate, job, wpid>>
  BY ReadType DEF LineInv, Read, Word, RedirectInput, RedirectOutput, Bar, Terminator,
     EndOfInput, Reading, procVars
<1>2. stack \in Seq(Frame) /\ stack # <<>> /\ Len(stack) \in Nat \ {0} /\ Top \in Frame
  BY <1>1, FrontLast DEF TypeOK, Top
<1>3. ~Top.bar /\ \A i \in 1 .. Len(stack) - 1 : stack[i].bar
  BY <1>1 DEF LineInv, BarShape
<1>4. \A p \in Procs : ~(pstate[p] # "free" /\ job[p].last /\ ~job[p].bckgrnd)
  BY <1>1 DEF LineInv, OnlyTarget, LastStageTried
<1>5. OnlyTarget'
  BY <1>1, <1>4 DEF OnlyTarget
<1>6. ASSUME NEW f \in Frame, f.bar = Top.bar, Reading, SetTop(f)
      PROVE  LineInv'
  <2>1. /\ Len(stack') = Len(stack) /\ Last(stack') = f
        /\ \A i \in 1 .. Len(stack) - 1 : stack'[i] = stack[i]
    BY <1>2, <1>6, ReplaceLast DEF SetTop
  <2>2. BarShape'
    BY <1>3, <1>6, <2>1 DEF BarShape, Top
  <2>. QED  BY <1>1, <1>5, <1>6, <2>2
            DEF LineInv, TargetKnown, LastStageTried, Reading
<1>7. ASSUME NEW w \in Commands, Word(w) PROVE LineInv'
  <2>. DEFINE f == [Top EXCEPT !.argc = @ + 1, !.cmd = IF Top.argc = 0 THEN w ELSE @]
  <2>1. Top.argc + 1 \in 0 .. MaxArg - 1
    BY <1>2, <1>7, BoundsAssumption DEF Frame, Word
  <2>2. f \in Frame /\ f.bar = Top.bar
    BY <1>2, <2>1 DEF Frame
  <2>. QED  BY <1>6, <1>7, <2>2 DEF Word
<1>8. ASSUME NEW w \in Files, RedirectInput(w) PROVE LineInv'
  <2>. DEFINE f == [Top EXCEPT !.srcfd = NoFd, !.srcfile = w]
  <2>1. f \in Frame /\ f.bar = Top.bar
    BY <1>2 DEF Frame
  <2>. QED  BY <1>6, <1>8, <2>1 DEF RedirectInput
<1>9. ASSUME NEW w \in Files, RedirectOutput(w) PROVE LineInv'
  <2>. DEFINE f == [Top EXCEPT !.dstfd = NoFd, !.dstfile = w]
  <2>1. f \in Frame /\ f.bar = Top.bar
    BY <1>2 DEF Frame, FdOrNone
  <2>. QED  BY <1>6, <1>9, <2>1 DEF RedirectOutput
<1>10. CASE Bar
  <2>. DEFINE f == [Top EXCEPT !.bar = TRUE]
              below == Append(Front(stack), f)
  <2>1. f \in Frame /\ f.bar
    BY <1>2 DEF Frame
  <2>2. /\ below \in Seq(Frame) /\ Len(below) = Len(stack)
        /\ below[Len(stack)] = f
        /\ \A i \in 1 .. Len(stack) - 1 : below[i] = stack[i]
    BY <1>2, <2>1, ReplaceLast
  <2>3. \A i \in 1 .. Len(stack) : below[i].bar
    BY <1>2, <1>3, <2>1, <2>2
  <2>4. PICK g \in Frame : g = NewFrame(TRUE)
    BY FrameType
  <2>5. stack' = Append(below, g) /\ mode' = "read"
    BY <1>1, <1>10, <2>4 DEF Bar, Reading
  <2>6. BarShape'
    <3>. HIDE DEF below, f
    <3>1. /\ Len(stack') = Len(below) + 1 /\ Last(stack') = g
          /\ \A i \in 1 .. Len(below) : stack'[i] = below[i]
      BY <2>2, <2>5, Push
    <3>2. \A i \in 1 .. Len(stack') - 1 : stack'[i].bar
      BY <1>2, <2>2, <2>3, <3>1
    <3>. QED  BY <2>4, <3>1, <3>2 DEF BarShape, Top, NewFrame
  <2>. QED  BY <1>1, <1>5, <2>5, <2>6 DEF LineInv, TargetKnown, LastStageTried
<1>11. ASSUME NEW amp \in BOOLEAN, Terminator(amp) PROVE LineInv'
  <2>1. mode' = "invoke" /\ stack' = stack
    BY <1>11 DEF Terminator
  <2>2. BarShape' /\ ~LastStageTried'
    BY <1>3, <2>1 DEF BarShape, LastStageTried, Top
  <2>. QED  BY <1>1, <1>5, <2>1, <2>2 DEF LineInv, TargetKnown
<1>12. CASE EndOfInput
  <2>1. mode' = "exited"
    BY <1>12 DEF EndOfInput
  <2>. QED  BY <1>1, <1>5, <2>1 DEF LineInv, BarShape, TargetKnown, LastStageTried
<1>. QED  BY <1>7, <1>8, <1>9, <1>10, <1>11, <1>12 DEF Read

(* A call of command() returns: the one it returns to is behind a "|". *)
LEMMA LineReturn ==
    ASSUME LineInv, mode = "invoke", NEW pfd, pfd.wr \in FdOrNone, NEW pid, Return(pfd, pid)
    PROVE  /\ BarShape'
           /\ wpid' = IF Top.bar THEN wpid ELSE pid
           /\ LastStageTried' <=> mode' # "check"
           /\ mode' \in {"invoke", "wait", "check"}
           /\ mode' = "wait" => ~bckgrnd /\ wpid' # NoPid
           /\ mode' = "check" => bckgrnd \/ wpid' = NoPid
           /\ bckgrnd' = bckgrnd
<1>1. /\ stack \in Seq(Frame) /\ stack # <<>> /\ Len(stack) \in Nat \ {0}
      /\ \A i \in 1 .. Len(stack) - 1 : stack[i].bar
  BY FrontLast DEF LineInv, TypeOK, BarShape
<1>2. CASE Len(stack) = 1
  <2>1. mode' \in {"wait", "check"}
    BY <1>2 DEF Return
  <2>2. BarShape' /\ (LastStageTried' <=> mode' # "check")
    BY <2>1 DEF BarShape, LastStageTried
  <2>. QED  BY <1>2, <2>2 DEF Return
<1>3. CASE Len(stack) # 1
  <2>0. Len(stack) > 1
    <3>1. \A n \in Nat \ {0} : n # 1 => n > 1
      OBVIOUS
    <3>. QED  BY <1>1, <1>3, <3>1
  <2>. DEFINE rest == Front(stack)
              f == [Last(rest) EXCEPT !.dstfd = pfd.wr]
  <2>1. /\ rest \in Seq(Frame) /\ Len(rest) = Len(stack) - 1
        /\ \A i \in 1 .. Len(stack) - 1 : rest[i] = stack[i]
    BY <1>1, FrontLast
  <2>2. rest # <<>> /\ Len(rest) \in Nat \ {0}
    <3>1. Len(rest) # 0
      BY <1>1, <1>3, <2>1
    <3>. QED  BY <1>1, <2>1, <3>1, EmptySeq
  <2>3. Last(rest) = rest[Len(rest)] /\ Last(rest) \in Frame
    BY <2>1, <2>2, FrontLast
  <2>4. f \in Frame /\ f.bar
    <3>1. Last(rest).bar
      BY <1>1, <2>1, <2>2, <2>3
    <3>. QED  BY <2>3, <3>1 DEF Frame
  <2>5. stack' = Append(Front(rest), f) /\ mode' = "invoke"
    <3>1. stack' = Append(Front(rest), f)
      BY <1>3 DEF Return
    <3>2. mode' = "invoke"
      BY <2>0 DEF Return
    <3>. QED  BY <3>1, <3>2
  <2>6. /\ Len(stack') = Len(rest) /\ Last(stack') = f
        /\ \A i \in 1 .. Len(rest) - 1 : stack'[i] = rest[i]
    <3>. HIDE DEF rest, f
    <3>. QED  BY <2>1, <2>2, <2>4, <2>5, ReplaceLast
  <2>7. \A i \in 1 .. Len(stack') - 1 : stack'[i].bar
    <3>. HIDE DEF rest, f
    <3>. QED  BY <1>1, <2>1, <2>2, <2>6
  <2>8. BarShape' /\ LastStageTried'
    BY <2>4, <2>5, <2>6, <2>7 DEF BarShape, LastStageTried, Top
  <2>. QED  BY <2>5, <2>8 DEF Return
<1>. QED  BY <1>2, <1>3

LEMMA LineStage == ASSUME LineInv, Stage PROVE LineInv'
<1>1. TypeOK /\ TypeOK' /\ mode = "invoke"
  BY StageType DEF LineInv, Stage
<1>2. PICK pfd \in Piping : SkipStage(pfd) \/ \E p \in Procs : ForkStage(pfd, p)
  BY DEF Stage
<1>3. pfd.wr \in FdOrNone
  BY <1>1, PipingType
<1>4. LastStageTried <=> Top.bar
  BY <1>1 DEF LastStageTried
<1>5. CASE SkipStage(pfd)
  <2>1. UNCHANGED <<pstate, job>> /\ Return(pfd, NoPid)
    BY <1>5 DEF SkipStage, procVars
  <2>2. /\ BarShape'
        /\ wpid' = IF Top.bar THEN wpid ELSE NoPid
        /\ LastStageTried' <=> mode' # "check"
        /\ mode' = "wait" => ~bckgrnd /\ wpid' # NoPid
        /\ mode' = "check" => bckgrnd \/ wpid' = NoPid
        /\ bckgrnd' = bckgrnd
    BY <1>1, <1>3, <2>1, LineReturn
  <2>3. TargetKnown'
    BY <1>4, <2>1, <2>2, ProcsAssumption DEF LineInv, TargetKnown
  <2>4. OnlyTarget'
    BY <1>4, <2>1, <2>2, ProcsAssumption DEF LineInv, OnlyTarget, TargetKnown
  <2>5. mode' = "wait" => wpid' \in Procs /\ ~bckgrnd'
    BY <1>1, <2>2 DEF TypeOK
  <2>. QED  BY <1>1, <2>2, <2>3, <2>4, <2>5 DEF LineInv
<1>6. ASSUME NEW p \in Procs, ForkStage(pfd, p) PROVE LineInv'
  <2>1. /\ Return(pfd, p) /\ pstate[p] = "free"
        /\ pstate' = [pstate EXCEPT ![p] = "forked"]
        /\ \A q \in Procs : q # p => job'[q] = job[q]
        /\ job'[p].last = ~Top.bar /\ job'[p].bckgrnd = bckgrnd
    BY <1>1, <1>6 DEF ForkStage, TypeOK
  <2>2. /\ BarShape'
        /\ wpid' = IF Top.bar THEN wpid ELSE p
        /\ LastStageTried' <=> mode' # "check"
        /\ mode' = "wait" => ~bckgrnd /\ wpid' # NoPid
        /\ mode' = "check" => bckgrnd \/ wpid' = NoPid
        /\ bckgrnd' = bckgrnd
    BY <1>1, <1>3, <2>1, LineReturn
  <2>3. pstate \in [Procs -> {"free", "forked", "running", "zombie"}]
    BY <1>1 DEF TypeOK
  <2>4. TargetKnown'
    BY <1>4, <2>1, <2>2, <2>3 DEF LineInv, TargetKnown
  <2>5. OnlyTarget'
    <3>. SUFFICES ASSUME NEW q \in Procs,
                         pstate'[q] # "free", job'[q].last, ~job'[q].bckgrnd
                  PROVE  LastStageTried' /\ q = wpid'
      BY DEF OnlyTarget
    <3>1. CASE q = p
      BY <2>1, <2>2, <3>1, ProcsAssumption
    <3>2. CASE q # p
      <4>1. pstate[q] # "free" /\ job[q].last /\ ~job[q].bckgrnd
        BY <2>1, <2>3, <3>2
      <4>2. Top.bar /\ q = wpid /\ ~bckgrnd
        BY <1>4, <4>1 DEF LineInv, OnlyTarget, TargetKnown
      <4>. QED  BY <2>2, <4>2, ProcsAssumption
    <3>. QED  BY <3>1, <3>2
  <2>6. mode' = "wait" => wpid' \in Procs /\ ~bckgrnd'
    BY <1>1, <2>2 DEF TypeOK
  <2>. QED  BY <1>1, <2>2, <2>4, <2>5, <2>6 DEF LineInv
<1>. QED  BY <1>2, <1>5, <1>6

(* A process that runs or ends by itself stays the shell's to reap. *)
LEMMA LineUnreaped ==
    ASSUME LineInv, TypeOK', UNCHANGED shellVars,
           \A q \in Procs : /\ pstate'[q] = "free" <=> pstate[q] = "free"
                            /\ job'[q].last = job[q].last
                            /\ job'[q].bckgrnd = job[q].bckgrnd
    PROVE  LineInv'
<1>1. BarShape' /\ (LastStageTried' <=> LastStageTried)
  BY DEF LineInv, BarShape, LastStageTried, Top, shellVars
<1>2. TargetKnown'
  BY <1>1 DEF LineInv, TargetKnown, shellVars
<1>3. OnlyTarget'
  BY <1>1 DEF LineInv, OnlyTarget, shellVars
<1>. QED  BY <1>1, <1>2, <1>3 DEF LineInv, shellVars

LEMMA LineEnd ==
    ASSUME LineInv, NEW p \in Procs, pstate[p] # "free", End(p), UNCHANGED shellVars
    PROVE  LineInv'
<1>1. TypeOK /\ TypeOK'
  BY EndType DEF LineInv
<1>2. /\ pstate' = [pstate EXCEPT ![p] = "zombie"]
      /\ \A q \in Procs : job'[q].last = job[q].last /\ job'[q].bckgrnd = job[q].bckgrnd
  BY <1>1 DEF End, TypeOK, NoJob
<1>3. \A q \in Procs : pstate'[q] = "free" <=> pstate[q] = "free"
  BY <1>1, <1>2 DEF TypeOK
<1>. QED  BY <1>1, <1>2, <1>3, LineUnreaped

LEMMA LineProcess ==
    ASSUME LineInv, NEW p \in Procs, Wait(p) \/ Exec(p) \/ Finish(p) \/ Interrupt(p)
    PROVE  LineInv'
<1>1. TypeOK /\ TypeOK'
  BY ProcessType DEF LineInv
<1>2. CASE Wait(p)
  <2>1. /\ mode = "wait" /\ pstate[p] = "zombie"
        /\ pstate' = [pstate EXCEPT ![p] = "free"]
        /\ \A q \in Procs : q # p => job'[q] = job[q]
        /\ mode' = IF p = wpid THEN "check" ELSE "wait"
        /\ UNCHANGED <<stack, bckgrnd, wpid>>
    BY <1>1, <1>2 DEF Wait, TypeOK
  <2>2. pstate \in [Procs -> {"free", "forked", "running", "zombie"}]
    BY <1>1 DEF TypeOK
  <2>3. LastStageTried /\ BarShape' /\ (LastStageTried' <=> p # wpid)
    BY <2>1 DEF LastStageTried, BarShape
  <2>4. TargetKnown'
    BY <2>1, <2>2, <2>3 DEF LineInv, TargetKnown
  <2>5. OnlyTarget'
    BY <2>1, <2>2, <2>3 DEF LineInv, OnlyTarget
  <2>. QED  BY <1>1, <2>1, <2>3, <2>4, <2>5 DEF LineInv
<1>3. CASE Exec(p)
  <2>1. CASE End(p)
    BY <1>3, <2>1, LineEnd DEF Exec
  <2>2. CASE ~End(p)
    <3>1. pstate[p] = "forked" /\ pstate' = [pstate EXCEPT ![p] = "running"] /\ job' = job
      BY <1>3, <2>2 DEF Exec
    <3>2. \A q \in Procs : pstate'[q] = "free" <=> pstate[q] = "free"
      BY <1>1, <3>1 DEF TypeOK
    <3>. QED  BY <1>1, <1>3, <3>1, <3>2, LineUnreaped DEF Exec
  <2>. QED  BY <2>1, <2>2
<1>4. CASE Finish(p)
  BY <1>4, LineEnd DEF Finish
<1>5. CASE Interrupt(p)
  BY <1>5, LineEnd DEF Interrupt
<1>. QED  BY <1>2, <1>3, <1>4, <1>5

LEMMA LineFdCheck == ASSUME LineInv, FdCheck PROVE LineInv'
<1>1. TypeOK' /\ UNCHANGED <<pstate, job>> /\ mode = "check"
  BY FdCheckType DEF LineInv, FdCheck, procVars
<1>2. OnlyTarget'
  BY <1>1 DEF LineInv, OnlyTarget, LastStageTried
<1>3. mode' \in {"aborted", "read"} /\ ~LastStageTried'
  BY DEF FdCheck, LastStageTried
<1>4. PICK g \in Frame : g = NewFrame(FALSE)
  BY FrameType
<1>5. mode' = "read" => Len(stack') = 1 /\ Last(stack') = g
  BY <1>4, Singleton DEF FdCheck
<1>6. BarShape'
  <2>1. CASE mode' = "aborted"
    BY <2>1 DEF BarShape
  <2>2. CASE mode' = "read"
    <3>1. ~g.bar
      BY <1>4 DEF NewFrame
    <3>2. ~Top'.bar
      BY <1>5, <2>2, <3>1 DEF Top
    <3>3. \A i \in 1 .. Len(stack') - 1 : FALSE
      BY <1>5, <2>2
    <3>. QED  BY <2>2, <3>2, <3>3 DEF BarShape
  <2>. QED  BY <1>3, <2>1, <2>2
<1>. QED  BY <1>1, <1>2, <1>3, <1>6 DEF LineInv, TargetKnown

LEMMA LineNext == LineInv /\ [Next]_vars => LineInv'
<1>. SUFFICES ASSUME LineInv, [Next]_vars PROVE LineInv'
  OBVIOUS
<1>1. CASE UNCHANGED vars
  BY <1>1 DEF LineInv, TypeOK, BarShape, TargetKnown, OnlyTarget, LastStageTried, Top, vars
<1>. QED  BY <1>1, LineRead, LineStage, LineProcess, LineFdCheck DEF Next

(* The child start_shell() waits for is always one that it can still reap,  *)
(* and it is the last stage of the foreground line just typed: the loop of  *)
(* wait_and_display() cannot wait for a child that is gone.                 *)
THEOREM WaitTargetCorrect == Spec => []WaitTarget
<1>1. LineInv => WaitTarget
  BY DEF LineInv, WaitTarget, TargetKnown, LastStageTried
<1>. QED  BY <1>1, LineInit, LineNext, PTL DEF Spec

(* The shell never prompts over the last stage of a foreground line. *)
THEOREM PromptCorrect == Spec => []PromptAfterLastStage
<1>1. LineInv => PromptAfterLastStage
  BY DEF LineInv, PromptAfterLastStage, OnlyTarget, LastStageTried
<1>. QED  BY <1>1, LineInit, LineNext, PTL DEF Spec

-----------------------------------------------------------------------------
(* Shell implements JobControl *)

(* Before a line has a last stage, and after it was reaped, no job is in the *)
(* foreground; while the shell waits, there is one.                          *)
LEMMA NobodyAwaited ==
    ASSUME LineInv
    PROVE  /\ ~LastStageTried => Unreaped(FALSE) = {}
           /\ mode = "wait" => Unreaped(FALSE) # {}
<1>1. ~LastStageTried => Unreaped(FALSE) = {}
  BY DEF LineInv, OnlyTarget, Unreaped
<1>2. mode = "wait" => wpid \in Unreaped(FALSE)
  BY DEF LineInv, TargetKnown, LastStageTried, Unreaped
<1>. QED  BY <1>1, <1>2

(* A step that reaps nobody and starts no last stage. *)
LEMMA JobsStay ==
    ASSUME \A q \in Procs : \/ /\ pstate'[q] = "free" <=> pstate[q] = "free"
                               /\ job'[q].last = job[q].last
                               /\ job'[q].bckgrnd = job[q].bckgrnd
                            \/ /\ pstate[q] # "free" => ~job[q].last
                               /\ pstate'[q] # "free" => ~job'[q].last
    PROVE  Unreaped(TRUE)' = Unreaped(TRUE) /\ Unreaped(FALSE)' = Unreaped(FALSE)
BY DEF Unreaped

LEMMA JobStutter ==
    ASSUME UNCHANGED <<Unreaped(TRUE), Unreaped(FALSE)>>, Phase' = Phase
    PROVE  [User!JobNext]_User!jobVars
BY DEF User!jobVars

LEMMA JobsInit == Init => User!JobInit
<1>. SUFFICES ASSUME Init PROVE User!JobInit
  OBVIOUS
<1>1. \A q \in Procs : pstate[q] = "free"
  BY DEF Init
<1>2. Unreaped(TRUE) = {} /\ Unreaped(FALSE) = {}
  BY <1>1 DEF Unreaped
<1>3. Phase = "prompt"
  BY DEF Init, Phase
<1>. QED  BY <1>2, <1>3 DEF User!JobInit

LEMMA JobsRead == ASSUME LineInv, Read PROVE [User!JobNext]_User!jobVars
<1>1. mode = "read" /\ UNCHANGED <<pstate, job>>
  BY DEF Read, Word, RedirectInput, RedirectOutput, Bar, Terminator,
     EndOfInput, Reading, procVars
<1>2. UNCHANGED <<Unreaped(TRUE), Unreaped(FALSE)>>
  BY <1>1, JobsStay
<1>3. Phase = "prompt" /\ Unreaped(FALSE) = {}
  BY <1>1, NobodyAwaited DEF Phase, LastStageTried
<1>4. CASE Reading
  <2>1. Phase' = "prompt"
    BY <1>1, <1>4 DEF Phase, Reading
  <2>. QED  BY <1>2, <1>3, <2>1, JobStutter
<1>5. ASSUME NEW amp \in BOOLEAN, Terminator(amp) PROVE User!AcceptLine
  <2>1. mode' = "invoke" /\ Top' = Top /\ ~Top.bar
    BY <1>1, <1>5 DEF Terminator, Top, LineInv, BarShape
  <2>2. Phase' = "launch"
    BY <2>1 DEF Phase
  <2>. QED  BY <1>2, <1>3, <2>2 DEF User!AcceptLine
<1>6. CASE EndOfInput
  <2>1. Phase' = "over"
    BY <1>6 DEF EndOfInput, Phase
  <2>2. User!Leave
    BY <1>2, <1>3, <2>1 DEF User!Leave
  <2>. QED  BY <2>2 DEF User!JobNext
<1>. QED  BY <1>4, <1>5, <1>6 DEF Read, Word, RedirectInput, RedirectOutput, Bar, User!JobNext

(* Only the stage that is made first, the last of the pipeline, is a job. *)
LEMMA JobsStage == ASSUME LineInv, Stage PROVE [User!JobNext]_User!jobVars
<1>1. TypeOK /\ mode = "invoke" /\ (LastStageTried <=> Top.bar)
  BY DEF LineInv, Stage, LastStageTried
<1>2. PICK pfd \in Piping : SkipStage(pfd) \/ \E p \in Procs : ForkStage(pfd, p)
  BY DEF Stage
<1>3. pfd.wr \in FdOrNone
  BY <1>1, <1>2, PipingType
<1>4. Phase = IF Top.bar THEN "busy" ELSE "launch"
  BY <1>1 DEF Phase
<1>5. Phase' = "busy"
  <2>1. PICK pid : Return(pfd, pid)
    BY <1>2 DEF SkipStage, ForkStage
  <2>2. /\ LastStageTried' <=> mode' # "check"
        /\ mode' \in {"invoke", "wait", "check"}
    BY <1>1, <1>3, <2>1, LineReturn
  <2>. QED  BY <2>2 DEF Phase, LastStageTried
<1>6. CASE SkipStage(pfd)
  <2>1. UNCHANGED <<Unreaped(TRUE), Unreaped(FALSE)>>
    BY <1>6, JobsStay DEF SkipStage, procVars
  <2>2. ~Top.bar => User!NoJobStarted
    BY <1>4, <1>5, <2>1 DEF User!NoJobStarted, User!Launch
  <2>. QED  BY <1>4, <1>5, <2>1, <2>2, JobStutter DEF User!JobNext
<1>7. ASSUME NEW p \in Procs, ForkStage(pfd, p) PROVE [User!JobNext]_User!jobVars
  <2>1. /\ pstate[p] = "free" /\ pstate'[p] = "forked"
        /\ \A q \in Procs : q # p => job'[q] = job[q] /\ pstate'[q] = pstate[q]
        /\ job'[p].last = ~Top.bar /\ job'[p].bckgrnd = bckgrnd
    BY <1>1, <1>7 DEF ForkStage, TypeOK
  <2>2. CASE Top.bar
    <3>1. UNCHANGED <<Unreaped(TRUE), Unreaped(FALSE)>>
      BY <2>1, <2>2, JobsStay
    <3>. QED  BY <1>4, <1>5, <2>2, <3>1, JobStutter
  <2>3. CASE ~Top.bar
    <3>1. /\ Unreaped(FALSE) = {} /\ p \notin Unreaped(TRUE)
          /\ Phase = "launch" /\ bckgrnd \in BOOLEAN
      BY <1>1, <1>4, <2>1, <2>3, NobodyAwaited DEF Unreaped, TypeOK
    <3>2. CASE bckgrnd
      <4>1. Unreaped(TRUE)' = Unreaped(TRUE) \cup {p} /\ Unreaped(FALSE)' = Unreaped(FALSE)
        BY <2>1, <2>3, <3>2 DEF Unreaped
      <4>2. User!Background(p)
        BY <1>5, <3>1, <4>1 DEF User!Background, User!Launch
      <4>. QED  BY <4>2 DEF User!JobNext
    <3>3. CASE ~bckgrnd
      <4>1. Unreaped(TRUE)' = Unreaped(TRUE) /\ Unreaped(FALSE)' = Unreaped(FALSE) \cup {p}
        <5>1. bckgrnd = FALSE
          BY <3>1, <3>3
        <5>2. job'[p].bckgrnd = FALSE /\ job'[p].last
          BY <2>1, <2>3, <5>1
        <5>. QED  BY <2>1, <5>2 DEF Unreaped
      <4>2. User!Foreground(p)
        BY <1>5, <3>1, <4>1 DEF User!Foreground, User!Launch
      <4>. QED  BY <4>2 DEF User!JobNext
    <3>. QED  BY <3>2, <3>3
  <2>. QED  BY <2>2, <2>3
<1>. QED  BY <1>2, <1>6, <1>7

(* waitpid(-1) returns a job, of whichever line, or another stage. *)
LEMMA JobsWait ==
    ASSUME LineInv, NEW p \in Procs, Wait(p)
    PROVE  [User!JobNext]_User!jobVars
<1>1. /\ mode = "wait" /\ pstate[p] = "zombie" /\ pstate'[p] = "free"
      /\ \A q \in Procs : q # p => job'[q] = job[q] /\ pstate'[q] = pstate[q]
      /\ mode' \in {"check", "wait"}
  BY DEF Wait, LineInv, TypeOK
<1>2. Phase = "busy" /\ Phase' = "busy" /\ Unreaped(FALSE) # {}
  BY <1>1, NobodyAwaited DEF Phase
<1>3. CASE job[p].last
  <2>1. /\ p \in Unreaped(FALSE) \cup Unreaped(TRUE)
        /\ Unreaped(FALSE)' = Unreaped(FALSE) \ {p}
        /\ Unreaped(TRUE)' = Unreaped(TRUE) \ {p}
    <3>1. job[p].bckgrnd \in BOOLEAN
      BY DEF LineInv, TypeOK, Job
    <3>. QED  BY <1>1, <1>3, <3>1 DEF Unreaped
  <2>2. User!Reap(p)
    BY <1>2, <2>1 DEF User!Reap
  <2>. QED  BY <2>2 DEF User!JobNext
<1>4. CASE ~job[p].last
  <2>1. UNCHANGED <<Unreaped(TRUE), Unreaped(FALSE)>>
    BY <1>1, <1>4, JobsStay
  <2>. QED  BY <1>2, <2>1, JobStutter
<1>. QED  BY <1>3, <1>4

(* A child that runs or ends is reaped later. *)
LEMMA JobsProcess ==
    ASSUME LineInv, NEW p \in Procs, Exec(p) \/ Finish(p) \/ Interrupt(p)
    PROVE  [User!JobNext]_User!jobVars
<1>1. TypeOK /\ UNCHANGED shellVars /\ pstate[p] # "free"
  BY DEF LineInv, Exec, Finish, Interrupt
<1>2. Phase' = Phase
  BY <1>1 DEF Phase, Top, shellVars
<1>3. CASE End(p)
  <2>1. /\ pstate'[p] = "zombie" /\ \A q \in Procs : q # p => pstate'[q] = pstate[q]
        /\ \A q \in Procs : job'[q].last = job[q].last /\ job'[q].bckgrnd = job[q].bckgrnd
    BY <1>1, <1>3 DEF End, TypeOK, NoJob
  <2>. QED  BY <1>1, <1>2, <2>1, JobsStay, JobStutter
<1>4. CASE ~End(p)
  <2>1. /\ pstate'[p] = "running" /\ \A q \in Procs : q # p => pstate'[q] = pstate[q]
        /\ job' = job
    BY <1>1, <1>4 DEF Exec, Finish, Interrupt, TypeOK
  <2>. QED  BY <1>1, <1>2, <2>1, JobsStay, JobStutter
<1>. QED  BY <1>3, <1>4

LEMMA JobsFdCheck == ASSUME LineInv, FdCheck PROVE [User!JobNext]_User!jobVars
<1>1. mode = "check" /\ mode' \in {"aborted", "read"} /\ UNCHANGED <<pstate, job>>
  BY DEF FdCheck, procVars
<1>2. UNCHANGED <<Unreaped(TRUE), Unreaped(FALSE)>>
  BY <1>1, JobsStay
<1>3. Phase = "busy" /\ Unreaped(FALSE) = {}
  BY <1>1, NobodyAwaited DEF Phase, LastStageTried
<1>4. Phase' \in {"over", "prompt"}
  BY <1>1 DEF Phase
<1>5. User!Leave \/ User!Prompt
  BY <1>2, <1>3, <1>4 DEF User!Leave, User!Prompt
<1>. QED  BY <1>5 DEF User!JobNext

(* The shell's children, pipes and descriptors implement the promise to the  *)
(* user: one job a line, and the prompt when that very job was reaped.       *)
THEOREM JobControlCorrect == Spec => ImplementsJobControl
<1>1. LineInv /\ [Next]_vars => [User!JobNext]_User!jobVars
  <2>. SUFFICES ASSUME LineInv, [Next]_vars PROVE [User!JobNext]_User!jobVars
    OBVIOUS
  <2>1. CASE UNCHANGED vars
    BY <2>1, JobStutter DEF vars, Phase, Top, Unreaped
  <2>2. CASE Next
    BY <2>2, JobsRead, JobsStage, JobsWait, JobsProcess, JobsFdCheck DEF Next
  <2>. QED  BY <2>1, <2>2
<1>. QED  BY <1>1, JobsInit, LineInit, LineNext, PTL DEF Spec, ImplementsJobControl, User!JobSpec

=============================================================================
