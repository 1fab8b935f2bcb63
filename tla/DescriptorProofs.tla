--------------------------- MODULE DescriptorProofs ---------------------------
(****************************************************************************)
(* Theorems about the descriptors of Shell: as long as invoke() makes every  *)
(* stage, neither the shell nor a child has one open that it should not; a   *)
(* child that should not read the terminal does not; and who can hold the    *)
(* two ends of each pipe.                                                    *)
(****************************************************************************)
EXTENDS ShellProofs

-----------------------------------------------------------------------------
(* Descriptor tables *)

(* The terminal's three, which start_shell() never closes, and the others. *)
LowOpen(tab) == \A fd \in 0 .. 2 : tab[fd] # Closed
High(tab)    == {fd \in Fd : fd > 2 /\ tab[fd] # Closed}

LEMMA LowFds == 0 .. 2 \subseteq Fd
BY MaxFdAssumption DEF Fd

(* What close(), dup2() onto 0 or 1, and open() there do to the others. *)
LEMMA HighOps ==
    ASSUME NEW tab \in Table, NEW from, NEW to \in 0 .. 2
    PROVE  /\ High(CloseFd(tab, from)) = High(tab) \ {from}
           /\ High(Dup2(tab, from, to)) = High(tab)
           /\ High(MoveFd(tab, from, to)) = High(tab) \ {from}
           /\ \A f \in File : High([tab EXCEPT ![to] = f]) = High(tab)
<1>1. \A t \in Table : High(CloseFd(t, from)) = High(t) \ {from}
  BY DEF High, CloseFd
<1>2. High(Dup2(tab, from, to)) = High(tab)
  BY DEF High, Dup2
<1>3. High(MoveFd(tab, from, to)) = High(tab) \ {from}
  <2>1. Dup2(tab, from, to) \in Table
    BY TableOps
  <2>2. CASE from = to
    <3>1. from \notin High(tab)
      BY <2>2 DEF High
    <3>. QED  BY <1>2, <2>2, <3>1 DEF MoveFd
  <2>3. CASE from # to
    BY <1>1, <1>2, <2>1, <2>3 DEF MoveFd
  <2>. QED  BY <2>2, <2>3
<1>4. \A f \in File : High([tab EXCEPT ![to] = f]) = High(tab)
  BY DEF High, Table
<1>. QED  BY <1>1, <1>2, <1>3, <1>4

LEMMA CloseHighOps ==
    ASSUME NEW tab \in Table, LowOpen(tab), NEW fd, fd \in {0, 1, NoFd} \/ fd > 2
    PROVE  /\ CloseHigh(tab, fd) \in Table /\ LowOpen(CloseHigh(tab, fd))
           /\ High(CloseHigh(tab, fd)) = High(tab) \ {fd}
<1>1. CloseHigh(tab, fd) \in Table
  BY TableOps
<1>2. CASE fd > STDOUT_FILENO
  <2>1. fd \notin 0 .. 2
    BY <1>2 DEF STDOUT_FILENO, NoFd
  <2>2. CloseHigh(tab, fd) = CloseFd(tab, fd)
    BY <1>2 DEF CloseHigh
  <2>3. \A low \in 0 .. 2 : CloseFd(tab, fd)[low] = tab[low]
    BY <2>1, LowFds DEF CloseFd
  <2>4. High(CloseFd(tab, fd)) = High(tab) \ {fd}
    BY DEF High, CloseFd
  <2>. QED  BY <1>1, <2>2, <2>3, <2>4 DEF LowOpen
<1>3. CASE ~(fd > STDOUT_FILENO)
  <2>1. fd \notin High(tab) /\ CloseHigh(tab, fd) = tab
    BY <1>3 DEF STDOUT_FILENO, High, Fd, CloseHigh
  <2>. QED  BY <1>1, <2>1
<1>. QED  BY <1>2, <1>3

(* A pipe that is made has its ends above the terminal's three. *)
LEMMA PipeHigh ==
    ASSUME NEW tab \in Table, LowOpen(tab), NEW unused \in SUBSET Pipes,
           NEW r \in PipeResults(tab, unused)
    PROVE  \/ r.rd = NoFd /\ r.wr = NoFd /\ r.tab = tab
           \/ /\ r.rd \in Fd /\ r.wr \in Fd /\ r.rd > 2 /\ r.wr > 2
              /\ LowOpen(r.tab) /\ High(r.tab) = High(tab) \cup {r.rd, r.wr}
              /\ r.rd # r.wr /\ r.tab[r.rd] \notin {Closed, Tty}
<1>1. CASE r = PipeFails(tab)
  BY <1>1 DEF PipeFails
<1>2. CASE r # PipeFails(tab)
  <2>1. PICK rd \in Fd, wr \in Fd, k \in unused :
            /\ r = PipeMade(tab, rd, wr, k)
            /\ IsLowestFree(tab, rd) /\ rd < wr
    BY <1>2 DEF PipeResults
  <2>2. rd > 2 /\ wr > 2
    BY <2>1 DEF IsLowestFree, LowOpen, Fd
  <2>3. ReadEnd(k) # Closed /\ WriteEnd(k) # Closed
    BY DEF ReadEnd, WriteEnd, Closed
  <2>4. r.tab = [tab EXCEPT ![rd] = ReadEnd(k), ![wr] = WriteEnd(k)] /\ r.rd = rd /\ r.wr = wr
    BY <2>1 DEF PipeMade
  <2>5. \A fd \in Fd : r.tab[fd] = IF fd = wr THEN WriteEnd(k) ELSE IF fd = rd THEN ReadEnd(k) ELSE tab[fd]
    BY <2>1, <2>4 DEF Table
  <2>6. LowOpen(r.tab)
    BY <2>2, <2>5, LowFds DEF LowOpen
  <2>7. High(r.tab) = High(tab) \cup {rd, wr}
    BY <2>2, <2>3, <2>5 DEF High
  <2>8. rd # wr /\ r.tab[rd] \notin {Closed, Tty}
    <3>1. rd # wr
      BY <2>1 DEF Fd
    <3>. QED  BY <2>5, <3>1 DEF ReadEnd, Tty, Closed
  <2>. QED  BY <2>1, <2>2, <2>4, <2>6, <2>7, <2>8
<1>. QED  BY <1>1, <1>2

(* redirect() closes what it moves, and the child what it was told to. *)
LEMMA RedirectedLow ==
    ASSUME NEW j \in Job, NEW tab \in Table,
           High(tab) \subseteq {j.closefd, j.srcfd, j.dstfd},
           j.srcfile # NoWord => j.srcfd = NoFd,
           j.dstfile # NoWord => j.dstfd = NoFd
    PROVE  High(Redirected(j, tab)) = {}
<1>1. Null \in File /\ Disk \in File /\ STDIN_FILENO \in 0 .. 2 /\ STDOUT_FILENO \in 0 .. 2
  BY DEF File, Null, Disk, STDIN_FILENO, STDOUT_FILENO
<1>2. NoFd \notin Fd /\ \A t \in Table : High(t) \subseteq Fd /\ STDIN_FILENO \notin High(t)
  BY DEF NoFd, Fd, High, STDIN_FILENO
<1>3. PICK t \in Table : t = CloseFd(tab, j.closefd)
  BY TableOps
<1>4. High(t) \subseteq {j.srcfd, j.dstfd}
  BY <1>1, <1>3, HighOps
<1>5. PICK u : u = WithSource(j, t)
  OBVIOUS
<1>6. /\ MoveFd(t, j.srcfd, STDIN_FILENO) \in Table
      /\ High(MoveFd(t, j.srcfd, STDIN_FILENO)) = High(t) \ {j.srcfd}
  BY <1>1, TableOps, HighOps
<1>7. \A f \in File : /\ [t EXCEPT ![STDIN_FILENO] = f] \in Table
                      /\ High([t EXCEPT ![STDIN_FILENO] = f]) = High(t)
  <2>1. STDIN_FILENO \in Fd
    BY <1>1, LowFds
  <2>2. \A f \in File : [t EXCEPT ![STDIN_FILENO] = f] \in Table
    BY <2>1 DEF Table
  <2>3. \A f \in File : High([t EXCEPT ![STDIN_FILENO] = f]) = High(t)
    BY <1>1, HighOps
  <2>. QED  BY <2>2, <2>3
<1>8. u \in Table /\ High(u) \subseteq {j.dstfd}
  BY <1>1, <1>2, <1>4, <1>5, <1>6, <1>7 DEF WithSource
<1>9. /\ High(MoveFd(u, j.dstfd, STDOUT_FILENO)) = High(u) \ {j.dstfd}
      /\ High([u EXCEPT ![STDOUT_FILENO] = Disk]) = High(u)
  BY <1>1, <1>8, HighOps
<1>10. High(WithDestination(j, u)) = {}
  BY <1>2, <1>8, <1>9 DEF WithDestination
<1>. QED  BY <1>3, <1>5, <1>10 DEF Redirected

-----------------------------------------------------------------------------
(* The inductive invariant *)

(* Of the calls of command() all but the first make a pipe to their left; a  *)
(* file takes the place of that pipe, or of the one to the right.            *)
CallOK(f, k) ==
    /\ f.makepipe <=> k > 1
    /\ f.srcfile # NoWord => f.srcfd = NoFd /\ ~f.makepipe
    /\ f.dstfile # NoWord => f.dstfd = NoFd /\ ~f.bar
NoPipeYet(f) == f.dstfd \in {STDOUT_FILENO, NoFd}

(* Only the innermost call, and not while the line is read, has been given   *)
(* a write end.                                                              *)
Calls ==
    mode \in {"read", "invoke"} =>
        /\ \A k \in 1 .. Len(stack) : CallOK(stack[k], k)
        /\ \A k \in 1 .. Len(stack) - 1 : NoPipeYet(stack[k])
        /\ NoPipeYet(Top) \/ (mode = "invoke" /\ Top.dstfd > 2)

(* The shell keeps the terminal's three until it ends. *)
ShellLow == mode \notin {"exited", "aborted"} => LowOpen(shfd)

(* That write end is all the shell has open above them. *)
ShellFds ==
    /\ mode # "aborted"
    /\ High(shfd) \subseteq IF mode = "invoke" THEN {Top.dstfd} ELSE {}

(* A child has inherited the ends it closes itself, and no other. *)
Carries(j, tab) ==
    /\ High(tab) \subseteq {j.closefd, j.srcfd, j.dstfd}
    /\ j.srcfile # NoWord => j.srcfd = NoFd
    /\ j.dstfile # NoWord => j.dstfd = NoFd
ChildFds == \A p \in Procs : pstate[p] = "forked" => Carries(job[p], fdtab[p])

FdInv == LineInv /\ Calls /\ ShellLow /\ (~leaked => ShellFds /\ ChildFds)

LEMMA NewCall ==
    \A makepipe \in BOOLEAN, k \in Nat :
        (makepipe <=> k > 1) => /\ CallOK(NewFrame(makepipe), k) /\ NoPipeYet(NewFrame(makepipe))
                                /\ ~NewFrame(makepipe).bar
BY DEF CallOK, NoPipeYet, NewFrame

(* A line begins with one call. *)
LEMMA FirstCall ==
    ASSUME stack = <<NewFrame(FALSE)>> PROVE Calls
<1>1. PICK f \in Frame : f = NewFrame(FALSE)
  BY FrameType
<1>2. Len(stack) = 1 /\ stack[1] = f /\ Top = f
  BY <1>1, Singleton DEF Top
<1>3. CallOK(f, 1) /\ NoPipeYet(f)
  <2>1. FALSE <=> 1 > 1
    OBVIOUS
  <2>2. FALSE \in BOOLEAN /\ 1 \in Nat
    OBVIOUS
  <2>. QED  BY <1>1, <2>1, <2>2, NewCall
<1>4. \A k \in 1 .. Len(stack) : CallOK(stack[k], k)
  <2>1. \A k \in 1 .. Len(stack) : k = 1
    BY <1>2
  <2>. QED  BY <1>2, <1>3, <2>1, Zenon
<1>5. \A k \in 1 .. Len(stack) - 1 : NoPipeYet(stack[k])
  BY <1>2
<1>. QED  BY <1>2, <1>3, <1>4, <1>5 DEF Calls

LEMMA FdInit == Init => FdInv
<1>. SUFFICES ASSUME Init PROVE FdInv
  OBVIOUS
<1>1. Calls
  BY FirstCall DEF Init
<1>2. ShellLow /\ ShellFds
  <2>1. Tty # Closed
    BY DEF Tty, Closed
  <2>2. \A fd \in Fd : shfd[fd] = IF fd < 3 THEN Tty ELSE Closed
    BY DEF Init, Started
  <2>3. LowOpen(shfd)
    BY <2>1, <2>2, LowFds DEF LowOpen
  <2>4. High(shfd) = {}
    BY <2>2 DEF High, Fd
  <2>. QED  BY <2>3, <2>4 DEF Init, ShellLow, ShellFds
<1>3. ChildFds
  BY DEF Init, ChildFds
<1>. QED  BY <1>1, <1>2, <1>3, LineInit DEF FdInv

(* The line is read: the innermost call, or a new one, changes. *)
LEMMA FdRead == ASSUME FdInv, Read PROVE FdInv'
<1>1. LineInv /\ LineInv' /\ mode = "read" /\ TypeOK /\ TypeOK' /\ UNCHANGED <<pstate, job, fdtab, leaked>>
  BY LineRead DEF FdInv, LineInv, Read, Word, RedirectInput, RedirectOutput, Bar, Terminator,
     EndOfInput, Reading, procVars
<1>2. Calls /\ ShellLow /\ (~leaked => ShellFds /\ ChildFds)
  BY DEF FdInv
<1>3. ShellLow' /\ (~leaked' => ChildFds')
  BY <1>1, <1>2 DEF ChildFds, ShellLow, Read, Word, RedirectInput, RedirectOutput, Bar, Terminator,
     EndOfInput, Reading
<1>. SUFFICES Calls' /\ (~leaked => ShellFds')
  BY <1>1, <1>3 DEF FdInv
<1>4. stack \in Seq(Frame) /\ stack # <<>> /\ Len(stack) \in Nat \ {0} /\ Top \in Frame
      /\ Top = stack[Len(stack)]
  BY <1>1, FrontLast DEF TypeOK, Top
<1>5. /\ CallOK(Top, Len(stack)) /\ NoPipeYet(Top)
      /\ \A k \in 1 .. Len(stack) - 1 : CallOK(stack[k], k) /\ NoPipeYet(stack[k])
  BY <1>1, <1>2, <1>4 DEF Calls
<1>6. Reading => (~leaked => ShellFds')
  BY <1>1, <1>2 DEF Reading, ShellFds
<1>7. ASSUME NEW f \in Frame, CallOK(f, Len(stack)), NoPipeYet(f), Reading, SetTop(f)
      PROVE  Calls' /\ (~leaked => ShellFds')
  <2>1. /\ Len(stack') = Len(stack) /\ Last(stack') = f /\ stack'[Len(stack)] = f
        /\ \A k \in 1 .. Len(stack) - 1 : stack'[k] = stack[k]
    BY <1>4, <1>7, ReplaceLast DEF SetTop
  <2>2. Top' = f
    BY <2>1 DEF Top
  <2>3. \A k \in 1 .. Len(stack') : CallOK(stack'[k], k)
    BY <1>4, <1>5, <1>7, <2>1
  <2>4. \A k \in 1 .. Len(stack') - 1 : NoPipeYet(stack'[k])
    BY <1>5, <2>1
  <2>. QED  BY <1>6, <1>7, <2>2, <2>3, <2>4 DEF Calls
<1>8. ASSUME NEW w \in Commands, Word(w) PROVE Calls' /\ (~leaked => ShellFds')
  <2>. DEFINE f == [Top EXCEPT !.argc = @ + 1, !.cmd = IF Top.argc = 0 THEN w ELSE @]
  <2>1. Top.argc + 1 \in 0 .. MaxArg - 1
    BY <1>4, <1>8, BoundsAssumption DEF Frame, Word
  <2>2. f \in Frame /\ CallOK(f, Len(stack)) /\ NoPipeYet(f)
    BY <1>4, <1>5, <2>1 DEF Frame, CallOK, NoPipeYet
  <2>. QED  BY <1>7, <1>8, <2>2 DEF Word
<1>9. ASSUME NEW w \in Files, RedirectInput(w) PROVE Calls' /\ (~leaked => ShellFds')
  <2>. DEFINE f == [Top EXCEPT !.srcfd = NoFd, !.srcfile = w]
  <2>1. f \in Frame /\ CallOK(f, Len(stack)) /\ NoPipeYet(f)
    BY <1>4, <1>5, <1>9 DEF Frame, CallOK, NoPipeYet, RedirectInput
  <2>. QED  BY <1>7, <1>9, <2>1 DEF RedirectInput
<1>10. ASSUME NEW w \in Files, RedirectOutput(w) PROVE Calls' /\ (~leaked => ShellFds')
  <2>. DEFINE f == [Top EXCEPT !.dstfd = NoFd, !.dstfile = w]
  <2>1. ~Top.bar
    BY <1>1 DEF LineInv, BarShape
  <2>2. f \in Frame /\ CallOK(f, Len(stack)) /\ NoPipeYet(f)
    BY <1>4, <1>5, <2>1 DEF Frame, FdOrNone, CallOK, NoPipeYet
  <2>. QED  BY <1>7, <1>10, <2>2 DEF RedirectOutput
<1>11. CASE Bar
  <2>. DEFINE f == [Top EXCEPT !.bar = TRUE]
              below == Append(Front(stack), f)
  <2>1. Top.dstfile = NoWord
    BY <1>5, <1>11 DEF Bar, CallOK, STDOUT_FILENO, NoFd
  <2>2. f \in Frame /\ CallOK(f, Len(stack)) /\ NoPipeYet(f)
    BY <1>4, <1>5, <2>1 DEF Frame, CallOK, NoPipeYet
  <2>3. /\ below \in Seq(Frame) /\ Len(below) = Len(stack) /\ below[Len(stack)] = f
        /\ \A k \in 1 .. Len(stack) - 1 : below[k] = stack[k]
    BY <1>4, <2>2, ReplaceLast
  <2>4. \A k \in 1 .. Len(below) : CallOK(below[k], k) /\ NoPipeYet(below[k])
    BY <1>4, <1>5, <2>2, <2>3
  <2>5. PICK g \in Frame : g = NewFrame(TRUE)
    BY FrameType
  <2>6. stack' = Append(below, g) /\ Reading
    BY <1>11, <2>5 DEF Bar
  <2>. HIDE DEF below, f
  <2>7. /\ Len(stack') = Len(below) + 1 /\ Last(stack') = g /\ stack'[Len(below) + 1] = g
        /\ \A k \in 1 .. Len(below) : stack'[k] = below[k]
    BY <2>3, <2>6, Push, AppendProperties
  <2>8. CallOK(g, Len(stack')) /\ NoPipeYet(g)
    <3>1. Len(stack') \in Nat /\ Len(stack') > 1
      BY <1>4, <2>3, <2>7
    <3>. QED  BY <2>5, <3>1, NewCall
  <2>9. \A k \in 1 .. Len(stack') : CallOK(stack'[k], k)
    BY <1>4, <2>3, <2>4, <2>7, <2>8
  <2>10. \A k \in 1 .. Len(stack') - 1 : NoPipeYet(stack'[k])
    BY <1>4, <2>3, <2>4, <2>7
  <2>11. Calls'
    BY <2>7, <2>8, <2>9, <2>10 DEF Calls, Top
  <2>. QED  BY <1>6, <2>6, <2>11
<1>12. ASSUME NEW amp \in BOOLEAN, Terminator(amp) PROVE Calls' /\ (~leaked => ShellFds')
  BY <1>1, <1>2, <1>12 DEF Terminator, Calls, ShellFds, Top
<1>13. CASE EndOfInput
  BY <1>13 DEF EndOfInput, Calls, ShellFds, High, AllClosed
<1>. QED  BY <1>8, <1>9, <1>10, <1>11, <1>12, <1>13 DEF Read

(* What command() has in hand when it calls invoke(). *)
LEMMA StagePipe ==
    ASSUME TypeOK, mode = "invoke", Calls, ShellLow, NEW pfd \in Piping
    PROVE  /\ pfd.tab \in Table /\ LowOpen(pfd.tab)
           /\ ShellFds => High(pfd.tab) \subseteq {Source(pfd), Top.dstfd, pfd.wr}
           /\ Source(pfd) \in {0, NoFd} \/ Source(pfd) > 2
           /\ Source(pfd) = 0 => ~Top.makepipe
           /\ Source(pfd) > 2 => Source(pfd) \in Fd \ {pfd.wr} /\ pfd.tab[Source(pfd)] \notin {Closed, Tty}
           /\ Top.dstfd \in {1, NoFd} \/ Top.dstfd > 2
           /\ pfd.wr = NoFd \/ (pfd.wr > 2 /\ Source(pfd) > 2 /\ Top.makepipe)
           /\ Top.srcfile # NoWord => Source(pfd) = NoFd
           /\ Top.dstfile # NoWord => Top.dstfd = NoFd
           /\ Top.makepipe <=> Len(stack) > 1
<1>1. /\ shfd \in Table /\ LowOpen(shfd) /\ UnusedPipes \in SUBSET Pipes
      /\ ShellFds => High(shfd) \subseteq {Top.dstfd}
  BY DEF TypeOK, ShellLow, ShellFds, UnusedPipes
<1>2. Top \in Frame /\ Top = stack[Len(stack)] /\ Len(stack) \in 1 .. Len(stack)
  BY FrontLast DEF Top, TypeOK
<1>3. CallOK(Top, Len(stack)) /\ (NoPipeYet(Top) \/ Top.dstfd > 2)
  BY <1>2 DEF Calls
<1>4. /\ Top.srcfile # NoWord => Top.srcfd = NoFd /\ ~Top.makepipe
      /\ Top.dstfile # NoWord => Top.dstfd = NoFd
      /\ Top.makepipe <=> Len(stack) > 1
      /\ Top.dstfd \in {1, NoFd} \/ Top.dstfd > 2
      /\ Top.srcfd \in {0, NoFd}
  BY <1>2, <1>3 DEF CallOK, NoPipeYet, Frame, STDOUT_FILENO, STDIN_FILENO
<1>5. pfd \in PipeResults(shfd, UnusedPipes)
  BY DEF Piping, PipeResults
<1>6. CASE pfd.rd = NoFd /\ pfd.wr = NoFd /\ pfd.tab = shfd
  BY <1>1, <1>4, <1>6 DEF Source, NoFd
<1>7. CASE /\ pfd.rd > 2 /\ pfd.wr > 2 /\ pfd.rd \in Fd /\ pfd.wr \in Fd
           /\ LowOpen(pfd.tab) /\ High(pfd.tab) = High(shfd) \cup {pfd.rd, pfd.wr}
           /\ pfd.rd # pfd.wr /\ pfd.tab[pfd.rd] \notin {Closed, Tty}
  <2>1. Top.makepipe
    BY <1>7 DEF Piping, PipeFails, NoFd
  <2>2. Source(pfd) = pfd.rd
    BY <2>1 DEF Source
  <2>3. pfd.tab \in Table
    BY PipingType
  <2>4. pfd.rd # 0
    BY <1>7
  <2>. QED  BY <1>1, <1>4, <1>7, <2>1, <2>2, <2>3, <2>4
<1>. QED  BY <1>1, <1>5, <1>6, <1>7, PipeHigh

(* The call returns, and the one to its left is given the write end. *)
LEMMA CallsReturn ==
    ASSUME LineInv, mode = "invoke", Calls,
           NEW pfd, pfd.wr \in FdOrNone, pfd.wr = NoFd \/ pfd.wr > 2,
           NEW pid, Return(pfd, pid)
    PROVE  /\ Calls' /\ mode' \in {"invoke", "wait", "check"}
           /\ mode' = "invoke" <=> Len(stack) > 1
           /\ mode' = "invoke" => Top'.dstfd = pfd.wr
<1>1. /\ stack \in Seq(Frame) /\ stack # <<>> /\ Len(stack) \in Nat \ {0}
      /\ \A k \in 1 .. Len(stack) - 1 :
            stack[k] \in Frame /\ stack[k].bar /\ CallOK(stack[k], k) /\ NoPipeYet(stack[k])
  BY FrontLast, ElementOfSeq DEF LineInv, TypeOK, BarShape, Calls
<1>2. mode' \in {"invoke", "wait", "check"} /\ (mode' = "invoke" <=> Len(stack) > 1)
  BY DEF Return
<1>3. CASE ~(Len(stack) > 1)
  BY <1>2, <1>3 DEF Calls
<1>4. CASE Len(stack) > 1
  <2>. DEFINE rest == Front(stack)
              f == [Last(rest) EXCEPT !.dstfd = pfd.wr]
  <2>1. /\ rest \in Seq(Frame) /\ Len(rest) = Len(stack) - 1
        /\ \A k \in 1 .. Len(stack) - 1 : rest[k] = stack[k]
    BY <1>1, FrontLast
  <2>2. rest # <<>> /\ Len(rest) \in Nat \ {0}
    <3>1. Len(rest) # 0
      BY <1>1, <1>4, <2>1
    <3>. QED  BY <1>1, <2>1, <3>1, EmptySeq
  <2>3. Last(rest) = rest[Len(rest)]
    BY <2>1, <2>2, FrontLast
  <2>4. Last(rest) \in Frame /\ Last(rest).bar /\ CallOK(Last(rest), Len(rest))
    BY <1>1, <2>1, <2>2, <2>3
  <2>5. f \in Frame /\ f.dstfd = pfd.wr /\ CallOK(f, Len(rest))
    BY <2>4 DEF Frame, CallOK
  <2>6. stack' = Append(Front(rest), f) /\ mode' = "invoke"
    <3>1. Len(stack) # 1
      BY <1>4
    <3>. QED  BY <1>2, <1>4, <3>1 DEF Return
  <2>. HIDE DEF rest, f
  <2>7. /\ Len(stack') = Len(rest) /\ Last(stack') = f /\ stack'[Len(rest)] = f
        /\ \A k \in 1 .. Len(rest) - 1 : stack'[k] = rest[k]
    BY <2>1, <2>2, <2>5, <2>6, ReplaceLast
  <2>8. \A k \in 1 .. Len(rest) - 1 : CallOK(stack'[k], k) /\ NoPipeYet(stack'[k])
    BY <1>1, <2>1, <2>2, <2>7
  <2>9. \A k \in 1 .. Len(stack') : CallOK(stack'[k], k)
    BY <2>2, <2>5, <2>7, <2>8
  <2>10. Top' = f
    BY <2>7 DEF Top
  <2>11. NoPipeYet(f) \/ f.dstfd > 2
    BY <2>5 DEF NoPipeYet
  <2>12. Calls'
    BY <2>6, <2>7, <2>8, <2>9, <2>10, <2>11 DEF Calls
  <2>. QED  BY <1>2, <2>5, <2>10, <2>12
<1>. QED  BY <1>3, <1>4

LEMMA FdStage == ASSUME FdInv, Stage PROVE FdInv'
<1>1. LineInv /\ LineInv' /\ TypeOK /\ TypeOK' /\ mode = "invoke"
  BY LineStage DEF FdInv, LineInv, Stage
<1>2. PICK pfd \in Piping : SkipStage(pfd) \/ \E p \in Procs : ForkStage(pfd, p)
  BY DEF Stage
<1>3. ~leaked' => ~leaked
  BY <1>2 DEF SkipStage, ForkStage
<1>4. Calls /\ ShellLow /\ (~leaked' => ShellFds /\ ChildFds)
  BY <1>3 DEF FdInv
<1>5. PICK src \in FdOrNone : src = Source(pfd)
  BY <1>1, PipingType
<1>6. PICK dst \in FdOrNone : dst = Top.dstfd
  BY <1>1, PipingType DEF Frame
<1>7. PICK wr \in FdOrNone : wr = pfd.wr
  BY <1>1, PipingType
<1>8. /\ pfd.tab \in Table /\ LowOpen(pfd.tab)
      /\ ~leaked' => High(pfd.tab) \subseteq {src, dst, wr}
      /\ src \in {0, NoFd} \/ src > 2
      /\ dst \in {1, NoFd} \/ dst > 2
      /\ wr = NoFd \/ (wr > 2 /\ src > 2 /\ Len(stack) > 1)
      /\ Top.srcfile # NoWord => src = NoFd
      /\ Top.dstfile # NoWord => dst = NoFd
  BY <1>1, <1>4, <1>5, <1>6, <1>7, StagePipe
<1>9. ASSUME NEW pid, Return(pfd, pid)
      PROVE  /\ Calls' /\ mode' \in {"invoke", "wait", "check"}
             /\ mode' = "invoke" <=> Len(stack) > 1
             /\ mode' = "invoke" => Top'.dstfd = wr
  BY <1>1, <1>4, <1>7, <1>8, <1>9, CallsReturn
<1>. SUFFICES Calls' /\ ShellLow' /\ (~leaked' => ShellFds' /\ ChildFds')
  BY <1>1 DEF FdInv
<1>10. CASE SkipStage(pfd)
  <2>1. Return(pfd, NoPid) /\ shfd' = pfd.tab /\ UNCHANGED procVars
    BY <1>10 DEF SkipStage
  <2>5. Calls' /\ ShellLow'
    BY <1>8, <1>9, <2>1 DEF ShellLow
  <2>. SUFFICES ASSUME ~leaked' PROVE ShellFds' /\ ChildFds'
    BY <2>5
  <2>2. ~(src > STDOUT_FILENO) /\ ~(dst > STDOUT_FILENO)
    BY <1>5, <1>6, <1>10 DEF SkipStage
  <2>3. High(shfd') = {}
    <3>1. \A fd \in High(pfd.tab) : fd > 2
      BY DEF High
    <3>2. \A fd \in FdOrNone : fd > 2 => fd > STDOUT_FILENO
      BY MaxFdAssumption DEF FdOrNone, Fd, NoFd, STDOUT_FILENO
    <3>3. src \in {0, NoFd} /\ dst \in {1, NoFd} /\ wr = NoFd
      BY <1>8, <2>2, <3>2
    <3>4. \A fd \in {0, 1, NoFd} : ~(fd > 2)
      BY DEF NoFd
    <3>. QED  BY <1>8, <2>1, <3>1, <3>3, <3>4
  <2>4. ShellFds'
    BY <1>8, <1>9, <2>1, <2>3 DEF ShellFds
  <2>. QED  BY <1>4, <2>1, <2>4 DEF ChildFds, procVars
<1>11. ASSUME NEW p \in Procs, ForkStage(pfd, p) PROVE Calls' /\ ShellLow' /\ (~leaked' => ShellFds' /\ ChildFds')
  <2>1. Return(pfd, p)
    BY <1>11 DEF ForkStage
  <2>2. PICK tab \in Table : tab = CloseHigh(pfd.tab, src)
    BY <1>8, CloseHighOps
  <2>3. LowOpen(tab) /\ High(tab) = High(pfd.tab) \ {src}
    BY <1>8, <2>2, CloseHighOps
  <2>4. shfd' = CloseHigh(tab, dst)
    BY <1>5, <1>6, <1>11, <2>2 DEF ForkStage
  <2>5. LowOpen(shfd') /\ High(shfd') = High(tab) \ {dst}
    BY <1>8, <2>3, <2>4, CloseHighOps
  <2>11. Calls' /\ ShellLow'
    BY <1>9, <2>1, <2>5 DEF ShellLow
  <2>. SUFFICES ASSUME ~leaked' PROVE ShellFds' /\ ChildFds'
    BY <2>11
  <2>6. High(shfd') \subseteq {wr}
    BY <1>8, <2>3, <2>5
  <2>7. mode' # "invoke" => High(shfd') = {}
    <3>1. wr # NoFd => mode' = "invoke"
      BY <1>8, <1>9, <2>1
    <3>2. NoFd \notin High(shfd')
      BY DEF High, NoFd, Fd
    <3>. QED  BY <2>6, <3>1, <3>2
  <2>8. ShellFds'
    BY <1>9, <2>1, <2>5, <2>6, <2>7 DEF ShellFds
  <2>9. Carries(job'[p], fdtab'[p])
    <3>1. /\ fdtab'[p] = pfd.tab
          /\ job'[p].closefd = wr /\ job'[p].srcfd = src /\ job'[p].dstfd = dst
          /\ job'[p].srcfile = Top.srcfile /\ job'[p].dstfile = Top.dstfile
      BY <1>1, <1>5, <1>6, <1>7, <1>11 DEF ForkStage, TypeOK
    <3>. QED  BY <1>8, <3>1 DEF Carries
  <2>10. ChildFds'
    <3>. SUFFICES ASSUME NEW q \in Procs, pstate'[q] = "forked" PROVE Carries(job'[q], fdtab'[q])
      BY DEF ChildFds
    <3>1. CASE q # p
      BY <1>1, <1>4, <1>11, <3>1 DEF ForkStage, TypeOK, ChildFds
    <3>. QED  BY <2>9, <3>1
  <2>. QED  BY <2>8, <2>10
<1>. QED  BY <1>2, <1>10, <1>11

(* What the processes do leaves the calls and the shell's descriptors alone. *)
LEMMA FdProcess ==
    ASSUME FdInv, NEW p \in Procs, Wait(p) \/ Exec(p) \/ Finish(p) \/ Interrupt(p)
    PROVE  FdInv'
<1>1. LineInv /\ LineInv' /\ TypeOK
  BY LineProcess DEF FdInv, LineInv
<1>2. /\ UNCHANGED <<stack, shfd, leaked>>
      /\ UNCHANGED mode \/ (mode = "wait" /\ mode' = "check")
  BY DEF Wait, Exec, Finish, Interrupt, shellVars
<1>3. Calls /\ ShellLow /\ (~leaked => ShellFds /\ ChildFds)
  BY DEF FdInv
<1>4. Calls' /\ ShellLow' /\ (~leaked' => ShellFds')
  BY <1>2, <1>3 DEF Calls, ShellLow, ShellFds, Top
<1>5. \A q \in Procs : pstate'[q] = "forked" =>
          pstate[q] = "forked" /\ job'[q] = job[q] /\ fdtab'[q] = fdtab[q]
  <2>1. CASE Wait(p)
    BY <1>1, <2>1 DEF Wait, TypeOK
  <2>2. CASE End(p)
    BY <1>1, <2>2 DEF End, TypeOK
  <2>3. CASE Exec(p) /\ ~End(p)
    BY <1>1, <2>3 DEF Exec, TypeOK
  <2>. QED  BY <2>1, <2>2, <2>3 DEF Finish, Interrupt
<1>. QED  BY <1>1, <1>2, <1>3, <1>4, <1>5 DEF ChildFds, FdInv

LEMMA NoHighFd == ASSUME NEW tab, High(tab) = {} PROVE ~HasHighFd(tab)
<1>1. \A fd \in Fd : ~(fd > 2 /\ tab[fd] # Closed)
  BY DEF High
<1>2. \A fd \in Fd : 3 <= fd => fd > 2
  BY MaxFdAssumption DEF Fd
<1>. QED  BY <1>1, <1>2 DEF HasHighFd, IsOpen

LEMMA FdFdCheck == ASSUME FdInv, FdCheck PROVE FdInv'
<1>1. LineInv /\ LineInv' /\ mode = "check" /\ UNCHANGED <<leaked, procVars>>
  BY LineFdCheck DEF FdInv, FdCheck
<1>2. Calls /\ ShellLow /\ (~leaked => ShellFds /\ ChildFds)
  BY DEF FdInv
<1>3. \/ mode' = "aborted" /\ HasHighFd(shfd)
      \/ mode' = "read" /\ stack' = <<NewFrame(FALSE)>> /\ UNCHANGED shfd
  BY DEF FdCheck
<1>4. ~leaked => mode' # "aborted"
  BY <1>1, <1>2, <1>3, NoHighFd DEF ShellFds, FdCheck
<1>5. ShellLow' /\ (~leaked' => ShellFds' /\ ChildFds')
  BY <1>1, <1>2, <1>3, <1>4 DEF ShellLow, ShellFds, ChildFds, procVars
<1>6. Calls'
  <2>1. CASE mode' = "aborted"
    BY <2>1 DEF Calls
  <2>2. CASE stack' = <<NewFrame(FALSE)>>
    <3>1. PICK f \in Frame : f = NewFrame(FALSE)
      BY FrameType
    <3>2. stack' = <<f>> /\ Len(stack') = 1 /\ stack'[1] = f /\ Top' = f
      BY <2>2, <3>1, Singleton DEF Top
    <3>3. FALSE <=> 1 > 1
      OBVIOUS
    <3>4. CallOK(f, 1) /\ NoPipeYet(f)
      BY <3>1, <3>3, NewCall
    <3>5. \A k \in 1 .. Len(stack') : k = 1
      BY <3>2
    <3>6. \A k \in 1 .. Len(stack') : CallOK(stack'[k], k)
      BY <3>2, <3>4, <3>5, Zenon
    <3>7. \A k \in 1 .. Len(stack') - 1 : NoPipeYet(stack'[k])
      BY <3>2
    <3>. QED  BY <3>2, <3>4, <3>6, <3>7 DEF Calls
  <2>. QED  BY <1>3, <2>1, <2>2
<1>. QED  BY <1>1, <1>5, <1>6 DEF FdInv

LEMMA FdNext == FdInv /\ [Next]_vars => FdInv'
<1>. SUFFICES ASSUME FdInv, [Next]_vars PROVE FdInv'
  OBVIOUS
<1>1. CASE UNCHANGED vars
  <2>1. LineInv'
    BY <1>1, LineNext DEF FdInv
  <2>. QED  BY <1>1, <2>1 DEF FdInv, Calls, ShellLow, ShellFds, ChildFds, Top, vars
<1>. QED  BY <1>1, FdRead, FdStage, FdProcess, FdFdCheck DEF Next

(* However long a pipeline is and whatever fails in it, if invoke() never    *)
(* returned early with a pipe end in hand the shell has none left, and its   *)
(* own fd_check() does not end it.                                           *)
THEOREM NoLeakCorrect == Spec => []NoLeak
<1>1. FdInv => NoLeak
  <2>1. SUFFICES ASSUME FdInv, ~leaked PROVE mode # "aborted" /\ (mode # "invoke" => ~HasHighFd(shfd))
    BY DEF NoLeak
  <2>2. ShellFds
    BY <2>1 DEF FdInv
  <2>. QED  BY <2>2, NoHighFd DEF ShellFds
<1>. QED  BY <1>1, FdInit, FdNext, PTL DEF Spec

(* Nor does the fd_check() in redirect() end a child: closefd, srcfd and     *)
(* dstfd are all that it inherits above the terminal's three.                *)
THEOREM ChildCheckCorrect == Spec => []ChildPassesCheck
<1>1. FdInv => ChildPassesCheck
  <2>. SUFFICES ASSUME FdInv, ~leaked, NEW p \in Procs, pstate[p] = "forked"
                PROVE  ~HasHighFd(Redirected(job[p], fdtab[p]))
    BY DEF ChildPassesCheck
  <2>1. Carries(job[p], fdtab[p]) /\ job[p] \in Job /\ fdtab[p] \in Table
    BY DEF FdInv, ChildFds, LineInv, TypeOK
  <2>2. High(Redirected(job[p], fdtab[p])) = {}
    BY <2>1, RedirectedLow DEF Carries
  <2>. QED  BY <2>2, NoHighFd
<1>. QED  BY <1>1, FdInit, FdNext, PTL DEF Spec

-----------------------------------------------------------------------------
(* What a child reads from *)

(* Either the terminal, as the first stage of its line, or what command()    *)
(* opened for it, which no close() of redirect() takes away.                 *)
Draws(j, tab) ==
    /\ j.srcfd = STDIN_FILENO => j.stage <= 1
    /\ j.srcfile # NoWord => j.srcfd = NoFd
    /\ j.srcfd \notin {STDIN_FILENO, NoFd} => j.srcfd # j.closefd /\ tab[j.srcfd] \notin {Closed, Tty}

LEMMA RedirectedInput ==
    ASSUME NEW j \in Job, NEW tab \in Table, Draws(j, tab),
           j.bckgrnd \/ j.stage > 1, j.srcfd # NoFd
    PROVE  Redirected(j, tab)[STDIN_FILENO] # Tty
<1>1. /\ STDIN_FILENO \in Fd /\ STDOUT_FILENO # STDIN_FILENO /\ j.srcfd \in Fd /\ j.stage \in Nat
      /\ Closed # Tty /\ Null # Tty
  BY LowFds DEF STDIN_FILENO, STDOUT_FILENO, Job, FdOrNone, Closed, Tty, Null
<1>2. PICK t \in Table : t = CloseFd(tab, j.closefd)
  BY TableOps
<1>3. PICK u : u = WithSource(j, t)
  OBVIOUS
<1>4. u[STDIN_FILENO] # Tty
  <2>1. CASE j.srcfd = STDIN_FILENO
    <3>1. j.bckgrnd
      BY <1>1, <2>1 DEF Draws
    <3>. QED  BY <1>1, <1>3, <2>1, <3>1 DEF WithSource, Table
  <2>2. CASE j.srcfd # STDIN_FILENO
    <3>1. u = MoveFd(t, j.srcfd, STDIN_FILENO)
      BY <1>3, <2>2 DEF WithSource, Draws
    <3>2. t[j.srcfd] \notin {Closed, Tty}
      BY <1>1, <1>2, <2>2 DEF CloseFd, Draws
    <3>. QED  BY <1>1, <2>2, <3>1, <3>2 DEF MoveFd, Dup2, CloseFd, IsOpen
  <2>. QED  BY <2>1, <2>2
<1>5. WithDestination(j, u)[STDIN_FILENO] # Tty
  BY <1>1, <1>4 DEF WithDestination, MoveFd, Dup2, CloseFd
<1>. QED  BY <1>2, <1>3, <1>5 DEF Redirected

Sources == \A p \in Procs :
    /\ pstate[p] = "forked" => Draws(job[p], fdtab[p])
    /\ /\ pstate[p] = "running" /\ Input(p) = Tty
       /\ job[p].bckgrnd \/ job[p].stage > 1
       => job[p].srcfd = NoFd

LEMMA SourcesStage == ASSUME FdInv, Sources, Stage PROVE Sources'
<1>1. TypeOK /\ Calls /\ ShellLow /\ mode = "invoke"
  BY DEF FdInv, LineInv, Stage
<1>2. PICK pfd \in Piping : SkipStage(pfd) \/ \E p \in Procs : ForkStage(pfd, p)
  BY DEF Stage
<1>3. CASE SkipStage(pfd)
  BY <1>3 DEF SkipStage, Sources, Input, procVars
<1>4. ASSUME NEW p \in Procs, ForkStage(pfd, p) PROVE Sources'
  <2>1. /\ pstate'[p] = "forked" /\ fdtab'[p] = pfd.tab
        /\ job'[p].srcfd = Source(pfd) /\ job'[p].srcfile = Top.srcfile
        /\ job'[p].closefd = pfd.wr /\ job'[p].stage = Len(stack)
        /\ \A q \in Procs \ {p} : pstate'[q] = pstate[q] /\ job'[q] = job[q] /\ fdtab'[q] = fdtab[q]
    BY <1>1, <1>4 DEF ForkStage, TypeOK
  <2>2. Len(stack) \in Nat
    BY <1>1 DEF TypeOK
  <2>3. Draws(job'[p], fdtab'[p])
    <3>1. /\ Source(pfd) \in {0, NoFd} \/ Source(pfd) > 2
          /\ Source(pfd) = 0 => ~(Len(stack) > 1)
          /\ Source(pfd) > 2 => Source(pfd) # pfd.wr /\ pfd.tab[Source(pfd)] \notin {Closed, Tty}
          /\ Top.srcfile # NoWord => Source(pfd) = NoFd
      BY <1>1, StagePipe
    <3>. QED  BY <2>1, <2>2, <3>1 DEF Draws, STDIN_FILENO
  <2>. QED  BY <2>1, <2>3 DEF Sources, Input
<1>. QED  BY <1>2, <1>3, <1>4

LEMMA SourcesProcess ==
    ASSUME FdInv, Sources, NEW p \in Procs, Wait(p) \/ Exec(p) \/ Finish(p) \/ Interrupt(p)
    PROVE  Sources'
<1>1. TypeOK
  BY DEF FdInv, LineInv
<1>2. CASE End(p) \/ Wait(p)
  <2>1. /\ pstate'[p] \in {"zombie", "free"}
        /\ \A q \in Procs \ {p} : pstate'[q] = pstate[q] /\ job'[q] = job[q] /\ fdtab'[q] = fdtab[q]
    BY <1>1, <1>2 DEF End, Wait, TypeOK
  <2>. QED  BY <2>1 DEF Sources, Input
<1>3. CASE Exec(p) /\ ~End(p)
  <2>1. /\ pstate[p] = "forked" /\ pstate'[p] = "running" /\ job' = job
        /\ fdtab'[p] = Redirected(job[p], fdtab[p])
        /\ \A q \in Procs \ {p} : pstate'[q] = pstate[q] /\ fdtab'[q] = fdtab[q]
    BY <1>1, <1>3 DEF Exec, TypeOK
  <2>2. job[p] \in Job /\ fdtab[p] \in Table /\ Draws(job[p], fdtab[p])
    BY <1>1, <2>1 DEF TypeOK, Sources
  <2>3. (job[p].bckgrnd \/ job[p].stage > 1) /\ job[p].srcfd # NoFd => fdtab'[p][STDIN_FILENO] # Tty
    BY <2>1, <2>2, RedirectedInput
  <2>. QED  BY <2>1, <2>3 DEF Sources, Input
<1>. QED  BY <1>2, <1>3 DEF Finish, Interrupt

(* A background job, or a stage behind a "|", reads the shell's terminal     *)
(* only when command() or redirect() could not open what it should read      *)
(* instead; this holds whatever has leaked before.                           *)
THEOREM TerminalCorrect == Spec => []TerminalInput
<1>1. Init => Sources
  BY DEF Init, Sources
<1>2. FdInv /\ Sources /\ [Next]_vars => Sources'
  <2>. SUFFICES ASSUME FdInv, Sources, [Next]_vars PROVE Sources'
    OBVIOUS
  <2>1. CASE UNCHANGED procVars
    BY <2>1 DEF Sources, Input, procVars
  <2>2. Read \/ FdCheck \/ UNCHANGED vars => UNCHANGED procVars
    BY DEF Read, Word, RedirectInput, RedirectOutput, Bar, Terminator, EndOfInput, Reading,
       FdCheck, vars, procVars
  <2>. QED  BY <2>1, <2>2, SourcesStage, SourcesProcess DEF Next
<1>3. Sources => TerminalInput
  BY DEF Sources, TerminalInput
<1>. QED  BY <1>1, <1>2, <1>3, FdInit, FdNext, PTL DEF Spec

-----------------------------------------------------------------------------
(* Ends of pipes in descriptor tables *)

LEMMA EndsDiffer ==
    ASSUME NEW k, NEW m
    PROVE  /\ ReadEnd(k) # WriteEnd(m) /\ (ReadEnd(k) = ReadEnd(m) => k = m)
           /\ (WriteEnd(k) = WriteEnd(m) => k = m)
           /\ ReadEnd(k) \notin {Closed, Null, Disk, Tty} /\ WriteEnd(k) \notin {Closed, Null, Disk, Tty}
BY DEF ReadEnd, WriteEnd, Closed, Null, Disk, Tty

(* dup2() and close() bring no new file into a table. *)
LEMMA MovedFile ==
    ASSUME NEW tab \in Table, NEW from, NEW to, NEW file, file # Closed,
           Holds(MoveFd(tab, from, to), file)
    PROVE  Holds(tab, file)
<1>1. Holds(Dup2(tab, from, to), file)
  BY DEF MoveFd, CloseFd, Holds
<1>. QED  BY <1>1 DEF Dup2, Holds, IsOpen

(* What a child has after redirect() it had before, and not as its closefd.  *)
LEMMA RedirectedFile ==
    ASSUME NEW j \in Job, NEW tab \in Table, NEW file, file \notin {Closed, Null, Disk},
           Holds(Redirected(j, tab), file)
    PROVE  \E fd \in Fd : fd # j.closefd /\ tab[fd] = file
<1>1. PICK t \in Table : t = CloseFd(tab, j.closefd)
  BY TableOps
<1>2. PICK u : u = WithSource(j, t)
  OBVIOUS
<1>3. STDIN_FILENO \in Fd /\ STDOUT_FILENO \in Fd /\ Null \in File /\ Disk \in File
  BY LowFds DEF STDIN_FILENO, STDOUT_FILENO, File, Null, Disk
<1>4. u \in Table
  BY <1>2, <1>3, TableOps DEF WithSource
<1>5. Holds(WithDestination(j, u), file)
  BY <1>1, <1>2 DEF Redirected
<1>6. Holds(u, file)
  <2>1. CASE Holds(MoveFd(u, j.dstfd, STDOUT_FILENO), file)
    BY <1>4, <2>1, MovedFile
  <2>2. CASE Holds([u EXCEPT ![STDOUT_FILENO] = Disk], file)
    BY <1>4, <2>2 DEF Holds, Table
  <2>. QED  BY <1>5, <2>1, <2>2 DEF WithDestination
<1>7. Holds(t, file)
  <2>1. CASE Holds(MoveFd(t, j.srcfd, STDIN_FILENO), file)
    BY <2>1, MovedFile
  <2>2. ASSUME NEW f \in {Null, Disk}, Holds([t EXCEPT ![STDIN_FILENO] = f], file)
        PROVE  Holds(t, file)
    BY <2>2 DEF Holds, Table
  <2>. QED  BY <1>2, <1>6, <2>1, <2>2 DEF WithSource
<1>. QED  BY <1>1, <1>7 DEF Holds, CloseFd

(* invoke() closes a pipe end that is in its hands, and opens nothing.       *)
LEMMA ClosedHigh ==
    ASSUME NEW tab \in Table, NEW high, NEW fd \in Fd, NEW file, file # Closed,
           CloseHigh(tab, high)[fd] = file
    PROVE  tab[fd] = file /\ (fd > 2 => fd # high)
<1>1. fd > 2 => fd > STDOUT_FILENO
  BY DEF Fd, STDOUT_FILENO
<1>. QED  BY <1>1 DEF CloseHigh, CloseFd

-----------------------------------------------------------------------------
(* The inductive invariant *)

HoldsEnd(tab, k) == Holds(tab, ReadEnd(k)) \/ Holds(tab, WriteEnd(k))

(* The shell holds no read end; the write end it holds is the one the stage  *)
(* to the right has handed to the innermost call, and apart from the shell   *)
(* only that stage has had the pipe.                                         *)
ShellEnds == \A fd \in Fd, k \in Pipes :
    /\ shfd[fd] # ReadEnd(k)
    /\ shfd[fd] = WriteEnd(k) =>
          /\ mode = "invoke" /\ fd = Top.dstfd /\ fd > 2
          /\ \A p \in Procs :
                /\ Holds(fdtab[p], ReadEnd(k)) => job[p].stage = Len(stack) + 1
                /\ Holds(fdtab[p], WriteEnd(k)) => Holds(fdtab[p], ReadEnd(k))

(* The kernel has closed what a process had that has ended. *)
EndedEnds == \A p \in Procs, k \in Pipes : ~Live(p) => ~HoldsEnd(fdtab[p], k)

(* A child is to close the write end of the pipe it reads from. *)
ForkedEnds == \A p \in Procs, k \in Pipes, fd \in Fd :
    pstate[p] = "forked" /\ fdtab[p][fd] = WriteEnd(k) /\ fd # job[p].closefd
        => ~Holds(fdtab[p], ReadEnd(k))

(* One reader, and one stage to its left that writes. *)
OneReader == \A p, q \in Procs, k \in Pipes :
    Holds(fdtab[p], ReadEnd(k)) /\ Holds(fdtab[q], ReadEnd(k)) => p = q
Neighbours == \A p, q \in Procs, k \in Pipes :
    Holds(fdtab[p], ReadEnd(k)) /\ Holds(fdtab[q], WriteEnd(k)) =>
        \/ p = q /\ pstate[p] = "forked"
        \/ p # q /\ job[q].stage = job[p].stage - 1

PipeInv == FdInv /\ (~leaked => ShellEnds /\ EndedEnds /\ ForkedEnds /\ OneReader /\ Neighbours)

LEMMA NoEnds == \A k \in Pipes : ~HoldsEnd(AllClosed, k)
BY EndsDiffer DEF HoldsEnd, Holds, AllClosed

LEMMA PipeInit == Init => PipeInv
<1>. SUFFICES ASSUME Init PROVE PipeInv
  OBVIOUS
<1>1. \A p \in Procs, k \in Pipes : ~HoldsEnd(fdtab[p], k)
  BY NoEnds DEF Init
<1>2. \A fd \in Fd : shfd[fd] \in {Tty, Closed}
  BY DEF Init, Started
<1>3. ShellEnds
  BY <1>2, EndsDiffer DEF ShellEnds
<1>4. EndedEnds /\ ForkedEnds /\ OneReader /\ Neighbours
  BY <1>1 DEF EndedEnds, ForkedEnds, OneReader, Neighbours, HoldsEnd, Init
<1>. QED  BY <1>3, <1>4, FdInit DEF PipeInv

-----------------------------------------------------------------------------
(* The steps of the shell that make no stage *)

LEMMA PipeShell ==
    ASSUME PipeInv, FdInv', UNCHANGED <<leaked, procVars>>, mode # "invoke",
           shfd' \in {shfd, AllClosed}
    PROVE  PipeInv'
<1>. SUFFICES ASSUME ~leaked
              PROVE  ShellEnds' /\ EndedEnds' /\ ForkedEnds' /\ OneReader' /\ Neighbours'
  BY DEF PipeInv
<1>1. ShellEnds /\ EndedEnds /\ ForkedEnds /\ OneReader /\ Neighbours
  BY DEF PipeInv
<1>2. \A fd \in Fd, k \in Pipes : shfd'[fd] # ReadEnd(k) /\ shfd'[fd] # WriteEnd(k)
  <2>1. \A fd \in Fd, k \in Pipes : AllClosed[fd] # ReadEnd(k) /\ AllClosed[fd] # WriteEnd(k)
    BY EndsDiffer DEF AllClosed
  <2>2. \A fd \in Fd, k \in Pipes : shfd[fd] # ReadEnd(k) /\ shfd[fd] # WriteEnd(k)
    BY <1>1 DEF ShellEnds
  <2>. QED  BY <2>1, <2>2
<1>3. ShellEnds'
  BY <1>2 DEF ShellEnds
<1>. QED  BY <1>1, <1>3 DEF EndedEnds, ForkedEnds, OneReader, Neighbours, Live, procVars

LEMMA PipeRead == ASSUME PipeInv, Read PROVE PipeInv'
<1>1. UNCHANGED <<leaked, procVars>> /\ mode # "invoke" /\ shfd' \in {shfd, AllClosed}
  BY DEF Read, Word, RedirectInput, RedirectOutput, Bar, Terminator, EndOfInput, Reading
<1>. QED  BY <1>1, PipeShell, FdRead DEF PipeInv

LEMMA PipeFdCheck == ASSUME PipeInv, FdCheck PROVE PipeInv'
<1>1. UNCHANGED <<leaked, procVars>> /\ mode # "invoke" /\ shfd' \in {shfd, AllClosed}
  BY DEF FdCheck
<1>. QED  BY <1>1, PipeShell, FdFdCheck DEF PipeInv

-----------------------------------------------------------------------------
(* The steps of the processes *)

(* A process is left with a part of what it had, and not with both ends of   *)
(* a pipe.                                                                   *)
LEMMA PipeFewer ==
    ASSUME PipeInv, FdInv', ~leaked, NEW p \in Procs,
           UNCHANGED <<stack, shfd>>, mode' = mode \/ mode # "invoke",
           pstate'[p] # "forked",
           \A q \in Procs \ {p} : pstate'[q] = pstate[q] /\ job'[q] = job[q] /\ fdtab'[q] = fdtab[q],
           \A k \in Pipes :
              /\ Holds(fdtab'[p], ReadEnd(k)) => Holds(fdtab[p], ReadEnd(k))
              /\ Holds(fdtab'[p], WriteEnd(k)) => Holds(fdtab[p], WriteEnd(k))
              /\ ~(Holds(fdtab'[p], ReadEnd(k)) /\ Holds(fdtab'[p], WriteEnd(k)))
              /\ HoldsEnd(fdtab'[p], k) => /\ job'[p] = job[p] /\ pstate'[p] = "running"
              /\ Holds(fdtab'[p], WriteEnd(k)) => ~Holds(fdtab[p], ReadEnd(k))
    PROVE  ShellEnds' /\ EndedEnds' /\ ForkedEnds' /\ OneReader' /\ Neighbours'
<1>1. ShellEnds /\ EndedEnds /\ ForkedEnds /\ OneReader /\ Neighbours
  BY DEF PipeInv
<1>2. \A q \in Procs, k \in Pipes :
          /\ Holds(fdtab'[q], ReadEnd(k)) => Holds(fdtab[q], ReadEnd(k))
          /\ Holds(fdtab'[q], WriteEnd(k)) => Holds(fdtab[q], WriteEnd(k))
          /\ HoldsEnd(fdtab'[q], k) => job'[q] = job[q]
  OBVIOUS
<1>3. ShellEnds'
  <2>. SUFFICES ASSUME NEW fd \in Fd, NEW k \in Pipes
                PROVE  /\ shfd'[fd] # ReadEnd(k)
                       /\ shfd'[fd] = WriteEnd(k) =>
                            /\ mode' = "invoke" /\ fd = Top'.dstfd /\ fd > 2
                            /\ \A q \in Procs :
                                /\ Holds(fdtab'[q], ReadEnd(k)) => job'[q].stage = Len(stack') + 1
                                /\ Holds(fdtab'[q], WriteEnd(k)) => Holds(fdtab'[q], ReadEnd(k))
    BY DEF ShellEnds
  <2>1. shfd'[fd] # ReadEnd(k)
    BY <1>1 DEF ShellEnds
  <2>2. ASSUME shfd'[fd] = WriteEnd(k) PROVE mode' = "invoke" /\ fd = Top'.dstfd /\ fd > 2
    BY <1>1, <2>2 DEF ShellEnds, Top
  <2>3. ASSUME shfd'[fd] = WriteEnd(k), NEW q \in Procs, Holds(fdtab'[q], ReadEnd(k))
        PROVE  job'[q].stage = Len(stack') + 1
    BY <1>1, <1>2, <2>3 DEF ShellEnds, HoldsEnd
  <2>4. ASSUME shfd'[fd] = WriteEnd(k), NEW q \in Procs, Holds(fdtab'[q], WriteEnd(k))
        PROVE  Holds(fdtab'[q], ReadEnd(k))
    <3>1. Holds(fdtab[q], ReadEnd(k))
      BY <1>1, <1>2, <2>4 DEF ShellEnds
    <3>2. q # p
      BY <2>4, <3>1
    <3>. QED  BY <3>1, <3>2
  <2>. QED  BY <2>1, <2>2, <2>3, <2>4
<1>4. EndedEnds'
  BY <1>1 DEF EndedEnds, Live
<1>5. ForkedEnds'
  BY <1>1 DEF ForkedEnds
<1>6. OneReader'
  BY <1>1, <1>2 DEF OneReader
<1>7. Neighbours'
  <2>. SUFFICES ASSUME NEW r \in Procs, NEW w \in Procs, NEW k \in Pipes,
                       Holds(fdtab'[r], ReadEnd(k)), Holds(fdtab'[w], WriteEnd(k))
                PROVE  \/ r = w /\ pstate'[r] = "forked"
                       \/ r # w /\ job'[w].stage = job'[r].stage - 1
    BY DEF Neighbours
  <2>1. /\ Holds(fdtab[r], ReadEnd(k)) /\ Holds(fdtab[w], WriteEnd(k))
        /\ job'[r] = job[r] /\ job'[w] = job[w]
    BY <1>2 DEF HoldsEnd
  <2>2. ~(r = p /\ w = p)
    OBVIOUS
  <2>. QED  BY <1>1, <2>1, <2>2 DEF Neighbours
<1>. QED  BY <1>3, <1>4, <1>5, <1>6, <1>7

LEMMA PipeProcess ==
    ASSUME PipeInv, NEW p \in Procs, Wait(p) \/ Exec(p) \/ Finish(p) \/ Interrupt(p)
    PROVE  PipeInv'
<1>1. FdInv' /\ LineInv /\ TypeOK
  BY FdProcess DEF PipeInv, FdInv, LineInv
<1>2. /\ UNCHANGED <<stack, shfd, leaked>> /\ (mode' = mode \/ mode # "invoke")
  BY DEF Wait, Exec, Finish, Interrupt, shellVars
<1>. SUFFICES ASSUME ~leaked
              PROVE  ShellEnds' /\ EndedEnds' /\ ForkedEnds' /\ OneReader' /\ Neighbours'
  BY <1>1, <1>2 DEF PipeInv
<1>3. EndedEnds /\ ForkedEnds
  BY DEF PipeInv
<1>4. CASE End(p)
  <2>1. /\ pstate'[p] = "zombie" /\ fdtab'[p] = AllClosed
        /\ \A q \in Procs \ {p} : pstate'[q] = pstate[q] /\ job'[q] = job[q] /\ fdtab'[q] = fdtab[q]
    BY <1>1, <1>4 DEF End, TypeOK
  <2>2. \A k \in Pipes : ~Holds(fdtab'[p], ReadEnd(k)) /\ ~Holds(fdtab'[p], WriteEnd(k))
    BY <2>1, NoEnds DEF HoldsEnd
  <2>. QED  BY <1>1, <1>2, <2>1, <2>2, PipeFewer DEF HoldsEnd
<1>5. CASE Wait(p)
  <2>1. /\ pstate[p] = "zombie" /\ pstate'[p] = "free" /\ fdtab' = fdtab
        /\ \A q \in Procs \ {p} : pstate'[q] = pstate[q] /\ job'[q] = job[q]
    BY <1>1, <1>5 DEF Wait, TypeOK
  <2>2. \A k \in Pipes : ~Holds(fdtab'[p], ReadEnd(k)) /\ ~Holds(fdtab'[p], WriteEnd(k))
    BY <1>3, <2>1 DEF EndedEnds, Live, HoldsEnd
  <2>. QED  BY <1>1, <1>2, <2>1, <2>2, PipeFewer DEF HoldsEnd
<1>6. CASE Exec(p) /\ ~End(p)
  <2>1. /\ pstate[p] = "forked" /\ pstate'[p] = "running" /\ job' = job
        /\ fdtab'[p] = Redirected(job[p], fdtab[p])
        /\ \A q \in Procs \ {p} : pstate'[q] = pstate[q] /\ fdtab'[q] = fdtab[q]
    BY <1>1, <1>6 DEF Exec, TypeOK
  <2>2. job[p] \in Job /\ fdtab[p] \in Table
    BY <1>1 DEF TypeOK
  <2>3. ASSUME NEW k \in Pipes
        PROVE  /\ Holds(fdtab'[p], ReadEnd(k)) => Holds(fdtab[p], ReadEnd(k))
               /\ Holds(fdtab'[p], WriteEnd(k)) => /\ Holds(fdtab[p], WriteEnd(k))
                                                   /\ ~Holds(fdtab[p], ReadEnd(k))
    <3>1. ReadEnd(k) \notin {Closed, Null, Disk} /\ WriteEnd(k) \notin {Closed, Null, Disk}
      BY EndsDiffer
    <3>2. ASSUME Holds(fdtab'[p], ReadEnd(k)) PROVE Holds(fdtab[p], ReadEnd(k))
      <4>1. \E fd \in Fd : fd # job[p].closefd /\ fdtab[p][fd] = ReadEnd(k)
        BY <2>1, <2>2, <3>1, <3>2, RedirectedFile
      <4>. QED  BY <4>1 DEF Holds
    <3>3. ASSUME Holds(fdtab'[p], WriteEnd(k))
          PROVE  Holds(fdtab[p], WriteEnd(k)) /\ ~Holds(fdtab[p], ReadEnd(k))
      <4>1. PICK fd \in Fd : fd # job[p].closefd /\ fdtab[p][fd] = WriteEnd(k)
        BY <2>1, <2>2, <3>1, <3>3, RedirectedFile
      <4>2. ~Holds(fdtab[p], ReadEnd(k))
        BY <1>3, <2>1, <4>1 DEF ForkedEnds
      <4>. QED  BY <4>1, <4>2 DEF Holds
    <3>. QED  BY <3>2, <3>3
  <2>. QED  BY <1>1, <1>2, <2>1, <2>3, PipeFewer
<1>. QED  BY <1>4, <1>5, <1>6 DEF Finish, Interrupt

-----------------------------------------------------------------------------
(* The step that makes a stage *)

(* The ends pipe() gives are of a pipe nobody has; of the others only those  *)
(* the shell has already are in the table that fork() copies.                *)
LEMMA StageEnds ==
    ASSUME TypeOK, mode = "invoke", Calls, ShellLow, ShellEnds, NEW pfd \in Piping
    PROVE  /\ pfd.tab \in Table
           /\ \A fd \in Fd, k \in Pipes : pfd.tab[fd] = ReadEnd(k) =>
                 k \in UnusedPipes /\ fd = Source(pfd) /\ fd > 2
           /\ \A fd \in Fd, k \in Pipes : pfd.tab[fd] = WriteEnd(k) =>
                 \/ shfd[fd] = WriteEnd(k)
                 \/ /\ k \in UnusedPipes /\ fd = pfd.wr /\ fd > 2
                    /\ Holds(pfd.tab, ReadEnd(k))
<1>1. shfd \in Table /\ LowOpen(shfd) /\ UnusedPipes \in SUBSET Pipes /\ pfd.tab \in Table
  BY PipingType DEF TypeOK, ShellLow, UnusedPipes
<1>2. pfd \in PipeResults(shfd, UnusedPipes) /\ (~Top.makepipe => pfd = PipeFails(shfd))
  BY DEF Piping, PipeResults
<1>3. CASE pfd = PipeFails(shfd)
  BY <1>1, <1>3 DEF PipeFails, ShellEnds
<1>4. CASE pfd # PipeFails(shfd)
  <2>1. PICK rd \in Fd, wr \in Fd, m \in UnusedPipes :
            pfd = PipeMade(shfd, rd, wr, m) /\ IsLowestFree(shfd, rd) /\ rd < wr
    BY <1>2, <1>4 DEF PipeResults
  <2>2. rd > 2 /\ wr > 2 /\ rd # wr
    BY <1>1, <2>1 DEF IsLowestFree, LowOpen, Fd
  <2>3. /\ pfd.rd = rd /\ pfd.wr = wr /\ Source(pfd) = rd
        /\ \A fd \in Fd : pfd.tab[fd] = IF fd = wr THEN WriteEnd(m)
                                        ELSE IF fd = rd THEN ReadEnd(m) ELSE shfd[fd]
    BY <1>1, <1>2, <1>4, <2>1 DEF PipeMade, Table, Source
  <2>4. Holds(pfd.tab, ReadEnd(m))
    BY <2>2, <2>3 DEF Holds
  <2>5. ASSUME NEW fd \in Fd, NEW k \in Pipes, pfd.tab[fd] = ReadEnd(k)
        PROVE  k \in UnusedPipes /\ fd = Source(pfd) /\ fd > 2
    <3>1. fd # wr
      BY <2>3, <2>5, EndsDiffer
    <3>2. fd = rd
      BY <2>3, <2>5, <3>1 DEF ShellEnds
    <3>3. k = m
      BY <2>3, <2>5, <3>1, <3>2, EndsDiffer
    <3>. QED  BY <2>2, <2>3, <3>2, <3>3
  <2>6. ASSUME NEW fd \in Fd, NEW k \in Pipes, pfd.tab[fd] = WriteEnd(k), shfd[fd] # WriteEnd(k)
        PROVE  k \in UnusedPipes /\ fd = pfd.wr /\ fd > 2 /\ Holds(pfd.tab, ReadEnd(k))
    <3>1. fd = wr
      BY <2>3, <2>6, EndsDiffer
    <3>2. k = m
      BY <2>3, <2>6, <3>1, EndsDiffer
    <3>. QED  BY <2>2, <2>3, <2>4, <3>1, <3>2
  <2>. QED  BY <1>1, <2>5, <2>6
<1>. QED  BY <1>3, <1>4

LEMMA ReturnLength ==
    ASSUME TypeOK, mode = "invoke", NEW pfd, pfd.wr \in FdOrNone, NEW pid, Return(pfd, pid)
    PROVE  Len(stack) \in Nat /\ (Len(stack) > 1 => Len(stack') + 1 = Len(stack))
<1>1. /\ stack \in Seq(Frame) /\ stack # <<>> /\ Len(stack) \in Nat \ {0}
      /\ Front(stack) \in Seq(Frame) /\ Len(Front(stack)) = Len(stack) - 1
  BY FrontLast DEF TypeOK
<1>2. CASE Len(stack) > 1
  <2>. DEFINE rest == Front(stack)
              f == [Last(rest) EXCEPT !.dstfd = pfd.wr]
  <2>1. rest \in Seq(Frame) /\ rest # <<>> /\ Len(rest) = Len(stack) - 1
    <3>1. Len(rest) # 0
      BY <1>1, <1>2
    <3>. QED  BY <1>1, <3>1, EmptySeq
  <2>2. f \in Frame
    <3>1. Last(rest) \in Frame
      BY <2>1, FrontLast
    <3>. QED  BY <3>1 DEF Frame
  <2>3. stack' = Append(Front(rest), f)
    <3>1. Len(stack) # 1
      BY <1>1, <1>2
    <3>. QED  BY <3>1 DEF Return
  <2>4. Len(stack') = Len(rest)
    <3>. HIDE DEF rest, f
    <3>. QED  BY <2>1, <2>2, <2>3, ReplaceLast
  <2>. QED  BY <1>1, <2>1, <2>4
<1>. QED  BY <1>1, <1>2

LEMMA PipeFork ==
    ASSUME PipeInv, ~leaked, mode = "invoke", NEW pfd \in Piping, NEW p \in Procs, ForkStage(pfd, p)
    PROVE  ShellEnds' /\ EndedEnds' /\ ForkedEnds' /\ OneReader' /\ Neighbours'
<1>1. /\ LineInv /\ TypeOK /\ Calls /\ ShellLow
      /\ ShellEnds /\ EndedEnds /\ ForkedEnds /\ OneReader /\ Neighbours
  BY DEF PipeInv, FdInv, LineInv
<1>2. PICK tab \in Table : tab = pfd.tab
  BY <1>1, StageEnds
<1>3. PICK src : src = Source(pfd)
  OBVIOUS
<1>4. /\ \A fd \in Fd, k \in Pipes : tab[fd] = ReadEnd(k) => k \in UnusedPipes /\ fd = src /\ fd > 2
      /\ \A fd \in Fd, k \in Pipes : tab[fd] = WriteEnd(k) =>
            \/ shfd[fd] = WriteEnd(k)
            \/ k \in UnusedPipes /\ fd = pfd.wr /\ fd > 2 /\ Holds(tab, ReadEnd(k))
  BY <1>1, <1>2, <1>3, StageEnds
<1>5. /\ pstate[p] = "free" /\ pstate'[p] = "forked" /\ fdtab'[p] = tab
      /\ job'[p].closefd = pfd.wr /\ job'[p].stage = Len(stack)
      /\ \A q \in Procs \ {p} : pstate'[q] = pstate[q] /\ job'[q] = job[q] /\ fdtab'[q] = fdtab[q]
      /\ Return(pfd, p) /\ shfd' = CloseHigh(CloseHigh(tab, src), Top.dstfd)
  BY <1>1, <1>2, <1>3 DEF ForkStage, TypeOK
<1>6. /\ pfd.wr \in FdOrNone
      /\ pfd.wr = NoFd \/ pfd.wr > 2
      /\ pfd.wr # NoFd => Len(stack) > 1
  <2>1. pfd.wr \in FdOrNone
    BY <1>1, PipingType
  <2>2. /\ pfd.wr = NoFd \/ (pfd.wr > 2 /\ Top.makepipe)
        /\ Top.makepipe <=> Len(stack) > 1
    BY <1>1, StagePipe
  <2>. QED  BY <2>1, <2>2
<1>7. Len(stack) \in Nat /\ (Len(stack) > 1 => Len(stack') + 1 = Len(stack))
  BY <1>1, <1>5, <1>6, ReturnLength
<1>8. /\ mode' = "invoke" <=> Len(stack) > 1
      /\ mode' = "invoke" => Top'.dstfd = pfd.wr
  BY <1>1, <1>5, <1>6, CallsReturn
<1>9. \A k \in UnusedPipes : /\ k \in Pipes
                             /\ \A fd \in Fd : shfd[fd] # ReadEnd(k) /\ shfd[fd] # WriteEnd(k)
                             /\ \A q \in Procs : ~HoldsEnd(fdtab[q], k)
  BY DEF UnusedPipes, HeldSomewhere, Holds, HoldsEnd
<1>10. ShellEnds'
  <2>. SUFFICES ASSUME NEW fd \in Fd, NEW k \in Pipes
                PROVE  /\ shfd'[fd] # ReadEnd(k)
                       /\ shfd'[fd] = WriteEnd(k) =>
                            /\ mode' = "invoke" /\ fd = Top'.dstfd /\ fd > 2
                            /\ \A q \in Procs :
                                /\ Holds(fdtab'[q], ReadEnd(k)) => job'[q].stage = Len(stack') + 1
                                /\ Holds(fdtab'[q], WriteEnd(k)) => Holds(fdtab'[q], ReadEnd(k))
    BY DEF ShellEnds
  <2>1. \A file : file # Closed /\ shfd'[fd] = file =>
            tab[fd] = file /\ (fd > 2 => fd # src /\ fd # Top.dstfd)
    <3>1. PICK t \in Table : t = CloseHigh(tab, src)
      BY TableOps
    <3>. QED  BY <1>5, <3>1, ClosedHigh
  <2>2. shfd'[fd] # ReadEnd(k)
    BY <1>4, <2>1, EndsDiffer
  <2>3. ASSUME shfd'[fd] = WriteEnd(k)
        PROVE  k \in UnusedPipes /\ fd = pfd.wr /\ fd > 2 /\ Holds(tab, ReadEnd(k))
    <3>1. tab[fd] = WriteEnd(k) /\ (fd > 2 => fd # Top.dstfd)
      BY <2>1, <2>3, EndsDiffer
    <3>2. shfd[fd] # WriteEnd(k)
      BY <1>1, <3>1 DEF ShellEnds
    <3>. QED  BY <1>4, <3>1, <3>2
  <2>4. ASSUME shfd'[fd] = WriteEnd(k)
        PROVE  mode' = "invoke" /\ fd = Top'.dstfd /\ fd > 2 /\ Len(stack') + 1 = Len(stack)
    <3>1. pfd.wr # NoFd
      BY <2>3, <2>4 DEF Fd, NoFd
    <3>. QED  BY <1>6, <1>7, <1>8, <2>3, <2>4, <3>1
  <2>5. ASSUME shfd'[fd] = WriteEnd(k), NEW q \in Procs, HoldsEnd(fdtab'[q], k) PROVE q = p
    BY <1>5, <1>9, <2>3, <2>5
  <2>. QED  BY <1>5, <2>2, <2>3, <2>4, <2>5 DEF HoldsEnd
<1>11. EndedEnds'
  BY <1>1, <1>5 DEF EndedEnds, Live
<1>12. ForkedEnds'
  <2>. SUFFICES ASSUME NEW q \in Procs, NEW k \in Pipes, NEW fd \in Fd, pstate'[q] = "forked",
                       fdtab'[q][fd] = WriteEnd(k), fd # job'[q].closefd
                PROVE  ~Holds(fdtab'[q], ReadEnd(k))
    BY DEF ForkedEnds
  <2>1. CASE q # p
    BY <1>1, <1>5, <2>1 DEF ForkedEnds
  <2>2. CASE q = p
    <3>1. shfd[fd] = WriteEnd(k)
      BY <1>4, <1>5, <2>2
    <3>2. k \notin UnusedPipes
      BY <1>9, <3>1
    <3>. QED  BY <1>4, <1>5, <2>2, <3>2 DEF Holds
  <2>. QED  BY <2>1, <2>2
<1>13. \A k \in Pipes : Holds(fdtab'[p], ReadEnd(k)) => k \in UnusedPipes
  BY <1>4, <1>5 DEF Holds
<1>14. OneReader'
  <2>. SUFFICES ASSUME NEW r \in Procs, NEW q \in Procs, NEW k \in Pipes,
                       Holds(fdtab'[r], ReadEnd(k)), Holds(fdtab'[q], ReadEnd(k))
                PROVE  r = q
    BY DEF OneReader
  <2>1. CASE r = p \/ q = p
    BY <1>5, <1>9, <1>13, <2>1 DEF HoldsEnd
  <2>2. CASE r # p /\ q # p
    BY <1>1, <1>5, <2>2 DEF OneReader
  <2>. QED  BY <2>1, <2>2
<1>15. Neighbours'
  <2>. SUFFICES ASSUME NEW r \in Procs, NEW w \in Procs, NEW k \in Pipes,
                       Holds(fdtab'[r], ReadEnd(k)), Holds(fdtab'[w], WriteEnd(k))
                PROVE  \/ r = w /\ pstate'[r] = "forked"
                       \/ r # w /\ job'[w].stage = job'[r].stage - 1
    BY DEF Neighbours
  <2>1. CASE r = p
    <3>1. w = p
      BY <1>5, <1>9, <1>13, <2>1 DEF HoldsEnd
    <3>. QED  BY <1>5, <2>1, <3>1
  <2>2. CASE r # p /\ w = p
    <3>1. Holds(fdtab[r], ReadEnd(k))
      BY <1>5, <2>2
    <3>2. PICK fd \in Fd : tab[fd] = WriteEnd(k)
      BY <1>5, <2>2 DEF Holds
    <3>3. shfd[fd] = WriteEnd(k)
      BY <1>4, <1>9, <3>1, <3>2 DEF HoldsEnd
    <3>4. job[r].stage = Len(stack) + 1
      BY <1>1, <3>1, <3>3 DEF ShellEnds
    <3>. QED  BY <1>5, <1>7, <2>2, <3>4
  <2>3. CASE r # p /\ w # p
    BY <1>1, <1>5, <2>3 DEF Neighbours
  <2>. QED  BY <2>1, <2>2, <2>3
<1>. QED  BY <1>10, <1>11, <1>12, <1>14, <1>15

LEMMA PipeSkip ==
    ASSUME PipeInv, ~leaked', mode = "invoke", NEW pfd \in Piping, SkipStage(pfd)
    PROVE  ShellEnds' /\ EndedEnds' /\ ForkedEnds' /\ OneReader' /\ Neighbours'
<1>1. ~leaked /\ ~(Source(pfd) > STDOUT_FILENO) /\ ~(Top.dstfd > STDOUT_FILENO)
      /\ shfd' = pfd.tab /\ UNCHANGED procVars
  BY DEF SkipStage
<1>2. /\ LineInv /\ TypeOK /\ Calls /\ ShellLow
      /\ ShellEnds /\ EndedEnds /\ ForkedEnds /\ OneReader /\ Neighbours
  BY <1>1 DEF PipeInv, FdInv, LineInv
<1>3. \A fd \in Fd : fd > 2 => fd > STDOUT_FILENO
  BY DEF Fd, STDOUT_FILENO
<1>4. \A fd \in Fd, k \in Pipes : pfd.tab[fd] # ReadEnd(k)
  BY <1>1, <1>2, <1>3, StageEnds
<1>5. \A fd \in Fd, k \in Pipes : shfd[fd] # WriteEnd(k)
  BY <1>1, <1>2, <1>3 DEF ShellEnds
<1>6. \A fd \in Fd, k \in Pipes : pfd.tab[fd] # WriteEnd(k)
  BY <1>2, <1>4, <1>5, StageEnds DEF Holds
<1>7. ShellEnds'
  BY <1>1, <1>4, <1>6 DEF ShellEnds
<1>. QED  BY <1>1, <1>2, <1>7 DEF EndedEnds, ForkedEnds, OneReader, Neighbours, Live, procVars

LEMMA PipeStage == ASSUME PipeInv, Stage PROVE PipeInv'
<1>1. FdInv' /\ mode = "invoke"
  BY FdStage DEF PipeInv, Stage
<1>2. PICK pfd \in Piping : SkipStage(pfd) \/ \E p \in Procs : ForkStage(pfd, p)
  BY DEF Stage
<1>3. CASE SkipStage(pfd)
  BY <1>1, <1>3, PipeSkip DEF PipeInv
<1>4. ASSUME NEW p \in Procs, ForkStage(pfd, p) PROVE PipeInv'
  <2>1. UNCHANGED leaked
    BY <1>4 DEF ForkStage
  <2>. QED  BY <1>1, <1>4, <2>1, PipeFork DEF PipeInv
<1>. QED  BY <1>2, <1>3, <1>4

LEMMA PipeNext == PipeInv /\ [Next]_vars => PipeInv'
<1>. SUFFICES ASSUME PipeInv, [Next]_vars PROVE PipeInv'
  OBVIOUS
<1>1. CASE UNCHANGED vars
  <2>1. FdInv'
    BY <1>1, FdNext DEF PipeInv
  <2>. QED
    BY <1>1, <2>1 DEF PipeInv, ShellEnds, EndedEnds, ForkedEnds, OneReader, Neighbours, Live, Top, vars
<1>. QED  BY <1>1, PipeRead, PipeStage, PipeProcess, PipeFdCheck DEF Next

(* However long the pipelines, and whichever stages have ended, fail in exec *)
(* or are interrupted: a stage that reads a pipe sees the end of its input   *)
(* when the stage on its left has ended, since nobody else has a write end.  *)
THEOREM PipeEndsCorrect == Spec => []PipeEnds
<1>1. PipeInv => PipeEnds
  <2>. SUFFICES ASSUME PipeInv, ~leaked, mode # "invoke", NEW k \in Pipes,
                       NEW p \in Procs, NEW q \in Procs
                PROVE  /\ Holds(fdtab[p], ReadEnd(k)) /\ Holds(fdtab[q], ReadEnd(k)) => p = q
                       /\ Holds(fdtab[p], ReadEnd(k)) /\ Holds(fdtab[q], WriteEnd(k)) =>
                             \/ p = q /\ pstate[p] = "forked"
                             \/ p # q /\ job[q].stage = job[p].stage - 1
                       /\ ~Holds(shfd, ReadEnd(k)) /\ ~Holds(shfd, WriteEnd(k))
    BY DEF PipeEnds
  <2>1. ShellEnds /\ OneReader /\ Neighbours
    BY DEF PipeInv
  <2>2. ~Holds(shfd, ReadEnd(k)) /\ ~Holds(shfd, WriteEnd(k))
    BY <2>1 DEF ShellEnds, Holds
  <2>. QED  BY <2>1, <2>2 DEF OneReader, Neighbours
<1>. QED  BY <1>1, PipeInit, PipeNext, PTL DEF Spec

=============================================================================
