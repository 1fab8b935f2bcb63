------------------------------- MODULE PosixFd -------------------------------
(****************************************************************************)
(* The descriptor table of a process, as the programs of this repository    *)
(* use it: pipe, dup2, close, open and fork work on such tables.  The       *)
(* kernel is not part of the repository, so this module is external: it     *)
(* models what the callers in src/ rely on.                                 *)
(*                                                                          *)
(* A table is a function from descriptors to open files.  A file is a pair  *)
(* <<kind, pipe>>; only the two ends of a pipe have a pipe.                 *)
(****************************************************************************)
EXTENDS Integers, FiniteSets

CONSTANTS Pipes,     \* the pipes the kernel can hand out
          NoPipe,    \* stands in a file that is not an end of a pipe
          MaxFd      \* the largest descriptor number of a table

ASSUME PipesAssumption == NoPipe \notin Pipes
ASSUME MaxFdAssumption == MaxFd \in Nat /\ MaxFd >= 3

STDIN_FILENO  == 0
STDOUT_FILENO == 1
NoFd   == -1
Fd     == 0 .. MaxFd

Closed == <<"closed", NoPipe>>
Tty    == <<"tty",    NoPipe>>      \* the terminal the programs are started on
Null   == <<"null",   NoPipe>>      \* /dev/null
Disk   == <<"disk",   NoPipe>>      \* a file named on the command line
ReadEnd(k)  == <<"r", k>>
WriteEnd(k) == <<"w", k>>

File == {Closed, Tty, Null, Disk} \cup ({"r", "w"} \X Pipes)
Table == [Fd -> File]

AllClosed == [fd \in Fd |-> Closed]
IsOpen(tab, fd) == fd \in Fd /\ tab[fd] # Closed
Holds(tab, file) == \E fd \in Fd : tab[fd] = file

(* The kernel hands out the lowest descriptor that is closed. *)
IsLowestFree(tab, fd) ==
    /\ tab[fd] = Closed
    /\ \A lower \in 0 .. fd - 1 : tab[lower] # Closed

(* close(fd): EBADF, and no effect, on a descriptor that is not open. *)
CloseFd(tab, fd) == [f \in Fd |-> IF f = fd THEN Closed ELSE tab[f]]

(* dup2(from, to): EBADF, and no effect, when `from' is not open. *)
Dup2(tab, from, to) ==
    [f \in Fd |-> IF f = to /\ IsOpen(tab, from) THEN tab[from] ELSE tab[f]]

(* "dup2(from, to); if (from != to) close(from)" *)
MoveFd(tab, from, to) ==
    IF from = to THEN Dup2(tab, from, to) ELSE CloseFd(Dup2(tab, from, to), from)

(* What pipe(pfd) can do to a table: fail and leave pfd and the table alone, *)
(* or put the two ends of an unused pipe on the two lowest descriptors.      *)
PipeFails(tab) == [rd |-> NoFd, wr |-> NoFd, tab |-> tab]
PipeMade(tab, rd, wr, k) ==
    [rd |-> rd, wr |-> wr,
     tab |-> [tab EXCEPT ![rd] = ReadEnd(k), ![wr] = WriteEnd(k)]]
PipeResults(tab, unused) ==
    {PipeFails(tab)} \cup
    {PipeMade(tab, pair[1], pair[2], k) :
        pair \in {rw \in Fd \X Fd :
                    /\ IsLowestFree(tab, rw[1])
                    /\ rw[1] < rw[2]
                    /\ tab[rw[2]] = Closed
                    /\ \A between \in rw[1] + 1 .. rw[2] - 1 : tab[between] # Closed},
        k \in unused}

=============================================================================
