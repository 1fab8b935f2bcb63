# A TLA+ model of unix_study

The repository holds small Unix programs, one per subject of a book on Unix
programming: processes, pipes, FIFOs, threads, sockets, terminals. The programs
that keep state over several steps, or let several processes work together, are
modelled here; the ones that print what one system call says are not.

## 1. The system

| Component | Source | State | Operations | What is hard |
|---|---|---|---|---|
| Pipeline shell | `communication/shell.c` | the line being read (a stack of calls of `command()`), descriptors, the children and theirs | read a token, start a stage, wait, check the descriptors; in the child: redirect, check, exec | who holds which pipe end after which `fork()`; a stage that makes no child; `waitpid(-1)` that returns any child; background jobs on the terminal |
| Tokens | `communication/shell.c` (`gettoken`) | state of the scanner, the word buffer | read a character, put it back | the buffer's limit, where a token ends, the end of the input |
| Thread queue | `process/mut.c` | a list, a mutex, a condition, two threads | push and signal; wait, pop, free; cancel and join | lost and spurious wake-ups, cancellation at any point, an argument of the cleanup handler that is not set |
| Message interface | `ad_comm/smi_server.c`, `smi.h` | the server's FIFO, its table of clients, one FIFO per client | open, send, receive, close, on either side | opens that wait for each other, clients that are killed, pids used again, a full table, full FIFOs |
| FIFO server and client | `ad_comm/fifo_app*.c` | one FIFO, each program's loop | make, open, write, read, answer | either may start first; the end of all the clients is no end of the input |
| Command interpreter | `process/cl.c` | the lines left, a chain of interpreters each waiting for the next | read a line, fork, exec, wait | an `execvp()` that fails makes a second interpreter; a line without a newline |
| Pipe programs | `communication/who_count.c`, `pipe.c`, `pread.c`, `fsort.c` | up to four processes, one or two pipes | fork, dup2, close, exec, copy | `fork()` or `exec` that fails and goes on in code meant for another process |
| Socket program | `socket/basic.c` | a name, a listening socket, a connection | unlink, fork, connect again, bind, listen, accept, ask, answer | the order of client and server; a second pair that takes the name |
| Process endings | `process/pc.c` | three children, one after another | fork, wait for any, kill | whose status is shown; `kill()` of a pid that is -1 |
| Status display | `communication/display.c`, `process/display.c` | none | print | no state; not modelled |
| Library of the book | `common/*`, `process/ec.*` | a list of errors | push, print | third-party; not modelled |
| Binary of `fsort` | `communication/s.c` | none | none | no C in spite of its name, but an executable built from `fsort.c`; not modelled |
| Exercises that print | `fundamental_ex/*`, `advanced_io/*`, `terminal/*`, `basic_io/lock.c`, `process/env.c`, `signal/fork_test.c` | none | print | no state, or not finished; not modelled |

The programs do not call each other. The shell and its children share
descriptors and pipes, the FIFO programs share FIFOs and names in a directory,
the threads share a list. `PROJECT.json` lists the hazards at their lines.

## 2. The modules

| Module | Of | What it holds |
|---|---|---|
| `PosixFd` | the kernel (external) | descriptor tables: `pipe`, `dup2`, `close` as the programs use them |
| `Shell` | `shell.c` | `Read` (tokens into frames of `command()`), `Stage` (one call of `invoke()`), `Wait`, `FdCheck`; `Exec`, `Finish`, `Interrupt` for the children |
| `MCShell` | | words and commands for TLC, and the symmetry of processes and pipes |
| `JobControl` | `shell.c` | what the shell promises: one job per line, and a prompt when it has ended |
| `ShellProofs`, `DescriptorProofs` | | theorems about `Shell`: its types and waits, and that it implements `JobControl`; its descriptors, what a child reads from and who holds the ends of a pipe |
| `Lexer` | `shell.c` | `gettoken()`, one action per state, and what the tokens of an input are |
| `LexerProofs` | | that no input overflows the buffer of a word, and that the tokens are those of the definition |
| `ThreadQueue` | `mut.c` | one action per step between two lock operations of either thread |
| `Handoff` | `mut.c` | what the queue promises: numbers are handed over, each once |
| `ThreadQueueProofs` | | theorems about `ThreadQueue`, and that it implements `Handoff` |
| `Smi` | `smi_server.c` | the server's loop and a client per pid, each call that may wait a step of its own |
| `Exchange` | `smi.h` | what the interface promises: questions taken in turn, each answered at most once, under its pid |
| `SmiProofs` | | theorems about `Smi`, and that it implements `Exchange` |
| `Fifo` | `fifo_app.c`, `fifo_app_client.c` | both programs |
| `FifoProofs` | | theorems about `Fifo` |
| `Cl` | `cl.c` | a stack of processes, each waiting for the one above |
| `ClProofs` | | theorems about `Cl` |
| `ProgramText` | `who_count.c`, `fsort.c`, `pipe.c`, `pc.c`, `basic.c` | each program as its calls, in order |
| `Calls` | the kernel and `pread.c` | what a call does to processes, pipes and descriptors, over `PosixFd` |
| `Sockets` | `basic.c` | the name, the listening sockets and the connections |
| `Programs` | | the programs started by a user, and their properties |
| `ProgramsProofs` | | theorems about `Programs`, one invariant per program |

How the state corresponds to the code, where it is not by name:

* **Shell.** `stack` is the C stack: a frame holds `argc`, `srcfd`, `dstfd`,
  `makepipe` and whether the frame waits for the call a `|` made. The recursion
  returns from the innermost frame, so the last stage of a line is started
  first; `mode = "invoke"` is that return. A process is a slot of `Procs`;
  `job[p]` is what `invoke()` was given and `fdtab[p]` what it inherited. `argv`
  is its first word and its length. `T_SEMI` and `T_NL` end a line alike, and
  `T_GT` and `T_GTGT` differ only in the flags of an `open()`. A variable of C
  that is dead (a process' job after it was reaped, `wpid` after the wait) is
  given its first value again. `leaked` is a history variable: a stage returned
  from `invoke()` before the `close()` calls with a pipe end in hand.
* **ThreadQueue.** A list of numbers; a node's number is its identity. `printf()`
  may be a cancellation point, as the standard allows. The cleanup handler is
  given the value `p` has before it is set, so that its `free()` does nothing or
  ends the process: `Cleanup` chooses.
* **Smi.** A client is a pair of a pid and a count of the runs under that pid, and
  its FIFO has its name. `slots` is `sq_clients`; the 0 of `calloc()` is `NoPid`.
  There is no client program in the repository: a client calls `smi_open()`, then
  sends and receives any number of times, then closes, and can be killed anywhere.
  The server's `open()` of a client's FIFO is two steps: `ServerLookup` finds the FIFO
  that is at its path then (`opening`), and `ServerOpenClient` returns once that one
  has, or has had, a reader (`found`). It is not looked up again: if a later client of the
  same pid unlinks it and makes another, the server goes on waiting for the old one.
* **Cl.** A line is one of eight kinds, by what `getargs()` and `main()` do with it.
  All assignments are to one variable, and a process' environment is the line that
  assigned it last. Input from a file is taken to fit the buffer of stdio.
* **Programs.** A process is a record: `pc` is its place in its program's calls,
  `reg` its local variables, `tab` its descriptors. The successor of a `fork()` is
  part of the program, for the parent and for a failure; the child, and a process
  whose `execlp()` failed, go on with the next call. A loop that copies until
  `read()` returns 0 is one step, which is not possible for a descriptor that is not
  open. `net` holds the sockets: a connection is known by its two processes.
  `happened` is a history of the calls that failed.

The abstract specifications see only part of that. `JobControl` sees a job in the last
stage of a line (`Unreaped`) and four phases (`Phase`): while the shell reads, starts
stages, waits or checks, and when it is over. `Exchange` sees the questions that are
in the server's hand or in its FIFO, and what lies in the FIFOs of the clients; the
table of descriptors, the opens and the second `clients_find()` are inside.
`Handoff` sees numbers made, waiting and taken.

The kernel is modelled where the code relies on it: the lowest free descriptor,
`EBADF` without effect, an end of input once nobody holds the write end, `open()` of
a FIFO that waits for the other side, `SIGPIPE`, a FIFO that is full.

## 3. What the runs check

| Run | Bounds | Question |
|---|---|---|
| `shell_pipeline` | 3 processes, 2 pipes, 3 stages, descriptors 0-6 | who is waited for, who holds a pipe end, does the descriptor check of a child pass, is it a `JobControl` |
| `shell_redirect` | 2 processes, 1 pipe, 2 stages, files that may be missing | does a background job read the terminal |
| `shell_live` | 2 processes, 1 pipe, 2 stages, fairness | does every line end |
| `shell_fdcheck` | as before | violated: the shell's own `fd_check()` |
| `threads` | 4 nodes, fairness | where are the nodes, is a wake-up lost, does `pthread_join()` return, is it a `Handoff` |
| `smi` | 2 pids used twice, 1 slot, FIFOs of 2, 2 messages each, fairness | who gets the slot and keeps it, is it an `Exchange`, does a client come to its end |
| `smi_over` | 2 clients, 1 slot | violated: the client over capacity is blocked |
| `fifo` | 2 clients, 3 words, FIFO of 2, fairness | do the words arrive, each once and in order, does the server stay |
| `lexer` | inputs of 0 to 6 of 7 characters, a buffer of 3 | the tokens against their definition |
| `cl` | inputs of 0 to 4 lines, terminal and file, fairness | how often is a line carried out and with what environment, do all interpreters end |
| `cl_eat` | inputs of 0 to 2 lines, fairness | violated: the rest of a line is eaten |
| `programs` | 4 processes, 2 pipes, descriptors 0-7, one or two socket pairs, fairness | what are the commands connected to, does "hello" arrive, who is answered by whom, whose status is shown, is any child left unwaited for, does every process end, whatever calls fail |

Why the bounds are enough to be of use. Three stages have a first, a middle and a
last one, and two pipes at once, and after a line another one is read while
stages of the first still run. Two pids and one slot fill the table and
leave one client out. A pid that is used twice can find a FIFO, a slot, a
message and an answer of the run before it. Six characters hold a quoted word
longer than the buffer and an escaped quote followed by another token. Four lines
hold two commands that cannot be executed with one line behind each. Four
processes are all that `who_count` can make: the program, its child for `ls`, and a
child for `wc` of each of the two when the exec of `ls` fails; they are also two pairs
of `basic.c`, enough for each side of one to meet either side of the other.
`MaxDepth`, `MaxRuns`, `MaxSends`, `MaxInput` and `MaxLines` are bounds of the
model; `MaxArg`, `MaxClients`, `MaxWord` and the capacities stand for constants
of the code or the kernel, made small so that they are reached.

`CHECK_DEADLOCK FALSE` stands in every run, since every program may stop: the
user types nothing more, the clients have ended, the threads are joined. What
must not stop is stated as a liveness property.

### Disagreements found

* `shell_fdcheck`: `invoke()` returns for a builtin, for a stage without words and
  when `fork()` fails before the two `close()` calls, so `ls | set` leaves a pipe
  end open in the shell, whose `fd_check()` then ends it. The other way round
  (`set | wc`) the write end stays open and `wc` never sees its input end.
* `smi_over`: the comment says that a client over capacity is blocked. It reads
  from a descriptor that is open for writing only, fails at once, and goes on with
  its own message as the answer.
* `cl_eat`: a last line without a newline makes the loop "eat up rest of line" spin
  on `EOF`.

Other facts the models contain and no text of the repository contradicts: an answer
of the message server can reach a later client with the same pid (so
`Exchange` speaks of pids); a client that ended before its answer ends the server
with a `SIGPIPE`; one that was killed before the server opened its FIFO leaves the server in
`open()`, and a later client of the same pid does not free it, since it makes a FIFO of
its own; nobody makes the FIFOs that `fifo_app` answers to, so the client
prints its own words; the list of `mut.c` is a stack; a word that fills the buffer
comes back from `gettoken()` without a NUL; the end of the input is `T_ERROR` and a
read error `T_EOF`; and an input file with an unknown command is carried out twice
from there on by `cl.c`; `fsort` loops for ever without its data file; when the
third `fork()` of `pc.c` fails, `kill(-1)` is for every process of the user; and with two
pairs of `basic.c` in one directory a server can wait for ever behind a name that is gone.

### Fairness

Weak fairness stands for the kernel running every process and for programs that
end once their input has ended. The user, the signals, a cancellation, a kill and
a spurious wake-up have none. In `ThreadQueue` taking the mutex is strongly fair
for `main()`: the thread releases it again and again, and `main()` sleeps between
two pushes. In `Fifo` the server is started at some time; in `Smi` it need not be.
`ClientsEnd` of `Smi` names the states the server can be stuck in, which the
code has, and says that there are no others with these bounds: it was not started or
has ended; it waits in `open()` for a reader of a FIFO whose client has gone, and either no
client of that pid is there or a later one is, with another FIFO; it waits in
`write()` for room in a FIFO that no client can read. `AllEnd` of `Programs` does the
same.
In `Programs` the end of the thousand seconds that a child of `pc.c` sleeps is not
fair: `main()` may be slower, but nothing may depend on it.

## 4. What is proved

TLAPS checks these for every value of the constants, from the assumptions named in
the modules (finiteness is not among them).

* `ShellProofs!TypeCorrect`: `TypeOK` is inductive by itself; one lemma per
  action, and lemmas about the last element of a sequence, descriptor tables and
  `redirect()`.
* `ShellProofs!WaitTargetCorrect` and `PromptCorrect`: that the shell waits for an
  unreaped last stage of its line, and reads on only when it was reaped. The
  invariant is `LineInv`: besides the types, `BarShape` (all frames but the
  innermost have seen a `|`), `TargetKnown` (once the last stage was tried, `wpid`
  is its process or the line has none to wait for) and `OnlyTarget` (no other
  unreaped last stage is in the foreground). Neither property is inductive
  alone: which of the stages is last is only known while the calls return.
  `PromptAfterLastStage` has no run: it follows from the refinement of
  `JobControl`, which needs it (`JobControlCorrect` below).
* `ThreadQueueProofs!TypeCorrect`, `NullTakeCorrect`, `WakeupCorrect`,
  `ConservationCorrect`, `ExclusionCorrect`, `Refinement`: the properties of the
  `threads` run, and the refinement of `Handoff`, from `QueueInv`, the conjunction of
  the types, mutual exclusion, the two wake-up properties, conservation, and
  `HandEmpty` (the thread has no node between `free()` and the next take). They support each other: that `head` is not
  NULL when it is taken rests on the mutex, that no node is lost rests on both.

* `DescriptorProofs!NoLeakCorrect` and `ChildCheckCorrect`: that `fd_check()` ends
  neither the shell nor a child, from `FdInv`: `Calls` (of the calls of
  `command()` in progress only the innermost holds the write end of a pipe, and only once
  the call to its right has returned) and `ShellLow` (the shell keeps 0 to 2), and, while
  nothing has leaked, `ShellFds` (that write end is all the shell has open above 2) and
  `ChildFds` (a child inherits above 2 nothing but its `closefd`, `srcfd` and `dstfd`,
  all of which `redirect()` closes). `Calls` is why a pipeline may be of any length: the
  shell never holds the ends of two pipes between two steps.
* `DescriptorProofs!TerminalCorrect`: what a child reads from, by `Sources`: a forked
  process has a source that `redirect()` does not close before it moves it, and that is no
  terminal unless the process is the first of its line. It rests on the unconditional part
  of `FdInv`, so that it holds after a leak too.
* `DescriptorProofs!PipeEndsCorrect`: who holds the two ends of each pipe. `PipeInv` adds to
  `FdInv`, while nothing has leaked: `OneReader` and `Neighbours`, which are the
  property; `ShellEnds` (the write end the shell holds is of a pipe that only the stage
  to the right has had), without which the next `fork()` could give it to a stranger;
  `ForkedEnds` (a child that has both ends of a pipe has the write end as its `closefd`),
  without which it would keep it over `exec`; and `EndedEnds`.
* `ShellProofs!JobControlCorrect`: the shell implements `JobControl`. From
  `LineInv`: a step of a child, or one that reads the line, is a stutter; the step in
  which the last stage returns is `Foreground`, `Background` or `NoJobStarted`; a
  turn of the wait is `Reap`; and that `fg` is empty at the prompt is what
  `OnlyTarget` says.
* `LexerProofs!TypeCorrect`: the buffer of a word never overflows. The invariant is that
  the scanner is inside its input, and that the word, and each text that was returned,
  fit (`Fits`).
* `LexerProofs!ReferenceCorrect`: the tokens are those of the reference, for every
  input. The invariant is `TokInv`: what was returned, followed by what the reference
  finds from the place where the present token began, is all of the reference
  (`Ahead`), and the word so far is the reference's word of the characters so far, cut
  at the size of the buffer (`Quoting`, `Wording`). The reference is the solution
  of a recursive equation, whose values lie behind the place they are for. That there
  is a solution, and that its values are tokens, is proved by the least or greatest place
  where that fails (`Least`, `Greatest`, from `WFMin` of the library, which needs no
  operator as a parameter). The kept characters of a quoted word are counted
  off by a bijection between them and their ranks (`NthRank`, `NthAdd`).
* `SmiProofs!TypeCorrect`, `SlotCorrect`, `SlotsCorrect` and `ExchangeCorrect`, from
  `SmiInv`: the types; `Senders` (what is in the server's FIFO comes from clients, never
  from the zeros of `calloc()`); `OwnWriter` (the server holds its own FIFO open for
  writing, so that `read()` never returns 0); `InHand` (between receive and reply the
  pid in `sq_msg` has a slot, and no descriptor yet when the server is about to open
  one); and `Owners` (the name of a FIFO, the descriptor of a slot and the FIFO that
  `open()` waits for belong to the pid they stand under). `ReplyHasSlot` follows from `InHand`, but is inductive only with
  the lemma that what `clients_find()` finds it finds again. The refinement needs
  `OwnWriter`, or the server would answer a question that is not there, and `Owners`, or
  an answer would go to another pid.
* `SmiProofs!OrderCorrect`, from `OrderInv`: the messages of one pid are in order in all
  the places they can be, the FIFO of the server behind its hand and that behind the
  FIFO of the client (`Ordered`), and all of them were sent before the next one will be
  (`Posted`). The refinement is used: the steps that move a message are those of
  `Exchange`.
* `FifoProofs!TypeCorrect`, `StaysCorrect` and `OrderCorrect`, from `FifoInv`:
  `OwnWriter`, for which `read()` never returns 0 to the server; `InLoop` (where a client
  is and what its counter says); and `WordsInOrder`, inductive with these, by lemmas
  about the places of one client's words in the sequence of all of them.
* `ClProofs!TypeCorrect`, `SkippedCorrect`, `EnvCorrect` and `TimesCorrect`, from
  `ClInv`. `Stacked` says how the interpreters stand on each other: all but the one on
  top wait, none has read further than the one above (`Below`), a child that becomes a
  command has read nothing since the `fork()` (`Children`), and each has the environment of its
  place in the input unless an end of the input came between or it has come to the last one
  (`Sound`). `Progress` and `Fresh` then say of the process on top alone what is done and
  what is still to be done. On a terminal, `TimesCorrect` follows. For a file it needs
  `Shares`: what a line has been carried out, and what every interpreter of the stack may
  still do to it (`Share`), is together no more than the readers there can be, twice as
  many for each unknown command before the line. The sum over the stack is stated as the
  existence of its partial sums (`Total`), and the doubling is that of the subsets of a set
  with one element more (`TwiceTheSubsets`).
* `ProgramsProofs`, over the lemmas `CallsActions` (the next call of a process says which
  action it is) and `Effects` (what each call does to the processes, whatever
  program makes it), so that each invariant is shown over the dozen lines of one program:
  * `ProgramsTypeCorrect`, from `Typed`, the types with the functions and records spelled
    out. That a `pc` stays in its text is what `NextCall` says: only `exit()` ends one.
    `TypeOK` of `Programs` has no run of its own, since no run of a program can leave
    its text.
  * `OwnStatusCorrect` of `pc.c`, from `Children`: only `main()` has children, at most one,
    and none where it forks.
  * `ChildrenReapedCorrect` of `who_count.c` and `fsort.c`, from `Kin`: at every line, each
    child a process has not waited for is in one of the local variables it still will wait
    for (`Yet`). It covers a process that goes on in code meant for another, with -1 or
    0 in the variable.
  * `CommandsWiredCorrect`, from `Wired`: for every line of `who_count.c`, `fsort.c` and
    `pipe.c`, what 0 and 1 and the local variables lead to, and that nothing else above 2
    is open. It covers the processes a failed call sent into code that was meant for another:
    `Astray` is a process whose `execlp()` of `ls` failed, which has closed everything.
  * `HelloArrivesCorrect` of `pipe.c`, from `Hello`: as long as no `fork()` has failed only
    `main()` writes, and who is to read from a pipe finds the word in it or `main()` at the
    call that writes it, with the end it writes to still open.
  * `ConversationCorrect` of `basic.c`. `Connected` holds for any number of pairs: who is
    in whose queue, that a server's peer has the server as its own, and that a server
    answers only after it printed "Hello!". `Pair` is for one pair alone: how far each of
    the two has come tells what the other has done (`Main`, `Partner`), so that neither
    finds the other end gone before it has been answered.

Checked by TLC only: liveness (`WaitEnds`, `PipelinesDrain`, `JoinReturns`, `ClientsEnd`,
`WordsArrive`, `AllEnd`), which is out of the prover's reach. Every invariant and every
action property that a run finds true is a theorem too. The inductive
invariants of `ProgramsProofs` were checked by TLC with the bounds of the `programs` run
before they were proved.

## 5. What is left out

* `cd`, `set` and assignments of the shell are steps without effect: nothing else in
  `shell.c` reads the environment or the directory before an exec. `asg()` of `cl.c`,
  which is the same function, is modelled with its effect in `Cl`. This is why the shell
  counts as partly modelled.
* In `Programs` the first `pipe()` calls and `socket()` are taken to succeed; in the
  other modules `pipe()` can fail.
* `malloc()`, `pthread_create()` and the mutex calls are taken to succeed; elsewhere
  `fork()`, `open()` and the exec calls can fail wherever they are made.
* A pipe's contents: a stage drains when its reader is there, see `OutputDrains`. Of
  what the small programs write only "hello", and who wrote to a socket, is kept.
* Functions that no `main()` calls: `execute()` and `execute2()` of `cl.c`,
  `check_buffer_size()`, `pipetest()` and `test()` of `pipe.c`, `test_gettoken()`.
* `common/*` and `process/ec.*`: the error list, log and option parser of the book,
  which only `basic_io/lock.c` includes.
  `advanced_io/link.c` prints what `stat()` returns, `basic_io/lock.c` makes a path
  and returns, `terminal/*`, `fundamental_ex/*`, `env.c`, `fork_test.c` read or print
  and keep nothing between two steps. There is no behaviour in them for a state machine.

## 6. Plan

1. Done: the shell and its descriptors, the scanner, the thread queue, the two FIFO
   systems, `cl.c` and the small programs; an abstract specification and a refinement
   for the shell, the queue and the message interface, all three proved.
2. Done: the invariants of all modules proved for every value of the constants. To come:
   an abstract specification of the FIFO server and of the small programs, where
   more than their invariants is worth a refinement.
3. Then: the environment and the directory in `Shell`, where a stage's builtin acts
   before the stages on its left are forked and after those on its right.
