---------------------------- MODULE ProgramsProofs ----------------------------
(****************************************************************************)
(* Theorems about the small programs, for any number of processes, pipes and *)
(* descriptors.                                                              *)
(****************************************************************************)
EXTENDS Programs, SequenceTheorems, TLAPS

-----------------------------------------------------------------------------
(* The texts *)

LEMMA WhoCountText ==
    ASSUME prog = "who_count"
    PROVE  /\ DOMAIN Code = 1 .. 16
           /\ Code[1] = Pipe("pfd0", "pfd1") /\ Code[2] = Fork("pid1", 7, 3)
           /\ Code[3] = Dup("pfd1", STDOUT_FILENO) /\ Code[4] = Close("pfd1") /\ Code[5] = Close("pfd0")
           /\ Code[6] = Execlp("ls") /\ Code[7] = Fork("pid2", 12, 8)
           /\ Code[8] = Dup("pfd0", STDIN_FILENO) /\ Code[9] = Close("pfd1") /\ Code[10] = Close("pfd0")
           /\ Code[11] = Execlp("wc") /\ Code[12] = Close("pfd0") /\ Code[13] = Close("pfd1")
           /\ Code[14] = Wait("pid1") /\ Code[15] = Wait("pid2") /\ Code[16] = Exit
<1>1. Code = WhoCount
  BY DEF Code, Text
<1>. QED  BY <1>1 DEF WhoCount

LEMMA FSortText ==
    ASSUME prog = "fsort"
    PROVE  /\ DOMAIN Code = 1 .. 20
           /\ Code[1] = Pipe("pfd0", "pfd1") /\ Code[2] = Pipe("in0", "in1") /\ Code[3] = Fork("pid1", 11, 11)
           /\ Code[4] = Dup("pfd0", STDIN_FILENO) /\ Code[5] = Close("pfd0") /\ Code[6] = Close("pfd1")
           /\ Code[7] = Dup("in1", STDOUT_FILENO) /\ Code[8] = Close("in0") /\ Code[9] = Close("in1")
           /\ Code[10] = Execlp("sort") /\ Code[11] = Close("pfd0") /\ Code[12] = Close("in1")
           /\ Code[13] = Open("fd") /\ Code[14] = Feed("fd", "pfd1") /\ Code[15] = Close("fd")
           /\ Code[16] = Close("pfd1") /\ Code[17] = Drain("in0") /\ Code[18] = Close("in0")
           /\ Code[19] = Wait("pid1") /\ Code[20] = Exit
<1>1. Code = FSort
  BY DEF Code, Text
<1>. QED  BY <1>1 DEF FSort

LEMMA PipeText ==
    ASSUME prog = "pipe"
    PROVE  /\ DOMAIN Code = 1 .. 7
           /\ Code[1] = Pipe("pfd0", "pfd1") /\ Code[2] = Fork("tmp", 5, 3)
           /\ Code[3] = Close("pfd1") /\ Code[4] = Execlp("pread")
           /\ Code[5] = Close("pfd0") /\ Code[6] = Write("pfd1") /\ Code[7] = Exit
<1>1. Code = PipeWrite
  BY DEF Code, Text
<1>. QED  BY <1>1 DEF PipeWrite

LEMMA PcText ==
    ASSUME prog = "pc"
    PROVE  /\ DOMAIN Code = 1 .. 13
           /\ Code[1] = Fork("tmp", 3, 3) /\ Code[2] = Exit /\ Code[3] = WaitAll
           /\ Code[4] = Fork("tmp", 7, 7) /\ Code[5] = Divide /\ Code[6] = Exit /\ Code[7] = WaitAll
           /\ Code[8] = Fork("pid1", 11, 11) /\ Code[9] = Sleep /\ Code[10] = Exit
           /\ Code[11] = Kill("pid1") /\ Code[12] = WaitAll /\ Code[13] = Exit
<1>1. Code = Pc
  BY DEF Code, Text
<1>. QED  BY <1>1 DEF Pc

LEMMA BasicText ==
    ASSUME prog = "basic"
    PROVE  /\ DOMAIN Code = 1 .. 15
           /\ Code[1] = Unlink /\ Code[2] = Fork("tmp", 8, 8)
           /\ Code[3] = Connect /\ Code[4] = Send /\ Code[5] = Receive /\ Code[6] = HangUp("fd_skt")
           /\ Code[7] = Exit /\ Code[8] = Bind /\ Code[9] = Listen /\ Code[10] = Accept
           /\ Code[11] = Receive /\ Code[12] = Send /\ Code[13] = HangUp("fd_skt")
           /\ Code[14] = HangUp("fd_client") /\ Code[15] = Exit
<1>1. Code = Greeting
  BY DEF Code, Text
<1>. QED  BY <1>1 DEF Greeting

Calling == {"fork", "exec", "exit", "wait", "kill", "divide", "sleep", "pipe", "dup2", "close",
            "open", "write", "feed", "drain", "unlink", "connect", "bind", "listen", "accept",
            "send", "receive", "hangup"}

(* Where a call goes on there is another one: only exit() ends a text. *)
LEMMA NextCall ==
    ASSUME prog \in DOMAIN Text
    PROVE  /\ DOMAIN Code \subseteq Nat /\ 1 \in DOMAIN Code
           /\ \A i \in DOMAIN Code :
                /\ Code[i].op \in Calling
                /\ Code[i].op # "exit" => i + 1 \in DOMAIN Code
                /\ Code[i].op = "fork" => Code[i].parent \in DOMAIN Code /\ Code[i].failed \in DOMAIN Code
                /\ Code[i].op = "exec" => Code[i].cmd \in {"ls", "wc", "sort", "pread"}
<1>. USE DEF Pipe, Fork, Dup, Close, Execlp, Wait, WaitAll, Exit, Open, Feed, Drain, Write, Divide,
             Sleep, Kill, Unlink, Connect, Send, Receive, HangUp, Bind, Listen, Accept, Calling
<1>1. CASE prog = "who_count"
  <2>1. \A i \in 1 .. 16 : \/ i = 1 \/ i = 2 \/ i = 3 \/ i = 4 \/ i = 5 \/ i = 6 \/ i = 7 \/ i = 8
                           \/ i = 9 \/ i = 10 \/ i = 11 \/ i = 12 \/ i = 13 \/ i = 14 \/ i = 15 \/ i = 16
    OBVIOUS
  <2>. QED  BY <1>1, <2>1, WhoCountText
<1>2. CASE prog = "fsort"
  <2>1. \A i \in 1 .. 20 : \/ i = 1 \/ i = 2 \/ i = 3 \/ i = 4 \/ i = 5 \/ i = 6 \/ i = 7 \/ i = 8
                           \/ i = 9 \/ i = 10 \/ i = 11 \/ i = 12 \/ i = 13 \/ i = 14 \/ i = 15 \/ i = 16
                           \/ i = 17 \/ i = 18 \/ i = 19 \/ i = 20
    OBVIOUS
  <2>. QED  BY <1>2, <2>1, FSortText
<1>3. CASE prog = "pipe"
  BY <1>3, PipeText
<1>4. CASE prog = "pc"
  BY <1>4, PcText
<1>5. CASE prog = "basic"
  BY <1>5, BasicText
<1>. QED  BY <1>1, <1>2, <1>3, <1>4, <1>5 DEF Text

-----------------------------------------------------------------------------
(* The inductive invariants *)

(* The types, with the records and functions that TypeOK leaves open. *)
Record == [life   : {"unused", "code", "command", "zombie", "reaped"},
           pc     : Nat,
           tab    : Table,
           parent : 0 .. MaxProcs,
           cmd    : {"none", "ls", "wc", "sort", "pread"},
           reg    : [Register -> Fd \cup Procs \cup {NoFd}]]
NetState == [name   : 0 .. MaxProcs,
             socket : [Procs -> {"new", "named", "listening", "closed"}],
             queue  : [Procs -> Seq(Procs)],
             peer   : [Procs -> 0 .. MaxProcs],
             open   : SUBSET Procs,
             sent   : SUBSET Procs,
             shown  : [Procs -> {"none", "nothing", "Hello!", "Goodbye!"}]]
Typed ==
    /\ prog \in DOMAIN Text
    /\ proc \in [Procs -> Record]
    /\ \A p \in Procs : proc[p].pc \in DOMAIN Code
    /\ filled \in SUBSET Pipes
    /\ happened \in SUBSET {"fork", "exec", "open", "eof"}
    /\ net \in NetState

Runs(p) == proc[p].life = "code"

(* pc.c: only main() forks, and it has a child only between that call and    *)
(* the next waitid().                                                        *)
Sole == \A q, r \in Procs : ChildOf(1, q) /\ ChildOf(1, r) => q = r
Children ==
    prog = "pc" =>
        /\ \A p \in Procs : proc[p].life # "command" /\ proc[p].parent \in {0, 1}
        /\ proc[1].parent = 0
        /\ \A p \in Procs : Runs(p) /\ p # 1 => proc[p].pc \in {2, 5, 6, 9, 10}
        /\ Sole
        /\ Runs(1) => /\ proc[1].pc \in {1, 3, 4, 7, 8, 11, 12, 13}
                      /\ proc[1].pc \in {1, 4, 8, 13} => \A q \in Procs : ~ChildOf(1, q)

(* The descriptors above the terminal's three, and what is behind the others *)
(* and behind those in the local variables.                                  *)
High(p) == {fd \in 3 .. MaxFd : proc[p].tab[fd] # Closed}
Reg(p, v) == proc[p].reg[v]
Lies(p, v, file) == Reg(p, v) \in 3 .. MaxFd /\ proc[p].tab[Reg(p, v)] = file
LowOpen(p) == \A fd \in 0 .. 2 : proc[p].tab[fd] # Closed
Gets(p) == \E k \in Pipes : Input(p) = ReadEnd(k)
Puts(p) == \E k \in Pipes : Output(p) = WriteEnd(k)
HasPipe(p) == \E k \in Pipes : Lies(p, "pfd0", ReadEnd(k)) /\ Lies(p, "pfd1", WriteEnd(k))
OnlyHigh(p, V) == High(p) \subseteq {Reg(p, v) : v \in V}
Above(p, V) == \A v \in V : Reg(p, v) \notin 0 .. 2

(* who_count.c, on the way to ls, and to wc: what execlp() of ls fails in    *)
(* has closed the pipe and goes on as if it were main().                     *)
Astray(p) == "exec" \in happened /\ High(p) = {}
WhoCountAt(p) ==
    LET pc == proc[p].pc
    IN  /\ Runs(p) =>
             /\ pc = 1 => LowOpen(p) /\ Output(p) = Tty /\ High(p) = {}
             /\ pc >= 2 => Above(p, {"pfd0", "pfd1"})
             /\ pc \in {2, 3} => HasPipe(p) /\ OnlyHigh(p, {"pfd0", "pfd1"})
             /\ pc = 2 => Output(p) = Tty
             /\ pc = 4 => Puts(p) /\ OnlyHigh(p, {"pfd0", "pfd1"})
             /\ pc = 5 => Puts(p) /\ OnlyHigh(p, {"pfd0"})
             /\ pc = 6 => Puts(p) /\ High(p) = {}
             /\ pc \in {7, 8} => \/ Astray(p)
                                 \/ HasPipe(p) /\ OnlyHigh(p, {"pfd0", "pfd1"}) /\ Output(p) = Tty
             /\ pc = 9 => Astray(p) \/ (Gets(p) /\ Output(p) = Tty /\ OnlyHigh(p, {"pfd0", "pfd1"}))
             /\ pc = 10 => Astray(p) \/ (Gets(p) /\ Output(p) = Tty /\ OnlyHigh(p, {"pfd0"}))
             /\ pc = 11 => Astray(p) \/ (Gets(p) /\ Output(p) = Tty /\ High(p) = {})
        /\ proc[p].life = "command" =>
             /\ High(p) = {}
             /\ \/ proc[p].cmd = "ls" /\ Puts(p)
                \/ proc[p].cmd = "wc" /\ ("exec" \in happened \/ (Gets(p) /\ Output(p) = Tty))

(* fsort.c, on the way to sort.                                              *)
Between(p) == \E j, k \in Pipes : j # k /\ Input(p) = ReadEnd(j) /\ Output(p) = WriteEnd(k)
FSortAt(p) ==
    LET pc == proc[p].pc
        Apart == Reg(p, "in1") \notin {Reg(p, "pfd0"), Reg(p, "pfd1"), Reg(p, "in0")}
    IN  /\ Runs(p) =>
             /\ pc = 1 => LowOpen(p) /\ High(p) = {}
             /\ pc = 2 => LowOpen(p) /\ HasPipe(p) /\ OnlyHigh(p, {"pfd0", "pfd1"})
             /\ pc >= 3 => Above(p, {"pfd0", "pfd1", "in0", "in1"})
             /\ pc \in {3, 4} =>
                  /\ \E j, k \in Pipes : /\ j # k /\ Lies(p, "pfd0", ReadEnd(j))
                                         /\ Lies(p, "in1", WriteEnd(k))
                  /\ Apart /\ OnlyHigh(p, {"pfd0", "pfd1", "in0", "in1"})
             /\ pc \in {5, 6, 7} =>
                  /\ \E j, k \in Pipes : j # k /\ Input(p) = ReadEnd(j) /\ Lies(p, "in1", WriteEnd(k))
                  /\ Apart
             /\ pc = 5 => OnlyHigh(p, {"pfd0", "pfd1", "in0", "in1"})
             /\ pc = 6 => OnlyHigh(p, {"pfd1", "in0", "in1"})
             /\ pc \in {7, 8} => OnlyHigh(p, {"in0", "in1"})
             /\ pc \in {8, 9, 10} => Between(p)
             /\ pc = 9 => OnlyHigh(p, {"in1"})
             /\ pc = 10 => High(p) = {}
        /\ proc[p].life = "command" => proc[p].cmd = "sort" /\ High(p) = {} /\ Between(p)

(* pipe.c, on the way to pread.c.                                            *)
PipeAt(p) ==
    LET pc == proc[p].pc
        HasRead == (\E k \in Pipes : Lies(p, "pfd0", ReadEnd(k))) /\ OnlyHigh(p, {"pfd0"})
    IN  /\ Runs(p) =>
             /\ pc = 1 => LowOpen(p) /\ High(p) = {}
             /\ pc \in {2, 3} => HasPipe(p) /\ OnlyHigh(p, {"pfd0", "pfd1"})
             /\ pc = 4 => HasRead
        /\ proc[p].life = "command" => proc[p].cmd = "pread" /\ HasRead

Wired ==
    \A p \in Procs :
        /\ prog = "who_count" => WhoCountAt(p)
        /\ prog = "fsort" => FSortAt(p)
        /\ prog = "pipe" => PipeAt(p)
        /\ prog \in {"pc", "basic"} => proc[p].life # "command"

(* pipe.c: while no fork() has failed only main() writes to the pipe, and    *)
(* whoever is to read from it finds "hello" there or main() still about to   *)
(* write to it.                                                              *)
Reads(p) == proc[p].life = "command" \/ (Runs(p) /\ proc[p].pc \in {3, 4})
Writing(k) == Runs(1) /\ proc[1].pc \in {5, 6} /\ Lies(1, "pfd1", WriteEnd(k))
Hello ==
    /\ prog # "pipe" => "eof" \notin happened
    /\ prog = "pipe" /\ "fork" \notin happened =>
         /\ "eof" \notin happened
         /\ \A p \in Procs : Runs(p) /\ proc[p].pc \in {1, 2} => p = 1
         /\ Runs(1) /\ proc[1].pc = 5 => Reg(1, "pfd0") # Reg(1, "pfd1")
         /\ \A p \in Procs : Reads(p) =>
              /\ p # 1
              /\ \E k \in Pipes : Lies(p, "pfd0", ReadEnd(k)) /\ (k \in filled \/ Writing(k))

(* basic.c: who is a client, who a server, and who is connected to whom.     *)
Started2(p) == proc[p].life # "unused"
Client(p) == Started2(p) /\ IsClient(p)
Server(p) == Started2(p) /\ ~IsClient(p)
Idle(p) == net.peer[p] = 0 /\ p \notin net.open /\ p \notin net.sent /\ net.shown[p] = "none"
Lives(p) ==
    /\ proc[p].life \in {"unused", "code", "zombie"}
    /\ proc[p].life = "unused" => Idle(p)
Listens(p) ==
    /\ net.socket[p] \in {"named", "listening"} => Server(p) /\ proc[p].pc >= 9
    /\ net.socket[p] = "listening" => proc[p].pc >= 10
Queued(p) == \A r \in ToSet(net.queue[p]) : Client(r) /\ net.peer[r] = p
AsClient(p) ==
    Client(p) =>
        LET q == net.peer[p]
        IN  /\ proc[p].pc \in 3 .. 7
            /\ proc[p].pc = 3 => Idle(p)
            /\ proc[p].pc = 4 => p \notin net.sent
            /\ q # 0 => Server(q) /\ proc[q].pc >= 10
            /\ net.shown[p] = "Goodbye!" => q # 0 /\ WroteTo(q, p)
AsServer(p) ==
    Server(p) =>
        LET q == net.peer[p]
        IN  /\ proc[p].pc \in {1, 2} \cup 8 .. 15
            /\ proc[p].pc <= 10 => Idle(p)
            /\ q # 0 => Client(q) /\ net.peer[q] = p
            /\ proc[p].pc >= 12 /\ q \in net.open => net.shown[p] = "Hello!"
            /\ p \in net.sent => proc[p].pc >= 13 /\ net.shown[p] = "Hello!"
            /\ net.shown[p] # "Goodbye!"
Met(p) == Lives(p) /\ Listens(p) /\ Queued(p) /\ AsClient(p) /\ AsServer(p)
Connected == prog = "basic" => \A p \in Procs : Met(p)

(* basic.c with one pair: how far the two are tells what they have done.     *)
Other(c) == c # 1 /\ Started2(c)
Main ==
    LET pc == proc[1].pc
    IN  /\ Server(1)
        /\ net.name \in {0, 1} /\ (pc <= 8 => net.name = 0)
        /\ pc = 9 => net.socket[1] = "named"
        /\ pc \in 10 .. 13 => net.socket[1] = "listening"
        /\ pc \in 11 .. 14 => 1 \in net.open
        /\ pc >= 11 => net.peer[1] # 0
        /\ pc >= 12 => net.shown[1] = "Hello!"
        /\ pc >= 13 => 1 \in net.sent
        /\ proc[1].life = "zombie" => pc = 15
Partner(c) ==
    LET pc == proc[1].pc
        at == proc[c].pc
    IN  /\ pc > 2 /\ Client(c)
        /\ pc = 10 /\ at >= 4 => c \in ToSet(net.queue[1])
        /\ pc >= 12 => at >= 5
        /\ at >= 4 => pc >= 10 /\ net.peer[c] = 1
        /\ at \in 4 .. 6 => c \in net.open
        /\ at >= 5 => c \in net.sent
        /\ at >= 6 => pc >= 13 /\ net.shown[c] = "Goodbye!"
        /\ proc[c].life = "zombie" => at = 7
Pair ==
    prog = "basic" /\ Alone =>
        /\ Main
        /\ \A c, d \in Procs : Other(c) /\ Other(d) => c = d
        /\ \A c \in Procs : Other(c) => Partner(c)

-----------------------------------------------------------------------------
(* What the calls do to a process *)

Values == [Register -> Fd \cup Procs \cup {NoFd}]

(* All processes but those of S are as they were. *)
But(S) == proc' \in [Procs -> Record] /\ \A q \in Procs \ S : proc'[q] = proc[q]

(* p goes on at n, with these descriptors and these local variables. *)
Moves(p, n, tab, reg) ==
    /\ But({p})
    /\ proc'[p].life = proc[p].life /\ proc'[p].parent = proc[p].parent /\ proc'[p].cmd = proc[p].cmd
    /\ proc'[p].pc = n /\ proc'[p].tab = tab /\ proc'[p].reg = reg
Passes(p) == Moves(p, proc[p].pc + 1, proc[p].tab, proc[p].reg)

(* p ends. *)
Stops(p) ==
    /\ But({p})
    /\ proc'[p].life = "zombie" /\ proc'[p].tab = AllClosed
    /\ proc'[p].parent = proc[p].parent /\ proc'[p].cmd = proc[p].cmd
    /\ proc'[p].pc = proc[p].pc /\ proc'[p].reg = proc[p].reg

(* p has a new child c, and goes on at n. *)
Begets(p, c, n, v) ==
    /\ But({p, c}) /\ c # p /\ proc[c].life = "unused"
    /\ proc'[p].life = proc[p].life /\ proc'[p].parent = proc[p].parent /\ proc'[p].cmd = proc[p].cmd
    /\ proc'[p].pc = n /\ proc'[p].tab = proc[p].tab /\ proc'[p].reg = [proc[p].reg EXCEPT ![v] = c]
    /\ proc'[c].life = proc[p].life /\ proc'[c].parent = p /\ proc'[c].cmd = proc[p].cmd
    /\ proc'[c].pc = proc[p].pc + 1 /\ proc'[c].tab = proc[p].tab
    /\ proc'[c].reg = [proc[p].reg EXCEPT ![v] = 0]

LEMMA RecordFields ==
    ASSUME Typed, NEW p \in Procs
    PROVE  /\ proc[p] \in Record /\ proc[p].pc \in Nat /\ proc[p].tab \in Table /\ proc[p].reg \in Values
           /\ proc[p].parent \in 0 .. MaxProcs
BY DEF Typed, Record, Values

LEMMA TableOps ==
    ASSUME NEW tab \in Table
    PROVE  /\ \A fd : CloseFd(tab, fd) \in Table
           /\ \A from, to : Dup2(tab, from, to) \in Table
           /\ \A fd : \A file \in File : [tab EXCEPT ![fd] = file] \in Table
           /\ AllClosed \in Table
BY DEF Table, CloseFd, Dup2, IsOpen, AllClosed, File

LEMMA GoesMoves ==
    ASSUME Typed, NEW p \in Procs, NEW tab \in Table, proc' = Goes(p, tab)
    PROVE  Moves(p, proc[p].pc + 1, tab, proc[p].reg)
<1>1. proc \in [Procs -> Record] /\ proc[p] \in Record /\ proc[p].pc + 1 \in Nat
  BY RecordFields DEF Typed
<1>2. proc' = [proc EXCEPT ![p] = [proc[p] EXCEPT !.pc = @ + 1, !.tab = tab]]
  BY <1>1 DEF Goes
<1>3. [proc[p] EXCEPT !.pc = @ + 1, !.tab = tab] \in Record
  BY <1>1 DEF Record
<1>. QED  BY <1>1, <1>2, <1>3 DEF Moves, But, Record

LEMMA GoesOnPasses ==
    ASSUME Typed, NEW p \in Procs, proc' = GoesOn(p)
    PROVE  Passes(p)
BY GoesMoves, RecordFields DEF GoesOn, Passes

LEMMA EndsStops ==
    ASSUME Typed, NEW p \in Procs, proc' = Ends(p)
    PROVE  Stops(p)
<1>1. proc \in [Procs -> Record] /\ proc[p] \in Record /\ AllClosed \in Table
  BY RecordFields, TableOps DEF Typed
<1>2. proc' = [proc EXCEPT ![p] = [proc[p] EXCEPT !.life = "zombie", !.tab = AllClosed]]
  BY <1>1 DEF Ends
<1>3. [proc[p] EXCEPT !.life = "zombie", !.tab = AllClosed] \in Record
  BY <1>1 DEF Record
<1>. QED  BY <1>1, <1>2, <1>3 DEF Stops, But, Record

LEMMA PipeMoves ==
    ASSUME Typed, NEW p \in Procs, DoPipe(p)
    PROVE  \E a, b \in Fd, k \in UnusedPipes :
              /\ a < b /\ IsLowestFree(proc[p].tab, a) /\ proc[p].tab[b] = Closed
              /\ Moves(p, proc[p].pc + 1,
                       [proc[p].tab EXCEPT ![a] = ReadEnd(k), ![b] = WriteEnd(k)],
                       [proc[p].reg EXCEPT ![Call(p).r] = a, ![Call(p).w] = b])
<1>. DEFINE tab == proc[p].tab
            reg == proc[p].reg
<1>1. proc \in [Procs -> Record] /\ proc[p] \in Record /\ proc[p].pc + 1 \in Nat /\ tab \in Table /\ reg \in Values
  BY RecordFields DEF Typed
<1>2. PICK made \in PipeResults(tab, UnusedPipes) \ {PipeFails(tab)} :
         proc' = [Goes(p, made.tab) EXCEPT ![p].reg[Call(p).r] = made.rd,
                                           ![p].reg[Call(p).w] = made.wr]
  BY DEF DoPipe
<1>3. PICK pair \in Fd \X Fd, k \in UnusedPipes :
         /\ IsLowestFree(tab, pair[1]) /\ pair[1] < pair[2] /\ tab[pair[2]] = Closed
         /\ made = PipeMade(tab, pair[1], pair[2], k)
  BY <1>2 DEF PipeResults
<1>. DEFINE a == pair[1]
            b == pair[2]
            newtab == [tab EXCEPT ![a] = ReadEnd(k), ![b] = WriteEnd(k)]
            newreg == [reg EXCEPT ![Call(p).r] = a, ![Call(p).w] = b]
            new == [proc[p] EXCEPT !.pc = @ + 1, !.tab = newtab, !.reg = newreg]
<1>4. a \in Fd /\ b \in Fd /\ k \in Pipes /\ made.tab = newtab /\ made.rd = a /\ made.wr = b
  BY <1>3 DEF PipeMade, UnusedPipes
<1>5. newtab \in Table
  <2>1. ReadEnd(k) \in File /\ WriteEnd(k) \in File
    BY <1>4 DEF ReadEnd, WriteEnd, File
  <2>. QED  BY <1>1, <2>1 DEF Table
<1>6. newreg \in Values
  BY <1>1, <1>4 DEF Values
<1>7. new \in Record
  BY <1>1, <1>5, <1>6 DEF Record, Values
<1>. HIDE DEF newtab
<1>8. proc' = [proc EXCEPT ![p] = new]
  BY <1>1, <1>2, <1>4 DEF Goes, Record
<1>9. Moves(p, proc[p].pc + 1, newtab, newreg)
  BY <1>1, <1>7, <1>8 DEF Moves, But, Record
<1>. QED  BY <1>3, <1>4, <1>9 DEF newtab

LEMMA ForkBegets ==
    ASSUME Typed, NEW p \in Procs, NEW q \in Procs, ForkSucceeds(p, q)
    PROVE  Begets(p, q, Call(p).parent, Call(p).v)
<1>. DEFINE v == Call(p).v
            old == [proc[p] EXCEPT !.pc = Call(p).parent, !.reg = [@ EXCEPT ![v] = q]]
            new == [proc[p] EXCEPT !.pc = @ + 1, !.parent = p, !.reg = [@ EXCEPT ![v] = 0]]
<1>1. proc \in [Procs -> Record] /\ proc[p] \in Record /\ proc[p].pc + 1 \in Nat /\ Call(p).parent \in Nat
  BY RecordFields, NextCall DEF Typed, ForkSucceeds, At, Call
<1>2. q # p
  BY DEF ForkSucceeds, At
<1>3. proc' = [proc EXCEPT ![p] = old, ![q] = new]
  BY <1>1, <1>2 DEF ForkSucceeds, Record
<1>4. 0 \in Fd
  BY MaxFdAssumption DEF Fd
<1>5. old \in Record /\ new \in Record
  <2>1. [proc[p].reg EXCEPT ![v] = q] \in Values /\ [proc[p].reg EXCEPT ![v] = 0] \in Values
    BY <1>4, RecordFields DEF Values
  <2>2. p \in 0 .. MaxProcs
    BY MaxProcsAssumption DEF Procs
  <2>. QED  BY <1>1, <2>1, <2>2 DEF Record, Values
<1>6. /\ old.life = proc[p].life /\ old.parent = proc[p].parent /\ old.cmd = proc[p].cmd /\ old.pc = Call(p).parent
      /\ old.tab = proc[p].tab /\ old.reg = [proc[p].reg EXCEPT ![v] = q]
      /\ new.life = proc[p].life /\ new.parent = p /\ new.cmd = proc[p].cmd /\ new.pc = proc[p].pc + 1
      /\ new.tab = proc[p].tab /\ new.reg = [proc[p].reg EXCEPT ![v] = 0]
  BY <1>1 DEF Record
<1>7. proc'[p] = old /\ proc'[q] = new /\ But({p, q})
  BY <1>1, <1>2, <1>3, <1>5 DEF But
<1>8. proc[q].life = "unused"
  BY DEF ForkSucceeds
<1>. QED  BY <1>2, <1>6, <1>7, <1>8 DEF Begets

LEMMA ForkFailsMoves ==
    ASSUME Typed, NEW p \in Procs, ForkFails(p)
    PROVE  Moves(p, Call(p).failed, proc[p].tab, [proc[p].reg EXCEPT ![Call(p).v] = -1])
<1>. DEFINE new == [proc[p] EXCEPT !.pc = Call(p).failed, !.reg = [@ EXCEPT ![Call(p).v] = -1]]
<1>1. proc \in [Procs -> Record] /\ proc[p] \in Record /\ Call(p).failed \in Nat
  BY RecordFields, NextCall DEF Typed, ForkFails, At, Call
<1>2. proc' = [proc EXCEPT ![p] = new]
  BY <1>1 DEF ForkFails, Record
<1>3. new \in Record
  BY <1>1 DEF Record, NoFd
<1>. QED  BY <1>1, <1>2, <1>3 DEF Moves, But, Record

LEMMA OpenMoves ==
    ASSUME Typed, NEW p \in Procs, OpenSucceeds(p)
    PROVE  \E fd \in Fd :
              /\ IsLowestFree(proc[p].tab, fd)
              /\ Moves(p, proc[p].pc + 1, [proc[p].tab EXCEPT ![fd] = Disk],
                       [proc[p].reg EXCEPT ![Call(p).v] = fd])
<1>1. PICK fd \in Fd : /\ IsLowestFree(proc[p].tab, fd)
                       /\ proc' = [Goes(p, [proc[p].tab EXCEPT ![fd] = Disk]) EXCEPT ![p].reg[Call(p).v] = fd]
  BY DEF OpenSucceeds
<1>. DEFINE newtab == [proc[p].tab EXCEPT ![fd] = Disk]
            newreg == [proc[p].reg EXCEPT ![Call(p).v] = fd]
            new == [proc[p] EXCEPT !.pc = @ + 1, !.tab = newtab, !.reg = newreg]
<1>2. proc \in [Procs -> Record] /\ proc[p] \in Record /\ proc[p].pc + 1 \in Nat /\ proc[p].reg \in Values
  BY RecordFields DEF Typed
<1>3. newtab \in Table
  BY RecordFields, TableOps DEF File
<1>4. newreg \in Values
  BY <1>2 DEF Values
<1>5. new \in Record
  BY <1>2, <1>3, <1>4 DEF Record, Values
<1>. HIDE DEF newtab
<1>6. proc' = [proc EXCEPT ![p] = new]
  BY <1>1, <1>2 DEF Goes, Record, newtab
<1>7. Moves(p, proc[p].pc + 1, newtab, newreg)
  BY <1>2, <1>5, <1>6 DEF Moves, But, Record
<1>. QED  BY <1>1, <1>7 DEF newtab

LEMMA OpenFailsMoves ==
    ASSUME Typed, NEW p \in Procs, OpenFails(p)
    PROVE  Moves(p, proc[p].pc + 1, proc[p].tab, [proc[p].reg EXCEPT ![Call(p).v] = NoFd])
<1>. DEFINE new == [proc[p] EXCEPT !.pc = @ + 1, !.reg = [@ EXCEPT ![Call(p).v] = NoFd]]
<1>1. proc \in [Procs -> Record] /\ proc[p] \in Record /\ proc[p].pc + 1 \in Nat
  BY RecordFields DEF Typed
<1>2. proc' = [proc EXCEPT ![p] = new]
  BY <1>1 DEF OpenFails, GoesOn, Goes, Record
<1>3. new \in Record
  BY <1>1 DEF Record
<1>. QED  BY <1>1, <1>2, <1>3 DEF Moves, But, Record

(* p becomes a command. *)
Becomes(p, cmd) ==
    /\ But({p})
    /\ proc'[p].life = "command" /\ proc'[p].cmd = cmd
    /\ proc'[p].parent = proc[p].parent /\ proc'[p].pc = proc[p].pc
    /\ proc'[p].tab = proc[p].tab /\ proc'[p].reg = proc[p].reg

LEMMA ExecBecomes ==
    ASSUME Typed, NEW p \in Procs, ExecSucceeds(p)
    PROVE  Becomes(p, Call(p).cmd)
<1>. DEFINE new == [proc[p] EXCEPT !.life = "command", !.cmd = Call(p).cmd]
<1>1. proc \in [Procs -> Record] /\ proc[p] \in Record /\ Call(p).cmd \in {"ls", "wc", "sort", "pread"}
  BY RecordFields, NextCall DEF Typed, ExecSucceeds, At, Call
<1>2. proc' = [proc EXCEPT ![p] = new]
  BY <1>1 DEF ExecSucceeds, Record
<1>3. new \in Record
  BY <1>1 DEF Record
<1>. QED  BY <1>1, <1>2, <1>3 DEF Becomes, But, Record

(* p goes on and has looked at the end of a child. *)
Reaps(p, c) ==
    /\ But({p, c}) /\ c # p /\ proc[c].life = "zombie"
    /\ proc'[p].life = proc[p].life /\ proc'[p].parent = proc[p].parent /\ proc'[p].cmd = proc[p].cmd
    /\ proc'[p].pc = proc[p].pc + 1 /\ proc'[p].tab = proc[p].tab /\ proc'[p].reg = proc[p].reg
    /\ proc'[c].life = "reaped" /\ proc'[c].parent = proc[c].parent /\ proc'[c].cmd = proc[c].cmd
    /\ proc'[c].pc = proc[c].pc /\ proc'[c].tab = proc[c].tab /\ proc'[c].reg = proc[c].reg

LEMMA WaitReaps ==
    ASSUME Typed, NEW p \in Procs, DoWait(p)
    PROVE  \/ Awaited(p) = {} /\ Passes(p)
           \/ \E c \in Awaited(p) : Reaps(p, c)
<1>1. CASE Awaited(p) = {} /\ proc' = GoesOn(p)
  BY <1>1, GoesOnPasses
<1>2. ASSUME NEW c \in Awaited(p), proc[c].life = "zombie", proc' = [GoesOn(p) EXCEPT ![c].life = "reaped"]
      PROVE  Reaps(p, c)
  <2>. DEFINE old == [proc[p] EXCEPT !.pc = @ + 1]
              new == [proc[c] EXCEPT !.life = "reaped"]
  <2>1. c \in Procs /\ c # p
    BY <1>2 DEF Awaited, DoWait, At
  <2>2. proc \in [Procs -> Record] /\ proc[p] \in Record /\ proc[c] \in Record /\ proc[p].pc + 1 \in Nat
    BY <2>1, RecordFields DEF Typed
  <2>3. proc' = [proc EXCEPT ![p] = old, ![c] = new]
    BY <1>2, <2>1, <2>2 DEF GoesOn, Goes, Record
  <2>4. old \in Record /\ new \in Record
    BY <2>2 DEF Record
  <2>5. proc'[p] = old /\ proc'[c] = new /\ But({p, c})
    BY <2>1, <2>2, <2>3, <2>4 DEF But
  <2>6. /\ old.life = proc[p].life /\ old.parent = proc[p].parent /\ old.cmd = proc[p].cmd
        /\ old.pc = proc[p].pc + 1 /\ old.tab = proc[p].tab /\ old.reg = proc[p].reg
        /\ new.life = "reaped" /\ new.parent = proc[c].parent /\ new.cmd = proc[c].cmd
        /\ new.pc = proc[c].pc /\ new.tab = proc[c].tab /\ new.reg = proc[c].reg
    BY <2>2 DEF Record
  <2>. QED  BY <1>2, <2>1, <2>5, <2>6 DEF Reaps
<1>. QED  BY <1>1, <1>2 DEF DoWait

(* A signal ends every process of S but p, and p goes on. *)
Signals(p, S) ==
    /\ proc' \in [Procs -> Record]
    /\ \A q \in Procs \ S : q # p => proc'[q] = proc[q]
    /\ \A q \in S : /\ q # p /\ Live(q) /\ proc'[q].life = "zombie" /\ proc'[q].tab = AllClosed
                    /\ proc'[q].parent = proc[q].parent /\ proc'[q].cmd = proc[q].cmd
                    /\ proc'[q].pc = proc[q].pc /\ proc'[q].reg = proc[q].reg
    /\ proc'[p].life = proc[p].life /\ proc'[p].parent = proc[p].parent /\ proc'[p].cmd = proc[p].cmd
    /\ proc'[p].pc = proc[p].pc + 1 /\ proc'[p].tab = proc[p].tab /\ proc'[p].reg = proc[p].reg

LEMMA KillSignals ==
    ASSUME Typed, NEW p \in Procs, DoKill(p)
    PROVE  Signals(p, {q \in Procs : Live(q) /\ q # p /\ Value(p) \in {-1, q}})
<1>. DEFINE S == {q \in Procs : Live(q) /\ q # p /\ Value(p) \in {-1, q}}
            old == [proc[p] EXCEPT !.pc = @ + 1, !.tab = proc[p].tab]
            dead(q) == [proc[q] EXCEPT !.life = "zombie", !.tab = AllClosed]
<1>1. proc \in [Procs -> Record] /\ proc[p] \in Record /\ proc[p].pc + 1 \in Nat /\ \A q \in Procs : proc[q] \in Record
  BY RecordFields DEF Typed
<1>2. GoesOn(p) = [proc EXCEPT ![p] = old]
  BY <1>1 DEF GoesOn, Goes
<1>3. ASSUME NEW q \in Procs
      PROVE  Ends(q)[q] = dead(q)
  BY <1>1 DEF Ends
<1>4. proc' = [q \in Procs |-> IF q \in S THEN dead(q) ELSE [proc EXCEPT ![p] = old][q]]
  BY <1>2, <1>3 DEF DoKill
<1>5. old \in Record
  BY <1>1 DEF Record
<1>6. \A q \in Procs : dead(q) \in Record
  BY <1>1, TableOps, RecordFields DEF Record
<1>7. proc' \in [Procs -> Record] /\ proc'[p] = old /\ \A q \in Procs : q # p => proc'[q] = IF q \in S THEN dead(q) ELSE proc[q]
  BY <1>1, <1>4, <1>5, <1>6
<1>8. \A q \in S : proc'[q] = dead(q)
  BY <1>7
<1>9. /\ proc'[p].life = proc[p].life /\ proc'[p].parent = proc[p].parent /\ proc'[p].cmd = proc[p].cmd
      /\ proc'[p].pc = proc[p].pc + 1 /\ proc'[p].tab = proc[p].tab /\ proc'[p].reg = proc[p].reg
  BY <1>1, <1>7 DEF Record
<1>10. \A q \in S : /\ q # p /\ Live(q) /\ proc'[q].life = "zombie" /\ proc'[q].tab = AllClosed
                    /\ proc'[q].parent = proc[q].parent /\ proc'[q].cmd = proc[q].cmd
                    /\ proc'[q].pc = proc[q].pc /\ proc'[q].reg = proc[q].reg
  <2>1. ASSUME NEW q \in S
        PROVE  /\ proc'[q].life = "zombie" /\ proc'[q].tab = AllClosed
               /\ proc'[q].parent = proc[q].parent /\ proc'[q].cmd = proc[q].cmd
               /\ proc'[q].pc = proc[q].pc /\ proc'[q].reg = proc[q].reg
    <3>1. proc[q] \in Record /\ proc'[q] = dead(q)
      BY <1>1, <1>8
    <3>. QED  BY <3>1 DEF Record
  <2>. QED  BY <2>1
<1>11. \A q \in Procs \ S : q # p => proc'[q] = proc[q]
  BY <1>7
<1>. QED  BY <1>7, <1>9, <1>10, <1>11 DEF Signals

Socketing == {"unlink", "connect", "bind", "listen", "accept", "send", "receive", "hangup"}

(* A step of the program, in process p. *)
Acts(p) == Step(p) \/ (SleepEnds(p) /\ UNCHANGED net)

(* The next call says which action it is. *)
LEMMA CallsActions ==
    ASSUME Typed, NEW p \in Procs, Acts(p)
    PROVE  /\ prog' = prog
           /\ Runs(p) \/ proc[p].life = "command"
           /\ proc[p].life = "command" => CommandEnds(p) \/ PreadEnds(p)
           /\ Runs(p) =>
                /\ Call(p).op \in Calling
                /\ Call(p).op = "pipe" => DoPipe(p)
                /\ Call(p).op = "fork" => (\E q \in Procs : ForkSucceeds(p, q)) \/ ForkFails(p)
                /\ Call(p).op = "dup2" => DoDup2(p)
                /\ Call(p).op = "close" => DoClose(p)
                /\ Call(p).op = "exec" => ExecSucceeds(p) \/ ExecFails(p)
                /\ Call(p).op = "open" => OpenSucceeds(p) \/ OpenFails(p)
                /\ Call(p).op = "write" => DoWrite(p)
                /\ Call(p).op = "feed" => FeedEnds(p) \/ FeedBreaks(p)
                /\ Call(p).op = "drain" => DrainEnds(p)
                /\ Call(p).op = "wait" => DoWait(p)
                /\ Call(p).op = "divide" => DoDivide(p)
                /\ Call(p).op = "kill" => DoKill(p)
                /\ Call(p).op = "sleep" => SleepEnds(p)
                /\ Call(p).op = "exit" => DoExit(p) /\ net' = AllClosedBy(p)
                /\ Call(p).op = "unlink" => DoUnlink(p)
                /\ Call(p).op = "connect" => DoConnect(p)
                /\ Call(p).op = "bind" => DoBind(p)
                /\ Call(p).op = "listen" => DoListen(p)
                /\ Call(p).op = "accept" => DoAccept(p)
                /\ Call(p).op = "send" => DoSend(p)
                /\ Call(p).op = "receive" => DoReceive(p)
                /\ Call(p).op = "hangup" => DoHangUp(p)
           /\ Runs(p) /\ Call(p).op \notin Socketing \cup {"exit"} => net' = net
           /\ proc[p].life = "command" => net' = net
<1>1. Runs(p) => Call(p).op \in Calling
  BY NextCall DEF Typed, Call
<1>. USE DEF Runs, At
<1>2. CASE KernelStep(p) /\ UNCHANGED net
  BY <1>1, <1>2 DEF KernelStep, DoPipe, ForkSucceeds, ForkFails, DoDup2, DoClose, ExecSucceeds, ExecFails,
     OpenSucceeds, OpenFails, DoWrite, FeedEnds, FeedBreaks, DrainEnds, DoWait, DoDivide, DoKill,
     CommandEnds, PreadEnds
<1>3. CASE SocketStep(p)
  BY <1>1, <1>3 DEF SocketStep, DoUnlink, DoConnect, DoBind, DoListen, DoAccept, DoSend, DoReceive, DoHangUp,
     NoMore, Socketing
<1>4. CASE DoExit(p) /\ net' = AllClosedBy(p)
  BY <1>1, <1>4 DEF DoExit
<1>5. CASE SleepEnds(p) /\ UNCHANGED net
  BY <1>1, <1>5 DEF SleepEnds
<1>. QED  BY <1>2, <1>3, <1>4, <1>5 DEF Acts, Step

LEMMA HeldPipes ==
    ASSUME Typed
    PROVE  \A k : HeldSomewhere(ReadEnd(k)) \/ HeldSomewhere(WriteEnd(k)) => k \in Pipes
<1>1. \A q \in Procs : proc[q].tab \in [Fd -> File]
  BY RecordFields DEF Table
<1>. QED  BY <1>1 DEF HeldSomewhere, Holds, File, ReadEnd, WriteEnd, Closed, Tty, Null, Disk

Quiet == happened' = happened /\ filled' = filled

(* What becomes of the processes. *)
LEMMA Effects ==
    ASSUME Typed, NEW p \in Procs, Acts(p), Runs(p)
    PROVE  LET pc == proc[p].pc
               tab == proc[p].tab
               reg == proc[p].reg
           IN  /\ Call(p).op = "pipe" =>
                     /\ Quiet
                     /\ \E a, b \in Fd, k \in UnusedPipes :
                           /\ a < b /\ IsLowestFree(tab, a) /\ tab[b] = Closed
                           /\ Moves(p, pc + 1, [tab EXCEPT ![a] = ReadEnd(k), ![b] = WriteEnd(k)],
                                    [reg EXCEPT ![Call(p).r] = a, ![Call(p).w] = b])
               /\ Call(p).op = "fork" =>
                     \/ Quiet /\ \E c \in Procs : Begets(p, c, Call(p).parent, Call(p).v)
                     \/ /\ happened' = happened \cup {"fork"} /\ filled' = filled
                        /\ Moves(p, Call(p).failed, tab, [reg EXCEPT ![Call(p).v] = -1])
               /\ Call(p).op = "dup2" => Quiet /\ Moves(p, pc + 1, Dup2(tab, Value(p), Call(p).to), reg)
               /\ Call(p).op = "close" => Quiet /\ Moves(p, pc + 1, CloseFd(tab, Value(p)), reg)
               /\ Call(p).op = "exec" =>
                     \/ Quiet /\ Becomes(p, Call(p).cmd)
                     \/ happened' = happened \cup {"exec"} /\ filled' = filled /\ Passes(p)
               /\ Call(p).op = "open" =>
                     /\ filled' = filled /\ happened' \in {happened, happened \cup {"open"}}
                     /\ \E fd \in Fd \cup {NoFd}, new \in Table :
                          /\ new = tab \/ (fd \in Fd /\ IsLowestFree(tab, fd) /\ new = [tab EXCEPT ![fd] = Disk])
                          /\ Moves(p, pc + 1, new, [reg EXCEPT ![Call(p).v] = fd])
               /\ Call(p).op = "wait" => Quiet /\ (Passes(p) \/ \E c \in Procs : Reaps(p, c))
               /\ Call(p).op = "kill" => Quiet /\ \E S \in SUBSET Procs : Signals(p, S)
               /\ Call(p).op = "exit" => Quiet /\ Stops(p)
               /\ Call(p).op \in {"drain", "sleep", "unlink", "connect", "bind", "listen", "accept",
                                  "receive", "hangup"} => Quiet /\ Passes(p)
               /\ Call(p).op \in {"divide", "feed", "send"} => Quiet /\ (Passes(p) \/ Stops(p))
               /\ Call(p).op = "write" =>
                     /\ happened' = happened /\ (Passes(p) \/ Stops(p))
                     /\ filled' = filled \/ (DoWrite(p) /\ \E k \in Pipes : filled' = filled \cup {k})
<1>0. Call(p).op \in Calling
  BY CallsActions
<1>1. CASE Call(p).op = "pipe"
  BY <1>1, CallsActions, PipeMoves DEF DoPipe, Quiet
<1>2. CASE Call(p).op = "fork"
  <2>1. ASSUME NEW q \in Procs, ForkSucceeds(p, q)
        PROVE  Quiet /\ Begets(p, q, Call(p).parent, Call(p).v)
    BY <2>1, ForkBegets DEF ForkSucceeds, Quiet
  <2>2. ASSUME ForkFails(p)
        PROVE  /\ happened' = happened \cup {"fork"} /\ filled' = filled
               /\ Moves(p, Call(p).failed, proc[p].tab, [proc[p].reg EXCEPT ![Call(p).v] = -1])
    BY <2>2, ForkFailsMoves DEF ForkFails, Fails
  <2>. QED  BY <1>2, <2>1, <2>2, CallsActions
<1>3. CASE Call(p).op = "dup2"
  <2>1. DoDup2(p)
    BY <1>3, CallsActions
  <2>. QED  BY <1>3, <2>1, RecordFields, TableOps, GoesMoves DEF DoDup2, Quiet
<1>4. CASE Call(p).op = "close"
  <2>1. DoClose(p)
    BY <1>4, CallsActions
  <2>. QED  BY <1>4, <2>1, RecordFields, TableOps, GoesMoves DEF DoClose, Quiet
<1>5. CASE Call(p).op = "exec"
  <2>1. ExecSucceeds(p) => Quiet /\ Becomes(p, Call(p).cmd)
    BY ExecBecomes DEF ExecSucceeds, Quiet
  <2>2. ExecFails(p) => happened' = happened \cup {"exec"} /\ filled' = filled /\ Passes(p)
    BY GoesOnPasses DEF ExecFails, Fails
  <2>. QED  BY <1>5, <2>1, <2>2, CallsActions
<1>6. CASE Call(p).op = "open"
  <2>1. ASSUME OpenSucceeds(p)
        PROVE  /\ Quiet
               /\ \E fd \in Fd, new \in Table :
                     /\ IsLowestFree(proc[p].tab, fd) /\ new = [proc[p].tab EXCEPT ![fd] = Disk]
                     /\ Moves(p, proc[p].pc + 1, new, [proc[p].reg EXCEPT ![Call(p).v] = fd])
    BY <2>1, OpenMoves, RecordFields, TableOps DEF OpenSucceeds, Quiet, File
  <2>2. ASSUME OpenFails(p)
        PROVE  /\ happened' = happened \cup {"open"} /\ filled' = filled
               /\ Moves(p, proc[p].pc + 1, proc[p].tab, [proc[p].reg EXCEPT ![Call(p).v] = NoFd])
               /\ proc[p].tab \in Table
    BY <2>2, OpenFailsMoves, RecordFields DEF OpenFails, Fails
  <2>3. OpenSucceeds(p) \/ OpenFails(p)
    BY <1>6, CallsActions
  <2>. QED  BY <1>6, <2>1, <2>2, <2>3 DEF Quiet
<1>7. CASE Call(p).op = "wait"
  <2>1. DoWait(p)
    BY <1>7, CallsActions
  <2>. QED  BY <1>7, <2>1, WaitReaps DEF DoWait, Awaited, Quiet
<1>8. CASE Call(p).op = "kill"
  <2>1. DoKill(p)
    BY <1>8, CallsActions
  <2>. QED  BY <1>8, <2>1, KillSignals DEF DoKill, Quiet
<1>9. CASE Call(p).op = "exit"
  BY <1>9, CallsActions, EndsStops DEF DoExit, Quiet
<1>10. CASE Call(p).op \in {"drain", "sleep", "unlink", "connect", "bind", "listen", "accept",
                            "receive", "hangup"}
  <2>1. proc' = GoesOn(p) /\ Quiet
    BY <1>10, CallsActions DEF DrainEnds, SleepEnds, DoUnlink, DoConnect, DoBind, DoListen, DoAccept,
       DoReceive, DoHangUp, NoMore, Quiet
  <2>. QED  BY <1>10, <2>1, GoesOnPasses
<1>11. CASE Call(p).op \in {"divide", "feed", "send"}
  <2>1. (proc' = GoesOn(p) \/ proc' = Ends(p)) /\ Quiet
    BY <1>11, CallsActions DEF DoDivide, FeedEnds, FeedBreaks, DoSend, NoMore, Quiet
  <2>. QED  BY <1>11, <2>1, GoesOnPasses, EndsStops
<1>12. CASE Call(p).op = "write"
  <2>. DEFINE k == OpenFile(p, Value(p))[2]
  <2>1. DoWrite(p)
    BY <1>12, CallsActions
  <2>2. /\ proc' = GoesOn(p) \/ proc' = Ends(p)
        /\ happened' = happened
        /\ filled' = filled \/ (HeldSomewhere(ReadEnd(k)) /\ filled' = filled \cup {k})
    BY <2>1 DEF DoWrite
  <2>3. HeldSomewhere(ReadEnd(k)) => k \in Pipes
    BY HeldPipes
  <2>. QED  BY <1>12, <2>1, <2>2, <2>3, GoesOnPasses, EndsStops
<1>. QED  BY <1>0, <1>1, <1>2, <1>3, <1>4, <1>5, <1>6, <1>7, <1>8, <1>9, <1>10, <1>11, <1>12 DEF Calling

LEMMA CommandStops ==
    ASSUME Typed, NEW p \in Procs, Acts(p), ~Runs(p)
    PROVE  /\ proc[p].life = "command" /\ Stops(p) /\ filled' = filled /\ net' = net
           /\ happened' = happened \/ (PreadEnds(p) /\ happened' = happened \cup {"eof"})
BY CallsActions, EndsStops DEF CommandEnds, PreadEnds, Fails

-----------------------------------------------------------------------------
(* Types *)

LEMMA NetTyped ==
    ASSUME Typed, NEW p \in Procs, Acts(p)
    PROVE  net' \in NetState
<1>1. net \in NetState /\ p \in 0 .. MaxProcs /\ net.queue[p] \in Seq(Procs)
  BY MaxProcsAssumption DEF Typed, Procs, NetState
<1>2. AllClosedBy(p) \in NetState
  <2>1. <<>> \in Seq(Procs)
    OBVIOUS
  <2>. QED  BY <1>1, <2>1 DEF AllClosedBy, NetState
<1>3. CASE Runs(p) /\ Call(p).op \in Socketing
  <2>1. CASE DoUnlink(p)
    <3>1. net' = [net EXCEPT !.name = 0] /\ 0 \in 0 .. MaxProcs
      BY <2>1, MaxProcsAssumption DEF DoUnlink
    <3>. QED  BY <1>1, <3>1 DEF NetState
  <2>2. CASE DoConnect(p)
    <3>. DEFINE s == net.name
    <3>1. net' = [net EXCEPT !.queue[s] = Append(@, p), !.peer[p] = s, !.open = @ \cup {p}] /\ s # 0
      BY <2>2 DEF DoConnect
    <3>2. s \in Procs /\ s \in 0 .. MaxProcs
      BY <1>1, <3>1, MaxProcsAssumption DEF NetState, Procs
    <3>3. net.queue[s] \in Seq(Procs) /\ Append(net.queue[s], p) \in Seq(Procs)
      BY <1>1, <3>2 DEF NetState
    <3>4. [net.queue EXCEPT ![s] = Append(@, p)] \in [Procs -> Seq(Procs)]
      BY <1>1, <3>2, <3>3 DEF NetState
    <3>. QED  BY <1>1, <3>1, <3>2, <3>4 DEF NetState
  <2>3. CASE DoBind(p)
    BY <1>1, <2>3 DEF DoBind, NetState
  <2>4. CASE DoListen(p)
    BY <1>1, <2>4 DEF DoListen, NetState
  <2>5. CASE DoAccept(p)
    <3>1. CASE net.queue[p] # <<>> /\ net' = [net EXCEPT !.queue[p] = Tail(@), !.peer[p] = Head(net.queue[p]),
                                                         !.open = @ \cup {p}]
      <4>1. Tail(net.queue[p]) \in Seq(Procs) /\ Head(net.queue[p]) \in Procs
        BY <1>1, <3>1
      <4>2. Head(net.queue[p]) \in 0 .. MaxProcs
        BY <4>1, MaxProcsAssumption DEF Procs
      <4>. QED  BY <1>1, <3>1, <4>1, <4>2 DEF NetState
    <3>. QED  BY <1>1, <2>5, <3>1 DEF DoAccept
  <2>6. CASE DoSend(p)
    <3>1. [net EXCEPT !.sent = @ \cup {p}] \in NetState
      BY <1>1 DEF NetState
    <3>2. net' \in {net, AllClosedBy(p), [net EXCEPT !.sent = @ \cup {p}]}
      BY <2>6 DEF DoSend
    <3>. QED  BY <1>1, <1>2, <3>1, <3>2
  <2>7. CASE DoReceive(p)
    <3>1. Word(net.peer[p]) \in {"Hello!", "Goodbye!"}
      BY DEF Word
    <3>2. net' \in {[net EXCEPT !.shown[p] = Word(net.peer[p])], [net EXCEPT !.shown[p] = "nothing"]}
      BY <2>7 DEF DoReceive
    <3>3. \A w \in {"Hello!", "Goodbye!", "nothing"} : [net EXCEPT !.shown[p] = w] \in NetState
      BY <1>1 DEF NetState
    <3>. QED  BY <3>1, <3>2, <3>3
  <2>8. CASE DoHangUp(p)
    <3>1. [net EXCEPT !.open = @ \ {p}] \in NetState
      BY <1>1 DEF NetState
    <3>2. [net EXCEPT !.socket[p] = "closed", !.queue[p] = <<>>] \in NetState
      <4>1. <<>> \in Seq(Procs)
        OBVIOUS
      <4>. QED  BY <1>1, <4>1 DEF NetState
    <3>3. net' \in {[net EXCEPT !.open = @ \ {p}], [net EXCEPT !.socket[p] = "closed", !.queue[p] = <<>>]}
      BY <2>8 DEF DoHangUp
    <3>. QED  BY <3>1, <3>2, <3>3
  <2>. QED  BY <1>3, <2>1, <2>2, <2>3, <2>4, <2>5, <2>6, <2>7, <2>8, CallsActions DEF Socketing
<1>. QED  BY <1>1, <1>2, <1>3, CallsActions

LEMMA TypedStep ==
    ASSUME Typed, NEW p \in Procs, Acts(p)
    PROVE  Typed'
<1>1. prog' = prog /\ Code' = Code /\ prog \in DOMAIN Text
  BY CallsActions DEF Typed, Code
<1>2. \A q \in Procs : proc[q].pc \in DOMAIN Code
  BY DEF Typed
<1>3. /\ proc' \in [Procs -> Record] /\ \A q \in Procs : proc'[q].pc \in DOMAIN Code
      /\ filled' \in SUBSET Pipes /\ happened' \in SUBSET {"fork", "exec", "open", "eof"}
  <2>1. CASE ~Runs(p)
    <3>1. /\ Stops(p) /\ filled' = filled
          /\ happened' = happened \/ happened' = happened \cup {"eof"}
      BY <2>1, CommandStops
    <3>2. proc' \in [Procs -> Record] /\ \A q \in Procs : proc'[q].pc = proc[q].pc
      BY <3>1 DEF Stops, But
    <3>3. filled \in SUBSET Pipes /\ happened \in SUBSET {"fork", "exec", "open", "eof"}
      BY DEF Typed
    <3>. QED  BY <1>2, <3>1, <3>2, <3>3
  <2>2. CASE Runs(p)
    <3>1. /\ Call(p).op \in Calling
          /\ Call(p).op # "exit" => proc[p].pc + 1 \in DOMAIN Code
          /\ Call(p).op = "fork" => Call(p).parent \in DOMAIN Code /\ Call(p).failed \in DOMAIN Code
      BY <1>1, <1>2, NextCall DEF Call
    <3>2. \A S \in SUBSET Procs : Signals(p, S) => \A q \in Procs : q # p => proc'[q].pc = proc[q].pc
      BY DEF Signals
    <3>3. \A S \in SUBSET Procs : Signals(p, S) => proc' \in [Procs -> Record] /\ proc'[p].pc = proc[p].pc + 1
      BY DEF Signals
    <3>4. \A c \in Procs : Reaps(p, c) => proc' \in [Procs -> Record] /\ \A q \in Procs : proc'[q].pc \in {proc[q].pc, proc[p].pc + 1}
      BY DEF Reaps, But
    <3>5. \A n, v : \A c \in Procs : Begets(p, c, n, v) => proc' \in [Procs -> Record] /\ \A q \in Procs : proc'[q].pc \in {proc[q].pc, proc[p].pc + 1, n}
      BY DEF Begets, But
    <3>6. \A n, tab, reg : Moves(p, n, tab, reg) => proc' \in [Procs -> Record] /\ \A q \in Procs : proc'[q].pc \in {proc[q].pc, n}
      BY DEF Moves, But
    <3>7. Stops(p) => proc' \in [Procs -> Record] /\ \A q \in Procs : proc'[q].pc = proc[q].pc
      BY DEF Stops, But
    <3>8. \A cmd : Becomes(p, cmd) => proc' \in [Procs -> Record] /\ \A q \in Procs : proc'[q].pc = proc[q].pc
      BY DEF Becomes, But
    <3>9. /\ filled' \in SUBSET Pipes /\ happened' \in SUBSET {"fork", "exec", "open", "eof"}
      BY <2>2, <3>1, Effects DEF Typed, Quiet, Calling
    <3>10. proc' \in [Procs -> Record] /\ \A q \in Procs : proc'[q].pc \in DOMAIN Code
      <4>1. CASE Call(p).op = "fork"
        BY <1>2, <2>2, <3>1, <3>5, <3>6, <4>1, Effects
      <4>2. CASE Call(p).op \in {"exec", "exit", "divide", "feed", "send", "write"}
        <5>1. \/ Passes(p) \/ Stops(p) \/ \E cmd : Becomes(p, cmd)
              \/ Call(p).op = "exit" /\ Stops(p)
          BY <2>2, <4>2, Effects
        <5>2. CASE Passes(p) /\ Call(p).op # "exit"
          BY <1>2, <3>1, <3>6, <5>2 DEF Passes
        <5>3. CASE Stops(p)
          BY <1>2, <3>7, <5>3
        <5>4. CASE \E cmd : Becomes(p, cmd)
          BY <1>2, <3>8, <5>4
        <5>5. Call(p).op = "exit" => Stops(p)
          BY <2>2, Effects
        <5>. QED  BY <5>1, <5>2, <5>3, <5>4, <5>5
      <4>3. CASE Call(p).op \in {"wait", "kill"}
        BY <1>2, <2>2, <3>1, <3>2, <3>3, <3>4, <3>6, <4>3, Effects DEF Passes
      <4>4. CASE Call(p).op \in {"drain", "sleep", "unlink", "connect", "bind", "listen", "accept",
                                 "receive", "hangup"}
        <5>1. Passes(p) /\ proc[p].pc + 1 \in DOMAIN Code
          <6>1. Passes(p)
            BY <2>2, <4>4, Effects
          <6>. QED  BY <3>1, <4>4, <6>1
        <5>. QED  BY <1>2, <3>6, <5>1 DEF Passes
      <4>5. CASE Call(p).op \in {"dup2", "close", "open", "pipe"}
        <5>1. \E tab, reg : Moves(p, proc[p].pc + 1, tab, reg)
          <6>1. CASE Call(p).op = "pipe"
            BY <2>2, <6>1, Effects
          <6>2. CASE Call(p).op = "open"
            BY <2>2, <6>2, Effects
          <6>3. CASE Call(p).op \in {"dup2", "close"}
            BY <2>2, <6>3, Effects
          <6>. QED  BY <4>5, <6>1, <6>2, <6>3
        <5>. QED  BY <1>2, <3>1, <3>6, <4>5, <5>1
      <4>. QED  BY <3>1, <4>1, <4>2, <4>3, <4>4, <4>5 DEF Calling
    <3>. QED  BY <3>9, <3>10
  <2>. QED  BY <2>1, <2>2
<1>4. net' \in NetState
  BY NetTyped
<1>. QED  BY <1>1, <1>3, <1>4 DEF Typed

LEMMA TypedInit == Init => Typed
<1>. SUFFICES ASSUME Init  PROVE Typed
  OBVIOUS
<1>. DEFINE tty == [fd \in Fd |-> IF fd < 3 THEN Tty ELSE Closed]
<1>1. AllClosed \in Table /\ tty \in Table
  BY DEF AllClosed, Table, File
<1>. HIDE DEF tty
<1>2. Unused \in Record /\ Started \in Record /\ Unused.pc = 1 /\ Started.pc = 1
  <2>1. [v \in Register |-> NoFd] \in [Register -> Fd \cup Procs \cup {NoFd}] /\ 0 \in 0 .. MaxProcs
    BY MaxProcsAssumption
  <2>2. Unused \in Record /\ Unused.pc = 1
    BY <1>1, <2>1 DEF Unused, Record
  <2>3. Started = [Unused EXCEPT !.life = "code", !.tab = tty]
    BY DEF Started, tty
  <2>. QED  BY <1>1, <2>2, <2>3 DEF Record
<1>3. PICK roots \in {{1}, {1, 2}} : proc = [p \in Procs |-> IF p \in roots THEN Started ELSE Unused]
  BY DEF Init
<1>4. proc \in [Procs -> Record] /\ \A p \in Procs : proc[p].pc = 1
  BY <1>2, <1>3
<1>5. net \in NetState
  BY MaxProcsAssumption DEF Init, NoNet, NetState
<1>. QED  BY <1>4, <1>5, NextCall DEF Init, Typed

LEMMA TypedCorrect == Spec => []Typed
<1>1. Typed /\ [Next]_vars => Typed'
  <2>1. CASE UNCHANGED vars
    BY <2>1 DEF vars, kernel, Typed, Code
  <2>. QED  BY <2>1, TypedStep DEF Next, Acts
<1>. QED  BY <1>1, TypedInit, PTL DEF Spec

(* Program: every process is at a call of its text, with a table of open     *)
(* files, variables that hold what calls returned, and a socket.             *)
THEOREM ProgramsTypeCorrect == Spec => []TypeOK
<1>1. Typed => TypeOK
  BY RecordFields DEF Typed, TypeOK, Record, Values, NetState
<1>. QED  BY <1>1, TypedCorrect, PTL

-----------------------------------------------------------------------------
(* pc.c *)

LEMMA ChildrenStep ==
    ASSUME Typed, Children, NEW p \in Procs, Acts(p)
    PROVE  Children'
<1>. DEFINE Free == \A q \in Procs : ~ChildOf(1, q)
            Others == \A q \in Procs : Runs(q) /\ q # 1 => proc[q].pc \in {2, 5, 6, 9, 10}
            Parents == /\ \A q \in Procs : proc[q].life # "command" /\ proc[q].parent \in {0, 1}
                       /\ proc[1].parent = 0
            Mine == Runs(1) => /\ proc[1].pc \in {1, 3, 4, 7, 8, 11, 12, 13}
                               /\ proc[1].pc \in {1, 4, 8, 13} => Free
<1>. SUFFICES ASSUME prog' = "pc"  PROVE (Parents /\ Others /\ Sole /\ Mine)'
  BY DEF Children
<1>1. prog = "pc" /\ 1 \in Procs
  BY CallsActions, MaxProcsAssumption DEF Procs
<1>2. Parents /\ Others /\ Sole /\ Mine
  BY <1>1 DEF Children
<1>. HIDE DEF Free, Mine
<1>3. Runs(p) /\ proc[p].life = "code" /\ Call(p) = Code[proc[p].pc]
  BY <1>2, CallsActions DEF Call, Runs
<1>4. CASE p # 1
  <2>1. proc[p].pc \in {2, 5, 6, 9, 10}
    BY <1>2, <1>3, <1>4
  <2>2. Call(p).op = "exit" \/ (proc[p].pc \in {5, 9} /\ Call(p).op \in {"divide", "sleep"})
    BY <1>1, <1>3, <2>1, PcText DEF Exit, Divide, Sleep
  <2>3. Stops(p) \/ (Passes(p) /\ proc[p].pc \in {5, 9})
    BY <1>3, <2>2, Effects
  <2>4. /\ \A q \in Procs : q # p => proc'[q] = proc[q]
        /\ proc'[p].parent = proc[p].parent
        /\ \/ proc'[p].life = "zombie"
           \/ proc'[p].life = "code" /\ proc'[p].pc \in {6, 10}
    BY <1>3, <2>3 DEF Stops, Passes, Moves, But
  <2>5. proc'[1] = proc[1] /\ \A q \in Procs : ChildOf(1, q)' <=> ChildOf(1, q)
    BY <1>1, <1>3, <1>4, <2>4 DEF ChildOf
  <2>6. Parents' /\ Others'
    BY <1>1, <1>2, <1>4, <2>4 DEF Runs
  <2>7. Sole' /\ Mine'
    BY <1>2, <2>5 DEF Sole, Mine, Free, Runs
  <2>. QED  BY <2>6, <2>7
<1>5. CASE p = 1
  <2>1. /\ proc[1].life = "code" /\ proc[1].pc \in {1, 3, 4, 7, 8, 11, 12, 13}
        /\ proc[1].pc \in {1, 4, 8, 13} => Free
    BY <1>2, <1>3, <1>5 DEF Mine, Runs
  <2>2. CASE proc[1].pc \in {1, 4, 8}
    <3>1. Call(p).op = "fork" /\ Call(p).parent \in {3, 7, 11} /\ Call(p).failed \in {3, 7, 11}
      BY <1>1, <1>3, <1>5, <2>2, PcText DEF Fork
    <3>2. \A q \in Procs : ~ChildOf(1, q)
      BY <2>1, <2>2 DEF Free
    <3>3. ASSUME NEW c \in Procs, Begets(p, c, Call(p).parent, Call(p).v)
          PROVE  (Parents /\ Others /\ Sole /\ Mine)'
      <4>1. /\ \A q \in Procs : q # 1 /\ q # c => proc'[q] = proc[q]
            /\ c # 1 /\ proc'[c].life = "code" /\ proc'[c].parent = 1 /\ proc'[c].pc \in {2, 5, 9}
            /\ proc'[1].life = "code" /\ proc'[1].parent = 0 /\ proc'[1].pc \in {3, 7, 11}
        <5>1. proc[1].pc + 1 \in {2, 5, 9}
          BY <2>2
        <5>2. c # 1 /\ \A q \in Procs : q # 1 /\ q # c => proc'[q] = proc[q]
          BY <1>5, <3>3 DEF Begets, But
        <5>3. /\ proc'[c].life = "code" /\ proc'[c].parent = 1 /\ proc'[c].pc \in {2, 5, 9}
              /\ proc'[1].life = "code" /\ proc'[1].parent = 0 /\ proc'[1].pc \in {3, 7, 11}
          BY <1>2, <1>5, <2>1, <3>1, <3>3, <5>1 DEF Begets
        <5>. QED  BY <5>2, <5>3
      <4>2. \A q \in Procs : ChildOf(1, q)' => q = c
        BY <3>2, <4>1 DEF ChildOf
      <4>3. Parents' /\ Others'
        BY <1>2, <4>1 DEF Runs
      <4>4. Sole' /\ Mine'
        BY <4>1, <4>2 DEF Sole, Mine
      <4>. QED  BY <4>3, <4>4
    <3>4. ASSUME NEW reg, Moves(p, Call(p).failed, proc[p].tab, reg)
          PROVE  (Parents /\ Others /\ Sole /\ Mine)'
      <4>1. /\ \A q \in Procs : q # 1 => proc'[q] = proc[q]
            /\ proc'[1].life = "code" /\ proc'[1].parent = 0 /\ proc'[1].pc \in {3, 7, 11}
        BY <1>2, <1>5, <2>1, <3>1, <3>4 DEF Moves, But
      <4>2. \A q \in Procs : ~ChildOf(1, q)'
        BY <3>2, <4>1 DEF ChildOf
      <4>3. Parents' /\ Others'
        BY <1>2, <4>1 DEF Runs
      <4>4. Sole' /\ Mine'
        BY <4>1, <4>2 DEF Sole, Mine
      <4>. QED  BY <4>3, <4>4
    <3>. QED  BY <1>3, <3>1, <3>3, <3>4, Effects
  <2>3. CASE proc[1].pc \in {3, 7, 12}
    <3>1. Call(p).op = "wait" /\ Call(p).v = "all"
      BY <1>1, <1>3, <1>5, <2>3, PcText DEF WaitAll
    <3>2. DoWait(p) /\ Awaited(p) = {q \in Procs : ChildOf(1, q)}
      BY <1>3, <1>5, <3>1, CallsActions DEF Awaited
    <3>3. ASSUME NEW S \in SUBSET Procs, S \subseteq Awaited(p), Awaited(p) \subseteq S, 1 \notin S,
                 \A q \in Procs \ S : q # 1 => proc'[q] = proc[q],
                 \A q \in S : proc'[q].life = "reaped" /\ proc'[q].parent = proc[q].parent,
                 proc'[1].life = "code", proc'[1].parent = 0, proc'[1].pc = proc[1].pc + 1
          PROVE  (Parents /\ Others /\ Sole /\ Mine)'
      <4>1. \A q \in Procs : ~ChildOf(1, q)'
        BY <3>2, <3>3 DEF ChildOf
      <4>2. proc'[1].pc \in {4, 8, 13}
        BY <2>3, <3>3
      <4>3. Parents' /\ Others'
        BY <1>2, <3>3 DEF Runs
      <4>4. Sole' /\ Mine'
        BY <4>1, <4>2 DEF Sole, Mine, Free
      <4>. QED  BY <4>3, <4>4
    <3>4. CASE Awaited(p) = {} /\ Passes(p)
      BY <1>2, <1>5, <2>1, <3>3, <3>4 DEF Passes, Moves, But
    <3>5. ASSUME NEW c \in Awaited(p), Reaps(p, c)
          PROVE  (Parents /\ Others /\ Sole /\ Mine)'
      <4>1. c \in Procs /\ Awaited(p) = {c}
        BY <1>2, <3>2, <3>5 DEF Sole
      <4>. QED  BY <1>2, <1>5, <2>1, <3>3, <3>5, <4>1 DEF Reaps, But
    <3>. QED  BY <3>2, <3>4, <3>5, WaitReaps
  <2>4. CASE proc[1].pc = 11
    <3>1. Call(p).op = "kill"
      BY <1>1, <1>3, <1>5, <2>4, PcText DEF Kill
    <3>2. PICK S \in SUBSET Procs : Signals(p, S)
      BY <1>3, <3>1, Effects
    <3>3. proc'[1].life = "code" /\ proc'[1].pc = 12 /\ proc'[1].parent = 0
      BY <1>2, <1>5, <2>1, <2>4, <3>2 DEF Signals
    <3>4. ASSUME NEW q \in Procs, q # 1
          PROVE  /\ proc'[q].parent = proc[q].parent
                 /\ proc'[q] = proc[q] \/ (proc'[q].life = "zombie" /\ proc[q].life = "code")
      BY <1>2, <1>5, <3>2, <3>4 DEF Signals, Live
    <3>5. \A q \in Procs : ChildOf(1, q)' => ChildOf(1, q)
      BY <3>3, <3>4 DEF ChildOf
    <3>6. Parents' /\ Others'
      BY <1>2, <3>3, <3>4 DEF Runs
    <3>7. Sole' /\ Mine'
      BY <1>2, <3>3, <3>5 DEF Sole, Mine
    <3>. QED  BY <3>6, <3>7
  <2>5. CASE proc[1].pc = 13
    <3>1. Call(p).op = "exit"
      BY <1>1, <1>3, <1>5, <2>5, PcText DEF Exit
    <3>2. Stops(p)
      BY <1>3, <3>1, Effects
    <3>3. /\ \A q \in Procs : q # 1 => proc'[q] = proc[q]
          /\ proc'[1].life = "zombie" /\ proc'[1].parent = 0
      BY <1>2, <1>5, <3>2 DEF Stops, But
    <3>4. \A q \in Procs : ChildOf(1, q)' => ChildOf(1, q)
      BY <3>3 DEF ChildOf
    <3>5. Parents' /\ Others'
      BY <1>2, <3>3 DEF Runs
    <3>6. Sole' /\ Mine'
      BY <1>2, <3>3, <3>4 DEF Sole, Mine, Runs
    <3>. QED  BY <3>5, <3>6
  <2>. QED  BY <2>1, <2>2, <2>3, <2>4, <2>5
<1>. QED  BY <1>4, <1>5

LEMMA ChildrenInit == Init => Children
<1>. SUFFICES ASSUME Init, prog = "pc"  PROVE Children
  BY DEF Children
<1>1. PICK roots \in {{1}, {1, 2}} :
         /\ roots = {1, 2} => prog = "basic"
         /\ proc = [p \in Procs |-> IF p \in roots THEN Started ELSE Unused]
  BY DEF Init
<1>2. roots = {1}
  BY <1>1
<1>3. /\ Started.pc = 1 /\ Started.parent = 0 /\ Started.life = "code"
      /\ Unused.pc = 1 /\ Unused.parent = 0 /\ Unused.life = "unused"
  BY DEF Started, Unused
<1>4. /\ \A p \in Procs : proc[p].pc = 1 /\ proc[p].parent = 0 /\ proc[p].life # "command"
      /\ \A p \in Procs : p # 1 => proc[p].life = "unused"
      /\ 1 \in Procs
  BY <1>1, <1>2, <1>3, MaxProcsAssumption DEF Procs
<1>. QED  BY <1>4 DEF Children, Sole, Runs, ChildOf

(* pc.c: when main() makes a child, none of an earlier case is left, so the  *)
(* status it prints afterwards is that child's.                              *)
THEOREM OwnStatusCorrect == Spec => []OwnStatus
<1>. DEFINE Inv == Typed /\ Children
<1>1. Init => Inv
  BY TypedInit, ChildrenInit
<1>2. Inv /\ [Next]_vars => Inv'
  <2>1. CASE UNCHANGED vars
    <3>1. Typed => Typed'
      BY <2>1 DEF vars, kernel, Typed, Code
    <3>2. Children => Children'
      BY <2>1 DEF vars, kernel, Children, Sole, Runs, ChildOf
    <3>. QED  BY <3>1, <3>2
  <2>. QED  BY <2>1, TypedStep, ChildrenStep DEF Next, Acts
<1>3. Inv => OwnStatus
  <2>. SUFFICES ASSUME Typed, Children, prog = "pc", NEW p \in Procs, At(p, "fork"), NEW q \in Procs
                PROVE  ~ChildOf(p, q)
    BY DEF OwnStatus
  <2>1. Runs(p) /\ Code[proc[p].pc].op = "fork"
    BY DEF At, Call, Runs
  <2>2. CASE p # 1
    <3>1. proc[p].pc \in {2, 5, 6, 9, 10}
      BY <2>1, <2>2 DEF Children
    <3>. QED  BY <2>1, <3>1, PcText DEF Exit, Divide, Sleep
  <2>3. CASE p = 1
    <3>1. proc[1].pc \in {1, 4, 8} => ~ChildOf(1, q)
      BY <2>1, <2>3 DEF Children
    <3>2. proc[1].pc \in {1, 3, 4, 7, 8, 11, 12, 13}
      BY <2>1, <2>3 DEF Children
    <3>. QED  BY <2>1, <2>3, <3>1, <3>2, PcText DEF WaitAll, Kill, Exit
  <2>. QED  BY <2>2, <2>3
<1>. QED  BY <1>1, <1>2, <1>3, PTL DEF Spec

-----------------------------------------------------------------------------
(* who_count.c and fsort.c: the children that are left                       *)

(* The local variables that hold the pids of the children a process at this  *)
(* call may have made and not yet waited for: it has no others.              *)
Yet(pc) ==
    {v \in {"pid1", "pid2"} :
        \/ prog = "who_count" /\ v = "pid1" /\ pc \in 7 .. 14
        \/ prog = "who_count" /\ v = "pid2" /\ pc \in 12 .. 15
        \/ prog = "fsort" /\ v = "pid1" /\ pc \in 11 .. 19}
Known(p, V) == \A q \in Procs : ChildOf(p, q) => \E v \in V : Reg(p, v) = q
Kin ==
    prog \in {"who_count", "fsort"} =>
        \A p \in Procs :
            /\ proc[p].life = "unused" => Known(p, {})
            /\ Runs(p) => Known(p, Yet(proc[p].pc))

LEMMA KinText ==
    ASSUME prog \in {"who_count", "fsort"}, NEW i \in DOMAIN Code
    PROVE  /\ Code[i].op \in {"fork", "exec", "exit", "wait", "pipe", "dup2", "close", "open",
                              "feed", "drain"}
           /\ Code[i].op = "fork" =>
                 /\ Code[i].v \in {"pid1", "pid2"} \ Yet(i)
                 /\ Yet(Code[i].parent) = Yet(i) \cup {Code[i].v}
                 /\ Yet(i) \subseteq Yet(Code[i].failed)
           /\ Code[i].op = "wait" =>
                 Code[i].v \in {"pid1", "pid2"} /\ Yet(i + 1) = Yet(i) \ {Code[i].v}
           /\ Code[i].op = "exit" => Yet(i) = {}
           /\ Code[i].op \in {"exec", "pipe", "dup2", "close", "open", "feed", "drain"} =>
                 Yet(i) \subseteq Yet(i + 1)
           /\ Code[i].op = "pipe" => Code[i].r \notin {"pid1", "pid2"} /\ Code[i].w \notin {"pid1", "pid2"}
           /\ Code[i].op = "open" => Code[i].v \notin {"pid1", "pid2"}
<1>. USE DEF Pipe, Fork, Dup, Close, Execlp, Wait, Exit, Open, Feed, Drain
<1>1. CASE prog = "who_count"
  <2>1. \A j \in 1 .. 16 : \/ j = 1 \/ j = 2 \/ j = 3 \/ j = 4 \/ j = 5 \/ j = 6 \/ j = 7 \/ j = 8
                           \/ j = 9 \/ j = 10 \/ j = 11 \/ j = 12 \/ j = 13 \/ j = 14 \/ j = 15 \/ j = 16
    OBVIOUS
  <2>2. \A j \in 1 .. 17 : Yet(j) = IF j \in 7 .. 11 THEN {"pid1"}
                                    ELSE IF j \in 12 .. 14 THEN {"pid1", "pid2"}
                                    ELSE IF j = 15 THEN {"pid2"} ELSE {}
    BY <1>1 DEF Yet
  <2>3. i \in 1 .. 16
    BY <1>1, WhoCountText
  <2>4. CASE i \in {1, 2, 3, 4, 5, 6}
    BY <1>1, <2>2, <2>4, WhoCountText
  <2>5. CASE i \in {7, 8, 9, 10, 11}
    BY <1>1, <2>2, <2>5, WhoCountText
  <2>6. CASE i \in {12, 13, 14, 15, 16}
    BY <1>1, <2>2, <2>6, WhoCountText
  <2>. QED  BY <2>1, <2>3, <2>4, <2>5, <2>6
<1>2. CASE prog = "fsort"
  <2>1. \A j \in 1 .. 20 : \/ j = 1 \/ j = 2 \/ j = 3 \/ j = 4 \/ j = 5 \/ j = 6 \/ j = 7 \/ j = 8
                           \/ j = 9 \/ j = 10 \/ j = 11 \/ j = 12 \/ j = 13 \/ j = 14 \/ j = 15 \/ j = 16
                           \/ j = 17 \/ j = 18 \/ j = 19 \/ j = 20
    OBVIOUS
  <2>2. \A j \in 1 .. 21 : Yet(j) = IF j \in 11 .. 19 THEN {"pid1"} ELSE {}
    BY <1>2 DEF Yet
  <2>3. i \in 1 .. 20
    BY <1>2, FSortText
  <2>4. CASE i \in {1, 2, 3, 4, 5, 6, 7}
    BY <1>2, <2>2, <2>4, FSortText
  <2>5. CASE i \in {8, 9, 10, 11, 12, 13, 14}
    BY <1>2, <2>2, <2>5, FSortText
  <2>6. CASE i \in {15, 16, 17, 18, 19, 20}
    BY <1>2, <2>2, <2>6, FSortText
  <2>. QED  BY <2>1, <2>3, <2>4, <2>5, <2>6
<1>. QED  BY <1>1, <1>2

(* A step of p that makes no child leaves everybody else as sure of his own. *)
LEMMA KinKept ==
    ASSUME Kin, prog' = prog, NEW p \in Procs, proc[p].life # "unused", proc'[p].life # "unused",
           \A q \in Procs : q # p =>
              /\ proc'[q].pc = proc[q].pc /\ proc'[q].reg = proc[q].reg
              /\ proc'[q].life \in {"code", "unused"} => proc'[q].life = proc[q].life,
           \A q, r \in Procs : ChildOf(q, r)' => ChildOf(q, r),
           (Runs(p)' /\ prog \in {"who_count", "fsort"}) => Known(p, Yet(proc[p].pc))'
    PROVE  Kin'
<1>. SUFFICES ASSUME prog \in {"who_count", "fsort"}, NEW q \in Procs
              PROVE  /\ proc'[q].life = "unused" => Known(q, {})'
                     /\ Runs(q)' => Known(q, Yet(proc[q].pc))'
  BY DEF Kin
<1>1. CASE q = p
  BY <1>1
<1>2. CASE q # p
  <2>1. proc'[q].life = "unused" => Known(q, {})'
    BY <1>2 DEF Kin, Known
  <2>2. ASSUME Runs(q)' PROVE Known(q, Yet(proc[q].pc))'
    <3>1. Known(q, Yet(proc[q].pc)) /\ proc'[q].pc = proc[q].pc /\ proc'[q].reg = proc[q].reg
      BY <1>2, <2>2 DEF Kin, Runs
    <3>2. (Yet(proc[q].pc))' = Yet(proc[q].pc)
      BY <3>1 DEF Yet
    <3>. QED  BY <3>1, <3>2 DEF Known, Reg
  <2>. QED  BY <2>1, <2>2
<1>. QED  BY <1>1, <1>2

(* p goes on to a call that no earlier child is forgotten at. *)
LEMMA KinMoves ==
    ASSUME Typed, Kin, prog' = prog, NEW p \in Procs, Runs(p), NEW n, NEW tab, NEW reg, Moves(p, n, tab, reg),
           prog \in {"who_count", "fsort"} =>
              /\ Yet(proc[p].pc) \subseteq Yet(n)
              /\ \A v \in Yet(proc[p].pc) : reg[v] = proc[p].reg[v]
    PROVE  Kin'
<1>1. /\ \A q \in Procs \ {p} : proc'[q] = proc[q]
      /\ proc'[p].life = "code" /\ proc'[p].parent = proc[p].parent /\ proc[p].life = "code"
      /\ proc'[p].pc = n /\ proc'[p].reg = reg
  BY DEF Moves, But, Runs
<1>2. \A q, r \in Procs : ChildOf(q, r)' <=> ChildOf(q, r)
  BY <1>1 DEF ChildOf
<1>3. prog \in {"who_count", "fsort"} => Known(p, Yet(proc[p].pc))'
  <2>. SUFFICES ASSUME prog \in {"who_count", "fsort"}  PROVE Known(p, Yet(proc[p].pc))'
    OBVIOUS
  <2>1. Known(p, Yet(proc[p].pc))
    BY DEF Kin
  <2>2. (Yet(proc[p].pc))' = Yet(n)
    BY <1>1 DEF Yet
  <2>. QED  BY <1>1, <1>2, <2>1, <2>2 DEF Known, Reg
<1>. QED  BY <1>1, <1>2, <1>3, KinKept

LEMMA KinStops ==
    ASSUME Kin, prog' = prog, NEW p \in Procs, proc[p].life \in {"code", "command"},
           Stops(p) \/ \E cmd : Becomes(p, cmd)
    PROVE  Kin'
<1>1. /\ \A q \in Procs \ {p} : proc'[q] = proc[q]
      /\ proc'[p].life \in {"zombie", "command"} /\ proc'[p].parent = proc[p].parent
  BY DEF Stops, Becomes, But
<1>2. \A q, r \in Procs : ChildOf(q, r)' <=> ChildOf(q, r)
  BY <1>1 DEF ChildOf
<1>. QED  BY <1>1, <1>2, KinKept DEF Runs

(* The new child is the one in the variable; it has none itself. *)
LEMMA KinFork ==
    ASSUME Typed, Kin, prog' = prog, NEW p \in Procs, Runs(p), NEW c \in Procs, NEW n, NEW v,
           Begets(p, c, n, v), v \in Register,
           prog \in {"who_count", "fsort"} => v \notin Yet(proc[p].pc) /\ Yet(n) = Yet(proc[p].pc) \cup {v}
    PROVE  Kin'
<1>1. /\ \A q \in Procs \ {p, c} : proc'[q] = proc[q]
      /\ c # p /\ proc[c].life = "unused" /\ proc[p].life = "code" /\ proc'[p].life = "code" /\ proc'[c].life = "code"
      /\ proc'[p].parent = proc[p].parent /\ proc'[c].parent = p /\ proc'[p].pc = n
      /\ proc'[p].reg = [proc[p].reg EXCEPT ![v] = c]
  BY DEF Begets, But, Runs
<1>2. /\ \A q, r \in Procs : r # c => (ChildOf(q, r)' <=> ChildOf(q, r))
      /\ \A q \in Procs : ChildOf(q, c)' => q = p
  BY <1>1 DEF ChildOf
<1>. SUFFICES ASSUME prog \in {"who_count", "fsort"}, NEW q \in Procs
              PROVE  /\ proc'[q].life = "unused" => Known(q, {})'
                     /\ Runs(q)' => Known(q, Yet(proc[q].pc))'
  BY DEF Kin
<1>3. CASE q = c
  <2>1. Known(c, {})
    BY <1>1 DEF Kin
  <2>2. \A r \in Procs : ~ChildOf(c, r)'
    BY <1>1, <1>2, <2>1 DEF Known
  <2>. QED  BY <1>3, <2>2 DEF Known
<1>4. CASE q = p
  <2>1. Known(p, Yet(proc[p].pc))
    BY DEF Kin
  <2>2. (Yet(proc[p].pc))' = Yet(proc[p].pc) \cup {v} /\ v \notin Yet(proc[p].pc)
    BY <1>1 DEF Yet
  <2>3. proc[p].reg \in Values
    BY RecordFields
  <2>4. proc'[p].reg[v] = c /\ \A w \in Yet(proc[p].pc) : proc'[p].reg[w] = proc[p].reg[w]
    BY <1>1, <2>2, <2>3 DEF Values
  <2>5. \A r \in Procs : ChildOf(p, r)' => r = c \/ \E w \in Yet(proc[p].pc) : proc'[p].reg[w] = r
    BY <1>2, <2>1, <2>4 DEF Known, Reg
  <2>6. \A r \in Procs : ChildOf(p, r)' => \E w \in (Yet(proc[p].pc))' : proc'[p].reg[w] = r
    BY <2>2, <2>4, <2>5
  <2>. QED  BY <1>1, <1>4, <2>6 DEF Known, Reg
<1>5. CASE q \notin {p, c}
  <2>1. proc'[q] = proc[q] /\ \A r \in Procs : ChildOf(q, r)' => ChildOf(q, r)
    BY <1>1, <1>2, <1>5
  <2>2. (Yet(proc[q].pc))' = Yet(proc[q].pc)
    BY <2>1 DEF Yet
  <2>. QED  BY <2>1, <2>2 DEF Kin, Known, Reg, Runs
<1>. QED  BY <1>3, <1>4, <1>5

(* waitpid() of a pid looks at that child or finds that it is none, and of a *)
(* number that is no pid at any child.                                       *)
LEMMA KinWait ==
    ASSUME Typed, Kin, prog \in {"who_count", "fsort"}, prog' = prog, NEW p \in Procs, Runs(p),
           DoWait(p), Call(p).v \in {"pid1", "pid2"},
           Yet(proc[p].pc + 1) = Yet(proc[p].pc) \ {Call(p).v}
    PROVE  Kin'
<1>. DEFINE v == Call(p).v  x == Value(p)
<1>1. Known(p, Yet(proc[p].pc)) /\ x = Reg(p, v) /\ proc[p].life = "code"
  BY DEF Kin, Value, Reg, Runs
<1>2. x \in Int /\ \A q \in Procs : q \in Int /\ q > 0
  <2>1. proc[p].reg \in Values /\ v \in Register
    BY RecordFields DEF Register
  <2>. QED  BY <2>1, MaxFdAssumption, MaxProcsAssumption DEF Value, Values, Procs, Fd, NoFd
<1>3. Awaited(p) = {q \in Procs : ChildOf(p, q) /\ (x > 0 => q = x)}
  BY DEF Awaited
<1>4. \A q \in Procs : ChildOf(p, q) /\ (x > 0 => q # x) =>
        \E w \in Yet(proc[p].pc) \ {v} : Reg(p, w) = q
  BY <1>1, <1>2 DEF Known
<1>. HIDE DEF x, v
<1>5. CASE Awaited(p) = {} /\ Passes(p)
  <2>1. /\ \A q \in Procs \ {p} : proc'[q] = proc[q]
        /\ proc'[p].life = "code" /\ proc'[p].parent = proc[p].parent
        /\ proc'[p].pc = proc[p].pc + 1 /\ proc'[p].reg = proc[p].reg
    BY <1>1, <1>5 DEF Passes, Moves, But
  <2>2. \A q, r \in Procs : ChildOf(q, r)' <=> ChildOf(q, r)
    BY <1>1, <2>1 DEF ChildOf
  <2>3. \A q \in Procs : ChildOf(p, q) => (x > 0 => q # x)
    BY <1>3, <1>5
  <2>4. (Yet(proc[p].pc))' = Yet(proc[p].pc) \ {v}
    BY <2>1 DEF Yet, v
  <2>5. Known(p, Yet(proc[p].pc))'
    BY <1>4, <2>1, <2>2, <2>3, <2>4 DEF Known, Reg
  <2>. QED  BY <1>1, <2>1, <2>2, <2>5, KinKept
<1>6. ASSUME NEW c \in Awaited(p), Reaps(p, c) PROVE Kin'
  <2>1. /\ \A q \in Procs \ {p, c} : proc'[q] = proc[q]
        /\ c # p /\ c \in Procs /\ proc[c].life = "zombie" /\ ChildOf(p, c)
        /\ proc'[p].life = "code" /\ proc'[p].parent = proc[p].parent
        /\ proc'[p].pc = proc[p].pc + 1 /\ proc'[p].reg = proc[p].reg
        /\ proc'[c].life = "reaped" /\ proc'[c].pc = proc[c].pc /\ proc'[c].reg = proc[c].reg
    BY <1>1, <1>3, <1>6 DEF Reaps, But
  <2>2. \A q, r \in Procs : ChildOf(q, r)' => ChildOf(q, r) /\ r # c
    BY <1>1, <2>1 DEF ChildOf
  <2>3. x > 0 => c = x
    BY <1>3, <1>6
  <2>4. (Yet(proc[p].pc))' = Yet(proc[p].pc) \ {v}
    BY <2>1 DEF Yet, v
  <2>5. \A r \in Procs : ChildOf(p, r)' => \E w \in Yet(proc[p].pc) \ {v} : Reg(p, w) = r
    BY <1>4, <2>2, <2>3
  <2>6. Known(p, Yet(proc[p].pc))'
    BY <2>1, <2>4, <2>5 DEF Known, Reg
  <2>. QED  BY <1>1, <2>1, <2>2, <2>6, KinKept
<1>. QED  BY <1>5, <1>6, WaitReaps

LEMMA KinStep ==
    ASSUME Typed, Kin, NEW p \in Procs, Acts(p)
    PROVE  Kin'
<1>. SUFFICES ASSUME prog \in {"who_count", "fsort"}  PROVE Kin'
  BY CallsActions DEF Kin
<1>1. prog' = prog /\ (Runs(p) \/ proc[p].life = "command")
  BY CallsActions
<1>2. CASE ~Runs(p)
  BY <1>1, <1>2, CommandStops, KinStops
<1>3. CASE Runs(p)
  <2>. DEFINE i == proc[p].pc
  <2>1. Call(p) = Code[i] /\ i \in DOMAIN Code /\ proc[p].reg \in Values /\ proc[p].life = "code"
    BY <1>3, RecordFields DEF Call, Typed, Runs
  <2>2. CASE Call(p).op = "fork"
    <3>1. /\ Call(p).v \in {"pid1", "pid2"} \ Yet(i) /\ Call(p).v \in Register
          /\ Yet(Call(p).parent) = Yet(i) \cup {Call(p).v} /\ Yet(i) \subseteq Yet(Call(p).failed)
      BY <2>1, <2>2, KinText DEF Register
    <3>2. CASE \E c \in Procs : Begets(p, c, Call(p).parent, Call(p).v)
      BY <1>1, <1>3, <3>1, <3>2, KinFork
    <3>3. CASE Moves(p, Call(p).failed, proc[p].tab, [proc[p].reg EXCEPT ![Call(p).v] = -1])
      <4>1. \A w \in Yet(i) : [proc[p].reg EXCEPT ![Call(p).v] = -1][w] = proc[p].reg[w]
        BY <2>1, <3>1 DEF Values, Yet, Register
      <4>. QED  BY <1>1, <1>3, <3>1, <3>3, <4>1, KinMoves
    <3>. QED  BY <1>3, <2>2, <3>2, <3>3, Effects
  <2>3. CASE Call(p).op = "wait"
    <3>1. Call(p).v \in {"pid1", "pid2"} /\ Yet(i + 1) = Yet(i) \ {Call(p).v} /\ DoWait(p)
      BY <1>3, <2>1, <2>3, KinText, CallsActions
    <3>. QED  BY <1>1, <1>3, <3>1, KinWait
  <2>4. CASE Call(p).op \in {"exit", "exec", "feed"} /\ (Stops(p) \/ \E cmd : Becomes(p, cmd))
    BY <1>1, <2>1, <2>4, KinStops
  <2>5. CASE Call(p).op \in {"exec", "dup2", "close", "feed", "drain", "pipe", "open"}
             /\ \E tab, reg : /\ Moves(p, i + 1, tab, reg)
                              /\ reg["pid1"] = proc[p].reg["pid1"] /\ reg["pid2"] = proc[p].reg["pid2"]
    <3>1. Yet(i) \subseteq Yet(i + 1) /\ Yet(i) \subseteq {"pid1", "pid2"}
      BY <2>1, <2>5, KinText DEF Yet
    <3>. QED  BY <1>1, <1>3, <2>5, <3>1, KinMoves
  <2>6. /\ Call(p).op \in {"exec", "feed"} => Passes(p) \/ Stops(p) \/ \E cmd : Becomes(p, cmd)
        /\ Call(p).op = "drain" => Passes(p)
        /\ Call(p).op \in {"dup2", "close"} => \E tab : Moves(p, i + 1, tab, proc[p].reg)
        /\ Call(p).op = "exit" => Stops(p)
    BY <1>3, Effects
  <2>7. CASE Call(p).op = "pipe"
    <3>1. Call(p).r \notin {"pid1", "pid2"} /\ Call(p).w \notin {"pid1", "pid2"}
      BY <2>1, <2>7, KinText
    <3>2. PICK tab, a, b : Moves(p, i + 1, tab, [proc[p].reg EXCEPT ![Call(p).r] = a, ![Call(p).w] = b])
      BY <1>3, <2>7, Effects
    <3>3. \A v \in {"pid1", "pid2"} :
             [proc[p].reg EXCEPT ![Call(p).r] = a, ![Call(p).w] = b][v] = proc[p].reg[v]
      BY <2>1, <3>1 DEF Values, Register
    <3>. QED  BY <2>5, <2>7, <3>2, <3>3
  <2>8. CASE Call(p).op = "open"
    <3>1. Call(p).v \notin {"pid1", "pid2"}
      BY <2>1, <2>8, KinText
    <3>2. PICK tab, fd : Moves(p, i + 1, tab, [proc[p].reg EXCEPT ![Call(p).v] = fd])
      BY <1>3, <2>8, Effects
    <3>3. \A v \in {"pid1", "pid2"} : [proc[p].reg EXCEPT ![Call(p).v] = fd][v] = proc[p].reg[v]
      BY <2>1, <3>1 DEF Values, Register
    <3>. QED  BY <2>5, <2>8, <3>2, <3>3
  <2>9. CASE Call(p).op \in {"exec", "feed", "drain", "dup2", "close", "exit"}
    BY <2>4, <2>5, <2>6, <2>9 DEF Passes
  <2>10. Call(p).op \in {"fork", "exec", "exit", "wait", "pipe", "dup2", "close", "open", "feed", "drain"}
    BY <2>1, KinText
  <2>. QED  BY <2>2, <2>3, <2>7, <2>8, <2>9, <2>10
<1>. QED  BY <1>2, <1>3

LEMMA KinInit == Init => Kin
<1>. SUFFICES ASSUME Init  PROVE Kin
  OBVIOUS
<1>1. PICK roots \in {{1}, {1, 2}} : proc = [p \in Procs |-> IF p \in roots THEN Started ELSE Unused]
  BY DEF Init
<1>2. Started.parent = 0 /\ Unused.parent = 0
  BY DEF Started, Unused
<1>3. \A p, q \in Procs : ~ChildOf(p, q)
  BY <1>1, <1>2, MaxProcsAssumption DEF ChildOf, Procs
<1>. QED  BY <1>3 DEF Kin, Known

(* who_count.c, fsort.c, pc.c: whoever comes to the end of main() has waited *)
(* for all its children, whichever calls failed and whoever's code it ran.   *)
THEOREM ChildrenReapedCorrect == Spec => []ChildrenReaped
<1>. DEFINE Inv == Typed /\ Children /\ Kin
<1>1. Init => Inv
  BY TypedInit, ChildrenInit, KinInit
<1>2. Inv /\ [Next]_vars => Inv'
  <2>1. CASE UNCHANGED vars
    <3>1. Typed => Typed'
      BY <2>1 DEF vars, kernel, Typed, Code
    <3>2. Children => Children'
      BY <2>1 DEF vars, kernel, Children, Sole, Runs, ChildOf
    <3>3. Kin => Kin'
      BY <2>1 DEF vars, kernel, Kin, Known, Yet, Reg, Runs, ChildOf
    <3>. QED  BY <3>1, <3>2, <3>3
  <2>. QED  BY <2>1, TypedStep, ChildrenStep, KinStep DEF Next, Acts
<1>3. Inv => ChildrenReaped
  <2>. SUFFICES ASSUME Inv, prog \in {"who_count", "fsort", "pc"},
                       NEW p \in Procs, At(p, "exit"), NEW q \in Procs
                PROVE  ~ChildOf(p, q)
    BY DEF ChildrenReaped
  <2>1. Runs(p) /\ Code[proc[p].pc].op = "exit" /\ proc[p].pc \in DOMAIN Code
    BY DEF At, Call, Runs, Typed
  <2>2. CASE prog \in {"who_count", "fsort"}
    BY <2>1, <2>2, KinText DEF Kin, Known
  <2>3. CASE prog = "pc" /\ p # 1
    BY <2>3 DEF Children, ChildOf, Procs
  <2>4. CASE prog = "pc" /\ p = 1
    <3>1. proc[1].pc \in {1, 3, 4, 7, 8, 11, 12, 13} /\ (proc[1].pc = 13 => ~ChildOf(1, q))
      BY <2>1, <2>4 DEF Children
    <3>. QED  BY <2>1, <2>4, <3>1, PcText DEF WaitAll, Kill, Fork
  <2>. QED  BY <2>2, <2>3, <2>4
<1>. QED  BY <1>1, <1>2, <1>3, PTL DEF Spec

-----------------------------------------------------------------------------
(* The commands and their descriptors *)

LEMMA Fds == 0 \in Fd /\ 1 \in Fd /\ 2 \in Fd /\ 3 .. MaxFd \subseteq Fd /\ 0 .. 2 \subseteq Fd
BY MaxFdAssumption DEF Fd

LEMMA EndsDiffer ==
    /\ \A j, k : ReadEnd(j) # WriteEnd(k) /\ ReadEnd(j) # Closed /\ WriteEnd(j) # Closed
    /\ \A j, k : ReadEnd(j) = ReadEnd(k) => j = k
    /\ \A j, k : WriteEnd(j) = WriteEnd(k) => j = k
BY DEF ReadEnd, WriteEnd, Closed

LEMMA Closing ==
    ASSUME Typed, NEW p \in Procs, NEW fd, NEW n, NEW reg, fd \notin 0 .. 2,
           Moves(p, n, CloseFd(proc[p].tab, fd), reg)
    PROVE  /\ Input(p)' = Input(p) /\ Output(p)' = Output(p)
           /\ High(p)' = High(p) \ {fd}
           /\ \A f \in Fd \ {fd} : proc'[p].tab[f] = proc[p].tab[f]
<1>1. proc'[p].tab = [f \in Fd |-> IF f = fd THEN Closed ELSE proc[p].tab[f]]
  BY DEF Moves, CloseFd
<1>. QED  BY <1>1, Fds DEF Input, Output, High, STDIN_FILENO, STDOUT_FILENO

LEMMA Duplicating ==
    ASSUME Typed, NEW p \in Procs, NEW fd, NEW n, NEW reg, NEW to \in {0, 1},
           Moves(p, n, Dup2(proc[p].tab, fd, to), reg)
    PROVE  /\ High(p)' = High(p)
           /\ \A f \in Fd \ {to} : proc'[p].tab[f] = proc[p].tab[f]
           /\ fd \in Fd /\ proc[p].tab[fd] # Closed => proc'[p].tab[to] = proc[p].tab[fd]
<1>1. proc'[p].tab = [f \in Fd |-> IF f = to /\ IsOpen(proc[p].tab, fd) THEN proc[p].tab[fd] ELSE proc[p].tab[f]]
  BY DEF Moves, Dup2
<1>. QED  BY <1>1, Fds DEF High, IsOpen

LEMMA Piping ==
    ASSUME Typed, NEW p \in Procs, LowOpen(p), NEW n, NEW reg,
           NEW a \in Fd, NEW b \in Fd, NEW k \in UnusedPipes,
           a < b, IsLowestFree(proc[p].tab, a), proc[p].tab[b] = Closed,
           Moves(p, n, [proc[p].tab EXCEPT ![a] = ReadEnd(k), ![b] = WriteEnd(k)], reg)
    PROVE  /\ a \in 3 .. MaxFd /\ b \in 3 .. MaxFd /\ k \in Pipes
           /\ a \notin High(p) /\ b \notin High(p)
           /\ High(p)' = High(p) \cup {a, b}
           /\ proc'[p].tab[a] = ReadEnd(k) /\ proc'[p].tab[b] = WriteEnd(k)
           /\ \A f \in Fd \ {a, b} : proc'[p].tab[f] = proc[p].tab[f]
<1>1. proc[p].tab \in [Fd -> File]
  BY RecordFields DEF Table
<1>2. a \notin 0 .. 2
  BY DEF LowOpen, IsLowestFree
<1>3. a \in 3 .. MaxFd /\ b \in 3 .. MaxFd /\ a # b
  BY <1>2, MaxFdAssumption DEF Fd
<1>4. /\ proc'[p].tab[a] = ReadEnd(k) /\ proc'[p].tab[b] = WriteEnd(k)
      /\ \A f \in Fd \ {a, b} : proc'[p].tab[f] = proc[p].tab[f]
  BY <1>1, <1>3 DEF Moves
<1>5. a \notin High(p) /\ b \notin High(p) /\ k \in Pipes
  BY DEF High, UnusedPipes, IsLowestFree
<1>6. High(p)' = High(p) \cup {a, b}
  BY <1>3, <1>4, Fds, EndsDiffer DEF High
<1>. QED  BY <1>3, <1>4, <1>5, <1>6

LEMMA History ==
    ASSUME Typed, NEW p \in Procs, Acts(p)
    PROVE  happened \subseteq happened'
<1>1. CASE ~Runs(p)
  BY <1>1, CommandStops
<1>2. CASE Runs(p)
  <2>1. Call(p).op \in Calling
    BY <1>2, CallsActions
  <2>. QED  BY <1>2, <2>1, Effects DEF Calling, Quiet
<1>. QED  BY <1>1, <1>2

(* Who does not act is where he was; who ends is nowhere. *)
LEMMA WhoCountKept ==
    ASSUME NEW q \in Procs, WhoCountAt(q), happened \subseteq happened',
           proc'[q] = proc[q] \/ proc'[q].life \notin {"code", "command"}
    PROVE  WhoCountAt(q)'
BY DEF WhoCountAt, Runs, Above, LowOpen, Output, Input, High, HasPipe, OnlyHigh, Puts, Gets, Astray, Lies, Reg

LEMMA WhoCountFork ==
    ASSUME Typed, NEW p \in Procs, NEW c \in Procs, prog = "who_count", WhoCountAt(p), Runs(p),
           happened \subseteq happened', proc[p].pc \in {2, 7},
           proc'[c].tab = proc[p].tab, proc'[c].life = "code",
           \A v \in {"pfd0", "pfd1"} : proc'[c].reg[v] = proc[p].reg[v],
           proc'[c].pc \in (IF proc[p].pc = 2 THEN {3, 7} ELSE {8, 12})
    PROVE  WhoCountAt(c)'
<1>1. Above(c, {"pfd0", "pfd1"})'
  BY DEF WhoCountAt, Above, Reg
<1>2. High(c)' = High(p) /\ Output(c)' = Output(p)
  BY DEF High, Output
<1>3. OnlyHigh(p, {"pfd0", "pfd1"}) => OnlyHigh(c, {"pfd0", "pfd1"})'
  BY <1>2 DEF OnlyHigh, Reg
<1>4. HasPipe(p) => HasPipe(c)'
  BY DEF HasPipe, Lies, Reg
<1>5. Astray(p) => Astray(c)'
  BY <1>2 DEF Astray
<1>6. proc'[c].pc \in {3, 7, 8, 12}
  OBVIOUS
<1>7. CASE proc[p].pc = 2
  <2>1. HasPipe(p) /\ OnlyHigh(p, {"pfd0", "pfd1"}) /\ Output(p) = Tty
    BY <1>7 DEF WhoCountAt
  <2>2. proc'[c].pc \in {3, 7}
    BY <1>7
  <2>. QED  BY <1>1, <1>2, <1>3, <1>4, <2>1, <2>2 DEF WhoCountAt
<1>8. CASE proc[p].pc = 7
  <2>1. Astray(p) \/ (HasPipe(p) /\ OnlyHigh(p, {"pfd0", "pfd1"}) /\ Output(p) = Tty)
    BY <1>8 DEF WhoCountAt
  <2>2. proc'[c].pc \in {8, 12}
    BY <1>8
  <2>. QED  BY <1>1, <1>2, <1>3, <1>4, <1>5, <2>1, <2>2 DEF WhoCountAt
<1>. QED  BY <1>7, <1>8

LEMMA WhoCountStep ==
    ASSUME Typed, prog = "who_count", \A q \in Procs : WhoCountAt(q), NEW p \in Procs, Acts(p)
    PROVE  \A q \in Procs : WhoCountAt(q)'
<1>. DEFINE V == {"pfd0", "pfd1"}
            pc == proc[p].pc
<1>1. \A q \in Procs : proc'[q] = proc[q] \/ proc'[q].life \notin {"code", "command"} => WhoCountAt(q)'
  BY WhoCountKept, History
<1>2. But({p}) /\ WhoCountAt(p)' => \A q \in Procs : WhoCountAt(q)'
  BY <1>1 DEF But
<1>3. Stops(p) => \A q \in Procs : WhoCountAt(q)'
  BY <1>1 DEF Stops, But
<1>4. CASE ~Runs(p)
  BY <1>3, <1>4, CommandStops
<1>5. CASE Runs(p)
  <2>. DEFINE Here(n) == Moves(p, n, proc[p].tab, proc[p].reg)
  <2>1. Call(p) = Code[pc] /\ pc \in 1 .. 16
    BY WhoCountText DEF Call, Typed
  <2>2. pc >= 2 => Above(p, V)
    BY <1>5 DEF WhoCountAt
  <2>3. \A n, tab : Moves(p, n, tab, proc[p].reg) => /\ Runs(p)' /\ proc'[p].life = "code" /\ proc'[p].pc = n
                                                     /\ proc'[p].reg = proc[p].reg /\ But({p})
                                                     /\ \A v : Reg(p, v)' = Reg(p, v)
                                                     /\ Above(p, V) => Above(p, V)'
    BY <1>5 DEF Moves, Runs, Above, Reg
  <2>4. CASE pc = 1
    <3>1. Call(p).op = "pipe" /\ Call(p).r = "pfd0" /\ Call(p).w = "pfd1"
      BY <2>1, <2>4, WhoCountText DEF Pipe
    <3>2. LowOpen(p) /\ Output(p) = Tty /\ High(p) = {}
      BY <1>5, <2>4 DEF WhoCountAt
    <3>3. PICK a, b \in Fd, k \in UnusedPipes :
             /\ a < b /\ IsLowestFree(proc[p].tab, a) /\ proc[p].tab[b] = Closed
             /\ Moves(p, pc + 1, [proc[p].tab EXCEPT ![a] = ReadEnd(k), ![b] = WriteEnd(k)],
                      [proc[p].reg EXCEPT ![Call(p).r] = a, ![Call(p).w] = b])
      BY <1>5, <3>1, Effects
    <3>4. /\ a \in 3 .. MaxFd /\ b \in 3 .. MaxFd /\ k \in Pipes
          /\ High(p)' = High(p) \cup {a, b}
          /\ proc'[p].tab[a] = ReadEnd(k) /\ proc'[p].tab[b] = WriteEnd(k)
          /\ \A f \in Fd \ {a, b} : proc'[p].tab[f] = proc[p].tab[f]
      BY <3>2, <3>3, Piping
    <3>5. proc'[p].life = "code" /\ proc'[p].pc = 2 /\ But({p})
      BY <1>5, <2>4, <3>3 DEF Moves, Runs
    <3>6. Reg(p, "pfd0")' = a /\ Reg(p, "pfd1")' = b
      BY <3>1, <3>3, RecordFields DEF Reg, Values, Register, Moves
    <3>7. HasPipe(p)' /\ OnlyHigh(p, V)' /\ Above(p, V)' /\ Output(p)' = Tty
      BY <3>2, <3>4, <3>6, Fds DEF HasPipe, OnlyHigh, Above, Lies, Output, STDOUT_FILENO
    <3>8. WhoCountAt(p)'
      BY <3>5, <3>7 DEF WhoCountAt
    <3>. QED  BY <1>2, <3>5, <3>8
  <2>5. CASE pc \in {2, 7}
    <3>1. Call(p).op = "fork" /\ Call(p).v \in {"pid1", "pid2"} /\ Call(p).parent = (IF pc = 2 THEN 7 ELSE 12)
          /\ Call(p).failed = pc + 1
      BY <2>1, <2>5, WhoCountText DEF Fork
    <3>2. CASE \E reg : Moves(p, Call(p).failed, proc[p].tab, [proc[p].reg EXCEPT ![Call(p).v] = -1])
      <4>1. \A v \in V : proc'[p].reg[v] = proc[p].reg[v]
        BY <3>1, <3>2, RecordFields DEF Moves, Values, Register
      <4>2. proc'[p].tab = proc[p].tab /\ proc'[p].life = "code" /\ proc'[p].pc = pc + 1 /\ But({p})
        BY <1>5, <3>1, <3>2 DEF Moves, Runs
      <4>3. WhoCountAt(p)'
        <5>1. pc + 1 \in (IF proc[p].pc = 2 THEN {3, 7} ELSE {8, 12})
          BY <2>5
        <5>. QED  BY <1>5, <2>5, <4>1, <4>2, <5>1, History, WhoCountFork
      <4>. QED  BY <1>2, <4>2, <4>3
    <3>3. ASSUME NEW c \in Procs, Begets(p, c, Call(p).parent, Call(p).v)
          PROVE  \A q \in Procs : WhoCountAt(q)'
      <4>1. \A v \in V : proc'[p].reg[v] = proc[p].reg[v] /\ proc'[c].reg[v] = proc[p].reg[v]
        BY <3>1, <3>3, RecordFields DEF Begets, Values, Register
      <4>2. /\ proc'[p].tab = proc[p].tab /\ proc'[p].life = "code" /\ proc'[p].pc = Call(p).parent
            /\ proc'[c].tab = proc[p].tab /\ proc'[c].life = "code" /\ proc'[c].pc = pc + 1 /\ But({p, c})
        BY <1>5, <3>1, <3>3 DEF Begets, Runs
      <4>3. pc + 1 \in (IF proc[p].pc = 2 THEN {3, 7} ELSE {8, 12})
            /\ Call(p).parent \in (IF proc[p].pc = 2 THEN {3, 7} ELSE {8, 12})
        BY <2>5, <3>1
      <4>4. WhoCountAt(p)' /\ WhoCountAt(c)'
        BY <1>5, <2>5, <4>1, <4>2, <4>3, History, WhoCountFork
      <4>. QED  BY <1>1, <4>2, <4>4 DEF But
    <3>. QED  BY <1>5, <3>1, <3>2, <3>3, Effects
  <2>6. CASE pc \in {3, 8}
    <3>. DEFINE v == IF pc = 3 THEN "pfd1" ELSE "pfd0"
                to == IF pc = 3 THEN 1 ELSE 0
    <3>1. Call(p).op = "dup2" /\ Call(p).v = v /\ Call(p).to = to
      BY <2>1, <2>6, WhoCountText DEF Dup, STDIN_FILENO, STDOUT_FILENO
    <3>2. Moves(p, pc + 1, Dup2(proc[p].tab, Reg(p, v), to), proc[p].reg)
      BY <1>5, <3>1, Effects DEF Value, Reg
    <3>3. /\ High(p)' = High(p)
          /\ \A f \in Fd \ {to} : proc'[p].tab[f] = proc[p].tab[f]
          /\ Reg(p, v) \in Fd /\ proc[p].tab[Reg(p, v)] # Closed => proc'[p].tab[to] = proc[p].tab[Reg(p, v)]
      BY <3>2, Duplicating
    <3>4. Above(p, V)' /\ (OnlyHigh(p, V) => OnlyHigh(p, V)') /\ proc'[p].life = "code" /\ proc'[p].pc = pc + 1 /\ But({p})
      BY <2>2, <2>3, <2>6, <3>2, <3>3 DEF OnlyHigh
    <3>5. CASE pc = 3
      <4>1. PICK k \in Pipes : Lies(p, "pfd1", WriteEnd(k))
        BY <1>5, <3>5 DEF WhoCountAt, HasPipe
      <4>2. Puts(p)'
        BY <3>3, <3>5, <4>1, EndsDiffer, Fds DEF Lies, Puts, Output, STDOUT_FILENO
      <4>3. OnlyHigh(p, V)'
        BY <1>5, <3>4, <3>5 DEF WhoCountAt
      <4>4. WhoCountAt(p)'
        BY <3>4, <3>5, <4>2, <4>3 DEF WhoCountAt
      <4>. QED  BY <1>2, <3>4, <4>4
    <3>6. CASE pc = 8
      <4>1. Output(p)' = Output(p)
        BY <3>3, <3>6, Fds DEF Output, STDOUT_FILENO
      <4>2. Astray(p) => Astray(p)'
        BY <3>3, History DEF Astray
      <4>3. HasPipe(p) => Gets(p)'
        BY <3>3, <3>6, EndsDiffer, Fds DEF Lies, HasPipe, Gets, Input, STDIN_FILENO
      <4>4. Astray(p) \/ (HasPipe(p) /\ OnlyHigh(p, V) /\ Output(p) = Tty)
        BY <1>5, <3>6 DEF WhoCountAt
      <4>5. WhoCountAt(p)'
        BY <3>4, <3>6, <4>1, <4>2, <4>3, <4>4 DEF WhoCountAt
      <4>. QED  BY <1>2, <3>4, <4>5
    <3>. QED  BY <2>6, <3>5, <3>6
  <2>7. CASE pc \in {4, 5, 9, 10, 12, 13}
    <3>. DEFINE v == IF pc \in {4, 9, 13} THEN "pfd1" ELSE "pfd0"
    <3>1. Call(p).op = "close" /\ Call(p).v = v
      BY <2>1, <2>7, WhoCountText DEF Close
    <3>. HIDE DEF v
    <3>2. Moves(p, pc + 1, CloseFd(proc[p].tab, Reg(p, v)), proc[p].reg)
      BY <1>5, <3>1, Effects DEF Value, Reg
    <3>3. Input(p)' = Input(p) /\ Output(p)' = Output(p) /\ High(p)' = High(p) \ {Reg(p, v)}
      <4>1. Reg(p, v) \notin 0 .. 2
        BY <2>2, <2>7 DEF Above, v
      <4>. QED  BY <3>2, <4>1, Closing
    <3>4. /\ Above(p, V)' /\ proc'[p].life = "code" /\ proc'[p].pc = pc + 1 /\ But({p})
          /\ Reg(p, "pfd0")' = Reg(p, "pfd0") /\ Reg(p, "pfd1")' = Reg(p, "pfd1")
      BY <2>2, <2>3, <2>7, <3>2
    <3>5. /\ Puts(p) => Puts(p)'
          /\ Gets(p) => Gets(p)'
          /\ Astray(p) => Astray(p)'
      BY <3>3, History DEF Puts, Gets, Astray
    <3>6. pc \in {4, 9} => (OnlyHigh(p, V) => OnlyHigh(p, {"pfd0"})')
      BY <3>3, <3>4 DEF OnlyHigh, v
    <3>7. pc \in {5, 10} => (OnlyHigh(p, {"pfd0"}) => High(p)' = {})
      BY <3>3 DEF OnlyHigh, v
    <3>8. WhoCountAt(p)'
      <4>1. CASE pc = 4
        BY <1>5, <3>4, <3>5, <3>6, <4>1 DEF WhoCountAt
      <4>2. CASE pc = 5
        BY <1>5, <3>4, <3>5, <3>7, <4>2 DEF WhoCountAt
      <4>3. CASE pc = 9
        BY <1>5, <3>3, <3>4, <3>5, <3>6, <4>3 DEF WhoCountAt
      <4>4. CASE pc = 10
        BY <1>5, <3>3, <3>4, <3>5, <3>7, <4>4 DEF WhoCountAt
      <4>5. CASE pc \in {12, 13}
        BY <3>4, <4>5 DEF WhoCountAt
      <4>. QED  BY <2>7, <4>1, <4>2, <4>3, <4>4, <4>5
    <3>. QED  BY <1>2, <3>4, <3>8
  <2>8. CASE pc \in {6, 11}
    <3>. DEFINE cmd == IF pc = 6 THEN "ls" ELSE "wc"
    <3>1. Call(p).op = "exec" /\ Call(p).cmd = cmd
      BY <2>1, <2>8, WhoCountText DEF Execlp
    <3>2. CASE Becomes(p, cmd)
      <4>1. /\ proc'[p].life = "command" /\ proc'[p].cmd = cmd /\ But({p})
            /\ High(p)' = High(p) /\ Input(p)' = Input(p) /\ Output(p)' = Output(p)
        BY <3>2 DEF Becomes, High, Input, Output
      <4>2. (Puts(p) => Puts(p)') /\ (Gets(p) => Gets(p)')
        BY <4>1 DEF Puts, Gets
      <4>3. /\ High(p) = {}
            /\ pc = 6 => Puts(p)
            /\ pc = 11 => "exec" \in happened \/ (Gets(p) /\ Output(p) = Tty)
        BY <1>5, <2>8 DEF WhoCountAt, Astray
      <4>4. WhoCountAt(p)'
        BY <2>8, <4>1, <4>2, <4>3, History DEF WhoCountAt, Runs
      <4>. QED  BY <1>2, <4>1, <4>4
    <3>3. CASE "exec" \in happened' /\ Passes(p)
      <4>1. /\ proc'[p].life = "code" /\ proc'[p].pc = pc + 1 /\ But({p}) /\ Above(p, V)'
        BY <2>2, <2>3, <2>8, <3>3 DEF Passes
      <4>2. High(p)' = High(p)
        BY <3>3 DEF Passes, Moves, High
      <4>3. High(p) = {}
        BY <1>5, <2>8 DEF WhoCountAt, Astray
      <4>4. WhoCountAt(p)'
        BY <2>8, <3>3, <4>1, <4>2, <4>3 DEF WhoCountAt, Astray
      <4>. QED  BY <1>2, <4>1, <4>4
    <3>. QED  BY <1>5, <3>1, <3>2, <3>3, Effects
  <2>9. CASE pc \in {14, 15}
    <3>1. Call(p).op = "wait"
      BY <2>1, <2>9, WhoCountText DEF Wait
    <3>2. CASE Passes(p)
      <4>1. /\ proc'[p].life = "code" /\ proc'[p].pc = pc + 1 /\ But({p}) /\ Above(p, V)'
        BY <2>2, <2>3, <2>9, <3>2 DEF Passes
      <4>2. WhoCountAt(p)'
        BY <2>9, <4>1 DEF WhoCountAt
      <4>. QED  BY <1>2, <4>1, <4>2
    <3>3. ASSUME NEW c \in Procs, Reaps(p, c)
          PROVE  \A q \in Procs : WhoCountAt(q)'
      <4>1. /\ proc'[p].life = "code" /\ proc'[p].pc = pc + 1 /\ But({p, c}) /\ proc'[c].life = "reaped"
            /\ proc'[p].reg = proc[p].reg
        BY <1>5, <3>3 DEF Reaps, Runs
      <4>2. Above(p, V)'
        BY <2>2, <2>9, <4>1 DEF Above, Reg
      <4>3. WhoCountAt(p)'
        BY <2>9, <4>1, <4>2 DEF WhoCountAt
      <4>. QED  BY <1>1, <4>1, <4>3 DEF But
    <3>. QED  BY <1>5, <3>1, <3>2, <3>3, Effects
  <2>10. CASE pc = 16
    <3>1. Call(p).op = "exit"
      BY <2>1, <2>10, WhoCountText DEF Exit
    <3>. QED  BY <1>3, <1>5, <3>1, Effects
  <2>. QED  BY <2>1, <2>4, <2>5, <2>6, <2>7, <2>8, <2>9, <2>10
<1>. QED  BY <1>4, <1>5

LEMMA FSortKept ==
    ASSUME NEW q \in Procs, FSortAt(q),
           proc'[q] = proc[q] \/ proc'[q].life \notin {"code", "command"}
    PROVE  FSortAt(q)'
<1>1. CASE proc'[q].life \notin {"code", "command"}
  BY <1>1 DEF FSortAt, Runs
<1>2. CASE proc'[q] = proc[q]
  <2>1. /\ Runs(q)' <=> Runs(q)
        /\ High(q)' = High(q) /\ Input(q)' = Input(q) /\ Output(q)' = Output(q)
        /\ LowOpen(q)' <=> LowOpen(q)
        /\ \A v : Reg(q, v)' = Reg(q, v)
        /\ \A v, file : Lies(q, v, file)' <=> Lies(q, v, file)
    BY <1>2 DEF Runs, LowOpen, Output, Input, High, Lies, Reg
  <2>2. /\ HasPipe(q)' <=> HasPipe(q)
        /\ Between(q)' <=> Between(q)
        /\ \A V : (OnlyHigh(q, V)' <=> OnlyHigh(q, V)) /\ (Above(q, V)' <=> Above(q, V))
    BY <2>1 DEF HasPipe, Between, OnlyHigh, Above
  <2>. QED  BY <1>2, <2>1, <2>2 DEF FSortAt
<1>. QED  BY <1>1, <1>2

LEMMA FSortStep ==
    ASSUME Typed, prog = "fsort", \A q \in Procs : FSortAt(q), NEW p \in Procs, Acts(p)
    PROVE  \A q \in Procs : FSortAt(q)'
<1>. DEFINE V == {"pfd0", "pfd1", "in0", "in1"}
            pc == proc[p].pc
            Apart == Reg(p, "in1") \notin {Reg(p, "pfd0"), Reg(p, "pfd1"), Reg(p, "in0")}
            Laid == \E j, k \in Pipes : j # k /\ Lies(p, "pfd0", ReadEnd(j)) /\ Lies(p, "in1", WriteEnd(k))
            Half == \E j, k \in Pipes : j # k /\ Input(p) = ReadEnd(j) /\ Lies(p, "in1", WriteEnd(k))
<1>1. \A q \in Procs : proc'[q] = proc[q] \/ proc'[q].life \notin {"code", "command"} => FSortAt(q)'
  BY FSortKept
<1>2. But({p}) /\ FSortAt(p)' => \A q \in Procs : FSortAt(q)'
  BY <1>1 DEF But
<1>3. Stops(p) => \A q \in Procs : FSortAt(q)'
  BY <1>1 DEF Stops, But
<1>4. CASE ~Runs(p)
  BY <1>3, <1>4, CommandStops
<1>5. CASE Runs(p)
  <2>1. Call(p) = Code[pc] /\ pc \in 1 .. 20
    BY FSortText DEF Call, Typed
  <2>2. pc >= 3 => Above(p, V)
    BY <1>5 DEF FSortAt
  <2>3. \A n, tab : Moves(p, n, tab, proc[p].reg) => /\ proc'[p].life = "code" /\ proc'[p].pc = n /\ But({p})
                                                     /\ \A v : Reg(p, v)' = Reg(p, v)
                                                     /\ Above(p, V) => Above(p, V)'
    BY <1>5 DEF Moves, Runs, Above, Reg
  <2>4. CASE pc \in {1, 2}
    <3>. DEFINE r == IF pc = 1 THEN "pfd0" ELSE "in0"
                w == IF pc = 1 THEN "pfd1" ELSE "in1"
    <3>1. Call(p).op = "pipe" /\ Call(p).r = r /\ Call(p).w = w
      BY <2>1, <2>4, FSortText DEF Pipe
    <3>2. LowOpen(p)
      BY <1>5, <2>4 DEF FSortAt
    <3>3. PICK a, b \in Fd, k \in UnusedPipes :
             /\ a < b /\ IsLowestFree(proc[p].tab, a) /\ proc[p].tab[b] = Closed
             /\ Moves(p, pc + 1, [proc[p].tab EXCEPT ![a] = ReadEnd(k), ![b] = WriteEnd(k)],
                      [proc[p].reg EXCEPT ![Call(p).r] = a, ![Call(p).w] = b])
      BY <1>5, <3>1, Effects
    <3>4. /\ a \in 3 .. MaxFd /\ b \in 3 .. MaxFd /\ k \in Pipes
          /\ a \notin High(p) /\ b \notin High(p)
          /\ High(p)' = High(p) \cup {a, b}
          /\ proc'[p].tab[a] = ReadEnd(k) /\ proc'[p].tab[b] = WriteEnd(k)
          /\ \A f \in Fd \ {a, b} : proc'[p].tab[f] = proc[p].tab[f]
      BY <3>2, <3>3, Piping
    <3>5. proc'[p].life = "code" /\ proc'[p].pc = pc + 1 /\ But({p})
      BY <1>5, <2>4, <3>3 DEF Moves, Runs
    <3>6. /\ pc = 1 => Reg(p, "pfd0")' = a /\ Reg(p, "pfd1")' = b
          /\ pc = 2 => /\ Reg(p, "in0")' = a /\ Reg(p, "in1")' = b
                       /\ Reg(p, "pfd0")' = Reg(p, "pfd0") /\ Reg(p, "pfd1")' = Reg(p, "pfd1")
      <4>1. proc'[p].reg = [proc[p].reg EXCEPT ![r] = a, ![w] = b] /\ proc[p].reg \in Values
        BY <3>1, <3>3, RecordFields DEF Moves
      <4>2. CASE pc = 1
        <5>1. proc'[p].reg = [proc[p].reg EXCEPT !["pfd0"] = a, !["pfd1"] = b]
          BY <4>1, <4>2
        <5>. QED  BY <4>1, <4>2, <5>1 DEF Reg, Values, Register
      <4>3. CASE pc = 2
        <5>1. proc'[p].reg = [proc[p].reg EXCEPT !["in0"] = a, !["in1"] = b]
          BY <4>1, <4>3
        <5>. QED  BY <4>1, <4>3, <5>1 DEF Reg, Values, Register
      <4>. QED  BY <2>4, <4>2, <4>3
    <3>7. CASE pc = 1
      <4>1. High(p) = {} /\ \A f \in 0 .. 2 : proc'[p].tab[f] = proc[p].tab[f]
        BY <1>5, <3>4, <3>7, Fds DEF FSortAt
      <4>2. HasPipe(p)' /\ OnlyHigh(p, {"pfd0", "pfd1"})'
        BY <3>4, <3>6, <3>7, <4>1 DEF HasPipe, OnlyHigh, Lies
      <4>4. LowOpen(p)'
        BY <3>2, <4>1 DEF LowOpen
      <4>3. FSortAt(p)'
        BY <3>5, <3>7, <4>2, <4>4 DEF FSortAt
      <4>. QED  BY <1>2, <3>5, <4>3
    <3>8. CASE pc = 2
      <4>1. PICK j \in Pipes : Lies(p, "pfd0", ReadEnd(j)) /\ Lies(p, "pfd1", WriteEnd(j))
        BY <1>5, <3>8 DEF FSortAt, HasPipe
      <4>2. Reg(p, "pfd0") \in High(p) /\ Reg(p, "pfd1") \in High(p)
        BY <4>1, EndsDiffer DEF Lies, High
      <4>3. j # k
        <5>1. HeldSomewhere(ReadEnd(j))
          BY <1>5, <4>1, Fds DEF HeldSomewhere, Live, Holds, Lies, Runs
        <5>. QED  BY <3>3, <5>1 DEF UnusedPipes
      <4>4. /\ Reg(p, "in0")' = a /\ Reg(p, "in1")' = b
            /\ Reg(p, "pfd0")' = Reg(p, "pfd0") /\ Reg(p, "pfd1")' = Reg(p, "pfd1")
        BY <3>6, <3>8
      <4>5. Lies(p, "pfd0", ReadEnd(j))' /\ Lies(p, "in1", WriteEnd(k))'
        BY <3>4, <4>1, <4>2, <4>4, Fds DEF Lies
      <4>6. Laid' /\ Apart' /\ Above(p, V)'
        BY <3>3, <3>4, <4>2, <4>3, <4>4, <4>5 DEF Above, High
      <4>7. OnlyHigh(p, V)'
        <5>1. High(p) \subseteq {Reg(p, "pfd0"), Reg(p, "pfd1")}
          BY <1>5, <3>8 DEF FSortAt, OnlyHigh
        <5>. QED  BY <3>4, <4>4, <5>1 DEF OnlyHigh
      <4>8. FSortAt(p)'
        BY <3>5, <3>8, <4>6, <4>7 DEF FSortAt
      <4>. QED  BY <1>2, <3>5, <4>8
    <3>. QED  BY <2>4, <3>7, <3>8
  <2>5. CASE pc = 3
    <3>1. Call(p).op = "fork" /\ Call(p).v = "pid1" /\ Call(p).parent = 11 /\ Call(p).failed = 11
      BY <2>1, <2>5, FSortText DEF Fork
    <3>2. Laid /\ Apart /\ OnlyHigh(p, V) /\ Above(p, V)
      BY <1>5, <2>5 DEF FSortAt
    <3>3. CASE Moves(p, Call(p).failed, proc[p].tab, [proc[p].reg EXCEPT ![Call(p).v] = -1])
      <4>1. \A v \in V : Reg(p, v)' = Reg(p, v)
        BY <3>1, <3>3, RecordFields DEF Moves, Values, Register, Reg
      <4>2. proc'[p].life = "code" /\ proc'[p].pc = 11 /\ But({p})
        BY <1>5, <3>1, <3>3 DEF Moves, Runs
      <4>3. FSortAt(p)'
        BY <3>2, <4>1, <4>2 DEF FSortAt, Above
      <4>. QED  BY <1>2, <4>2, <4>3
    <3>4. ASSUME NEW c \in Procs, Begets(p, c, Call(p).parent, Call(p).v)
          PROVE  \A q \in Procs : FSortAt(q)'
      <4>1. \A v \in V : Reg(p, v)' = Reg(p, v) /\ Reg(c, v)' = Reg(p, v)
        BY <3>1, <3>4, RecordFields DEF Begets, Values, Register, Reg
      <4>2. /\ proc'[p].life = "code" /\ proc'[p].pc = 11
            /\ proc'[c].tab = proc[p].tab /\ proc'[c].life = "code" /\ proc'[c].pc = 4 /\ But({p, c})
        BY <1>5, <2>5, <3>1, <3>4 DEF Begets, Runs
      <4>3. FSortAt(p)'
        BY <3>2, <4>1, <4>2 DEF FSortAt, Above
      <4>4. High(c)' = High(p)
        BY <4>2 DEF High
      <4>5. OnlyHigh(c, V)' /\ Above(c, V)'
        BY <3>2, <4>1, <4>4 DEF OnlyHigh, Above
      <4>6. FSortAt(c)'
        BY <3>2, <4>1, <4>2, <4>5 DEF FSortAt, Lies
      <4>. QED  BY <1>1, <4>2, <4>3, <4>6 DEF But
    <3>. QED  BY <1>5, <3>1, <3>3, <3>4, Effects
  <2>6. CASE pc \in {4, 7}
    <3>. DEFINE v == IF pc = 4 THEN "pfd0" ELSE "in1"
                to == IF pc = 4 THEN 0 ELSE 1
    <3>1. Call(p).op = "dup2" /\ Call(p).v = v /\ Call(p).to = to
      BY <2>1, <2>6, FSortText DEF Dup, STDIN_FILENO, STDOUT_FILENO
    <3>2. Moves(p, pc + 1, Dup2(proc[p].tab, Reg(p, v), to), proc[p].reg)
      BY <1>5, <3>1, Effects DEF Value, Reg
    <3>3. /\ High(p)' = High(p)
          /\ \A f \in Fd \ {to} : proc'[p].tab[f] = proc[p].tab[f]
          /\ Reg(p, v) \in Fd /\ proc[p].tab[Reg(p, v)] # Closed => proc'[p].tab[to] = proc[p].tab[Reg(p, v)]
      BY <3>2, Duplicating
    <3>4. /\ Above(p, V)' /\ proc'[p].life = "code" /\ proc'[p].pc = pc + 1 /\ But({p})
          /\ \A x : Reg(p, x)' = Reg(p, x)
      BY <2>2, <2>3, <2>6, <3>2
    <3>5. CASE pc = 4
      <4>1. Laid /\ Apart /\ OnlyHigh(p, V)
        BY <1>5, <3>5 DEF FSortAt
      <4>2. Half'
        BY <3>3, <3>4, <3>5, <4>1, EndsDiffer, Fds DEF Lies, Input, STDIN_FILENO
      <4>3. Apart' /\ OnlyHigh(p, V)'
        BY <3>3, <3>4, <4>1 DEF OnlyHigh
      <4>4. FSortAt(p)'
        BY <3>4, <3>5, <4>2, <4>3 DEF FSortAt
      <4>. QED  BY <1>2, <3>4, <4>4
    <3>6. CASE pc = 7
      <4>1. Half /\ OnlyHigh(p, {"in0", "in1"})
        BY <1>5, <3>6 DEF FSortAt
      <4>2. Between(p)'
        BY <3>3, <3>4, <3>6, <4>1, EndsDiffer, Fds DEF Lies, Input, Output, Between, STDIN_FILENO, STDOUT_FILENO
      <4>3. OnlyHigh(p, {"in0", "in1"})'
        BY <3>3, <3>4, <4>1 DEF OnlyHigh
      <4>4. FSortAt(p)'
        BY <3>4, <3>6, <4>2, <4>3 DEF FSortAt
      <4>. QED  BY <1>2, <3>4, <4>4
    <3>. QED  BY <2>6, <3>5, <3>6
  <2>7. CASE pc \in {5, 6, 8, 9}
    <3>. DEFINE v == IF pc = 5 THEN "pfd0" ELSE IF pc = 6 THEN "pfd1" ELSE IF pc = 8 THEN "in0" ELSE "in1"
    <3>1. Call(p).op = "close" /\ Call(p).v = v
      BY <2>1, <2>7, FSortText DEF Close
    <3>. HIDE DEF v
    <3>2. Moves(p, pc + 1, CloseFd(proc[p].tab, Reg(p, v)), proc[p].reg)
      BY <1>5, <3>1, Effects DEF Value, Reg
    <3>3. /\ Input(p)' = Input(p) /\ Output(p)' = Output(p) /\ High(p)' = High(p) \ {Reg(p, v)}
          /\ \A f \in Fd \ {Reg(p, v)} : proc'[p].tab[f] = proc[p].tab[f]
      <4>1. Reg(p, v) \notin 0 .. 2
        BY <2>2, <2>7 DEF Above, v
      <4>. QED  BY <3>2, <4>1, Closing
    <3>4. /\ Above(p, V)' /\ proc'[p].life = "code" /\ proc'[p].pc = pc + 1 /\ But({p})
          /\ \A x : Reg(p, x)' = Reg(p, x)
      BY <2>2, <2>3, <2>7, <3>2
    <3>5. CASE pc \in {5, 6}
      <4>1. Half /\ Apart
        BY <1>5, <3>5 DEF FSortAt
      <4>2. Reg(p, v) # Reg(p, "in1")
        BY <3>5, <4>1 DEF v
      <4>3. Half' /\ Apart'
        BY <3>3, <3>4, <4>1, <4>2, Fds DEF Lies
      <4>4. pc = 5 => OnlyHigh(p, {"pfd1", "in0", "in1"})'
        BY <1>5, <3>3, <3>4 DEF FSortAt, OnlyHigh, v
      <4>5. pc = 6 => OnlyHigh(p, {"in0", "in1"})'
        BY <1>5, <3>3, <3>4 DEF FSortAt, OnlyHigh, v
      <4>6. FSortAt(p)'
        BY <3>4, <3>5, <4>3, <4>4, <4>5 DEF FSortAt
      <4>. QED  BY <1>2, <3>4, <4>6
    <3>6. CASE pc \in {8, 9}
      <4>1. Between(p)'
        BY <1>5, <3>3, <3>6 DEF FSortAt, Between
      <4>2. pc = 8 => OnlyHigh(p, {"in1"})'
        BY <1>5, <3>3, <3>4 DEF FSortAt, OnlyHigh, v
      <4>3. pc = 9 => High(p)' = {}
        BY <1>5, <3>3 DEF FSortAt, OnlyHigh, v
      <4>4. FSortAt(p)'
        BY <3>4, <3>6, <4>1, <4>2, <4>3 DEF FSortAt
      <4>. QED  BY <1>2, <3>4, <4>4
    <3>. QED  BY <2>7, <3>5, <3>6
  <2>8. CASE pc = 10
    <3>1. Call(p).op = "exec" /\ Call(p).cmd = "sort"
      BY <2>1, <2>8, FSortText DEF Execlp
    <3>2. Between(p) /\ High(p) = {}
      BY <1>5, <2>8 DEF FSortAt
    <3>3. CASE Becomes(p, "sort")
      <4>1. /\ proc'[p].life = "command" /\ proc'[p].cmd = "sort" /\ But({p})
            /\ High(p)' = High(p) /\ Input(p)' = Input(p) /\ Output(p)' = Output(p)
        BY <3>3 DEF Becomes, High, Input, Output
      <4>2. FSortAt(p)'
        BY <3>2, <4>1 DEF FSortAt, Between, Runs
      <4>. QED  BY <1>2, <4>1, <4>2
    <3>4. CASE Passes(p)
      <4>1. /\ proc'[p].life = "code" /\ proc'[p].pc = 11 /\ But({p}) /\ Above(p, V)'
        BY <2>2, <2>3, <2>8, <3>4 DEF Passes
      <4>2. FSortAt(p)'
        BY <4>1 DEF FSortAt
      <4>. QED  BY <1>2, <4>1, <4>2
    <3>. QED  BY <1>5, <3>1, <3>3, <3>4, Effects
  <2>9. CASE pc \in 11 .. 20
    <3>1. ASSUME NEW n \in 11 .. 21, proc'[p].life = "code", proc'[p].pc = n, \A v \in V : Reg(p, v)' = Reg(p, v)
          PROVE  FSortAt(p)'
      <4>1. Above(p, V)'
        BY <2>2, <2>9, <3>1 DEF Above
      <4>. QED  BY <3>1, <4>1 DEF FSortAt
    <3>2. Call(p).op \in {"close", "open", "feed", "drain", "wait", "exit"} /\ (Call(p).op = "open" => Call(p).v = "fd")
      BY <2>1, <2>9, FSortText DEF Close, Open, Feed, Drain, Wait, Exit
    <3>3. CASE \E tab, reg : Moves(p, pc + 1, tab, reg) /\ \A v \in V : reg[v] = Reg(p, v)
      <4>1. /\ proc'[p].life = "code" /\ proc'[p].pc = pc + 1 /\ But({p}) /\ \A v \in V : Reg(p, v)' = Reg(p, v)
        BY <1>5, <3>3 DEF Moves, Runs, Reg
      <4>2. pc + 1 \in 11 .. 21
        BY <2>9
      <4>. QED  BY <1>2, <3>1, <4>1, <4>2
    <3>4. CASE \E c \in Procs : Reaps(p, c)
      <4>1. PICK c \in Procs : Reaps(p, c)
        BY <3>4
      <4>2. /\ proc'[p].life = "code" /\ proc'[p].pc = pc + 1 /\ But({p, c}) /\ proc'[c].life = "reaped"
            /\ \A v \in V : Reg(p, v)' = Reg(p, v)
        BY <1>5, <4>1 DEF Reaps, Runs, Reg
      <4>3. pc + 1 \in 11 .. 21
        BY <2>9
      <4>4. FSortAt(p)'
        BY <3>1, <4>2, <4>3
      <4>. QED  BY <1>1, <4>2, <4>4 DEF But
    <3>5. Call(p).op = "open" => \E tab, reg : Moves(p, pc + 1, tab, reg) /\ \A v \in V : reg[v] = Reg(p, v)
      <4>1. ASSUME NEW fd, NEW tab, Call(p).op = "open", Moves(p, pc + 1, tab, [proc[p].reg EXCEPT ![Call(p).v] = fd])
            PROVE  \A v \in V : [proc[p].reg EXCEPT ![Call(p).v] = fd][v] = Reg(p, v)
        BY <3>2, <4>1, RecordFields DEF Values, Register, Reg
      <4>2. Call(p).op = "open" => \E fd, tab : Moves(p, pc + 1, tab, [proc[p].reg EXCEPT ![Call(p).v] = fd])
        BY <1>5, Effects
      <4>. QED  BY <4>1, <4>2
    <3>6. Call(p).op = "close" \/ Passes(p) => \E tab, reg : Moves(p, pc + 1, tab, reg) /\ \A v \in V : reg[v] = Reg(p, v)
      <4>1. Call(p).op = "close" => Moves(p, pc + 1, CloseFd(proc[p].tab, Value(p)), proc[p].reg)
        BY <1>5, Effects
      <4>. QED  BY <4>1 DEF Passes, Reg
    <3>7. \/ Call(p).op \in {"open", "close"} \/ Passes(p) \/ Stops(p) \/ \E c \in Procs : Reaps(p, c)
      BY <1>5, <3>2, Effects
    <3>. QED  BY <1>3, <3>3, <3>4, <3>5, <3>6, <3>7
  <2>. QED  BY <2>1, <2>4, <2>5, <2>6, <2>7, <2>8, <2>9
<1>. QED  BY <1>4, <1>5

LEMMA PipeKept ==
    ASSUME NEW q \in Procs, PipeAt(q),
           proc'[q] = proc[q] \/ proc'[q].life \notin {"code", "command"}
    PROVE  PipeAt(q)'
BY DEF PipeAt, Runs, LowOpen, High, HasPipe, OnlyHigh, Lies, Reg

(* Who is to write, p, and who is to read, c. *)
Parts(p, c) ==
    /\ c # p /\ But({p, c})
    /\ proc'[p].life = "code" /\ proc'[p].pc = 5 /\ proc'[p].tab = proc[p].tab
    /\ proc'[c].life = "code" /\ proc'[c].pc = 3 /\ proc'[c].tab = proc[p].tab
    /\ \A v \in {"pfd0", "pfd1"} : Reg(p, v)' = Reg(p, v) /\ Reg(c, v)' = Reg(p, v)

(* What a call of pipe.c leaves behind it. *)
LEMMA PipeCalls ==
    ASSUME Typed, prog = "pipe", NEW p \in Procs, Acts(p), Runs(p), PipeAt(p)
    PROVE  LET pc == proc[p].pc
               tab == proc[p].tab
           IN  /\ pc \in 1 .. 7
               /\ pc = 1 =>
                    /\ Quiet /\ But({p}) /\ proc'[p].life = "code" /\ proc'[p].pc = 2
                    /\ High(p)' = {Reg(p, "pfd0")', Reg(p, "pfd1")'}
                    /\ HasPipe(p)'
               /\ pc = 2 =>
                    \/ /\ "fork" \in happened' /\ But({p}) /\ proc'[p].life = "code" /\ proc'[p].pc = 3
                       /\ proc'[p].tab = tab /\ \A v \in {"pfd0", "pfd1"} : Reg(p, v)' = Reg(p, v)
                    \/ Quiet /\ \E c \in Procs : Parts(p, c)
               /\ pc \in {3, 5} =>
                    /\ Quiet /\ But({p}) /\ proc'[p].life = "code" /\ proc'[p].pc = pc + 1
                    /\ proc'[p].tab = CloseFd(tab, IF pc = 3 THEN Reg(p, "pfd1") ELSE Reg(p, "pfd0"))
                    /\ \A v : Reg(p, v)' = Reg(p, v)
               /\ pc = 4 =>
                    /\ filled' = filled /\ But({p}) /\ proc'[p].tab = tab /\ \A v : Reg(p, v)' = Reg(p, v)
                    /\ \/ proc'[p].life = "command" /\ proc'[p].cmd = "pread" /\ happened' = happened
                       \/ proc'[p].life = "code" /\ proc'[p].pc = 5 /\ happened' = happened \cup {"exec"}
               /\ pc = 6 =>
                    /\ DoWrite(p) /\ happened' = happened /\ But({p})
                    /\ \/ Passes(p) /\ proc'[p].life = "code" /\ proc'[p].pc = 7
                       \/ proc'[p].life = "zombie"
               /\ pc = 7 => Quiet /\ But({p}) /\ proc'[p].life = "zombie"
<1>. DEFINE pc == proc[p].pc
            tab == proc[p].tab
            V == {"pfd0", "pfd1"}
<1>1. Call(p) = Code[pc] /\ pc \in 1 .. 7 /\ proc[p].life = "code"
  BY PipeText DEF Call, Typed, Runs
<1>2. CASE pc = 1
  <2>1. Call(p).op = "pipe" /\ Call(p).r = "pfd0" /\ Call(p).w = "pfd1"
    BY <1>1, <1>2, PipeText DEF Pipe
  <2>2. LowOpen(p) /\ High(p) = {}
    BY <1>2 DEF PipeAt
  <2>3. Quiet
    BY <2>1, Effects
  <2>4. PICK a, b \in Fd, k \in UnusedPipes :
           /\ a < b /\ IsLowestFree(tab, a) /\ tab[b] = Closed
           /\ Moves(p, pc + 1, [tab EXCEPT ![a] = ReadEnd(k), ![b] = WriteEnd(k)],
                    [proc[p].reg EXCEPT ![Call(p).r] = a, ![Call(p).w] = b])
    BY <2>1, Effects
  <2>5. /\ a \in 3 .. MaxFd /\ b \in 3 .. MaxFd /\ k \in Pipes
        /\ High(p)' = High(p) \cup {a, b}
        /\ proc'[p].tab[a] = ReadEnd(k) /\ proc'[p].tab[b] = WriteEnd(k)
    BY <2>2, <2>4, Piping
  <2>6. proc'[p].life = "code" /\ proc'[p].pc = 2 /\ But({p})
    BY <1>1, <1>2, <2>4 DEF Moves
  <2>7. Reg(p, "pfd0")' = a /\ Reg(p, "pfd1")' = b
    BY <2>1, <2>4, RecordFields DEF Reg, Values, Register, Moves
  <2>8. HasPipe(p)' /\ High(p)' = {Reg(p, "pfd0")', Reg(p, "pfd1")'}
    BY <2>2, <2>5, <2>7 DEF HasPipe, Lies
  <2>. QED  BY <1>2, <2>3, <2>6, <2>8
<1>3. CASE pc = 2
  <2>1. Call(p).op = "fork" /\ Call(p).v = "tmp" /\ Call(p).parent = 5 /\ Call(p).failed = 3
    BY <1>1, <1>3, PipeText DEF Fork
  <2>2. CASE happened' = happened \cup {"fork"} /\ Moves(p, Call(p).failed, tab, [proc[p].reg EXCEPT ![Call(p).v] = -1])
    <3>1. \A v \in V : Reg(p, v)' = Reg(p, v)
      BY <2>1, <2>2, RecordFields DEF Moves, Values, Register, Reg
    <3>. QED  BY <1>1, <1>3, <2>1, <2>2, <3>1 DEF Moves
  <2>3. ASSUME NEW c \in Procs, Begets(p, c, Call(p).parent, Call(p).v)
        PROVE  Parts(p, c)
    <3>1. \A v \in V : Reg(p, v)' = Reg(p, v) /\ Reg(c, v)' = Reg(p, v)
      BY <2>1, <2>3, RecordFields DEF Begets, Values, Register, Reg
    <3>. QED  BY <1>1, <1>3, <2>1, <2>3, <3>1 DEF Begets, Parts
  <2>4. \/ Quiet /\ \E c \in Procs : Begets(p, c, Call(p).parent, Call(p).v)
        \/ happened' = happened \cup {"fork"} /\ Moves(p, Call(p).failed, tab, [proc[p].reg EXCEPT ![Call(p).v] = -1])
    BY <2>1, Effects
  <2>. QED  BY <1>3, <2>2, <2>3, <2>4
<1>4. CASE pc \in {3, 5}
  <2>. DEFINE v == IF pc = 3 THEN "pfd1" ELSE "pfd0"
  <2>1. Call(p).op = "close" /\ Call(p).v = v
    BY <1>1, <1>4, PipeText DEF Close
  <2>2. Quiet /\ Moves(p, pc + 1, CloseFd(tab, Value(p)), proc[p].reg)
    BY <2>1, Effects
  <2>3. Value(p) = IF pc = 3 THEN Reg(p, "pfd1") ELSE Reg(p, "pfd0")
    BY <1>4, <2>1 DEF Value, Reg
  <2>. QED  BY <1>1, <1>4, <2>2, <2>3 DEF Moves, Reg
<1>5. CASE pc = 4
  <2>1. Call(p).op = "exec" /\ Call(p).cmd = "pread"
    BY <1>1, <1>5, PipeText DEF Execlp
  <2>2. \/ Quiet /\ Becomes(p, "pread")
        \/ happened' = happened \cup {"exec"} /\ filled' = filled /\ Passes(p)
    BY <2>1, Effects
  <2>. QED  BY <1>1, <1>5, <2>2 DEF Passes, Moves, Becomes, Reg, Quiet
<1>6. CASE pc = 6
  <2>1. Call(p).op = "write"
    BY <1>1, <1>6, PipeText DEF Write
  <2>2. DoWrite(p) /\ happened' = happened /\ (Passes(p) \/ Stops(p))
    BY <2>1, Effects, CallsActions
  <2>. QED  BY <1>1, <1>6, <2>2 DEF Passes, Moves, Stops
<1>7. CASE pc = 7
  <2>1. Call(p).op = "exit"
    BY <1>1, <1>7, PipeText DEF Exit
  <2>2. Quiet /\ Stops(p)
    BY <2>1, Effects
  <2>. QED  BY <1>7, <2>2 DEF Stops
<1>. QED  BY <1>1, <1>2, <1>3, <1>4, <1>5, <1>6, <1>7

LEMMA PipeStep ==
    ASSUME Typed, prog = "pipe", \A q \in Procs : PipeAt(q), NEW p \in Procs, Acts(p)
    PROVE  \A q \in Procs : PipeAt(q)'
<1>. DEFINE V == {"pfd0", "pfd1"}
            pc == proc[p].pc
            HasRead == (\E k \in Pipes : Lies(p, "pfd0", ReadEnd(k))) /\ OnlyHigh(p, {"pfd0"})
<1>1. \A q \in Procs : proc'[q] = proc[q] \/ proc'[q].life \notin {"code", "command"} => PipeAt(q)'
  BY PipeKept
<1>2. But({p}) /\ PipeAt(p)' => \A q \in Procs : PipeAt(q)'
  BY <1>1 DEF But
<1>3. CASE ~Runs(p)
  BY <1>1, <1>3, CommandStops DEF Stops, But
<1>4. CASE Runs(p)
  <2>1. pc \in 1 .. 7
    BY <1>4, PipeCalls
  <2>2. ASSUME NEW q \in Procs, proc'[q].life = "code", proc'[q].pc \in {5, 6, 7}
        PROVE  PipeAt(q)'
    BY <2>2 DEF PipeAt
  <2>3. CASE pc = 1
    <3>1. /\ But({p}) /\ proc'[p].life = "code" /\ proc'[p].pc = 2
          /\ High(p)' = {Reg(p, "pfd0")', Reg(p, "pfd1")'} /\ HasPipe(p)'
      BY <1>4, <2>3, PipeCalls
    <3>2. OnlyHigh(p, V)'
      BY <3>1 DEF OnlyHigh
    <3>3. PipeAt(p)'
      BY <3>1, <3>2 DEF PipeAt
    <3>. QED  BY <1>2, <3>1, <3>3
  <2>4. CASE pc = 2
    <3>1. ASSUME NEW c \in Procs, proc'[c].life = "code", proc'[c].pc = 3, proc'[c].tab = proc[p].tab,
                 \A v \in V : Reg(c, v)' = Reg(p, v)
          PROVE  PipeAt(c)'
      <4>1. High(c)' = High(p)
        BY <3>1 DEF High
      <4>2. HasPipe(p) /\ OnlyHigh(p, V)
        BY <1>4, <2>4 DEF PipeAt
      <4>3. OnlyHigh(c, V)'
        BY <3>1, <4>1, <4>2 DEF OnlyHigh
      <4>4. HasPipe(c)'
        BY <3>1, <4>2 DEF HasPipe, Lies
      <4>. QED  BY <3>1, <4>3, <4>4 DEF PipeAt
    <3>2. \/ /\ But({p}) /\ proc'[p].life = "code" /\ proc'[p].pc = 3
             /\ proc'[p].tab = proc[p].tab /\ \A v \in V : Reg(p, v)' = Reg(p, v)
          \/ \E c \in Procs :
                /\ c # p /\ But({p, c})
                /\ proc'[p].life = "code" /\ proc'[p].pc = 5
                /\ proc'[c].life = "code" /\ proc'[c].pc = 3 /\ proc'[c].tab = proc[p].tab
                /\ \A v \in V : Reg(c, v)' = Reg(p, v)
      BY <1>4, <2>4, PipeCalls DEF Parts
    <3>3. ASSUME NEW c \in Procs, But({p, c}), PipeAt(p)', PipeAt(c)'
          PROVE  \A q \in Procs : PipeAt(q)'
      BY <1>1, <3>3 DEF But
    <3>. QED  BY <1>2, <2>2, <3>1, <3>2, <3>3
  <2>5. CASE pc = 3
    <3>1. /\ But({p}) /\ proc'[p].life = "code" /\ proc'[p].pc = 4 /\ \A v : Reg(p, v)' = Reg(p, v)
          /\ proc'[p].tab = CloseFd(proc[p].tab, Reg(p, "pfd1"))
      BY <1>4, <2>5, PipeCalls
    <3>2. PICK k \in Pipes : Lies(p, "pfd0", ReadEnd(k)) /\ Lies(p, "pfd1", WriteEnd(k))
      BY <1>4, <2>5 DEF PipeAt, HasPipe
    <3>3. Reg(p, "pfd0") # Reg(p, "pfd1")
      BY <3>2, EndsDiffer DEF Lies
    <3>4. Lies(p, "pfd0", ReadEnd(k))'
      BY <3>1, <3>2, <3>3, Fds DEF Lies, CloseFd
    <3>5. OnlyHigh(p, {"pfd0"})'
      <4>1. High(p)' = High(p) \ {Reg(p, "pfd1")}
        BY <3>1, Fds DEF High, CloseFd
      <4>2. High(p) \subseteq {Reg(p, "pfd0"), Reg(p, "pfd1")}
        BY <1>4, <2>5 DEF PipeAt, OnlyHigh
      <4>. QED  BY <3>1, <4>1, <4>2 DEF OnlyHigh
    <3>6. PipeAt(p)'
      BY <3>1, <3>4, <3>5 DEF PipeAt
    <3>. QED  BY <1>2, <3>1, <3>6
  <2>6. CASE pc = 4
    <3>1. /\ But({p}) /\ proc'[p].tab = proc[p].tab /\ \A v : Reg(p, v)' = Reg(p, v)
          /\ \/ proc'[p].life = "command" /\ proc'[p].cmd = "pread"
             \/ proc'[p].life = "code" /\ proc'[p].pc = 5
      BY <1>4, <2>6, PipeCalls
    <3>2. HasRead
      BY <1>4, <2>6 DEF PipeAt
    <3>3. HasRead'
      BY <3>1, <3>2 DEF Lies, OnlyHigh, High
    <3>4. PipeAt(p)'
      BY <3>1, <3>3 DEF PipeAt, Runs
    <3>. QED  BY <1>2, <3>1, <3>4
  <2>7. CASE pc \in {5, 6, 7}
    <3>1. But({p}) /\ (proc'[p].life = "zombie" \/ (proc'[p].life = "code" /\ proc'[p].pc \in {6, 7}))
      BY <1>4, <2>7, PipeCalls
    <3>. QED  BY <1>1, <1>2, <2>2, <3>1
  <2>. QED  BY <2>1, <2>3, <2>4, <2>5, <2>6, <2>7
<1>. QED  BY <1>3, <1>4

LEMMA NoCommands ==
    ASSUME Typed, prog \in {"pc", "basic"}, \A q \in Procs : proc[q].life # "command",
           NEW p \in Procs, Acts(p)
    PROVE  \A q \in Procs : proc'[q].life # "command"
<1>1. Runs(p) /\ proc[p].life = "code"
  BY CallsActions DEF Runs
<1>2. \A i \in DOMAIN Code : Code[i].op # "exec"
  BY PcText, BasicText DEF Fork, Exit, WaitAll, Divide, Sleep, Kill, Unlink, Connect, Send, Receive,
     HangUp, Bind, Listen, Accept
<1>3. Call(p).op \in Calling \ {"exec"}
  BY <1>1, <1>2, CallsActions DEF Call, Typed
<1>4. ASSUME \E n, tab, reg : Moves(p, n, tab, reg)
      PROVE  \A q \in Procs : proc'[q].life # "command"
  BY <1>1, <1>4 DEF Moves, But
<1>5. Stops(p) => \A q \in Procs : proc'[q].life # "command"
  BY DEF Stops, But
<1>6. ASSUME NEW c \in Procs, Reaps(p, c) \/ \E n, v : Begets(p, c, n, v)
      PROVE  \A q \in Procs : proc'[q].life # "command"
  <2>1. CASE Reaps(p, c)
    BY <1>1, <2>1 DEF Reaps, But
  <2>2. CASE \E n, v : Begets(p, c, n, v)
    BY <1>1, <2>2 DEF Begets, But
  <2>. QED  BY <1>6, <2>1, <2>2
<1>7. ASSUME NEW S \in SUBSET Procs, Signals(p, S)
      PROVE  \A q \in Procs : proc'[q].life # "command"
  BY <1>1, <1>7 DEF Signals
<1>8. CASE Call(p).op \in {"fork", "pipe", "dup2", "close"}
  <2>1. CASE Call(p).op = "fork"
    BY <1>1, <1>4, <1>6, <2>1, Effects
  <2>2. CASE Call(p).op = "pipe"
    BY <1>1, <1>4, <2>2, Effects
  <2>3. CASE Call(p).op \in {"dup2", "close"}
    BY <1>1, <1>4, <2>3, Effects
  <2>. QED  BY <1>8, <2>1, <2>2, <2>3
<1>9. CASE Call(p).op = "open"
  BY <1>1, <1>4, <1>9, Effects
<1>10. CASE Call(p).op \notin {"fork", "pipe", "dup2", "close", "open"}
  <2>1. \/ Passes(p) \/ Stops(p) \/ (\E c \in Procs : Reaps(p, c)) \/ \E S \in SUBSET Procs : Signals(p, S)
    BY <1>1, <1>3, <1>10, Effects DEF Calling
  <2>. QED  BY <1>4, <1>5, <1>6, <1>7, <2>1 DEF Passes
<1>. QED  BY <1>8, <1>9, <1>10

LEMMA WiredStep ==
    ASSUME Typed, Wired, NEW p \in Procs, Acts(p)
    PROVE  Wired'
<1>1. prog' = prog
  BY CallsActions
<1>. QED  BY <1>1, WhoCountStep, FSortStep, PipeStep, NoCommands DEF Wired

LEMMA WiredInit == Init => Wired
<1>. SUFFICES ASSUME Init  PROVE Wired
  OBVIOUS
<1>1. PICK roots \in {{1}, {1, 2}} : proc = [p \in Procs |-> IF p \in roots THEN Started ELSE Unused]
  BY DEF Init
<1>2. ASSUME NEW p \in Procs, p \in roots
      PROVE  /\ proc[p].life = "code" /\ proc[p].pc = 1
             /\ LowOpen(p) /\ Output(p) = Tty /\ High(p) = {}
  <2>1. proc[p] = Started /\ Started.life = "code" /\ Started.pc = 1
    BY <1>1, <1>2 DEF Started, Unused
  <2>2. Started.tab = [fd \in Fd |-> IF fd < 3 THEN Tty ELSE Closed]
    BY DEF Started, Unused
  <2>3. Tty # Closed
    BY DEF Tty, Closed
  <2>. QED  BY <2>1, <2>2, <2>3, Fds DEF LowOpen, Output, High, STDOUT_FILENO
<1>3. ASSUME NEW p \in Procs, p \notin roots
      PROVE  proc[p].life = "unused"
  BY <1>1, <1>3 DEF Unused
<1>. QED  BY <1>2, <1>3 DEF Wired, WhoCountAt, FSortAt, PipeAt, Runs

LEMMA WiredCorrect == Spec => [](Typed /\ Wired)
<1>1. Init => Typed /\ Wired
  BY TypedInit, WiredInit
<1>2. Typed /\ Wired /\ [Next]_vars => (Typed /\ Wired)'
  <2>1. CASE UNCHANGED vars
    <3>1. Typed => Typed'
      BY <2>1 DEF vars, kernel, Typed, Code
    <3>2. prog' = prog /\ proc' = proc /\ happened' = happened
      BY <2>1 DEF vars, kernel
    <3>3. Wired => Wired'
      BY <3>2, WhoCountKept, FSortKept, PipeKept DEF Wired
    <3>. QED  BY <3>1, <3>3
  <2>. QED  BY <2>1, TypedStep, WiredStep DEF Next, Acts
<1>. QED  BY <1>1, <1>2, PTL DEF Spec

(* who_count.c, fsort.c, pipe.c: a command has its two ends of a pipe where  *)
(* it looks for them, and no other descriptor, whichever forks and execs     *)
(* failed before.                                                            *)
THEOREM CommandsWiredCorrect == Spec => []CommandsWired
<1>1. Typed /\ Wired => CommandsWired
  <2>. SUFFICES ASSUME Typed, Wired, NEW p \in Procs, proc[p].life = "command"
                PROVE  LET more == {fd \in 3 .. MaxFd : proc[p].tab[fd] # Closed}
                       IN /\ proc[p].cmd # "pread" => more = {}
                          /\ proc[p].cmd = "ls" => \E k \in Pipes : Output(p) = WriteEnd(k)
                          /\ proc[p].cmd = "wc" =>
                               "exec" \in happened \/ (Output(p) = Tty /\ \E k \in Pipes : Input(p) = ReadEnd(k))
                          /\ proc[p].cmd = "sort" =>
                               \E j, k \in Pipes : j # k /\ Input(p) = ReadEnd(j) /\ Output(p) = WriteEnd(k)
                          /\ proc[p].cmd = "pread" =>
                               /\ more = {proc[p].reg["pfd0"]}
                               /\ \E k \in Pipes : proc[p].tab[proc[p].reg["pfd0"]] = ReadEnd(k)
    BY DEF CommandsWired
  <2>1. prog \in {"who_count", "fsort", "pipe"}
    BY DEF Wired, Typed, Text
  <2>2. CASE prog = "who_count"
    BY <2>2 DEF Wired, WhoCountAt, High, Puts, Gets
  <2>3. CASE prog = "fsort"
    BY <2>3 DEF Wired, FSortAt, High, Between
  <2>4. CASE prog = "pipe"
    <3>1. /\ proc[p].cmd = "pread" /\ High(p) \subseteq {Reg(p, "pfd0")}
          /\ \E k \in Pipes : Lies(p, "pfd0", ReadEnd(k))
      BY <2>4 DEF Wired, PipeAt, OnlyHigh
    <3>2. High(p) = {Reg(p, "pfd0")}
      BY <3>1, EndsDiffer DEF Lies, High
    <3>. QED  BY <3>1, <3>2 DEF High, Reg, Lies
  <2>. QED  BY <2>1, <2>2, <2>3, <2>4
<1>. QED  BY <1>1, WiredCorrect, PTL

-----------------------------------------------------------------------------
(* pipe.c *)

LEMMA EndOfFile ==
    ASSUME Typed, NEW p \in Procs, Acts(p), "eof" \in happened' \ happened
    PROVE  proc[p].life = "command" /\ proc[p].cmd = "pread" /\ PreadEnds(p)
<1>1. CASE ~Runs(p)
  BY <1>1, CommandStops DEF PreadEnds
<1>2. CASE Runs(p)
  <2>1. Call(p).op \in Calling
    BY <1>2, CallsActions
  <2>2. CASE Call(p).op = "fork"
    BY <1>2, <2>2, Effects DEF Quiet
  <2>3. CASE Call(p).op = "exec"
    BY <1>2, <2>3, Effects DEF Quiet
  <2>4. CASE Call(p).op = "open"
    <3>1. happened' = happened \/ happened' = happened \cup {"open"}
      BY <1>2, <2>4, Effects
    <3>. QED  BY <3>1
  <2>5. CASE Call(p).op \notin {"fork", "exec", "open"}
    BY <1>2, <2>1, <2>5, Effects DEF Calling, Quiet
  <2>. QED  BY <2>2, <2>3, <2>4, <2>5
<1>. QED  BY <1>1, <1>2

LEMMA HelloStep ==
    ASSUME Typed, Wired, Hello, NEW p \in Procs, Acts(p)
    PROVE  Hello'
<1>. DEFINE Root == \A q \in Procs : Runs(q) /\ proc[q].pc \in {1, 2} => q = 1
            Two == Runs(1) /\ proc[1].pc = 5 => Reg(1, "pfd0") # Reg(1, "pfd1")
            Served(q, k) == Lies(q, "pfd0", ReadEnd(k)) /\ (k \in filled \/ Writing(k))
            Fed == \A q \in Procs : Reads(q) => q # 1 /\ \E k \in Pipes : Served(q, k)
            pc == proc[p].pc
<1>1. prog' = prog /\ happened \subseteq happened' /\ 1 \in Procs
  BY CallsActions, History, MaxProcsAssumption DEF Procs
<1>2. ASSUME prog # "pipe"  PROVE "eof" \notin happened'
  <2>1. \A q \in Procs : proc[q].life = "command" => proc[q].cmd # "pread"
    BY <1>2 DEF Wired, WhoCountAt, FSortAt, Typed, Text
  <2>. QED  BY <1>2, <2>1, EndOfFile DEF Hello
<1>. SUFFICES ASSUME prog = "pipe", "fork" \notin happened'
              PROVE  "eof" \notin happened' /\ Root' /\ Two' /\ Fed'
  BY <1>1, <1>2 DEF Hello
<1>3. "eof" \notin happened /\ Root /\ Two /\ Fed
  BY <1>1 DEF Hello
<1>4. \A q \in Procs : PipeAt(q)
  BY DEF Wired
<1>. HIDE DEF Root, Two, Fed
<1>. USE DEF Runs
<1>5. ASSUME NEW q \in Procs, q # p, proc'[q] = proc[q], Reads(q)', filled \subseteq filled',
             \A k \in Pipes : Writing(k) => Writing(k)' \/ k \in filled'
      PROVE  q # 1 /\ \E k \in Pipes : Served(q, k)'
  <2>1. Reads(q)
    BY <1>5 DEF Reads
  <2>2. PICK k \in Pipes : Served(q, k)
    BY <1>3, <2>1 DEF Fed
  <2>3. Lies(q, "pfd0", ReadEnd(k))'
    BY <1>5, <2>2 DEF Lies, Reg
  <2>. QED  BY <1>3, <1>5, <2>1, <2>2, <2>3 DEF Fed
<1>6. ASSUME p # 1, proc'[1] = proc[1]
      PROVE  \A k \in Pipes : Writing(k) => Writing(k)'
  BY <1>6 DEF Writing, Lies, Reg
<1>7. CASE ~Runs(p)
  <2>1. proc[p].life = "command" /\ Stops(p) /\ filled' = filled /\ proc[p].cmd = "pread"
    BY <1>4, <1>7, CommandStops DEF PipeAt
  <2>2. p # 1 /\ Reads(p)
    BY <1>3, <2>1 DEF Fed, Reads
  <2>3. /\ \A q \in Procs : q # p => proc'[q] = proc[q]
        /\ proc'[p].life = "zombie" /\ proc'[1] = proc[1]
    BY <1>1, <2>1, <2>2 DEF Stops, But
  <2>4. "eof" \notin happened'
    <3>1. SUFFICES ASSUME PreadEnds(p)  PROVE happened' = happened
      BY <1>3, EndOfFile
    <3>2. PICK k \in Pipes : Served(p, k)
      BY <1>3, <2>2 DEF Fed
    <3>3. OpenFile(p, proc[p].reg["pfd0"]) = ReadEnd(k) /\ ReadEnd(k)[2] = k
      BY <3>2, Fds DEF OpenFile, Lies, Reg, ReadEnd
    <3>4. Writing(k) => HeldSomewhere(WriteEnd(k))
      BY <1>1, Fds DEF Writing, HeldSomewhere, Live, Holds, Lies
    <3>. QED  BY <3>1, <3>2, <3>3, <3>4 DEF PreadEnds
  <2>5. Root'
    BY <1>3, <2>3 DEF Root
  <2>6. Two'
    BY <1>3, <2>3 DEF Two, Reg
  <2>7. Fed'
    BY <1>5, <1>6, <2>1, <2>2, <2>3 DEF Fed, Reads
  <2>. QED  BY <2>4, <2>5, <2>6, <2>7
<1>8. CASE Runs(p)
  <2>1. pc \in 1 .. 7 /\ PipeAt(p) /\ proc[p].life = "code"
    BY <1>4, <1>8, PipeCalls
  <2>2. "eof" \notin happened'
    BY <1>3, <1>8, EndOfFile
  <2>3. CASE pc = 1
    <3>1. /\ filled' = filled /\ But({p}) /\ proc'[p].life = "code" /\ proc'[p].pc = 2 /\ p = 1
      BY <1>3, <1>8, <2>1, <2>3, PipeCalls DEF Quiet, Root
    <3>2. \A k \in Pipes : ~Writing(k)
      BY <2>3, <3>1 DEF Writing
    <3>3. Root' /\ Two'
      <4>1. \A q \in Procs : q # 1 => proc'[q] = proc[q]
        BY <3>1 DEF But
      <4>2. Root'
        BY <1>3, <4>1 DEF Root
      <4>3. Two'
        BY <3>1 DEF Two
      <4>. QED  BY <4>2, <4>3
    <3>4. ~Reads(p)'
      BY <3>1 DEF Reads
    <3>5. Fed'
      BY <1>5, <3>1, <3>2, <3>4 DEF Fed, But
    <3>. QED  BY <2>2, <3>3, <3>5
  <2>4. CASE pc = 2
    <3>1. PICK c \in Procs : Parts(p, c)
      BY <1>8, <2>1, <2>4, PipeCalls
    <3>2. filled' = filled /\ p = 1
      BY <1>3, <1>8, <2>1, <2>4, PipeCalls DEF Quiet, Root
    <3>3. PICK k \in Pipes : Lies(p, "pfd0", ReadEnd(k)) /\ Lies(p, "pfd1", WriteEnd(k))
      BY <1>8, <2>1, <2>4 DEF PipeAt, HasPipe
    <3>4. /\ c # 1 /\ proc'[1].life = "code" /\ proc'[1].pc = 5 /\ proc'[c].life = "code" /\ proc'[c].pc = 3
          /\ \A q \in Procs : q # 1 /\ q # c => proc'[q] = proc[q]
      BY <3>1, <3>2 DEF Parts, But
    <3>5. \A j \in Pipes : ~Writing(j)
      BY <2>4, <3>2 DEF Writing
    <3>6. Root'
      BY <1>3, <3>4 DEF Root
    <3>7. Two'
      <4>1. Reg(1, "pfd0") # Reg(1, "pfd1")
        BY <3>2, <3>3, EndsDiffer DEF Lies
      <4>. QED  BY <3>1, <3>2, <4>1 DEF Two, Parts
    <3>8. Served(c, k)'
      <4>1. Lies(c, "pfd0", ReadEnd(k))'
        BY <3>1, <3>3 DEF Parts, Lies
      <4>2. Lies(1, "pfd1", WriteEnd(k))'
        BY <3>1, <3>2, <3>3 DEF Parts, Lies
      <4>. QED  BY <3>4, <4>1, <4>2 DEF Writing
    <3>9. ~Reads(1)'
      BY <3>4 DEF Reads
    <3>10. ASSUME NEW q \in Procs, Reads(q)'
           PROVE  q # 1 /\ \E j \in Pipes : Served(q, j)'
      <4>1. CASE q = c
        BY <3>4, <3>8, <4>1
      <4>2. CASE q # c
        BY <1>5, <3>2, <3>4, <3>5, <3>9, <3>10, <4>2
      <4>. QED  BY <4>1, <4>2
    <3>11. Fed'
      BY <3>10 DEF Fed
    <3>. QED  BY <2>2, <3>6, <3>7, <3>11
  <2>5. CASE pc \in {3, 4}
    <3>1. p # 1 /\ Reads(p)
      BY <1>3, <2>1, <2>5 DEF Fed, Reads
    <3>2. /\ filled' = filled /\ But({p}) /\ \A v : Reg(p, v)' = Reg(p, v)
          /\ proc'[p].tab = proc[p].tab \/ (pc = 3 /\ proc'[p].tab = CloseFd(proc[p].tab, Reg(p, "pfd1")))
          /\ proc'[p].life = "code" => proc'[p].pc \in {4, 5}
      BY <1>8, <2>1, <2>5, PipeCalls DEF Quiet
    <3>3. proc'[1] = proc[1] /\ \A q \in Procs : q # p => proc'[q] = proc[q]
      BY <1>1, <3>1, <3>2 DEF But
    <3>4. Root' /\ Two'
      BY <1>3, <3>2, <3>3 DEF Root, Two, Reg
    <3>5. PICK k \in Pipes : Served(p, k)
      BY <1>3, <3>1 DEF Fed
    <3>6. pc = 3 => Reg(p, "pfd0") # Reg(p, "pfd1")
      BY <2>1, EndsDiffer DEF PipeAt, HasPipe, Lies
    <3>7. Lies(p, "pfd0", ReadEnd(k))'
      BY <3>2, <3>5, <3>6, Fds DEF Lies, CloseFd
    <3>8. Served(p, k)'
      BY <1>6, <3>1, <3>2, <3>3, <3>5, <3>7
    <3>9. Fed'
      <4>1. ASSUME NEW q \in Procs, Reads(q)'
            PROVE  q # 1 /\ \E j \in Pipes : Served(q, j)'
        BY <1>5, <1>6, <3>1, <3>2, <3>3, <3>8, <4>1
      <4>. QED  BY <4>1 DEF Fed
    <3>. QED  BY <2>2, <3>4, <3>9
  <2>6. CASE pc = 5
    <3>1. /\ filled' = filled /\ But({p}) /\ proc'[p].life = "code" /\ proc'[p].pc = 6
          /\ proc'[p].tab = CloseFd(proc[p].tab, Reg(p, "pfd0")) /\ \A v : Reg(p, v)' = Reg(p, v)
      BY <1>8, <2>1, <2>6, PipeCalls DEF Quiet
    <3>2. Root' /\ Two'
      BY <1>1, <1>3, <3>1 DEF Root, Two, But, Reg
    <3>3. \A k \in Pipes : Writing(k) => Writing(k)'
      <4>1. CASE p = 1
        <5>1. Reg(1, "pfd0") # Reg(1, "pfd1")
          BY <1>3, <2>1, <2>6, <4>1 DEF Two
        <5>2. \A k \in Pipes : Lies(1, "pfd1", WriteEnd(k)) => Lies(1, "pfd1", WriteEnd(k))'
          BY <3>1, <4>1, <5>1, Fds DEF Lies, CloseFd
        <5>. QED  BY <3>1, <4>1, <5>2 DEF Writing
      <4>2. CASE p # 1
        BY <1>1, <1>6, <3>1, <4>2 DEF But
      <4>. QED  BY <4>1, <4>2
    <3>4. ~Reads(p)'
      BY <3>1 DEF Reads
    <3>5. Fed'
      BY <1>5, <3>1, <3>3, <3>4 DEF Fed, But
    <3>. QED  BY <2>2, <3>2, <3>5
  <2>7. CASE pc \in {6, 7}
    <3>1. /\ But({p}) /\ (proc'[p].life = "zombie" \/ (proc'[p].life = "code" /\ proc'[p].pc = 7))
      BY <1>8, <2>1, <2>7, PipeCalls
    <3>2. Root' /\ Two'
      BY <1>1, <1>3, <3>1 DEF Root, Two, But, Reg
    <3>3. ~Reads(p)' /\ ~Reads(p)
      BY <2>1, <2>7, <3>1 DEF Reads
    <3>4. pc = 6 => DoWrite(p)
      BY <1>8, <2>1, PipeCalls
    <3>5. filled \subseteq filled'
      BY <1>8, <2>1, <2>7, <3>4, PipeCalls DEF DoWrite, Quiet
    <3>6. ASSUME NEW q \in Procs, Reads(q), NEW k \in Pipes, Served(q, k)
          PROVE  Writing(k) => Writing(k)' \/ k \in filled'
      <4>1. CASE p # 1
        BY <1>1, <1>6, <3>1, <4>1 DEF But
      <4>2. CASE p = 1 /\ pc = 7
        BY <4>2 DEF Writing
      <4>3. CASE p = 1 /\ pc = 6 /\ Writing(k)
        <5>1. Call(p) = Write("pfd1")
          BY <4>3, PipeText DEF Call
        <5>2. OpenFile(p, Value(p)) = WriteEnd(k)
          BY <4>3, <5>1, Fds DEF Writing, Lies, OpenFile, Value, Reg, Write
        <5>3. HeldSomewhere(ReadEnd(k))
          BY <3>6, Fds DEF HeldSomewhere, Live, Holds, Lies, Reads
        <5>4. WriteEnd(k)[2] = k /\ WriteEnd(k) # Closed
          BY EndsDiffer DEF WriteEnd
        <5>. QED  BY <3>4, <4>3, <5>2, <5>3, <5>4 DEF DoWrite
      <4>. QED  BY <2>7, <4>1, <4>2, <4>3
    <3>7. ASSUME NEW q \in Procs, Reads(q)'
          PROVE  q # 1 /\ \E k \in Pipes : Served(q, k)'
      <4>1. q # p /\ proc'[q] = proc[q] /\ Reads(q)
        BY <3>1, <3>3, <3>7 DEF But, Reads
      <4>2. PICK k \in Pipes : Served(q, k)
        BY <1>3, <4>1 DEF Fed
      <4>3. Lies(q, "pfd0", ReadEnd(k))'
        BY <4>1, <4>2 DEF Lies, Reg
      <4>. QED  BY <1>3, <3>5, <3>6, <4>1, <4>2, <4>3 DEF Fed
    <3>8. Fed'
      BY <3>7 DEF Fed
    <3>. QED  BY <2>2, <3>2, <3>8
  <2>. QED  BY <2>1, <2>3, <2>4, <2>5, <2>6, <2>7
<1>. QED  BY <1>7, <1>8

(* pipe.c: however late main() writes and however early it ends, pread.c     *)
(* reads "hello", and sees the end of the pipe only when fork() failed.      *)
THEOREM HelloArrivesCorrect == Spec => []HelloArrives
<1>1. Init => Hello
  <2>. SUFFICES ASSUME Init  PROVE Hello
    OBVIOUS
  <2>1. PICK roots \in {{1}, {1, 2}} :
           /\ roots = {1, 2} => prog = "basic"
           /\ proc = [p \in Procs |-> IF p \in roots THEN Started ELSE Unused]
    BY DEF Init
  <2>2. /\ Started.life = "code" /\ Started.pc = 1 /\ Unused.life = "unused"
    BY DEF Started, Unused
  <2>3. prog = "pipe" => \A p \in Procs : /\ proc[p].life \in {"code", "unused"} /\ proc[p].pc # 3 /\ proc[p].pc # 4
                                          /\ (p # 1 => proc[p].life = "unused")
                                          /\ proc[p].life = "code" => proc[p].pc = 1
    BY <2>1, <2>2 DEF Unused
  <2>4. 1 \in Procs /\ happened = {}
    BY MaxProcsAssumption DEF Procs, Init
  <2>. QED  BY <2>3, <2>4 DEF Hello, Runs, Reads
<1>2. Typed /\ Wired /\ Hello /\ [Next]_vars => Hello'
  <2>1. CASE UNCHANGED vars
    BY <2>1 DEF vars, kernel, Hello, Runs, Reads, Lies, Reg, Writing
  <2>. QED  BY <2>1, HelloStep DEF Next, Acts
<1>3. Hello => HelloArrives
  BY DEF Hello, HelloArrives
<1>. QED  BY <1>1, <1>2, <1>3, WiredCorrect, PTL DEF Spec

-----------------------------------------------------------------------------
(* basic.c *)

(* p goes on, or ends where it is; nobody else does anything. *)
Onward(p) ==
    /\ \A q \in Procs : q # p => proc'[q] = proc[q]
    /\ proc'[p].reg = proc[p].reg /\ proc'[p].parent = proc[p].parent
    /\ \/ proc'[p].life = "code" /\ proc'[p].pc = proc[p].pc + 1
       \/ proc'[p].life = "zombie" /\ proc'[p].pc = proc[p].pc

LEMMA BasicCalls ==
    ASSUME Typed, prog = "basic", NEW p \in Procs, Acts(p), Runs(p)
    PROVE  LET pc == proc[p].pc
           IN  /\ pc \in 1 .. 15
               /\ pc = 1 => DoUnlink(p)
               /\ pc = 2 => /\ net' = net
                            /\ \/ \E c \in Procs : Begets(p, c, 8, "tmp")
                               \/ Moves(p, 8, proc[p].tab, [proc[p].reg EXCEPT !["tmp"] = -1])
               /\ pc = 3 => DoConnect(p)
               /\ pc = 8 => DoBind(p)
               /\ pc = 9 => DoListen(p)
               /\ pc = 10 => DoAccept(p)
               /\ pc \in {4, 12} => DoSend(p)
               /\ pc \in {5, 11} => DoReceive(p)
               /\ pc \in {6, 13, 14} => DoHangUp(p)
               /\ pc = 13 => Call(p).end = "fd_skt"
               /\ pc = 14 => Call(p).end = "fd_client"
               /\ pc \in {7, 15} => net' = AllClosedBy(p) /\ proc'[p].life = "zombie"
               /\ pc \notin {2, 4, 7, 12, 15} => proc'[p].life = "code"
               /\ pc # 2 => Onward(p)
<1>. DEFINE pc == proc[p].pc
<1>1. Call(p) = Code[pc] /\ pc \in 1 .. 15 /\ proc[p].life = "code"
  BY BasicText DEF Call, Typed, Runs
<1>2. Passes(p) => Onward(p) /\ proc'[p].life = "code"
  BY <1>1 DEF Passes, Moves, But, Onward
<1>3. Stops(p) => Onward(p) /\ proc'[p].life = "zombie"
  BY <1>1 DEF Stops, But, Onward
<1>4. CASE pc = 2
  <2>1. Call(p).op = "fork" /\ Call(p).v = "tmp" /\ Call(p).parent = 8 /\ Call(p).failed = 8
    BY <1>1, <1>4, BasicText DEF Fork
  <2>2. net' = net
    BY <2>1, CallsActions DEF Socketing
  <2>3. \/ \E c \in Procs : Begets(p, c, Call(p).parent, Call(p).v)
        \/ Moves(p, Call(p).failed, proc[p].tab, [proc[p].reg EXCEPT ![Call(p).v] = -1])
    BY <2>1, Effects
  <2>. QED  BY <1>4, <2>1, <2>2, <2>3
<1>5. CASE pc \in {7, 15}
  <2>1. Call(p).op = "exit"
    BY <1>1, <1>5, BasicText DEF Exit
  <2>2. Stops(p) /\ net' = AllClosedBy(p)
    BY <2>1, CallsActions, Effects
  <2>. QED  BY <1>1, <1>3, <1>5, <2>2
<1>6. CASE pc \in {4, 12}
  <2>1. Call(p).op = "send"
    BY <1>1, <1>6, BasicText DEF Send
  <2>2. Passes(p) \/ Stops(p)
    BY <2>1, Effects
  <2>3. DoSend(p)
    BY <2>1, CallsActions
  <2>. QED  BY <1>1, <1>2, <1>3, <1>6, <2>2, <2>3
<1>7. CASE pc \in {1, 3, 5, 6, 8, 9, 10, 11, 13, 14}
  <2>1. Call(p).op = IF pc = 1 THEN "unlink" ELSE IF pc = 3 THEN "connect" ELSE
                     IF pc \in {5, 11} THEN "receive" ELSE IF pc = 8 THEN "bind" ELSE
                     IF pc = 9 THEN "listen" ELSE IF pc = 10 THEN "accept" ELSE "hangup"
    BY <1>1, <1>7, BasicText DEF Unlink, Connect, Receive, Bind, Listen, Accept, HangUp
  <2>2. (pc = 13 => Call(p).end = "fd_skt") /\ (pc = 14 => Call(p).end = "fd_client")
    BY <1>1, BasicText DEF HangUp
  <2>3. Passes(p)
    BY <1>7, <2>1, Effects
  <2>4. /\ pc = 1 => DoUnlink(p)
        /\ pc = 3 => DoConnect(p)
        /\ pc = 8 => DoBind(p)
        /\ pc = 9 => DoListen(p)
        /\ pc = 10 => DoAccept(p)
        /\ pc \in {5, 11} => DoReceive(p)
        /\ pc \in {6, 13, 14} => DoHangUp(p)
    BY <1>7, <2>1, CallsActions
  <2>. QED  BY <1>1, <1>2, <1>7, <2>2, <2>3, <2>4
<1>. QED  BY <1>1, <1>4, <1>5, <1>6, <1>7

(* Who acts stays what he is. *)
LEMMA OnwardKinds ==
    ASSUME Typed, NEW p \in Procs, Runs(p), Onward(p)
    PROVE  \A q \in Procs : /\ Client(q)' <=> Client(q)
                            /\ Server(q)' <=> Server(q)
                            /\ proc'[q].pc \in Nat /\ proc'[q].pc >= proc[q].pc
                            /\ proc'[q].life = "unused" <=> proc[q].life = "unused"
                            /\ proc'[q].life \in {proc[q].life, "zombie"}
BY RecordFields DEF Onward, Client, Server, Started2, IsClient, Runs

(* The fields of net, after each of the calls. *)
LEMMA NetFields ==
    ASSUME Typed, NEW p \in Procs
    PROVE  /\ net.name \in 0 .. MaxProcs
           /\ net.socket \in [Procs -> {"new", "named", "listening", "closed"}]
           /\ net.queue \in [Procs -> Seq(Procs)]
           /\ net.peer \in [Procs -> 0 .. MaxProcs]
           /\ net.shown \in [Procs -> {"none", "nothing", "Hello!", "Goodbye!"}]
           /\ net.open \subseteq Procs /\ net.sent \subseteq Procs
           /\ \A q \in 0 .. MaxProcs : q # 0 => q \in Procs
BY MaxProcsAssumption DEF Typed, NetState, Procs

(* What p closes. *)
Shuts(p) ==
    /\ net'.name = net.name /\ net'.peer = net.peer /\ net'.sent = net.sent /\ net'.shown = net.shown
    /\ net'.open \in {net.open, net.open \ {p}}
    /\ \A q \in Procs : \/ net'.socket[q] = net.socket[q] /\ net'.queue[q] = net.queue[q]
                        \/ q = p /\ net'.socket[q] = "closed" /\ net'.queue[q] = <<>>

LEMMA Shutting ==
    ASSUME Typed, NEW p \in Procs
    PROVE  /\ net' = AllClosedBy(p) => Shuts(p)
           /\ DoHangUp(p) => Shuts(p)
<1>1. net \in NetState
  BY DEF Typed
<1>2. net' = AllClosedBy(p) => Shuts(p)
  BY <1>1 DEF AllClosedBy, Shuts, NetState
<1>3. net' = [net EXCEPT !.open = @ \ {p}] => Shuts(p)
  BY <1>1 DEF Shuts, NetState
<1>4. net' = [net EXCEPT !.socket[p] = "closed", !.queue[p] = <<>>] => Shuts(p)
  BY <1>1 DEF Shuts, NetState
<1>. QED  BY <1>2, <1>3, <1>4 DEF DoHangUp

LEMMA MetShut ==
    ASSUME Typed, prog = "basic", \A q \in Procs : Met(q), NEW p \in Procs, Runs(p), Onward(p), Shuts(p),
           proc'[p].life = "zombie" \/ proc[p].pc \in {6, 13, 14}
    PROVE  \A q \in Procs : Met(q)'
<1>1. \A q \in Procs : /\ Client(q)' <=> Client(q)
                       /\ Server(q)' <=> Server(q)
                       /\ proc'[q].pc \in Nat /\ proc[q].pc \in Nat /\ proc'[q].pc >= proc[q].pc
                       /\ proc'[q].life = "unused" <=> proc[q].life = "unused"
                       /\ proc'[q].life \in {proc[q].life, "zombie"}
  BY OnwardKinds, RecordFields
<1>2. \A q \in Procs : proc'[q].pc = proc[q].pc \/ (q = p /\ proc[q].pc \in {6, 13, 14} /\ proc'[q].pc = proc[q].pc + 1)
  BY DEF Onward
<1>3. \A q \in Procs : net.peer[q] # 0 => net.peer[q] \in Procs
  BY NetFields
<1>4. ASSUME NEW q \in Procs  PROVE Lives(q)'
  BY <1>1, <1>4 DEF Met, Lives, Idle, Shuts
<1>5. ASSUME NEW q \in Procs  PROVE Listens(q)'
  BY <1>1, <1>5 DEF Met, Listens, Shuts
<1>6. ASSUME NEW q \in Procs  PROVE Queued(q)'
  <2>1. ToSet(net'.queue[q]) \subseteq ToSet(net.queue[q])
    BY DEF Shuts, ToSet
  <2>2. ToSet(net.queue[q]) \subseteq Procs
    BY NetFields DEF ToSet
  <2>. QED  BY <1>1, <2>1, <2>2 DEF Met, Queued, Shuts
<1>7. ASSUME NEW q \in Procs  PROVE AsClient(q)'
  <2>1. SUFFICES ASSUME Client(q)  PROVE AsClient(q)'
    BY <1>1, <1>7 DEF AsClient
  <2>2. /\ net'.peer[q] = net.peer[q] /\ net'.shown[q] = net.shown[q] /\ net'.sent = net.sent
        /\ Idle(q) => Idle(q)'
        /\ net'.peer = net.peer
    BY <1>7 DEF Shuts, Idle
  <2>3. \A r \in Procs : r = net.peer[q] => Server(r)' /\ proc'[r].pc >= 10
    <3>1. ASSUME NEW r \in Procs, r = net.peer[q]
          PROVE  Server(r) /\ proc[r].pc >= 10
      BY <1>7, <2>1, <3>1 DEF Met, AsClient, Procs
    <3>. QED  BY <1>1, <3>1
  <2>4. /\ proc[q].pc \in 3 .. 7
        /\ proc[q].pc = 3 => Idle(q)
        /\ proc[q].pc = 4 => q \notin net.sent
        /\ net.shown[q] = "Goodbye!" => net.peer[q] # 0 /\ WroteTo(net.peer[q], q)
    BY <1>7, <2>1 DEF Met, AsClient
  <2>5. proc'[q].pc \in 3 .. 7 /\ (proc'[q].pc \in {3, 4} => proc'[q].pc = proc[q].pc)
    BY <1>2, <1>7, <2>4
  <2>6. net.peer[q] = 0 \/ net.peer[q] \in Procs
    BY <1>3, <1>7
  <2>. QED  BY <2>2, <2>3, <2>4, <2>5, <2>6 DEF AsClient, WroteTo
<1>8. ASSUME NEW q \in Procs  PROVE AsServer(q)'
  <2>1. SUFFICES ASSUME Server(q)  PROVE AsServer(q)'
    BY <1>1, <1>8 DEF AsServer
  <2>2. /\ net'.peer = net.peer /\ net'.shown[q] = net.shown[q] /\ net'.sent = net.sent
        /\ Idle(q) => Idle(q)'
        /\ net'.open \subseteq net.open
    BY <1>8 DEF Shuts, Idle
  <2>3. \A r \in Procs : r = net.peer[q] => Client(r)' /\ net'.peer[r] = q
    <3>1. ASSUME NEW r \in Procs, r = net.peer[q]
          PROVE  Client(r) /\ net.peer[r] = q
      BY <1>8, <2>1, <3>1 DEF Met, AsServer, Procs
    <3>. QED  BY <1>1, <2>2, <3>1
  <2>4. /\ proc[q].pc \in {1, 2} \cup 8 .. 15
        /\ proc[q].pc <= 10 => Idle(q)
        /\ proc[q].pc >= 12 /\ net.peer[q] \in net.open => net.shown[q] = "Hello!"
        /\ q \in net.sent => proc[q].pc >= 13 /\ net.shown[q] = "Hello!"
        /\ net.shown[q] # "Goodbye!"
    BY <1>8, <2>1 DEF Met, AsServer
  <2>5. /\ proc'[q].pc \in {1, 2} \cup 8 .. 15 /\ proc'[q].pc >= proc[q].pc
        /\ proc'[q].pc >= 12 => proc[q].pc >= 12
    BY <1>2, <1>8, <2>4
  <2>6. net.peer[q] = 0 \/ net.peer[q] \in Procs
    BY <1>3, <1>8
  <2>. QED  BY <2>2, <2>3, <2>4, <2>5, <2>6 DEF AsServer
<1>. QED  BY <1>4, <1>5, <1>6, <1>7, <1>8 DEF Met

LEMMA MetFork ==
    ASSUME Typed, prog = "basic", \A q \in Procs : Met(q), NEW p \in Procs, Runs(p),
           proc[p].pc = 2, net' = net,
           \/ \E c \in Procs : Begets(p, c, 8, "tmp")
           \/ Moves(p, 8, proc[p].tab, [proc[p].reg EXCEPT !["tmp"] = -1])
    PROVE  \A q \in Procs : Met(q)'
<1>1. Server(p) /\ Idle(p)
  BY DEF Met, AsClient, AsServer, Client, Server, Started2, Runs
<1>2. \A q \in Procs : proc[q].pc \in Nat /\ (net.peer[q] # 0 => net.peer[q] \in Procs)
  BY RecordFields, NetFields
<1>3. /\ proc'[p].life = "code" /\ proc'[p].pc = 8 /\ ~IsClient(p)'
      /\ \/ \A q \in Procs \ {p} : proc'[q] = proc[q]
         \/ \E c \in Procs : /\ c # p /\ \A q \in Procs \ {p, c} : proc'[q] = proc[q]
                             /\ proc[c].life = "unused"
                             /\ proc'[c].life = "code" /\ proc'[c].pc = 3 /\ IsClient(c)'
  <2>1. proc[p].reg \in Values
    BY RecordFields
  <2>2. CASE Moves(p, 8, proc[p].tab, [proc[p].reg EXCEPT !["tmp"] = -1])
    BY <2>1, <2>2 DEF Moves, But, Runs, IsClient, Values, Register
  <2>3. ASSUME NEW c \in Procs, Begets(p, c, 8, "tmp")
        PROVE  /\ proc'[p].life = "code" /\ proc'[p].pc = 8 /\ ~IsClient(p)'
               /\ c # p /\ \A q \in Procs \ {p, c} : proc'[q] = proc[q]
               /\ proc[c].life = "unused"
               /\ proc'[c].life = "code" /\ proc'[c].pc = 3 /\ IsClient(c)'
    <3>1. c # 0
      BY DEF Procs
    <3>. QED  BY <2>1, <2>3, <3>1 DEF Begets, But, Runs, IsClient, Values, Register
  <2>. QED  BY <2>2, <2>3
<1>4. PICK C \in SUBSET Procs :
         /\ p \notin C /\ \A q \in Procs \ (C \cup {p}) : proc'[q] = proc[q]
         /\ \A c \in C : proc[c].life = "unused" /\ proc'[c].life = "code" /\ proc'[c].pc = 3 /\ IsClient(c)'
  <2>1. CASE \A q \in Procs \ {p} : proc'[q] = proc[q]
    <3>. WITNESS {} \in SUBSET Procs
    <3>. QED  BY <2>1
  <2>2. ASSUME NEW c \in Procs, c # p, \A q \in Procs \ {p, c} : proc'[q] = proc[q], proc[c].life = "unused",
               proc'[c].life = "code", proc'[c].pc = 3, IsClient(c)'
        PROVE  \E C \in SUBSET Procs :
                 /\ p \notin C /\ \A q \in Procs \ (C \cup {p}) : proc'[q] = proc[q]
                 /\ \A d \in C : proc[d].life = "unused" /\ proc'[d].life = "code" /\ proc'[d].pc = 3 /\ IsClient(d)'
    <3>. WITNESS {c} \in SUBSET Procs
    <3>. QED  BY <2>2
  <2>. QED  BY <1>3, <2>1, <2>2
<1>5. \A q \in Procs : /\ q \notin C \cup {p} => proc'[q] = proc[q] /\ (Client(q)' <=> Client(q)) /\ (Server(q)' <=> Server(q))
                       /\ q \in C => Idle(q) /\ proc[q].life = "unused" /\ ~Client(q) /\ ~Server(q) /\ Client(q)' /\ ~Server(q)'
                       /\ Client(q) => Client(q)' /\ proc'[q] = proc[q]
                       /\ Server(q) => Server(q)'
  <2>1. ASSUME NEW q \in Procs, q \notin C \cup {p}
        PROVE  proc'[q] = proc[q] /\ (Client(q)' <=> Client(q)) /\ (Server(q)' <=> Server(q))
    BY <1>4, <2>1 DEF Client, Server, Started2, IsClient
  <2>2. ASSUME NEW q \in C
        PROVE  Idle(q) /\ proc[q].life = "unused" /\ ~Client(q) /\ ~Server(q) /\ Client(q)' /\ ~Server(q)'
    BY <1>4, <2>2 DEF Client, Server, Started2, Met, Lives
  <2>3. ~Client(p) /\ Server(p) /\ Server(p)' /\ ~Client(p)'
    BY <1>1, <1>3 DEF Client, Server, Started2
  <2>. QED  BY <2>1, <2>2, <2>3
<1>6. \A q \in Procs : Idle(q)' <=> Idle(q)
  BY DEF Idle
<1>7. ASSUME NEW q \in Procs  PROVE Lives(q)'
  BY <1>3, <1>4, <1>5, <1>6, <1>7 DEF Met, Lives
<1>8. ASSUME NEW q \in Procs  PROVE Listens(q)'
  BY <1>1, <1>3, <1>4, <1>5, <1>8 DEF Met, Listens
<1>9. ASSUME NEW q \in Procs  PROVE Queued(q)'
  <2>1. ToSet(net.queue[q]) \subseteq Procs
    BY NetFields DEF ToSet
  <2>. QED  BY <1>5, <2>1 DEF Met, Queued
<1>10. ASSUME NEW q \in Procs  PROVE AsClient(q)'
  <2>1. CASE q \in C
    BY <1>4, <1>5, <1>6, <2>1 DEF AsClient, Idle
  <2>2. CASE q = p
    BY <1>3, <2>2 DEF AsClient, Client
  <2>3. CASE q \notin C \cup {p} /\ Client(q)
    <3>1. net.peer[q] # 0 => Server(net.peer[q])' /\ proc'[net.peer[q]].pc >= 10
      BY <1>1, <1>2, <1>5, <2>3 DEF Met, AsClient
    <3>. QED  BY <1>5, <1>6, <2>3, <3>1 DEF Met, AsClient, WroteTo
  <2>. QED  BY <1>5, <2>1, <2>2, <2>3 DEF AsClient
<1>11. ASSUME NEW q \in Procs  PROVE AsServer(q)'
  <2>1. CASE q \in C
    BY <1>5, <2>1 DEF AsServer
  <2>2. CASE q = p
    BY <1>1, <1>3, <2>2 DEF AsServer, Idle
  <2>3. CASE q \notin C \cup {p} /\ Server(q)
    BY <1>2, <1>5, <1>6, <2>3 DEF Met, AsServer
  <2>. QED  BY <1>5, <2>1, <2>2, <2>3 DEF AsServer
<1>. QED  BY <1>7, <1>8, <1>9, <1>10, <1>11 DEF Met

LEMMA MetName ==
    ASSUME Typed, prog = "basic", \A q \in Procs : Met(q), NEW p \in Procs, Runs(p), Onward(p),
           DoUnlink(p) \/ DoBind(p) \/ DoListen(p), proc'[p].life = "code",
           DoUnlink(p) => proc[p].pc = 1, DoBind(p) => proc[p].pc = 8, DoListen(p) => proc[p].pc = 9
    PROVE  \A q \in Procs : Met(q)'
<1>. DEFINE pc == proc[p].pc
<1>1. \A q \in Procs : /\ Client(q)' <=> Client(q)
                       /\ Server(q)' <=> Server(q)
                       /\ proc'[q].pc \in Nat /\ proc[q].pc \in Nat /\ proc'[q].pc >= proc[q].pc
                       /\ proc'[q].life = "unused" <=> proc[q].life = "unused"
                       /\ proc'[q].life \in {proc[q].life, "zombie"}
  BY OnwardKinds, RecordFields
<1>2. \A q \in Procs : q # p => proc'[q] = proc[q]
  BY DEF Onward
<1>3. \A q \in Procs : net.peer[q] # 0 => net.peer[q] \in Procs
  BY NetFields
<1>4. Server(p) /\ Idle(p) /\ pc \in {1, 8, 9} /\ proc'[p].pc = pc + 1
  BY DEF Met, AsClient, AsServer, Client, Server, Started2, Runs, Onward
<1>5. /\ net'.peer = net.peer /\ net'.sent = net.sent /\ net'.shown = net.shown /\ net'.open = net.open
      /\ net'.queue = net.queue
      /\ \A q \in Procs : \/ net'.socket[q] = net.socket[q]
                          \/ q = p /\ pc = 8 /\ net'.socket[q] = "named"
                          \/ q = p /\ pc = 9 /\ net'.socket[q] = "listening"
  <2>1. net \in NetState
    BY DEF Typed
  <2>2. CASE DoUnlink(p)
    BY <2>1, <2>2 DEF DoUnlink, NetState
  <2>3. CASE DoBind(p)
    BY <2>1, <2>3 DEF DoBind, NetState
  <2>4. CASE DoListen(p)
    BY <2>1, <2>4 DEF DoListen, NetState
  <2>. QED  BY <2>2, <2>3, <2>4
<1>6. \A q \in Procs : Idle(q)' <=> Idle(q)
  BY <1>5 DEF Idle
<1>7. ASSUME NEW q \in Procs  PROVE Lives(q)'
  BY <1>1, <1>6, <1>7 DEF Met, Lives
<1>8. ASSUME NEW q \in Procs  PROVE Listens(q)'
  BY <1>1, <1>4, <1>5, <1>8 DEF Met, Listens
<1>9. ASSUME NEW q \in Procs  PROVE Queued(q)'
  <2>1. ToSet(net.queue[q]) \subseteq Procs
    BY NetFields DEF ToSet
  <2>. QED  BY <1>1, <1>5, <2>1 DEF Met, Queued
<1>10. ASSUME NEW q \in Procs  PROVE AsClient(q)'
  <2>1. CASE q # p
    BY <1>1, <1>2, <1>3, <1>5, <1>6, <2>1 DEF Met, AsClient, WroteTo
  <2>. QED  BY <1>1, <1>4, <2>1 DEF AsClient, Client, Server
<1>11. ASSUME NEW q \in Procs  PROVE AsServer(q)'
  <2>1. CASE q # p
    BY <1>1, <1>2, <1>3, <1>5, <1>6, <2>1 DEF Met, AsServer
  <2>2. CASE q = p
    <3>1. proc'[p].pc \in {2, 9, 10} /\ Idle(p)'
      BY <1>4, <1>6
    <3>2. net'.peer[p] = 0 /\ p \notin net'.sent /\ net'.shown[p] # "Goodbye!"
      BY <3>1 DEF Idle
    <3>. QED  BY <2>2, <3>1, <3>2 DEF AsServer
  <2>. QED  BY <2>1, <2>2
<1>. QED  BY <1>7, <1>8, <1>9, <1>10, <1>11 DEF Met

LEMMA MetConnect ==
    ASSUME Typed, prog = "basic", \A q \in Procs : Met(q), NEW p \in Procs, Runs(p), Onward(p),
           DoConnect(p), proc'[p].life = "code", proc[p].pc = 3
    PROVE  \A q \in Procs : Met(q)'
<1>0. PICK s \in Procs : s = net.name /\ net.socket[s] = "listening"
  BY NetFields DEF DoConnect
<1>1. \A q \in Procs : /\ Client(q)' <=> Client(q)
                       /\ Server(q)' <=> Server(q)
                       /\ proc'[q].pc \in Nat /\ proc[q].pc \in Nat /\ proc'[q].pc >= proc[q].pc
                       /\ proc'[q].life = "unused" <=> proc[q].life = "unused"
                       /\ proc'[q].life \in {proc[q].life, "zombie"}
  BY OnwardKinds, RecordFields
<1>2. \A q \in Procs : q # p => proc'[q] = proc[q]
  BY DEF Onward
<1>3. \A q \in Procs : net.peer[q] # 0 => net.peer[q] \in Procs
  BY NetFields
<1>4. Client(p) /\ ~Server(p) /\ Idle(p) /\ proc'[p].pc = 4
  BY DEF Met, AsClient, AsServer, Client, Server, Started2, Runs, Onward
<1>5. Server(s) /\ proc[s].pc >= 10 /\ s # p
  BY <1>0, <1>4 DEF Met, Listens
<1>6. /\ net'.sent = net.sent /\ net'.shown = net.shown /\ net'.open = net.open \cup {p} /\ net'.socket = net.socket
      /\ net'.queue = [net.queue EXCEPT ![s] = Append(net.queue[s], p)]
      /\ net'.peer = [net.peer EXCEPT ![p] = s]
  <2>1. net \in NetState
    BY DEF Typed
  <2>. QED  BY <1>0, <2>1 DEF DoConnect, NetState
<1>7. net'.peer[p] = s /\ \A q \in Procs : q # p => net'.peer[q] = net.peer[q]
  BY <1>6, NetFields
<1>8. \A q \in Procs : q # p => (Idle(q)' <=> Idle(q))
  BY <1>6, <1>7 DEF Idle
<1>9. ASSUME NEW q \in Procs  PROVE Lives(q)'
  BY <1>1, <1>8, <1>9 DEF Met, Lives, Runs
<1>10. ASSUME NEW q \in Procs  PROVE Listens(q)'
  BY <1>1, <1>6, <1>10 DEF Met, Listens
<1>11. ASSUME NEW q \in Procs  PROVE Queued(q)'
  <2>1. ToSet(net.queue[q]) \subseteq Procs
    BY NetFields DEF ToSet
  <2>2. \A r \in ToSet(net.queue[q]) : Client(r)' /\ net'.peer[r] = q
    <3>1. p \notin ToSet(net.queue[q])
      BY <1>4 DEF Met, Queued, Idle, Procs
    <3>. QED  BY <1>1, <1>7, <2>1, <3>1 DEF Met, Queued
  <2>3. net'.queue[q] = net.queue[q] \/ (q = s /\ net'.queue[q] = Append(net.queue[q], p))
    BY <1>6, NetFields
  <2>4. ToSet(Append(net.queue[q], p)) \subseteq ToSet(net.queue[q]) \cup {p}
    BY NetFields DEF ToSet
  <2>. QED  BY <1>1, <1>4, <1>7, <2>2, <2>3, <2>4 DEF Queued
<1>12. ASSUME NEW q \in Procs  PROVE AsClient(q)'
  <2>1. CASE q = p
    <3>1. net'.shown[p] # "Goodbye!" /\ p \notin net'.sent
      BY <1>4, <1>6 DEF Idle
    <3>2. Server(s)' /\ proc'[s].pc >= 10
      BY <1>1, <1>2, <1>5
    <3>. QED  BY <1>4, <1>7, <2>1, <3>1, <3>2 DEF AsClient
  <2>2. CASE q # p /\ Client(q)
    <3>1. proc'[q] = proc[q] /\ net'.peer[q] = net.peer[q] /\ (Idle(q)' <=> Idle(q)) /\ net'.shown[q] = net.shown[q]
      BY <1>2, <1>6, <1>7, <1>8, <2>2
    <3>2. \A r \in Procs : r = net.peer[q] => /\ Server(r)' /\ proc'[r].pc >= 10
                                              /\ WroteTo(r, q) => WroteTo(r, q)'
      <4>1. ASSUME NEW r \in Procs, r = net.peer[q]
            PROVE  Server(r) /\ proc[r].pc >= 10 /\ r # p
        BY <1>4, <2>2, <4>1 DEF Met, AsClient, Procs
      <4>. QED  BY <1>1, <1>2, <1>6, <1>7, <4>1 DEF WroteTo
    <3>3. net.peer[q] = 0 \/ net.peer[q] \in Procs
      BY <1>3
    <3>. QED  BY <1>6, <2>2, <3>1, <3>2, <3>3 DEF Met, AsClient
  <2>. QED  BY <1>1, <2>1, <2>2 DEF AsClient
<1>13. ASSUME NEW q \in Procs  PROVE AsServer(q)'
  <2>1. CASE q # p /\ Server(q)
    <3>1. net.peer[q] # p
      BY <1>4, <2>1 DEF Met, AsServer, Idle, Procs
    <3>2. proc'[q] = proc[q] /\ net'.peer[q] = net.peer[q] /\ (Idle(q)' <=> Idle(q)) /\ net'.shown[q] = net.shown[q]
      BY <1>2, <1>6, <1>7, <1>8, <2>1
    <3>3. net.peer[q] # 0 => Client(net.peer[q])' /\ net'.peer[net.peer[q]] = q
      BY <1>1, <1>3, <1>7, <2>1, <3>1 DEF Met, AsServer
    <3>4. net.peer[q] \in net'.open => net.peer[q] \in net.open
      BY <1>6, <3>1
    <3>. QED  BY <1>6, <2>1, <3>2, <3>3, <3>4 DEF Met, AsServer
  <2>. QED  BY <1>1, <1>4, <2>1 DEF AsServer
<1>. QED  BY <1>9, <1>10, <1>11, <1>12, <1>13 DEF Met

LEMMA MetAccept ==
    ASSUME Typed, prog = "basic", \A q \in Procs : Met(q), NEW p \in Procs, Runs(p), Onward(p),
           DoAccept(p), proc'[p].life = "code", proc[p].pc = 10
    PROVE  \A q \in Procs : Met(q)'
<1>1. \A q \in Procs : /\ Client(q)' <=> Client(q)
                       /\ Server(q)' <=> Server(q)
                       /\ proc'[q].pc \in Nat /\ proc[q].pc \in Nat /\ proc'[q].pc >= proc[q].pc
                       /\ proc'[q].life = "unused" <=> proc[q].life = "unused"
                       /\ proc'[q].life \in {proc[q].life, "zombie"}
  BY OnwardKinds, RecordFields
<1>2. \A q \in Procs : q # p => proc'[q] = proc[q]
  BY DEF Onward
<1>3. \A q \in Procs : net.peer[q] # 0 => net.peer[q] \in Procs
  BY NetFields
<1>4. Server(p) /\ ~Client(p) /\ Idle(p) /\ proc'[p].pc = 11
  BY DEF Met, AsClient, AsServer, Client, Server, Started2, Runs, Onward
<1>5. /\ net'.sent = net.sent /\ net'.shown = net.shown /\ net'.socket = net.socket
      /\ net'.open \in {net.open, net.open \cup {p}}
      /\ \A q \in Procs : q # p => net'.peer[q] = net.peer[q] /\ net'.queue[q] = net.queue[q]
      /\ \/ net'.peer[p] = 0 /\ net'.queue[p] = net.queue[p]
         \/ /\ net.queue[p] # <<>> /\ net'.peer[p] = Head(net.queue[p]) /\ net'.queue[p] = Tail(net.queue[p])
  <2>1. net \in NetState
    BY DEF Typed
  <2>2. net.peer[p] = 0
    BY <1>4 DEF Idle
  <2>3. CASE net' = net
    BY <2>2, <2>3
  <2>4. CASE /\ net.queue[p] # <<>>
             /\ net' = [net EXCEPT !.queue[p] = Tail(@), !.peer[p] = Head(net.queue[p]), !.open = @ \cup {p}]
    <3>1. /\ net'.sent = net.sent /\ net'.shown = net.shown /\ net'.socket = net.socket
          /\ net'.open = net.open \cup {p}
          /\ net'.peer = [net.peer EXCEPT ![p] = Head(net.queue[p])]
          /\ net'.queue = [net.queue EXCEPT ![p] = Tail(net.queue[p])]
      BY <2>1, <2>4 DEF NetState
    <3>. QED  BY <2>4, <3>1, NetFields
  <2>. QED  BY <2>3, <2>4 DEF DoAccept
<1>6. /\ ToSet(net.queue[p]) \subseteq Procs
      /\ net.queue[p] # <<>> => /\ Head(net.queue[p]) \in ToSet(net.queue[p])
                                /\ ToSet(Tail(net.queue[p])) \subseteq ToSet(net.queue[p])
  <2>1. net.queue[p] \in Seq(Procs)
    BY NetFields
  <2>2. ASSUME net.queue[p] # <<>>
        PROVE  /\ Head(net.queue[p]) \in ToSet(net.queue[p])
               /\ ToSet(Tail(net.queue[p])) \subseteq ToSet(net.queue[p])
    <3>1. Head(net.queue[p]) = net.queue[p][1] /\ 1 \in DOMAIN net.queue[p]
      BY <2>1, <2>2, EmptySeq
    <3>2. /\ Len(Tail(net.queue[p])) = Len(net.queue[p]) - 1
          /\ \A i \in 1 .. Len(net.queue[p]) - 1 : Tail(net.queue[p])[i] = net.queue[p][i + 1]
          /\ Tail(net.queue[p]) \in Seq(Procs)
      BY <2>1, <2>2, HeadTailProperties
    <3>. QED  BY <2>1, <3>1, <3>2 DEF ToSet
  <2>. QED  BY <2>1, <2>2 DEF ToSet
<1>7. \A q \in Procs : q # p => (Idle(q)' <=> Idle(q))
  BY <1>5 DEF Idle
<1>8. ASSUME NEW q \in Procs  PROVE Lives(q)'
  BY <1>1, <1>7, <1>8 DEF Met, Lives, Runs
<1>9. ASSUME NEW q \in Procs  PROVE Listens(q)'
  BY <1>1, <1>5, <1>9 DEF Met, Listens
<1>10. \A r \in Procs : Client(r) => Client(r)' /\ net'.peer[r] = net.peer[r]
  BY <1>1, <1>4, <1>5
<1>11. ASSUME NEW q \in Procs  PROVE Queued(q)'
  <2>1. ToSet(net.queue[q]) \subseteq Procs
    BY NetFields DEF ToSet
  <2>2. \A r \in ToSet(net.queue[q]) : Client(r)' /\ net'.peer[r] = q
    BY <1>10, <2>1 DEF Met, Queued
  <2>3. ToSet(net'.queue[q]) \subseteq ToSet(net.queue[q])
    BY <1>5, <1>6
  <2>. QED  BY <2>2, <2>3 DEF Queued
<1>12. ASSUME NEW q \in Procs  PROVE AsClient(q)'
  <2>1. CASE Client(q)
    <3>1. q # p /\ proc'[q] = proc[q] /\ net'.peer[q] = net.peer[q] /\ (Idle(q)' <=> Idle(q))
      BY <1>2, <1>4, <1>5, <1>7, <2>1
    <3>2. \A r \in Procs : r = net.peer[q] => /\ Server(r)' /\ proc'[r].pc >= 10
                                              /\ WroteTo(r, q) => WroteTo(r, q)'
      <4>1. ASSUME NEW r \in Procs, r = net.peer[q]
            PROVE  Server(r) /\ proc[r].pc >= 10
        BY <2>1, <4>1 DEF Met, AsClient, Procs
      <4>2. p \notin net.sent
        BY <1>4 DEF Idle
      <4>. QED  BY <1>1, <1>2, <1>4, <1>5, <4>1, <4>2 DEF WroteTo
    <3>3. net.peer[q] = 0 \/ net.peer[q] \in Procs
      BY <1>3
    <3>. QED  BY <1>5, <2>1, <3>1, <3>2, <3>3 DEF Met, AsClient
  <2>. QED  BY <1>1, <2>1 DEF AsClient
<1>13. ASSUME NEW q \in Procs  PROVE AsServer(q)'
  <2>1. CASE q = p
    <3>1. net'.peer[p] = 0 \/ \E r \in Procs : r = net'.peer[p] /\ Client(r)' /\ net'.peer[r] = p
      BY <1>5, <1>6, <1>10 DEF Met, Queued
    <3>2. p \notin net'.sent /\ net'.shown[p] # "Goodbye!"
      BY <1>4, <1>5 DEF Idle
    <3>. QED  BY <1>4, <2>1, <3>1, <3>2 DEF AsServer
  <2>2. CASE q # p /\ Server(q)
    <3>1. proc'[q] = proc[q] /\ net'.peer[q] = net.peer[q] /\ (Idle(q)' <=> Idle(q)) /\ net'.shown[q] = net.shown[q]
      BY <1>2, <1>5, <1>7, <2>2
    <3>2. \A r \in Procs : r = net.peer[q] => /\ Client(r)' /\ net'.peer[r] = q
                                              /\ r \in net'.open => r \in net.open
      <4>1. ASSUME NEW r \in Procs, r = net.peer[q]
            PROVE  Client(r) /\ net.peer[r] = q /\ r # p
        BY <1>4, <2>2, <4>1 DEF Met, AsServer, Procs
      <4>. QED  BY <1>5, <1>10, <4>1
    <3>3. (net.peer[q] = 0 /\ 0 \notin net'.open) \/ net.peer[q] \in Procs
      BY <1>3, <1>5, NetFields DEF Procs
    <3>. QED  BY <1>5, <2>2, <3>1, <3>2, <3>3 DEF Met, AsServer
  <2>. QED  BY <1>1, <2>1, <2>2 DEF AsServer
<1>. QED  BY <1>8, <1>9, <1>11, <1>12, <1>13 DEF Met

LEMMA MetSend ==
    ASSUME Typed, prog = "basic", \A q \in Procs : Met(q), NEW p \in Procs, Runs(p), Onward(p),
           DoSend(p), proc[p].pc \in {4, 12}
    PROVE  \A q \in Procs : Met(q)'
<1>1. \A q \in Procs : /\ Client(q)' <=> Client(q)
                       /\ Server(q)' <=> Server(q)
                       /\ proc'[q].pc \in Nat /\ proc[q].pc \in Nat /\ proc'[q].pc >= proc[q].pc
                       /\ proc'[q].life = "unused" <=> proc[q].life = "unused"
                       /\ proc'[q].life \in {proc[q].life, "zombie"}
  BY OnwardKinds, RecordFields
<1>2. \A q \in Procs : q # p => proc'[q] = proc[q]
  BY DEF Onward
<1>3. \A q \in Procs : net.peer[q] # 0 => net.peer[q] \in Procs
  BY NetFields
<1>4. \/ proc[p].pc = 4 /\ Client(p) /\ ~Server(p)
      \/ proc[p].pc = 12 /\ Server(p) /\ ~Client(p)
  BY DEF Met, AsClient, AsServer, Client, Server, Started2, Runs
<1>5. \/ net' = AllClosedBy(p) /\ proc' = Ends(p)
      \/ net' = net /\ net.peer[p] = 0 /\ proc' = GoesOn(p)
      \/ OtherEnd(p) /\ net' = [net EXCEPT !.sent = @ \cup {p}] /\ proc' = GoesOn(p)
  BY DEF DoSend
<1>6. CASE net' = AllClosedBy(p) /\ proc' = Ends(p)
  <2>1. Shuts(p)
    BY <1>6, Shutting
  <2>2. proc'[p].life = "zombie"
    BY <1>6, EndsStops DEF Stops
  <2>. QED  BY <2>1, <2>2, MetShut
<1>7. CASE /\ net.peer[p] = 0 \/ OtherEnd(p)
           /\ net' = net \/ (OtherEnd(p) /\ net' = [net EXCEPT !.sent = @ \cup {p}])
           /\ proc' = GoesOn(p)
  <2>1. /\ net'.open = net.open /\ net'.shown = net.shown /\ net'.socket = net.socket
        /\ net'.peer = net.peer /\ net'.queue = net.queue
        /\ net'.sent = net.sent \/ (OtherEnd(p) /\ net'.sent = net.sent \cup {p})
    <3>1. net \in NetState
      BY DEF Typed
    <3>. QED  BY <1>7, <3>1 DEF NetState
  <2>2. proc'[p].pc = proc[p].pc + 1 /\ proc'[p].life = "code" /\ proc[p].life = "code"
    BY <1>7, GoesOnPasses DEF Passes, Moves, Runs
  <2>3. \A q \in Procs : q # p => (Idle(q)' <=> Idle(q))
    BY <2>1 DEF Idle
  <2>4. ASSUME NEW q \in Procs  PROVE Lives(q)'
    BY <1>1, <2>2, <2>3, <2>4 DEF Met, Lives
  <2>5. ASSUME NEW q \in Procs  PROVE Listens(q)'
    BY <1>1, <2>1, <2>5 DEF Met, Listens
  <2>6. ASSUME NEW q \in Procs  PROVE Queued(q)'
    <3>1. ToSet(net.queue[q]) \subseteq Procs
      BY NetFields DEF ToSet
    <3>. QED  BY <1>1, <2>1, <3>1 DEF Met, Queued
  <2>7. ASSUME NEW q \in Procs, Client(q)  PROVE AsClient(q)'
    <3>1. \A r \in Procs : r = net.peer[q] => Server(r)' /\ proc'[r].pc >= 10 /\ (WroteTo(r, q) => WroteTo(r, q)')
      <4>1. ASSUME NEW r \in Procs, r = net.peer[q]
            PROVE  Server(r) /\ proc[r].pc >= 10
        BY <2>7, <4>1 DEF Met, AsClient, Procs
      <4>. QED  BY <1>1, <2>1, <4>1 DEF WroteTo
    <3>2. net'.peer[q] = net.peer[q] /\ net'.shown[q] = net.shown[q] /\ (net.peer[q] = 0 \/ net.peer[q] \in Procs)
      BY <1>3, <2>1
    <3>3. net.shown[q] = "Goodbye!" => net.peer[q] # 0 /\ WroteTo(net.peer[q], q)
      BY <2>7 DEF Met, AsClient
    <3>4. CASE q = p
      BY <1>4, <2>2, <2>7, <3>1, <3>2, <3>3, <3>4 DEF AsClient
    <3>5. CASE q # p
      <4>1. proc'[q] = proc[q] /\ (q \in net'.sent => q \in net.sent)
        BY <1>2, <2>1, <3>5
      <4>. QED  BY <2>3, <2>7, <3>1, <3>2, <3>3, <3>5, <4>1 DEF Met, AsClient
    <3>. QED  BY <3>4, <3>5
  <2>8. ASSUME NEW q \in Procs, Server(q)  PROVE AsServer(q)'
    <3>1. \A r \in Procs : r = net.peer[q] => Client(r)' /\ net'.peer[r] = q
      <4>1. ASSUME NEW r \in Procs, r = net.peer[q]
            PROVE  Client(r) /\ net.peer[r] = q
        BY <2>8, <4>1 DEF Met, AsServer, Procs
      <4>. QED  BY <1>1, <2>1, <4>1
    <3>2. /\ net'.peer[q] = net.peer[q] /\ net'.shown[q] = net.shown[q] /\ net'.open = net.open
          /\ net.peer[q] = 0 \/ net.peer[q] \in Procs
      BY <1>3, <2>1
    <3>3. CASE q # p
      <4>1. proc'[q] = proc[q] /\ (q \in net'.sent => q \in net.sent)
        BY <1>2, <2>1, <3>3
      <4>. QED  BY <2>3, <2>8, <3>1, <3>2, <3>3, <4>1 DEF Met, AsServer
    <3>4. CASE q = p
      <4>1. proc[p].pc = 12 /\ proc'[p].pc = 13
        BY <1>4, <2>2, <2>8, <3>4
      <4>2. p \in net'.sent => net.shown[p] = "Hello!"
        <5>1. OtherEnd(p) => net.shown[p] = "Hello!"
          <6>1. SUFFICES ASSUME OtherEnd(p)  PROVE net.shown[p] = "Hello!"
            OBVIOUS
          <6>2. PICK r \in Procs : r = net.peer[p] /\ (p \in ToSet(net.queue[r]) \/ r \in net.open)
            BY <1>3, <6>1 DEF OtherEnd
          <6>3. p \notin ToSet(net.queue[r])
            BY <1>4, <2>8, <3>4 DEF Met, Queued
          <6>. QED  BY <2>8, <3>4, <4>1, <6>2, <6>3 DEF Met, AsServer
        <5>. QED  BY <2>1, <2>8, <3>4, <5>1 DEF Met, AsServer
      <4>3. /\ net.shown[p] # "Goodbye!"
            /\ net.peer[p] \in net.open => net.shown[p] = "Hello!"
        BY <2>8, <3>4, <4>1 DEF Met, AsServer
      <4>. QED  BY <3>1, <3>2, <3>4, <4>1, <4>2, <4>3 DEF AsServer
    <3>. QED  BY <3>3, <3>4
  <2>9. \A q \in Procs : AsClient(q)' /\ AsServer(q)'
    BY <1>1, <2>7, <2>8 DEF AsClient, AsServer
  <2>. QED  BY <2>4, <2>5, <2>6, <2>9 DEF Met
<1>. QED  BY <1>5, <1>6, <1>7

LEMMA MetReceive ==
    ASSUME Typed, prog = "basic", \A q \in Procs : Met(q), NEW p \in Procs, Runs(p), Onward(p),
           DoReceive(p), proc'[p].life = "code", proc[p].pc \in {5, 11}
    PROVE  \A q \in Procs : Met(q)'
<1>1. \A q \in Procs : /\ Client(q)' <=> Client(q)
                       /\ Server(q)' <=> Server(q)
                       /\ proc'[q].pc \in Nat /\ proc[q].pc \in Nat /\ proc'[q].pc >= proc[q].pc
                       /\ proc'[q].life = "unused" <=> proc[q].life = "unused"
                       /\ proc'[q].life \in {proc[q].life, "zombie"}
  BY OnwardKinds, RecordFields
<1>2. \A q \in Procs : q # p => proc'[q] = proc[q]
  BY DEF Onward
<1>3. \A q \in Procs : net.peer[q] # 0 => net.peer[q] \in Procs
  BY NetFields
<1>4. \/ proc[p].pc = 5 /\ Client(p) /\ ~Server(p)
      \/ proc[p].pc = 11 /\ Server(p) /\ ~Client(p)
  BY DEF Met, AsClient, AsServer, Client, Server, Started2, Runs
<1>5. /\ net'.open = net.open /\ net'.sent = net.sent /\ net'.socket = net.socket
      /\ net'.peer = net.peer /\ net'.queue = net.queue
      /\ \A q \in Procs : q # p => net'.shown[q] = net.shown[q]
      /\ \/ WroteTo(net.peer[p], p) /\ net'.shown[p] = Word(net.peer[p])
         \/ ~OtherEnd(p) /\ net'.shown[p] = "nothing"
  <2>1. net \in NetState
    BY DEF Typed
  <2>2. CASE WroteTo(net.peer[p], p) /\ net' = [net EXCEPT !.shown[p] = Word(net.peer[p])]
    BY <2>1, <2>2 DEF NetState
  <2>3. CASE ~OtherEnd(p) /\ net' = [net EXCEPT !.shown[p] = "nothing"]
    BY <2>1, <2>3 DEF NetState
  <2>. QED  BY <2>2, <2>3 DEF DoReceive
<1>6. proc'[p].pc = proc[p].pc + 1 /\ proc[p].life = "code"
  BY DEF Onward, Runs
<1>7. \A q \in Procs : q # p => (Idle(q)' <=> Idle(q))
  BY <1>5 DEF Idle
<1>8. ASSUME NEW q \in Procs  PROVE Lives(q)'
  BY <1>1, <1>6, <1>7, <1>8 DEF Met, Lives
<1>9. ASSUME NEW q \in Procs  PROVE Listens(q)'
  BY <1>1, <1>5, <1>9 DEF Met, Listens
<1>10. ASSUME NEW q \in Procs  PROVE Queued(q)'
  <2>1. ToSet(net.queue[q]) \subseteq Procs
    BY NetFields DEF ToSet
  <2>. QED  BY <1>1, <1>5, <2>1 DEF Met, Queued
<1>11. ASSUME NEW q \in Procs, Client(q)  PROVE AsClient(q)'
  <2>1. \A r \in Procs : r = net.peer[q] => Server(r)' /\ proc'[r].pc >= 10 /\ (WroteTo(r, q) => WroteTo(r, q)')
    <3>1. ASSUME NEW r \in Procs, r = net.peer[q]
          PROVE  Server(r) /\ proc[r].pc >= 10
      BY <1>11, <3>1 DEF Met, AsClient, Procs
    <3>. QED  BY <1>1, <1>5, <3>1 DEF WroteTo
  <2>2. net'.peer[q] = net.peer[q] /\ (net.peer[q] = 0 \/ net.peer[q] \in Procs)
    BY <1>3, <1>5
  <2>3. CASE q # p
    <3>1. proc'[q] = proc[q] /\ net'.sent = net.sent /\ net'.shown[q] = net.shown[q]
      BY <1>2, <1>5, <2>3
    <3>2. net.shown[q] = "Goodbye!" => net.peer[q] # 0 /\ WroteTo(net.peer[q], q)
      BY <1>11 DEF Met, AsClient
    <3>. QED  BY <1>7, <1>11, <2>1, <2>2, <2>3, <3>1, <3>2 DEF Met, AsClient
  <2>4. CASE q = p
    <3>1. proc'[p].pc = 6
      BY <1>4, <1>6, <1>11, <2>4
    <3>2. net'.shown[p] = "Goodbye!" => net.peer[p] # 0 /\ WroteTo(net.peer[p], p)
      <4>1. 0 \notin net.sent
        BY NetFields DEF Procs
      <4>. QED  BY <1>5, <4>1 DEF WroteTo
    <3>. QED  BY <2>1, <2>2, <2>4, <3>1, <3>2 DEF AsClient
  <2>. QED  BY <2>3, <2>4
<1>12. ASSUME NEW q \in Procs, Server(q)  PROVE AsServer(q)'
  <2>1. \A r \in Procs : r = net.peer[q] => Client(r) /\ Client(r)' /\ net'.peer[r] = q /\ net.peer[r] = q
    <3>1. ASSUME NEW r \in Procs, r = net.peer[q]
          PROVE  Client(r) /\ net.peer[r] = q
      BY <1>12, <3>1 DEF Met, AsServer, Procs
    <3>. QED  BY <1>1, <1>5, <3>1
  <2>2. net'.peer[q] = net.peer[q] /\ net'.open = net.open /\ (net.peer[q] = 0 \/ net.peer[q] \in Procs)
    BY <1>3, <1>5
  <2>3. CASE q # p
    <3>1. proc'[q] = proc[q] /\ net'.sent = net.sent /\ net'.shown[q] = net.shown[q]
      BY <1>2, <1>5, <2>3
    <3>. QED  BY <1>7, <1>12, <2>1, <2>2, <2>3, <3>1 DEF Met, AsServer
  <2>4. CASE q = p
    <3>1. proc[p].pc = 11 /\ proc'[p].pc = 12
      BY <1>4, <1>6, <1>12, <2>4
    <3>2. p \notin net.sent
      BY <1>12, <2>4, <3>1 DEF Met, AsServer
    <3>3. 0 \notin net.sent /\ 0 \notin net.open
      BY NetFields DEF Procs
    <3>4. CASE WroteTo(net.peer[p], p) /\ net'.shown[p] = Word(net.peer[p])
      <4>1. PICK r \in Procs : r = net.peer[p]
        BY <2>2, <2>4, <3>3, <3>4 DEF WroteTo
      <4>2. net'.shown[p] = "Hello!"
        BY <2>1, <2>4, <3>4, <4>1 DEF Word, Client
      <4>. QED  BY <1>5, <2>1, <2>2, <2>4, <3>1, <3>2, <4>2 DEF AsServer
    <3>5. CASE ~OtherEnd(p) /\ net'.shown[p] = "nothing"
      <4>1. net.peer[p] \notin net.open
        BY <2>1, <2>2, <2>4, <3>3, <3>5 DEF OtherEnd
      <4>. QED  BY <1>5, <2>1, <2>2, <2>4, <3>1, <3>2, <3>5, <4>1 DEF AsServer
    <3>. QED  BY <1>5, <3>4, <3>5
  <2>. QED  BY <2>3, <2>4
<1>13. \A q \in Procs : AsClient(q)' /\ AsServer(q)'
  BY <1>1, <1>11, <1>12 DEF AsClient, AsServer
<1>. QED  BY <1>8, <1>9, <1>10, <1>13 DEF Met

LEMMA ConnectedStep ==
    ASSUME Typed, Connected, NEW p \in Procs, Acts(p)
    PROVE  Connected'
<1>. SUFFICES ASSUME prog = "basic"  PROVE \A q \in Procs : Met(q)'
  BY CallsActions DEF Connected
<1>. DEFINE pc == proc[p].pc
<1>1. \A q \in Procs : Met(q)
  BY DEF Connected
<1>2. Runs(p)
  BY <1>1, CallsActions DEF Met, Lives, Runs
<1>3. pc \in 1 .. 15
  BY <1>2, BasicCalls
<1>4. CASE pc = 2
  BY <1>1, <1>2, <1>4, BasicCalls, MetFork
<1>5. CASE pc # 2
  <2>1. Onward(p)
    BY <1>2, <1>5, BasicCalls
  <2>0. pc \notin {2, 4, 7, 12, 15} => proc'[p].life = "code"
    BY <1>2, BasicCalls
  <2>2. CASE pc \in {1, 8, 9}
    <3>1. (DoUnlink(p) \/ DoBind(p) \/ DoListen(p)) /\ proc'[p].life = "code"
      <4>1. pc = 1 => DoUnlink(p)
        BY <1>2, BasicCalls
      <4>2. pc = 8 => DoBind(p)
        BY <1>2, BasicCalls
      <4>3. pc = 9 => DoListen(p)
        BY <1>2, BasicCalls
      <4>. QED  BY <2>0, <2>2, <4>1, <4>2, <4>3
    <3>2. (DoUnlink(p) => pc = 1) /\ (DoBind(p) => pc = 8) /\ (DoListen(p) => pc = 9)
      <4>1. Call(p).op = IF pc = 1 THEN "unlink" ELSE IF pc = 8 THEN "bind" ELSE "listen"
        BY <2>2, BasicText DEF Call, Unlink, Bind, Listen
      <4>. QED  BY <2>2, <4>1 DEF DoUnlink, DoBind, DoListen, At
    <3>. QED  BY <1>1, <1>2, <2>1, <3>1, <3>2, MetName
  <2>3. CASE pc = 3
    <3>1. DoConnect(p)
      BY <1>2, <2>3, BasicCalls
    <3>. QED  BY <1>1, <1>2, <2>0, <2>1, <2>3, <3>1, MetConnect
  <2>4. CASE pc = 10
    <3>1. DoAccept(p)
      BY <1>2, <2>4, BasicCalls
    <3>. QED  BY <1>1, <1>2, <2>0, <2>1, <2>4, <3>1, MetAccept
  <2>5. CASE pc \in {4, 12}
    <3>1. DoSend(p)
      BY <1>2, <2>5, BasicCalls
    <3>. QED  BY <1>1, <1>2, <2>1, <2>5, <3>1, MetSend
  <2>6. CASE pc \in {5, 11}
    <3>1. DoReceive(p) /\ proc'[p].life = "code"
      <4>1. DoReceive(p)
        BY <1>2, <2>6, BasicCalls
      <4>. QED  BY <2>6, <2>0, <4>1
    <3>. QED  BY <1>1, <1>2, <2>1, <2>6, <3>1, MetReceive
  <2>7. CASE pc \in {6, 13, 14}
    <3>1. DoHangUp(p)
      BY <1>2, <2>7, BasicCalls
    <3>. QED  BY <1>1, <1>2, <2>1, <2>7, <3>1, Shutting, MetShut
  <2>8. CASE pc \in {7, 15}
    <3>1. net' = AllClosedBy(p) /\ proc'[p].life = "zombie"
      BY <1>2, <2>8, BasicCalls
    <3>. QED  BY <1>1, <1>2, <2>1, <3>1, Shutting, MetShut
  <2>. QED  BY <1>3, <1>5, <2>2, <2>3, <2>4, <2>5, <2>6, <2>7, <2>8
<1>. QED  BY <1>4, <1>5

(* A client is connected to the server, and the server to no other client. *)
LEMMA PairPeers ==
    ASSUME Typed, Connected, Pair, prog = "basic", Alone
    PROVE  /\ 1 \in Procs
           /\ proc[1].pc \in {1, 2} \cup 8 .. 15
           /\ net.peer[1] # 0 => /\ Other(net.peer[1]) /\ net.peer[1] \in Procs /\ net.peer[net.peer[1]] = 1
                                 /\ proc[net.peer[1]].pc \in 4 .. 7 /\ Client(net.peer[1])
           /\ \A c \in Procs : Other(c) =>
                /\ proc[c].pc \in 3 .. 7 /\ Client(c)
                /\ c \in net.sent => proc[c].pc >= 5
                /\ net.peer[1] # 0 => net.peer[1] = c
           /\ 1 \in net.sent => proc[1].pc >= 13
<1>1. 1 \in Procs /\ Main /\ \A q \in Procs : Met(q)
  BY MaxProcsAssumption DEF Procs, Pair, Connected
<1>2. Server(1)
  BY <1>1 DEF Main
<1>3. ASSUME NEW r \in Procs, r = net.peer[1]
      PROVE  Other(r) /\ net.peer[r] = 1 /\ proc[r].pc \in 4 .. 7 /\ Client(r)
  <2>1. Client(r) /\ net.peer[r] = 1
    BY <1>1, <1>2, <1>3 DEF Met, AsServer, Procs
  <2>2. r # 1 /\ Other(r)
    BY <1>2, <2>1 DEF Client, Server, Other
  <2>3. proc[r].pc \in 3 .. 7 /\ proc[r].pc # 3
    BY <1>1, <2>1 DEF Met, AsClient, Idle
  <2>. QED  BY <2>1, <2>2, <2>3
<1>4. ASSUME NEW c \in Procs, Other(c)
      PROVE  /\ proc[c].pc \in 3 .. 7 /\ Client(c)
             /\ c \in net.sent => proc[c].pc >= 5
  <2>1. Client(c)
    BY <1>4 DEF Pair, Partner
  <2>2. /\ proc[c].pc \in 3 .. 7
        /\ proc[c].pc = 3 \/ proc[c].pc = 4 => c \notin net.sent
    BY <1>1, <2>1 DEF Met, AsClient, Idle
  <2>. QED  BY <2>1, <2>2
<1>5. proc[1].pc \in {1, 2} \cup 8 .. 15 /\ (1 \in net.sent => proc[1].pc >= 13)
  BY <1>1, <1>2 DEF Met, AsServer
<1>6. net.peer[1] # 0 => net.peer[1] \in Procs
  BY <1>1, NetFields
<1>7. \A c, d \in Procs : Other(c) /\ Other(d) => c = d
  BY DEF Pair
<1>. QED  BY <1>1, <1>3, <1>4, <1>5, <1>6, <1>7

LEMMA AloneBefore ==
    ASSUME Typed, prog = "basic", NEW p \in Procs, Acts(p), Runs(p), Alone'
    PROVE  Alone
<1>1. CASE proc[p].pc # 2
  <2>1. Onward(p)
    BY <1>1, BasicCalls
  <2>2. \A q \in Procs : proc'[q].parent = proc[q].parent /\ (proc[q].life # "unused" => proc'[q].life # "unused")
    BY <2>1 DEF Onward
  <2>. QED  BY <2>2 DEF Alone
<1>2. CASE proc[p].pc = 2
  <2>1. \/ \E c \in Procs : Begets(p, c, 8, "tmp")
        \/ Moves(p, 8, proc[p].tab, [proc[p].reg EXCEPT !["tmp"] = -1])
    BY <1>2, BasicCalls
  <2>2. \A q \in Procs : proc[q].life # "unused" => proc'[q].parent = proc[q].parent /\ proc'[q].life # "unused"
    BY <2>1 DEF Begets, Moves, But, Runs
  <2>. QED  BY <2>2 DEF Alone
<1>. QED  BY <1>1, <1>2

(* What the server does leaves the client as it is. *)
LeavesOthers(p) ==
    \A c \in Procs : c # p =>
        /\ net'.peer[c] = net.peer[c] /\ net'.shown[c] = net.shown[c]
        /\ c \in net'.open <=> c \in net.open
        /\ c \in net'.sent <=> c \in net.sent

(* Its call, at each of its lines. *)
Serves(pc) ==
    /\ pc = 1 => net'.name = 0
    /\ pc # 1 => net'.name \in {0, 1}
    /\ pc = 8 => net'.socket[1] = "named"
    /\ pc \in 9 .. 12 => net'.socket[1] = "listening"
    /\ pc \in 10 .. 13 => 1 \in net'.open
    /\ pc >= 10 => net'.peer[1] # 0
    /\ pc >= 11 => net'.shown[1] = "Hello!"
    /\ pc >= 12 => 1 \in net'.sent
    /\ LeavesOthers(1)

LEMMA PairServes ==
    ASSUME Typed, Connected, Pair, prog = "basic", Alone, Acts(1), Runs(1), proc[1].pc # 2
    PROVE  /\ Serves(proc[1].pc)
           /\ proc[1].pc = 11 => \A c \in Procs : Other(c) => proc[c].pc >= 5
           /\ proc[1].pc # 15 => proc'[1].life = "code" /\ proc'[1].pc = proc[1].pc + 1
           /\ proc[1].pc = 15 => proc'[1].life = "zombie" /\ proc'[1].pc = 15
<1>. DEFINE pc == proc[1].pc
            q == net.peer[1]
<1>1. 1 \in Procs /\ Main /\ pc \in {1} \cup 8 .. 15
  BY PairPeers DEF Pair
<1>2. net \in NetState /\ ~IsClient(1)
  BY <1>1 DEF Typed, Main, Server
<1>3. pc >= 11 => /\ q \in Procs /\ Other(q) /\ Client(q) /\ net.peer[q] = 1 /\ q # 0
                  /\ proc[q].pc \in 4 .. 7 /\ Partner(q) /\ q # 1
  <2>1. pc >= 11 => q # 0
    BY <1>1 DEF Main
  <2>2. q # 0 => q \in Procs /\ Other(q) /\ Client(q) /\ net.peer[q] = 1 /\ proc[q].pc \in 4 .. 7
    BY PairPeers
  <2>. QED  BY <2>1, <2>2 DEF Pair, Other
<1>4. pc \notin {12, 15} => proc'[1].life = "code" /\ proc'[1].pc = pc + 1
  <2>1. pc \notin {2, 4, 7, 12, 15} => proc'[1].life = "code"
    BY <1>1, BasicCalls
  <2>2. Onward(1)
    BY <1>1, BasicCalls
  <2>. QED  BY <1>1, <2>1, <2>2 DEF Onward
<1>5. CASE pc \in {1, 8, 9}
  <2>1. CASE pc = 1
    <3>1. DoUnlink(1)
      BY <1>1, <2>1, BasicCalls
    <3>2. net' = [net EXCEPT !.name = 0]
      BY <3>1 DEF DoUnlink
    <3>3. net'.name = 0 /\ LeavesOthers(1)
      BY <1>2, <3>2 DEF LeavesOthers, NetState
    <3>. QED  BY <1>4, <2>1, <3>3 DEF Serves
  <2>2. CASE pc = 8
    <3>1. DoBind(1)
      BY <1>1, <2>2, BasicCalls
    <3>2. net' = [net EXCEPT !.name = 1, !.socket[1] = "named"]
      BY <1>1, <2>2, <3>1 DEF DoBind, Main
    <3>3. net'.name = 1 /\ net'.socket[1] = "named" /\ LeavesOthers(1)
      BY <1>1, <1>2, <3>2 DEF LeavesOthers, NetState
    <3>. QED  BY <1>4, <2>2, <3>3 DEF Serves
  <2>3. CASE pc = 9
    <3>1. DoListen(1)
      BY <1>1, <2>3, BasicCalls
    <3>2. net' = [net EXCEPT !.socket[1] = "listening"]
      BY <1>1, <2>3, <3>1 DEF DoListen, Main
    <3>3. net'.name = net.name /\ net'.socket[1] = "listening" /\ LeavesOthers(1)
      BY <1>1, <1>2, <3>2 DEF LeavesOthers, NetState
    <3>4. net.name \in {0, 1}
      BY <1>1 DEF Main
    <3>. QED  BY <1>4, <2>3, <3>3, <3>4 DEF Serves
  <2>. QED  BY <1>5, <2>1, <2>2, <2>3
<1>6. CASE pc = 10
  <2>1. DoAccept(1)
    BY <1>1, <1>6, BasicCalls
  <2>2. /\ net.queue[1] # <<>>
        /\ net' = [net EXCEPT !.queue[1] = Tail(@), !.peer[1] = Head(net.queue[1]), !.open = @ \cup {1}]
    BY <1>1, <1>6, <2>1 DEF DoAccept, Main
  <2>3. Head(net.queue[1]) # 0
    <3>1. net.queue[1] \in Seq(Procs)
      BY <1>1, NetFields
    <3>2. Head(net.queue[1]) \in Procs
      BY <2>2, <3>1
    <3>. QED  BY <3>2 DEF Procs
  <2>4. /\ net'.name = net.name /\ net'.socket = net.socket /\ 1 \in net'.open
        /\ net'.peer[1] = Head(net.queue[1]) /\ LeavesOthers(1)
    BY <1>1, <1>2, <2>2 DEF LeavesOthers, NetState
  <2>5. net.name \in {0, 1} /\ net.socket[1] = "listening"
    BY <1>1, <1>6 DEF Main
  <2>. QED  BY <1>4, <1>6, <2>3, <2>4, <2>5 DEF Serves
<1>7. CASE pc = 11
  <2>1. DoReceive(1)
    BY <1>1, <1>7, BasicCalls
  <2>2. OtherEnd(1) \/ WroteTo(q, 1)
    BY <1>3, <1>7 DEF OtherEnd, WroteTo, Partner
  <2>3. WroteTo(q, 1) /\ net' = [net EXCEPT !.shown[1] = "Hello!"]
    <3>1. Word(q) = "Hello!"
      BY <1>3, <1>7 DEF Word, Client
    <3>. QED  BY <2>1, <2>2, <3>1 DEF DoReceive
  <2>4. \A c \in Procs : Other(c) => proc[c].pc >= 5
    <3>1. \A c \in Procs : Other(c) => c = q /\ (c \in net.sent => proc[c].pc >= 5)
      BY <1>3, <1>7, PairPeers
    <3>. QED  BY <2>3, <3>1 DEF WroteTo
  <2>5. /\ net'.name = net.name /\ net'.socket = net.socket /\ net'.open = net.open
        /\ net'.peer = net.peer /\ net'.shown[1] = "Hello!" /\ LeavesOthers(1)
    BY <1>1, <1>2, <2>3 DEF LeavesOthers, NetState
  <2>6. net.name \in {0, 1} /\ net.socket[1] = "listening" /\ 1 \in net.open /\ net.peer[1] # 0
    BY <1>1, <1>7 DEF Main
  <2>. QED  BY <1>4, <1>7, <2>4, <2>5, <2>6 DEF Serves
<1>8. CASE pc = 12
  <2>1. DoSend(1)
    BY <1>1, <1>8, BasicCalls
  <2>2. proc[q].pc = 5
    BY <1>3, <1>8 DEF Partner
  <2>3. OtherEnd(1)
    BY <1>3, <1>8, <2>2 DEF OtherEnd, Partner
  <2>4. proc' = GoesOn(1) /\ net' = [net EXCEPT !.sent = @ \cup {1}]
    BY <1>3, <1>8, <2>1, <2>3 DEF DoSend
  <2>5. proc'[1].life = "code" /\ proc'[1].pc = pc + 1
    BY <1>1, <2>4, GoesOnPasses DEF Passes, Moves, Runs
  <2>6. /\ net'.name = net.name /\ net'.socket = net.socket /\ net'.open = net.open
        /\ net'.peer = net.peer /\ net'.shown = net.shown /\ 1 \in net'.sent /\ LeavesOthers(1)
    BY <1>1, <1>2, <2>4 DEF LeavesOthers, NetState
  <2>7. /\ net.name \in {0, 1} /\ net.socket[1] = "listening" /\ 1 \in net.open /\ net.peer[1] # 0
        /\ net.shown[1] = "Hello!"
    BY <1>1, <1>8 DEF Main
  <2>. QED  BY <1>8, <2>5, <2>6, <2>7 DEF Serves
<1>9. CASE pc \in {13, 14, 15}
  <2>1. /\ pc = 13 => net' = [net EXCEPT !.socket[1] = "closed", !.queue[1] = <<>>]
        /\ pc = 14 => net' = [net EXCEPT !.open = @ \ {1}]
    <3>1. pc \in {13, 14} => DoHangUp(1)
      BY <1>1, BasicCalls
    <3>2. (pc = 13 => Call(1).end = "fd_skt") /\ (pc = 14 => Call(1).end = "fd_client")
      BY <1>1, BasicCalls
    <3>. QED  BY <1>2, <3>1, <3>2 DEF DoHangUp
  <2>2. pc = 15 => net' = AllClosedBy(1) /\ proc'[1].life = "zombie" /\ proc'[1].pc = 15
    <3>1. pc = 15 => net' = AllClosedBy(1) /\ proc'[1].life = "zombie"
      BY <1>1, BasicCalls
    <3>2. Onward(1)
      BY <1>1, BasicCalls
    <3>. QED  BY <3>1, <3>2 DEF Onward
  <2>3. /\ net'.name = net.name /\ net'.peer = net.peer /\ net'.shown = net.shown /\ net'.sent = net.sent
        /\ pc = 13 => net'.open = net.open
        /\ LeavesOthers(1)
    <3>1. CASE pc = 13
      BY <1>1, <1>2, <2>1, <3>1 DEF LeavesOthers, NetState
    <3>2. CASE pc = 14
      BY <1>1, <1>2, <2>1, <3>2 DEF LeavesOthers, NetState
    <3>3. CASE pc = 15
      <4>1. Shuts(1)
        BY <1>1, <2>2, <3>3, Shutting
      <4>. QED  BY <3>3, <4>1 DEF Shuts, LeavesOthers
    <3>. QED  BY <1>9, <3>1, <3>2, <3>3
  <2>4. /\ net.name \in {0, 1} /\ net.peer[1] # 0 /\ net.shown[1] = "Hello!" /\ 1 \in net.sent
        /\ pc = 13 => 1 \in net.open
    BY <1>1, <1>9 DEF Main
  <2>. QED  BY <1>4, <1>9, <2>2, <2>3, <2>4 DEF Serves
<1>. QED  BY <1>1, <1>5, <1>6, <1>7, <1>8, <1>9

LEMMA PairServer ==
    ASSUME Typed, Connected, Pair, prog = "basic", Alone, Acts(1), Runs(1), proc[1].pc # 2
    PROVE  /\ Main'
           /\ \A c, d \in Procs : Other(c)' /\ Other(d)' => c = d
           /\ \A c \in Procs : Other(c)' => Partner(c)'
<1>. DEFINE pc == proc[1].pc
<1>1. 1 \in Procs /\ Main /\ pc \in {1} \cup 8 .. 15 /\ Onward(1)
  <2>1. 1 \in Procs /\ Main /\ pc \in {1} \cup 8 .. 15
    BY PairPeers DEF Pair
  <2>. QED  BY <2>1, BasicCalls
<1>2. \A c \in Procs : /\ Client(c)' <=> Client(c)
                       /\ Server(c)' <=> Server(c)
                       /\ Other(c)' <=> Other(c)
                       /\ c # 1 => proc'[c] = proc[c]
  <2>1. \A c \in Procs : /\ Client(c)' <=> Client(c)
                         /\ Server(c)' <=> Server(c)
                         /\ proc'[c].life = "unused" <=> proc[c].life = "unused"
    BY <1>1, OnwardKinds
  <2>2. \A c \in Procs : c # 1 => proc'[c] = proc[c]
    BY <1>1 DEF Onward
  <2>. QED  BY <2>1, <2>2 DEF Other, Started2
<1>3. Serves(pc)
  BY PairServes
<1>4. /\ pc # 15 => proc'[1].life = "code" /\ proc'[1].pc = pc + 1
      /\ pc = 15 => proc'[1].life = "zombie" /\ proc'[1].pc = 15
  BY PairServes
<1>5. Main'
  <2>1. Server(1)'
    BY <1>1, <1>2 DEF Main
  <2>. QED  BY <1>1, <1>3, <1>4, <2>1 DEF Main, Serves
<1>6. ASSUME NEW c \in Procs, Other(c)
      PROVE  Partner(c)'
  <2>1. Partner(c) /\ c # 1 /\ proc'[c] = proc[c] /\ Client(c)'
    BY <1>2, <1>6 DEF Pair, Partner, Other
  <2>2. LeavesOthers(1)
    BY <1>3 DEF Serves
  <2>3. pc > 2 /\ pc \in 8 .. 15 /\ proc[c].pc \in 3 .. 7
    BY <1>1, <1>6, <2>1, PairPeers DEF Partner
  <2>4. pc >= 11 => proc[c].pc >= 5
    <3>1. pc = 11 => proc[c].pc >= 5
      BY <1>6, PairServes
    <3>. QED  BY <2>1, <2>3, <3>1 DEF Partner
  <2>5. proc'[1].pc > 2 /\ proc'[1].pc >= pc /\ (proc'[1].pc = 10 => pc = 9) /\ (proc'[1].pc >= 12 => pc >= 11)
    BY <1>4, <2>3
  <2>6. /\ proc[c].pc >= 4 => pc >= 10 /\ net'.peer[c] = 1
        /\ proc[c].pc \in 4 .. 6 => c \in net'.open
        /\ proc[c].pc >= 5 => c \in net'.sent
        /\ proc[c].pc >= 6 => pc >= 13 /\ net'.shown[c] = "Goodbye!"
        /\ proc[c].life = "zombie" => proc[c].pc = 7
    BY <2>1, <2>2 DEF LeavesOthers, Partner
  <2>7. proc[c].pc \in Nat /\ proc'[1].pc \in Nat /\ pc \in Nat
    BY <1>4, <2>3
  <2>8. proc'[1].pc = 10 /\ proc[c].pc >= 4 => c \in ToSet(net'.queue[1])
    BY <2>5, <2>6, <2>7
  <2>9. /\ proc'[1].pc >= 12 => proc[c].pc >= 5
        /\ proc[c].pc >= 4 => proc'[1].pc >= 10
        /\ proc[c].pc >= 6 => proc'[1].pc >= 13
    BY <2>4, <2>5, <2>6, <2>7
  <2>. QED  BY <2>1, <2>5, <2>6, <2>8, <2>9 DEF Partner
<1>7. \A c, d \in Procs : Other(c) /\ Other(d) => c = d
  BY DEF Pair
<1>. QED  BY <1>2, <1>5, <1>6, <1>7

(* What a client does leaves the server as it is, but for its queue. *)
Asks(p, at) ==
    /\ net'.name = net.name
    /\ net'.socket[1] = net.socket[1]
    /\ at # 3 => net'.queue[1] = net.queue[1]
    /\ at = 3 => proc[1].pc >= 10 /\ p \in ToSet(net'.queue[1])
    /\ net'.peer[p] = 1
    /\ at <= 5 => p \in net'.open
    /\ at >= 4 => p \in net'.sent
    /\ at >= 5 => proc[1].pc >= 13 /\ net'.shown[p] = "Goodbye!"
    /\ LeavesOthers(p)

LEMMA PairAsks ==
    ASSUME Typed, Connected, Pair, prog = "basic", Alone, NEW p \in Procs, Other(p), Acts(p), Runs(p)
    PROVE  /\ Asks(p, proc[p].pc)
           /\ proc[p].pc = 4 => proc[1].pc <= 11
           /\ proc[p].pc # 7 => proc'[p].life = "code" /\ proc'[p].pc = proc[p].pc + 1
           /\ proc[p].pc = 7 => proc'[p].life = "zombie" /\ proc'[p].pc = 7
<1>. DEFINE at == proc[p].pc
            pc == proc[1].pc
<1>1. 1 \in Procs /\ Main /\ Partner(p) /\ p # 1 /\ IsClient(p) /\ ~IsClient(1)
  BY PairPeers DEF Pair, Other, Main, Partner, Client, Server
<1>2. net \in NetState
  BY DEF Typed
<1>3. at \in 3 .. 7 /\ pc \in 8 .. 15 /\ (net.peer[1] # 0 => net.peer[1] = p)
  <2>1. at \in 3 .. 7 /\ pc \in {1, 2} \cup 8 .. 15 /\ (net.peer[1] # 0 => net.peer[1] = p)
    BY PairPeers
  <2>. QED  BY <1>1, <2>1 DEF Partner
<1>4. at \notin {4, 7} => proc'[p].life = "code" /\ proc'[p].pc = at + 1
  <2>1. at \notin {2, 4, 7, 12, 15} => proc'[p].life = "code"
    BY BasicCalls
  <2>2. Onward(p)
    <3>1. at # 2
      BY <1>3
    <3>. QED  BY <3>1, BasicCalls
  <2>. QED  BY <1>3, <2>1, <2>2 DEF Onward
<1>5. at >= 4 => net.peer[p] = 1
  BY <1>1 DEF Partner
<1>6. pc >= 11 => net.peer[1] = p
  BY <1>1, <1>3 DEF Main
<1>7. at \in {4, 5} /\ pc <= 12 => OtherEnd(p)
  <2>1. at \in {4, 5} /\ pc = 10 => p \in ToSet(net.queue[1])
    BY <1>1 DEF Partner
  <2>2. pc \in 11 .. 12 => 1 \in net.open
    BY <1>1 DEF Main
  <2>3. at \in {4, 5} => pc >= 10
    BY <1>1, <1>3 DEF Partner
  <2>. QED  BY <1>3, <1>5, <1>6, <2>1, <2>2, <2>3 DEF OtherEnd
<1>8. CASE at = 3
  <2>1. DoConnect(p)
    BY <1>8, BasicCalls
  <2>2. net.name = 1 /\ net.socket[1] = "listening"
    BY <1>1, <2>1 DEF DoConnect, Main
  <2>3. net' = [net EXCEPT !.queue[1] = Append(@, p), !.peer[p] = 1, !.open = @ \cup {p}]
    BY <2>1, <2>2 DEF DoConnect
  <2>4. /\ net'.name = net.name /\ net'.socket = net.socket /\ net'.peer[p] = 1 /\ p \in net'.open
        /\ net'.queue[1] = Append(net.queue[1], p) /\ LeavesOthers(p)
    BY <1>1, <1>2, <2>3 DEF LeavesOthers, NetState
  <2>5. p \in ToSet(net'.queue[1])
    <3>1. net.queue[1] \in Seq(Procs)
      BY <1>1, NetFields
    <3>. QED  BY <2>4, <3>1 DEF ToSet
  <2>6. pc >= 10
    BY <1>1, <2>2 DEF Connected, Met, Listens
  <2>. QED  BY <1>4, <1>8, <2>2, <2>4, <2>5, <2>6 DEF Asks
<1>9. CASE at = 4
  <2>1. DoSend(p)
    BY <1>9, BasicCalls
  <2>2. pc <= 11
    BY <1>1, <1>3, <1>9 DEF Partner
  <2>3. OtherEnd(p)
    BY <1>7, <1>9, <2>2, <1>3
  <2>4. proc' = GoesOn(p) /\ net' = [net EXCEPT !.sent = @ \cup {p}]
    BY <1>5, <1>9, <2>1, <2>3 DEF DoSend
  <2>5. proc'[p].life = "code" /\ proc'[p].pc = at + 1
    BY <2>4, GoesOnPasses DEF Passes, Moves, Runs
  <2>6. /\ net'.name = net.name /\ net'.socket = net.socket /\ net'.open = net.open
        /\ net'.peer = net.peer /\ net'.queue = net.queue /\ p \in net'.sent /\ LeavesOthers(p)
    BY <1>2, <2>4 DEF LeavesOthers, NetState
  <2>7. p \in net.open
    BY <1>1, <1>9 DEF Partner
  <2>. QED  BY <1>5, <1>9, <2>2, <2>5, <2>6, <2>7 DEF Asks
<1>10. CASE at = 5
  <2>1. DoReceive(p)
    BY <1>10, BasicCalls
  <2>2. pc >= 13 => WroteTo(1, p)
    BY <1>1, <1>3, <1>6 DEF WroteTo, Main
  <2>3. WroteTo(1, p) /\ net' = [net EXCEPT !.shown[p] = "Goodbye!"]
    <3>1. Word(1) = "Goodbye!"
      BY <1>1 DEF Word
    <3>2. OtherEnd(p) \/ WroteTo(1, p)
      BY <1>3, <1>7, <1>10, <2>2
    <3>. QED  BY <1>5, <1>10, <2>1, <3>1, <3>2 DEF DoReceive
  <2>4. pc >= 13
    BY <2>3, PairPeers DEF WroteTo
  <2>5. /\ net'.name = net.name /\ net'.socket = net.socket /\ net'.open = net.open /\ net'.sent = net.sent
        /\ net'.peer = net.peer /\ net'.queue = net.queue /\ net'.shown[p] = "Goodbye!" /\ LeavesOthers(p)
    BY <1>2, <2>3 DEF LeavesOthers, NetState
  <2>6. p \in net.open /\ p \in net.sent
    BY <1>1, <1>10 DEF Partner
  <2>. QED  BY <1>4, <1>5, <1>10, <2>4, <2>5, <2>6 DEF Asks
<1>11. CASE at \in {6, 7}
  <2>1. Shuts(p) /\ (at = 7 => proc'[p].life = "zombie")
    <3>1. at = 6 => DoHangUp(p)
      BY BasicCalls
    <3>2. at = 7 => net' = AllClosedBy(p) /\ proc'[p].life = "zombie"
      BY BasicCalls
    <3>. QED  BY <1>11, <3>1, <3>2, Shutting
  <2>2. at = 7 => proc'[p].pc = 7
    <3>1. at # 2
      BY <1>3
    <3>2. Onward(p)
      BY <3>1, BasicCalls
    <3>. QED  BY <2>1, <3>2 DEF Onward
  <2>3. /\ net'.name = net.name /\ net'.socket[1] = net.socket[1] /\ net'.queue[1] = net.queue[1]
        /\ net'.peer = net.peer /\ net'.sent = net.sent /\ net'.shown = net.shown /\ LeavesOthers(p)
    BY <1>1, <2>1 DEF Shuts, LeavesOthers
  <2>4. p \in net.sent /\ pc >= 13 /\ net.shown[p] = "Goodbye!"
    BY <1>1, <1>11 DEF Partner
  <2>. QED  BY <1>4, <1>5, <1>11, <2>1, <2>2, <2>3, <2>4 DEF Asks
<1>. QED  BY <1>3, <1>8, <1>9, <1>10, <1>11

LEMMA PairClient ==
    ASSUME Typed, Connected, Pair, prog = "basic", Alone, NEW p \in Procs, Other(p), Acts(p), Runs(p)
    PROVE  /\ Main'
           /\ \A c, d \in Procs : Other(c)' /\ Other(d)' => c = d
           /\ \A c \in Procs : Other(c)' => Partner(c)'
<1>. DEFINE at == proc[p].pc
            pc == proc[1].pc
<1>1. 1 \in Procs /\ p # 1 /\ Main /\ Partner(p) /\ at \in 3 .. 7
  BY PairPeers DEF Pair, Other
<1>2. Onward(p)
  <2>1. at # 2
    BY <1>1
  <2>. QED  BY <2>1, BasicCalls
<1>3. proc'[1] = proc[1] /\ (Client(p)' <=> Client(p)) /\ (Server(1)' <=> Server(1))
  BY <1>1, <1>2, OnwardKinds DEF Onward
<1>4. \A c, d \in Procs : Other(c) /\ Other(d) => c = d
  BY DEF Pair
<1>5. \A c \in Procs : Other(c)' <=> Other(c)
  <2>1. \A c \in Procs : proc'[c].life = "unused" <=> proc[c].life = "unused"
    BY <1>2, OnwardKinds
  <2>. QED  BY <2>1 DEF Other, Started2
<1>6. Asks(p, at)
  BY PairAsks
<1>7. /\ at # 7 => proc'[p].life = "code" /\ proc'[p].pc = at + 1
      /\ at = 7 => proc'[p].life = "zombie" /\ proc'[p].pc = 7
  BY PairAsks
<1>8. Main'
  <2>1. /\ net'.name = net.name /\ net'.socket[1] = net.socket[1] /\ net'.peer[1] = net.peer[1]
        /\ net'.shown[1] = net.shown[1] /\ (1 \in net'.open <=> 1 \in net.open)
        /\ 1 \in net'.sent <=> 1 \in net.sent
    BY <1>1, <1>6 DEF Asks, LeavesOthers
  <2>. QED  BY <1>1, <1>3, <2>1 DEF Main
<1>9. Partner(p)'
  <2>1. pc > 2 /\ Client(p)'
    BY <1>1, <1>3 DEF Partner
  <2>2. at = 4 => pc <= 11
    BY PairAsks
  <2>3. /\ pc = 10 /\ at >= 4 => p \in ToSet(net.queue[1])
        /\ pc >= 12 => at >= 5
        /\ at >= 4 => pc >= 10
    BY <1>1 DEF Partner
  <2>4. /\ at # 3 => net'.queue[1] = net.queue[1]
        /\ at = 3 => pc >= 10 /\ p \in ToSet(net'.queue[1])
        /\ net'.peer[p] = 1
        /\ at <= 5 => p \in net'.open
        /\ at >= 4 => p \in net'.sent
        /\ at >= 5 => pc >= 13 /\ net'.shown[p] = "Goodbye!"
    BY <1>6 DEF Asks
  <2>5. proc'[p].pc \in 4 .. 7 /\ proc'[p].pc >= at /\ (proc'[p].life = "zombie" => proc'[p].pc = 7)
    BY <1>1, <1>7
  <2>6. (proc'[p].pc <= 6 => at <= 5) /\ (proc'[p].pc >= 5 => at >= 4) /\ (proc'[p].pc >= 6 => at >= 5)
    BY <1>1, <1>7
  <2>7. pc >= 10 /\ (pc >= 12 => proc'[p].pc >= 5)
    BY <1>1, <2>3, <2>4, <2>5
  <2>8. pc = 10 => p \in ToSet(net'.queue[1])
    BY <1>1, <2>3, <2>4
  <2>. QED  BY <1>3, <2>1, <2>4, <2>5, <2>6, <2>7, <2>8 DEF Partner
<1>. QED  BY <1>4, <1>5, <1>8, <1>9

LEMMA PairFork ==
    ASSUME Typed, Connected, Pair, prog = "basic", Alone, Acts(1), Runs(1), proc[1].pc = 2
    PROVE  /\ Main'
           /\ \A c, d \in Procs : Other(c)' /\ Other(d)' => c = d
           /\ \A c \in Procs : Other(c)' => Partner(c)'
<1>1. 1 \in Procs /\ Main /\ \A c \in Procs : ~Other(c)
  BY PairPeers DEF Pair, Partner
<1>2. \/ \E c \in Procs : Begets(1, c, 8, "tmp")
      \/ Moves(1, 8, proc[1].tab, [proc[1].reg EXCEPT !["tmp"] = -1])
  BY <1>1, BasicCalls
<1>3. net' = net /\ net.name = 0
  <2>1. net' = net
    BY <1>1, BasicCalls
  <2>. QED  BY <1>1, <2>1 DEF Main
<1>4. proc[1].reg \in Values /\ proc[1].life = "code"
  BY <1>1, RecordFields DEF Runs
<1>5. CASE Moves(1, 8, proc[1].tab, [proc[1].reg EXCEPT !["tmp"] = -1])
  <2>1. /\ proc'[1].pc = 8 /\ proc'[1].life = "code" /\ proc'[1].reg["tmp"] = -1
        /\ \A c \in Procs : c # 1 => proc'[c] = proc[c]
    BY <1>4, <1>5 DEF Moves, But, Values, Register
  <2>2. \A c \in Procs : ~Other(c)'
    BY <1>1, <2>1 DEF Other, Started2
  <2>3. Server(1)'
    BY <2>1 DEF Server, Started2, IsClient
  <2>4. Main'
    BY <1>3, <2>1, <2>3 DEF Main
  <2>. QED  BY <2>2, <2>4
<1>6. ASSUME NEW c \in Procs, Begets(1, c, 8, "tmp")
      PROVE  Main' /\ Partner(c)' /\ \A d \in Procs : Other(d)' => d = c
  <2>1. /\ proc'[1].pc = 8 /\ proc'[1].life = "code" /\ proc'[1].reg["tmp"] = c
        /\ proc'[c].pc = 3 /\ proc'[c].life = "code" /\ proc'[c].reg["tmp"] = 0
        /\ \A d \in Procs : d \notin {1, c} => proc'[d] = proc[d]
    BY <1>4, <1>6 DEF Begets, But, Values, Register
  <2>2. \A d \in Procs : Other(d)' => d = c
    BY <1>1, <2>1 DEF Other, Started2
  <2>3. c # 0
    BY DEF Procs
  <2>4. Server(1)' /\ Client(c)'
    BY <2>1, <2>3 DEF Server, Client, Started2, IsClient
  <2>5. Main'
    BY <1>3, <2>1, <2>4 DEF Main
  <2>6. Partner(c)'
    BY <2>1, <2>4 DEF Partner
  <2>. QED  BY <2>2, <2>5, <2>6
<1>. QED  BY <1>2, <1>5, <1>6

LEMMA PairStep ==
    ASSUME Typed, Connected, Pair, NEW p \in Procs, Acts(p)
    PROVE  Pair'
<1>1. prog' = prog
  BY CallsActions
<1>. SUFFICES ASSUME prog = "basic", Alone'
              PROVE  /\ Main'
                     /\ \A c, d \in Procs : Other(c)' /\ Other(d)' => c = d
                     /\ \A c \in Procs : Other(c)' => Partner(c)'
  BY <1>1 DEF Pair
<1>2. Runs(p)
  BY CallsActions DEF Connected, Met, Lives, Runs
<1>3. Alone
  BY <1>2, AloneBefore
<1>4. p = 1 \/ Other(p)
  BY <1>2 DEF Other, Started2, Runs
<1>. QED  BY <1>2, <1>3, <1>4, PairServer, PairClient, PairFork

LEMMA PairInit ==
    ASSUME Init, prog = "basic"
    PROVE  Connected /\ Pair
<1>1. PICK roots \in {{1}, {1, 2}} : proc = [p \in Procs |-> IF p \in roots THEN Started ELSE Unused]
  BY DEF Init
<1>2. \A p \in Procs : /\ p \in roots => proc[p] = Started
                       /\ p \notin roots => proc[p] = Unused
  BY <1>1
<1>3. \A p \in Procs : /\ net.socket[p] = "new" /\ net.queue[p] = <<>> /\ net.peer[p] = 0 /\ net.shown[p] = "none"
                       /\ p \notin net.open /\ p \notin net.sent
  BY DEF Init, NoNet
<1>4. net.name = 0 /\ 1 \in Procs
  BY MaxProcsAssumption DEF Init, NoNet, Procs
<1>5. \A p \in Procs : /\ proc[p].life \in {"code", "unused"} /\ proc[p].pc = 1 /\ ~Client(p) /\ proc[p].parent = 0
                       /\ p \in roots => Server(p) /\ proc[p].life = "code"
                       /\ p \notin roots => proc[p].life = "unused" /\ ~Server(p)
  <2>1. /\ Started.life = "code" /\ Started.pc = 1 /\ Started.parent = 0 /\ Started.reg["tmp"] = -1
        /\ Unused.life = "unused" /\ Unused.pc = 1 /\ Unused.parent = 0
    BY DEF Started, Unused, Register, NoFd
  <2>. QED  BY <1>2, <2>1 DEF Client, Server, Started2, IsClient
<1>6. \A p \in Procs : Idle(p)
  BY <1>3 DEF Idle
<1>7. ASSUME NEW p \in Procs  PROVE Met(p)
  <2>1. ToSet(net.queue[p]) = {}
    BY <1>3 DEF ToSet
  <2>2. Lives(p) /\ Listens(p) /\ Queued(p) /\ AsClient(p)
    BY <1>3, <1>5, <1>6, <2>1 DEF Lives, Listens, Queued, AsClient
  <2>3. AsServer(p)
    BY <1>3, <1>5, <1>6 DEF AsServer, Idle
  <2>. QED  BY <2>2, <2>3 DEF Met
<1>8. ASSUME Alone  PROVE Main /\ \A c \in Procs : ~Other(c)
  <2>1. 1 \in roots /\ \A c \in Procs : c \in roots => c = 1
    BY <1>5, <1>8 DEF Alone
  <2>2. Main
    BY <1>4, <1>5, <2>1 DEF Main
  <2>3. \A c \in Procs : ~Other(c)
    BY <1>5, <2>1 DEF Other, Started2
  <2>. QED  BY <2>2, <2>3
<1>. QED  BY <1>7, <1>8 DEF Connected, Pair

LEMMA ConversationFollows ==
    ASSUME Typed, Connected, Pair
    PROVE  Conversation
<1>. SUFFICES ASSUME prog = "basic", NEW p \in Procs
              PROVE  /\ net.shown[p] = "Goodbye!" => net.shown[net.peer[p]] = "Hello!"
                     /\ Alone /\ proc[p].life = "zombie" => net.shown[p] \notin {"none", "nothing"}
  BY DEF Conversation
<1>1. \A q \in Procs : Met(q)
  BY DEF Connected
<1>2. ASSUME net.shown[p] = "Goodbye!"  PROVE net.shown[net.peer[p]] = "Hello!"
  <2>1. Client(p)
    BY <1>1, <1>2 DEF Met, Lives, Idle, AsServer, Client, Server, Started2
  <2>2. PICK q \in Procs : q = net.peer[p] /\ Server(q) /\ q \in net.sent
    BY <1>1, <1>2, <2>1, NetFields DEF Met, AsClient, WroteTo
  <2>. QED  BY <1>1, <2>2 DEF Met, AsServer
<1>3. ASSUME Alone, proc[p].life = "zombie"  PROVE net.shown[p] \notin {"none", "nothing"}
  <2>1. CASE p = 1
    BY <1>3, <2>1 DEF Pair, Main
  <2>2. CASE p # 1
    <3>1. Partner(p)
      BY <1>3, <2>2 DEF Pair, Other, Started2
    <3>. QED  BY <1>3, <3>1 DEF Partner
  <2>. QED  BY <2>1, <2>2
<1>. QED  BY <1>2, <1>3

(* basic.c: a client that prints "Goodbye!" has got it from a server that    *)
(* had printed the "Hello!" of a client, and, with one server, whoever gets  *)
(* as far as exit() has printed what the other one sent.                     *)
THEOREM ConversationCorrect == Spec => []Conversation
<1>1. Init => Connected /\ Pair
  BY PairInit DEF Connected, Pair
<1>2. Typed /\ Connected /\ Pair /\ [Next]_vars => (Connected /\ Pair)'
  <2>1. CASE UNCHANGED vars
    <3>1. prog' = prog /\ proc' = proc /\ net' = net
      BY <2>1 DEF vars, kernel
    <3>2. \A q \in Procs : /\ Client(q)' <=> Client(q)
                           /\ Server(q)' <=> Server(q)
                           /\ Idle(q)' <=> Idle(q)
      BY <3>1 DEF Client, Server, Started2, IsClient, Idle
    <3>. QED  BY <3>1, <3>2
              DEF Connected, Met, Lives, Listens, Queued, AsClient, AsServer, WroteTo, Client, Server, Idle,
                  Pair, Alone, Main, Partner, Other, Started2, IsClient
  <2>. QED  BY <2>1, ConnectedStep, PairStep DEF Next, Acts
<1>. QED  BY <1>1, <1>2, TypedCorrect, ConversationFollows, PTL DEF Spec

=============================================================================
