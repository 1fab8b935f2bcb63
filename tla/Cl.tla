---------------------------------- MODULE Cl ----------------------------------
(****************************************************************************)
(* process/cl.c, the first command interpreter: it reads a line, carries out *)
(* "set" and assignments itself, and forks, execs and waits for the rest.    *)
(* A child whose execvp() fails returns from execute3() into main() and goes *)
(* on as an interpreter of its own, for which its parent waits.              *)
(*                                                                           *)
(* The processes are a stack: each waits for the one above it.  On a         *)
(* terminal all of them read the same lines; from a file or a pipe the first *)
(* fgets() fills the buffer of stdio, and fork() copies what is still in it. *)
(* A command is taken to read nothing and to end.                            *)
(****************************************************************************)
EXTENDS Integers, SequencesExt

CONSTANTS MaxLines     \* bound: the lines of the input

ASSUME MaxLinesAssumption == MaxLines \in Nat

(* The lines getargs() and main() tell apart: one without arguments, or with *)
(* too many, or a bad assignment; one too long for the buffer; a last line   *)
(* without a newline; an assignment, all of them to the same variable;       *)
(* "set"; a command; one that execvp() does not find; and, on a terminal, an *)
(* end of the input that is not the end for ever.                            *)
Kind == {"ignored", "long", "cut", "asg", "set", "run", "nosuch", "eof"}
Executed == {"asg", "set", "run"}

VARIABLES
    tty,      \* stdin is a terminal
    script,   \* the lines of the input
    stack,    \* the processes: where each is, the next line it will get, and
              \* the line that assigned the variable in its environment
    runs,     \* how often each line was carried out
    refused   \* the lines for which a fork() failed

vars == <<tty, script, stack, runs, refused>>

Line == 1 .. Len(script)
Process(pc, at, env) == [pc |-> pc, at |-> at, env |-> env]

Inputs == UNION {[1 .. n -> Kind] : n \in 0 .. MaxLines}

Init ==
    /\ tty \in BOOLEAN
    /\ script \in {s \in Inputs :
            /\ \A k \in 1 .. Len(s) : s[k] = "cut" => k = Len(s)
            /\ \A k \in 1 .. Len(s) : s[k] = "eof" => tty}
    /\ stack = <<Process("prompt", 1, 0)>>
    /\ runs = [k \in 1 .. Len(script) |-> 0] /\ refused = {}

Top == stack[Len(stack)]
At(pc) == stack # <<>> /\ Top.pc = pc
Read == Top.at - 1            \* the line the process on top has read last
OnTop(process) == stack' = [stack EXCEPT ![Len(stack)] = process]
SetTop(pc, at) == OnTop(Process(pc, at, Top.env))

(* The process on top ends and waitpid() of the one below returns, which, on *)
(* a terminal, reads on where the other one stopped.                         *)
Pop ==
    stack' = IF Len(stack) = 1 THEN <<>>
             ELSE LET below == Front(stack)
                  IN  [below EXCEPT ![Len(below)] =
                           Process("prompt", IF tty THEN Top.at ELSE @.at, @.env)]

(* Mutant: *eofp is not set. *)
EndOfInput_Ignored ==
    /\ At("prompt") /\ Top.at > Len(script)
    /\ UNCHANGED vars

(* fgets() returns NULL; exit() *)
EndOfInput ==
    /\ At("prompt") /\ Top.at > Len(script)
    /\ Pop
    /\ UNCHANGED <<tty, script, runs, refused>>

(* Mutant: setenv() does not overwrite. *)
Assign_Once ==
    OnTop(Process("prompt", Top.at + 1, IF Top.env = 0 THEN Top.at ELSE Top.env))

(* asg(): setenv() in the process itself *)
Assign == OnTop(Process("prompt", Top.at + 1, Top.at))

(* The end of the input that only the process on top gets. *)
EofRead ==
    stack' = IF Len(stack) = 1 THEN <<>>
             ELSE LET below == Front(stack)
                  IN  [below EXCEPT ![Len(below)] = Process("prompt", Top.at + 1, @.env)]

(* Mutant: no "else" before execute3(). *)
Set_NoElse == SetTop("fork", Top.at + 1)

(* set(), which prints, and then the next line *)
Set == SetTop("prompt", Top.at + 1)

(* getargs(), and what main() makes of the line *)
ReadLine ==
    /\ At("prompt") /\ Top.at <= Len(script)
    /\ LET kind == script[Top.at]
           Ran == runs' = [runs EXCEPT ![Top.at] = @ + 1]
       IN  \/ kind = "ignored" /\ SetTop("prompt", Top.at + 1) /\ UNCHANGED runs
           \/ kind \in {"long", "cut"} /\ SetTop("eat", Top.at + 1) /\ UNCHANGED runs
           \/ kind = "asg" /\ Assign /\ Ran
           \/ kind = "set" /\ Set /\ Ran
           \/ kind \in {"run", "nosuch"} /\ SetTop("fork", Top.at + 1) /\ UNCHANGED runs
           \/ kind = "eof" /\ EofRead /\ UNCHANGED runs
    /\ UNCHANGED <<tty, script, refused>>

(* Mutant: the line after the newline is eaten too. *)
EatRest_NextLine ==
    /\ At("eat")
    /\ IF script[Read] = "long" THEN SetTop("prompt", Top.at + 1) ELSE UNCHANGED stack
    /\ UNCHANGED <<tty, script, runs, refused>>

(* "eat up rest of line": getchar() up to the newline.  At the end of the    *)
(* input it returns EOF for ever, and the loop goes on.                      *)
EatRest ==
    /\ At("eat")
    /\ IF script[Read] = "long" THEN SetTop("prompt", Top.at) ELSE UNCHANGED stack
    /\ UNCHANGED <<tty, script, runs, refused>>

(* Mutant: no "break" after "Parent error". *)
Fork_Fallthrough ==
    /\ At("fork")
    /\ \/ stack' = Append(Append(Front(stack), Process("wait", Top.at, Top.env)),
                          Process("exec", Top.at, Top.env))
       \/ SetTop("exec", Top.at)
    /\ UNCHANGED <<tty, script, runs, refused>>

Fork ==
    /\ At("fork")
    /\ \/ stack' = Append(Append(Front(stack), Process("wait", Top.at, Top.env)),
                          Process("exec", Top.at, Top.env))
          /\ UNCHANGED refused
       \/ SetTop("prompt", Top.at) /\ refused' = refused \cup {Read}
    /\ UNCHANGED <<tty, script, runs>>

(* execvp(), which returns when it fails *)
Exec ==
    /\ At("exec")
    /\ IF script[Read] = "run"
       THEN SetTop("command", Top.at) /\ runs' = [runs EXCEPT ![Read] = @ + 1]
       ELSE SetTop("prompt", Top.at) /\ UNCHANGED runs
    /\ UNCHANGED <<tty, script, refused>>

CommandEnds ==
    /\ At("command")
    /\ Pop
    /\ UNCHANGED <<tty, script, runs, refused>>

Next == EndOfInput \/ ReadLine \/ EatRest \/ Fork \/ Exec \/ CommandEnds

Spec == Init /\ [][Next]_vars

(* The process that the others wait for is run. *)
FairSpec == Spec /\ WF_vars(Next)

-----------------------------------------------------------------------------
(* Properties *)

Before(k, kind) == {j \in 1 .. k - 1 : script[j] = kind}

TypeOK ==
    /\ tty \in BOOLEAN
    /\ script \in Seq(Kind)
    /\ stack \in Seq([pc : {"prompt", "eat", "fork", "exec", "wait", "command"},
                      at : 1 .. Len(script) + 1, env : 0 .. Len(script)])
    /\ runs \in [Line -> Nat]
    /\ refused \subseteq Line

(* However many interpreters there are, a line typed on a terminal is        *)
(* carried out once at most; a line of a file at most once by each of the    *)
(* interpreters that the unknown commands before it have doubled.            *)
TimesRun ==
    \A k \in Line :
        runs[k] <= IF tty THEN 1 ELSE 2 ^ Cardinality(Before(k, "nosuch"))

(* When the last interpreter has ended at the end of its input no line was   *)
(* left out, unless there was no process for it.                             *)
NothingSkipped ==
    stack = <<>> => \A k \in Line :
        \/ runs[k] >= 1
        \/ script[k] \notin Executed
        \/ k \in refused
        \/ Before(k, "eof") # {}

(* A command finds in its environment what the last assignment before it     *)
(* made of the variable, although any number of unknown commands came in     *)
(* between and it may be the child of a child: an interpreter that starts as *)
(* such a child has what its parent had, and from a file both carry out the  *)
(* same assignments.  (What a child assigns is gone when its user ends it.)  *)
EnvOfCommand ==
    At("command") =>
        \/ Before(Read, "eof") # {}
        \/ Top.env = Max({0} \cup Before(Read, "asg"))

(* Every interpreter comes to the end of its input, and with it all those    *)
(* that wait for it, when the input ends in a newline.                       *)
AllEnd == <>(stack = <<>> \/ \E k \in Line : script[k] = "cut")

(* "eat up rest of line": whatever line has no newline in the buffer, the    *)
(* interpreter gets to its end and comes back to the prompt or ends.         *)
RestIsEaten == At("eat") ~> ~At("eat")

=============================================================================
