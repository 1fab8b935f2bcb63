------------------------------- MODULE ClProofs --------------------------------
(****************************************************************************)
(* Theorems about Cl, for inputs of any length.                              *)
(****************************************************************************)
EXTENDS Cl, SequenceTheorems, FiniteSetTheorems, TLAPS

Places == {"prompt", "eat", "fork", "exec", "wait", "command"}
Processes == [pc : Places, at : 1 .. Len(script) + 1, env : 0 .. Len(script)]

-----------------------------------------------------------------------------
(* The stack of the processes *)

LEMMA BelowTop ==
    ASSUME NEW S, NEW s \in Seq(S), s # <<>>
    PROVE  /\ Len(s) \in Nat \ {0} /\ s[Len(s)] \in S
           /\ Front(s) \in Seq(S) /\ Len(Front(s)) = Len(s) - 1
           /\ \A i \in 1 .. Len(s) - 1 : Front(s)[i] = s[i]
<1>1. Len(s) \in Nat \ {0}
  BY EmptySeq
<1>2. \A i \in 1 .. Len(s) : s[i] \in S
  BY ElementOfSeq
<1>3. Front(s) \in Seq(S)
  BY <1>1, <1>2, SMT DEF Front
<1>4. Len(Front(s)) = Len(s) - 1
  <2>1. Len(s) - 1 \in Nat
    BY <1>1
  <2>2. \A n \in Nat : n = Len(s) - 1 => Len(SubSeq(s, 1, n)) = n
    BY SMT
  <2>. QED  BY <2>1, <2>2 DEF Front
<1>5. \A i \in 1 .. Len(s) - 1 : Front(s)[i] = s[i]
  BY <1>1, SMT DEF Front
<1>. QED  BY <1>1, <1>2, <1>3, <1>4, <1>5

(* The process on top goes on. *)
LEMMA TopChanges ==
    ASSUME NEW S, stack \in Seq(S), stack # <<>>, NEW q \in S, OnTop(q)
    PROVE  /\ stack' \in Seq(S) /\ Len(stack') = Len(stack) /\ stack' # <<>>
           /\ \A i \in 1 .. Len(stack) - 1 : stack'[i] = stack[i]
           /\ stack'[Len(stack)] = q /\ Top' = q
<1>1. Len(stack) \in Nat \ {0} /\ Len(stack) \in 1 .. Len(stack)
  BY BelowTop
<1>2. /\ stack' \in Seq(S) /\ Len(stack') = Len(stack)
      /\ \A j \in 1 .. Len(stack) : stack'[j] = IF j = Len(stack) THEN q ELSE stack[j]
  BY <1>1, ExceptSeq DEF OnTop
<1>3. stack' # <<>>
  BY <1>1, <1>2, EmptySeq
<1>. QED  BY <1>1, <1>2, <1>3 DEF Top

(* fork(): the process on top waits below its child. *)
LEMMA ChildOnTop ==
    ASSUME NEW S, stack \in Seq(S), stack # <<>>, NEW parent \in S, NEW child \in S,
           stack' = Append(Append(Front(stack), parent), child)
    PROVE  /\ stack' \in Seq(S) /\ Len(stack') = Len(stack) + 1 /\ stack' # <<>>
           /\ \A i \in 1 .. Len(stack) - 1 : stack'[i] = stack[i]
           /\ stack'[Len(stack)] = parent /\ stack'[Len(stack) + 1] = child /\ Top' = child
<1>1. /\ Len(stack) \in Nat \ {0} /\ Front(stack) \in Seq(S) /\ Len(Front(stack)) = Len(stack) - 1
      /\ \A i \in 1 .. Len(stack) - 1 : Front(stack)[i] = stack[i]
  BY BelowTop
<1>2. PICK s : s = Append(Front(stack), parent)
  OBVIOUS
<1>3. /\ s \in Seq(S) /\ Len(s) = Len(stack) /\ s[Len(stack)] = parent
      /\ \A i \in 1 .. Len(stack) - 1 : s[i] = stack[i]
  BY <1>1, <1>2, AppendProperties
<1>4. /\ stack' \in Seq(S) /\ Len(stack') = Len(s) + 1 /\ stack' # <<>>
      /\ \A i \in 1 .. Len(s) : stack'[i] = s[i]
      /\ stack'[Len(s) + 1] = child
  BY <1>2, <1>3, AppendProperties
<1>. QED  BY <1>1, <1>3, <1>4 DEF Top

(* The process on top has ended, and the one below is on top. *)
LEMMA TopEnds ==
    ASSUME NEW S, stack \in Seq(S), stack # <<>>, Len(stack) # 1, NEW q \in S,
           stack' = [Front(stack) EXCEPT ![Len(Front(stack))] = q]
    PROVE  /\ stack' \in Seq(S) /\ Len(stack') = Len(stack) - 1 /\ stack' # <<>>
           /\ \A i \in 1 .. Len(stack) - 2 : stack'[i] = stack[i]
           /\ stack'[Len(stack) - 1] = q /\ Top' = q
<1>1. /\ Len(stack) \in Nat /\ Len(stack) > 1
      /\ Front(stack) \in Seq(S) /\ Len(Front(stack)) = Len(stack) - 1
      /\ \A i \in 1 .. Len(stack) - 1 : Front(stack)[i] = stack[i]
  <2>1. /\ Len(stack) \in Nat \ {0}
        /\ Front(stack) \in Seq(S) /\ Len(Front(stack)) = Len(stack) - 1
        /\ \A i \in 1 .. Len(stack) - 1 : Front(stack)[i] = stack[i]
    BY BelowTop
  <2>. QED  BY <2>1
<1>2. Len(Front(stack)) \in 1 .. Len(Front(stack))
  BY <1>1
<1>3. /\ stack' \in Seq(S) /\ Len(stack') = Len(Front(stack))
      /\ \A j \in 1 .. Len(Front(stack)) :
            stack'[j] = IF j = Len(Front(stack)) THEN q ELSE Front(stack)[j]
  BY <1>1, <1>2, ExceptSeq
<1>4. stack' # <<>>
  BY <1>1, <1>3, EmptySeq
<1>. QED  BY <1>1, <1>3, <1>4 DEF Top

-----------------------------------------------------------------------------
(* The inductive invariant *)

(* All processes but the one on top wait, none of them behind the one above; *)
(* a child that is to become a command has read nothing of its own.          *)
Below == /\ \A i \in 1 .. Len(stack) - 1 : stack[i].pc = "wait" /\ stack[i].at <= stack[i + 1].at
         /\ stack # <<>> => Top.pc # "wait"
Children == At("exec") \/ At("command") => Len(stack) > 1 /\ stack[Len(stack) - 1].at = Top.at

(* The environment as the assignments in the lines before `at' leave it.     *)
Current(env, at) ==
    \/ env = 0 /\ Before(at, "asg") = {}
    \/ env \in Before(at, "asg") /\ \A j \in Before(at, "asg") : j <= env

(* A process is where its line took it, and has that environment, unless an  *)
(* end of the input came before or it will not read a line again.            *)
Sound(q) ==
    /\ q.pc \in {"fork", "exec"} => q.at > 1 /\ script[q.at - 1] \in {"run", "nosuch"}
    /\ q.pc = "command" => q.at > 1 /\ script[q.at - 1] = "run"
    /\ q.pc = "eat" => q.at > 1
    /\ \/ Before(q.at, "eof") # {}
       \/ q.pc = "prompt" /\ q.at > Len(script)
       \/ Current(q.env, q.at)

Stacked == TypeOK /\ Below /\ Children /\ \A i \in 1 .. Len(stack) : Sound(stack[i])

(* The process on top has a command in hand that was not carried out yet.    *)
InHand(k) == Top.pc \in {"fork", "exec"} /\ k = Read

(* What was read was carried out, or is in hand.                             *)
Done(k) == runs[k] >= 1 \/ script[k] \notin Executed \/ k \in refused \/ Before(k, "eof") # {}
Progress == \A k \in Line :
    \/ Done(k)
    \/ stack # <<>> /\ (k >= Top.at \/ InHand(k))

(* On a terminal what was not read yet, or is in hand, was never carried out.*)
Fresh == tty => \A k \in Line :
    /\ runs[k] <= 1
    /\ stack # <<>> /\ (k >= Top.at \/ InHand(k)) => runs[k] = 0

ClInv == Stacked /\ Progress /\ Fresh

LEMMA TopFacts ==
    ASSUME Stacked, stack # <<>>
    PROVE  /\ stack \in Seq(Processes) /\ Len(stack) \in Nat \ {0} /\ Len(script) \in Nat
           /\ Top = stack[Len(stack)] /\ Top \in Processes /\ Sound(Top)
<1>1. stack \in Seq(Processes) /\ script \in Seq(Kind)
  BY DEF Stacked, TypeOK, Processes, Places
<1>2. Len(stack) \in Nat \ {0} /\ stack[Len(stack)] \in Processes /\ Len(script) \in Nat
  BY <1>1, BelowTop, LenProperties
<1>3. Len(stack) \in 1 .. Len(stack)
  BY <1>2
<1>. QED  BY <1>1, <1>2, <1>3 DEF Top, Stacked

(* The process on top goes on to q. *)
LEMMA StackedOn ==
    ASSUME Stacked, stack # <<>>, NEW q \in Processes, OnTop(q),
           q.at >= Top.at, q.pc # "wait", Sound(q),
           q.pc \in {"exec", "command"} => Top.pc = "exec" /\ q.at = Top.at,
           UNCHANGED <<tty, script>>, runs' \in [Line -> Nat], refused' \subseteq Line
    PROVE  Stacked' /\ stack' # <<>> /\ Top' = q
<1>1. /\ stack \in Seq(Processes) /\ Len(stack) \in Nat \ {0} /\ Len(script) \in Nat
      /\ Top = stack[Len(stack)] /\ Top \in Processes
  BY TopFacts
<1>2. /\ stack' \in Seq(Processes) /\ Len(stack') = Len(stack) /\ stack' # <<>>
      /\ \A i \in 1 .. Len(stack) - 1 : stack'[i] = stack[i]
      /\ stack'[Len(stack)] = q /\ Top' = q
  BY <1>1, TopChanges
<1>3. TypeOK'
  BY <1>2 DEF Stacked, TypeOK, Line, Processes, Places
<1>4. Below'
  <2>. SUFFICES ASSUME NEW i \in 1 .. Len(stack') - 1
                PROVE  stack'[i].pc = "wait" /\ stack'[i].at <= stack'[i + 1].at
    BY <1>2 DEF Below
  <2>0. i \in 1 .. Len(stack) - 1
    BY <1>2
  <2>1. /\ stack[i].pc = "wait" /\ stack[i].at <= stack[i + 1].at
        /\ stack[i] \in Processes
    BY <1>1, <2>0, ElementOfSeq DEF Stacked, Below
  <2>2. CASE i + 1 = Len(stack)
    <3>1. stack'[i] = stack[i] /\ stack'[i + 1] = q /\ stack[i].at <= Top.at
      BY <1>1, <1>2, <2>0, <2>1, <2>2
    <3>2. \A a, b, c \in Int : a <= b /\ c >= b => a <= c
      OBVIOUS
    <3>5. \A p \in Processes : p.at \in Int
      BY <1>1 DEF Processes
    <3>3. stack[i].at \in Int /\ Top.at \in Int /\ q.at \in Int
      BY <1>1, <2>1, <3>5, Zenon
    <3>4. stack[i].at <= q.at
      BY <3>1, <3>2, <3>3, Zenon
    <3>. QED  BY <2>1, <3>1, <3>4, Zenon
  <2>3. CASE i + 1 < Len(stack)
    BY <1>1, <1>2, <2>1, <2>3
  <2>. QED  BY <1>1, <1>2, <2>2, <2>3
<1>5. Children'
  <2>. SUFFICES ASSUME Top'.pc \in {"exec", "command"}
                PROVE  Len(stack') > 1 /\ stack'[Len(stack') - 1].at = Top'.at
    BY DEF Children, At
  <2>1. Len(stack) > 1 /\ stack[Len(stack) - 1].at = Top.at /\ q.at = Top.at
    BY <1>2 DEF Stacked, Children, At
  <2>. QED  BY <1>1, <1>2, <2>1
<1>6. (\A i \in 1 .. Len(stack) : Sound(stack[i]))'
  <2>1. ASSUME NEW i \in 1 .. Len(stack'), Sound(stack'[i]) PROVE Sound(stack[i])'
    BY <2>1 DEF Sound, Current, Before
  <2>2. \A i \in 1 .. Len(stack') : i = Len(stack) \/ i \in 1 .. Len(stack) - 1
    BY <1>1, <1>2
  <2>3. \A i \in 1 .. Len(stack) - 1 : Sound(stack[i])
    BY <1>1 DEF Stacked
  <2>. QED  BY <1>2, <2>1, <2>2, <2>3
<1>. QED  BY <1>2, <1>3, <1>4, <1>5, <1>6 DEF Stacked

LEMMA ProcessType ==
    \A pc \in Places, at \in 1 .. Len(script) + 1, env \in 0 .. Len(script) :
        /\ Process(pc, at, env) \in Processes
        /\ Process(pc, at, env).pc = pc /\ Process(pc, at, env).at = at
        /\ Process(pc, at, env).env = env
BY DEF Process, Processes

(* fork() *)
LEMMA StackedFork ==
    ASSUME Stacked, At("fork"), UNCHANGED <<tty, script, runs, refused>>,
           stack' = Append(Append(Front(stack), Process("wait", Top.at, Top.env)),
                           Process("exec", Top.at, Top.env))
    PROVE  /\ Stacked' /\ stack' # <<>> /\ Top'.pc = "exec" /\ Top'.at = Top.at
<1>1. /\ stack \in Seq(Processes) /\ stack # <<>> /\ Len(stack) \in Nat \ {0} /\ Len(script) \in Nat
      /\ Top = stack[Len(stack)] /\ Top \in Processes /\ Sound(Top) /\ Top.pc = "fork"
  BY TopFacts DEF At
<1>10. Top.at \in 1 .. Len(script) + 1 /\ Top.env \in 0 .. Len(script)
  BY <1>1 DEF Processes
<1>11. "wait" \in Places /\ "exec" \in Places
  BY DEF Places
<1>2. PICK parent \in Processes : /\ parent = Process("wait", Top.at, Top.env)
                                  /\ parent.pc = "wait" /\ parent.at = Top.at /\ parent.env = Top.env
  BY <1>10, <1>11, ProcessType
<1>3. PICK child \in Processes : /\ child = Process("exec", Top.at, Top.env)
                                 /\ child.pc = "exec" /\ child.at = Top.at /\ child.env = Top.env
  BY <1>10, <1>11, ProcessType
<1>4. /\ stack' \in Seq(Processes) /\ Len(stack') = Len(stack) + 1 /\ stack' # <<>>
      /\ \A i \in 1 .. Len(stack) - 1 : stack'[i] = stack[i]
      /\ stack'[Len(stack)] = parent /\ stack'[Len(stack) + 1] = child /\ Top' = child
  BY <1>1, <1>2, <1>3, ChildOnTop
<1>5. TypeOK'
  BY <1>4 DEF Stacked, TypeOK, Line, Processes, Places
<1>6. Top.at \in Int
  BY <1>1 DEF Processes
<1>7. Below'
  <2>. SUFFICES ASSUME NEW i \in 1 .. Len(stack)
                PROVE  stack'[i].pc = "wait" /\ stack'[i].at <= stack'[i + 1].at
    BY <1>3, <1>4 DEF Below
  <2>1. CASE i = Len(stack)
    BY <1>2, <1>3, <1>4, <1>6, <2>1
  <2>2. CASE i # Len(stack)
    <3>1. i \in 1 .. Len(stack) - 1
      BY <1>1, <2>2
    <3>2. stack[i].pc = "wait" /\ stack[i].at <= stack[i + 1].at
      BY <3>1 DEF Stacked, Below
    <3>3. stack'[i + 1].at = stack[i + 1].at
      <4>1. CASE i + 1 = Len(stack)
        BY <1>1, <1>2, <1>4, <4>1
      <4>2. CASE i + 1 # Len(stack)
        <5>1. i + 1 \in 1 .. Len(stack) - 1
          BY <1>1, <3>1, <4>2
        <5>. QED  BY <1>4, <5>1
      <4>. QED  BY <4>1, <4>2
    <3>. QED  BY <1>4, <3>1, <3>2, <3>3
  <2>. QED  BY <2>1, <2>2
<1>8. Children'
  BY <1>1, <1>2, <1>3, <1>4 DEF Children
<1>9. (\A i \in 1 .. Len(stack) : Sound(stack[i]))'
  <2>1. ASSUME NEW i \in 1 .. Len(stack'), Sound(stack'[i]) PROVE Sound(stack[i])'
    BY <2>1 DEF Sound, Current, Before
  <2>2. \A i \in 1 .. Len(stack') : i = Len(stack) \/ i = Len(stack) + 1 \/ i \in 1 .. Len(stack) - 1
    BY <1>1, <1>4
  <2>3. \A i \in 1 .. Len(stack) - 1 : Sound(stack[i])
    BY <1>1 DEF Stacked
  <2>4. Sound(parent) /\ Sound(child)
    BY <1>1, <1>2, <1>3 DEF Sound
  <2>. QED  BY <1>4, <2>1, <2>2, <2>3, <2>4
<1>. QED  BY <1>3, <1>4, <1>5, <1>7, <1>8, <1>9 DEF Stacked

(* The process on top ends; b is what the one below goes on as. *)
LEMMA StackedPop ==
    ASSUME Stacked, stack # <<>>, Len(stack) # 1, NEW b \in Processes,
           stack' = [Front(stack) EXCEPT ![Len(Front(stack))] = b],
           b.pc = "prompt", b.at >= stack[Len(stack) - 1].at, Sound(b),
           UNCHANGED <<tty, script, runs, refused>>
    PROVE  Stacked' /\ stack' # <<>> /\ Top' = b
<1>1. /\ stack \in Seq(Processes) /\ Len(stack) \in Nat /\ Len(stack) > 1 /\ Len(script) \in Nat
  <2>1. /\ stack \in Seq(Processes) /\ Len(stack) \in Nat \ {0} /\ Len(script) \in Nat
    BY TopFacts
  <2>2. \A n \in Nat \ {0} : n # 1 => n \in Nat /\ n > 1
    OBVIOUS
  <2>. QED  BY <2>1, <2>2
<1>2. /\ stack' \in Seq(Processes) /\ Len(stack') = Len(stack) - 1 /\ stack' # <<>>
      /\ \A i \in 1 .. Len(stack) - 2 : stack'[i] = stack[i]
      /\ stack'[Len(stack) - 1] = b /\ Top' = b
  BY <1>1, TopEnds
<1>3. TypeOK'
  BY <1>2 DEF Stacked, TypeOK, Line, Processes, Places
<1>4. Below'
  <2>. SUFFICES ASSUME NEW i \in 1 .. Len(stack) - 2
                PROVE  stack'[i].pc = "wait" /\ stack'[i].at <= stack'[i + 1].at
    BY <1>1, <1>2 DEF Below
  <2>1. /\ stack[i].pc = "wait" /\ stack[i].at <= stack[i + 1].at
        /\ stack[i] \in Processes /\ stack[i + 1] \in Processes
    <3>1. i \in 1 .. Len(stack) - 1 /\ i \in 1 .. Len(stack) /\ i + 1 \in 1 .. Len(stack)
      BY <1>1
    <3>. QED  BY <1>1, <3>1, ElementOfSeq DEF Stacked, Below
  <2>2. CASE i + 1 = Len(stack) - 1
    <3>1. stack'[i] = stack[i] /\ stack'[i + 1] = b /\ stack[i].at <= stack[i + 1].at
          /\ b.at >= stack[i + 1].at
      BY <1>1, <1>2, <2>1, <2>2
    <3>2. \A x, y, z \in Int : x <= y /\ z >= y => x <= z
      OBVIOUS
    <3>3. stack[i].at \in Int /\ stack[i + 1].at \in Int /\ b.at \in Int
      BY <2>1 DEF Processes
    <3>. QED  BY <2>1, <3>1, <3>2, <3>3
  <2>3. CASE i + 1 # Len(stack) - 1
    <3>1. i + 1 \in 1 .. Len(stack) - 2
      BY <1>1, <2>3
    <3>. QED  BY <1>2, <2>1, <3>1
  <2>. QED  BY <2>2, <2>3
<1>5. Children'
  BY <1>2 DEF Children, At
<1>6. (\A i \in 1 .. Len(stack) : Sound(stack[i]))'
  <2>1. ASSUME NEW i \in 1 .. Len(stack'), Sound(stack'[i]) PROVE Sound(stack[i])'
    BY <2>1 DEF Sound, Current, Before
  <2>2. \A i \in 1 .. Len(stack') : i = Len(stack) - 1 \/ i \in 1 .. Len(stack) - 2
    BY <1>1, <1>2
  <2>3. \A i \in 1 .. Len(stack) - 2 : Sound(stack[i])
    BY <1>1 DEF Stacked
  <2>. QED  BY <1>2, <2>1, <2>2, <2>3
<1>. QED  BY <1>2, <1>3, <1>4, <1>5, <1>6 DEF Stacked

LEMMA StackedEnd ==
    ASSUME Stacked, stack' = <<>>, UNCHANGED <<tty, script, runs, refused>>
    PROVE  Stacked'
<1>1. stack' \in Seq(Processes) /\ Len(stack') = 0
  BY EmptySeq
<1>2. TypeOK'
  BY <1>1 DEF Stacked, TypeOK, Line, Processes, Places
<1>3. 1 .. Len(stack') = {} /\ 1 .. Len(stack') - 1 = {}
  BY <1>1
<1>. QED  BY <1>2, <1>3 DEF Stacked, Below, Children, At

LEMMA BeforeNext ==
    ASSUME NEW at \in Nat \ {0}, NEW kind
    PROVE  Before(at + 1, kind) = IF script[at] = kind THEN Before(at, kind) \cup {at} ELSE Before(at, kind)
BY DEF Before

LEMMA ClInit == Init => ClInv
<1>. SUFFICES ASSUME Init PROVE ClInv
  OBVIOUS
<1>1. PICK n \in 0 .. MaxLines : script \in [1 .. n -> Kind]
  BY DEF Init, Inputs
<1>2. n \in Nat
  BY MaxLinesAssumption
<1>3. script \in Seq(Kind)
  BY <1>1, <1>2
<1>4. Len(script) \in Nat
  BY <1>3, LenProperties
<1>5. PICK first \in Processes : /\ first = Process("prompt", 1, 0)
                                 /\ first.pc = "prompt" /\ first.at = 1 /\ first.env = 0
  <2>1. 1 \in 1 .. Len(script) + 1 /\ 0 \in 0 .. Len(script) /\ "prompt" \in Places
    BY <1>4 DEF Places
  <2>. QED  BY <2>1, ProcessType
<1>6. stack \in Seq(Processes) /\ stack # <<>> /\ Len(stack) = 1 /\ stack[1] = first /\ Top = first
  BY <1>5 DEF Init, Top
<1>7. TypeOK
  BY <1>3, <1>4, <1>6 DEF Init, TypeOK, Line, Processes, Places
<1>8. Sound(first)
  <2>1. Before(1, "asg") = {}
    BY DEF Before
  <2>. QED  BY <1>5, <2>1 DEF Sound, Current
<1>9. Stacked
  <2>1. \A i \in 1 .. Len(stack) : i = 1
    BY <1>6
  <2>2. 1 .. Len(stack) - 1 = {}
    BY <1>6
  <2>3. Below /\ Children
    BY <1>5, <1>6, <2>2 DEF Below, Children, At
  <2>4. \A i \in 1 .. Len(stack) : Sound(stack[i])
    BY <1>6, <1>8, <2>1, Zenon
  <2>. QED  BY <1>7, <2>3, <2>4 DEF Stacked
<1>10. \A k \in Line : k >= Top.at /\ runs[k] = 0
  BY <1>4, <1>5, <1>6 DEF Line, Init
<1>11. Progress
  BY <1>6, <1>10 DEF Progress
<1>12. Fresh
  BY <1>10 DEF Fresh
<1>. QED  BY <1>9, <1>11, <1>12 DEF ClInv

-----------------------------------------------------------------------------
(* A line is read *)

LEMMA ClRead ==
    ASSUME ClInv, At("prompt"), Top.at <= Len(script), NEW q \in Processes, OnTop(q),
           q.at = Top.at + 1, q.pc \in {"prompt", "eat", "fork"}, Sound(q),
           UNCHANGED <<tty, script, refused>>,
           \/ UNCHANGED runs /\ (script[Top.at] \notin Executed \/ q.pc = "fork")
           \/ runs' = [runs EXCEPT ![Top.at] = @ + 1] /\ q.pc # "fork"
    PROVE  ClInv'
<1>1. /\ Stacked /\ Progress /\ Fresh /\ stack # <<>> /\ Top.pc = "prompt"
      /\ Len(script) \in Nat /\ Top \in Processes
  BY TopFacts DEF ClInv, At
<1>2. Top.at \in Nat \ {0} /\ Top.at \in Line /\ runs \in [Line -> Nat] /\ refused \subseteq Line
  BY <1>1 DEF Stacked, TypeOK, Processes, Line
<1>3. runs' \in [Line -> Nat]
  BY <1>2
<1>4. Stacked' /\ stack' # <<>> /\ Top' = q
  <2>1. q.at >= Top.at /\ q.pc \notin {"wait", "exec", "command"}
    BY <1>2
  <2>. QED  BY <1>1, <1>2, <1>3, <2>1, StackedOn
<1>5. \A k \in Line : ~InHand(k) /\ (k >= Top.at <=> k = Top.at \/ k >= Top.at + 1)
  BY <1>1, <1>2 DEF InHand, Line
<1>6. \A k \in Line : InHand(k)' <=> q.pc = "fork" /\ k = Top.at
  BY <1>2, <1>4 DEF InHand, Read
<1>7. \A k \in Line : k # Top.at => runs'[k] = runs[k]
  BY <1>2
<1>8. \A k \in Line : Done(k) => Done(k)'
  BY <1>2 DEF Done, Before
<1>9. ASSUME NEW k \in Line, k = Top.at PROVE Done(k)' \/ InHand(k)'
  <2>1. CASE q.pc = "fork"
    BY <1>6, <1>9, <2>1
  <2>2. CASE q.pc # "fork"
    <3>1. script[k] \notin Executed \/ runs'[k] = runs[k] + 1
      BY <1>2, <1>9, <2>2
    <3>2. Done(k)' <=> \/ runs'[k] >= 1 \/ script[k] \notin Executed
                       \/ k \in refused \/ Before(k, "eof") # {}
      BY DEF Done, Before
    <3>3. runs[k] \in Nat
      BY <1>2
    <3>. QED  BY <3>1, <3>2, <3>3
  <2>. QED  BY <2>1, <2>2
<1>10. Progress'
  <2>. SUFFICES ASSUME NEW k \in Line PROVE Done(k)' \/ k >= Top.at + 1 \/ InHand(k)'
    BY <1>4 DEF Progress, Line
  <2>1. CASE k = Top.at
    BY <1>9, <2>1
  <2>2. CASE k # Top.at
    BY <1>1, <1>5, <1>8, <2>2 DEF Progress
  <2>. QED  BY <2>1, <2>2
<1>11. Fresh'
  <2>. SUFFICES ASSUME tty, NEW k \in Line
                PROVE  runs'[k] <= 1 /\ (k >= Top.at + 1 \/ InHand(k)' => runs'[k] = 0)
    BY <1>4 DEF Fresh, Line
  <2>1. runs[k] <= 1 /\ (k >= Top.at => runs[k] = 0)
    BY <1>1 DEF Fresh
  <2>2. CASE k = Top.at
    BY <1>2, <1>5, <1>6, <2>1, <2>2
  <2>3. CASE k # Top.at
    BY <1>5, <1>6, <1>7, <2>1, <2>3
  <2>. QED  BY <2>2, <2>3
<1>. QED  BY <1>4, <1>10, <1>11 DEF ClInv

(* The next line leaves the environment alone, but for an assignment. *)
LEMMA SoundNext ==
    ASSUME Stacked, At("prompt"), Top.at <= Len(script)
    PROVE  /\ script[Top.at] # "asg" =>
                \A pc \in {"prompt", "eat"} : Sound(Process(pc, Top.at + 1, Top.env))
           /\ script[Top.at] \in {"run", "nosuch"} => Sound(Process("fork", Top.at + 1, Top.env))
           /\ script[Top.at] = "asg" => Sound(Process("prompt", Top.at + 1, Top.at))
<1>1. /\ Len(script) \in Nat /\ Top \in Processes /\ Sound(Top) /\ Top.pc = "prompt"
  BY TopFacts DEF At
<1>2. PICK at \in Nat \ {0} : at = Top.at
  BY <1>1 DEF Processes
<1>3. PICK env \in Nat : env = Top.env
  BY <1>1 DEF Processes
<1>4. /\ Before(at, "eof") # {} \/ Current(env, at)
  BY <1>1, <1>2, <1>3 DEF Sound
<1>5. Before(at + 1, "eof") # {} \/ Current(env, at)
  BY <1>4, BeforeNext
<1>6. script[at] # "asg" => Before(at + 1, "eof") # {} \/ Current(env, at + 1)
  BY <1>5, BeforeNext DEF Current
<1>7. script[at] = "asg" => Current(at, at + 1)
  <2>1. \A j \in Before(at + 1, "asg") : j <= at
    BY DEF Before
  <2>2. script[at] = "asg" => at \in Before(at + 1, "asg")
    BY BeforeNext
  <2>. QED  BY <2>1, <2>2 DEF Current
<1>8. at + 1 > 1 /\ (at + 1) - 1 = at
  BY <1>2
<1>9. \A pc, e : /\ Process(pc, at + 1, e).pc = pc /\ Process(pc, at + 1, e).at = at + 1
                 /\ Process(pc, at + 1, e).env = e
  BY DEF Process
<1>. QED  BY <1>2, <1>3, <1>6, <1>7, <1>8, <1>9 DEF Sound

LEMMA ClReadLine ==
    ASSUME ClInv, ReadLine, script[Top.at] # "eof"
    PROVE  ClInv'
<1>1. /\ Stacked /\ stack # <<>> /\ At("prompt") /\ Top.at <= Len(script)
      /\ Len(script) \in Nat /\ Top \in Processes /\ UNCHANGED <<tty, script, refused>>
  BY TopFacts DEF ClInv, ReadLine, At
<1>2. /\ Top.at + 1 \in 1 .. Len(script) + 1 /\ Top.env \in 0 .. Len(script) /\ Top.at \in 0 .. Len(script)
  BY <1>1 DEF Processes
<1>3. \A pc \in {"prompt", "eat", "fork"}, env \in {Top.env, Top.at} :
          /\ Process(pc, Top.at + 1, env) \in Processes
          /\ Process(pc, Top.at + 1, env).pc = pc /\ Process(pc, Top.at + 1, env).at = Top.at + 1
  BY <1>2, ProcessType DEF Places
<1>4. CASE \/ script[Top.at] = "ignored" /\ SetTop("prompt", Top.at + 1)
           \/ script[Top.at] \in {"long", "cut"} /\ SetTop("eat", Top.at + 1)
  <2>1. UNCHANGED runs /\ script[Top.at] \notin Executed /\ script[Top.at] # "asg"
    BY <1>4 DEF ReadLine, Executed
  <2>2. PICK pc \in {"prompt", "eat"} : OnTop(Process(pc, Top.at + 1, Top.env))
    BY <1>4 DEF SetTop
  <2>3. Sound(Process(pc, Top.at + 1, Top.env))
    BY <1>1, <2>1, SoundNext
  <2>. QED  BY <1>1, <1>3, <2>1, <2>2, <2>3, ClRead
<1>5. CASE script[Top.at] = "asg"
  <2>1. OnTop(Process("prompt", Top.at + 1, Top.at)) /\ runs' = [runs EXCEPT ![Top.at] = @ + 1]
    BY <1>5 DEF ReadLine, Assign
  <2>2. Sound(Process("prompt", Top.at + 1, Top.at))
    BY <1>1, <1>5, SoundNext
  <2>. QED  BY <1>1, <1>3, <2>1, <2>2, ClRead
<1>6. CASE script[Top.at] = "set"
  <2>1. OnTop(Process("prompt", Top.at + 1, Top.env)) /\ runs' = [runs EXCEPT ![Top.at] = @ + 1]
    BY <1>6 DEF ReadLine, Set, SetTop
  <2>2. Sound(Process("prompt", Top.at + 1, Top.env))
    BY <1>1, <1>6, SoundNext
  <2>. QED  BY <1>1, <1>3, <2>1, <2>2, ClRead
<1>7. CASE script[Top.at] \in {"run", "nosuch"}
  <2>1. OnTop(Process("fork", Top.at + 1, Top.env)) /\ UNCHANGED runs
    BY <1>7 DEF ReadLine, SetTop
  <2>2. Sound(Process("fork", Top.at + 1, Top.env))
    BY <1>1, <1>7, SoundNext
  <2>. QED  BY <1>1, <1>3, <2>1, <2>2, ClRead
<1>. QED  BY <1>4, <1>5, <1>6, <1>7 DEF ReadLine

-----------------------------------------------------------------------------
(* The steps that read nothing *)

(* The process on top goes on at the same line: what it had in hand it still *)
(* has, or the line is done.                                                 *)
LEMMA ClSame ==
    ASSUME ClInv, stack # <<>>, NEW q \in Processes, OnTop(q), q.at = Top.at, q.env = Top.env,
           q.pc # "wait", q.pc = "fork" => Top.pc = "fork",
           q.pc \in {"exec", "command"} => Top.pc = "exec", Sound(q),
           UNCHANGED <<tty, script>>, refused \subseteq refused', refused' \subseteq Line,
           \/ UNCHANGED runs
           \/ /\ Top.pc \in {"fork", "exec"} /\ q.pc \notin {"fork", "exec"}
              /\ Read \in Line /\ runs' = [runs EXCEPT ![Read] = @ + 1],
           \A k \in Line : InHand(k) => Done(k)' \/ q.pc \in {"fork", "exec"}
    PROVE  ClInv'
<1>1. /\ Stacked /\ Progress /\ Fresh /\ Len(script) \in Nat /\ Top \in Processes
  BY TopFacts DEF ClInv
<1>2. Top.at \in Nat \ {0} /\ runs \in [Line -> Nat] /\ Line \subseteq Nat
  BY <1>1 DEF Stacked, TypeOK, Processes, Line
<1>3. runs' \in [Line -> Nat]
  BY <1>2
<1>4. Stacked' /\ stack' # <<>> /\ Top' = q
  <2>1. q.at >= Top.at
    BY <1>2
  <2>. QED  BY <1>1, <1>3, <2>1, StackedOn
<1>5. \A k \in Line : InHand(k)' <=> q.pc \in {"fork", "exec"} /\ k = Read
  BY <1>4 DEF InHand, Read
<1>6. \A k \in Line : Done(k) => Done(k)'
  <2>1. \A k \in Line : runs[k] >= 1 => runs'[k] >= 1
    BY <1>2
  <2>. QED  BY <2>1 DEF Done, Before
<1>7. Progress'
  <2>. SUFFICES ASSUME NEW k \in Line PROVE Done(k)' \/ k >= Top.at \/ InHand(k)'
    BY <1>4 DEF Progress, Line
  <2>. QED  BY <1>1, <1>5, <1>6 DEF Progress, InHand
<1>8. Fresh'
  <2>. SUFFICES ASSUME tty, NEW k \in Line
                PROVE  runs'[k] <= 1 /\ (k >= Top.at \/ InHand(k)' => runs'[k] = 0)
    BY <1>4 DEF Fresh, Line
  <2>1. runs[k] <= 1 /\ (k >= Top.at \/ InHand(k) => runs[k] = 0)
    BY <1>1 DEF Fresh
  <2>2. CASE UNCHANGED runs
    <3>1. InHand(k)' => InHand(k)
      BY <1>5 DEF InHand
    <3>. QED  BY <2>1, <2>2, <3>1
  <2>3. CASE /\ Top.pc \in {"fork", "exec"} /\ q.pc \notin {"fork", "exec"}
             /\ Read \in Line /\ runs' = [runs EXCEPT ![Read] = @ + 1]
    <3>1. CASE k = Read
      <4>1. runs[k] = 0 /\ runs'[k] = 1 /\ ~(k >= Top.at)
        BY <1>2, <2>1, <2>3, <3>1 DEF InHand, Read
      <4>. QED  BY <1>5, <2>3, <4>1
    <3>2. CASE k # Read
      BY <1>2, <1>5, <2>1, <2>3, <3>2
    <3>. QED  BY <3>1, <3>2
  <2>. QED  BY <2>2, <2>3
<1>. QED  BY <1>4, <1>7, <1>8 DEF ClInv

LEMMA ClStutter == ASSUME ClInv, UNCHANGED vars PROVE ClInv'
<1>1. TypeOK'
  BY DEF ClInv, Stacked, TypeOK, Line, vars
<1>2. Below' /\ Children'
  BY DEF ClInv, Stacked, Below, Children, At, Top, vars
<1>3. (\A i \in 1 .. Len(stack) : Sound(stack[i]))'
  BY DEF ClInv, Stacked, Sound, Current, Before, vars
<1>4. Progress'
  BY DEF ClInv, Progress, InHand, Done, Before, Top, Read, Line, vars
<1>5. Fresh'
  BY DEF ClInv, Fresh, InHand, Top, Read, Line, vars
<1>. QED  BY <1>1, <1>2, <1>3, <1>4, <1>5 DEF ClInv, Stacked

(* A process on top that is at its line again, with the same environment. *)
LEMMA SoundSame ==
    ASSUME Stacked, stack # <<>>, Top.pc # "prompt",
           NEW pc \in {"prompt", "command"},
           pc = "command" => Top.pc = "exec" /\ script[Read] = "run"
    PROVE  LET q == Process(pc, Top.at, Top.env)
           IN  q \in Processes /\ Sound(q) /\ q.pc = pc /\ q.at = Top.at /\ q.env = Top.env
<1>1. Top \in Processes /\ Sound(Top)
  BY TopFacts
<1>2. /\ Top.at \in 1 .. Len(script) + 1 /\ Top.env \in 0 .. Len(script) /\ pc \in Places
  BY <1>1 DEF Processes, Places
<1>3. PICK q \in Processes : /\ q = Process(pc, Top.at, Top.env)
                             /\ q.pc = pc /\ q.at = Top.at /\ q.env = Top.env
  BY <1>2, ProcessType
<1>4. Sound(q)
  BY <1>1, <1>3 DEF Sound, Read
<1>. QED  BY <1>3, <1>4

LEMMA ClEatRest == ASSUME ClInv, EatRest PROVE ClInv'
<1>1. Stacked /\ stack # <<>> /\ Top.pc = "eat" /\ UNCHANGED <<tty, script, runs, refused>>
  BY DEF ClInv, EatRest, At
<1>2. CASE UNCHANGED stack
  BY <1>1, <1>2, ClStutter DEF vars
<1>3. CASE SetTop("prompt", Top.at)
  <2>. DEFINE q == Process("prompt", Top.at, Top.env)
  <2>1. q \in Processes /\ Sound(q) /\ q.pc = "prompt" /\ q.at = Top.at /\ q.env = Top.env
    BY <1>1, SoundSame
  <2>2. OnTop(q)
    BY <1>3 DEF SetTop
  <2>3. \A k \in Line : ~InHand(k)
    BY <1>1 DEF InHand
  <2>4. refused' \subseteq Line
    BY <1>1 DEF Stacked, TypeOK
  <2>. HIDE DEF q
  <2>. QED  BY <1>1, <2>1, <2>2, <2>3, <2>4, ClSame
<1>. QED  BY <1>2, <1>3 DEF EatRest

(* The process on top is about to make a child, or is one. *)
LEMMA LineInHand ==
    ASSUME Stacked, stack # <<>>, Top.pc \in {"fork", "exec"}
    PROVE  Read \in Line /\ script[Read] \in {"run", "nosuch"}
<1>1. Top \in Processes /\ Sound(Top) /\ Len(script) \in Nat
  BY TopFacts
<1>. QED  BY <1>1 DEF Sound, Read, Line, Processes

LEMMA ClFork == ASSUME ClInv, Fork PROVE ClInv'
<1>1. /\ Stacked /\ Progress /\ Fresh /\ At("fork") /\ stack # <<>> /\ Top.pc = "fork"
      /\ UNCHANGED <<tty, script, runs>>
  BY DEF ClInv, Fork, At
<1>2. CASE /\ stack' = Append(Append(Front(stack), Process("wait", Top.at, Top.env)),
                              Process("exec", Top.at, Top.env))
           /\ UNCHANGED refused
  <2>1. Stacked' /\ stack' # <<>> /\ Top'.pc = "exec" /\ Top'.at = Top.at
    BY <1>1, <1>2, StackedFork
  <2>2. \A k \in Line : InHand(k)' <=> InHand(k)
    BY <1>1, <2>1 DEF InHand, Read
  <2>3. \A k \in Line : Done(k)' <=> Done(k)
    BY <1>1, <1>2 DEF Done, Before
  <2>4. Progress'
    BY <1>1, <2>1, <2>2, <2>3 DEF Progress, Line
  <2>5. Fresh'
    BY <1>1, <2>1, <2>2 DEF Fresh, Line
  <2>. QED  BY <2>1, <2>4, <2>5 DEF ClInv
<1>3. CASE SetTop("prompt", Top.at) /\ refused' = refused \cup {Read}
  <2>. DEFINE q == Process("prompt", Top.at, Top.env)
  <2>1. q \in Processes /\ Sound(q) /\ q.pc = "prompt" /\ q.at = Top.at /\ q.env = Top.env
    BY <1>1, SoundSame
  <2>2. OnTop(q)
    BY <1>3 DEF SetTop
  <2>3. \A k \in Line : InHand(k) => Done(k)'
    BY <1>3 DEF InHand, Done
  <2>4. refused' \subseteq Line /\ refused \subseteq refused'
    BY <1>1, <1>3, LineInHand DEF Stacked, TypeOK
  <2>. HIDE DEF q
  <2>. QED  BY <1>1, <2>1, <2>2, <2>3, <2>4, ClSame
<1>. QED  BY <1>2, <1>3 DEF Fork

LEMMA ClExec == ASSUME ClInv, Exec PROVE ClInv'
<1>1. /\ Stacked /\ stack # <<>> /\ Top.pc = "exec" /\ UNCHANGED <<tty, script, refused>>
      /\ Read \in Line /\ script[Read] \in {"run", "nosuch"}
      /\ refused' \subseteq Line /\ refused \subseteq refused' /\ runs \in [Line -> Nat]
  BY LineInHand DEF ClInv, Exec, At, Stacked, TypeOK
<1>2. CASE script[Read] = "run" /\ SetTop("command", Top.at) /\ runs' = [runs EXCEPT ![Read] = @ + 1]
  <2>. DEFINE q == Process("command", Top.at, Top.env)
  <2>1. q \in Processes /\ Sound(q) /\ q.pc = "command" /\ q.at = Top.at /\ q.env = Top.env
    BY <1>1, <1>2, SoundSame
  <2>2. OnTop(q)
    BY <1>2 DEF SetTop
  <2>3. \A k \in Line : InHand(k) => Done(k)'
    <3>1. runs'[Read] >= 1
      BY <1>1, <1>2
    <3>. QED  BY <3>1 DEF InHand, Done
  <2>. HIDE DEF q
  <2>. QED  BY <1>1, <1>2, <2>1, <2>2, <2>3, ClSame
<1>3. CASE script[Read] = "nosuch" /\ SetTop("prompt", Top.at) /\ UNCHANGED runs
  <2>. DEFINE q == Process("prompt", Top.at, Top.env)
  <2>1. q \in Processes /\ Sound(q) /\ q.pc = "prompt" /\ q.at = Top.at /\ q.env = Top.env
    BY <1>1, SoundSame
  <2>2. OnTop(q)
    BY <1>3 DEF SetTop
  <2>3. \A k \in Line : InHand(k) => Done(k)'
    BY <1>1, <1>3 DEF InHand, Done, Executed
  <2>. HIDE DEF q
  <2>. QED  BY <1>1, <1>3, <2>1, <2>2, <2>3, ClSame
<1>. QED  BY <1>1, <1>2, <1>3 DEF Exec

-----------------------------------------------------------------------------
(* The process on top ends *)

(* What the processes below have in common. *)
LEMMA BelowFacts ==
    ASSUME Stacked, stack # <<>>, Len(stack) # 1
    PROVE  LET below == stack[Len(stack) - 1]
           IN  /\ below \in Processes /\ Sound(below) /\ below.pc = "wait" /\ below.at <= Top.at
               /\ Front(stack)[Len(Front(stack))] = below
<1>1. /\ stack \in Seq(Processes) /\ Len(stack) \in Nat \ {0} /\ Top = stack[Len(stack)]
      /\ Len(Front(stack)) = Len(stack) - 1
      /\ \A i \in 1 .. Len(stack) - 1 : Front(stack)[i] = stack[i]
  BY TopFacts, BelowTop
<1>2. \A n \in Nat \ {0} : n # 1 => n - 1 \in 1 .. n - 1 /\ n - 1 \in 1 .. n /\ (n - 1) + 1 = n
  OBVIOUS
<1>3. /\ Len(stack) - 1 \in 1 .. Len(stack) - 1 /\ Len(stack) - 1 \in 1 .. Len(stack)
      /\ (Len(stack) - 1) + 1 = Len(stack)
  BY <1>1, <1>2
<1>4. stack[Len(stack) - 1] \in Processes
  BY <1>1, <1>3, ElementOfSeq
<1>5. stack[Len(stack) - 1].pc = "wait" /\ stack[Len(stack) - 1].at <= stack[Len(stack)].at
  BY <1>3 DEF Stacked, Below
<1>6. Sound(stack[Len(stack) - 1])
  BY <1>3 DEF Stacked
<1>. QED  BY <1>1, <1>3, <1>4, <1>5, <1>6

LEMMA ClPop ==
    ASSUME ClInv, stack # <<>>, Top.pc \notin {"fork", "exec"}, Pop,
           \/ Top.at > Len(script)
           \/ Len(stack) # 1 /\ stack[Len(stack) - 1].at = Top.at,
           UNCHANGED <<tty, script, runs, refused>>
    PROVE  ClInv'
<1>1. Stacked /\ Progress /\ Fresh /\ Top \in Processes /\ Len(script) \in Nat
  BY TopFacts DEF ClInv
<1>2. \A k \in Line : ~InHand(k) /\ (Done(k)' <=> Done(k)) /\ k \in Nat /\ k <= Len(script)
  BY <1>1 DEF InHand, Done, Before, Line
<1>3. CASE Len(stack) = 1
  <2>1. stack' = <<>> /\ Stacked'
    BY <1>1, <1>3, StackedEnd DEF Pop
  <2>2. \A k \in Line : ~(k >= Top.at)
    BY <1>1, <1>2, <1>3 DEF Processes
  <2>3. Progress'
    BY <1>1, <1>2, <2>2 DEF Progress, Line
  <2>4. Fresh'
    BY <1>1, <2>1 DEF Fresh, Line
  <2>. QED  BY <2>1, <2>3, <2>4 DEF ClInv
<1>4. CASE Len(stack) # 1
  <2>1. PICK below \in Processes :
            /\ below = stack[Len(stack) - 1]
            /\ Sound(below) /\ below.pc = "wait" /\ below.at <= Top.at
            /\ Front(stack)[Len(Front(stack))] = below
    BY <1>1, <1>4, BelowFacts
  <2>2. PICK at : at = IF tty THEN Top.at ELSE below.at
    OBVIOUS
  <2>3. at \in 1 .. Len(script) + 1 /\ below.env \in 0 .. Len(script) /\ "prompt" \in Places
    BY <1>1, <2>1, <2>2 DEF Processes, Places
  <2>4. PICK b \in Processes : /\ b = Process("prompt", at, below.env)
                               /\ b.pc = "prompt" /\ b.at = at /\ b.env = below.env
    BY <2>3, ProcessType
  <2>5. stack' = [Front(stack) EXCEPT ![Len(Front(stack))] = b]
    BY <1>4, <2>1, <2>2, <2>4 DEF Pop
  <2>6. /\ at \in Int /\ Top.at \in Int /\ below.at \in Int
        /\ at >= below.at /\ at <= Top.at /\ (tty => at = Top.at)
    BY <1>1, <2>1, <2>2 DEF Processes
  <2>7. Sound(b)
    <3>1. at = below.at \/ at > Len(script)
      BY <1>4, <2>1, <2>2
    <3>. QED  BY <2>1, <2>4, <3>1 DEF Sound
  <2>8. Stacked' /\ stack' # <<>> /\ Top' = b
    BY <1>1, <1>4, <2>1, <2>4, <2>5, <2>6, <2>7, StackedPop
  <2>9. \A k \in Line : ~InHand(k)'
    BY <2>4, <2>8 DEF InHand
  <2>10. Progress'
    <3>. SUFFICES ASSUME NEW k \in Line PROVE Done(k)' \/ k >= at
      BY <2>4, <2>8 DEF Progress, Line
    <3>. QED  BY <1>1, <1>2, <2>6 DEF Progress
  <2>11. Fresh'
    BY <1>1, <2>4, <2>6, <2>8, <2>9 DEF Fresh, Line
  <2>. QED  BY <2>8, <2>10, <2>11 DEF ClInv
<1>. QED  BY <1>3, <1>4

(* On a terminal that is at its end once, the process on top ends, and the   *)
(* one below reads on; whatever it does then comes after this end.           *)
LEMMA ClEofRead == ASSUME ClInv, ReadLine, EofRead, script[Top.at] = "eof" PROVE ClInv'
<1>1. /\ Stacked /\ Progress /\ Fresh /\ stack # <<>> /\ Top.pc = "prompt" /\ Top.at <= Len(script)
      /\ Top \in Processes /\ Len(script) \in Nat
      /\ UNCHANGED <<tty, script, runs, refused>>
  BY TopFacts DEF ClInv, ReadLine, At
<1>2. PICK at \in Nat \ {0} : at = Top.at /\ at <= Len(script)
  BY <1>1 DEF Processes
<1>3. \A k \in Line : ~InHand(k) /\ (Done(k)' <=> Done(k)) /\ k \in Nat
  BY <1>1 DEF InHand, Done, Before, Line
<1>4. \A k \in Line : Done(k) \/ k > at
  <2>. SUFFICES ASSUME NEW k \in Line PROVE Done(k) \/ k > at
    OBVIOUS
  <2>1. CASE k = at
    BY <1>2, <2>1 DEF Done, Executed
  <2>2. CASE k # at
    BY <1>1, <1>2, <1>3, <2>2 DEF Progress
  <2>. QED  BY <2>1, <2>2
<1>5. \A k \in Line : k > at => Before(k, "eof") # {}
  <2>1. \A k \in Line : k > at => at \in Before(k, "eof")
    BY <1>2, <1>3 DEF Before
  <2>. QED  BY <2>1
<1>6. \A k \in Line : Done(k)
  BY <1>4, <1>5 DEF Done
<1>7. Progress'
  BY <1>1, <1>3, <1>6 DEF Progress, Line
<1>8. CASE Len(stack) = 1
  <2>1. stack' = <<>> /\ Stacked'
    BY <1>1, <1>8, StackedEnd DEF EofRead
  <2>. QED  BY <1>1, <1>7, <2>1 DEF ClInv, Fresh, Line
<1>9. CASE Len(stack) # 1
  <2>1. PICK below \in Processes :
            /\ below = stack[Len(stack) - 1] /\ below.at <= Top.at
            /\ Front(stack)[Len(Front(stack))] = below
    BY <1>1, <1>9, BelowFacts
  <2>2. at + 1 \in 1 .. Len(script) + 1 /\ below.env \in 0 .. Len(script) /\ "prompt" \in Places
    BY <1>1, <1>2, <2>1 DEF Processes, Places
  <2>3. PICK b \in Processes : /\ b = Process("prompt", at + 1, below.env)
                               /\ b.pc = "prompt" /\ b.at = at + 1
    BY <2>2, ProcessType
  <2>4. stack' = [Front(stack) EXCEPT ![Len(Front(stack))] = b]
    BY <1>2, <1>9, <2>1, <2>3 DEF EofRead
  <2>5. b.at >= below.at
    BY <1>2, <2>1, <2>3 DEF Processes
  <2>6. Sound(b)
    <3>1. at \in Before(at + 1, "eof")
      BY <1>2 DEF Before
    <3>. QED  BY <2>3, <3>1 DEF Sound
  <2>7. Stacked' /\ stack' # <<>> /\ Top' = b
    BY <1>1, <1>9, <2>1, <2>3, <2>4, <2>5, <2>6, StackedPop
  <2>8. \A k \in Line : ~InHand(k)' /\ (k >= at + 1 => k >= at)
    BY <1>2, <1>3, <2>3, <2>7 DEF InHand
  <2>9. Fresh'
    BY <1>1, <1>2, <2>3, <2>7, <2>8 DEF Fresh, Line
  <2>. QED  BY <1>7, <2>7, <2>9 DEF ClInv
<1>. QED  BY <1>8, <1>9

LEMMA ClNext == ClInv /\ [Next]_vars => ClInv'
<1>. SUFFICES ASSUME ClInv, [Next]_vars PROVE ClInv'
  OBVIOUS
<1>1. CASE UNCHANGED vars
  BY <1>1, ClStutter
<1>2. CASE EndOfInput
  BY <1>2, ClPop DEF EndOfInput, At
<1>3. CASE CommandEnds
  <2>1. /\ stack # <<>> /\ Top.pc = "command" /\ Pop /\ UNCHANGED <<tty, script, runs, refused>>
        /\ Len(stack) > 1 /\ stack[Len(stack) - 1].at = Top.at
    BY <1>3 DEF CommandEnds, At, ClInv, Stacked, Children
  <2>2. Len(stack) # 1
    BY <2>1
  <2>. QED  BY <2>1, <2>2, ClPop
<1>4. CASE ReadLine
  <2>1. CASE script[Top.at] # "eof"
    BY <1>4, <2>1, ClReadLine
  <2>2. CASE script[Top.at] = "eof"
    <3>1. EofRead
      BY <1>4, <2>2 DEF ReadLine
    <3>. QED  BY <1>4, <2>2, <3>1, ClEofRead
  <2>. QED  BY <2>1, <2>2
<1>. QED  BY <1>1, <1>2, <1>3, <1>4, ClEatRest, ClFork, ClExec DEF Next

-----------------------------------------------------------------------------
(* How often a line of a file is carried out *)

(* The unknown commands an interpreter that is at line `at' has before line k *)
(* double it and those it makes: as many will read k as those have subsets.   *)
Doubling(at, k) == {j \in at .. k - 1 : script[j] = "nosuch"}
Readers(at, k) == IF at <= k THEN Cardinality(SUBSET Doubling(at, k)) ELSE 0

(* What is still to come of line k: from a child that is to carry out the    *)
(* line before `at', and from any process and those it will make.            *)
Child(at, k) ==
    IF script[at - 1] # "run" THEN Readers(at, k) ELSE IF k = at - 1 THEN 1 ELSE 0
Share(q, k) ==
    IF q.pc = "command" THEN 0
    ELSE IF q.pc = "exec" THEN Child(q.at, k)
    ELSE IF q.pc = "fork" THEN Readers(q.at, k) + Child(q.at, k)
    ELSE Readers(q.at, k)

(* n times and what the processes of s have still to come, which is w[i] for *)
(* the lowest i of them, is what the first interpreter had to come.          *)
Total(s, k, n) ==
    \E w \in [0 .. Len(s) -> Nat] :
        /\ w[0] = 0
        /\ \A i \in 1 .. Len(s) : w[i] = w[i - 1] + Share(s[i], k)
        /\ n + w[Len(s)] <= Readers(1, k)
Shares == ~tty => \A k \in Line : Total(stack, k, runs[k])

(* Only a terminal has an end that is not the end for ever. *)
FileEnds == ~tty => \A k \in Line : script[k] # "eof"

LEMMA DoublingFinite == \A at, k \in Nat : IsFiniteSet(Doubling(at, k))
<1>. SUFFICES ASSUME NEW at \in Nat, NEW k \in Nat PROVE IsFiniteSet(Doubling(at, k))
  OBVIOUS
<1>1. IsFiniteSet(at .. k - 1)
  BY FS_Interval
<1>. QED  BY <1>1, FS_Subset DEF Doubling

LEMMA ReadersType == \A at, k \in Nat : Readers(at, k) \in Nat
BY DoublingFinite, FS_SUBSET, FS_CardinalityType DEF Readers

(* One element more, and there are twice as many subsets. *)
LEMMA TwiceTheSubsets ==
    ASSUME NEW S, IsFiniteSet(S), NEW x, x \notin S
    PROVE  Cardinality(SUBSET (S \cup {x})) = 2 * Cardinality(SUBSET S)
<1>. DEFINE With == {T \cup {x} : T \in SUBSET S}
<1>1. IsFiniteSet(SUBSET S) /\ Cardinality(SUBSET S) \in Nat
  BY FS_SUBSET, FS_CardinalityType
<1>2. IsFiniteSet(With) /\ Cardinality(With) = Cardinality(SUBSET S)
  <2>. DEFINE f == [T \in SUBSET S |-> T \cup {x}]
  <2>1. f \in Bijection(SUBSET S, With)
    <3>1. f \in [SUBSET S -> With]
      OBVIOUS
    <3>2. ASSUME NEW T \in SUBSET S, NEW U \in SUBSET S, f[T] = f[U] PROVE T = U
      <4>1. T \cup {x} = U \cup {x} /\ x \notin T /\ x \notin U
        BY <3>2
      <4>. QED  BY <4>1
    <3>3. \A y \in With : \E T \in SUBSET S : f[T] = y
      OBVIOUS
    <3>. HIDE DEF f, With
    <3>4. IsInjective(f)
      BY <3>1, <3>2 DEF IsInjective
    <3>. QED  BY <3>1, <3>3, <3>4 DEF Bijection, Injection, Surjection
  <2>2. ExistsBijection(SUBSET S, With)
    BY <2>1 DEF ExistsBijection
  <2>. QED  BY <1>1, <2>2, FS_Bijection
<1>3. SUBSET (S \cup {x}) = (SUBSET S) \cup With
  <2>1. ASSUME NEW U \in SUBSET (S \cup {x}) PROVE U \in (SUBSET S) \cup With
    <3>1. CASE x \in U
      <4>1. U \ {x} \in SUBSET S /\ U = (U \ {x}) \cup {x}
        BY <3>1
      <4>. QED  BY <4>1
    <3>2. CASE x \notin U
      BY <3>2
    <3>. QED  BY <3>1, <3>2
  <2>2. \A U \in (SUBSET S) \cup With : U \in SUBSET (S \cup {x})
    OBVIOUS
  <2>. QED  BY <2>1, <2>2
<1>4. (SUBSET S) \cap With = {}
  <2>1. \A U \in With : x \in U
    OBVIOUS
  <2>. QED  BY <2>1
<1>. HIDE DEF With
<1>5. Cardinality((SUBSET S) \cup With)
            = Cardinality(SUBSET S) + Cardinality(With) - Cardinality((SUBSET S) \cap With)
  BY <1>1, <1>2, FS_Union
<1>6. Cardinality((SUBSET S) \cap With) = 0
  BY <1>4, FS_EmptySet
<1>7. \A c, d, e \in Int : c = e /\ d = e => c + d - 0 = 2 * e
  OBVIOUS
<1>8. Cardinality(SUBSET (S \cup {x})) = Cardinality(SUBSET S) + Cardinality(With) - 0
  BY <1>3, <1>5, <1>6
<1>. QED  BY <1>1, <1>2, <1>7, <1>8

(* A line is read: what is to come of line k from there on. *)
LEMMA ReadersNext ==
    ASSUME NEW at \in Nat \ {0}, NEW k \in Nat
    PROVE  /\ k < at => Readers(at, k) = 0
           /\ k = at => Readers(at, k) = 1 /\ Readers(at + 1, k) = 0
           /\ k > at => Readers(at, k) = IF script[at] = "nosuch" THEN 2 * Readers(at + 1, k)
                                         ELSE Readers(at + 1, k)
<1>1. CASE k < at
  BY <1>1 DEF Readers
<1>2. CASE k = at
  <2>1. Doubling(at, k) = {}
    BY <1>2 DEF Doubling
  <2>2. PICK none : none = {}
    OBVIOUS
  <2>4. SUBSET {} = {} \cup {none} /\ none \notin {}
    BY <2>2
  <2>3. Cardinality(SUBSET {}) = 1
    <3>1. IsFiniteSet({}) /\ Cardinality({}) = 0
      BY FS_EmptySet
    <3>2. Cardinality({} \cup {none}) = 0 + 1
      BY <2>4, <3>1, FS_AddElement
    <3>. QED  BY <2>4, <3>2
  <2>. QED  BY <1>2, <2>1, <2>3 DEF Readers
<1>3. CASE k > at
  <2>1. at <= k /\ at + 1 <= k /\ at + 1 \in Nat
    BY <1>3
  <2>2. Doubling(at, k) = IF script[at] = "nosuch" THEN Doubling(at + 1, k) \cup {at}
                          ELSE Doubling(at + 1, k)
    BY <1>3 DEF Doubling
  <2>3. at \notin Doubling(at + 1, k)
    BY DEF Doubling
  <2>. QED  BY <1>3, <2>1, <2>2, <2>3, DoublingFinite, TwiceTheSubsets DEF Readers
<1>. QED  BY <1>1, <1>2, <1>3

LEMMA ShareType ==
    ASSUME NEW q \in Processes, NEW k \in Nat, q.pc \in {"fork", "exec"} => q.at > 1
    PROVE  Share(q, k) \in Nat /\ Child(q.at, k) \in Nat
<1>1. q.at \in Nat
  BY DEF Processes
<1>2. Readers(q.at, k) \in Nat
  BY <1>1, ReadersType
<1>3. Child(q.at, k) \in Nat
  BY <1>2 DEF Child
<1>. QED  BY <1>2, <1>3 DEF Share

(* The process on top goes on, and carries line k out if it does. *)
LEMMA TotalOn ==
    ASSUME NEW s \in Seq(Processes), s # <<>>, NEW t \in Seq(Processes), Len(t) = Len(s),
           \A i \in 1 .. Len(s) - 1 : t[i] = s[i],
           NEW k \in Nat, NEW n \in Nat, NEW m \in Nat,
           Share(s[Len(s)], k) \in Nat, Share(t[Len(s)], k) \in Nat,
           m + Share(t[Len(s)], k) <= n + Share(s[Len(s)], k), Total(s, k, n), Readers(1, k) \in Nat
    PROVE  Total(t, k, m)
<1>1. PICK len \in Nat \ {0} : len = Len(s)
  BY EmptySeq, LenProperties
<1>2. PICK w \in [0 .. len -> Nat] :
          /\ w[0] = 0
          /\ \A i \in 1 .. len : w[i] = w[i - 1] + Share(s[i], k)
          /\ n + w[len] <= Readers(1, k)
  BY <1>1 DEF Total
<1>3. PICK a \in Nat : a = Share(s[len], k)
  BY <1>1
<1>4. PICK b \in Nat : b = Share(t[len], k)
  BY <1>1
<1>. DEFINE v == [i \in 0 .. len |-> IF i = len THEN w[len - 1] + b ELSE w[i]]
<1>5. w[len - 1] \in Nat /\ w[len] = w[len - 1] + a
  <2>1. len - 1 \in 0 .. len /\ len \in 1 .. len
    BY <1>1
  <2>. QED  BY <1>2, <1>3, <2>1
<1>6. v \in [0 .. len -> Nat] /\ v[0] = 0 /\ v[len] = w[len - 1] + b
  <2>1. w[len - 1] + b \in Nat
    <3>1. PICK c \in Nat : c = w[len - 1]
      BY <1>5
    <3>2. c + b \in Nat
      OBVIOUS
    <3>. QED  BY <3>1, <3>2
  <2>2. 0 \in 0 .. len /\ len \in 0 .. len /\ 0 # len
    OBVIOUS
  <2>. QED  BY <1>2, <2>1, <2>2, Zenon
<1>7. ASSUME NEW i \in 1 .. len PROVE v[i] = v[i - 1] + Share(t[i], k)
  <2>1. CASE i = len
    <3>1. v[i - 1] = w[len - 1]
      BY <1>1, <2>1
    <3>. QED  BY <1>4, <1>6, <2>1, <3>1
  <2>2. CASE i # len
    <3>1. i \in 1 .. Len(s) - 1 /\ i \in 0 .. len /\ i - 1 \in 0 .. len /\ i - 1 # len
      BY <1>1, <2>2
    <3>2. v[i] = w[i] /\ v[i - 1] = w[i - 1] /\ t[i] = s[i]
      BY <2>2, <3>1
    <3>. QED  BY <1>2, <3>2
  <2>. QED  BY <2>1, <2>2
<1>8. m + v[len] <= Readers(1, k)
  <2>1. PICK r \in Nat : r = Readers(1, k)
    OBVIOUS
  <2>2. m + b <= n + a /\ n + w[len] <= r
    BY <1>1, <1>2, <1>3, <1>4, <2>1
  <2>3. PICK c \in Nat : c = w[len - 1]
    BY <1>5
  <2>4. n + (c + a) <= r
    BY <1>5, <2>2, <2>3
  <2>5. m + (c + b) <= r
    BY <2>2, <2>4
  <2>. QED  BY <1>6, <2>1, <2>3, <2>5
<1>. HIDE DEF v
<1>. QED  BY <1>1, <1>6, <1>7, <1>8 DEF Total

(* fork() divides what is still to come. *)
LEMMA TotalFork ==
    ASSUME NEW s \in Seq(Processes), s # <<>>, NEW t \in Seq(Processes), Len(t) = Len(s) + 1,
           \A i \in 1 .. Len(s) - 1 : t[i] = s[i],
           NEW k \in Nat, NEW n \in Nat,
           Share(t[Len(s)], k) \in Nat, Share(t[Len(s) + 1], k) \in Nat,
           Share(s[Len(s)], k) = Share(t[Len(s)], k) + Share(t[Len(s) + 1], k), Total(s, k, n)
    PROVE  Total(t, k, n)
<1>1. PICK len \in Nat \ {0} : len = Len(s)
  BY EmptySeq, LenProperties
<1>2. PICK w \in [0 .. len -> Nat] :
          /\ w[0] = 0
          /\ \A i \in 1 .. len : w[i] = w[i - 1] + Share(s[i], k)
          /\ n + w[len] <= Readers(1, k)
  BY <1>1 DEF Total
<1>3. PICK a \in Nat : a = Share(t[len], k)
  BY <1>1
<1>4. PICK b \in Nat : b = Share(t[len + 1], k)
  BY <1>1
<1>. DEFINE v == [i \in 0 .. len + 1 |-> IF i = len THEN w[len - 1] + a
                                        ELSE IF i = len + 1 THEN w[len] ELSE w[i]]
<1>5. w[len - 1] \in Nat /\ w[len] \in Nat /\ w[len] = (w[len - 1] + a) + b
  <2>1. len - 1 \in 0 .. len /\ len \in 1 .. len /\ len \in 0 .. len
    BY <1>1
  <2>2. w[len] = w[len - 1] + (a + b)
    BY <1>1, <1>2, <1>3, <1>4, <2>1
  <2>3. w[len - 1] \in Nat
    BY <1>2, <2>1
  <2>. QED  BY <1>2, <2>1, <2>2, <2>3
<1>6. /\ v \in [0 .. len + 1 -> Nat] /\ v[0] = 0
      /\ v[len] = w[len - 1] + a /\ v[len + 1] = w[len]
  <2>1. w[len - 1] + a \in Nat
    <3>1. PICK c \in Nat : c = w[len - 1]
      BY <1>5
    <3>2. c + a \in Nat
      OBVIOUS
    <3>. QED  BY <3>1, <3>2
  <2>3. /\ len \in 0 .. len + 1 /\ len + 1 \in 0 .. len + 1
        /\ 0 \in 0 .. len + 1 /\ 0 # len /\ 0 # len + 1 /\ len + 1 # len
    OBVIOUS
  <2>2. \A i \in 0 .. len + 1 : i = len \/ i = len + 1 \/ i \in 0 .. len
    OBVIOUS
  <2>. QED  BY <1>2, <1>5, <2>1, <2>2, <2>3, Zenon
<1>7. ASSUME NEW i \in 1 .. len + 1 PROVE v[i] = v[i - 1] + Share(t[i], k)
  <2>1. CASE i = len
    <3>1. v[i - 1] = w[len - 1]
      BY <1>1, <2>1
    <3>. QED  BY <1>3, <1>6, <2>1, <3>1
  <2>2. CASE i = len + 1
    <3>1. v[i - 1] = w[len - 1] + a
      BY <1>1, <1>6, <2>2
    <3>. QED  BY <1>4, <1>5, <1>6, <2>2, <3>1
  <2>3. CASE i \notin {len, len + 1}
    <3>1. i \in 1 .. Len(s) - 1 /\ i \in 1 .. len
      BY <1>1, <2>3
    <3>3. i \in 0 .. len + 1 /\ i - 1 \in 0 .. len + 1 /\ i - 1 \notin {len, len + 1}
      BY <1>1, <3>1
    <3>4. v[i] = w[i] /\ v[i - 1] = w[i - 1]
      BY <2>3, <3>3, Zenon
    <3>2. v[i] = w[i] /\ v[i - 1] = w[i - 1] /\ t[i] = s[i]
      BY <3>1, <3>4
    <3>. QED  BY <1>2, <3>1, <3>2
  <2>. QED  BY <2>1, <2>2, <2>3
<1>. HIDE DEF v
<1>. QED  BY <1>1, <1>2, <1>6, <1>7 DEF Total

(* The process on top ends; the one below has the same to come. *)
LEMMA TotalPop ==
    ASSUME NEW s \in Seq(Processes), s # <<>>, NEW t \in Seq(Processes), Len(t) = Len(s) - 1,
           NEW k \in Nat, NEW n \in Nat,
           \A i \in 1 .. Len(s) - 1 : Share(t[i], k) = Share(s[i], k), Share(s[Len(s)], k) \in Nat, Total(s, k, n),
           Readers(1, k) \in Nat
    PROVE  Total(t, k, n)
<1>1. PICK len \in Nat \ {0} : len = Len(s)
  BY EmptySeq, LenProperties
<1>2. PICK w \in [0 .. len -> Nat] :
          /\ w[0] = 0
          /\ \A i \in 1 .. len : w[i] = w[i - 1] + Share(s[i], k)
          /\ n + w[len] <= Readers(1, k)
  BY <1>1 DEF Total
<1>. DEFINE v == [i \in 0 .. len - 1 |-> w[i]]
<1>3. /\ v \in [0 .. len - 1 -> Nat] /\ v[0] = 0 /\ v[len - 1] = w[len - 1]
      /\ \A i \in 1 .. len - 1 : v[i] = w[i] /\ v[i - 1] = w[i - 1]
  BY <1>1, <1>2
<1>4. \A i \in 1 .. len - 1 : v[i] = v[i - 1] + Share(t[i], k)
  <2>1. \A i \in 1 .. len - 1 : i \in 1 .. len
    BY <1>1
  <2>. QED  BY <1>1, <1>2, <1>3, <2>1
<1>5. n + v[len - 1] <= Readers(1, k)
  <2>1. len \in 1 .. len /\ len - 1 \in 0 .. len
    BY <1>1
  <2>2. PICK a \in Nat : a = Share(s[len], k)
    BY <1>1
  <2>3. PICK c \in Nat : c = w[len - 1]
    BY <1>2, <2>1
  <2>4. PICK r \in Nat : r = Readers(1, k)
    OBVIOUS
  <2>5. w[len] = c + a /\ n + w[len] <= r
    BY <1>2, <2>1, <2>2, <2>3, <2>4
  <2>6. n + c <= r
    BY <2>5
  <2>. QED  BY <1>3, <2>3, <2>4, <2>6
<1>. HIDE DEF v
<1>. QED  BY <1>1, <1>3, <1>4, <1>5 DEF Total

LEMMA TotalNext ==
    ASSUME UNCHANGED script, NEW k, Total(stack', k, runs'[k])
    PROVE  Total(stack, k, runs[k])'
BY DEF Total, Share, Child, Readers, Doubling

LEMMA ShareOfSound ==
    ASSUME NEW q \in Processes, Sound(q), NEW k \in Line, script \in Seq(Kind)
    PROVE  Share(q, k) \in Nat /\ Child(q.at, k) \in Nat /\ Readers(q.at, k) \in Nat
<1>1. k \in Nat /\ q.at \in Nat
  BY LenProperties DEF Line, Processes
<1>2. q.pc \in {"fork", "exec"} => q.at > 1
  BY DEF Sound
<1>. QED  BY <1>1, <1>2, ShareType, ReadersType

(* The process on top goes on to q. *)
LEMMA SharesOn ==
    ASSUME Stacked, Shares, stack # <<>>, NEW q \in Processes, Sound(q), OnTop(q),
           UNCHANGED <<tty, script>>, runs' \in [Line -> Nat],
           \A k \in Line : runs'[k] + Share(q, k) <= runs[k] + Share(Top, k)
    PROVE  Shares'
<1>1. /\ stack \in Seq(Processes) /\ Top = stack[Len(stack)] /\ Top \in Processes /\ Sound(Top)
      /\ script \in Seq(Kind) /\ runs \in [Line -> Nat]
  BY TopFacts DEF Stacked, TypeOK
<1>2. /\ stack' \in Seq(Processes) /\ Len(stack') = Len(stack)
      /\ \A i \in 1 .. Len(stack) - 1 : stack'[i] = stack[i]
      /\ stack'[Len(stack)] = q
  BY <1>1, TopChanges
<1>. SUFFICES ASSUME ~tty, NEW k \in Line PROVE Total(stack, k, runs[k])'
  BY DEF Shares, Line
<1>7. k \in Nat
  BY <1>1, LenProperties DEF Line
<1>3. k \in Nat /\ runs[k] \in Nat /\ runs'[k] \in Nat /\ Readers(1, k) \in Nat
  BY <1>1, <1>7, ReadersType
<1>4. Total(stack, k, runs[k])
  BY DEF Shares
<1>5. Share(Top, k) \in Nat /\ Share(q, k) \in Nat
  BY <1>1, ShareOfSound
<1>6. Total(stack', k, runs'[k])
  BY <1>1, <1>2, <1>3, <1>4, <1>5, TotalOn
<1>. QED  BY <1>6, TotalNext

LEMMA SharesPop ==
    ASSUME Stacked, Shares, stack # <<>>, Pop, UNCHANGED <<tty, script, runs>>
    PROVE  Shares'
<1>1. /\ stack \in Seq(Processes) /\ Len(stack) \in Nat \ {0} /\ Top = stack[Len(stack)]
      /\ Top \in Processes /\ Sound(Top) /\ script \in Seq(Kind) /\ runs \in [Line -> Nat]
  BY TopFacts DEF Stacked, TypeOK
<1>. SUFFICES ASSUME ~tty, NEW k \in Line PROVE Total(stack, k, runs[k])'
  BY DEF Shares, Line
<1>7. k \in Nat
  BY <1>1, LenProperties DEF Line
<1>2. k \in Nat /\ runs[k] \in Nat /\ Readers(1, k) \in Nat
  BY <1>1, <1>7, ReadersType
<1>3. Total(stack, k, runs[k])
  BY DEF Shares
<1>4. Share(stack[Len(stack)], k) \in Nat
  BY <1>1, ShareOfSound
<1>5. CASE Len(stack) = 1
  <2>1. stack' = <<>>
    BY <1>5 DEF Pop
  <2>2. stack' \in Seq(Processes) /\ Len(stack') = Len(stack) - 1 /\ 1 .. Len(stack) - 1 = {}
    BY <1>5, <2>1, EmptySeq
  <2>3. Total(stack', k, runs[k])
    BY <1>1, <1>2, <1>3, <1>4, <2>2, TotalPop
  <2>. QED  BY <2>3, TotalNext
<1>6. CASE Len(stack) # 1
  <2>1. PICK below \in Processes :
            /\ below = stack[Len(stack) - 1] /\ below.pc = "wait"
            /\ Front(stack)[Len(Front(stack))] = below
    BY <1>1, <1>6, BelowFacts
  <2>2. below.at \in 1 .. Len(script) + 1 /\ below.env \in 0 .. Len(script) /\ "prompt" \in Places
    BY <2>1 DEF Processes, Places
  <2>3. PICK b \in Processes : /\ b = Process("prompt", below.at, below.env)
                               /\ b.pc = "prompt" /\ b.at = below.at
    BY <2>2, ProcessType
  <2>4. stack' = [Front(stack) EXCEPT ![Len(Front(stack))] = b]
    BY <1>6, <2>1, <2>3 DEF Pop
  <2>5. /\ stack' \in Seq(Processes) /\ Len(stack') = Len(stack) - 1
        /\ \A i \in 1 .. Len(stack) - 2 : stack'[i] = stack[i]
        /\ stack'[Len(stack) - 1] = b
    BY <1>1, <1>6, <2>4, TopEnds
  <2>6. Share(b, k) = Share(below, k)
    BY <2>1, <2>3 DEF Share
  <2>7. ASSUME NEW i \in 1 .. Len(stack) - 1 PROVE Share(stack'[i], k) = Share(stack[i], k)
    <3>1. i = Len(stack) - 1 \/ i \in 1 .. Len(stack) - 2
      BY <1>1
    <3>. QED  BY <2>1, <2>5, <2>6, <3>1
  <2>8. Total(stack', k, runs[k])
    BY <1>1, <1>2, <1>3, <1>4, <2>5, <2>7, TotalPop
  <2>. QED  BY <2>8, TotalNext
<1>. QED  BY <1>5, <1>6

LEMMA SharesFork == ASSUME Stacked, Shares, Fork PROVE Shares'
<1>1. /\ stack \in Seq(Processes) /\ stack # <<>> /\ Top = stack[Len(stack)] /\ Top \in Processes
      /\ Sound(Top) /\ Top.pc = "fork"
      /\ script \in Seq(Kind) /\ runs \in [Line -> Nat] /\ UNCHANGED <<tty, script, runs>>
  BY TopFacts DEF Stacked, TypeOK, Fork, At
<1>2. Top.at \in 1 .. Len(script) + 1 /\ Top.env \in 0 .. Len(script)
  BY <1>1 DEF Processes
<1>3. CASE stack' = Append(Append(Front(stack), Process("wait", Top.at, Top.env)),
                           Process("exec", Top.at, Top.env))
  <2>1. PICK parent \in Processes : /\ parent = Process("wait", Top.at, Top.env)
                                    /\ parent.pc = "wait" /\ parent.at = Top.at
    BY <1>2, ProcessType DEF Places
  <2>2. PICK child \in Processes : /\ child = Process("exec", Top.at, Top.env)
                                   /\ child.pc = "exec" /\ child.at = Top.at
    BY <1>2, ProcessType DEF Places
  <2>3. /\ stack' \in Seq(Processes) /\ Len(stack') = Len(stack) + 1
        /\ \A i \in 1 .. Len(stack) - 1 : stack'[i] = stack[i]
        /\ stack'[Len(stack)] = parent /\ stack'[Len(stack) + 1] = child
    BY <1>1, <1>3, <2>1, <2>2, ChildOnTop
  <2>. SUFFICES ASSUME ~tty, NEW k \in Line PROVE Total(stack, k, runs[k])'
    BY <1>1 DEF Shares, Line
  <2>4. k \in Nat /\ runs[k] \in Nat
    BY <1>1, LenProperties DEF Line
  <2>5. Total(stack, k, runs[k])
    BY <1>1 DEF Shares
  <2>6. Child(Top.at, k) \in Nat /\ Readers(Top.at, k) \in Nat
    BY <1>1, ShareOfSound
  <2>7. /\ Share(parent, k) = Readers(Top.at, k) /\ Share(child, k) = Child(Top.at, k)
        /\ Share(Top, k) = Readers(Top.at, k) + Child(Top.at, k)
    BY <1>1, <2>1, <2>2 DEF Share
  <2>8. Total(stack', k, runs[k])
    BY <1>1, <2>3, <2>4, <2>5, <2>6, <2>7, TotalFork
  <2>. QED  BY <1>1, <2>8, TotalNext
<1>4. CASE SetTop("prompt", Top.at)
  <2>1. PICK q \in Processes : /\ q = Process("prompt", Top.at, Top.env) /\ Sound(q)
                               /\ q.pc = "prompt" /\ q.at = Top.at
    BY <1>1, SoundSame
  <2>2. ASSUME NEW k \in Line PROVE runs'[k] + Share(q, k) <= runs[k] + Share(Top, k)
    <3>1. /\ runs'[k] = runs[k] /\ runs[k] \in Nat
          /\ Child(Top.at, k) \in Nat /\ Readers(Top.at, k) \in Nat
      BY <1>1, ShareOfSound
    <3>2. Share(q, k) = Readers(Top.at, k) /\ Share(Top, k) = Readers(Top.at, k) + Child(Top.at, k)
      BY <1>1, <2>1 DEF Share
    <3>. QED  BY <3>1, <3>2
  <2>. QED  BY <1>1, <1>4, <2>1, <2>2, SharesOn DEF SetTop
<1>. QED  BY <1>3, <1>4 DEF Fork

LEMMA SharesExec == ASSUME Stacked, Shares, Exec PROVE Shares'
<1>1. /\ stack # <<>> /\ Top \in Processes /\ Sound(Top) /\ Top.pc = "exec"
      /\ script \in Seq(Kind) /\ runs \in [Line -> Nat] /\ UNCHANGED <<tty, script>>
      /\ Read \in Line /\ Read = Top.at - 1
  BY TopFacts, LineInHand DEF Stacked, TypeOK, Exec, At, Read
<1>2. CASE script[Read] = "run" /\ SetTop("command", Top.at) /\ runs' = [runs EXCEPT ![Read] = @ + 1]
  <2>1. PICK q \in Processes : /\ q = Process("command", Top.at, Top.env) /\ Sound(q)
                               /\ q.pc = "command" /\ q.at = Top.at
    BY <1>1, <1>2, SoundSame
  <2>2. runs' \in [Line -> Nat]
    BY <1>1, <1>2
  <2>3. ASSUME NEW k \in Line PROVE runs'[k] + Share(q, k) <= runs[k] + Share(Top, k)
    <3>1. Share(q, k) = 0 /\ Share(Top, k) = IF k = Read THEN 1 ELSE 0
      BY <1>1, <1>2, <2>1 DEF Share, Child
    <3>2. runs[k] \in Nat /\ runs'[k] = IF k = Read THEN runs[k] + 1 ELSE runs[k]
      BY <1>1, <1>2
    <3>. QED  BY <3>1, <3>2
  <2>. QED  BY <1>1, <1>2, <2>1, <2>2, <2>3, SharesOn DEF SetTop
<1>3. CASE script[Read] # "run" /\ SetTop("prompt", Top.at) /\ UNCHANGED runs
  <2>1. PICK q \in Processes : /\ q = Process("prompt", Top.at, Top.env) /\ Sound(q)
                               /\ q.pc = "prompt" /\ q.at = Top.at
    BY <1>1, SoundSame
  <2>2. ASSUME NEW k \in Line PROVE runs'[k] + Share(q, k) <= runs[k] + Share(Top, k)
    <3>1. Share(q, k) = Share(Top, k)
      BY <1>1, <1>3, <2>1 DEF Share, Child
    <3>2. runs'[k] = runs[k] /\ runs[k] \in Nat /\ Share(q, k) \in Nat
      BY <1>1, <1>3, <2>1, ShareOfSound
    <3>. QED  BY <3>1, <3>2
  <2>. QED  BY <1>1, <1>3, <2>1, <2>2, SharesOn DEF SetTop
<1>. QED  BY <1>1, <1>2, <1>3 DEF Exec

LEMMA SharesEatRest == ASSUME Stacked, Shares, EatRest PROVE Shares'
<1>1. /\ stack # <<>> /\ Top \in Processes /\ Sound(Top) /\ Top.pc = "eat"
      /\ script \in Seq(Kind) /\ runs \in [Line -> Nat] /\ UNCHANGED <<tty, script, runs>>
  BY TopFacts DEF Stacked, TypeOK, EatRest, At
<1>2. CASE UNCHANGED stack
  <2>1. Line' = Line /\ \A k \in Line : Total(stack', k, runs'[k]) => Total(stack, k, runs[k])'
    BY <1>1, TotalNext DEF Line
  <2>. QED  BY <1>1, <1>2, <2>1 DEF Shares
<1>3. CASE SetTop("prompt", Top.at)
  <2>1. PICK q \in Processes : /\ q = Process("prompt", Top.at, Top.env) /\ Sound(q)
                               /\ q.pc = "prompt" /\ q.at = Top.at
    BY <1>1, SoundSame
  <2>2. ASSUME NEW k \in Line PROVE runs'[k] + Share(q, k) <= runs[k] + Share(Top, k)
    <3>1. Share(q, k) = Share(Top, k)
      BY <1>1, <2>1 DEF Share
    <3>2. runs'[k] = runs[k] /\ runs[k] \in Nat /\ Share(q, k) \in Nat
      BY <1>1, <2>1, ShareOfSound
    <3>. QED  BY <3>1, <3>2
  <2>. QED  BY <1>1, <1>3, <2>1, <2>2, SharesOn DEF SetTop
<1>. QED  BY <1>2, <1>3 DEF EatRest

LEMMA SharesRead ==
    ASSUME Stacked, Shares, At("prompt"), Top.at <= Len(script), NEW q \in Processes, Sound(q),
           OnTop(q), q.at = Top.at + 1, UNCHANGED <<tty, script>>,
           \/ /\ q.pc \in {"prompt", "eat"} /\ script[Top.at] # "nosuch"
              /\ UNCHANGED runs \/ runs' = [runs EXCEPT ![Top.at] = @ + 1]
           \/ q.pc = "fork" /\ UNCHANGED runs
    PROVE  Shares'
<1>1. /\ stack # <<>> /\ Top \in Processes /\ Sound(Top) /\ Top.pc = "prompt"
      /\ script \in Seq(Kind) /\ runs \in [Line -> Nat] /\ Len(script) \in Nat
  BY TopFacts DEF Stacked, TypeOK, At
<1>2. PICK at \in Nat \ {0} : at = Top.at /\ at \in Line
  BY <1>1 DEF Processes, Line
<1>3. runs' \in [Line -> Nat]
  BY <1>1, <1>2
<1>4. ASSUME NEW k \in Line PROVE runs'[k] + Share(q, k) <= runs[k] + Share(Top, k)
  <2>1. k \in Nat /\ at + 1 \in Nat \ {0} /\ (at + 1) - 1 = at /\ q.at = at + 1
    BY <1>1, <1>2 DEF Line
  <2>2. PICK r \in Nat, rest \in Nat : r = Readers(at, k) /\ rest = Readers(at + 1, k)
    BY <2>1, ReadersType
  <2>3. /\ k < at => r = 0
        /\ k = at => r = 1 /\ rest = 0
        /\ k > at => r = IF script[at] = "nosuch" THEN 2 * rest ELSE rest
    BY <2>1, <2>2, ReadersNext
  <2>4. k < at => rest = 0
    BY <2>1, <2>2, ReadersNext
  <2>5. Share(Top, k) = r
    BY <1>1, <1>2, <2>2 DEF Share
  <2>6. runs[k] \in Nat /\ (k # at => runs'[k] = runs[k]) /\ runs'[k] <= runs[k] + 1
    BY <1>1, <1>2
  <2>7. CASE q.pc \in {"prompt", "eat"} /\ script[at] # "nosuch"
    <3>1. Share(q, k) = rest
      BY <2>1, <2>2, <2>7 DEF Share
    <3>. QED  BY <1>3, <2>1, <2>3, <2>4, <2>5, <2>6, <2>7, <3>1
  <2>8. CASE q.pc = "fork" /\ UNCHANGED runs
    <3>1. Share(q, k) = rest + Child(at + 1, k)
      BY <2>1, <2>2, <2>8 DEF Share
    <3>2. Child(at + 1, k) = IF script[at] # "run" THEN rest ELSE IF k = at THEN 1 ELSE 0
      BY <2>1, <2>2 DEF Child
    <3>3. script[at] \in {"run", "nosuch"}
      BY <2>1, <2>8 DEF Sound
    <3>4. PICK more \in Nat : more = Child(at + 1, k)
      BY <2>2, <3>2
    <3>5. rest + more <= r
      BY <2>1, <2>3, <2>4, <3>2, <3>3, <3>4
    <3>6. runs'[k] = runs[k]
      BY <2>8
    <3>. QED  BY <2>5, <2>6, <3>1, <3>4, <3>5, <3>6
  <2>. QED  BY <1>2, <2>7, <2>8
<1>. QED  BY <1>1, <1>3, <1>4, SharesOn

LEMMA SharesReadLine == ASSUME Stacked, Shares, FileEnds, ReadLine PROVE Shares'
<1>1. /\ stack # <<>> /\ At("prompt") /\ Top.at <= Len(script)
      /\ Len(script) \in Nat /\ Top \in Processes /\ UNCHANGED <<tty, script>>
  BY TopFacts DEF ReadLine, At
<1>2. /\ Top.at + 1 \in 1 .. Len(script) + 1 /\ Top.env \in 0 .. Len(script) /\ Top.at \in 0 .. Len(script)
  BY <1>1 DEF Processes
<1>3. \A pc \in {"prompt", "eat", "fork"}, env \in {Top.env, Top.at} :
          /\ Process(pc, Top.at + 1, env) \in Processes
          /\ Process(pc, Top.at + 1, env).pc = pc /\ Process(pc, Top.at + 1, env).at = Top.at + 1
  BY <1>2, ProcessType DEF Places
<1>4. CASE script[Top.at] \in {"ignored", "long", "cut", "set"}
  <2>1. script[Top.at] \notin {"asg", "nosuch"} /\ (UNCHANGED runs \/ runs' = [runs EXCEPT ![Top.at] = @ + 1])
    BY <1>4 DEF ReadLine
  <2>2. PICK pc \in {"prompt", "eat"} : OnTop(Process(pc, Top.at + 1, Top.env))
    BY <1>4 DEF ReadLine, Set, SetTop
  <2>3. Sound(Process(pc, Top.at + 1, Top.env))
    BY <1>1, <2>1, SoundNext
  <2>. QED  BY <1>1, <1>3, <2>1, <2>2, <2>3, SharesRead
<1>5. CASE script[Top.at] = "asg"
  <2>1. OnTop(Process("prompt", Top.at + 1, Top.at)) /\ runs' = [runs EXCEPT ![Top.at] = @ + 1]
    BY <1>5 DEF ReadLine, Assign
  <2>2. Sound(Process("prompt", Top.at + 1, Top.at))
    BY <1>1, <1>5, SoundNext
  <2>. QED  BY <1>1, <1>3, <1>5, <2>1, <2>2, SharesRead
<1>6. CASE script[Top.at] \in {"run", "nosuch"}
  <2>1. OnTop(Process("fork", Top.at + 1, Top.env)) /\ UNCHANGED runs
    BY <1>6 DEF ReadLine, SetTop
  <2>2. Sound(Process("fork", Top.at + 1, Top.env))
    BY <1>1, <1>6, SoundNext
  <2>. QED  BY <1>1, <1>3, <2>1, <2>2, SharesRead
<1>7. CASE script[Top.at] = "eof"
  <2>1. Top.at \in Line
    BY <1>1 DEF Processes, Line
  <2>2. tty
    BY <1>7, <2>1 DEF FileEnds
  <2>. QED  BY <1>1, <2>2 DEF Shares
<1>. QED  BY <1>4, <1>5, <1>6, <1>7 DEF ReadLine

-----------------------------------------------------------------------------
(* The theorems *)

(* Every process is somewhere in main(), has read lines of the input only,   *)
(* and has in its environment what one of them assigned.                     *)
THEOREM TypeCorrect == Spec => []TypeOK
<1>1. ClInv => TypeOK
  BY DEF ClInv, Stacked
<1>. QED  BY <1>1, ClInit, ClNext, PTL DEF Spec

(* However many interpreters the unknown commands have made, and wherever    *)
(* fork() failed: when the last one ends, every line it could carry out was  *)
(* carried out.                                                              *)
THEOREM SkippedCorrect == Spec => []NothingSkipped
<1>1. ClInv => NothingSkipped
  BY DEF ClInv, Progress, Done, NothingSkipped
<1>. QED  BY <1>1, ClInit, ClNext, PTL DEF Spec

(* A command finds in its environment what the last assignment before it     *)
(* made of the variable, in whichever of the interpreters that was.          *)
THEOREM EnvCorrect == Spec => []EnvOfCommand
<1>1. ASSUME ClInv, At("command"), Before(Read, "eof") = {}
      PROVE  Top.env = Max({0} \cup Before(Read, "asg"))
  <2>1. /\ stack # <<>> /\ Top.pc = "command" /\ Sound(Top) /\ Top \in Processes
    BY <1>1, TopFacts DEF ClInv, At
  <2>2. PICK at \in Nat \ {0} : at = Read /\ at + 1 = Top.at /\ script[at] = "run"
    <3>1. Top.at \in Nat /\ Top.at > 1 /\ script[Top.at - 1] = "run"
      BY <2>1 DEF Sound, Processes
    <3>. QED  BY <3>1 DEF Read
  <2>3. Before(Top.at, "eof") = Before(at, "eof") /\ Before(Top.at, "asg") = Before(at, "asg")
    BY <2>2, BeforeNext
  <2>4. PICK env \in Nat : env = Top.env
    BY <2>1 DEF Processes
  <2>5. Current(env, at)
    BY <1>1, <2>1, <2>2, <2>3, <2>4 DEF Sound, Current
  <2>. DEFINE S == {0} \cup Before(at, "asg")
  <2>6. S \subseteq Nat
    BY DEF Before
  <2>7. env \in S /\ \A j \in S : env >= j
    BY <2>5, <2>6 DEF Current
  <2>8. \A m \in S : (\A j \in S : m >= j) => m = env
    BY <2>6, <2>7
  <2>9. Max(S) = env
    <3>. HIDE DEF S
    <3>. QED  BY <2>7, <2>8 DEF Max
  <2>. QED  BY <2>2, <2>4, <2>9
<1>2. ClInv => EnvOfCommand
  BY <1>1 DEF EnvOfCommand
<1>. QED  BY <1>2, ClInit, ClNext, PTL DEF Spec

(* On a terminal, which all the interpreters share, no line is carried out   *)
(* twice; from a file every one of them reads on, and a line is carried out  *)
(* at most twice as often for every unknown command before it.               *)
THEOREM TimesCorrect == Spec => []TimesRun
<1>1. ClInv /\ Shares => TimesRun
  <2>. SUFFICES ASSUME ClInv, Shares, NEW k \in Line
                PROVE  runs[k] <= IF tty THEN 1 ELSE 2 ^ Cardinality(Before(k, "nosuch"))
    BY DEF TimesRun
  <2>1. CASE tty
    BY <2>1 DEF ClInv, Fresh
  <2>2. CASE ~tty
    <3>1. script \in Seq(Kind) /\ runs \in [Line -> Nat] /\ stack \in Seq(Processes)
      BY DEF ClInv, Stacked, TypeOK, Processes, Places
    <3>2. k \in Nat /\ k >= 1 /\ runs[k] \in Nat /\ Len(stack) \in Nat
      BY <3>1, LenProperties DEF Line
    <3>3. PICK w \in [0 .. Len(stack) -> Nat] : runs[k] + w[Len(stack)] <= Readers(1, k)
      BY <2>2 DEF Shares, Total
    <3>4. PICK r \in Nat : r = Readers(1, k)
      BY <3>2, ReadersType
    <3>5. runs[k] <= r
      BY <3>2, <3>3, <3>4
    <3>6. Readers(1, k) = Cardinality(SUBSET Before(k, "nosuch"))
      BY <3>2 DEF Readers, Doubling, Before
    <3>7. IsFiniteSet(Before(k, "nosuch"))
      BY <3>2, DoublingFinite DEF Doubling, Before
    <3>. QED  BY <2>2, <3>4, <3>5, <3>6, <3>7, FS_SUBSET
  <2>. QED  BY <2>1, <2>2
<1>2. Init => Shares /\ FileEnds
  <2>. SUFFICES ASSUME Init PROVE Shares /\ FileEnds
    OBVIOUS
  <2>1. ClInv
    BY ClInit
  <2>2. script \in Seq(Kind) /\ stack[1].pc = "prompt" /\ stack[1].at = 1 /\ Len(stack) = 1
    BY <2>1 DEF Init, ClInv, Stacked, TypeOK, Process
  <2>3. ASSUME NEW k \in Line PROVE Total(stack, k, runs[k])
    <3>1. k \in Nat
      BY <2>2, LenProperties DEF Line
    <3>2. PICK r \in Nat : r = Readers(1, k)
      BY <3>1, ReadersType
    <3>3. Share(stack[1], k) = r /\ runs[k] = 0
      BY <2>2, <2>3, <3>2 DEF Share, Init, Line
    <3>4. PICK w \in [0 .. 1 -> Nat] : w = [i \in 0 .. 1 |-> IF i = 0 THEN 0 ELSE r]
      OBVIOUS
    <3>5. w[0] = 0 /\ w[1] = r /\ \A i \in 1 .. 1 : w[i] = w[i - 1] + Share(stack[i], k)
      BY <3>3, <3>4
    <3>. QED  BY <2>2, <3>2, <3>3, <3>5 DEF Total
  <2>. QED  BY <2>3 DEF Shares, FileEnds, Init, Line
<1>3. ClInv /\ Shares /\ FileEnds /\ [Next]_vars => Shares' /\ FileEnds'
  <2>. SUFFICES ASSUME ClInv, Shares, FileEnds, [Next]_vars PROVE Shares' /\ FileEnds'
    OBVIOUS
  <2>1. Stacked /\ UNCHANGED <<tty, script>>
    BY DEF ClInv, Next, EndOfInput, ReadLine, EatRest, Fork, Exec, CommandEnds, vars
  <2>4. FileEnds'
    BY <2>1 DEF FileEnds, Line
  <2>2. CASE EndOfInput \/ CommandEnds
    <3>1. stack # <<>> /\ Pop /\ UNCHANGED <<tty, script, runs>>
      BY <2>2 DEF EndOfInput, CommandEnds, At
    <3>. QED  BY <2>1, <2>4, <3>1, SharesPop
  <2>3. CASE UNCHANGED vars
    <3>1. Line' = Line /\ \A k \in Line : Total(stack', k, runs'[k]) => Total(stack, k, runs[k])'
      BY <2>1, TotalNext DEF Line
    <3>2. Shares'
      BY <2>1, <2>3, <3>1 DEF Shares, vars
    <3>. QED  BY <2>4, <3>2
  <2>. QED  BY <2>1, <2>2, <2>3, <2>4, SharesReadLine, SharesEatRest, SharesFork, SharesExec DEF Next
<1>. QED  BY <1>1, <1>2, <1>3, ClInit, ClNext, PTL DEF Spec

=============================================================================
