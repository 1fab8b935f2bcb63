-------------------------- MODULE ThreadQueueProofs --------------------------
(****************************************************************************)
(* Theorems about ThreadQueue, for every number of nodes.                   *)
(****************************************************************************)
EXTENDS ThreadQueue, SequenceTheorems, TLAPS

(* No number is twice in the sequence. *)
Distinct(s) == \A a, b \in 1 .. Len(s) : s[a] = s[b] => a = b

-----------------------------------------------------------------------------
(* The list *)

(* What a list of nodes holds, place by place. *)
LEMMA RangeMember ==
    ASSUME NEW S, NEW s \in Seq(S)
    PROVE  Len(s) \in Nat /\ \A x : x \in Range(s) <=> \E a \in 1 .. Len(s) : s[a] = x
<1>1. Len(s) \in Nat /\ DOMAIN s = 1 .. Len(s)
  BY LenProperties
<1>. QED  BY <1>1 DEF Range

(* "p->n_next = head; head = p": the new node is first, the others stay. *)
LEMMA PushFront ==
    ASSUME NEW S, NEW s \in Seq(S), NEW x \in S
    PROVE  LET t == <<x>> \o s
           IN /\ t \in Seq(S)
              /\ t # <<>>
              /\ Range(t) = {x} \cup Range(s)
              /\ Distinct(s) /\ x \notin Range(s) => Distinct(t)
<1>. DEFINE t == <<x>> \o s
<1>1. <<x>> \in Seq(S) /\ Len(<<x>>) = 1 /\ <<x>>[1] = x
  OBVIOUS
<1>2. /\ Len(s) \in Nat
      /\ t \in Seq(S)
      /\ Len(t) = 1 + Len(s)
      /\ \A a \in 1 .. Len(t) : t[a] = IF a <= 1 THEN x ELSE s[a - 1]
  BY <1>1, ConcatProperties, LenProperties
<1>3. t # <<>>
  BY <1>2
<1>4. Range(t) = {x} \cup Range(s)
  <2>1. ASSUME NEW y \in Range(t) PROVE y \in {x} \cup Range(s)
    <3>1. PICK a \in 1 .. Len(t) : t[a] = y
      BY <1>2, RangeMember
    <3>2. CASE a <= 1
      BY <1>2, <3>1, <3>2
    <3>3. CASE ~(a <= 1)
      <4>1. a - 1 \in 1 .. Len(s) /\ s[a - 1] = y
        BY <1>2, <3>1, <3>3
      <4>. QED  BY <4>1, RangeMember
    <3>. QED  BY <3>2, <3>3
  <2>2. x \in Range(t)
    <3>1. 1 \in 1 .. Len(t) /\ t[1] = x
      BY <1>2
    <3>. QED  BY <1>2, <3>1, RangeMember
  <2>3. ASSUME NEW y \in Range(s) PROVE y \in Range(t)
    <3>1. PICK a \in 1 .. Len(s) : s[a] = y
      BY RangeMember
    <3>2. a + 1 \in 1 .. Len(t) /\ t[a + 1] = y
      BY <1>2, <3>1
    <3>. QED  BY <1>2, <3>2, RangeMember
  <2>. HIDE DEF t
  <2>. QED  BY <2>1, <2>2, <2>3
<1>5. ASSUME Distinct(s), x \notin Range(s), NEW a \in 1 .. Len(t), NEW b \in 1 .. Len(t),
             t[a] = t[b]
      PROVE  a = b
  <2>1. \A c \in 1 .. Len(s) : s[c] # x
    BY <1>5, RangeMember
  <2>2. CASE a <= 1 /\ b <= 1
    BY <1>2, <2>2
  <2>3. CASE a <= 1 /\ ~(b <= 1)
    <3>1. t[a] = x /\ t[b] = s[b - 1] /\ b - 1 \in 1 .. Len(s)
      BY <1>2, <2>3
    <3>. QED  BY <1>5, <2>1, <3>1
  <2>4. CASE ~(a <= 1) /\ b <= 1
    <3>1. t[b] = x /\ t[a] = s[a - 1] /\ a - 1 \in 1 .. Len(s)
      BY <1>2, <2>4
    <3>. QED  BY <1>5, <2>1, <3>1
  <2>5. CASE ~(a <= 1) /\ ~(b <= 1)
    <3>1. s[a - 1] = s[b - 1] /\ a - 1 \in 1 .. Len(s) /\ b - 1 \in 1 .. Len(s)
      BY <1>2, <1>5, <2>5
    <3>2. a - 1 = b - 1
      BY <1>5, <3>1 DEF Distinct
    <3>. QED  BY <3>2
  <2>. QED  BY <2>2, <2>3, <2>4, <2>5
<1>6. Distinct(s) /\ x \notin Range(s) => Distinct(t)
  <2>. HIDE DEF t
  <2>. QED  BY <1>5 DEF Distinct
<1>. QED  BY <1>2, <1>3, <1>4, <1>6

(* "p = head; head = head->n_next": the first node leaves, no other. *)
LEMMA PopFront ==
    ASSUME NEW S, NEW s \in Seq(S), s # <<>>, Distinct(s)
    PROVE  /\ Tail(s) \in Seq(S)
           /\ Head(s) \in Range(s) /\ Head(s) \in S
           /\ Range(Tail(s)) = Range(s) \ {Head(s)}
           /\ Distinct(Tail(s))
<1>. DEFINE t == Tail(s)
<1>1. /\ Len(s) \in Nat /\ Len(s) >= 1
      /\ Head(s) = s[1] /\ Head(s) \in S
      /\ t \in Seq(S) /\ Len(t) = Len(s) - 1
      /\ \A a \in 1 .. Len(t) : t[a] = s[a + 1]
  BY HeadTailProperties, EmptySeq, LenProperties
<1>2. Head(s) \in Range(s)
  <2>1. 1 \in 1 .. Len(s)
    BY <1>1
  <2>. QED  BY <1>1, <2>1, RangeMember
<1>3. ASSUME NEW y \in Range(t) PROVE y \in Range(s) /\ y # Head(s)
  <2>. HIDE DEF t
  <2>1. PICK a \in 1 .. Len(t) : t[a] = y
    BY <1>1, RangeMember
  <2>2. a + 1 \in 1 .. Len(s) /\ s[a + 1] = y /\ 1 \in 1 .. Len(s) /\ a + 1 # 1
    <3>1. a + 1 \in 1 .. Len(s) /\ 1 \in 1 .. Len(s) /\ a + 1 # 1
      BY <1>1, <2>1
    <3>. QED  BY <1>1, <2>1, <3>1
  <2>3. y \in Range(s)
    BY <2>2, RangeMember
  <2>4. s[a + 1] # s[1]
    BY <2>2 DEF Distinct
  <2>. QED  BY <1>1, <2>2, <2>3, <2>4
<1>4. ASSUME NEW y \in Range(s), y # Head(s) PROVE y \in Range(t)
  <2>1. PICK a \in 1 .. Len(s) : s[a] = y
    BY RangeMember
  <2>2. a - 1 \in 1 .. Len(t) /\ t[a - 1] = y
    BY <1>1, <1>4, <2>1
  <2>. QED  BY <1>1, <2>2, RangeMember
<1>5. ASSUME NEW a \in 1 .. Len(t), NEW b \in 1 .. Len(t), t[a] = t[b] PROVE a = b
  <2>1. s[a + 1] = s[b + 1] /\ a + 1 \in 1 .. Len(s) /\ b + 1 \in 1 .. Len(s)
    BY <1>1, <1>5
  <2>2. a + 1 = b + 1
    BY <2>1 DEF Distinct
  <2>. QED  BY <2>2
<1>6. Range(t) = Range(s) \ {Head(s)}
  BY <1>3, <1>4
<1>7. Distinct(t)
  BY <1>5 DEF Distinct
<1>. QED  BY <1>1, <1>2, <1>6, <1>7

-----------------------------------------------------------------------------
(* The inductive invariant *)

(* Until it has taken a node, and after it has freed it, the thread has none. *)
HandEmpty == tpc \in {"lock", "test", "wait", "woken", "take"} => Held = {}

(* The invariants the runs check are inductive only together: which node is *)
(* where depends on the mutex, and a wake-up is not lost because main()     *)
(* signals before it lets the thread look.                                  *)
QueueInv == /\ TypeOK
            /\ MutualExclusion
            /\ NoNullTake
            /\ NoLostWakeup
            /\ Conservation
            /\ HandEmpty

LEMMA QueueInit == Init => QueueInv
<1>. SUFFICES ASSUME Init PROVE QueueInv
  OBVIOUS
<1>1. TypeOK
  <2>1. 0 \in 0 .. Items /\ (Items # 0 => 0 < Items)
    BY ItemsAssumption
  <2>2. queue \in Seq(Node)
    BY DEF Init
  <2>. QED  BY <2>1, <2>2 DEF Init, TypeOK
<1>2. Range(queue) = {} /\ Len(queue) = 0
  BY DEF Init, Range
<1>3. Held = {} /\ Pushed = {}
  BY ItemsAssumption DEF Init, Held, Pushed, PushCount
<1>. QED  BY <1>1, <1>2, <1>3
          DEF Init, QueueInv, MutualExclusion, NoNullTake, NoLostWakeup, Conservation, HandEmpty

(* The type of a step is that of the places it moves to. *)
LEMMA TypeStep == ASSUME TypeOK, Conservation, Next PROVE TypeOK'
<1>1. CASE MainPush
  <2>1. i \in Node
    BY <1>1, ItemsAssumption DEF MainPush, TypeOK, Node
  <2>2. queue' \in Seq(Node)
    BY <1>1, <2>1, PushFront DEF MainPush, TypeOK
  <2>. QED  BY <1>1, <2>2 DEF MainPush, TypeOK, threadVars
<1>2. CASE MainLock \/ MainSignal \/ MainCancel \/ MainJoin
  BY <1>2 DEF MainLock, MainSignal, MainCancel, MainJoin, TypeOK, threadVars
<1>3. CASE MainUnlock
  BY <1>3, ItemsAssumption DEF MainUnlock, TypeOK, threadVars
<1>4. CASE ThreadTake
  <2>1. CASE queue = <<>>
    BY <1>4, <2>1 DEF ThreadTake, TypeOK, mainVars
  <2>2. CASE queue # <<>>
    <3>1. Tail(queue) \in Seq(Node) /\ Head(queue) \in Node
      BY <2>2, HeadTailProperties DEF TypeOK
    <3>. QED  BY <1>4, <2>2, <3>1 DEF ThreadTake, TypeOK, mainVars
  <2>. QED  BY <2>1, <2>2
<1>5. CASE ThreadPrint \/ ThreadFree
  <2>1. p \in Node
    BY <1>5 DEF ThreadPrint, ThreadFree, TypeOK, Conservation, Held
  <2>. QED  BY <1>5, <2>1 DEF ThreadPrint, ThreadFree, TypeOK, mainVars
<1>6. CASE ThreadLock \/ ThreadTest \/ Cancelled \/ Cleanup \/ SpuriousWakeup
  BY <1>6 DEF ThreadLock, ThreadTest, Cancelled, Cleanup, SpuriousWakeup, TypeOK, mainVars
<1>. QED  BY <1>1, <1>2, <1>3, <1>4, <1>5, <1>6 DEF Next, Main, Thread

(* Who holds the mutex, and what the thread knows of the list. *)
LEMMA LockStep ==
    ASSUME QueueInv, Next
    PROVE  MutualExclusion' /\ NoNullTake' /\ NoLostWakeup'
<1>. USE DEF QueueInv, MutualExclusion, NoNullTake, NoLostWakeup
<1>1. CASE MainPush
  <2>1. queue' # <<>>
    <3>1. i \in Node /\ queue \in Seq(Node)
      BY <1>1, ItemsAssumption DEF MainPush, TypeOK, Node
    <3>. QED  BY <1>1, <3>1, PushFront DEF MainPush
  <2>. QED  BY <1>1, <2>1 DEF MainPush, threadVars
<1>2. CASE MainLock \/ MainSignal \/ MainUnlock \/ MainCancel \/ MainJoin
  BY <1>2 DEF MainLock, MainSignal, MainUnlock, MainCancel, MainJoin, threadVars, TypeOK
<1>3. CASE ThreadLock \/ ThreadTest \/ ThreadTake \/ ThreadPrint \/ ThreadFree
  BY <1>3 DEF ThreadLock, ThreadTest, ThreadTake, ThreadPrint, ThreadFree, mainVars, TypeOK
<1>4. CASE Cancelled \/ Cleanup \/ SpuriousWakeup
  BY <1>4 DEF Cancelled, Cleanup, SpuriousWakeup, mainVars, TypeOK
<1>. QED  BY <1>1, <1>2, <1>3, <1>4 DEF Next, Main, Thread

(* A step that moves no node. *)
LEMMA NodesStay ==
    ASSUME QueueInv, UNCHANGED <<queue, p, freed>>, PushCount' = PushCount,
           tpc' \in {"print", "free"} => tpc \in {"print", "free"},
           tpc' \in {"lock", "test", "wait", "woken", "take"} =>
               tpc \in {"lock", "test", "wait", "woken", "take"}
    PROVE  Conservation' /\ HandEmpty'
BY DEF QueueInv, Conservation, HandEmpty, Held, Pushed

LEMMA NodeStep == ASSUME QueueInv, Next PROVE Conservation' /\ HandEmpty'
<1>1. queue \in Seq(Node) /\ i \in 0 .. Items /\ Distinct(queue)
  BY DEF QueueInv, TypeOK, Conservation, Distinct
<1>2. CASE MainPush
  <2>1. Pushed = 0 .. i - 1 /\ Pushed' = 0 .. i /\ i \in Node
    BY <1>1, <1>2, ItemsAssumption DEF MainPush, Pushed, PushCount, QueueInv, TypeOK, Node
  <2>2. i \notin Pushed /\ Pushed' = Pushed \cup {i}
    BY <1>1, <2>1
  <2>3. Range(queue') = {i} \cup Range(queue) /\ Distinct(queue')
    <3>1. i \notin Range(queue)
      BY <2>2 DEF QueueInv, Conservation
    <3>. QED  BY <1>1, <1>2, <2>1, <3>1, PushFront DEF MainPush
  <2>4. Held' = Held /\ freed' = freed /\ tpc' = tpc
    BY <1>2 DEF MainPush, Held, threadVars
  <2>5. i \notin Held \cup freed
    BY <2>2 DEF QueueInv, Conservation
  <2>. QED  BY <2>2, <2>3, <2>4, <2>5 DEF QueueInv, Conservation, HandEmpty, Distinct
<1>3. CASE ThreadTake
  <2>1. queue # <<>> /\ Held = {}
    BY <1>3 DEF ThreadTake, QueueInv, NoNullTake, HandEmpty
  <2>2. /\ tpc' = "print" /\ p' = Head(queue) /\ queue' = Tail(queue)
        /\ freed' = freed /\ Pushed' = Pushed
    BY <1>3, <2>1 DEF ThreadTake, Pushed, PushCount, mainVars
  <2>3. /\ Head(queue) \in Range(queue) /\ Head(queue) \in Node
        /\ Range(queue') = Range(queue) \ {Head(queue)}
        /\ Distinct(queue')
    BY <1>1, <2>1, <2>2, PopFront
  <2>4. Head(queue) \notin freed /\ Head(queue) # NoNode
    BY <2>3, ItemsAssumption DEF QueueInv, Conservation, Node
  <2>5. Held' = {Head(queue)}
    BY <2>2, <2>4 DEF Held
  <2>. QED  BY <2>1, <2>2, <2>3, <2>4, <2>5 DEF QueueInv, Conservation, HandEmpty, Distinct
<1>4. CASE ThreadFree
  <2>1. /\ Held = {p} /\ Held' = {} /\ freed' = freed \cup {p}
        /\ queue' = queue /\ Pushed' = Pushed /\ tpc' = "lock"
    BY <1>4 DEF ThreadFree, QueueInv, Conservation, Held, Pushed, PushCount, mainVars
  <2>. QED  BY <2>1 DEF QueueInv, Conservation, HandEmpty
<1>5. CASE MainLock \/ MainSignal \/ MainCancel \/ MainJoin
  BY <1>5, NodesStay
  DEF MainLock, MainSignal, MainCancel, MainJoin, threadVars, PushCount
<1>6. CASE MainUnlock
  <2>1. PushCount' = PushCount
    BY <1>1, <1>6 DEF MainUnlock, PushCount
  <2>. QED  BY <1>6, <2>1, NodesStay DEF MainUnlock, threadVars
<1>7. CASE ThreadLock \/ ThreadTest \/ ThreadPrint \/ Cancelled \/ Cleanup \/ SpuriousWakeup
  BY <1>7, NodesStay
  DEF ThreadLock, ThreadTest, ThreadPrint, Cancelled, Cleanup, SpuriousWakeup, mainVars, PushCount
<1>. QED  BY <1>2, <1>3, <1>4, <1>5, <1>6, <1>7 DEF Next, Main, Thread

LEMMA QueueNext == QueueInv /\ [Next]_vars => QueueInv'
<1>. SUFFICES ASSUME QueueInv, [Next]_vars PROVE QueueInv'
  OBVIOUS
<1>1. CASE Next
  BY <1>1, TypeStep, LockStep, NodeStep DEF QueueInv
<1>2. CASE UNCHANGED vars
  BY <1>2 DEF vars, QueueInv, TypeOK, MutualExclusion, NoNullTake, NoLostWakeup,
     Conservation, HandEmpty, Held, Pushed, PushCount
<1>. QED  BY <1>1, <1>2

-----------------------------------------------------------------------------
(* Theorems *)

LEMMA QueueAlways == Spec => []QueueInv
BY QueueInit, QueueNext, PTL DEF Spec

(* Every node main() pushed is on the list once, or in the thread's hand, or *)
(* freed: none is lost, taken twice or freed twice, wherever a cancellation  *)
(* stops the thread.                                                         *)
THEOREM ConservationCorrect == Spec => []Conservation
<1>1. QueueInv => Conservation
  BY DEF QueueInv
<1>. QED  BY <1>1, QueueAlways, PTL

(* Every place main() and the thread go to is one of theirs, and main() goes *)
(* to the cancellation when all nodes are pushed and never before.           *)
THEOREM TypeCorrect == Spec => []TypeOK
<1>1. QueueInv => TypeOK
  BY DEF QueueInv
<1>. QED  BY <1>1, QueueAlways, PTL

(* The thread never dereferences a NULL head, also after a spurious wakeup.  *)
THEOREM NullTakeCorrect == Spec => []NoNullTake
<1>1. QueueInv => NoNullTake
  BY DEF QueueInv
<1>. QED  BY <1>1, QueueAlways, PTL

(* The thread never sleeps beside a node that nobody will wake it for. *)
THEOREM WakeupCorrect == Spec => []NoLostWakeup
<1>1. QueueInv => NoLostWakeup
  BY DEF QueueInv
<1>. QED  BY <1>1, QueueAlways, PTL

(* main() and the thread are never between lock and unlock together. *)
THEOREM ExclusionCorrect == Spec => []MutualExclusion
<1>1. QueueInv => MutualExclusion
  BY DEF QueueInv
<1>. QED  BY <1>1, QueueAlways, PTL

-----------------------------------------------------------------------------
(* The refinement *)

LEMMA RefineInit == Init => Promise!HandoffInit
<1>. SUFFICES ASSUME Init PROVE Promise!HandoffInit
  OBVIOUS
<1>1. Range(queue) = {} /\ Held = {} /\ freed = {} /\ PushCount = 0
  BY DEF Init, Range, Held, PushCount
<1>. QED  BY <1>1 DEF Promise!HandoffInit

LEMMA RefineStep == ASSUME QueueInv, Next PROVE [Promise!HandoffNext]_Promise!HandoffVars
<1>1. queue \in Seq(Node) /\ i \in 0 .. Items /\ Distinct(queue)
  BY DEF QueueInv, TypeOK, Conservation, Distinct
<1>2. CASE MainPush
  <2>1. PushCount = i /\ PushCount' = i + 1 /\ i < Items /\ i \in Node
    BY <1>1, <1>2, ItemsAssumption DEF MainPush, PushCount, QueueInv, TypeOK, Node
  <2>2. Range(queue') = Range(queue) \cup {i}
    BY <1>1, <1>2, <2>1, PushFront DEF MainPush
  <2>3. (Held \cup freed)' = Held \cup freed
    BY <1>2 DEF MainPush, Held, threadVars
  <2>4. Promise!Send
    BY <2>1, <2>2, <2>3 DEF Promise!Send
  <2>. QED  BY <2>4 DEF Promise!HandoffNext
<1>3. CASE ThreadTake
  <2>1. queue # <<>> /\ Held = {}
    BY <1>3 DEF ThreadTake, QueueInv, NoNullTake, HandEmpty
  <2>2. /\ p' = Head(queue) /\ queue' = Tail(queue)
        /\ freed' = freed /\ PushCount' = PushCount
    BY <1>3, <2>1 DEF ThreadTake, PushCount, mainVars
  <2>3. /\ Head(queue) \in Range(queue) /\ Head(queue) \in Node
        /\ Range(queue') = Range(queue) \ {Head(queue)}
    BY <1>1, <2>1, <2>2, PopFront
  <2>4. Head(queue) \notin freed /\ Head(queue) # NoNode
    BY <2>3, ItemsAssumption DEF QueueInv, Conservation, Node
  <2>5. (Held \cup freed)' = (Held \cup freed) \cup {Head(queue)}
    BY <2>1, <2>2, <2>4 DEF Held
  <2>6. Promise!Receive(Head(queue))
    BY <2>2, <2>3, <2>5 DEF Promise!Receive
  <2>. QED  BY <2>3, <2>6 DEF Promise!HandoffNext
<1>4. ASSUME UNCHANGED queue, PushCount' = PushCount, UNCHANGED (Held \cup freed)
      PROVE  [Promise!HandoffNext]_Promise!HandoffVars
  BY <1>4 DEF Promise!HandoffVars
<1>5. CASE ThreadFree
  <2>1. Held = {p} /\ Held' = {} /\ freed' = freed \cup {p} /\ queue' = queue
    BY <1>5 DEF ThreadFree, QueueInv, Conservation, Held
  <2>2. PushCount' = PushCount
    BY <1>5 DEF ThreadFree, PushCount, mainVars
  <2>. QED  BY <1>4, <2>1, <2>2
<1>6. CASE MainLock \/ MainSignal \/ MainCancel \/ MainJoin
  BY <1>4, <1>6
  DEF MainLock, MainSignal, MainCancel, MainJoin, threadVars, PushCount, Held
<1>7. CASE MainUnlock
  <2>1. PushCount' = PushCount
    BY <1>1, <1>7 DEF MainUnlock, PushCount
  <2>. QED  BY <1>4, <1>7, <2>1 DEF MainUnlock, threadVars, Held
<1>8. CASE ThreadLock \/ ThreadTest \/ ThreadPrint \/ Cancelled \/ Cleanup \/ SpuriousWakeup
  BY <1>4, <1>8
  DEF ThreadLock, ThreadTest, ThreadPrint, Cancelled, Cleanup, SpuriousWakeup, mainVars,
      PushCount, Held
<1>. QED  BY <1>2, <1>3, <1>5, <1>6, <1>7, <1>8 DEF Next, Main, Thread

(* The two threads implement the handoff: pushing sends, taking the head     *)
(* receives, and every other step, a cancellation included, moves nothing.   *)
THEOREM Refinement == Spec => ImplementsHandoff
<1>1. QueueInv /\ [Next]_vars => [Promise!HandoffNext]_Promise!HandoffVars
  <2>. SUFFICES ASSUME QueueInv, [Next]_vars
                PROVE  [Promise!HandoffNext]_Promise!HandoffVars
    OBVIOUS
  <2>1. CASE UNCHANGED vars
    BY <2>1 DEF vars, Promise!HandoffVars, PushCount, Held
  <2>. QED  BY <2>1, RefineStep
<1>. QED  BY <1>1, RefineInit, QueueAlways, PTL
          DEF Spec, ImplementsHandoff, Promise!HandoffSpec

=============================================================================
