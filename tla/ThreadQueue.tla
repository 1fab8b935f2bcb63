----------------------------- MODULE ThreadQueue -----------------------------
(****************************************************************************)
(* process/mut.c: main() pushes numbered nodes on a list under a mutex and   *)
(* signals a condition; thread_func() pops and frees them; at the end main() *)
(* cancels and joins the thread.                                             *)
(*                                                                           *)
(* The mutex and the condition are the C library's: cond_wait() may return   *)
(* without a signal, a signal nobody waits for is lost, and a cancellation   *)
(* acts only at a cancellation point: in pthread_cond_wait(), which takes    *)
(* the mutex again before the cleanup handler runs, and, as the standard     *)
(* allows, in printf().  malloc() and pthread_create() are taken to succeed. *)
(****************************************************************************)
EXTENDS Integers, SequencesExt

CONSTANTS Items,     \* the nodes main() makes, numbered 0 .. Items - 1
          NoNode     \* NULL

ASSUME ItemsAssumption == Items \in Nat /\ NoNode \notin Nat

VARIABLES
    queue,    \* the list from head on
    lock,     \* who holds mtx
    mpc, i,   \* main(): where it is, and its loop counter
    tpc, p,   \* thread_func(): where it is, and its node
    pending,  \* pthread_cancel() was called
    freed     \* the nodes given to free()

mainVars   == <<mpc, i>>
threadVars == <<tpc, p, freed>>
vars == <<queue, lock, mpc, i, tpc, p, pending, freed>>

Node == 0 .. Items - 1

Init ==
    /\ queue = <<>> /\ lock = "none"
    /\ mpc = (IF Items = 0 THEN "cancel" ELSE "lock") /\ i = 0
    /\ tpc = "lock" /\ p = NoNode
    /\ pending = FALSE /\ freed = {}

-----------------------------------------------------------------------------
(* main() *)

(* Mutant: main() pushes without the mutex. *)
MainLock_None ==
    /\ mpc = "lock"
    /\ mpc' = "push"
    /\ UNCHANGED <<queue, lock, i, pending, threadVars>>

MainLock ==
    /\ mpc = "lock" /\ lock = "none"
    /\ lock' = "main"
    /\ mpc' = "push"
    /\ UNCHANGED <<queue, i, pending, threadVars>>

(* Mutant: the new node goes in the list without the others. *)
MainPush_LosesRest ==
    /\ mpc = "push"
    /\ queue' = <<i>>
    /\ mpc' = "signal"
    /\ UNCHANGED <<lock, i, pending, threadVars>>

MainPush ==
    /\ mpc = "push"
    /\ queue' = <<i>> \o queue
    /\ mpc' = "signal"
    /\ UNCHANGED <<lock, i, pending, threadVars>>

(* Mutant: the signal is forgotten. *)
MainSignal_None ==
    /\ mpc = "signal"
    /\ mpc' = "unlock"
    /\ UNCHANGED <<queue, lock, i, pending, threadVars>>

MainSignal ==
    /\ mpc = "signal"
    /\ tpc' = IF tpc = "wait" THEN "woken" ELSE tpc
    /\ mpc' = "unlock"
    /\ UNCHANGED <<queue, lock, i, p, pending, freed>>

(* Mutant: "i <= Items" in the loop. *)
MainUnlock_OneMore ==
    /\ mpc = "unlock"
    /\ lock' = "none"
    /\ i' = i + 1
    /\ mpc' = IF i + 1 <= Items THEN "lock" ELSE "cancel"
    /\ UNCHANGED <<queue, pending, threadVars>>

(* pthread_mutex_unlock(), sleep(), and the head of the loop *)
MainUnlock ==
    /\ mpc = "unlock"
    /\ lock' = "none"
    /\ i' = i + 1
    /\ mpc' = IF i + 1 < Items THEN "lock" ELSE "cancel"
    /\ UNCHANGED <<queue, pending, threadVars>>

MainCancel ==
    /\ mpc = "cancel"
    /\ pending' = TRUE
    /\ mpc' = "join"
    /\ UNCHANGED <<queue, lock, i, threadVars>>

MainJoin ==
    /\ mpc = "join" /\ tpc = "ended"
    /\ mpc' = "done"
    /\ UNCHANGED <<queue, lock, i, pending, threadVars>>

Main == MainLock \/ MainPush \/ MainSignal \/ MainUnlock \/ MainCancel \/ MainJoin

-----------------------------------------------------------------------------
(* thread_func() *)

(* Mutant: "if" instead of "while": after a wake-up the list is not looked at. *)
ThreadLock_NoRetest ==
    /\ tpc \in {"lock", "woken"} /\ lock = "none"
    /\ lock' = "thread"
    /\ tpc' = IF tpc = "woken" THEN "take" ELSE "test"
    /\ UNCHANGED <<queue, mainVars, p, pending, freed>>

(* pthread_mutex_lock(), and the return of pthread_cond_wait() *)
ThreadLock ==
    /\ tpc \in {"lock", "woken"} /\ lock = "none"
    /\ lock' = "thread"
    /\ tpc' = "test"
    /\ UNCHANGED <<queue, mainVars, p, pending, freed>>

(* "while (head == NULL) pthread_cond_wait(&cond, &mtx);" *)
ThreadTest ==
    /\ tpc = "test"
    /\ \/ queue = <<>> /\ ~pending /\ tpc' = "wait" /\ lock' = "none"
       \/ queue # <<>> /\ tpc' = "take" /\ UNCHANGED lock
    /\ UNCHANGED <<queue, mainVars, p, pending, freed>>

SpuriousWakeup ==
    /\ tpc = "wait"
    /\ tpc' = "woken"
    /\ UNCHANGED <<queue, lock, mainVars, p, pending, freed>>

(* "p = head; head = head->n_next;": a NULL head is a crash. *)
ThreadTake ==
    /\ tpc = "take"
    /\ IF queue = <<>> THEN tpc' = "crashed" /\ UNCHANGED <<queue, p>>
                       ELSE tpc' = "print" /\ p' = Head(queue) /\ queue' = Tail(queue)
    /\ UNCHANGED <<lock, mainVars, pending, freed>>

ThreadPrint ==
    /\ tpc = "print"
    /\ tpc' = "free"
    /\ UNCHANGED <<queue, lock, mainVars, p, pending, freed>>

(* Mutant: the mutex is not unlocked. *)
ThreadFree_KeepsLock ==
    /\ tpc = "free"
    /\ freed' = freed \cup {p}
    /\ tpc' = "lock"
    /\ UNCHANGED <<queue, lock, mainVars, p, pending>>

(* free(p) and pthread_mutex_unlock(); p keeps pointing at what was freed. *)
ThreadFree ==
    /\ tpc = "free"
    /\ freed' = freed \cup {p}
    /\ lock' = "none"
    /\ tpc' = "lock"
    /\ UNCHANGED <<queue, mainVars, p, pending>>

(* A pending cancellation acts when pthread_cond_wait() is called or while   *)
(* it waits, also after a signal when the thread has not run yet (the mutex  *)
(* is taken again before the handler), or in printf().                       *)
Cancelled ==
    /\ pending
    /\ \/ tpc = "print"
       \/ tpc = "test" /\ queue = <<>>
       \/ tpc \in {"wait", "woken"} /\ lock = "none"
    /\ lock' = "thread"
    /\ tpc' = "cleanup"
    /\ UNCHANGED <<queue, mainVars, p, pending, freed>>

(* cleanup_handler(arg): arg is the value p had before it was ever set.      *)
(* free() of it does nothing (NULL) or ends the process.                     *)
Cleanup ==
    /\ tpc = "cleanup"
    /\ \/ tpc' = "ended" /\ lock' = "none"
       \/ tpc' = "crashed" /\ UNCHANGED lock
    /\ UNCHANGED <<queue, mainVars, p, pending, freed>>

Thread == ThreadLock \/ ThreadTest \/ ThreadTake \/ ThreadPrint \/ ThreadFree
          \/ Cancelled \/ Cleanup

-----------------------------------------------------------------------------
Next == tpc # "crashed" /\ (Main \/ Thread \/ SpuriousWakeup)

Spec == Init /\ [][Next]_vars

(* Both threads are scheduled, and a mutex that is released again and again *)
(* is not kept from main() for ever.                                        *)
Fairness == /\ WF_vars(tpc # "crashed" /\ Main)
            /\ WF_vars(tpc # "crashed" /\ Thread)
            /\ SF_vars(tpc # "crashed" /\ MainLock)
FairSpec == Spec /\ Fairness

-----------------------------------------------------------------------------
(* Properties *)

PushCount == IF mpc \in {"signal", "unlock"} THEN i + 1 ELSE i
Pushed == 0 .. PushCount - 1
Held == IF p = NoNode \/ p \in freed THEN {} ELSE {p}

TypeOK ==
    /\ queue \in Seq(Node)
    /\ lock \in {"none", "main", "thread"}
    /\ mpc \in {"lock", "push", "signal", "unlock", "cancel", "join", "done"}
    /\ i \in 0 .. Items
    /\ mpc \in {"lock", "push", "signal", "unlock"} => i < Items
    /\ mpc \in {"cancel", "join", "done"} => i = Items
    /\ tpc \in {"lock", "test", "wait", "woken", "take", "print", "free", "cleanup",
                "ended", "crashed"}
    /\ p \in Node \cup {NoNode}
    /\ pending \in BOOLEAN
    /\ freed \in SUBSET Node

(* Whoever is between lock and unlock holds the mutex, also in the cleanup  *)
(* handler, so main() and the thread never touch the list together.         *)
MutualExclusion ==
    /\ mpc \in {"push", "signal", "unlock"} => lock = "main"
    /\ tpc \in {"test", "take", "print", "free", "cleanup"} => lock = "thread"

(* "while (head == NULL) pthread_cond_wait()": however the thread was woken, *)
(* it dereferences head only when the list has a node.                       *)
NoNullTake == tpc = "take" => queue # <<>>

(* Every node main() pushed is in one place: on the list once, or in the    *)
(* hand of the thread, or freed; a node that is printed is not freed yet.   *)
Conservation ==
    /\ Range(queue) \cup Held \cup freed = Pushed
    /\ Range(queue) \cap (Held \cup freed) = {}
    /\ \A a, b \in 1 .. Len(queue) : queue[a] = queue[b] => a = b
    /\ tpc \in {"print", "free"} => Held # {}

(* The two threads implement Handoff: a push sends, taking the head         *)
(* receives, and nothing else, a cancellation included, moves a node.       *)
Promise == INSTANCE Handoff WITH sent <- PushCount,
                                 offered <- Range(queue),
                                 received <- Held \cup freed
ImplementsHandoff == Promise!HandoffSpec

(* No wake-up is lost: the thread waits beside a node only until main(),     *)
(* still holding the mutex, signals it.                                      *)
NoLostWakeup == tpc = "wait" /\ queue # <<>> => mpc = "signal"

(* pthread_cancel() reaches the thread wherever it is and pthread_join()    *)
(* returns, unless free() of the unset arg ended the process.               *)
JoinReturns == <>(mpc = "done" \/ tpc = "crashed")

=============================================================================
