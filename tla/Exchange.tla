------------------------------- MODULE Exchange -------------------------------
(* What the interface of ad_comm/smi.h promises over all its FIFOs: the       *)
(* questions are taken in turn, and each is answered once, to whoever has the *)
(* pid it came under, or never.                                               *)
EXTENDS Sequences

CONSTANTS Pids, Question, Asker(_)     \* Asker(m): the pid in a question

VARIABLES asked,      \* the questions not yet answered
          answered    \* the answers each pid has been given, until it ends

exchangeVars == <<asked, answered>>

ExchangeInit == asked = <<>> /\ answered = [p \in Pids |-> <<>>]

Ask(m) == asked' = Append(asked, m) /\ UNCHANGED answered

Taken == asked # <<>> /\ asked' = Tail(asked)

Answer == Taken /\ answered' = [answered EXCEPT ![Asker(Head(asked))] = Append(@, Head(asked))]

Drop == Taken /\ UNCHANGED answered

Leave(p) == answered' = [answered EXCEPT ![p] = <<>>] /\ UNCHANGED asked

ExchangeNext ==
    \/ \E m \in Question : Ask(m)
    \/ Answer \/ Drop
    \/ \E p \in Pids : Leave(p)

ExchangeSpec == ExchangeInit /\ [][ExchangeNext]_exchangeVars

=============================================================================
