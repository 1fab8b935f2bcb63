------------------------------ MODULE JobControl ------------------------------
(* What communication/shell.c promises the user of a terminal: a line starts  *)
(* at most one job, the prompt comes back when that job has ended or was put  *)
(* in the background, and the status of a background job is only told while   *)
(* the shell waits for one in the foreground.                                 *)

CONSTANT Jobs

VARIABLES phase,   \* "prompt", "launch", "busy" or "over"
          fg, bg   \* the jobs not yet reaped: of this line, in the background

jobVars == <<phase, fg, bg>>

JobInit == phase = "prompt" /\ fg = {} /\ bg = {}

AcceptLine == phase = "prompt" /\ fg = {} /\ phase' = "launch" /\ UNCHANGED <<fg, bg>>

Launch == phase = "launch" /\ phase' = "busy"

Foreground(j) == Launch /\ j \notin bg /\ fg' = {j} /\ UNCHANGED bg

Background(j) == Launch /\ j \notin bg /\ bg' = bg \cup {j} /\ UNCHANGED fg

NoJobStarted == Launch /\ UNCHANGED <<fg, bg>>

(* The loop of wait_and_display() *)
Reap(j) ==
    /\ phase = "busy" /\ fg # {} /\ j \in fg \cup bg
    /\ fg' = fg \ {j} /\ bg' = bg \ {j}
    /\ UNCHANGED phase

Prompt == phase = "busy" /\ fg = {} /\ phase' = "prompt" /\ UNCHANGED <<fg, bg>>

Leave == phase # "over" /\ fg = {} /\ phase' = "over" /\ UNCHANGED <<fg, bg>>

JobNext ==
    \/ AcceptLine \/ NoJobStarted \/ Prompt \/ Leave
    \/ \E j \in Jobs : Foreground(j) \/ Background(j) \/ Reap(j)

JobSpec == JobInit /\ [][JobNext]_jobVars

=============================================================================
