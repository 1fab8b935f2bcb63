------------------------------- MODULE MCShell -------------------------------
(* Instances of Shell for TLC: a program that reads its input to the end, a *)
(* program that does not, a builtin and a word that names nothing.          *)
EXTENDS Shell

CONSTANTS cat, ls, set, nosuch, data

PipelineCommands == {cat, set}
LiveCommands == {cat, ls, set}
RedirectCommands == {cat, nosuch}
RedirectFiles == {data, nosuch}
MCBuiltins == {set}
MCMissing == {nosuch}
MCReaders == {cat}

(* Processes and pipes are interchangeable; used where no liveness is checked. *)
Symmetry == Permutations(Procs) \cup Permutations(Pipes)

=============================================================================
