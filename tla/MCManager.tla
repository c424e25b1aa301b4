----------------------------- MODULE MCManager -----------------------------
(* Instances of Manager for TLC: two modules, as in manager.h. *)
EXTENDS Manager, TLC

\* -b, -w and -a; no option starts no module.
MCStartLists == {<<>>, <<1>>, <<1, 2>>}

\* The arguments of a command: none, one module, both, one twice.
MCArgLists == {<<1>>, <<1, 2>>, <<2, 2>>}
OneArg == {<<1>>}
OneStart == {<<1>>}

Symmetry == Permutations(Pids)
=============================================================================
