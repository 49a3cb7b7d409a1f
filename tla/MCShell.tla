------------------------------ MODULE MCShell ------------------------------
(***************************************************************************)
(* All keys, and what some short lines mean.                               *)
(***************************************************************************)
EXTENDS Shell

MCKeys == AllKeys

Cd(absolute, parts) == [name |-> "cd", absolute |-> absolute, parts |-> parts]

(* The lines of one or two characters: changes of directory with every kind *)
(* of part, a program, the end.                                             *)
MCMeaning ==
    (<<"a">> :> Cd(FALSE, <<"..", "d", ".", "e">>)) @@ (<<"a", "a">> :> [name |-> "exec"])
    @@ (<<"w">> :> Cd(FALSE, <<"..", "..", "..", "d">>))
    @@ (<<"a", "w">> :> Cd(TRUE, <<"e">>)) @@ (<<"w", "a">> :> [name |-> "exit"])
=============================================================================
