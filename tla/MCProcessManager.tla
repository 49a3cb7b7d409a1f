-------------------------- MODULE MCProcessManager --------------------------
(***************************************************************************)
(* Small instances of ProcessManager for TLC.                              *)
(***************************************************************************)
EXTENDS ProcessFamilies

(* Programs that kill each other in any state a process can be in, and      *)
(* programs that kill only Ready ones.                                      *)
AnyStatus == {"Ready", "Blocked", "Dead"}
OnlyReady == {"Ready"}

(* What the user library passes to sys_kill, and what a program may put in  *)
(* the register itself: 65537 is cut to 1.                                  *)
LibraryArgs  == 0..4
RegisterArgs == LibraryArgs \cup {65537}
=============================================================================
