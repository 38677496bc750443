------------------------------ MODULE Threads ------------------------------
(***************************************************************************)
(* The threads of the server that take the locks, and what a variable that *)
(* holds a thread holds when there is none.                                *)
(***************************************************************************)
CONSTANTS Thread, NoThread

ASSUME NoThreadAssumption == NoThread \notin Thread

=============================================================================
