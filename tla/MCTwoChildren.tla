--------------------------- MODULE MCTwoChildren ---------------------------
(* A thread that crashes, opencore-bg with a requested dump, and a thread  *)
(* of the application.                                                     *)
EXTENDS TwoChildren

CONSTANTS crash, bg, app

MCTid    == {crash, bg, app}
MCDumper == {crash, bg}
===========================================================================
