---------------------------- MODULE MCHookLaunch ----------------------------
(* One process with two threads.                                           *)
EXTENDS HookLaunch

CONSTANTS t1, t2

TwoThreads == {t1, t2}
=============================================================================
