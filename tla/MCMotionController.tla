-------------------------- MODULE MCMotionController --------------------------
(***************************************************************************)
(* One decision that lets the robot move, one that would but is invalid,   *)
(* and one that halts it.                                                  *)
(***************************************************************************)
EXTENDS MotionController

MCDecisions == {<<"SLOW_DOWN", TRUE>>, <<"PROCEED", FALSE>>, <<"REROUTE", TRUE>>}
=============================================================================
