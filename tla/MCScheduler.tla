---------------------------- MODULE MCScheduler ----------------------------
(* Scheduler with three events: enough for one to expire while another is  *)
(* stopped and a third is armed.                                           *)
EXTENDS Scheduler

CONSTANTS walk, spawn, think

MCEvents == {walk, spawn, think}
MCTwoEvents == {walk, spawn}
=============================================================================
