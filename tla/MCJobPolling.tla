---------------------------- MODULE MCJobPolling ----------------------------
(***************************************************************************)
(* JobPolling for TLC.                                                     *)
(***************************************************************************)
EXTENDS JobPolling

CONSTANTS j1, j2, s1, s2

OneJob    == {j1}
TwoJobs   == {j1, j2}
TwoSlots  == {s1, s2}
Both      == {TRUE, FALSE}
NotPrompt == {FALSE}
============================================================================
