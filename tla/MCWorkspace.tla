------------------------------ MODULE MCWorkspace ------------------------------
(* Small instances of Workspace for TLC.                                      *)
EXTENDS Workspace

CONSTANTS c1, c2, c3, founder, partner, fe, pe, ge

Addresses == [i \in {founder, partner} |-> IF i = founder THEN fe ELSE pe]
================================================================================
