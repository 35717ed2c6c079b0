----------------------------- MODULE MCControl -----------------------------
(***************************************************************************)
(* Model values for Control.  The programs draw on one word of every class *)
(* the control unit tells apart; fields 0 and 1 stand for the eight.       *)
(***************************************************************************)
EXTENDS Control

(* ION, RTF, CIF 1, SUF, RMF; direct and indirect jumps and subroutine     *)
(* calls; DCA and DCA I; HLT; an extended EAE operation.                   *)
SomeWords == {\o6001, \o6005, \o6212, \o6274, \o6244,
              \o5000, \o5400, \o4000, \o4400, \o3000, \o3400, \o7402, \o7413}

AllWords == SomeWords \cup
            {\o6000, \o6002, \o6003, \o6004, \o6006, \o6007, \o6204, \o6211, \o6213,
             \o6254, \o6264, \o7000, \o7404, \o7405, \o7441, \o7443, \o7453}

(* The EAE build's run, with liveness, has fewer: the executive IOTs that  *)
(* reach user mode with interrupts on, and words of every EAE path.        *)
EAEWords == {\o6001, \o6002, \o6005, \o6212, \o6274, \o5000, \o5400, \o4000,
             \o3400, \o7402, \o7404, \o7405, \o7413, \o7443, \o7453}

SomeACs == {0, \o111}
SomeSRs == {\o10}
=============================================================================
