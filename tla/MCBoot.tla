------------------------------- MODULE MCBoot -------------------------------
(* Model values for Boot: a script of the shape of AS_data. *)
EXTENDS Boot

ShortScript == << [op |-> "addr_load", operand |-> 1],
                  [op |-> "dep", operand |-> \o11],
                  [op |-> "addr_load", operand |-> 1],
                  [op |-> "cont", operand |-> 0] >>
TwoSettings == {0, \o11}
NoCells == {}
=============================================================================
