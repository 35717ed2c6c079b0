------------------------------ MODULE MCPanel ------------------------------
(***************************************************************************)
(* Model values for Panel: one field of two words; the second switch        *)
(* setting is the second word, a field without memory and another value.    *)
(***************************************************************************)
EXTENDS Panel

StoreKeys == {"extd_addr", "addr_load", "dep", "exam"}
OtherKeys == {"dep", "clear", "dsel_sw"}
DepositKeys == {"dep", "exam"}

TwoSettings == {0, \o11}
OneSetting == {\o11}
OneCell == {[f |-> 0, w |-> 1]}
NoCells == {}
=============================================================================
