----------------------------- MODULE AutoStart -----------------------------
(***************************************************************************)
(* The autostart states of front_panel/front_panel.v (builds with AS): a   *)
(* machine reset with SW up plays a script of key operations by itself.    *)
(* An operation puts its operand in rsr and raises its control line for    *)
(* the four clocks AS2 to AS5.                                             *)
(***************************************************************************)
EXTENDS Opcodes, Sequences

CONSTANTS AS_RK8E,   \* TRUE: the script waits for the disk; FALSE: the AS_CSD build
          Script     \* AS_data, a sequence of [op |-> key, operand |-> word]

VARIABLES trig_state, asserted, rsr,   \* as in FrontPanel
          data_idx                     \* the next operation of the script

ASTypeOK == data_idx \in 1..(Len(Script) + 1)

ASInit == data_idx = 1

GoOn(s) == trig_state' = s /\ UNCHANGED <<asserted, rsr, data_idx>>

(* AS0: with AS_RK8E, SW down is the way out when the disk does not come up. *)
AtAS0(disk_rdy, sw) ==
  /\ trig_state = "AS0"
  /\ GoOn(IF ~AS_RK8E \/ disk_rdy = 1 THEN "AS1" ELSE IF sw = 0 THEN "LATCH" ELSE "AS0")

AtAS1 == /\ trig_state = "AS1"
         /\ trig_state' = "AS2"
         /\ rsr' = Script[data_idx].operand
         /\ asserted' = asserted \cup {Script[data_idx].op}
         /\ UNCHANGED data_idx

AtAS2 == trig_state = "AS2" /\ GoOn("AS3")
AtAS3 == trig_state = "AS3" /\ GoOn("AS4")
AtAS4 == trig_state = "AS4" /\ GoOn("AS5")

AtAS5 == /\ trig_state = "AS5"
         /\ trig_state' = "AS6"
         /\ asserted' = asserted \ {"addr_load", "extd_addr", "dep", "cont"}
         /\ UNCHANGED <<rsr, data_idx>>

AtAS6 == /\ trig_state = "AS6"
         /\ trig_state' = IF Script[data_idx].op = "cont" THEN "AS7" ELSE "AS1"
         /\ data_idx' = data_idx + 1
         /\ UNCHANGED <<asserted, rsr>>

AtAS7 == trig_state = "AS7" /\ GoOn("LATCH")
=============================================================================
