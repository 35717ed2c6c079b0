----------------------------- MODULE FrontPanel -----------------------------
(***************************************************************************)
(* front_panel/front_panel.v: the keys.  A key seen in LATCH becomes, two  *)
(* clocks later, a pulse of four clocks on its control line and on         *)
(* triggerd; the panel then waits in DELAY for the debounce time that      *)
(* HX_clock.v measures between fp_trigger and fp_cont.  The seven latches  *)
(* of switchl and the seven control lines are sets of keys.                *)
(***************************************************************************)
EXTENDS Opcodes

VARIABLES trig_state,   \* the state of the key sequencer
          switchl,      \* the keys latched
          triggerd,     \* 1 while control lines are up
          asserted,     \* the keys whose control lines (cleard, depd, ...) are up
          sw_active,    \* 1 while the panel shows that a key was seen
          fp_trigger,   \* starts the debounce timer
          rsr, swr,     \* the switch register and SW as of the last LATCH
          dsel          \* the register displayed

fpVars == <<trig_state, switchl, triggerd, asserted, sw_active, fp_trigger, rsr, swr, dsel>>

Keys == {"clear", "extd_addr", "addr_load", "dep", "exam", "cont", "dsel_sw"}

TrigStates == {"LATCH", "WAIT", "TRIG1", "TRIG2", "TRIG3", "DELAY", "REENABLE"}

FPTypeOK == /\ trig_state \in TrigStates
            /\ switchl \subseteq Keys
            /\ triggerd \in Bit
            /\ asserted \subseteq Keys
            /\ sw_active \in Bit /\ fp_trigger \in Bit
            /\ rsr \in Word /\ swr \in Bit
            /\ dsel \in 0..5

FPInit == /\ trig_state = "LATCH"
          /\ switchl = {} /\ triggerd = 0 /\ asserted = {}
          /\ sw_active = 0 /\ fp_trigger = 0
          /\ rsr = 0 /\ swr = 0 /\ dsel = 0

(* LATCH follows the switches; the keys seen on one clock take it to WAIT  *)
(* on the next.                                                            *)
AtLATCH(keys, sr, sw) ==
  /\ trig_state = "LATCH"
  /\ rsr' = sr /\ swr' = sw
  /\ switchl' = switchl \cup keys
  /\ trig_state' = IF switchl = {} THEN "LATCH" ELSE "WAIT"
  /\ UNCHANGED <<triggerd, asserted, sw_active, fp_trigger, dsel>>

AtWAIT == /\ trig_state = "WAIT"
          /\ trig_state' = "TRIG1"
          /\ triggerd' = 1 /\ asserted' = switchl
          /\ switchl' = {}
          /\ UNCHANGED <<sw_active, fp_trigger, rsr, swr, dsel>>

AtTRIG1 == /\ trig_state = "TRIG1"
           /\ trig_state' = "TRIG2"
           /\ UNCHANGED <<switchl, triggerd, asserted, sw_active, fp_trigger, rsr, swr, dsel>>

AtTRIG2 == /\ trig_state = "TRIG2"
           /\ trig_state' = "TRIG3"
           /\ fp_trigger' = 1
           /\ dsel' = IF "dsel_sw" \in asserted THEN (dsel + 1) % 6 ELSE dsel
           /\ UNCHANGED <<switchl, triggerd, asserted, sw_active, rsr, swr>>

AtTRIG3 == /\ trig_state = "TRIG3"
           /\ trig_state' = "DELAY"
           /\ sw_active' = 1
           /\ UNCHANGED <<switchl, triggerd, asserted, fp_trigger, rsr, swr, dsel>>

(* Faulty: the control lines stay up until the debounce time is over.      *)
AtDELAYLong(fp_cont) ==
  /\ trig_state = "DELAY"
  /\ IF fp_cont = 1
     THEN trig_state' = "REENABLE" /\ fp_trigger' = 0 /\ sw_active' = 0
          /\ triggerd' = 0 /\ asserted' = {}
     ELSE UNCHANGED <<trig_state, fp_trigger, sw_active, triggerd, asserted>>
  /\ UNCHANGED <<switchl, rsr, swr, dsel>>

(* The control lines drop on the first clock of DELAY. *)
AtDELAY(fp_cont) ==
  /\ trig_state = "DELAY"
  /\ IF fp_cont = 1
     THEN trig_state' = "REENABLE" /\ fp_trigger' = 0 /\ sw_active' = 0
     ELSE UNCHANGED <<trig_state, fp_trigger, sw_active>>
  /\ triggerd' = 0 /\ asserted' = {}
  /\ UNCHANGED <<switchl, rsr, swr, dsel>>

AtREENABLE == /\ trig_state = "REENABLE"
              /\ trig_state' = "LATCH"
              /\ fp_trigger' = 0
              /\ UNCHANGED <<switchl, triggerd, asserted, sw_active, rsr, swr, dsel>>
=============================================================================
