----------------------------- MODULE PanelClock -----------------------------
(***************************************************************************)
(* FPGA_image/HX_clock.v: the 1 kHz clock, the start-up delay of the SD    *)
(* card and the debounce time of the panel's keys.  The dividers sent to   *)
(* the serial port and the SPI interface are constants and left out.       *)
(***************************************************************************)
EXTENDS Opcodes

CONSTANTS oneK_cnt,   \* half a period of the 1 kHz clock is oneK_cnt + 1 clocks
          sw_dbnc,    \* the debounce time (timing.v)
          sd_delay    \* the start-up delay (timing.v)

VARIABLES oneK_cntr, oneKHz,
          fp_cntr, fp_cont,    \* the debounce timer and its end
          sd_cntr, sd_reset    \* the start-up timer and the reset it holds

VARIABLE fp_trigger   \* driven by front_panel.v

pcVars == <<oneK_cntr, oneKHz, fp_cntr, fp_cont, sd_cntr, sd_reset>>

Counter == 0..(2 * 512 - 1)

PCTypeOK == /\ oneK_cntr \in 0..oneK_cnt /\ oneKHz \in Bit
            /\ fp_cntr \in Counter /\ fp_cont \in Bit
            /\ sd_cntr \in Counter /\ sd_reset \in Bit

PCInit == /\ oneK_cntr = 0 /\ oneKHz = 0
          /\ fp_cntr = 0 /\ fp_cont = 0
          /\ sd_cntr = 0 /\ sd_reset = 1

StartUp == /\ sd_cntr' = IF sd_reset = 1 THEN sd_cntr + 1 ELSE sd_cntr
           /\ sd_reset' = IF sd_cntr = sd_delay THEN 0 ELSE sd_reset

(* Faulty: the timer stops when it has reached the debounce time.          *)
DebounceOnce ==
  IF fp_trigger = 1 /\ fp_cntr <= sw_dbnc
  THEN fp_cntr' = fp_cntr + 1 /\ fp_cont' = (IF fp_cntr = sw_dbnc THEN 1 ELSE 0)
  ELSE fp_cont' = 0 /\ UNCHANGED fp_cntr

(* Faulty: the timer does not start from zero.                             *)
DebounceShort ==
  IF fp_trigger = 1 \/ fp_cntr # 0
  THEN /\ fp_cntr' = IF fp_cont = 1 THEN sw_dbnc ELSE fp_cntr + 1
       /\ fp_cont' = IF fp_cont = 0 /\ fp_cntr = sw_dbnc THEN 1 ELSE 0
  ELSE UNCHANGED <<fp_cntr, fp_cont>>

(* fp_cont is up for one period of the 1 kHz clock, whatever the panel     *)
(* does meanwhile.                                                         *)
Debounce ==
  IF fp_trigger = 1 \/ fp_cntr # 0
  THEN /\ fp_cntr' = IF fp_cont = 1 THEN 0 ELSE fp_cntr + 1
       /\ fp_cont' = IF fp_cont = 0 /\ fp_cntr = sw_dbnc THEN 1 ELSE 0
  ELSE UNCHANGED <<fp_cntr, fp_cont>>

Divide == /\ oneK_cntr # 0
          /\ oneK_cntr' = oneK_cntr - 1
          /\ UNCHANGED <<oneKHz, fp_cntr, fp_cont, sd_cntr, sd_reset>>

(* oneKHz is assigned with =, so the test that follows sees the new value. *)
Fall == /\ oneK_cntr = 0 /\ oneKHz = 1
        /\ oneK_cntr' = oneK_cnt /\ oneKHz' = 0
        /\ UNCHANGED <<fp_cntr, fp_cont, sd_cntr, sd_reset>>

Rise == /\ oneK_cntr = 0 /\ oneKHz = 0
        /\ oneK_cntr' = oneK_cnt /\ oneKHz' = 1
        /\ StartUp
        /\ Debounce

ClockEdge == Divide \/ Fall \/ Rise
=============================================================================
