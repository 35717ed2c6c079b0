-------------------------------- MODULE Boot --------------------------------
(***************************************************************************)
(* Autostart at power-up: Panel with the key sequencer in its autostart    *)
(* states, up to the clock on which the script presses CONTINUE.           *)
(***************************************************************************)
EXTENDS Panel, Sequences

CONSTANTS AS_RK8E, Script

VARIABLE data_idx

AS == INSTANCE AutoStart

bootVars == <<vars, data_idx>>

Idle == UNCHANGED <<switchl, triggerd, sw_active, fp_trigger, swr, dsel>>

BootInit == /\ trig_state = "AS0" /\ AS!ASInit
            /\ switchl = {} /\ triggerd = 0 /\ asserted = {}
            /\ sw_active = 0 /\ fp_trigger = 0
            /\ rsr = 0 /\ swr = 0 /\ dsel = 0
            /\ PC!PCInit /\ SM!SMInit /\ ME!MEInit /\ MA!MAInit
            /\ key = {} /\ data_break = 0 /\ dma = NoDma /\ elapsed = 0

Play == /\ \/ \E disk_rdy \in Bit, sw \in SWs : AS!AtAS0(disk_rdy, sw)
           \/ AS!AtAS1
           \/ AS!AtAS2
           \/ AS!AtAS3
           \/ AS!AtAS4
           \/ AS!AtAS5
           \/ AS!AtAS6
           \/ AS!AtAS7
        /\ Idle

BootNext == Play /\ Timer /\ Control /\ Memory /\ Operator /\ Disk /\ History

BootSpec == BootInit /\ [][BootNext]_bootVars

(* The address and the memory after the first n operations of the script,  *)
(* had each been a key press.                                              *)
Pressed[n \in 0..Len(Script)] ==
  IF n = 0 THEN [address |-> [f |-> 0, w |-> 0], store |-> [c \in MA!Populated |-> 0]]
  ELSE LET before == Pressed[n - 1]
           a == before.address
           operand == Script[n].operand
       IN CASE Script[n].op = "addr_load" ->
                 [before EXCEPT !.address.w = operand % Size]
            [] Script[n].op = "dep" ->
                 [address |-> [a EXCEPT !.w = (@ + 1) % Size],
                  store |-> [before.store EXCEPT ![a] = operand]]
            [] OTHER -> before

(* README: "If the sw switch is asserted and then the unit is powered up,  *)
(* the boot code for OS8 is deposited into memory and executed."  When the *)
(* script presses CONTINUE its words must be in memory.                    *)
BootCodeDeposited == "cont" \in asserted => memory = Pressed[Len(Script)].store
=============================================================================
