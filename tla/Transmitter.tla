---------------------------- MODULE Transmitter ----------------------------
(***************************************************************************)
(* The console's transmitter (serial/tx.v with the IOTs of serial_top.v),  *)
(* a character at a time: SENDING stands for START and BIT0 to BIT7, STOP  *)
(* for both stop bits.  No key is pressed, so flag is the printer's.       *)
(***************************************************************************)
EXTENDS Integers, Sequences

VARIABLES tx,      \* state, loaded, flag, tto, and the skip it answered
          dropped, \* some character was loaded in vain
          tty      \* the characters on the line and not yet read

TXIdle == [state |-> "IDLE", loaded |-> 0, flag |-> 0, tto |-> 32, skip |-> 0]

Accepts == tx.state \in {"IDLE", "STOP"} /\ tx.loaded = 0

(* TLS clears the flag and loads the character; while one is being sent,   *)
(* or waits to be, the load is ignored.                                    *)
SerialIOT(iot, char) ==
  /\ tx' = CASE iot = "TLS" /\ Accepts -> [tx EXCEPT !.tto = char, !.flag = 0, !.loaded = 1,
                                                     !.skip = 0]
             [] iot = "TLS" /\ ~Accepts -> [tx EXCEPT !.flag = 0, !.skip = 0]
             [] iot = "TSF" -> [tx EXCEPT !.skip = tx.flag]
             [] iot = "CAF" -> [tx EXCEPT !.flag = 0, !.skip = 0]
             [] OTHER -> [tx EXCEPT !.skip = 0]
  /\ dropped' = (dropped \/ (iot = "TLS" /\ ~Accepts))
  /\ UNCHANGED tty

(* Faulty: the flag rises when the buffer has been taken over.             *)
StartReady ==
  /\ tx.state = "IDLE" /\ tx.loaded = 1
  /\ tx' = [tx EXCEPT !.state = "SENDING", !.flag = 1, !.loaded = 0]
  /\ UNCHANGED <<dropped, tty>>

Start ==
  /\ tx.state = "IDLE" /\ tx.loaded = 1
  /\ tx' = [tx EXCEPT !.state = "SENDING", !.flag = 0, !.loaded = 0]
  /\ UNCHANGED <<dropped, tty>>

(* The end of BIT7: the flag rises, and the character has arrived.         *)
Send ==
  /\ tx.state = "SENDING"
  /\ tx' = [tx EXCEPT !.state = "STOP", !.flag = 1]
  /\ tty' = Append(tty, tx.tto)
  /\ UNCHANGED dropped

Stop ==
  /\ tx.state = "STOP"
  /\ tx' = [tx EXCEPT !.state = "IDLE"]
  /\ UNCHANGED <<dropped, tty>>
=============================================================================
