--------------------------- MODULE DiskController ---------------------------
(***************************************************************************)
(* The RK8E controller (RK8E/rk8e.sv): what it does on every clock, and    *)
(* the IOTs 674x and CAF, which it obeys in F1 on top of that.  The status *)
(* register is the set of its bits that are ever set.                      *)
(***************************************************************************)
EXTENDS SDInterface

StatusBit == {"done", "write_lock", "drive", "cylinder"}

RKIdle == [sdstate |-> "READY", last |-> "READY",
           dmaAddr |-> 0, data_break |-> 0, to_disk |-> 0, dmaGNT |-> 0,
           status |-> {}, disk_flag |-> 0,
           car |-> 0, dar |-> 0, cmd_reg |-> 0, sdOP |-> "NOP",
           write_lock |-> {}, skip |-> 0, disk_bus |-> {}]

(* Faulty: a failure is busy, and no more.                                 *)
ClockedStatusQuiet ==
  CASE rk.sdstate = "READY" /\ rk.last = "DONE"             -> rk.status \cup {"done"}
    [] rk.sdstate = "DONE" /\ rk.last \in {"READ", "WRITE"} -> rk.status \cup {"done"}
    [] rk.sdstate \in {"READ", "WRITE", "RWFAIL"}           -> rk.status \ {"done"}
    [] OTHER -> rk.status

(* The status follows the SD interface; a failure is reported again on     *)
(* every clock.                                                            *)
ClockedStatus ==
  CASE rk.sdstate = "READY" /\ rk.last = "DONE"             -> rk.status \cup {"done"}
    [] rk.sdstate = "DONE" /\ rk.last \in {"READ", "WRITE"} -> rk.status \cup {"done"}
    [] rk.sdstate \in {"READ", "WRITE"}                     -> rk.status \ {"done"}
    [] rk.sdstate = "RWFAIL" -> (rk.status \ {"done"}) \cup {"drive"}
    [] OTHER                 -> rk.status

(* DB1 withdraws the request, even one that is just being made.            *)
BreakRequest(state) ==
  IF state = "DB1" THEN 0
  ELSE IF 1 \in {sd.dmaWR, sd.dmaRD} THEN 1 ELSE rk.data_break

Clocked(state) ==
  [rk EXCEPT
     !.sdstate = sd.sdSTAT, !.last = rk.sdstate,
     !.dmaAddr = IF 1 \in {sd.dmaWR, sd.dmaRD} THEN sd.dmaADDR ELSE @,
     !.data_break = BreakRequest(state),
     !.disk_flag = IF rk.status # {} THEN 1 ELSE 0,
     !.dmaGNT = sd.dmaREQ,
     !.status = ClockedStatus,
     !.car = IF rk.sdstate = "READY" /\ rk.last = "DONE" THEN sd.dmaADDR % 4096 ELSE @,
     !.sdOP = IF rk.sdstate \in {"READ", "WRITE"} /\ rk.last = "READY" THEN "NOP" ELSE @]

-----------------------------------------------------------------------------
Bit4(ac) == (ac \div 128) % 2
Drive == (rk.cmd_reg \div 2) % 4

(* DLAG: the cylinder is cmd_reg[11] and ac[0:6]; there are 203.           *)
Cylinder(ac) == (rk.cmd_reg % 2) * 128 + (ac \div 32)

LoadAndGo(r, ac) ==
  LET go == [r EXCEPT !.dar = ac]
      function == rk.cmd_reg \div 512
  IN CASE Cylinder(ac) > 202 -> [go EXCEPT !.status = @ \cup {"cylinder"}]
       [] Cylinder(ac) <= 202 /\ function \in {0, 1}
            -> [go EXCEPT !.to_disk = 0, !.sdOP = "RD"]
       [] Cylinder(ac) <= 202 /\ function = 2
            -> [go EXCEPT !.write_lock = @ \cup {Drive}]
       [] Cylinder(ac) <= 202 /\ function = 3 /\ Bit4(rk.cmd_reg) = 1
            -> [go EXCEPT !.status = @ \cup {"done"}]
       [] Cylinder(ac) <= 202 /\ function \in {4, 5} /\ Drive \in rk.write_lock
            -> [go EXCEPT !.status = @ \cup {"write_lock"}]
       [] Cylinder(ac) <= 202 /\ function \in {4, 5} /\ Drive \notin rk.write_lock
            -> [go EXCEPT !.sdOP = "WR", !.to_disk = 1]
       [] OTHER -> go

IOT(iot, ac, r) ==
  CASE iot = "DSKP" -> [r EXCEPT !.skip = rk.disk_flag]
    [] iot = "DCLR" -> [r EXCEPT !.status = {"done"},
                                 !.sdOP = IF ac % 4 = 1 THEN "ABORT" ELSE @]
    [] iot = "DLAG" -> LoadAndGo(r, ac)
    [] iot = "DLCA" -> [r EXCEPT !.car = ac]
    [] iot = "DRST" -> [r EXCEPT !.disk_bus = rk.status]
    [] iot = "DLDC" -> [r EXCEPT !.cmd_reg = ac,
                                 !.status = IF Bit4(ac) = 1 THEN {"done"} ELSE {}]
    [] iot = "CAF"  -> [r EXCEPT !.status = {}, !.car = 0, !.dar = 0, !.cmd_reg = 0,
                                 !.sdOP = "NOP", !.to_disk = 0, !.write_lock = {}]
    [] OTHER -> r

RKEdge(state, iot, ac) ==
  rk' = IF state = "F1" THEN IOT(iot, ac, [Clocked(state) EXCEPT !.skip = 0])
        ELSE Clocked(state)
=============================================================================
