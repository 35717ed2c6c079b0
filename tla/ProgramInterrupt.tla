-------------------------- MODULE ProgramInterrupt --------------------------
(***************************************************************************)
(* What the programmer of the PDP-8/e is promised about interrupts, fields *)
(* and user mode, at the grain of whole instructions: an instruction       *)
(* begins, has its effect once, and only between two instructions, with    *)
(* interrupts on and not inhibited, may an interrupt save the context and  *)
(* clear it.  Major states, keys and data breaks do not exist here.        *)
(***************************************************************************)
EXTENDS Opcodes

CONSTANT Program   \* the words that may be executed

VARIABLES current,        \* {the instruction being executed}, or {} between two
          ion,            \* the interrupt enable
          inhibited,      \* from a change of field or user buffer to the next jump
          fieldI, bufferI, fieldD,   \* instruction field, its buffer, data field
          user, bufferU,  \* user mode and its buffer
          trap,           \* a user-mode trap is pending
          saved           \* the context the last interrupt saved

piVars == <<current, ion, inhibited, fieldI, bufferI, fieldD, user, bufferU, trap, saved>>

IonStates == {"off", "pending", "on"}

Init == /\ current = {} /\ ion = "off" /\ inhibited = FALSE
        /\ fieldI = 0 /\ bufferI = 0 /\ fieldD = 0
        /\ user = 0 /\ bufferU = 0 /\ trap = 0
        /\ saved = Context(0, 0, 0)

(* START and CLEAR clear everything, in the middle of an instruction too. *)
Clear == /\ current' = {} /\ ion' = "off" /\ inhibited' = FALSE
         /\ fieldI' = 0 /\ bufferI' = 0 /\ fieldD' = 0
         /\ user' = 0 /\ bufferU' = 0 /\ trap' = 0
         /\ saved' = Context(0, 0, 0)

-----------------------------------------------------------------------------
(* ION takes effect when the instruction after it begins.  In this machine *)
(* an extended EAE operation does not count as that instruction.           *)
Begin == /\ current = {}
         /\ \E i \in Program :
              /\ current' = {i}
              /\ ion' = IF ion = "pending" /\ ~IsExtendedEAE(i) THEN "on" ELSE ion
         /\ UNCHANGED <<inhibited, fieldI, bufferI, fieldD, user, bufferU, trap, saved>>

-----------------------------------------------------------------------------
(* The effects of the instructions. *)
Jump == /\ fieldI' = IF inhibited THEN bufferI ELSE fieldI
        /\ user' = IF inhibited THEN bufferU ELSE user
        /\ inhibited' = FALSE
        /\ UNCHANGED <<ion, bufferI, fieldD, bufferU, trap>>

Buffer(u, i, d) == /\ bufferU' = u /\ bufferI' = i /\ fieldD' = d
                   /\ UNCHANGED <<fieldI, user, trap>>

Enable(mode) == /\ ion' = mode
                /\ UNCHANGED <<inhibited, fieldI, bufferI, fieldD, user, bufferU, trap>>

Trap(t) == /\ trap' = t
           /\ UNCHANGED <<ion, inhibited, fieldI, bufferI, fieldD, user, bufferU>>

Nothing == UNCHANGED <<ion, inhibited, fieldI, bufferI, fieldD, user, bufferU, trap>>

FieldEffect(i) ==
  \/ /\ IsCDF(i)
     /\ Buffer(bufferU, bufferI, Mid(i)) /\ UNCHANGED <<ion, inhibited>>
  \/ /\ IsCIF(i)
     /\ Buffer(bufferU, Mid(i), fieldD) /\ inhibited' = TRUE /\ UNCHANGED ion
  \/ /\ IsCDI(i)
     /\ Buffer(bufferU, Mid(i), Mid(i)) /\ inhibited' = TRUE /\ UNCHANGED ion
  \/ /\ i = RMF
     /\ Buffer(saved.UF, saved.IF_, saved.DF) /\ inhibited' = TRUE /\ UNCHANGED ion
  \/ /\ i = RTF
     /\ \E c \in Contexts : Buffer(c.UF, c.IF_, c.DF)
     /\ inhibited' = TRUE
     /\ ion' = IF ion = "off" THEN "pending" ELSE ion
  \/ i = SUF /\ Buffer(1, bufferI, fieldD) /\ inhibited' = TRUE /\ UNCHANGED ion
  \/ i = CUF /\ Buffer(0, bufferI, fieldD) /\ UNCHANGED <<ion, inhibited>>

ChangesFields(i) == IsCDF(i) \/ IsCIF(i) \/ IsCDI(i) \/ i \in {RMF, RTF, SUF, CUF}

Executive(i) ==
  \/ FieldEffect(i)
  \/ i = ION /\ Enable(IF ion = "off" THEN "pending" ELSE ion)
  \/ i \in {IOF, SKON} /\ Enable("off")
  \/ i = CUI /\ Trap(0)
  \/ /\ i = CAF
     /\ ion' = "off" /\ trap' = 0
     /\ UNCHANGED <<inhibited, fieldI, bufferI, fieldD, user, bufferU>>
  \/ (IsJMP(i) \/ IsJMS(i)) /\ Jump
  \/ /\ ~(ChangesFields(i) \/ IsJMP(i) \/ IsJMS(i) \/ i \in {ION, IOF, SKON, CUI, CAF})
     /\ Nothing

(* In user mode an IOT, HLT or OSR traps and does nothing else; a jump     *)
(* stays in the field.                                                     *)
User(i) == Trap(IF IsTrapped(i) THEN 1 ELSE trap)

Execute == \E i \in current :
             /\ \/ user = 0 /\ Executive(i)
                \/ user = 1 /\ User(i)
             /\ current' = {}
             /\ UNCHANGED saved

-----------------------------------------------------------------------------
(* The interrupt.  The buffer of the instruction field keeps its value.    *)
Interrupt == /\ current = {} /\ ion = "on" /\ ~inhibited
             /\ saved' = Context(user, fieldI, fieldD)
             /\ fieldI' = 0 /\ fieldD' = 0 /\ user' = 0 /\ bufferU' = 0
             /\ ion' = "off"
             /\ UNCHANGED <<current, inhibited, bufferI, trap>>

(* The EXTENDED ADDRESS LOAD key, between two instructions. *)
LoadExtended == /\ current = {}
                /\ \E i \in Field, d \in Field :
                     fieldI' = i /\ bufferI' = i /\ fieldD' = d
                /\ user' = 0 /\ bufferU' = 0
                /\ UNCHANGED <<current, ion, inhibited, trap, saved>>

Next == Clear \/ Begin \/ Execute \/ Interrupt \/ LoadExtended

Spec == Init /\ [][Next]_piVars
=============================================================================
