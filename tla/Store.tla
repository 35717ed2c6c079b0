------------------------------- MODULE Store -------------------------------
(***************************************************************************)
(* What the keys of the stopped machine promise: each press does its work  *)
(* exactly once, in one piece, and a disk transfer changes the one word it *)
(* is meant for and nothing the operator is working with.                  *)
(***************************************************************************)
EXTENDS Opcodes

CONSTANTS Fields, Size,   \* the fields that hold memory, the words of a field
          Values          \* the words that may be stored

VARIABLES request,   \* the key pressed and not yet obeyed: a set of at most one
          address,   \* [f |-> field, w |-> word]
          store

storeVars == <<request, address, store>>

Requests == {"extd_addr", "addr_load", "dep", "exam"}

Init == /\ request = {}
        /\ address = [f |-> 0, w |-> 0]
        /\ store = [c \in [f : Fields, w : 0..(Size - 1)] |-> 0]

(* A transfer stores one word; it may fall on the clock of a press. *)
Stored == \E c \in DOMAIN store, v \in Values : store' = [store EXCEPT ![c] = v]

Press == /\ request = {}
         /\ \E k \in Requests : request' = {k}
         /\ UNCHANGED address
         /\ UNCHANGED store \/ Stored

Obeyed(k) == request = {k} /\ request' = {}

Advance == address' = [address EXCEPT !.w = (@ + 1) % Size]

LoadAddress == /\ Obeyed("addr_load")
               /\ \E w \in 0..(Size - 1) : address' = [address EXCEPT !.w = w]
               /\ UNCHANGED store

LoadField == /\ Obeyed("extd_addr")
             /\ \E f \in Field : address' = [address EXCEPT !.f = f]
             /\ UNCHANGED store

Deposit == /\ Obeyed("dep")
           /\ \E v \in Values : store' = IF address \in DOMAIN store
                                           THEN [store EXCEPT ![address] = v] ELSE store
           /\ Advance

Examine == Obeyed("exam") /\ Advance /\ UNCHANGED store

Transfer == Stored /\ UNCHANGED <<request, address>>

Next == Press \/ LoadAddress \/ LoadField \/ Deposit \/ Examine \/ Transfer

Spec == Init /\ [][Next]_storeVars
=============================================================================
