---------------------------- MODULE MemoryImages ----------------------------
(***************************************************************************)
(* mem_gen/: the generator that fits a tape loads it and prints the words  *)
(* of its memory, mem_merge adds the words of a second tape, one that      *)
(* rim.c made.  Each tool reads the file that the one before it wrote.     *)
(***************************************************************************)
EXTENDS TapeLoader

CONSTANT Tables    \* the tables of addresses and words rim.c is given

ASSUME TablesAssumption == \A t \in Tables : t \in Seq(Int \X Int)

VARIABLES loader,   \* what the generator's loader ended with
          image,    \* the output of the generator
          other,    \* the second image
          merged    \* the output of mem_merge: an image, or a collision;
                    \* and the table its second file was made of

imageVars == <<loader, image, other, merged>>

Nothing == [k \in {} |-> 0]
NotMerged == [done |-> FALSE, collision |-> FALSE, image |-> Nothing, table |-> <<>>]

NotLoaded == [Loader EXCEPT !.st = "none"]
Loaded == loader # NotLoaded

ImagesInit == /\ loader = NotLoaded
              /\ image = Nothing
              /\ other = Nothing
              /\ merged = NotMerged

Generate(tape, rim) ==
  /\ ~Loaded
  /\ loader' = IF rim THEN sim_load_rim(tape) ELSE sim_load_bin(tape)
  /\ image' = IF rim THEN mem_gen(tape) ELSE mem_gen_bin(tape)
  /\ UNCHANGED <<other, merged>>

Merge == /\ Loaded /\ ~merged.done
         /\ \E t \in Tables :
              LET second == mem_gen(RimFrames(t))
                  clash == Collisions(image, second) # {}
              IN /\ other' = second
                 /\ merged' = [done |-> TRUE, collision |-> clash, table |-> t,
                               image |-> IF clash THEN Nothing ELSE Merged(image, second)]
         /\ UNCHANGED <<loader, image>>

(* The word a table gives an address: the last one given for it. *)
EntriesFor(table, k) == {i \in DOMAIN table : table[i][1] % 4096 = k}
Tabled(table, k) == IF EntriesFor(table, k) = {} THEN 0
                    ELSE table[Max(EntriesFor(table, k))][2] % 4096

(* mem_merge against what the two tapes were to put into memory.  It       *)
(* reports a collision exactly if both have a word for an address of field *)
(* 0.  Otherwise its output has at every address of field 0 the word the   *)
(* loader stored there, or else the one of the table, through rim.c and    *)
(* the RIM loader, and nothing beyond: the words of field 1, which         *)
(* mem_gen_bin prints (8192 of them), are lost without a message, since    *)
(* mem_merge reads the first 4096 (mem_merge.c:87-104).                    *)
MergeKeepsFieldZero ==
  merged.done =>
    LET Agreed(k) == WordAt(loader.core, k) = 0 \/ Tabled(merged.table, k) = 0 IN
    /\ merged.collision <=> \E k \in Locations : ~Agreed(k)
    /\ ~merged.collision =>
         /\ DOMAIN merged.image \subseteq Locations
         /\ \A k \in Locations : WordAt(merged.image, k) =
              IF WordAt(loader.core, k) = 0 THEN Tabled(merged.table, k)
              ELSE WordAt(loader.core, k)
=============================================================================
