---------------------------- MODULE DumpReceiver ----------------------------
(***************************************************************************)
(* The two programs that decode what dumprk05.pal sends: dumprk05.c, on    *)
(* the other end of the serial line, and hex2oct.c -3, which converts a    *)
(* simulator's record of the same characters.  One action for a character. *)
(***************************************************************************)
EXTENDS Integers, Sequences

CONSTANT SECTOR      \* words of a sector (256)

VARIABLES rx,        \* dumprk05.c
          oct        \* hex2oct.c

Receiving == [count |-> -1, byte |-> 0, temp |-> 0, chksum |-> 0, sect |-> 0,
              out |-> <<>>, bad |-> {}, ended |-> "no"]

(* Twelve bits of the next word, made of the last character and this one.  *)
Written(r, word) == [r EXCEPT !.out = Append(@, word), !.chksum = @ + word]

Trailer(r, c) ==
  IF r.byte = 0 THEN [r EXCEPT !.temp = c, !.byte = 1]
  ELSE [r EXCEPT !.ended = IF (r.temp + 256 * c + r.chksum) % 4096 = 0
                           THEN "Done" ELSE "mismatch"]

Header(r, c) ==
  CASE c = 255 -> [r EXCEPT !.count = 0]
    [] c = 253 -> [r EXCEPT !.count = 0, !.bad = @ \cup {r.sect}]
    [] c = 254 -> [r EXCEPT !.count = -2, !.byte = 0]
    [] OTHER   -> [r EXCEPT !.ended = "flag_missing"]

Third(r, c) ==
  LET q == [Written(r, r.temp + 16 * c) EXCEPT !.byte = 0, !.count = @ + 2]
  IN IF q.count = SECTOR THEN [q EXCEPT !.count = -1, !.sect = @ + 1] ELSE q

Data(r, c) ==
  CASE r.byte = 0 -> [r EXCEPT !.temp = c, !.byte = 1]
    [] r.byte = 1 -> [Written(r, (r.temp + 256 * c) % 4096) EXCEPT !.temp = c \div 16,
                                                                  !.byte = 2]
    [] r.byte = 2 -> Third(r, c)

Received(r, c) == CASE r.count = -2 -> Trailer(r, c)
                    [] r.count = -1 -> Header(r, c)
                    [] r.count >= 0 -> Data(r, c)

-----------------------------------------------------------------------------
(* hex2oct knows no bad sectors and no trailer.                            *)
Converting == [state |-> 0, temp1 |-> 0, temp2 |-> 0, printed |-> <<>>, ended |-> FALSE]

(* Faulty: the flag of the next sector is taken for data.                  *)
ConvertedOn(h, c) ==
  CASE h.state = 0 -> IF c = 255 THEN [h EXCEPT !.state = 1] ELSE [h EXCEPT !.ended = TRUE]
    [] h.state = 1 -> [h EXCEPT !.state = 2, !.temp1 = c]
    [] h.state = 2 -> [h EXCEPT !.state = 3, !.temp2 = c \div 16,
                                !.printed = Append(@, h.temp1 + 256 * (c % 16))]
    [] h.state = 3 -> [h EXCEPT !.state = 1,
                                !.printed = Append(@, (h.temp2 + 16 * c) % 4096)]

Converted(h, c) ==
  CASE h.state = 0 -> IF c = 255 THEN [h EXCEPT !.state = 1] ELSE [h EXCEPT !.ended = TRUE]
    [] h.state = 1 -> [h EXCEPT !.state = 2, !.temp1 = c]
    [] h.state = 2 -> [h EXCEPT !.state = 3, !.temp2 = c \div 16,
                                !.printed = Append(@, h.temp1 + 256 * (c % 16))]
    [] h.state = 3 ->
         LET printed == Append(h.printed, (h.temp2 + 16 * c) % 4096)
         IN [h EXCEPT !.printed = printed,
                      !.state = IF Len(printed) % SECTOR = 0 THEN 0 ELSE 1]

Receive(c) == /\ rx' = (IF rx.ended = "no" THEN Received(rx, c) ELSE rx)
              /\ oct' = (IF oct.ended THEN oct ELSE Converted(oct, c))
=============================================================================
