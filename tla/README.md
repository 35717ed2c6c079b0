# A formal model of the PDP8e in Verilog

The repository builds a PDP-8/e (a 12-bit minicomputer with memory extension,
time-share option, console serial port, front panel and an RK8E disk on an SD
card) for small FPGAs, and the tools around it: an assembler, generators that
turn object tapes into memory images, and programs that dump a disk to a host.

The hardware runs from one clock (`clk100`); every module is `always @(posedge
clk)` blocks of nonblocking assignments, so its concurrency is synchronous: on an
edge every module computes its next state from the registers of all of them as
they were before the edge. What goes wrong in such a design is alignment: a pulse
one clock too short, a register read one clock too early, a flag that outlives
the state it was meant for, an operator or a disk that acts on an unfortunate
clock. Disk, console and host are asynchronous to each other, and there it is
the order of bytes, answers and failures that matters. The assembler is
sequential: its hazards are two passes that must agree, state that outlives the
construct it belongs to, and words that do not end up where they were listed.

This directory holds TLA+ modules of these parts, TLC runs over them and TLAPS
proofs about them. `PROJECT.json` relates definitions to source lines, lists the
hazards with the properties that cover them, and gives for each property a
mutation of the code's model that breaks it.

## The system

| component | source | state | operations | talks to |
|---|---|---|---|---|
| major state machine | `state_machine/state_machine.v` | `state` (26 values), `run_ff`, `int_in_prog`, `break_in_prog` | one arm per state; in F0 it looks at data breaks, CONTINUE, the other keys and interrupts, in that order | everybody reads `state`; reads `instruction`, `UF`, `int_ena`, `int_inh`, `index`, keys and switches |
| memory extension | `mem_ext/mem_ext.v` | `IF IB DF`, `UF UB UI`, `int_ena int_delay int_inh`, `savereg`, `mskip` | skips in F1, traps and ION in F2, IOTs in F3, jumps in F2/F3/DW/E0, the interrupt's change of context in E0, EXTD ADDR LOAD in H2 | `irq` includes `UI`; `IF`, `DF` go to the memory address unit |
| memory address unit, memory | `ma/ma.v`, `ram/ram.v` | `eaddr pc next_pc skip_pc mdin mdout instruction index write_en mem2disk`, the RAM and its output register | address and data of every state; the RAM writes one clock after `write_en` | disk address and data, accumulator, skips |
| front panel | `front_panel/front_panel.v` | `trig_state switchl triggerd cleard..dseld sw_active fp_trigger rsr swr dsel data_idx` | key sequencer LATCH..REENABLE; autostart AS0..AS7 | a 4-clock pulse on the control lines; `fp_trigger`/`fp_cont` with the clock module |
| panel clock | `FPGA_image/HX_clock.v` | 1 kHz divider, debounce counter and `fp_cont`, SD start-up counter | divide; once per millisecond debounce and start-up | panel, SD interface |
| RK8E disk | `RK8E/rk8e.sv` | command, status, address registers, `data_break`, `to_disk`, `sdOP` | IOTs in F1, request and withdrawal of data breaks | SD interface, state machine |
| SD card interface | `RK8E/sd.sv`, `RK8E/sdspi.sv` | a state machine of some 60 states, byte counters, memory address | initialise, read and write a block, abort, fail | SPI pins, rk8e |
| serial port | `serial/*.v` | transmitter and receiver state, flags | IOTs in F1, bit timing | console line, skips |
| dump programs | `sd_debug/dumprk05.pal`, `write_sector.pal`, `dumprk05.c`, `hex2oct.c` | two buffers, track, checksum, retries; the host's decoder state | read a sector and send it while the next is read; decode, check, write | RK8E and console IOTs; the serial line |
| assembler | `sd_debug/palbart.c` | symbol table, literal pools, location counter, tape, modes; the current line | two passes over a source; statements, expressions, some 40 pseudo-ops | source in, tape and listing out |
| memory image tools | `mem_gen/*.c`, `FPGA_image/Test_SW/rim.c` | loader state, core image | load a RIM or BIN tape, merge two images, make a RIM tape | tapes in, image for the FPGA's RAM out |
| accumulator, EAE, skips, multiplexer, display | `ac`, `oper2`, `imux`, `D_mux` | `ac link mq gtf` | operate groups, data paths | not modelled, see the end |

### What is hard, and what correct means

* **Interrupts against field changes.** CIF, SUF, RTF and RMF load buffers that
  a later jump copies, in four different states; interrupts must stay out of the
  window between, and ION takes effect one instruction late. Correct: the
  programmer sees whole instructions, each with its effect once, and an
  interrupt only between two of them.
* **User mode.** A user program must be interruptible, must not change the
  machine, and its traps must not be lost on any path back to F0.
* **An interrupt's entry** is a disguised JMS 0 of five states, flagged by
  `int_in_prog`; HALT, SINGLE STEP and CLEAR may interfere with it.
* **Keys** are four-clock pulses that a state machine must pick up in the right
  four clocks, while data breaks steal clocks of it; debounce crosses two clock
  rates, and the RAM has an output register and a delayed write.
* **Disk transfers.** A word moves by a handshake of three state machines (sd,
  rk8e, the processor) that may lose or double it; a card may answer late,
  wrongly or not at all; the dump program reads one buffer while it sends the
  other. Correct: blocks arrive whole and in place, and a file called done is
  the disk.
* **The assembler** decides sizes, conditionals and labels twice, keeps literals
  of 32 pages until they are punched, and must punch what the loader it is used
  with accepts. Correct: what an error-free assembly lists is in memory after
  loading, operands reach what they denote, and every source is assembled to its
  end.

The full list, by line, is under "hazards" in `PROJECT.json`.

## The modules

```
Opcodes                    words, bits, instruction classes
  StateMachine             state_machine.v
  MemExt                   mem_ext.v
  InstructionRegister      ma.v, instruction only
  ProgramInterrupt         (abstract) interrupts, fields, user mode by instruction
    Control                StateMachine + MemExt + InstructionRegister
      MCControl            model values
      ControlProofs        theorems about Control, Control implements ProgramInterrupt
  FrontPanel               front_panel.v, keys
  PanelClock               HX_clock.v
  MemoryAddress            ma.v + ram.v of a stopped machine
  Store                    (abstract) address and memory under the operator's keys
    Panel                  FrontPanel + PanelClock + StateMachine + MemExt + MemoryAddress
      MCPanel              model values
      AutoStart, Boot      front_panel.v, autostart; MCBoot has its model values
      PanelProofs          types, data breaks, Panel implements Store, display, LED, autostart

SDInterface                sd.sv
  DiskController           rk8e.sv
Transmitter                tx.v and the console's IOTs
DumpProgram                dumprk05.pal, write_sector.pal
DumpReceiver               dumprk05.c, hex2oct.c -3
DiskCopy                   (abstract) a copy that grows word by word
  DiskDump                 DiskController + Transmitter + DumpProgram + DumpReceiver + F0..DB2
    MCDiskDump             a small disk, and that a program ends
    DiskProofs             theorems about the program, the line and the decoders;
                           what controller, interface and program each do
      BlockProofs          what they may show each other during a transfer, and the
                           words of a block: TransferInv, what follows from it
        CopyProofs         DiskDump implements DiskCopy; a failed read ends a dump

PalLine                    palbart.c: the input line, lexemes, errors
  PalSymbols               symbol table
    PalPunch               tape, listing, literal pools
      PalPages             origins, pages, fields; what becomes of the pools
        PalExpr            expressions
          PalNumbers       DUBL and FLTG
            PalPseudo      pseudo-ops
              Palbart      statements and the two passes
TapeLoader                 pdp8_sys.c, mem_gen.c, mem_gen_bin.c, mem_merge.c, rim.c
  PunchedTape              PalPunch + TapeLoader: a BIN tape from the punch to the loader
  LiteralPools             PalPages + TapeLoader: literals, from the pools to memory
  MemoryImages             the generators and mem_merge, one after the other
    Folding                induction over the elements of a sequence, for loops
    ImageProofs            theorems about whole tapes, BIN and RIM, and mem_merge
      PoolProofs           theorems about LiteralPools
    Assembly               Palbart + MemoryImages: from a source to a memory image
      MCAssembly           the sources assembled
```

**How hardware becomes actions.** A component's action `At<S>` is the arm of the
source's `case` for state S: its guard is `state = "S"`, its right hand sides
read unprimed variables because the assignments are nonblocking, and a register
the arm does not assign keeps its value. The one blocking assignment, `oneKHz =
~oneKHz` in `HX_clock.v`, is seen by the test that follows it, hence the actions
`Rise` and `Fall`. A wire from another modelled component is that component's
variable, bound with INSTANCE; a wire from elsewhere is a parameter, chosen anew
on every edge by the composition. A composed action is one clock edge of all its
components. Names are the source's, except `IF_` (IF is a word of TLA+). The
seven key latches and control lines are sets of key names. Definitions named
after a source operation with a suffix, marked *Faulty*, are variants that a run
must reject; nothing else uses them.

**Control** chooses at each edge: the word a fetch reads (`Program`), the
accumulator at RTF (`ACs`), the switch register (`SRs`), data breaks, device
interrupts, CONTINUE, HALT, SINGLE STEP, `index`, `EAE_mode`, `EAE_loop`, and
CLEAR and reset at any edge. This is more freedom than the machine has (a word
is not remembered between two fetches), so what holds here holds of the machine.
`HaltInEntry` and `StepInEntry` bound the operator where the code has the two
flaws described below.

**Panel** runs the stopped machine: the operator presses one key at a time, with
arbitrary bounce in time, the disk asks for one word at a time. CONTINUE is not
pressed, so the machine stays stopped; `RAM` beyond the populated fields reads
an arbitrary word of the array (the Verilog read is out of range there).
`HoldsKeys` and `BreaksDuringKeys` name the two things that go wrong. The
history variable `elapsed` only counts milliseconds of `sw_active`.

**DiskDump** has two kinds of steps. A clock edge is one of `sd.sv`, `rk8e.sv`
and the processor together (`Clock`, or `ByteExchanged` when the SPI interface
has finished a byte and the card has answered something). The transmitter ends
a character and the host reads one in steps of their own. The PDP-8 programs
are modelled from IOT to IOT: `prog.pc` names the next IOT, `Advance` is what the
program does between two of them, retries and buffer switches included. The card
answers what is expected, keeps the interface waiting, or answers nonsense.

**Palbart** makes each C function an operator from the assembler's record of
globals to that record (and a value, where the function returns one), and each
turn of `onePass`'s scanning loop an action. A line is a sequence of lexemes and
blanks; reading characters into lexemes is the one thing abstracted away. The
object tape is a sequence of frames, and TapeLoader reads it frame by frame as
`pdp8_sys.c` does, so that what the punch writes and what the loader reads meet
at the level of the format.

**PunchedTape** puts the two side by side: palbart's punching operators, called in
any order, and the BIN loader, which reads each frame as it is punched. That is
more freedom than a source has, and the loader never looks back, so what holds
here of any sequence of calls holds of every assembly in BIN mode. `written` and
`at` are what a reader of the source would expect in memory, and where the next
word of the tape belongs; `punch` has the six fields of the assembler's record
that punching uses. Locations and words are any integers, so this module has no
run of its own: it is there for the theorems, and the sources of `assemble` are its
instances. `ChecksumCounted` (the loader finds the checksum right: frames of
fields and frames not punched are not in it) and `WordsPlaced` (memory is what
was punched, where the tape had come to) are the format's half of `LoaderAccepts`
and `LoadedAsListed`; the other half, that palbart's calls say what its listing
says, and changes of tape format, are `Assembly`'s.

**LiteralPools** does for literals what PunchedTape does for frames. Its variable
is the assembler's record itself (the fields that punching and the pools need),
its actions are the operators of `PalPunch` and `PalPages` that the statements of
`Palbart` call, and it calls them in any order, with any argument: a literal or a
link is added (`AddLiteral`), a word assembled (`AssembleWord`), an error
reported (`Mistake`), an origin set, and PAGE, SEGMNT and FIELD taken in two
steps, since they punch the pools first and evaluate their argument, which may
add literals, after that. `code` and `lits` are where a reader of the source
would look for the words and the literals, `plain` says that nothing has
happened that `LiteralsLoaded` does not speak of: another tape format, NOPUNCH, a
field taken up again, a literal in the argument of FIELD (it is forgotten), a
PAGE that stays where it is after pools were punched. Values are any integers and
sources are of any length, so it has no run either; `PoolsApart`, which it
shares with `Assembly`, is checked on the sources of `assemble`.

**Abstract specifications.** `ProgramInterrupt` has no states, keys or breaks: an
instruction begins, executes, and between two instructions an interrupt may save
and clear the context. `Store` has one operation per key, done once and in one
piece, and transfers that store one word. `DiskCopy` appends the disk's words in
order, and may call the copy done only when it holds all of them.

## The runs

Checked with 2 workers; state counts are distinct states.

| run | shows | states |
|---|---|---|
| `control` | default build, operator kept out of an interrupt's entry: the safety properties, `ImplementsProgramInterrupt` | 346 000 |
| `control_eae` | EAE build, operator unrestricted: the inductive invariant, isolation, traps before fetches; liveness of traps | 262 000 |
| `panel` | keys implement `Store`; data breaks send the addressed word | 1 064 000 |
| `panel_keys` | display, end of a key cycle (liveness), LED for the debounce time | 38 500 |
| `disk` | a dump of the whole disk, and single transfers, with a card that fails at any byte | 188 000 |
| `assemble` | 1578 sources, each with two sets of options, assembled, loaded and merged | 130 000 |
| `entry_halt`, `entry_step`, `panel_held`, `panel_break`, `boot`, `disk_write` | one violation each: see Findings | - |

**Control.** `UserModeInterruptible` (user mode is never inhibited);
`TrapPending` (an executed IOT, HLT or OSR of a user program has its trap pending
until the next fetch); `BreakHandshake`; `StopsBetweenInstructions`;
`EntryFlagLocal` and `EntryContext` (an interrupt's entry and its flag);
`UserModeIsolation`, `TrapBeforeFetch`, `SavedOnce` (what a step may never do);
`TrapServed` (a pending trap is served); `ImplementsProgramInterrupt`.

**Panel.** `ImplementsStore` (each press is obeyed once and in one piece, a
transfer changes one word); `BreakReadsWord`; `DisplayShowsWord`; `KeyCycleEnds`;
`LedForDebounceTime`.

**Disk.** `BlockRead` (when the program finds a read done, the buffer holds the
sector it asked for and nothing around it changed; half a block leaves the other
half alone); `WrittenInOrder`; `NothingDropped` (no character is loaded into a
busy transmitter); `DecodersAgree` (dumprk05.c and hex2oct print the same
words); `ImplementsDiskCopy` (what arrives is the disk, and is called done
exactly when it is complete, whatever the card does); `DumpEnds`.

**Assembly.** `LoaderAccepts` (alignment, checksum, leader: the loader takes the
tape, source errors or not); `LoadedAsListed` (what the listing shows at an
address is what the loader puts there); `OneWordPerLocation` (no literal where
code or another literal is); `OperandsReached` (directly, or through a link that
is in memory); `LiteralsIntact`; `PoolsApart` (code and literals of a page have not met, unless an
error was reported); `LabelsSettled` (one address per label in both passes);
`SourceSymbolsDecideAlike` (without EXPUNGE, the first conditional on which the
passes part is never an IFDEF or IFNDEF of a symbol the source introduces; on
other conditionals they do part, see Findings); `NumbersRepresented`
(DUBL exactly, FLTG to two units of the last place); `MergeKeepsFieldZero` (a
collision is reported exactly if both files have a word for an address of field
0, and otherwise field 0 of the output is what the loader stored, or else what
the table of the second file gives; the first file's field 1 is not in it);
`Terminates` (every source, unterminated constructs included, is read to its
end). An error-free assembly is one that reported no error; several properties
speak of those only, and of sources that do not switch tape formats halfway
(`ModesKept`), which no loader of the repository could follow.

### Conformance of the assembler's model

`palbart.c` compiles on its own, so the model was compared with it: every source
of `MCPrograms` with both sets of options (3156 assemblies) was written out as
text and assembled with the compiled program, and its tape compared frame by
frame with the one in TLC's final state, and so were some 10 000 sources drawn at
random from the same lines and others. None differed.

### Bounds, and why they are enough

* `Program`: 30 words, one of every class the three modules of `Control` tell
  apart (each IOT of mem_ext, direct and indirect jumps and subroutine calls,
  one- and two-cycle memory references, HLT, OSR, an unmodelled IOT, and an
  extended operation of each kind); `SomeWords` and `EAEWords` are the subsets
  that reach the scenarios of their runs. The theorems hold for any set of words.
* `ACs`, `SRs`: contexts with all fields 0 and with fields 0/1 and the user bit;
  the code only copies fields, so two values per field show a confusion.
* `Panel`: one field of two words (`Size` = 2 makes every second DEP wrap), two
  switch settings (one of which selects a field without memory), one disk
  address, data of two values. `oneK_cnt` 0 gives the shortest millisecond the
  divider can make, where key cycles follow each other closest; `panel_keys`
  takes 1, and `panel_held` 7 because a millisecond must be longer than the
  panel's loop for its scenario, as it is in the machine (36 750 clocks).
  `sw_dbnc` is 500 in the FPGA and 1 in simulation (`timing.v`); 1 and 2 here:
  the counter is compared with it and nothing else. The theorems are for all of
  these values. `panel_keys` has no data breaks: for a clock or two after one the
  display shows the transferred word, by design.
* `DiskDump`: three sectors of `Words` = 8 words (256), of 16 bits each so that
  the dropped bits show; `TRACKSIZE` 2 (4096) and `MAXTRK` 0 so that the dump
  passes from EXBIT 0 to 1 and ends; `nCR`, `nAC`, `nBZ` 2, 2, 1 (8, 1023, 4095)
  answers waited for; `RETCNT` 1. Every one of these is only counted to and
  compared. `LineBuffer` 2 characters may wait for the host. A whole block,
  half a block, both directions and a cylinder that does not exist are `SmallJobs`.
* `DiskDump` assumes: an SPI exchange (a six-byte command, a checksum and a byte
  of data alike) is one step and takes longer than a data break waits
  (`BreaksInTime`; the time budget of `RK8E/README`); clocks between two IOTs
  of the program are spent in F3; drive 0; no key is typed during a dump (TSF
  also skips on the receiver's flag); a deselected card answers only ff.
* `Assembly`: sources of five or six lines, made of alternatives line by line,
  one theme per part of the language (links and literals around page ends,
  relocation, page and field changes, pages taken up again, tape modes,
  conditionals, conditionals the passes decide differently, data words, numbers, expressions and errors, symbol table,
  forward references). A few symbols stand for the permanent table.
  `LeaderFrames` 2 (240) and `TrailerFrames` 1 (8) are lengths only.
  Names have at most six characters, numbers five digits, decimal exponents are
  -2 at least; fields 0 and 1 (10 is tried as an error); nothing is divided by
  zero.
* Sources leave out a few things that the properties do not survive, each a flaw
  listed below: a field entered twice, a blank PAGE beyond 07600, a PAGE at the
  start of a page with literals of it to be punched, a RELOC that
  is not a multiple of 0200 away, and NOPUNCH to ENPUNCH without a new origin.
  Conditionals on permanent symbols redefined or expunged later are among the
  sources (`Redefinitions`). An empty tape is not
  required to load (`Empty`): the RIM loader refuses it.

### Fairness

`FairSpec` of `Control` asks that the clock ticks (WF of Next), that SINGLE STEP
does not hold D0 or E0 for ever, that the EAE loop ends (it counts down in
`ac.v`), and two strong conditions: F0 is free of a data break again and again
(`state_machine/README`: one word in some 280 clocks against 26 for the longest
instruction) and memory does not deliver IOF for ever (a loop of IOF alone would
hold off its own trap, by state_machine.v:64). `FairSpec` of `Panel` asks only
for the clock. That of `DiskDump` asks that the clock runs, that an SPI byte
under way ends, that the transmitter's periods pass and that the host reads:
four independent things that happen by themselves; the card need not answer
well. That of `Assembly` asks that a tool which was started runs on.

## What is proved

All theorems hold for every value of the constants that the named assumptions
allow.

**`ControlProofs`**, from `ControlAssumption` alone (the
options are Booleans, the sets are sets of 12-bit words), for every program and
all builds:

* `Typing`: registers keep their widths.
* `ControlInvariant`: `Inv`, inductive given `Typing`. Of its parts,
  `UserModeInterruptible`, `TrapPending`, `BreakHandshake` and
  `StopsBetweenInstructions` are each preserved as they stand: `TrapPending`
  because an extended word is odd and a trapped one even, so F1 sends a trapped
  word to F2, and because the forced JMS is not trapped. `DoneInF2` needs
  `ExtendedPath`: the extended states come back to F3 and must not hold a direct
  JMP or a CUI, whose effect F2 has already made. `FetchedWord`, `ExtendedPath`
  and `DoneInF2` are what the refinement uses. `UserModeNeverInhibited`,
  `TrapsStayPending`, `BreaksAreSignalled` and `StopsAreBetweenInstructions` are
  parts of `Inv`; `TrapsBeforeFetches` and `UserModeIsolated` rest on
  `UserModeInterruptible`.
* `InstructionsEnd`: outside F0 every edge that SINGLE STEP (D0, E0) or the EAE's
  loop (EAE3) does not spend in place brings the state machine nearer to F0, in
  every build, and no path is longer than twenty such edges (`Ahead`). It is the
  safety half of `TrapServed`: with fairness of the held states added, F0 is
  reached and the pending trap seen.
* `EntryInvariant` (`EntryInv`, inductive relative to `Inv`: it uses
  `StopsBetweenInstructions` at E0), of which `EntryFlagIsLocal` and
  `EntryContextIsFresh` are parts, and `ContextSavedOnce`, which follows from it.
  All assume `~HaltInEntry` and `~StepInEntry`: without them the runs
  `entry_halt` and `entry_step` are counterexamples.
* `ControlImplementsProgramInterrupt`: initial states map to initial states and
  every edge maps to a step of `ProgramInterrupt` or a stutter, one lemma per
  group of states, under `Inv` and `EntryInv`, so under the same two assumptions. The mapping is at the end of `Control`: an
  instruction is `current` from the edge that leaves F1 to the edge that makes
  its effect; ION pending and promoted in F2 is `on` from that same edge.

**`PanelProofs`**, from `PanelAssumption` (any size of memory,
any divider, any debounce and start-up time that ten bits hold):

* `Typing`. `TimerInv` is the strengthening: the debounce counter passes its
  bound by one, exactly when `fp_cont` is up, so the ten-bit counters never
  overflow.
* `TransfersSendTheWord`: a data break sends the addressed word, whatever keys
  are pressed, CLEAR included, in a memory of at most four fields (the RAM reads
  with 14 bits of address). `HoldInv` says that request, address and an idle
  write line stand from F0 to DB1, `ReadInv` that the RAM has read the word by DB2.
* `PanelImplementsStore`: `Panel` implements `Store` when the memory has at most
  four fields, no key is held through its debounce time, no data break is
  requested on the clocks of a pulse, CLEAR is not pressed (`Careful`) and the
  switches are set to words `Store` knows. With more fields it is false:
  ram.v:34-38 selects a word with `addr[13:0]`, so a deposit into field 4 changes
  field 0 (`ReadsTheCell`, `WritesTheCell` say where it is the word addressed). The
  runs `panel_held` and `panel_break` show the first two cannot be dropped.
  `ImplementsStore` is not inductive; `StoreInv` adds that the pulse is that of
  one key (`PulseInv`), that the debounce timer is clear when a key is latched and
  cannot end within the pulse (`CountInv`), that the four clocks of the pulse meet
  the state machine in F0, HW, H1, H2 (`StepInv`), and what the address
  register and the write line hold there (`AddressInv`).
* `PanelShowsTheWord`: without data breaks, the panel shows the word at the
  address a key left when the key's sequence ends (`ShowInv` on top of
  `StoreInv`).
* `LedLitLongEnough`: `LedForDebounceTime` when no key is held through its
  debounce time; CLEAR may be pressed and data breaks may come at any time.
  `LightInv` is added to `PulseInv` and `CountInv`: `sw_active` is up just in
  DELAY, and the debounce counter is at most one ahead of the periods since it
  rose. `panel_held` shows the assumption is needed.
* `KeyCycleCountsDown`: whatever is held, pressed or requested, the clocks left of
  a key's cycle are `Remaining`, computed from divider and debounce counter, at
  most `(sw_dbnc + 1) * Period`, and each clock takes one away: the safety half of
  `KeyCycleEnds`. `TriggerInv` says that `fp_trigger`, which lets the counter run,
  is up just in TRIG3 and DELAY.
* `AutostartOnlyContinues`, about `Boot` and every script of addresses and words:
  autostart never makes the machine leave F0 for a key, CONTINUE starts it at
  address 0, and memory holds what it held but for the disk's transfers. `ScriptInv`
  follows the script, `QuietInv` the machine. The run `boot` shows it for one
  script (finding 5), the theorem for all.

**`DiskProofs`**, its first part, from `WordsAssumption` and `BlockAssumption`,
for a disk of any size and content, any answers of the card, any speed of line and host:

* `EveryCharacterTaken`: no character is lost in the transmitter. The invariant
  `DumpInv` says which program records are reached (`ProgramOK`), that a raised
  flag means a transmitter that takes a character (`TransmitterOK`), and that
  the transmitter takes a character at every IOT but between a TLS and the TSF
  that skips (`Ready`).
* `PairWritten` and `PairPrinted`: three characters carry two words, and both
  decoders take them apart again, for all 4096 x 4096 pairs; `ChecksumDecides`:
  the host calls the copy done exactly if the checksum it received and the one
  it summed agree modulo 4096.

**`DiskProofs`, the rest of it, `BlockProofs`, `CopyProofs`**,
from the assumptions on the constants, which are as weak as the code allows:

| assumption | says | in the code |
|---|---|---|
| `WordsAssumption`, `BlockAssumption` | a block has an even number of words, more than two | 256; words are packed in pairs |
| `SizesAssumption` | card, program and host agree on it, at most 256 | the two buffers are 0400 words apart |
| `AnswersAssumption` | the interface waits for at least one answer, and its counters are of twelve bits | 8, 1023 and 4095 |
| `ImageAssumption` | a sector of 16-bit words at every block address | the card |
| `TracksAssumption` | with EXBIT 1 the last track is at most 2399, the last one of 203 cylinders, which rk8e.sv lets pass | 04537 = 2399 (dumprk05.pal:62) |
| `RetriesAssumption` | a number of retries | 0200 (dumprk05.pal:52) |
| `JobsAssumption` | a job uses one of the two buffers, in field 0, and no seek of it raises the flag | write_sector.pal's own buffers and commands |

* `TransfersUnderstood`: `TransferInv`, which is inductive. `Machine` (ranges,
  and `DumpInv`), `CardOK`; `SetUp`: the controller has the address, command and
  track the program asked for; `Phases`: from the DLAG that starts a block to
  the DRST that takes its status the transfer is `Starting`, `Running`, `Ending`
  or `Failed`, else `Quiet`, and each phase allows only some states, copies of
  states and requests of the three parts; `Counts`: no count passes its bound;
  `ReadInv` and `WriteInv`: how many words have moved, and which one is in the
  data break under way; `SentInv`: the bytes sent are the buffer's words;
  `Arrived`: the block is in memory when the program is told, or about to be;
  `Outside`: nothing else has changed. Why so much: a word crosses from
  interface to controller to processor by three handshakes of pulses, and
  whether it is lost or doubled depends on where all three are; a property that
  names only the buffer at the end says nothing about the middle of a transfer.
  A step is proved phase by phase (`PhaseStep`), the words of it state by state
  of `sd.sv` (`ReadStep`, `WriteStep`).
* `RegistersInRange`: `TypeOK`, with `CharactersOK` for the line and the host.
* `BlockArrives`: `BlockRead`. `BlockSent`: `WrittenInOrder`. Both follow from
  `TransferInv`, for blocks of any length, any contents and any answers of the
  card.
* `LastWordNeverSent`: when the data of a write are over (`WRITE10` to `WRITE16`)
  the card has `2 * (Words - 1)` bytes, for every length of block: finding 6 is
  no accident of the bound of its run. `ClosedFrom` says that `WRITE09` with the
  count of sd.sv:1158 is the only way there; how many bytes went before is `WriteInv`.
* `FailedReadsEndTheDump`: once the interface reports RWFAIL it does so for ever,
  the ABORTs of the program's retries included; a dump that meets it never sends
  0xfd and never finishes; and a dump stops at BADSTA for no other reason, which
  needs that its first RECAL is answered (`RecalDone`: what each IOT of RECAL
  leaves in the status register of a quiet interface).
* `DumpCopiesDisk`: `DiskDump` implements `DiskCopy`, and `SameWords`: both
  decoders have made the same words at any moment. A *position* is how far a
  dump has come: sector, word pair, which character is next, and the sum of the
  words before it; `CharOf` is the character there, `Successor` the next
  position. The host is at one position (`Writes` for dumprk05.c, `Prints` for
  hex2oct.c), the program at another (`AtTurn`), and the invariant `CopyInv`
  says that the characters on the line, the transmitter's included, lead from
  the first to the second (`Leads`), one each, that the sector being sent lies
  whole in its buffer while the next is read into the other one (`Stored`), and
  that a read that fails fails for good (`Settled`: a retry never succeeds,
  because sd.sv:810 stays in RWFAIL). Sending a character lengthens the chain at
  its end; a character that arrives takes the first one off, and is one step of
  `DiskCopy` or a stutter; every other step stutters. No step of the argument
  depends on the size of the disk or on the length of the line.

**`ImageProofs`**, from `FrameCounts` alone (there is a leader and a trailer).

* `TapesAccepted`, `TapesPlaced`: `ChecksumCounted` and `WordsPlaced`, for tapes
  of any length, with the loader reading each frame as it is punched.
  Both speak of the end only, and are not inductive. `TapeInv` says what holds
  in between, when the loader has read a pair that it has not stored (`Follows`):
  stored, it would make memory `written`, and leave the next word for `at`; and
  what the loader has counted, with that pair, is palbart's checksum modulo 4096.
  One lemma per action, each from what it punches (`PunchTwo`, `PunchField`) and
  what the loader makes of that (`FollowsWord`, `FollowsOrigin`, `FollowsField`,
  `FollowsFirst`, `FollowsEnd`). A frame of FIELD that is summed, or a loader
  that takes the new field too early, breaks it; on the sources of `assemble`
  these are the mutants of `LoaderAccepts` and `LoadedAsListed`.
* `FinishedTapeLoads`: the same of the finished tape, read by `sim_load_bin` in
  one piece from leader to trailer: `LoadedWhole` says status OK and core equal
  to what was punched. That the loader reading along has come to where
  `sim_load_bin` comes on the tape so far is an invariant of its own (`Caught`),
  one lemma per action; `LeaderRead` and `TrailerRead` say that the frames of the
  leader, however many, and the rest of the trailer change nothing.
* `RimTableLoaded`: the tape rim.c makes of a table of any length, duplicates and
  all, loads as the table: each address has the last word given for it, no other
  address has any.
* `RimEntryPunched`: in RIM mode palbart punches a word as the four frames of an
  entry, for every location and word.
* `RimEntryLoaded`: what rim.c writes for an address and a word, the RIM loader
  stores there, for every address and word, and changes no other.
* `FieldChangeWaits`: the BIN loader holds a word until it sees the character
  after it, so a change of field is met early; it takes effect after the word
  all the same. palbart relies on it: the frame follows the last literal of the
  field it leaves.
* `MergesFieldZero`: `MergeKeepsFieldZero` for any tape, in either format and with
  words in either field, and any table.
  `ImagesSpec` is `MemoryImages` with any tape, once; every step of `Assembly` is
  a step of it (`Load` with the tape assembled, `Merge`) or leaves its variables
  alone. `MergeInv` adds that a merge comes after a load, which is why the images
  it was made of stay what they were.

Both results about whole tapes are inductions over a loop. The library's
induction theorems take an operator as a parameter and cannot be used; `Folding`
gets there another way. The loop's body and what it keeps are operator
*constants* of the module; a set of naturals with an element has a least one
(`LeastElement`, from the well-foundedness of <), so a set that has 0 and with n
also n + 1 has them all (`AllNaturals`); hence FoldLeft, the loop, is a sequence
of steps of its body (`FoldSteps`), keeps what the body keeps (`FoldKeeps`), and
a loop over a concatenation is two loops (`FoldConcat`). `ImageProofs` takes the
module twice with INSTANCE, once for each loader.

`RimEntryLoaded` and `FieldChangeWaits` are about the frames of one entry, or of
one word and the next, from any state of the loader they can meet.

**`PoolProofs`**, from `FrameCounts` alone, for sources of any length and every
order of statements:

* `PoolsNeverMeet`: `PoolsApart`. A word of code is compared with the pool when
  it is assembled (`testForLiteralCollision`), a literal with the code when it is
  added (`insertLiteral`), and each reports an error if the other is there; only
  `clearLiteralTable` forgets both. `Safe` is inductive: the record has its
  shape, and while no error has been reported all pages are `Apart`.
* `LiteralsReachMemory`: `LiteralsLoaded`, that a tape without errors loads as its
  code and its literals, each in its place, and nothing else. The invariant
  `LoadInv` says, for as long as no error has been reported: the loader, run
  over the tape so far, has in memory all code, and of the literals all but
  those that wait in the pools (`Holds`, with `Pend`); `lits` are the pools
  (`Indexed`), no literal of the field lies below its pool and no code above the
  last word noted for its page (`Above`, `Below`), so that with `Apart` none is
  ever overwritten (`Full`); and the loader goes on where the assembler is
  (`Aligned`), except between the pools punched by a pseudo-op and the origin that
  follows it (`strayed`). One lemma per action (`AddKeeps` to `CloseKeeps`).
  That pools may be punched, added to and punched again, a page at a time, is in
  `PagePunched` and `PoolsPunched`, inductions over the two loops of
  `punchLiteralPool` (with `Folding`, an instance for each): every literal not
  yet punched goes to its place, the others stay.

That every statement of `Palbart` takes steps of `LiteralPools` is read off its
definitions, and not proved: they are RECURSIVE operators.

Only model-checked: liveness (`TrapServed`, `KeyCycleEnds`, `DumpEnds`,
`Terminates`), which is out of the prover's reach (for the first two the measure
that decreases is proved, in `InstructionsEnd` and `KeyCycleCountsDown`; that the
clock goes on, and that a held state is left, is the fairness of the runs), and the properties of
`Assembly` but `MergeKeepsFieldZero` and `PoolsApart`: its lexemes, expressions and
pseudo-ops are RECURSIVE operators, of which the prover has no SMT backend.
`LiteralsReachMemory` is the half of `LoadedAsListed`, `OneWordPerLocation` and
`LiteralsIntact` that lies below expressions and statements.
Of the lossy retries (0xfd, a RECAL answered after a failure) nothing can be
said, since `FailedReadsEndTheDump` shows that they are never reached.

## Findings

Each is a run whose counterexample is a behaviour of the code.

1. `entry_halt`: HALT sampled in E3 of an interrupt's entry stops the machine
   with `int_in_prog` up; after CONTINUE the handler's first E cycle repeats the
   entry and overwrites `savereg`.
2. `entry_step`: SINGLE STEP holding E0 runs the save block on each clock; the
   second one saves zeros.
3. `panel_held`: `fp_cont` stays up for a millisecond, during which a key fires
   every few clocks and the LED blinks for one clock each time.
4. `panel_break`: a data break during a key's pulse leaves a deposit without its
   step to the next address, or loses the key.
5. `boot`: autostart never raises `triggerd`, so nothing is deposited
   (`AutostartOnlyContinues` proves it of every script).
6. `disk_write`: the write loop of `sd.sv` (line 1158) ends two bytes early: 255
   words of a block are sent, 127 of half a block. The VHDL it was translated
   from counts to 511 and 255.

Met while modelling, and not the subject of a run of their own:

* *Disk.* A failed read leaves the interface in READ02 or READ03 with `sdSTATE`
  RWFAIL for ever (sd.sv:810): a retry by RECAL never gets an answer, so the
  program ends at BADSTA, against dumprk05.pal:2-3 and :119
  (`FailedReadsEndTheDump`); the retry and 0xfd paths are modelled but not reached. `hex2oct -3` knows neither the 0xfe trailer
  nor 0xfd. CLEAR resets IF but not the field in `eaddr` (mem_ext.v:35). A
  character that completes while the receiver's flag is being cleared is lost
  (rx.v:42).
* *Assembler, passes.* `rim_mode` is not reset between the passes
  (palbart.c:908). The passes decide some conditionals differently, against the
  comment on the condition bit (palbart.c:345-346: "This gives consistent behavior
  of the conditional pseudo-ops during both pass 1 and pass 2."): IFDEF and IFNDEF of a permanent symbol that the
  source redefines later, IFZERO and IFNZRO of a forward reference, and symbols
  expunged later (palbart.c:3443, :3893). They then assemble different text, and
  not always with an error. These sources are in `MCPrograms` (`Redefinitions`);
  the promise that every conditional is decided alike fails on them, so
  `SourceSymbolsDecideAlike` is the part of it that the code keeps. What follows
  the first disagreement is not covered: different text may define different
  symbols.
* *Assembler, pages.* SEGMNT with an argument always starts segment 1, and at
  06000 it leaves the field; returning to a field forgets the literals already
  there, and gives their locations to others; a PAGE at the start of a page that
  has literals to be punched punches them and no origin (palbart.c:3978), so
  that what follows is loaded after them and not where it is listed (`Unmoved`
  in `MCAssembly`, with which `LoadedAsListed` fails); FIELD drops the literals
  of its own argument; a blank PAGE beyond 07600 carries into the field; a RELOC
  that is not a multiple of 0200 gives literals a wrong address; NOPUNCH to
  ENPUNCH without an origin loads what follows at the wrong place; BINPUNCH
  after RIM drops the literals not yet punched.
* *Assembler, other.* EXPUNGE makes BANK and TITLE valid again; an operand that is a
  literal overwrites the value its operator holds (`sym_getexpr`); dividing by a
  symbol not defined yet stops pass 1 with a fault; a full symbol table in pass 1
  exits without a word; a missing comma joins two messages.
* *Image tools.* `mem_gen_bin` has 8192 words of core but checks addresses
  against 32768 (mem_gen_bin.c:62); both generators ignore the loader's status; `mem_merge` reads
  4096 words of the 8192 that `mem_gen_bin` prints, and the words of field 1 are
  lost without a message (mem_merge.c:87-104);
  some Makefiles run `mem_gen`, which loads RIM, on `.bin` tapes.

* *Memory.* The 32k build (parameters.v:116) has an array of 32768 words, but
  ram.v:34-38 selects the word with 14 bits of the address, on read and on write:
  fields 4 to 7 are the words of fields 0 to 3.

## Not modelled

* The processor's data path: fetch, defer and execute arms of `ma.v` (`pc`,
  `next_pc`, `skip_pc`, auto-index, operand address), `ac.v` with the EAE,
  `oper2.v`, `imux.v`. The control around them is in `StateMachine` and `MemExt`;
  the values themselves are the instruction set, which the repository's
  diagnostics test word by word. SINGLE STEP as a persistent switch belongs there.
* Of the disk: the card's initialisation and the shifting of bits (`sdspi.sv`),
  DMAN, the interrupt line, CLEAR in the middle of a transfer, drives 1 to 3.
* Of the serial port: bit timing and the receiver.
* Of the assembler: reading characters into lexemes, the print-outs of symbols
  and cross references, the alias IFNZER, the options that only choose files.
  Of `hex2oct`, formats 1 and 2, which print a word per line.
* `comm.c`, `config.c`, `rsend.c`: opening and setting up a serial port and
  copying a file to it, without a state of their own.
* Other boards (`Max10`, `FPGA_up5k`), an older state machine
  (`state_machine_AMC.v`), `RTC/dk8e.v` (not instantiated), test benches,
  diagnostics, the VHDL ancestor of `sd.sv`; pads, PLL, reset synchronisation,
  display multiplexing and SPI electrical timing.
