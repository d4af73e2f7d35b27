------------------------------ MODULE BoardId -------------------------------
(***************************************************************************)
(* edt_get_full_board_id (edtApp/lib/libedt.c): the mezzanine board is     *)
(* identified by four bits of a register or, when they say so, by words    *)
(* read from a CPLD over a clock line and a data line that the library     *)
(* drives through the same register.  What is found is kept in the driver. *)
(*                                                                         *)
(* The CPLD is external, modelled from the comment before the code: data   *)
(* falling while the clock is high is a start, rising a stop, a stop and a *)
(* start under one clock a reset, which two clocks complete.               *)
(***************************************************************************)
EXTENDS Integers, SequencesExt

CONSTANTS Boards,    \* boards: what the register says, the CPLD's pins and its words
          Fields,    \* <<width of the number of words, of the id, of the revision>>
          MaxWords,  \* MAX_EXTENDED_WORDS
          Clocks,    \* CLK_CPLD: clocks that get the CPLD out of a read
          Channels,  \* DMA channels of the board
          MaxLookups, MaxTroubles \* bounds

(* A word: how many words there are, the id and the revision.               *)
WordBits == Fields[1] + Fields[2] + Fields[3]

Number(s) ==
  LET value[n \in 0 .. Len(s)] == IF n = 0 THEN 0 ELSE 2 * value[n - 1] + s[n]
  IN value[Len(s)]
Blocks(w) == Number(SubSeq(w, 1, Fields[1]))
Id(w) == Number(SubSeq(w, Fields[1] + 1, Fields[1] + Fields[2]))
Rev(w) == Number(SubSeq(w, Fields[1] + Fields[2] + 1, WordBits))
Legal(w) == Blocks(w) >= 1 /\ Blocks(w) <= MaxWords
Undriven == [i \in 1 .. WordBits |-> 1]

(* A first word that is legal tells how many there are; one that nobody     *)
(* drives is not.                                                           *)
ASSUME BoardIdAssumption ==
  /\ Fields \in Seq(Nat \ {0}) /\ Len(Fields) = 3
  /\ \A b \in Boards :
       /\ b.says \in {"nothing", "no register", "id", "old bitfile", "extended"} /\ b.id \in Nat
       /\ b.pins \in {"standard", "3x3g"}
       /\ b.words \in Seq(Seq({0, 1}))
       /\ \A i \in 1 .. Len(b.words) : Len(b.words[i]) = WordBits
       /\ Clocks > Len(b.words) * WordBits
       /\ b.words # <<>> /\ Legal(b.words[1]) => Blocks(b.words[1]) = Len(b.words)
  /\ ~Legal(Undriven)
  /\ Clocks \in Nat /\ MaxWords \in Nat \ {0} /\ MaxLookups \in Nat /\ MaxTroubles \in Nat

VARIABLES
  board,     \* the board
  strong,    \* the FPGA overpowers a CPLD that drives the data line
  restarts,  \* the CPLD takes a start in the middle of a read
  errorKept, \* -1 is not what the headers call MEZZ_ID_UNKNOWN
  bus,       \* what the register drives: ts (tristate), clk, data
  pins,      \* which pins it drives
  cpld,      \* state of the CPLD: phase, and place in its words or clocks left
  driver,    \* what the driver holds for each channel
  pc, chan,  \* the lookup in progress, on this channel
  at,        \* place in the sequence of writes, or step of a bit
  bits,      \* word being read
  tries, try3x3g, \* as in the code
  mezz,      \* edt_p->mezz
  todo,      \* channels the result is still to be stored for
  lookups, kills, disturbed \* (history) lookups begun, killed, disturbed

hardware == <<board, strong, restarts, errorKept>>
wires == <<bus, pins, cpld>>
reading == <<at, bits, tries, try3x3g>>
counts == <<lookups, kills, disturbed>>
vars == <<hardware, wires, driver, pc, chan, reading, mezz, todo, counts>>

Unknown == -2  \* MEZZ_ID_UNKNOWN
NoMezz == [id |-> Unknown, n |-> 0, rev |-> 0, data |-> <<>>]
Simple(id) == [id |-> id, n |-> -1, rev |-> 0, data |-> <<>>]
Known(m) == m.id # Unknown /\ (m.id = -1 => errorKept)

Bus(ts, clk, data) == [ts |-> ts, clk |-> clk, data |-> data]
Buses == [ts : BOOLEAN, clk : BOOLEAN, data : BOOLEAN]
Stored == [i \in 1 .. Len(board.words) * WordBits |->
             board.words[((i - 1) \div WordBits) + 1][((i - 1) % WordBits) + 1]]
Phases == {[phase |-> p, at |-> 0] : p \in {"idle", "stopped"}}
          \cup {[phase |-> "reset", at |-> n] : n \in 1 .. 2}
          \cup {[phase |-> "read", at |-> n] : n \in 0 .. Len(Stored)}
Idle == [phase |-> "idle", at |-> 0]

(* A program that was killed may have left the wires as they like.          *)
Init ==
  /\ board \in Boards /\ strong \in BOOLEAN /\ restarts \in BOOLEAN /\ errorKept \in BOOLEAN
  /\ bus = Bus(TRUE, TRUE, TRUE) /\ pins = "standard" /\ cpld \in Phases
  /\ driver = [c \in Channels |-> NoMezz]
  /\ pc = "idle" /\ chan \in Channels /\ at = 1 /\ bits = <<>> /\ tries = 0 /\ try3x3g = TRUE
  /\ mezz = NoMezz /\ todo = {} /\ lookups = 0 /\ kills = 0 /\ disturbed = 0

-----------------------------------------------------------------------------
(* The CPLD.                                                                *)
Reached == board.says = "extended" /\ pins = board.pins
Driven == Reached /\ cpld.phase = "read" /\ cpld.at > 0
Line(b) == IF ~b.ts /\ (strong \/ ~Driven) THEN b.data
           ELSE Driven => Stored[cpld.at] = 1

Clocked ==
  CASE cpld.phase = "read" /\ cpld.at < Len(Stored) -> [cpld EXCEPT !.at = @ + 1]
    [] cpld.phase = "reset" /\ cpld.at > 1 -> [cpld EXCEPT !.at = @ - 1]
    [] OTHER -> Idle
Started ==
  CASE cpld.phase = "stopped" -> [phase |-> "reset", at |-> 2]
    [] cpld.phase = "idle" \/ (cpld.phase = "read" /\ restarts) -> [phase |-> "read", at |-> 0]
    [] OTHER -> cpld

Hears(b) ==
  IF ~Reached THEN cpld
  ELSE CASE ~bus.clk /\ b.clk -> Clocked
         [] bus.clk /\ b.clk /\ Line(bus) /\ ~Line(b) -> Started
         [] bus.clk /\ b.clk /\ ~Line(bus) /\ Line(b) -> [phase |-> "stopped", at |-> 0]
         [] bus.clk /\ ~b.clk /\ cpld.phase = "stopped" -> Idle
         [] OTHER -> cpld

(* edt_intfc_write of MEZZANINE_BD_ID.                                      *)
Drive(b) == bus' = b /\ cpld' = Hears(b) /\ UNCHANGED pins

Low(ts, data) == Bus(ts, FALSE, data)
High(ts, data) == Bus(ts, TRUE, data)
Pulses(n) ==
  [i \in 1 .. 2 * n |-> IF i % 2 = 1 THEN High(TRUE, FALSE) ELSE Low(TRUE, FALSE)]
StartWrites == <<Low(TRUE, TRUE), Low(FALSE, TRUE), High(FALSE, TRUE), High(FALSE, FALSE),
                 Low(FALSE, FALSE), Low(FALSE, TRUE), Low(TRUE, TRUE)>>

(* Faulty variant: only the two clocks of the reset itself.                 *)
ResetWithoutClocks ==
  StartWrites
  \o <<Low(FALSE, FALSE), High(FALSE, FALSE), High(FALSE, TRUE), High(FALSE, FALSE),
       Low(FALSE, FALSE), Low(FALSE, TRUE), Low(TRUE, TRUE)>>
  \o Pulses(2) \o StartWrites

(* edt_extbdid_reset: a start, clocks to the end of any read, stop and      *)
(* start for a reset, two clocks, and a start for the read.                 *)
edt_extbdid_reset ==
  StartWrites \o Pulses(Clocks)
  \o <<Low(FALSE, FALSE), High(FALSE, FALSE), High(FALSE, TRUE), High(FALSE, FALSE),
       Low(FALSE, FALSE), Low(FALSE, TRUE), Low(TRUE, TRUE)>>
  \o Pulses(2) \o StartWrites

edt_extbdid_stop ==
  Pulses(1)
  \o <<Low(FALSE, FALSE), High(FALSE, FALSE), High(FALSE, TRUE), Low(FALSE, TRUE), Low(TRUE, TRUE)>>
  \o Pulses(2) \o <<High(TRUE, TRUE)>>

-----------------------------------------------------------------------------
(* edt_get_mezz_id: what the driver holds for the channel, if anything.     *)
Lookup(c) ==
  /\ pc = "idle" /\ lookups < MaxLookups
  /\ chan' = c /\ mezz' = driver[c] /\ lookups' = lookups + 1
  /\ pc' = IF Known(driver[c]) THEN "done" ELSE "register"
  /\ UNCHANGED <<hardware, wires, driver, reading, todo, kills, disturbed>>

(* Result to be stored, for the other channels first.                       *)
Store(m) == mezz' = m /\ todo' = Channels /\ pc' = "store"

(* Faulty variant: the answer of an old bitfile is stored.                  *)
PlainStoresOld ==
  /\ pc = "register" /\ board.says # "extended"
  /\ IF board.says \in {"id", "old bitfile"} THEN Store(Simple(board.id))
     ELSE pc' = "done" /\ UNCHANGED <<mezz, todo>>
  /\ UNCHANGED <<hardware, wires, driver, chan, reading, counts>>

(* No extended id: four bits are the id, with -1 extended words; nothing is *)
(* stored for an extended board under an old bitfile, without a bitfile and *)
(* without the register.                                                    *)
Plain ==
  /\ pc = "register" /\ board.says # "extended"
  /\ IF board.says = "id" THEN Store(Simple(board.id))
     ELSE pc' = "done" /\ UNCHANGED <<mezz, todo>>
  /\ UNCHANGED <<hardware, wires, driver, chan, reading, counts>>

Extended ==
  /\ pc = "register" /\ board.says = "extended"
  /\ pins' = "standard" /\ pc' = "reset" /\ at' = 1 /\ tries' = 2 /\ try3x3g' = TRUE
  /\ bits' = <<>>
  /\ UNCHANGED <<hardware, bus, cpld, driver, chan, mezz, todo, counts>>

(* The writes of a sequence, one by one.                                    *)
Writes(from, writes, to) ==
  /\ pc = from /\ Drive(writes[at])
  /\ IF at < Len(writes) THEN at' = at + 1 /\ pc' = from ELSE at' = 1 /\ pc' = to
  /\ UNCHANGED <<hardware, driver, chan, bits, tries, try3x3g, mezz, todo, counts>>

Reset == Writes("reset", edt_extbdid_reset, "word")

(* edt_read_extbdid_val: clock up, clock down, look at the line.            *)
Clock ==
  /\ pc = "word" /\ at < 3 /\ Len(bits) < WordBits
  /\ Drive(Bus(TRUE, at = 1, FALSE)) /\ at' = at + 1
  /\ UNCHANGED <<hardware, driver, pc, chan, bits, tries, try3x3g, mezz, todo, counts>>
Sample ==
  /\ pc = "word" /\ at = 3
  /\ bits' = Append(bits, IF Line(bus) THEN 1 ELSE 0) /\ at' = 1
  /\ UNCHANGED <<hardware, wires, driver, pc, chan, tries, try3x3g, mezz, todo, counts>>

FirstWord ==
  /\ pc = "word" /\ Len(bits) = WordBits /\ ~Known(mezz) /\ Legal(bits)
  /\ mezz' = [NoMezz EXCEPT !.id = Id(bits), !.n = Blocks(bits) - 1, !.rev = Rev(bits)]
  /\ bits' = <<>> /\ pc' = IF Blocks(bits) > 1 THEN "word" ELSE "stop"
  /\ UNCHANGED <<hardware, wires, driver, chan, at, tries, try3x3g, todo, counts>>

(* Faulty variant: a word that is not legal costs no try.                   *)
FreeBadWord ==
  /\ pc = "word" /\ Len(bits) = WordBits /\ ~Known(mezz) /\ ~Legal(bits)
  /\ bits' = <<>> /\ pc' = "retry"
  /\ UNCHANGED <<hardware, wires, driver, chan, at, tries, try3x3g, mezz, todo, counts>>

BadWord ==
  /\ pc = "word" /\ Len(bits) = WordBits /\ ~Known(mezz) /\ ~Legal(bits)
  /\ bits' = <<>> /\ tries' = tries - 1 /\ pc' = "retry"
  /\ UNCHANGED <<hardware, wires, driver, chan, at, try3x3g, mezz, todo, counts>>

MoreWords ==
  /\ pc = "word" /\ Len(bits) = WordBits /\ Known(mezz)
  /\ mezz' = [mezz EXCEPT !.data = Append(@, bits)]
  /\ bits' = <<>> /\ pc' = IF Len(mezz'.data) < mezz.n THEN "word" ELSE "stop"
  /\ UNCHANGED <<hardware, wires, driver, chan, at, tries, try3x3g, todo, counts>>

StopRetry == Writes("retry", edt_extbdid_stop, "again")

(* Two tries on the standard pins, two on those of a 3x3g; then -1.         *)
TryAgain ==
  /\ pc = "again"
  /\ \/ tries > 0 /\ pc' = "reset" /\ UNCHANGED <<pins, tries, try3x3g>>
     \/ /\ tries = 0 /\ try3x3g /\ pc' = "reset"
        /\ tries' = 2 /\ try3x3g' = FALSE /\ pins' = "3x3g"
     \/ tries = 0 /\ ~try3x3g /\ pc' = "stop" /\ UNCHANGED <<pins, tries, try3x3g>>
  /\ UNCHANGED <<hardware, bus, cpld, driver, chan, at, bits, mezz, todo, counts>>

Stop == Writes("stop", edt_extbdid_stop, "stopped")

Found ==
  /\ pc = "stopped"
  /\ Store(IF mezz.id = Unknown THEN Simple(-1) ELSE mezz)
  /\ UNCHANGED <<hardware, wires, driver, chan, reading, counts>>

(* edt_set_mezz_id, its own channel last.                                   *)
SetMezzId(c) ==
  /\ pc = "store" /\ c \in todo /\ (c = chan => todo = {chan})
  /\ driver' = [driver EXCEPT ![c] = mezz] /\ todo' = todo \ {c}
  /\ pc' = IF c = chan THEN "done" ELSE "store"
  /\ UNCHANGED <<hardware, wires, chan, reading, mezz, counts>>

Return ==
  /\ pc = "done" /\ pc' = "idle" /\ mezz' = NoMezz
  /\ UNCHANGED <<hardware, wires, driver, chan, reading, todo, counts>>

-----------------------------------------------------------------------------
(* The program is killed; the wires and the driver stay as they are.        *)
Kill ==
  /\ pc \notin {"idle", "done"} /\ kills + disturbed < MaxTroubles
  /\ kills' = kills + 1 /\ pc' = "idle" /\ mezz' = NoMezz /\ todo' = {}
  /\ at' = 1 /\ bits' = <<>>
  /\ UNCHANGED <<hardware, wires, driver, chan, tries, try3x3g, lookups, disturbed>>

(* A lookup of another program gets in between: the wires are anyhow.       *)
Disturb ==
  /\ pc \in {"reset", "word", "retry", "stop"} /\ kills + disturbed < MaxTroubles
  /\ disturbed' = disturbed + 1
  /\ bus' \in Buses /\ cpld' \in Phases
  /\ UNCHANGED <<hardware, pins, driver, pc, chan, reading, mezz, todo, lookups, kills>>

Work ==
  \/ Plain \/ Extended \/ Reset \/ Clock \/ Sample
  \/ FirstWord \/ BadWord \/ MoreWords \/ StopRetry \/ TryAgain \/ Stop \/ Found
  \/ \E c \in Channels : SetMezzId(c)
  \/ Return

Next == (\E c \in Channels : Lookup(c)) \/ Work \/ Kill \/ Disturb

Spec == Init /\ [][Next]_vars
FairSpec == Spec /\ WF_vars(Work)

-----------------------------------------------------------------------------
(* Type of every variable; extended_data is never written behind its end.   *)
Mezz == [id : Nat \cup {-1, Unknown}, n : Int, rev : Nat, data : Seq(Seq({0, 1}))]
TypeOK ==
  /\ board \in Boards /\ strong \in BOOLEAN /\ restarts \in BOOLEAN /\ errorKept \in BOOLEAN
  /\ bus \in Buses /\ pins \in {"standard", "3x3g"} /\ cpld \in Phases
  /\ pc \in {"idle", "register", "reset", "word", "retry", "again", "stop", "stopped",
             "store", "done"}
  /\ chan \in Channels /\ at \in Nat \ {0} /\ bits \in Seq({0, 1}) /\ tries \in 0 .. 2
  /\ try3x3g \in BOOLEAN /\ todo \subseteq Channels
  /\ mezz \in Mezz /\ Len(mezz.data) < MaxWords /\ driver \in [Channels -> Mezz]

(* What a lookup should find.                                               *)
Readable == board.words # <<>> /\ Legal(board.words[1])
Answer ==
  CASE board.says = "id" -> Simple(board.id)
    [] board.says = "extended" /\ Readable ->
         [id |-> Id(board.words[1]), n |-> Len(board.words) - 1, rev |-> Rev(board.words[1]),
          data |-> Tail(board.words)]
    [] board.says = "extended" /\ ~Readable -> Simple(-1)
    [] OTHER -> NoMezz

(* A lookup returns the board's identity, whole, on the first legal answer  *)
(* of either set of pins, whatever state an earlier program left the CPLD   *)
(* in when it was killed, unless another lookup got in between.             *)
IdentifiesBoard == pc = "done" /\ disturbed = 0 => mezz = Answer

(* The driver holds nothing or the truth for a channel, also when a program *)
(* is killed between the channels it stores the answer for.                 *)
DriverTellsTruth == disturbed = 0 => \A c \in Channels : driver[c] \in {NoMezz, Answer}

(* A lookup ends, or is killed, also when it is disturbed.                  *)
LookupEnds == pc # "idle" ~> pc = "idle"
=============================================================================
