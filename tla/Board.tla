------------------------------- MODULE Board --------------------------------
(***************************************************************************)
(* Programs, or threads, that set registers of one board through libedt.   *)
(* No lock is held over a call: the accesses of one fall between those of  *)
(* the others (edtApp/lib/libedt.c, the calls of BoardCalls).              *)
(*                                                                         *)
(* Each call has an effect, what it does to each register when nobody      *)
(* interferes, and takes effect on a register with its last write to it.   *)
(* The registers the effects give are compared with those of the board.    *)
(***************************************************************************)
EXTENDS BoardCalls

CONSTANTS Kinds,       \* kinds of board
          Calls,       \* for each, the calls: their accesses, effects and loads
          Callers,     \* programs, or threads
          LongCallers, \* bound: only they make calls of more accesses than
          MaxShort,    \* this
          Initial,     \* contents of the registers at the start
          Interleaved  \* also calls that share no register are interleaved

(* An access; what it is meant to change is what it changes by itself.      *)
Accesses ==
  {a \in [op : {"get", "put", "save", "restore", "change", "again", "store", "select"},
          reg : Regs, set : SUBSET AllBits, clear : SUBSET AllBits, means : SUBSET AllBits,
          pio : BOOLEAN] :
     /\ a.means \subseteq Bits[a.reg]
     /\ a.op \in {"put", "change"} => a.means = a.set \cup a.clear
     /\ a.op = "store" => a.means = Bits[a.reg] /\ a.set \subseteq a.means
     /\ a.op = "restore" => a.clear \subseteq a.means
     /\ a.op = "again" => a.means = a.set
     /\ a.op = "select" => a.pio}
Changes == {e \in [reg : Regs, set : SUBSET AllBits, clear : SUBSET AllBits] :
              e.set \cup e.clear \subseteq Bits[e.reg]}
Loads == [av : Seq(BOOLEAN), synth : Seq(BOOLEAN)]

ASSUME BoardAssumption ==
  /\ Calls \in [Kinds -> Seq([prog : Seq(Accesses), effects : SUBSET Changes, load : Loads])]
  /\ Initial \subseteq {start \in [Regs -> SUBSET AllBits] : \A r \in Regs : start[r] \subseteq Bits[r]}
  /\ LongCallers \subseteq Callers /\ MaxShort \in Nat /\ Interleaved \in BOOLEAN

-----------------------------------------------------------------------------
(* Registers that an access writes, and the bits of them it is meant to     *)
(* change: the reset of a PDV interface also turns continuous mode off.     *)
IsReset(a) == a.reg = "PDV_CMD" /\ a.set = {"reset_intfc"}
Written(a) == IF a.op \in {"get", "save", "select"} THEN {}
              ELSE {a.reg} \cup IF IsReset(a) THEN {"DATA_PATH"} ELSE {}
Touched(a, r) == IF r = a.reg THEN a.means ELSE {"continuous"}

(* Where a call writes a register, the bits of it the call is meant to      *)
(* change, and the registers it uses: those it reaches through the offset   *)
(* are used by reading, too.                                                *)
Places(prog, r) == {i \in DOMAIN prog : r \in Written(prog[i])}
Drives(prog, r) == UNION {Touched(prog[i], r) : i \in Places(prog, r)}
Mapped(a) == IF a.pio THEN {a.reg} ELSE {}
Uses(prog) == UNION {Written(prog[i]) \cup Mapped(prog[i]) : i \in DOMAIN prog}
UsesOffset(prog) == \E i \in DOMAIN prog : prog[i].pio
Shared(p, q) == IF UsesOffset(p) /\ UsesOffset(q) THEN Uses(p) \cup Uses(q)
                ELSE Uses(p) \cap Uses(q)

-----------------------------------------------------------------------------
(* What a call must be like for the properties below to hold of it.         *)
(*                                                                          *)
(* It is careful if what it writes back has been read before in the same    *)
(* call, with nothing in between that it would undo, and if it sets the     *)
(* offset to the register before it uses it.                                *)
Source(prog, i, ops) ==
  {j \in 1 .. i - 1 : prog[j].op \in ops /\ prog[j].reg = prog[i].reg}
Puts(a, r) == a.op = "put" /\ a.reg = r
WritesLess(prog, i, k) ==
  prog[i].reg \in Written(prog[k]) => Touched(prog[k], prog[i].reg) \subseteq prog[i].means
Careful(prog) ==
  \A i \in DOMAIN prog :
    /\ prog[i].op = "put" =>
         \E j \in Source(prog, i, {"get", "put"}) :
           \A k \in j + 1 .. i - 1 : Puts(prog[k], prog[i].reg) \/ WritesLess(prog, i, k)
    /\ prog[i].op = "restore" =>
         \E j \in Source(prog, i, {"save"}) :
           \A k \in j + 1 .. i - 1 : prog[k].op # "save" /\ WritesLess(prog, i, k)
    /\ prog[i].pio /\ prog[i].op # "select" =>
         \E j \in Source(prog, i, {"select"}) : \A k \in j + 1 .. i - 1 : prog[k].op # "select"

(* It has its effect if the last access that is meant to change a bit makes *)
(* of it what the effect says: sets it, clears it, or puts back what was    *)
(* there before the call touched it.                                        *)
Hits(prog, r, b) == {i \in Places(prog, r) : b \in Touched(prog[i], r)}
TurnsOn(a, r, b) == r = a.reg /\ a.op \in {"put", "change", "store"} /\ b \in a.set
TurnsOff(a, r, b) == \/ r # a.reg
                     \/ a.op \in {"put", "change", "store"} /\ b \notin a.set
                     \/ a.op = "restore" /\ b \in a.clear
PutsBack(prog, i, r, b) ==
  \/ /\ prog[i].op = "restore"
     /\ \E j \in Source(prog, i, {"save"}) :
          /\ \A k \in j + 1 .. i - 1 : prog[k].op # "save"
          /\ \A k \in Hits(prog, r, b) : k > j
  \/ /\ prog[i].op = "again"
     /\ \E j \in Source(prog, i, {"get"}) :
          /\ \A k \in j + 1 .. i - 1 : prog[k].reg = r => prog[k].op \notin {"get", "put"}
          /\ \A k \in Hits(prog, r, b) : k > j /\ (k < i => TurnsOff(prog[k], r, b))
Sets(x, r, b) == \E e \in x.effects : e.reg = r /\ b \in e.set
Clears(x, r, b) == \E e \in x.effects : e.reg = r /\ b \in e.clear
HasItsEffect(x) ==
  \A r \in Regs : \A b \in Bits[r] :
    LET prog == x.prog  hits == Hits(prog, r, b) IN
    /\ hits = {} => ~Sets(x, r, b) /\ ~Clears(x, r, b)
    /\ \A i \in hits :
         /\ TurnsOn(prog[i], r, b) \/ TurnsOff(prog[i], r, b) \/ PutsBack(prog, i, r, b)
         /\ (\A k \in hits : k <= i) =>
              /\ Sets(x, r, b) <=> TurnsOn(prog[i], r, b)
              /\ ~Sets(x, r, b) /\ Clears(x, r, b) <=> TurnsOff(prog[i], r, b)

(* The lines over which a clock chip is loaded: the register they are bits  *)
(* of, and how many bits the chip takes in.                                 *)
AvLine(k) == [reg |-> AvReg(k = "pcd"), clk |-> "clk", data |-> "data",
              select |-> {"selav"}, load |-> {}, bits |-> 24]
SynthLine == [reg |-> "PAL2", clk |-> "sclk", data |-> "dat",
              select |-> {}, load |-> {"stb"}, bits |-> 14]
Wires(line) == {line.clk, line.data} \cup line.select \cup line.load

(* How a call has left a bit before its access i, and where it makes it     *)
(* rise.                                                                    *)
Hit(a, r, b) == r \in Written(a) /\ b \in Touched(a, r)
LastHit(prog, r, b, i, j) == Hit(prog[j], r, b) /\ \A k \in j + 1 .. i - 1 : ~Hit(prog[k], r, b)
LeftOn(prog, r, b, i) == \E j \in 1 .. i - 1 : TurnsOn(prog[j], r, b) /\ LastHit(prog, r, b, i, j)
LeftOff(prog, r, b, i) == \E j \in 1 .. i - 1 : TurnsOff(prog[j], r, b) /\ LastHit(prog, r, b, i, j)
Raises(prog, r, b) == {i \in Hits(prog, r, b) : LeftOff(prog, r, b, i) /\ LeftOn(prog, r, b, i + 1)}
Spares(prog, r, b, i) == LeftOn(prog, r, b, i) \/ LeftOff(prog, r, b, i + 1)

(* It loads the word if it raises the clock once for each bit, with the     *)
(* chip selected and the bit on the data line, not otherwise while it is    *)
(* selected, and at last the strobe; and if what it restores is all wires.  *)
Before(clocks, i) == Cardinality({k \in clocks : k < i})
ClocksIn(prog, line, word) ==
  LET r == line.reg  clocks == Raises(prog, r, line.clk) IN
  /\ Cardinality(clocks) = line.bits /\ Len(word) = line.bits
  /\ \A i \in clocks :
       /\ \A s \in line.select : LeftOn(prog, r, s, i) /\ LeftOn(prog, r, s, i + 1)
       /\ IF word[Before(clocks, i) + 1] THEN LeftOn(prog, r, line.data, i + 1)
                                         ELSE LeftOff(prog, r, line.data, i + 1)
  /\ \A i \in Hits(prog, r, line.clk) \ clocks :
       Spares(prog, r, line.clk, i) \/ \E s \in line.select : LeftOff(prog, r, s, i + 1)
LastStrobe(prog, line, b, p) ==
  /\ p \in Raises(prog, line.reg, b) /\ \A i \in Raises(prog, line.reg, line.clk) : i < p
  /\ \A i \in Hits(prog, line.reg, b) : i > p => Spares(prog, line.reg, b, i)
Feeds(prog, line, word) ==
  /\ ~UsesOffset(prog) /\ Wires(line) \subseteq Drives(prog, line.reg)
  /\ \A i \in DOMAIN prog : prog[i].reg = line.reg /\ prog[i].op = "restore" =>
                               Wires(line) \subseteq prog[i].means
  /\ ClocksIn(prog, line, word)
  /\ \A b \in line.load : \E p \in DOMAIN prog : LastStrobe(prog, line, b, p)
LoadsItsWords(x, k) ==
  /\ x.load.av # <<>> => Feeds(x.prog, AvLine(k), x.load.av)
  /\ x.load.synth # <<>> => Feeds(x.prog, SynthLine, x.load.synth)

CarefulOn(k) == \A n \in DOMAIN Calls[k] : Careful(Calls[k][n].prog)
EffectiveOn(k) == \A n \in DOMAIN Calls[k] : HasItsEffect(Calls[k][n])
LoadingOn(k) == \A n \in DOMAIN Calls[k] : LoadsItsWords(Calls[k][n], k)
ProperKinds == {k \in Kinds : CarefulOn(k) /\ EffectiveOn(k) /\ LoadingOn(k)}

VARIABLES
  kind,     \* kind of board
  reg,      \* the registers
  offset,   \* register that mapped accesses reach
  av, shift, synth, \* bits clocked into the AV9110, into the MC12430, and loaded there
  call,     \* call a caller is in: an index of Calls, or 0
  pc,       \* next access of that call
  copy, saved, \* the caller's copies of registers
  made,     \* callers that have made their call
  ideal,    \* (history) the registers as the effects of the calls give them
  clobbered, \* (history) registers where a write undid what another caller had written
  crossed,  \* (history) registers where a bit was written that another call in progress drives
  overlapped, \* (history) registers two calls in progress at once both use
  loaded    \* (history) what a finished call was to load, and what the chips have

chips == <<av, shift, synth>>
caller == <<call, pc, copy, saved, made>>
history == <<ideal, clobbered, crossed, overlapped, loaded>>
vars == <<kind, reg, offset, chips, caller, history>>

NoCopy == [r \in {} |-> {}]
With(f, r, v) == [s \in DOMAIN f \cup {r} |-> IF s = r THEN v ELSE f[s]]

Init ==
  /\ kind \in Kinds
  /\ reg \in Initial
  /\ offset = "CMD" /\ av = <<>> /\ shift = <<>> /\ synth = <<>>
  /\ call = [c \in Callers |-> 0] /\ pc = [c \in Callers |-> 1] /\ made = {}
  /\ copy = [c \in Callers |-> NoCopy] /\ saved = [c \in Callers |-> {}]
  /\ ideal = reg /\ clobbered = {} /\ crossed = {} /\ overlapped = {}
  /\ loaded = [want |-> NoLoad, got |-> NoLoad]

Inside == {c \in Callers : call[c] # 0}
Prog(c) == Calls[kind][call[c]].prog
Now(c) == Prog(c)[pc[c]]

(* A call each.  Accesses of calls with no register in common commute: they *)
(* need not be interleaved.                                                 *)
Start(c, n) ==
  /\ c \notin made /\ c \notin Inside
  /\ c \in LongCallers \/ Len(Calls[kind][n].prog) <= MaxShort
  /\ Interleaved \/ \A d \in Inside : Shared(Calls[kind][n].prog, Prog(d)) # {}
  /\ call' = [call EXCEPT ![c] = n] /\ made' = made \cup {c}
  /\ overlapped' = overlapped \cup UNION {Shared(Calls[kind][n].prog, Prog(d)) : d \in Inside}
  /\ UNCHANGED <<kind, reg, offset, chips, pc, copy, saved, ideal, clobbered, crossed, loaded>>

-----------------------------------------------------------------------------
(* The register an access reaches, and what it writes there.                *)
Target(a) == IF a.pio THEN offset ELSE a.reg

Value(c, a) ==
  CASE a.op = "put" -> (copy[c][a.reg] \ a.clear) \cup a.set
    [] a.op = "restore" -> saved[c] \ a.clear
    [] a.op = "change" -> (reg[a.reg] \ a.clear) \cup a.set
    [] a.op = "again" -> reg[a.reg] \cup (copy[c][a.reg] \cap a.set)
    [] a.op = "store" -> a.set

(* What the hardware makes of a write: the interface is reset, a rising     *)
(* clock takes in a bit, a rising strobe loads what was taken in.           *)
Rises(bit, r, v) == bit \in v /\ bit \notin reg[r]
Taken(line, bits, r, v) ==
  IF r = line.reg /\ Rises(line.clk, r, v) /\ line.select \subseteq v \cap reg[r]
  THEN Append(IF Len(bits) = line.bits THEN Tail(bits) ELSE bits, line.data \in v)
  ELSE bits
Hardware(a, v) ==
  LET r == Target(a) IN
  /\ reg' = [[reg EXCEPT ![r] = v] EXCEPT !["DATA_PATH"] = @ \ IF IsReset(a) THEN {"continuous"} ELSE {}]
  /\ av' = Taken(AvLine(kind), av, r, v) /\ shift' = Taken(SynthLine, shift, r, v)
  /\ synth' = IF r = "PAL2" /\ Rises("stb", r, v) THEN shift ELSE synth

(* The effects of the call on the registers it writes for the last time.    *)
Effects(c, a) ==
  {e \in Calls[kind][call[c]].effects :
     e.reg \in Written(a) /\ \A i \in Places(Prog(c), e.reg) : i <= pc[c]}
Effect(c, a) ==
  LET effects == Effects(c, a) IN
  [r \in Regs |-> LET mine == {e \in effects : e.reg = r}
                  IN (ideal[r] \ UNION {e.clear : e \in mine}) \cup UNION {e.set : e \in mine}]

Write(c, a) ==
  LET r == Target(a)  v == Value(c, a)
      changed == (reg[r] \ v) \cup (v \ reg[r])
  IN /\ Hardware(a, v)
     /\ copy' = IF a.op = "put" THEN [copy EXCEPT ![c] = With(@, a.reg, v)] ELSE copy
     /\ ideal' = Effect(c, a)
     /\ clobbered' = clobbered \cup IF r = a.reg /\ changed \subseteq a.means THEN {} ELSE {r, a.reg}
     /\ crossed' = crossed \cup
          {s \in {r} \cup (Written(a) \ {a.reg}) :
             \E d \in Inside \ {c} :
               (IF s = r THEN changed \cup a.means ELSE Touched(a, s)) \cap Drives(Prog(d), s) # {}}
     /\ UNCHANGED <<offset, saved>>

(* Reads.  A mapped read of another register is counted with the losses.    *)
Read(c, a) ==
  /\ \/ /\ a.op = "get" /\ copy' = [copy EXCEPT ![c] = With(@, a.reg, reg[Target(a)])]
        /\ UNCHANGED <<offset, saved>>
     \/ a.op = "save" /\ saved' = [saved EXCEPT ![c] = reg[a.reg]] /\ UNCHANGED <<offset, copy>>
     \/ a.op = "select" /\ offset' = a.reg /\ UNCHANGED <<copy, saved>>
  /\ clobbered' = clobbered \cup IF a.op = "get" /\ Target(a) # a.reg THEN {a.reg} ELSE {}
  /\ UNCHANGED <<reg, chips, ideal, crossed>>

Move(c) ==
  /\ pc' = [pc EXCEPT ![c] = @ + 1]
  /\ UNCHANGED <<call, made, loaded>>

(* The call returns: what it was to load is compared.                       *)
Finish(c) ==
  LET want == Calls[kind][call[c]].load IN
  /\ call' = [call EXCEPT ![c] = 0] /\ pc' = [pc EXCEPT ![c] = 1]
  /\ loaded' = IF want = NoLoad THEN loaded
               ELSE [want |-> want, got |-> [av |-> av, synth |-> synth]]
  /\ copy' = [copy EXCEPT ![c] = NoCopy] /\ saved' = [saved EXCEPT ![c] = {}]
  /\ UNCHANGED <<kind, reg, offset, chips, made, ideal, clobbered, crossed, overlapped>>

Step(c) ==
  /\ c \in Inside /\ pc[c] <= Len(Prog(c))
  /\ IF Written(Now(c)) = {} THEN Read(c, Now(c)) ELSE Write(c, Now(c))
  /\ Move(c)
  /\ UNCHANGED <<kind, overlapped>>

Return(c) == c \in Inside /\ pc[c] > Len(Prog(c)) /\ Finish(c)

Next == \E c \in Callers : (\E n \in DOMAIN Calls[kind] : Start(c, n)) \/ Step(c) \/ Return(c)

Spec == Init /\ [][Next]_vars

-----------------------------------------------------------------------------
(* Type of every variable.                                                  *)
TypeOK ==
  /\ kind \in Kinds /\ DOMAIN reg = Regs /\ offset \in Regs
  /\ \A r \in Regs : reg[r] \subseteq AllBits /\ ideal[r] \subseteq Bits[r]
  /\ \A r \in Regs \ clobbered : reg[r] \subseteq Bits[r]
  /\ av \in Seq(BOOLEAN) /\ shift \in Seq(BOOLEAN) /\ synth \in Seq(BOOLEAN)
  /\ \A c \in Callers : call[c] \in 0 .. Len(Calls[kind]) /\ pc[c] \in Nat \ {0}
  /\ made \subseteq Callers
  /\ clobbered \subseteq Regs /\ crossed \subseteq Regs /\ overlapped \subseteq Regs

(* The calls are careful, have their effects and load their words.          *)
CallsProper == kind \in ProperKinds

(* A register has what the calls have made of it so far, other bits as they *)
(* were, when no call is between its first and its last write to it; unless *)
(* a write undid another caller's change or wrote a bit another call was    *)
(* driving.                                                                 *)
Settled(r) ==
  \A c \in Inside : LET places == Places(Prog(c), r)
                    IN (\A i \in places : pc[c] <= i) \/ (\A i \in places : pc[c] > i)
CallsDoWhatTheySay ==
  \A r \in Regs \ (clobbered \cup crossed) : reg[r] # ideal[r] => ~Settled(r)

(* A caller alone on a register loses nothing, however many times the calls *)
(* it is made of read, change and write it.                                 *)
NothingLostAlone == clobbered \cup crossed \subseteq overlapped

(* The chips have been loaded with the word asked for, every bit in its     *)
(* place, whatever other callers did to the other bits of the register that *)
(* the chip is reached through.                                             *)
ClockLoaded ==
  /\ loaded.want.av # <<>> /\ AvLine(kind).reg \notin crossed => loaded.got.av = loaded.want.av
  /\ loaded.want.synth # <<>> /\ SynthLine.reg \notin crossed => loaded.got.synth = loaded.want.synth
=============================================================================
